------------------------------ MODULE Samples --------------------------------
(***************************************************************************)
(* The sample programs of the lab: a behaviour is one of transferserver    *)
(* with its clients, or of echoserver with its clients.                    *)
(***************************************************************************)
EXTENDS Transfer, Echo

vars == <<socketVars, transferVars, echoVars>>

Init ==
  /\ SocketInit /\ TransferInit /\ EchoInit
  /\ program = "transfer" => message = [n \in DOMAIN message |-> Zero]

ServerStep ==
  \/ TransferServerStep /\ UNCHANGED echoVars
  \/ EchoServerStep /\ UNCHANGED transferVars

ClientStep(c) ==
  \/ TransferClientStep(c) /\ UNCHANGED echoVars
  \/ EchoClientStep(c) /\ UNCHANGED transferVars

BreakStep(c) ==
  \/ TransferBreak(c) /\ UNCHANGED echoVars
  \/ EchoBreak(c) /\ UNCHANGED transferVars

Next == ServerStep \/ \E c \in Clients : ClientStep(c) \/ BreakStep(c)

(* The processes run: each takes its next step when it can.                *)
Fairness == WF_vars(ServerStep) /\ \A c \in Clients : WF_vars(ClientStep(c))

Spec == Init /\ [][Next]_vars /\ Fairness

(* A client of echoserver that sent nothing, with -m "", and waits for the *)
(* answer of a server that waits for its message; and those behind it.     *)
WaitsOnEmpty(c) ==
  /\ program = "echo" /\ spc = "serve" /\ cpc[connfd] = "receive"
  /\ LengthOf[connfd] = 0 /\ up[connfd] = <<>>
  /\ c \in {connfd} \cup ToSet(backlog)

(* Every client ends, whatever fails, or it waits for ever for an empty    *)
(* message: its own, or of the client that is served (echoclient.c:111-118 *)
(* and echoserver.c:133 are both in read() then).  Otherwise no server     *)
(* keeps a client waiting for an answer to a message it has read a part    *)
(* of, or for a connection it will never accept (transferserver.c:112,     *)
(* echoserver.c:109-145).                                                  *)
PeersEnd == \A c \in Clients : <>[](exit[c] # "none" \/ WaitsOnEmpty(c))
=============================================================================
