------------------------------- MODULE GetFile -------------------------------
(***************************************************************************)
(* The GETFILE protocol: the clients of GfClient and the server of         *)
(* GfServer over the connections of Tcp.                                   *)
(***************************************************************************)
EXTENDS GfServer, GfClient

vars == <<tcpVars, serverVars, clientVars>>

Init == TcpInit /\ ServerInit /\ ClientInit

(* Every call has returned, or its process is gone.                        *)
Over(c) == cpc[c] \in {"returned", "killed"}

(* With every call over, the server waits in accept() for ever, or is gone.*)
Rest ==
  /\ \A c \in Calls : Over(c)
  /\ UNCHANGED vars

Next ==
  \/ ServerStep /\ UNCHANGED clientVars
  \/ \E p \in Paths : Shrink(p) /\ UNCHANGED clientVars
  \/ \E c \in Calls :
       \/ ClientStep(c) /\ UNCHANGED serverVars
       \/ Quit(c) /\ UNCHANGED serverVars
       \/ Break(c) /\ UNCHANGED <<serverVars, clientVars>>
  \/ Rest

Spec == Init /\ [][Next]_vars

(* The server's thread and each client's thread are scheduled; nothing is  *)
(* assumed of the network.                                                 *)
Fairness ==
  /\ WF_vars(ServerStep /\ UNCHANGED clientVars)
  /\ \A c \in Calls : WF_vars(ClientStep(c) /\ UNCHANGED serverVars)

FairSpec == Spec /\ Fairness

-----------------------------------------------------------------------------
(* What the protocol promises. *)

TypeOK ==
  /\ listening \in BOOLEAN
  /\ backlog \in Seq(Calls)
  /\ asked \in [Calls -> BOOLEAN]
  /\ gone \in [Calls -> BOOLEAN]
  /\ shut \in [Calls -> BOOLEAN]
  /\ broken \in [Calls -> BOOLEAN]
  /\ fault \in [Calls -> {"none", "pending", "reported"}]
  /\ spc \in ServerStates
  /\ conn \in Calls
  /\ fds \in 0 .. MaxFds
  /\ fileLen \in 0 .. MaxSize
  /\ sent \in 0 .. MaxSize
  /\ freed \in 0 .. 2
  /\ partial \in SUBSET Calls
  /\ aborted \in SUBSET Calls
  /\ cpc \in [Calls -> ClientStates]
  /\ word \in [Calls -> {"none", "OK", "FILE_NOT_FOUND"}]
  /\ status \in [Calls -> {"INVALID", "OK", "FILE_NOT_FOUND", "ERROR"}]
  /\ filelen \in [Calls -> 0 .. MaxSize]
  /\ ret \in [Calls -> {"none", "0", "failed"}]

(* A client is told FILE_NOT_FOUND only of a path the content does not     *)
(* have, or when one read() returned a part of its request, which the      *)
(* server took for the whole (gfserver.c:157-171).                         *)
NotFoundMeansMissing ==
  \A c \in Calls :
    status[c] = "FILE_NOT_FOUND" => PathOf[c] \notin content \/ c \in partial

(* What is under way to a client: the status, then the length, then at     *)
(* most as much content as the length says; no content follows             *)
(* FILE_NOT_FOUND, whatever fails.                                         *)
Unread(c) == {k \in DOMAIN down[c] : down[c][k].kind = "data"}
ResponseShape ==
  \A c \in Calls :
    /\ \A k \in DOMAIN down[c] :
         /\ down[c][k].kind = "status" => k = 1 /\ word[c] = "none"
         /\ down[c][k].kind = "length" =>
              k > 1 \/ (word[c] = "OK" /\ cpc[c] \in {"header", "killed"})
         /\ down[c][k].kind = "data" => k > 1 \/ word[c] = "OK"
    /\ (\E k \in DOMAIN down[c] : down[c][k].kind = "status" /\ down[c][k].val = "FILE_NOT_FOUND")
         => Len(down[c]) = 1
    /\ word[c] = "FILE_NOT_FOUND" => down[c] = <<>> /\ received[c] = 0

(* On a connection that stands, each unit the server counts in             *)
(* bytes_transferred has been received or is under way.                    *)
NothingLost ==
  spc \in {"body", "free"} /\ found /\ ~gone[conn] /\ ~broken[conn] =>
    received[conn] + Cardinality(Unread(conn)) = sent

(* Every call of gfc_perform returns whatever breaks, quits or runs out,   *)
(* but for one whose content the handler gave up on, because the file had  *)
(* shrunk or a write was short: its connection stays open.                 *)
CallsEndButForAborts == \A c \in Calls : <>(Over(c) \/ c \in aborted)
=============================================================================
