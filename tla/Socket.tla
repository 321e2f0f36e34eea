------------------------------- MODULE Socket --------------------------------
(***************************************************************************)
(* What the two sample servers and clients of the lab have in common: the  *)
(* setting up of their sockets, one connection after another, read() and   *)
(* write(), and exit().  The bytes under way are sequences; what a byte is *)
(* is left to the programs.                                                *)
(***************************************************************************)
EXTENDS Integers, SequencesExt

CONSTANTS
  Clients,    \* the client processes
  NoClient,   \* the server's connfd when it has none
  BUFSIZE,
  MaxFaults   \* bound: calls of the system that fail, over a whole behaviour

ASSUME SocketAssumption ==
  /\ IsFiniteSet(Clients) /\ NoClient \notin Clients
  /\ BUFSIZE \in Nat \ {0} /\ MaxFaults \in Nat

VARIABLES
  program,    \* "transfer" or "echo": which pair of programs this is
  listening,
  backlog,    \* connections that are not accepted yet
  spc,        \* where the server is,
  connfd,     \* its connection
  server_exit,\* and its exit status
  cpc,        \* where each client is
  exit,       \* and its exit status
  up,         \* bytes under way to the server
  down,       \* and to each client
  closed,     \* the ends of each connection that are closed
  reset,      \* connections that broke
  faults

network == <<up, down, closed, reset>>
clientSide == <<cpc, exit>>
serverSide == <<listening, backlog, spc, connfd, server_exit>>
socketVars == <<program, network, clientSide, serverSide, faults>>

SocketInit ==
  /\ program \in {"transfer", "echo"}
  /\ listening = FALSE /\ backlog = <<>>
  /\ spc = "start" /\ connfd = NoClient /\ server_exit = "none"
  /\ cpc = [c \in Clients |-> "start"] /\ exit = [c \in Clients |-> "none"]
  /\ up = [c \in Clients |-> <<>>] /\ down = [c \in Clients |-> <<>>]
  /\ closed = [c \in Clients |-> {}]
  /\ reset = [c \in Clients |-> FALSE]
  /\ faults = 0

Fault == faults < MaxFaults /\ faults' = faults + 1
NoFault == faults' = faults

(***************************************************************************)
(* The server.  When its process ends, the connection it has is closed, or *)
(* reset if there is something in it that was not read, and those it has   *)
(* not accepted are reset.                                                 *)
(***************************************************************************)
ServerExits(status) ==
  /\ spc' = "ended" /\ server_exit' = status
  /\ listening' = FALSE /\ backlog' = <<>>
  /\ connfd' = NoClient
  /\ closed' = [c \in Clients |-> IF c = connfd THEN closed[c] \cup {"server"} ELSE closed[c]]
  /\ reset' = [c \in Clients |-> \/ reset[c]
                                 \/ c \in ToSet(backlog)
                                 \/ c = connfd /\ up[c] # <<>>]

(* The options (-h ends the program with 0, a wrong one with 1), socket,   *)
(* bind and listen.                                                        *)
Listen ==
  /\ spc = "start"
  /\ \/ /\ NoFault
        /\ spc' = "accept" /\ listening' = TRUE
        /\ UNCHANGED <<backlog, connfd, server_exit, closed, reset>>
     \/ Fault /\ \E status \in {"0", "1"} : ServerExits(status)
  /\ UNCHANGED <<program, up, down, clientSide>>

Accept ==
  /\ spc = "accept" /\ backlog # <<>>
  /\ \/ /\ NoFault
        /\ spc' = "resolve" /\ connfd' = Head(backlog) /\ backlog' = Tail(backlog)
        /\ UNCHANGED <<listening, server_exit, closed, reset>>
     \/ Fault /\ ServerExits("1")
  /\ UNCHANGED <<program, up, down, clientSide>>

(* gethostbyaddr: a client whose name is not known ends the server.        *)
Resolve ==
  /\ spc = "resolve"
  /\ \/ /\ NoFault /\ spc' = "serve"
        /\ UNCHANGED <<listening, backlog, connfd, server_exit, closed, reset>>
     \/ Fault /\ ServerExits("1")
  /\ UNCHANGED <<program, up, down, clientSide>>

(***************************************************************************)
(* The clients.                                                            *)
(***************************************************************************)
ClientExits(c, status) ==
  /\ cpc' = [cpc EXCEPT ![c] = "ended"]
  /\ exit' = [exit EXCEPT ![c] = status]
  /\ closed' = [closed EXCEPT ![c] = @ \cup {"client"}]

(* error() exits with 1, in the client of echo with 0.                     *)
ErrorStatus == IF program = "echo" THEN "0" ELSE "1"

(* The options, gethostbyname, which exits with 0 for a name that is not   *)
(* known, and connect, which fails when nobody listens.                    *)
Connect(c) ==
  /\ cpc[c] = "start"
  /\ \/ /\ listening /\ NoFault
        /\ backlog' = Append(backlog, c)
        /\ cpc' = [cpc EXCEPT ![c] = "connected"]
        /\ UNCHANGED <<exit, closed>>
     \/ Fault /\ (\E status \in {"0", "1"} : ClientExits(c, status)) /\ UNCHANGED backlog
     \/ ~listening /\ NoFault /\ ClientExits(c, ErrorStatus) /\ UNCHANGED backlog
  /\ UNCHANGED <<program, up, down, reset, listening, spc, connfd, server_exit>>

(***************************************************************************)
(* The connection: a read() returns any part of what has arrived, at most  *)
(* the size of the buffer.                                                 *)
(***************************************************************************)
Parts(bytes) ==
  {SubSeq(bytes, 1, n) : n \in 1..(IF Len(bytes) < BUFSIZE THEN Len(bytes) ELSE BUFSIZE)}
After(bytes, part) == SubSeq(bytes, Len(part) + 1, Len(bytes))

AtEof(c) == down[c] = <<>> /\ "server" \in closed[c] /\ ~reset[c]
AtError(c) == down[c] = <<>> /\ reset[c]

(* The connection breaks: what is under way may be lost at its end.        *)
Break(c) ==
  /\ cpc[c] \notin {"start", "ended"} /\ "server" \notin closed[c] /\ ~reset[c]
  /\ Fault
  /\ reset' = [reset EXCEPT ![c] = TRUE]
  /\ \E n \in 0..Len(down[c]) : down' = [down EXCEPT ![c] = SubSeq(@, 1, n)]
  /\ UNCHANGED <<program, up, closed, clientSide, serverSide>>

(* A client is killed.                                                     *)
Kill(c) ==
  /\ cpc[c] \notin {"start", "ended"} /\ Fault /\ ClientExits(c, "killed")
  /\ UNCHANGED <<program, up, down, reset, serverSide>>

(* write() by the server sends all or, when a fault occurs, a part; it     *)
(* succeeds also when the client has gone, and what it sends is lost.      *)
WriteSends(bytes) ==
  \E n \in 1..Len(bytes) :
    /\ IF n < Len(bytes) THEN Fault ELSE NoFault
    /\ down' = IF "client" \in closed[connfd] \/ reset[connfd] THEN down
               ELSE [down EXCEPT ![connfd] = @ \o SubSeq(bytes, 1, n)]

(* Or it fails, with an error or with SIGPIPE: either ends the server.     *)
WriteFails == ("client" \in closed[connfd] \/ reset[connfd]) /\ ServerExits("1")
=============================================================================
