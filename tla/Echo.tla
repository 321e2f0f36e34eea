-------------------------------- MODULE Echo ---------------------------------
(***************************************************************************)
(* echoserver.c and echoclient.c.  The server's buffer is never cleared:   *)
(* strlen() goes on to the first zero, over what an earlier client or the  *)
(* stack has left there, and over what follows the buffer.  A byte is the  *)
(* client that sent it, or Zero, or Stack, which is not zero.              *)
(***************************************************************************)
EXTENDS Socket

CONSTANTS
  Zero, Stack,
  LengthOf,   \* of each client's message: -m "" is one of no bytes
  Reach,      \* the bytes, the buffer's first, before one that is surely zero
  Width       \* of the client's print: "%.15s"

ASSUME EchoAssumption ==
  /\ LengthOf \in [Clients -> Nat] /\ Width \in Nat
  /\ Reach \in Nat /\ BUFSIZE <= Reach
  /\ Zero # Stack /\ {Zero, Stack} \cap Clients = {}

VARIABLES
  message,    \* the server's buffer and what follows it on the stack
  bytesRead,  \* what of each client's message the server has read
  printed     \* what each client printed

echoVars == <<message, bytesRead, printed>>

EchoInit ==
  /\ message \in {b \in [1..Reach + 1 -> {Zero, Stack}] : b[Reach + 1] = Zero}
  /\ bytesRead = [c \in Clients |-> 0]
  /\ printed = [c \in Clients |-> <<>>]

(***************************************************************************)
(* The server.                                                             *)
(***************************************************************************)
StartEchoServer == program = "echo" /\ Listen /\ UNCHANGED echoVars
AcceptEcho == program = "echo" /\ (Accept \/ Resolve) /\ UNCHANGED echoVars

EchoServer == program = "echo" /\ UNCHANGED <<program, clientSide, printed>>

(* Mutant: the buffer is filled from its end.                              *)
Filled(part) ==
  [n \in DOMAIN message |->
     IF n > BUFSIZE - Len(part) /\ n <= BUFSIZE THEN connfd ELSE message[n]]
(* read() fills the start of the buffer and puts no zero after it.         *)
Overwritten(part) ==
  [n \in DOMAIN message |-> IF n <= Len(part) THEN part[n] ELSE message[n]]

(* Mutant: the server reads until it has a buffer or the client has gone.  *)
ReadWhole ==
  /\ EchoServer /\ spc = "serve" /\ NoFault
  /\ ~reset[connfd] /\ (Len(up[connfd]) >= BUFSIZE \/ "client" \in closed[connfd])
  /\ \E part \in Parts(up[connfd]) \cup {<<>>} :
       /\ up' = [up EXCEPT ![connfd] = After(@, part)]
       /\ message' = Overwritten(part)
       /\ bytesRead' = [bytesRead EXCEPT ![connfd] = Len(part)]
  /\ spc' = "write"
  /\ UNCHANGED <<listening, backlog, connfd, server_exit, closed, reset, down>>

(* read(): a part of what has arrived; nothing, if the client has gone; or *)
(* an error, which ends the server.                                        *)
ReadMessage ==
  /\ EchoServer /\ spc = "serve" /\ NoFault
  /\ \/ /\ \E part \in Parts(up[connfd]) :
             /\ up' = [up EXCEPT ![connfd] = After(@, part)]
             /\ message' = Overwritten(part)
             /\ bytesRead' = [bytesRead EXCEPT ![connfd] = Len(part)]
        /\ spc' = "write"
        /\ UNCHANGED <<listening, backlog, connfd, server_exit, closed, reset>>
     \/ /\ up[connfd] = <<>> /\ "client" \in closed[connfd] /\ ~reset[connfd]
        /\ spc' = "write"
        /\ UNCHANGED <<listening, backlog, connfd, server_exit, closed, reset, up, message, bytesRead>>
     \/ /\ reset[connfd] /\ ServerExits("1")
        /\ UNCHANGED <<up, message, bytesRead>>
  /\ UNCHANGED down

strlen == CHOOSE n \in 0..Reach : message[n + 1] = Zero /\ \A k \in 1..n : message[k] # Zero

Reply == SubSeq(message, 1, strlen)

(* The close() after it resets a connection with something unread in it.   *)
WriteReply ==
  /\ EchoServer /\ spc = "write"
  /\ \/ /\ IF Reply = <<>> THEN NoFault /\ UNCHANGED down ELSE WriteSends(Reply)
        /\ closed' = [closed EXCEPT ![connfd] = @ \cup {"server"}]
        /\ reset' = [reset EXCEPT ![connfd] = @ \/ up[connfd] # <<>>]
        /\ spc' = "accept" /\ connfd' = NoClient
        /\ UNCHANGED <<listening, backlog, server_exit>>
     \/ NoFault /\ Reply # <<>> /\ WriteFails /\ UNCHANGED down
  /\ UNCHANGED <<up, message, bytesRead>>

EchoServerStep == StartEchoServer \/ AcceptEcho \/ ReadMessage \/ WriteReply

(***************************************************************************)
(* A client.                                                               *)
(***************************************************************************)
ConnectEcho(c) == program = "echo" /\ Connect(c) /\ UNCHANGED echoVars

EchoClient(c) ==
  program = "echo" /\ UNCHANGED <<program, serverSide, reset, message, bytesRead>>

(* A part of the message may be written, and the client does not look.  Of *)
(* an empty message nothing is sent, and write() succeeds.                 *)
SendMessage(c) ==
  /\ EchoClient(c) /\ cpc[c] = "connected"
  /\ \/ /\ ~reset[c]
        /\ \E n \in IF LengthOf[c] = 0 THEN {0} ELSE 1..LengthOf[c] :
             /\ IF n < LengthOf[c] THEN Fault ELSE NoFault
             /\ up' = [up EXCEPT ![c] = [k \in 1..n |-> c]]
        /\ cpc' = [cpc EXCEPT ![c] = "receive"]
        /\ UNCHANGED <<exit, closed>>
     \/ reset[c] /\ NoFault /\ ClientExits(c, ErrorStatus) /\ UNCHANGED up
  /\ UNCHANGED <<down, printed>>

(* One read(), of whatever has come, which ends with no zero: printf goes  *)
(* on over what the client's stack holds, up to a zero or its width.       *)
Shown(part) ==
  LET text == part \o [k \in 1..Width |-> Stack]
  IN {SubSeq(text, 1, n) : n \in {k \in 0..Width : k >= Len(part) \/ k = Width}}

ReceiveReply(c) ==
  /\ EchoClient(c) /\ cpc[c] = "receive" /\ NoFault
  /\ \/ \E part \in Parts(down[c]) : \E text \in Shown(part) :
          /\ down' = [down EXCEPT ![c] = After(@, part)]
          /\ printed' = [printed EXCEPT ![c] = text]
     \/ /\ AtEof(c) /\ \E text \in Shown(<<>>) : printed' = [printed EXCEPT ![c] = text]
        /\ UNCHANGED down
     \/ AtError(c) /\ UNCHANGED <<down, printed>>
  /\ ClientExits(c, ErrorStatus)
  /\ UNCHANGED up

EchoClientStep(c) == ConnectEcho(c) \/ SendMessage(c) \/ ReceiveReply(c)

EchoBreak(c) == program = "echo" /\ (Break(c) \/ Kill(c)) /\ UNCHANGED echoVars

(* What a client prints begins with its own bytes, as many as the server   *)
(* read of them or as the client's one read() and its width let through;   *)
(* what follows is of others: bytes of a client served before that had     *)
(* sent more, or of a stack (echoserver.c:140, strlen over a buffer that   *)
(* nobody clears, and past its end).                                       *)
OwnBytesFirst ==
  \A c \in Clients : \A n \in DOMAIN printed[c] :
    /\ printed[c][n] = c => n <= bytesRead[c]
    /\ printed[c][n] \in Clients \ {c} => bytesRead[c] < n /\ n <= bytesRead[printed[c][n]]
    /\ n > 1 /\ printed[c][n] = c => printed[c][n - 1] = c
=============================================================================
