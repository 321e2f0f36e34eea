------------------------------ MODULE Transfer -------------------------------
(***************************************************************************)
(* transferserver.c sends one file to the first client and ends;           *)
(* transferclient.c stores what it reads.  A byte is its place in the file.*)
(***************************************************************************)
EXTENDS Socket

CONSTANTS Size  \* of the file

ASSUME SizeAssumption == Size \in Nat

VARIABLES
  position,  \* of fread() in the file
  buf,       \* what was read and is to be written
  output,    \* each client's file: Old until fopen() has cut it
  unseen     \* what went wrong and no program reports

Old == <<0>>
File == [n \in 1..Size |-> n]
transferVars == <<position, buf, output, unseen>>

TransferInit == position = 0 /\ buf = <<>> /\ output = [c \in Clients |-> Old] /\ unseen = {}

(***************************************************************************)
(* The server.                                                             *)
(***************************************************************************)
StartTransferServer == program = "transfer" /\ Listen /\ UNCHANGED transferVars
AcceptTransfer == program = "transfer" /\ (Accept \/ Resolve) /\ UNCHANGED transferVars

TransferServer == program = "transfer" /\ UNCHANGED <<program, clientSide, up, output>>

OpenFile ==
  /\ TransferServer /\ spc = "serve"
  /\ \/ /\ NoFault /\ spc' = "read"
        /\ UNCHANGED <<listening, backlog, connfd, server_exit, closed, reset>>
     \/ Fault /\ ServerExits("1")
  /\ UNCHANGED <<down, position, buf, unseen>>

(* fread() reads a buffer or what is left; an error looks like the end.    *)
ReadFile ==
  /\ TransferServer /\ spc = "read"
  /\ \/ /\ position < Size /\ NoFault
        /\ position' = IF Size - position < BUFSIZE THEN Size ELSE position + BUFSIZE
        /\ buf' = SubSeq(File, position + 1, position')
        /\ spc' = "write"
        /\ UNCHANGED <<listening, backlog, connfd, server_exit, closed, reset, unseen>>
     \/ /\ position = Size /\ NoFault /\ ServerExits("0")
        /\ UNCHANGED <<position, buf, unseen>>
     \/ /\ position < Size /\ Fault /\ ServerExits("0")
        /\ unseen' = unseen \cup {"fread"}
        /\ UNCHANGED <<position, buf>>
  /\ UNCHANGED down

(* Mutant: what follows a part that was written is sent from its start.    *)
WriteFileAgain ==
  /\ TransferServer /\ spc = "write"
  /\ WriteSends(buf)
  /\ spc' = IF faults' # faults THEN "write" ELSE "read"
  /\ UNCHANGED <<listening, backlog, connfd, server_exit, closed, reset, position, buf, unseen>>

(* A part of the buffer may have been written: only an error is looked at. *)
WriteFile ==
  /\ TransferServer /\ spc = "write"
  /\ \/ /\ WriteSends(buf) /\ spc' = "read"
        /\ unseen' = IF faults' # faults THEN unseen \cup {"short"} ELSE unseen
        /\ UNCHANGED <<listening, backlog, connfd, server_exit, closed, reset>>
     \/ NoFault /\ WriteFails /\ UNCHANGED <<down, unseen>>
  /\ UNCHANGED <<position, buf>>

TransferServerStep ==
  StartTransferServer \/ AcceptTransfer \/ OpenFile \/ ReadFile \/ WriteFile

(***************************************************************************)
(* A client.                                                               *)
(***************************************************************************)
ConnectTransfer(c) == program = "transfer" /\ Connect(c) /\ UNCHANGED transferVars

TransferClient(c) ==
  program = "transfer" /\ UNCHANGED <<program, serverSide, up, reset, position, buf>>

(* The file is opened, and cut, when the connection stands.                *)
OpenOutput(c) ==
  /\ TransferClient(c) /\ cpc[c] = "connected"
  /\ \/ /\ NoFault
        /\ output' = [output EXCEPT ![c] = <<>>]
        /\ cpc' = [cpc EXCEPT ![c] = "receive"]
        /\ UNCHANGED <<exit, closed>>
     \/ Fault /\ ClientExits(c, "1") /\ UNCHANGED output
  /\ UNCHANGED <<down, unseen>>

Receive(c) ==
  /\ TransferClient(c) /\ cpc[c] = "receive"
  /\ \E part \in Parts(down[c]) :
       /\ down' = [down EXCEPT ![c] = After(@, part)]
       /\ \/ /\ NoFault
             /\ output' = [output EXCEPT ![c] = @ \o part]
             /\ UNCHANGED <<clientSide, closed>>
          \/ Fault /\ ClientExits(c, "1") /\ UNCHANGED output
  /\ UNCHANGED unseen

(* Mutant: a read of less than the buffer is taken for the last.           *)
ReceivedEarly(c) ==
  /\ TransferClient(c) /\ cpc[c] = "receive"
  /\ AtEof(c) \/ AtError(c) \/ Len(output[c]) % BUFSIZE # 0
  /\ NoFault /\ ClientExits(c, "0")
  /\ UNCHANGED <<down, output, unseen>>

(* The end or an error of read() ends the loop.  What stdio has not yet    *)
(* written is written by exit(), whether that succeeds or not.             *)
Received(c) ==
  /\ TransferClient(c) /\ cpc[c] = "receive"
  /\ AtEof(c) \/ AtError(c)
  /\ ClientExits(c, "0")
  /\ \/ NoFault /\ UNCHANGED <<output, unseen>>
     \/ /\ Fault /\ output[c] # <<>>
        /\ output' = [output EXCEPT ![c] = Front(@)]
        /\ unseen' = unseen \cup {"flush"}
  /\ UNCHANGED down

TransferClientStep(c) == ConnectTransfer(c) \/ OpenOutput(c) \/ Receive(c) \/ Received(c)

TransferBreak(c) == program = "transfer" /\ (Break(c) \/ Kill(c)) /\ UNCHANGED transferVars

(* A client that opened its output and exits with 0 has the whole file and *)
(* nothing else, however what was written came in parts, unless something  *)
(* went wrong that neither program looks at: a short write(), an error of  *)
(* fread(), of read() or of the flush at exit, or a server that stopped    *)
(* with an error (transferserver.c:142-149, transferclient.c:118-126).     *)
CopyIsWhole ==
  \A c \in Clients :
    (exit[c] = "0" /\ output[c] # Old /\ ~reset[c] /\ unseen = {} /\ server_exit # "1") =>
      output[c] = File

(* Whatever goes wrong, what a client stored is a beginning of the file,   *)
(* as long as no write() was short (transferserver.c:143: what is missing  *)
(* then is in the middle, and nobody knows).                               *)
CopyIsPrefix ==
  \A c \in Clients :
    (output[c] # Old /\ "short" \notin unseen) => IsPrefix(output[c], File)

(* Whatever goes wrong, short writes included, no byte of the file comes   *)
(* twice or before one that precedes it: a copy only lacks some            *)
(* (transferserver.c:142-146, transferclient.c:119-123).                   *)
CopyInOrder ==
  \A c \in Clients : \A i, j \in DOMAIN output[c] : i < j => output[c][i] < output[c][j]
=============================================================================
