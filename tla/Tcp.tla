--------------------------------- MODULE Tcp ---------------------------------
(***************************************************************************)
(* The TCP connections between the GETFILE client and server libraries, as *)
(* gflib/gfclient.c and gflib/gfserver.c use them.  The kernel is external *)
(* to the repository; the system calls are modelled by the outcomes those  *)
(* two files handle, or fail to handle.                                    *)
(*                                                                         *)
(* There is one connection per call of gfc_perform().  Its client end is   *)
(* written once and read in pieces; its server end is read once and        *)
(* written in pieces.                                                      *)
(***************************************************************************)
EXTENDS Naturals, Sequences, FiniteSets

CONSTANTS
  Calls,       \* the calls of gfc_perform(), in any process and thread
  MaxSize,     \* bound: units in a file, and in what a client takes for a length
  MaxBreaks,   \* bound: connections that break down or cannot be made
  MaxQuits     \* bound: client processes that end in the middle of a call

ASSUME CallsAssumption == IsFiniteSet(Calls) /\ Calls # {}
ASSUME FaultsAssumption == MaxBreaks \in Nat /\ MaxQuits \in Nat
ASSUME MaxSizeAssumption == MaxSize \in Nat

VARIABLES
  listening,  \* the server's listening socket is open
  backlog,    \* connections made and not yet accepted, oldest first
  asked,      \* the client has written its whole request
  down,       \* what the server wrote and the client has not read
  gone,       \* the client end is closed
  shut,       \* the server end is closed
  broken,     \* the connection broke, which the server sees when it next acts,
              \* or was never made
  fault       \* the client's view of that: "pending" until a read reports it

tcpVars == <<listening, backlog, asked, down, gone, shut, broken, fault>>

TcpInit ==
  /\ listening = TRUE
  /\ backlog = <<>>
  /\ asked = [c \in Calls |-> FALSE]
  /\ down = [c \in Calls |-> <<>>]
  /\ gone = [c \in Calls |-> FALSE]
  /\ shut = [c \in Calls |-> FALSE]
  /\ broken = [c \in Calls |-> FALSE]
  /\ fault = [c \in Calls |-> "none"]

(* The pieces of a response: the scheme and status, the length with the    *)
(* end of the header, and the content, one unit (a buffer) at a time.      *)
Status(s) == [kind |-> "status", val |-> s]
Length(n) == [kind |-> "length", val |-> n]
Data == [kind |-> "data", val |-> 0]

(* One more connection may break, or not be made.                          *)
MayBreak == Cardinality({d \in Calls : broken[d]}) < MaxBreaks

(* The connection breaks: what is under way and not yet delivered to the   *)
(* client is lost, and both ends learn of it.                              *)
Break(c) ==
  /\ asked[c] /\ ~broken[c] /\ ~gone[c] /\ ~shut[c]
  /\ MayBreak
  /\ \E k \in 0 .. Len(down[c]) : down' = [down EXCEPT ![c] = SubSeq(@, 1, k)]
  /\ broken' = [broken EXCEPT ![c] = TRUE]
  /\ fault' = [fault EXCEPT ![c] = "pending"]
  /\ UNCHANGED <<listening, backlog, asked, gone, shut>>

(* What read() on the client end can return now.                           *)
HasPiece(c) == down[c] # <<>>
HasError(c) == down[c] = <<>> /\ fault[c] = "pending"
HasEof(c) == down[c] = <<>> /\ (fault[c] = "reported" \/ (fault[c] = "none" /\ shut[c]))

(* The outcomes of write() on the server end.  To a client that is gone it *)
(* succeeds at first, and later fails or raises SIGPIPE.  On a connection  *)
(* that stands it may write a part of a unit ("short"); a header is        *)
(* written whole.                                                          *)
WriteOutcomes(c) ==
  IF gone[c] \/ broken[c] THEN {"lost", "error", "sigpipe"} ELSE {"sent", "short"}

(* Every connection of a server process that ends: those it accepted are   *)
(* closed, those in the backlog are reset.                                 *)
CloseServer ==
  LET queued == {backlog[k] : k \in DOMAIN backlog} IN
    /\ listening' = FALSE
    /\ backlog' = <<>>
    /\ shut' = [c \in Calls |-> TRUE]
    /\ fault' = [c \in Calls |->
                   IF c \in queued /\ fault[c] = "none" THEN "pending" ELSE fault[c]]
=============================================================================
