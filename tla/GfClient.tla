------------------------------ MODULE GfClient ------------------------------
(***************************************************************************)
(* The GETFILE client library: gfc_perform() of gflib/gfclient.c, once per *)
(* element of Calls.  It connects, writes the request, reads the header    *)
(* byte by byte until its end, an error or an end of file, decides on what *)
(* it then has, and reads the content.                                     *)
(***************************************************************************)
EXTENDS Tcp

VARIABLES
  cpc,       \* where each call is
  word,      \* the status word read, or "none"
  status,    \* gfr->status
  filelen,   \* gfr->filelen
  received,  \* gfr->bytesreceived, a size_t
  ret        \* the returned value, 0 or -1 ("failed"), "none" before that

clientVars == <<cpc, word, status, filelen, received, ret>>

ClientStates == {"connect", "request", "header", "parse", "body", "returned", "killed"}

(* SIZE_MAX, what a size_t of 0 becomes when -1 is added to it.            *)
Huge == 1000

ClientInit ==
  /\ cpc = [c \in Calls |-> "connect"]
  /\ word = [c \in Calls |-> "none"]
  /\ status = [c \in Calls |-> "INVALID"]
  /\ filelen = [c \in Calls |-> 0]
  /\ received = [c \in Calls |-> 0]
  /\ ret = [c \in Calls |-> "none"]

Go(c, s) == cpc' = [cpc EXCEPT ![c] = s]

(* gethostbyname() and connect().  A name that does not resolve ends the   *)
(* process; a refusal, or another error of connect(), is printed and       *)
(* otherwise ignored.                                                      *)
Connect(c) ==
  /\ cpc[c] = "connect"
  /\ \/ /\ Go(c, "request")
        /\ backlog' = IF listening THEN Append(backlog, c) ELSE backlog
        /\ UNCHANGED <<gone, broken, fault>>
     \/ /\ MayBreak
        /\ Go(c, "request")
        /\ broken' = [broken EXCEPT ![c] = TRUE]
        /\ fault' = [fault EXCEPT ![c] = "pending"]
        /\ UNCHANGED <<backlog, gone>>
     \/ /\ Go(c, "killed")
        /\ gone' = [gone EXCEPT ![c] = TRUE]
        /\ UNCHANGED <<backlog, broken, fault>>
  /\ UNCHANGED <<listening, asked, down, shut, word, status, filelen, received, ret>>

(* write() of the request; on a socket that is not connected it raises     *)
(* SIGPIPE, or fails and the first read() fails as well.                   *)
SendRequest(c) ==
  /\ cpc[c] = "request"
  /\ IF ~shut[c] /\ ~broken[c] THEN Go(c, "header")
                                ELSE Go(c, "killed") \/ Go(c, "header")
  /\ asked' = [asked EXCEPT ![c] = TRUE]
  /\ gone' = [gone EXCEPT ![c] = cpc'[c] = "killed"]
  /\ UNCHANGED <<listening, backlog, down, shut, broken, fault,
                 word, status, filelen, received, ret>>

(* The next piece of the header.  FILE_NOT_FOUND has no length.            *)
ReadHeader(c) ==
  /\ cpc[c] = "header"
  /\ HasPiece(c)
  /\ LET p == Head(down[c]) IN
       \/ /\ p.kind = "status"
          /\ word' = [word EXCEPT ![c] = p.val]
          /\ Go(c, IF p.val = "OK" THEN "header" ELSE "parse")
          /\ UNCHANGED filelen
       \/ /\ p.kind = "length"
          /\ filelen' = [filelen EXCEPT ![c] = p.val]
          /\ Go(c, "parse")
          /\ UNCHANGED word
  /\ down' = [down EXCEPT ![c] = Tail(@)]
  /\ UNCHANGED <<listening, backlog, asked, gone, shut, broken, fault,
                 status, received, ret>>

(* Mutant: an error or an end of file in the header is tried again.        *)
HeaderRetry(c) ==
  /\ cpc[c] = "header"
  /\ HasError(c) \/ HasEof(c)
  /\ fault' = [fault EXCEPT ![c] = IF HasError(c) THEN "reported" ELSE @]
  /\ UNCHANGED <<listening, backlog, asked, down, gone, shut, broken,
                 cpc, word, status, filelen, received, ret>>

(* An error or an end of file ends the header wherever it is.  After OK    *)
(* atoi() makes some number of the digits that came, or of bytes behind    *)
(* the end of the string that nothing was written to; the stack may not    *)
(* have room for an array of that size.                                    *)
HeaderCut(c) ==
  /\ cpc[c] = "header"
  /\ HasError(c) \/ HasEof(c)
  /\ fault' = [fault EXCEPT ![c] = IF HasError(c) THEN "reported" ELSE @]
  /\ \/ /\ Go(c, "parse")
        /\ \E n \in (IF word[c] = "OK" THEN 0 .. MaxSize ELSE {filelen[c]}) :
             filelen' = [filelen EXCEPT ![c] = n]
        /\ UNCHANGED gone
     \/ /\ word[c] = "OK"
        /\ Go(c, "killed")
        /\ gone' = [gone EXCEPT ![c] = TRUE]
        /\ UNCHANGED filelen
  /\ UNCHANGED <<listening, backlog, asked, down, shut, broken,
                 word, status, received, ret>>

(* The status is looked for in whatever was read.  INVALID returns, the    *)
(* socket left open.                                                       *)
Parse(c) ==
  /\ cpc[c] = "parse"
  /\ IF word[c] = "none"
     THEN ret' = [ret EXCEPT ![c] = "failed"] /\ Go(c, "returned") /\ UNCHANGED status
     ELSE status' = [status EXCEPT ![c] = word[c]] /\ Go(c, "body") /\ UNCHANGED ret
  /\ UNCHANGED <<tcpVars, word, filelen, received>>

(* A unit of the content: the write function and bytesreceived.            *)
ReadBody(c) ==
  /\ cpc[c] = "body"
  /\ received[c] < filelen[c]
  /\ HasPiece(c)
  /\ received' = [received EXCEPT ![c] = @ + 1]
  /\ down' = [down EXCEPT ![c] = Tail(@)]
  /\ UNCHANGED <<listening, backlog, asked, gone, shut, broken, fault,
                 cpc, word, status, filelen, ret>>

(* The end of file comes too early.  The socket is left open.              *)
BodyCut(c) ==
  /\ cpc[c] = "body"
  /\ received[c] < filelen[c]
  /\ HasEof(c)
  /\ status' = [status EXCEPT ![c] = "ERROR"]
  /\ ret' = [ret EXCEPT ![c] = "failed"]
  /\ Go(c, "returned")
  /\ UNCHANGED <<tcpVars, word, filelen, received>>

(* read() fails: -1 is passed to the write function as a size_t, which the *)
(* process may not survive, and added to bytesreceived.                    *)
BodyError(c) ==
  /\ cpc[c] = "body"
  /\ received[c] < filelen[c]
  /\ HasError(c)
  /\ fault' = [fault EXCEPT ![c] = "reported"]
  /\ \/ /\ received' = [received EXCEPT ![c] = IF @ = 0 THEN Huge ELSE @ - 1]
        /\ UNCHANGED <<cpc, gone>>
     \/ /\ Go(c, "killed")
        /\ gone' = [gone EXCEPT ![c] = TRUE]
        /\ UNCHANGED received
  /\ UNCHANGED <<listening, backlog, asked, down, shut, broken,
                 word, status, filelen, ret>>

(* Everything has been received, or there was nothing to receive.          *)
Return(c) ==
  /\ cpc[c] = "body"
  /\ received[c] >= filelen[c]
  /\ ret' = [ret EXCEPT ![c] = "0"]
  /\ Go(c, "returned")
  /\ gone' = [gone EXCEPT ![c] = TRUE]
  /\ UNCHANGED <<listening, backlog, asked, down, shut, broken, fault,
                 word, status, filelen, received>>

(* The client's process ends in the middle of the call.                    *)
Quit(c) ==
  /\ cpc[c] \in {"request", "header", "body"}
  /\ Cardinality({d \in Calls : cpc[d] = "killed"}) < MaxQuits
  /\ Go(c, "killed")
  /\ gone' = [gone EXCEPT ![c] = TRUE]
  /\ UNCHANGED <<listening, backlog, asked, down, shut, broken, fault,
                 word, status, filelen, received, ret>>

ClientStep(c) ==
  \/ Connect(c)
  \/ SendRequest(c)
  \/ ReadHeader(c)
  \/ HeaderCut(c)
  \/ Parse(c)
  \/ ReadBody(c)
  \/ BodyCut(c)
  \/ BodyError(c)
  \/ Return(c)
=============================================================================
