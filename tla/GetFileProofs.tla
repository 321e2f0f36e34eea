--------------------------- MODULE GetFileProofs ---------------------------
(***************************************************************************)
(* Proofs about GetFile and Fetch: what a response looks like on its way,  *)
(* that none of it is lost, when a client is told FILE_NOT_FOUND, and      *)
(* which files the clients of gflib keep.                                  *)
(***************************************************************************)
EXTENDS Fetch, FiniteSetTheorems, SequenceTheorems, TLAPS

(* The server is at a connection.                                          *)
Serving == spc \in {"read", "header", "body", "free"}

Pieces == [kind : {"status", "length", "data"}, val : {"OK", "FILE_NOT_FOUND"} \cup Nat]

Typed ==
  /\ TypeOK
  /\ down \in [Calls -> Seq(Pieces)]
  /\ received \in [Calls -> Nat]
  /\ size \in [Paths -> 0 .. MaxSize]
  /\ content \in SUBSET Paths
  /\ found \in BOOLEAN

(* A call waits in the backlog once, and no more when it is served.        *)
Lined ==
  /\ \A i, j \in DOMAIN backlog : backlog[i] = backlog[j] => i = j
  /\ \A k \in DOMAIN backlog : cpc[backlog[k]] # "connect"
  /\ Serving => cpc[conn] # "connect" /\ \A k \in DOMAIN backlog : backlog[k] # conn

(* The server has not answered the call c yet.                             *)
InLine(c) ==
  \/ cpc[c] = "connect"
  \/ \E k \in DOMAIN backlog : backlog[k] = c
  \/ spc \in {"read", "header"} /\ conn = c

(* How far the client is says how much of a response it has read.          *)
Progress(c) ==
  /\ cpc[c] \in {"connect", "request"} => word[c] = "none"
  /\ cpc[c] = "header" => word[c] \in {"none", "OK"}
  /\ cpc[c] = "body" => word[c] \in {"OK", "FILE_NOT_FOUND"}
  /\ word[c] # "OK" \/ cpc[c] = "header" => filelen[c] = 0 /\ received[c] = 0
  /\ cpc[c] = "parse" => received[c] = 0
  /\ status[c] = "FILE_NOT_FOUND" => word[c] = "FILE_NOT_FOUND"

(* Nothing but a break or the end of the server cuts a response short.     *)
Standing(c) ==
  /\ gone[c] => cpc[c] \in {"returned", "killed"}
  /\ cpc[c] = "killed" => gone[c]
  /\ Up => ~shut[c] /\ (fault[c] # "none" => broken[c])
  /\ Up /\ ~broken[c] /\ word[c] = "none" => cpc[c] \notin {"parse", "returned"}

(* What is under way follows on what has been read.                        *)
Shaped(c) ==
  /\ InLine(c) => down[c] = <<>> /\ word[c] = "none"
  /\ word[c] = "none" =>
       /\ \A k \in DOMAIN down[c] :
            down[c][k].kind = IF k = 1 THEN "status" ELSE IF k = 2 THEN "length" ELSE "data"
       /\ down[c] # <<>> => down[c][1].val \in {"OK", "FILE_NOT_FOUND"}
       /\ down[c] # <<>> /\ down[c][1].val = "FILE_NOT_FOUND" => Len(down[c]) = 1
       /\ down[c] # <<>> /\ down[c][1].val = "OK" /\ ~broken[c] => Len(down[c]) >= 2
  /\ word[c] = "OK" =>
       /\ \A k \in DOMAIN down[c] :
            \/ down[c][k].kind = "data" /\ (k = 1 => cpc[c] # "header")
            \/ down[c][k].kind = "length" /\ k = 1 /\ cpc[c] \in {"header", "killed"}
       /\ cpc[c] = "header" /\ ~broken[c] => down[c] # <<>>
  /\ word[c] = "FILE_NOT_FOUND" => down[c] = <<>>

(* And it is the answer to what was asked.                                 *)
Answering(c) ==
  /\ \A k \in DOMAIN down[c] :
       /\ down[c][k].kind = "length" =>
            down[c][k].val \in 0 .. MaxSize /\ down[c][k].val >= size[PathOf[c]]
       /\ down[c][k].kind = "status" =>
            IF down[c][k].val = "OK" THEN PathOf[c] \in content
                                     ELSE c \in partial \/ PathOf[c] \notin content
  /\ word[c] = "OK" => PathOf[c] \in content
  /\ word[c] = "FILE_NOT_FOUND" => c \in partial \/ PathOf[c] \notin content
  /\ word[c] = "OK" /\ cpc[c] \in {"parse", "body", "returned"} /\ ~broken[c] =>
       filelen[c] >= size[PathOf[c]]

Call(c) == Progress(c) /\ Standing(c) /\ Shaped(c) /\ Answering(c)

(* The pieces of the header that the client has still to read.             *)
HeaderLeft(c) == IF word[c] = "none" THEN 2 ELSE IF cpc[c] = "header" THEN 1 ELSE 0

(* Header and content, what the server counts is read or under way.        *)
Accounted(c) ==
  /\ word[c] # "FILE_NOT_FOUND"
  /\ Len(down[c]) >= HeaderLeft(c)
  /\ received[c] + Len(down[c]) = sent + HeaderLeft(c)
  /\ word[c] = "none" => down[c][1].val = "OK"

(* What the server knows of the connection it serves.                      *)
Server ==
  /\ spc \in {"read", "header", "body"} => freed = 0
  /\ spc = "free" => freed <= 1
  /\ spc = "header" =>
       IF found THEN PathOf[conn] \in content
                ELSE gone[conn] \/ conn \in partial \/ PathOf[conn] \notin content
  /\ spc = "body" => found
  /\ spc \in {"body", "free"} /\ found /\ ~gone[conn] /\ ~broken[conn] => Accounted(conn)

Protocol == Typed /\ Lined /\ Server /\ \A c \in Calls : Call(c)

-----------------------------------------------------------------------------
(* Steps of the clients.                                                   *)

(* A call that a step does not touch; files only shrink.                   *)
LEMMA Unmoved ==
  ASSUME NEW c \in Calls, Call(c), Typed, Typed',
         cpc'[c] = cpc[c], word'[c] = word[c], status'[c] = status[c], filelen'[c] = filelen[c],
         received'[c] = received[c], gone'[c] = gone[c], broken'[c] = broken[c],
         down'[c] = down[c], Up' => Up /\ shut'[c] = shut[c] /\ fault'[c] = fault[c],
         InLine(c)' => InLine(c), content' = content, size'[PathOf[c]] <= size[PathOf[c]],
         c \in partial => c \in partial'
  PROVE  Call(c)'
<1>1. Progress(c)' /\ Standing(c)' /\ Shaped(c)'
  BY DEF Call, Progress, Standing, Shaped
<1>2. Answering(c)'
  <2>1. PathOf[c] \in Paths
    BY PathOfAssumption
  <2>2. \A m, n \in Nat : \A k \in 0 .. MaxSize : m <= n /\ k >= n => k >= m
    OBVIOUS
  <2>3. /\ size[PathOf[c]] \in Nat /\ size'[PathOf[c]] \in Nat
        /\ filelen[c] \in 0 .. MaxSize /\ filelen'[c] = filelen[c]
    <3>1. size \in [Paths -> 0 .. MaxSize] /\ size' \in [Paths -> 0 .. MaxSize]
      BY DEF Typed
    <3>2. filelen \in [Calls -> 0 .. MaxSize]
      BY DEF Typed, TypeOK
    <3>3. QED
      BY <2>1, <3>1, <3>2, BoundsAssumption, MaxSizeAssumption
  <2>4. Answering(c)
    BY DEF Call
  <2>5. QED
    BY <2>2, <2>3, <2>4 DEF Answering
<1>3. QED
  BY <1>1, <1>2 DEF Call

(* A step of the call c that leaves the backlog and the server alone.      *)
LEMMA CallStep ==
  ASSUME Protocol, NEW c \in Calls, UNCHANGED serverVars, backlog' = backlog, shut' = shut,
         broken' = broken, cpc'[c] # "connect", cpc[c] # "connect",
         \A d \in Calls \ {c} :
           /\ cpc'[d] = cpc[d] /\ word'[d] = word[d] /\ status'[d] = status[d]
           /\ filelen'[d] = filelen[d] /\ received'[d] = received[d] /\ gone'[d] = gone[d]
           /\ down'[d] = down[d] /\ fault'[d] = fault[d],
         Typed', gone[c] => gone'[c],
         Progress(c)', Standing(c)', Shaped(c)', Answering(c)',
         Up /\ ~gone'[c] /\ ~broken[c] /\ Accounted(c) => Accounted(c)'
  PROVE  Protocol'
<1>1. Lined'
  BY DEF Protocol, Lined, serverVars, Serving, Typed, TypeOK
<1>2. ASSUME NEW d \in Calls \ {c} PROVE Call(d)'
  <2>1. InLine(d)' => InLine(d)
    BY DEF InLine, serverVars
  <2>2. Up' => Up
    BY DEF Up, serverVars
  <2>3. size'[PathOf[d]] <= size[PathOf[d]] /\ content' = content /\ partial' = partial
    BY PathOfAssumption, BoundsAssumption, MaxSizeAssumption DEF serverVars, Protocol, Typed
  <2>4. QED
    BY <2>1, <2>2, <2>3, Unmoved DEF Protocol
<1>3. Server'
  <2>1. /\ spc' = spc /\ conn' = conn /\ found' = found /\ freed' = freed /\ content' = content
        /\ sent' = sent /\ partial' = partial
    BY DEF serverVars
  <2>2. gone[conn] => gone'[conn]
    BY DEF Protocol, Typed, TypeOK
  <2>3. spc \in {"body", "free"} /\ found /\ ~gone'[conn] /\ ~broken[conn] => Accounted(conn)'
    <3>1. SUFFICES ASSUME spc \in {"body", "free"}, found, ~gone'[conn], ~broken[conn]
                   PROVE  Accounted(conn)'
      OBVIOUS
    <3>2. Accounted(conn) /\ conn \in Calls /\ Up
      BY <2>2, <3>1 DEF Protocol, Server, Typed, TypeOK, Up
    <3>3. CASE conn = c
      <4>1. Accounted(c)'
        BY <3>1, <3>2, <3>3
      <4>2. QED
        BY <2>1, <3>3, <4>1 DEF Accounted, HeaderLeft
    <3>4. CASE conn # c
      BY <2>1, <3>2, <3>4 DEF Accounted, HeaderLeft
    <3>5. QED
      BY <3>3, <3>4
  <2>4. QED
    BY <2>1, <2>2, <2>3 DEF Protocol, Server
<1>4. QED
  BY <1>1, <1>2, <1>3 DEF Protocol, Call

LEMMA ConnectKeeps ==
  ASSUME Protocol, NEW c \in Calls, Connect(c), UNCHANGED serverVars
  PROVE  Protocol'
<1>1. /\ cpc[c] = "connect" /\ (backlog' = Append(backlog, c) \/ backlog' = backlog)
      /\ UNCHANGED <<listening, asked, down, shut, word, status, filelen, received, ret>>
      /\ UNCHANGED <<spc, conn, fds, found, fileLen, sent, freed, partial, aborted, size,
                     content, shrinks>>
  BY DEF Connect, serverVars
<1>11. PICK s \in {"request", "killed"} :
         /\ cpc' = [cpc EXCEPT ![c] = s]
         /\ gone' = (IF s = "killed" THEN [gone EXCEPT ![c] = TRUE] ELSE gone)
         /\ \/ broken' = broken /\ fault' = fault
            \/ broken' = [broken EXCEPT ![c] = TRUE] /\ fault' = [fault EXCEPT ![c] = "pending"]
  BY DEF Connect, Go
<1>2. /\ backlog \in Seq(Calls) /\ cpc \in [Calls -> ClientStates] /\ conn \in Calls
      /\ size \in [Paths -> 0 .. MaxSize] /\ gone \in [Calls -> BOOLEAN]
      /\ broken \in [Calls -> BOOLEAN] /\ fault \in [Calls -> {"none", "pending", "reported"}]
  BY DEF Protocol, Typed, TypeOK
<1>3. Typed'
  <2>1. backlog' \in Seq(Calls)
    <3>1. Append(backlog, c) \in Seq(Calls)
      BY <1>2, AppendProperties
    <3>2. QED
      BY <1>1, <1>2, <3>1
  <2>2. cpc' \in [Calls -> ClientStates]
    BY <1>11, <1>2 DEF ClientStates
  <2>4. /\ gone' \in [Calls -> BOOLEAN] /\ broken' \in [Calls -> BOOLEAN]
        /\ fault' \in [Calls -> {"none", "pending", "reported"}]
    BY <1>11, <1>2
  <2>5. TypeOK'
    BY <1>1, <2>1, <2>2, <2>4 DEF Protocol, Typed, TypeOK
  <2>6. QED
    BY <1>1, <2>5 DEF Protocol, Typed
<1>4. /\ cpc'[c] = s /\ (gone[c] => gone'[c]) /\ (s = "killed" <=> gone'[c])
      /\ fault'[c] # fault[c] => broken'[c]
      /\ \A d \in Calls \ {c} :
           cpc'[d] = cpc[d] /\ gone'[d] = gone[d] /\ broken'[d] = broken[d] /\ fault'[d] = fault[d]
  <2>1. ~gone[c]
    BY <1>1 DEF Protocol, Call, Standing
  <2>2. cpc'[c] = s /\ \A d \in Calls \ {c} : cpc'[d] = cpc[d]
    BY <1>11, <1>2
  <2>3. (gone[c] => gone'[c]) /\ (s = "killed" <=> gone'[c]) /\ \A d \in Calls \ {c} : gone'[d] = gone[d]
    BY <1>11, <1>2, <2>1
  <2>4. /\ fault'[c] # fault[c] => broken'[c]
        /\ \A d \in Calls \ {c} : broken'[d] = broken[d] /\ fault'[d] = fault[d]
    BY <1>11, <1>2
  <2>5. QED
    BY <2>2, <2>3, <2>4
<1>5. \A k \in DOMAIN backlog' : backlog'[k] = c \/ (k \in DOMAIN backlog /\ backlog'[k] = backlog[k])
  <2>1. CASE backlog' = Append(backlog, c)
    BY <1>2, <2>1, AppendProperties
  <2>2. CASE backlog' = backlog
    BY <2>2
  <2>3. QED
    BY <1>1, <2>1, <2>2
<1>6. \A k \in DOMAIN backlog : backlog[k] # c
  BY <1>1 DEF Protocol, Lined
<1>7. Lined'
  <2>1. \A i, j \in DOMAIN backlog' : backlog'[i] = backlog'[j] => i = j
    <3>1. CASE backlog' = Append(backlog, c)
      <4>1. /\ DOMAIN backlog' = DOMAIN backlog \cup {Len(backlog) + 1} /\ backlog'[Len(backlog) + 1] = c
            /\ \A k \in DOMAIN backlog : backlog'[k] = backlog[k]
        BY <1>1, <1>2, <3>1, AppendProperties
      <4>2. QED
        BY <1>6, <4>1 DEF Protocol, Lined
    <3>2. CASE backlog' = backlog
      BY <1>1, <3>2 DEF Protocol, Lined
    <3>3. QED
      BY <1>1, <3>1, <3>2
  <2>2. \A k \in DOMAIN backlog' : cpc'[backlog'[k]] # "connect"
    <3>1. \A k \in DOMAIN backlog : backlog[k] \in Calls
      BY <1>2
    <3>2. QED
      BY <1>4, <1>5, <1>6, <3>1 DEF Protocol, Lined
  <2>3. Serving' => cpc'[conn] # "connect" /\ \A k \in DOMAIN backlog' : backlog'[k] # conn
    BY <1>1, <1>2, <1>4, <1>5 DEF Protocol, Lined, Serving
  <2>4. QED
    BY <1>1, <2>1, <2>2, <2>3 DEF Lined
<1>8. Server'
  <2>1. spc \in {"body", "free"} => conn # c
    BY <1>1 DEF Protocol, Lined, Serving
  <2>2. spc \in {"body", "free"} => (Accounted(conn) => Accounted(conn)')
    BY <1>1, <1>2, <1>4, <2>1 DEF Accounted, HeaderLeft
  <2>3. QED
    BY <1>1, <1>2, <1>4, <2>1, <2>2 DEF Protocol, Server, Serving, Lined
<1>9. ASSUME NEW d \in Calls PROVE Call(d)'
  <2>1. InLine(d)' => InLine(d)
    BY <1>1, <1>4, <1>5 DEF InLine
  <2>2. Up' => Up
    BY <1>1 DEF Up
  <2>3. size'[PathOf[d]] <= size[PathOf[d]]
    BY <1>1, <1>2, PathOfAssumption, BoundsAssumption, MaxSizeAssumption
  <2>4. CASE d # c
    BY <1>1, <1>3, <1>4, <2>1, <2>2, <2>3, <2>4, Unmoved DEF Protocol
  <2>5. CASE d = c
    <3>1. Call(c) /\ InLine(c) /\ word[c] = "none" /\ down[c] = <<>> /\ ~gone[c]
      BY <1>1 DEF Protocol, Call, InLine, Shaped, Standing
    <3>2. Progress(c)' /\ Answering(c)'
      BY <1>1, <1>4, <3>1 DEF Call, Progress, Answering
    <3>5. fault'[c] # "none" => fault[c] # "none" \/ broken'[c]
      BY <1>4
    <3>6. broken[c] => broken'[c]
      BY <1>11, <1>2
    <3>7. Standing(c)'
      BY <1>1, <1>4, <2>2, <3>1, <3>5, <3>6 DEF Call, Standing, Up
    <3>3. Shaped(c)'
      BY <1>1, <1>4, <3>1, EmptySeq DEF Shaped
    <3>4. QED
      BY <2>5, <3>2, <3>3, <3>7 DEF Call
  <2>6. QED
    BY <2>4, <2>5
<1>10. QED
  BY <1>3, <1>7, <1>8, <1>9 DEF Protocol

LEMMA RequestKeeps ==
  ASSUME Protocol, NEW c \in Calls, SendRequest(c) \/ Quit(c), UNCHANGED serverVars
  PROVE  Protocol'
<1>1. PICK s \in {"header", "killed"} :
        /\ cpc' = [cpc EXCEPT ![c] = s]
        /\ s = "header" => cpc[c] = "request" /\ gone' = [gone EXCEPT ![c] = FALSE]
        /\ s = "killed" => gone' = [gone EXCEPT ![c] = TRUE]
  <2>1. cpc \in [Calls -> ClientStates] /\ gone \in [Calls -> BOOLEAN]
    BY DEF Protocol, Typed, TypeOK
  <2>2. CASE Quit(c)
    BY <2>2 DEF Quit, Go
  <2>3. ASSUME SendRequest(c), NEW s \in {"header", "killed"}, Go(c, s)
        PROVE  /\ cpc' = [cpc EXCEPT ![c] = s] /\ cpc[c] = "request"
               /\ s = "header" => gone' = [gone EXCEPT ![c] = FALSE]
               /\ s = "killed" => gone' = [gone EXCEPT ![c] = TRUE]
    BY <2>1, <2>3 DEF SendRequest, Go
  <2>4. CASE SendRequest(c)
    <3>1. Go(c, "header") \/ Go(c, "killed")
      BY <2>4 DEF SendRequest
    <3>2. QED
      BY <2>3, <2>4, <3>1
  <2>5. QED
    BY <2>2, <2>4
<1>2. /\ cpc[c] \in {"request", "header", "body"}
      /\ UNCHANGED <<listening, backlog, down, shut, broken, fault, word, status, filelen, received, ret>>
      /\ asked' = asked \/ asked' = [asked EXCEPT ![c] = TRUE]
  BY DEF SendRequest, Quit
<1>3. Typed'
  BY <1>1, <1>2 DEF Protocol, Typed, TypeOK, ClientStates, serverVars
<1>4. /\ cpc'[c] = s /\ (gone'[c] <=> s = "killed")
      /\ \A d \in Calls \ {c} : cpc'[d] = cpc[d] /\ gone'[d] = gone[d]
  BY <1>1 DEF Protocol, Typed, TypeOK
<1>5. Call(c) /\ ~gone[c]
  BY <1>2 DEF Protocol, Call, Standing
<1>6. Progress(c)'
  BY <1>1, <1>2, <1>4, <1>5 DEF Call, Progress
<1>7. Standing(c)'
  BY <1>1, <1>2, <1>4, <1>5 DEF Call, Standing, Up, serverVars
<1>8. Shaped(c)'
  <2>1. InLine(c)' => InLine(c)
    BY <1>2, <1>4 DEF InLine, serverVars
  <2>2. QED
    BY <1>1, <1>2, <1>4, <1>5, <2>1 DEF Call, Progress, Shaped
<1>9. Answering(c)'
  BY <1>1, <1>2, <1>4, <1>5 DEF Call, Answering, serverVars
<1>10. ~gone'[c] /\ Accounted(c) => Accounted(c)'
  BY <1>1, <1>2, <1>4, <1>5 DEF Accounted, HeaderLeft, serverVars, Call, Progress
<1>11. QED
  BY <1>2, <1>3, <1>4, <1>5, <1>6, <1>7, <1>8, <1>9, <1>10, CallStep

LEMMA TailPieces ==
  ASSUME NEW S, NEW s \in Seq(S), s # <<>>
  PROVE  /\ Tail(s) \in Seq(S) /\ Len(Tail(s)) = Len(s) - 1 /\ Head(s) = s[1] /\ 1 \in DOMAIN s
         /\ \A k \in DOMAIN Tail(s) : k \in Nat /\ k >= 1 /\ k + 1 \in DOMAIN s /\ Tail(s)[k] = s[k + 1]
         /\ Len(s) \in Nat /\ Len(s) >= 1 /\ (Len(s) = 1 => Tail(s) = <<>>) /\ Len(Tail(s)) \in Nat
         /\ (Tail(s) # <<>> => 2 \in DOMAIN s /\ Tail(s)[1] = s[2])
<1>1. /\ Tail(s) \in Seq(S) /\ Len(Tail(s)) = Len(s) - 1 /\ Head(s) = s[1] /\ 1 \in DOMAIN s
      /\ Len(s) \in Nat /\ Len(s) >= 1
  BY HeadTailProperties, LenProperties, EmptySeq
<1>2. \A k \in DOMAIN Tail(s) : k \in Nat /\ k >= 1 /\ k + 1 \in DOMAIN s /\ Tail(s)[k] = s[k + 1]
  BY <1>1
<1>3. Len(s) = 1 => Tail(s) = <<>>
  <2>1. SUFFICES ASSUME Len(s) = 1 PROVE Tail(s) = <<>>
    OBVIOUS
  <2>2. Len(Tail(s)) = 0
    BY <1>1, <2>1
  <2>3. QED
    BY <1>1, <2>2, EmptySeq
<1>4. Tail(s) # <<>> => 2 \in DOMAIN s /\ Tail(s)[1] = s[2]
  <2>1. SUFFICES ASSUME Tail(s) # <<>> PROVE 2 \in DOMAIN s /\ Tail(s)[1] = s[2]
    OBVIOUS
  <2>2. Len(Tail(s)) # 0
    BY <1>1, <2>1, EmptySeq
  <2>3. 1 \in DOMAIN Tail(s)
    BY <1>1, <2>2
  <2>4. QED
    BY <1>2, <2>3
<1>5. QED
  BY <1>1, <1>2, <1>3, <1>4

LEMMA ReadHeaderKeeps ==
  ASSUME Protocol, NEW c \in Calls, ReadHeader(c), UNCHANGED serverVars
  PROVE  Protocol'
<1> DEFINE p == down[c][1]
<1>1. /\ cpc[c] = "header" /\ down[c] # <<>> /\ down' = [down EXCEPT ![c] = Tail(down[c])]
      /\ UNCHANGED <<listening, backlog, asked, gone, shut, broken, fault, status, received, ret>>
  BY DEF ReadHeader, HasPiece
<1>2. /\ down \in [Calls -> Seq(Pieces)] /\ down[c] \in Seq(Pieces) /\ cpc \in [Calls -> ClientStates]
      /\ word \in [Calls -> {"none", "OK", "FILE_NOT_FOUND"}] /\ filelen \in [Calls -> 0 .. MaxSize]
  BY DEF Protocol, Typed, TypeOK
<1>3. Head(down[c]) = p /\ 1 \in DOMAIN down[c]
  BY <1>1, <1>2, TailPieces
<1>4. Call(c) /\ ~gone[c] /\ word[c] \in {"none", "OK"} /\ filelen[c] = 0 /\ received[c] = 0
  BY <1>1 DEF Protocol, Call, Standing, Progress
<1>5. down'[c] = Tail(down[c]) /\ \A d \in Calls \ {c} : down'[d] = down[d]
  BY <1>1, <1>2
<1>6. \A k \in DOMAIN Tail(down[c]) :
         /\ k \in Nat /\ k >= 1 /\ k + 1 \in DOMAIN down[c]
         /\ Tail(down[c])[k] = down[c][k + 1]
  BY <1>1, <1>2, TailPieces
<1>7. ~InLine(c) /\ ~InLine(c)'
  <2>1. ~InLine(c)
    BY <1>1, <1>4 DEF Call, Shaped
  <2>2. cpc'[c] # "connect"
    BY <1>2 DEF ReadHeader, Go
  <2>3. QED
    BY <1>1, <2>1, <2>2 DEF InLine, serverVars
<1>8. CASE p.kind = "status"
  <2>1. /\ word' = [word EXCEPT ![c] = p.val] /\ filelen' = filelen
        /\ cpc' = [cpc EXCEPT ![c] = IF p.val = "OK" THEN "header" ELSE "parse"]
    BY <1>3, <1>8 DEF ReadHeader, Go
  <2>2. word[c] = "none"
    BY <1>1, <1>3, <1>4, <1>8 DEF Call, Shaped
  <2>3. /\ p.val \in {"OK", "FILE_NOT_FOUND"}
        /\ p.val = "FILE_NOT_FOUND" => Len(down[c]) = 1
        /\ p.val = "OK" /\ ~broken[c] => Len(down[c]) >= 2
        /\ \A k \in DOMAIN down[c] :
             down[c][k].kind = IF k = 1 THEN "status" ELSE IF k = 2 THEN "length" ELSE "data"
    BY <1>1, <1>4, <2>2 DEF Call, Shaped
  <2>4. /\ word'[c] = p.val /\ cpc'[c] = (IF p.val = "OK" THEN "header" ELSE "parse")
        /\ \A d \in Calls \ {c} : cpc'[d] = cpc[d] /\ word'[d] = word[d]
    BY <1>2, <2>1
  <2>5. Typed'
    <3>1. down' \in [Calls -> Seq(Pieces)]
      BY <1>1, <1>2, TailPieces
    <3>2. /\ word' \in [Calls -> {"none", "OK", "FILE_NOT_FOUND"}] /\ cpc' \in [Calls -> ClientStates]
      BY <1>2, <2>1, <2>3 DEF ClientStates
    <3>3. QED
      BY <1>1, <2>1, <3>1, <3>2 DEF Protocol, Typed, TypeOK, serverVars
  <2>6. Progress(c)'
    BY <1>1, <1>4, <2>1, <2>2, <2>3, <2>4 DEF Call, Progress
  <2>7. Standing(c)'
    BY <1>1, <1>4, <2>3, <2>4 DEF Call, Standing, Up, serverVars
  <2>8. Shaped(c)'
    <3>1. CASE p.val = "FILE_NOT_FOUND"
      <4>1. Tail(down[c]) = <<>>
        BY <1>1, <1>2, <2>3, <3>1, TailPieces
      <4>2. QED
        BY <1>5, <1>7, <2>4, <3>1, <4>1 DEF Shaped
    <3>2. CASE p.val = "OK"
      <4>1. \A k \in DOMAIN Tail(down[c]) :
              Tail(down[c])[k].kind = IF k = 1 THEN "length" ELSE "data"
        <5>1. TAKE k \in DOMAIN Tail(down[c])
        <5>2. /\ k \in Nat /\ k >= 1 /\ k + 1 \in DOMAIN down[c]
              /\ Tail(down[c])[k] = down[c][k + 1]
          BY <1>6
        <5>3. k + 1 # 1 /\ (k + 1 = 2 <=> k = 1)
          BY <5>2
        <5>4. QED
          BY <2>3, <5>2, <5>3
      <4>2. ~broken[c] => Tail(down[c]) # <<>>
        BY <1>1, <1>2, <2>3, <3>2, TailPieces, EmptySeq
      <4>3. QED
        BY <1>1, <1>5, <1>7, <2>4, <3>2, <4>1, <4>2 DEF Shaped
    <3>3. QED
      BY <2>3, <3>1, <3>2
  <2>9. Answering(c)'
    <3>1. \A k \in DOMAIN Tail(down[c]) : k + 1 \in DOMAIN down[c] /\ Tail(down[c])[k] = down[c][k + 1]
      BY <1>1, <1>2, TailPieces
    <3>2. Answering(c) /\ content' = content /\ size' = size /\ partial' = partial
      BY <1>4 DEF Call, serverVars
    <3>3. p.val = "OK" => PathOf[c] \in content
      BY <1>3, <1>8, <3>2 DEF Answering
    <3>4. p.val = "FILE_NOT_FOUND" => c \in partial \/ PathOf[c] \notin content
      BY <1>3, <1>8, <3>2 DEF Answering
    <3>5. \A k \in DOMAIN down'[c] : down'[c][k].kind # "status"
      <4>1. SUFFICES ASSUME NEW k \in DOMAIN Tail(down[c])
                     PROVE  Tail(down[c])[k].kind # "status"
        BY <1>5
      <4>2. /\ k \in Nat /\ k >= 1 /\ k + 1 \in DOMAIN down[c]
            /\ Tail(down[c])[k] = down[c][k + 1]
        BY <1>6
      <4>3. k + 1 # 1
        BY <4>2
      <4>4. QED
        BY <2>3, <4>2, <4>3
    <3>6. \A k \in DOMAIN down'[c] : down'[c][k].kind = "length" =>
            down'[c][k].val \in 0 .. MaxSize /\ down'[c][k].val >= size[PathOf[c]]
      BY <1>5, <3>1, <3>2 DEF Answering
    <3>7. word'[c] = "OK" => cpc'[c] = "header"
      BY <2>4
    <3>8. QED
      BY <2>4, <3>2, <3>3, <3>4, <3>5, <3>6, <3>7 DEF Answering
  <2>10. Accounted(c) => Accounted(c)'
    <3>1. SUFFICES ASSUME Accounted(c) PROVE Accounted(c)'
      OBVIOUS
    <3>2. p.val = "OK" /\ Len(down[c]) >= 2 /\ received[c] + Len(down[c]) = sent + 2 /\ sent' = sent
      BY <2>2, <3>1 DEF Accounted, HeaderLeft, serverVars
    <3>3. Len(down'[c]) = Len(down[c]) - 1 /\ Len(down[c]) \in Nat /\ sent \in Nat /\ sent' = sent
      BY <1>1, <1>2, <1>5, TailPieces, BoundsAssumption, MaxSizeAssumption DEF Protocol, Typed,
         TypeOK, serverVars
    <3>4. word'[c] = "OK" /\ HeaderLeft(c)' = 1 /\ received'[c] = 0
      BY <1>1, <1>4, <2>4, <3>2 DEF HeaderLeft
    <3>5. QED
      BY <1>4, <3>2, <3>3, <3>4 DEF Accounted
  <2>11. QED
    BY <1>1, <1>4, <1>5, <2>1, <2>3, <2>4, <2>5, <2>6, <2>7, <2>8, <2>9, <2>10, CallStep
<1>9. CASE p.kind = "length"
  <2>1. /\ filelen' = [filelen EXCEPT ![c] = p.val] /\ cpc' = [cpc EXCEPT ![c] = "parse"]
        /\ word' = word
    BY <1>3, <1>9 DEF ReadHeader, Go
  <2>2. word[c] = "OK"
    BY <1>1, <1>3, <1>4, <1>9 DEF Call, Shaped
  <2>3. \A k \in DOMAIN down[c] : k # 1 => down[c][k].kind = "data"
    BY <1>1, <1>4, <2>2 DEF Call, Shaped
  <2>4. p.val \in 0 .. MaxSize /\ p.val >= size[PathOf[c]] /\ Answering(c)
    BY <1>3, <1>4, <1>9 DEF Call, Answering
  <2>5. /\ cpc'[c] = "parse" /\ filelen'[c] = p.val
        /\ \A d \in Calls \ {c} : cpc'[d] = cpc[d] /\ filelen'[d] = filelen[d]
    BY <1>2, <2>1
  <2>6. Typed'
    <3>1. down' \in [Calls -> Seq(Pieces)]
      BY <1>1, <1>2, TailPieces
    <3>2. filelen' \in [Calls -> 0 .. MaxSize] /\ cpc' \in [Calls -> ClientStates]
      BY <1>2, <2>1, <2>4 DEF ClientStates
    <3>3. QED
      BY <1>1, <2>1, <3>1, <3>2 DEF Protocol, Typed, TypeOK, serverVars
  <2>7. Progress(c)'
    BY <1>1, <1>4, <2>1, <2>2, <2>5 DEF Call, Progress
  <2>8. Standing(c)'
    BY <1>1, <1>4, <2>1, <2>2, <2>5 DEF Call, Standing, Up, serverVars
  <2>9. \A k \in DOMAIN down'[c] : down'[c][k].kind = "data"
    BY <1>1, <1>2, <1>5, <2>3, TailPieces
  <2>10. Shaped(c)'
    BY <1>7, <2>1, <2>2, <2>5, <2>9 DEF Shaped
  <2>11. Answering(c)'
    BY <2>1, <2>2, <2>4, <2>5, <2>9 DEF Answering, serverVars
  <2>12. Accounted(c) => Accounted(c)'
    <3>1. SUFFICES ASSUME Accounted(c) PROVE Accounted(c)'
      OBVIOUS
    <3>2. /\ Len(down[c]) >= 1 /\ received[c] + Len(down[c]) = sent + 1
      BY <1>1, <2>2, <3>1 DEF Accounted, HeaderLeft, serverVars
    <3>3. Len(down'[c]) = Len(down[c]) - 1 /\ Len(down[c]) \in Nat /\ sent \in Nat /\ sent' = sent
      BY <1>1, <1>2, <1>5, TailPieces, BoundsAssumption, MaxSizeAssumption DEF Protocol, Typed,
         TypeOK, serverVars
    <3>4. word'[c] = "OK" /\ HeaderLeft(c)' = 0 /\ received'[c] = 0
      BY <1>1, <1>4, <2>1, <2>2, <2>5 DEF HeaderLeft
    <3>5. QED
      BY <1>4, <3>2, <3>3, <3>4 DEF Accounted
  <2>13. QED
    BY <1>1, <1>4, <1>5, <2>1, <2>5, <2>6, <2>7, <2>8, <2>10, <2>11, <2>12, CallStep
<1>10. QED
  BY <1>3, <1>8, <1>9 DEF ReadHeader

(* A read that finds nothing more finds a break, or a server that ended.   *)
LEMMA CutMeans ==
  ASSUME Protocol, NEW c \in Calls, HasError(c) \/ HasEof(c)
  PROVE  down[c] = <<>> /\ (Up => broken[c])
<1>1. fault[c] \in {"none", "pending", "reported"}
  BY DEF Protocol, Typed, TypeOK
<1>2. Up => ~shut[c] /\ (fault[c] # "none" => broken[c])
  BY DEF Protocol, Call, Standing
<1>3. QED
  BY <1>1, <1>2 DEF HasError, HasEof

LEMMA HeaderCutKeeps ==
  ASSUME Protocol, NEW c \in Calls, HeaderCut(c), UNCHANGED serverVars
  PROVE  Protocol'
<1>1. /\ cpc[c] = "header" /\ (HasError(c) \/ HasEof(c))
      /\ fault' = [fault EXCEPT ![c] = IF HasError(c) THEN "reported" ELSE @]
      /\ UNCHANGED <<listening, backlog, asked, down, shut, broken, word, status, received, ret>>
  BY DEF HeaderCut
<1>2. down[c] = <<>> /\ (Up => broken[c])
  BY <1>1, CutMeans
<1>3. PICK s \in {"parse", "killed"}, n \in 0 .. MaxSize :
        /\ cpc' = [cpc EXCEPT ![c] = s]
        /\ s = "parse" => /\ filelen' = [filelen EXCEPT ![c] = n] /\ gone' = gone
                          /\ word[c] # "OK" => n = filelen[c]
        /\ s = "killed" => gone' = [gone EXCEPT ![c] = TRUE] /\ filelen' = filelen
  <2>1. filelen \in [Calls -> 0 .. MaxSize] /\ filelen[c] \in 0 .. MaxSize
    BY DEF Protocol, Typed, TypeOK
  <2>2. CASE Go(c, "killed") /\ gone' = [gone EXCEPT ![c] = TRUE] /\ UNCHANGED filelen
    BY <2>1, <2>2 DEF Go
  <2>3. CASE /\ Go(c, "parse")
             /\ \E n \in (IF word[c] = "OK" THEN 0 .. MaxSize ELSE {filelen[c]}) :
                  filelen' = [filelen EXCEPT ![c] = n]
             /\ UNCHANGED gone
    BY <2>1, <2>3 DEF Go
  <2>4. QED
    BY <2>2, <2>3 DEF HeaderCut
<1>4. /\ cpc \in [Calls -> ClientStates] /\ gone \in [Calls -> BOOLEAN]
      /\ filelen \in [Calls -> 0 .. MaxSize] /\ fault \in [Calls -> {"none", "pending", "reported"}]
  BY DEF Protocol, Typed, TypeOK
<1>5. Typed'
  <2>1. cpc' \in [Calls -> ClientStates] /\ gone' \in [Calls -> BOOLEAN]
    BY <1>3, <1>4 DEF ClientStates
  <2>2. filelen' \in [Calls -> 0 .. MaxSize]
    BY <1>3, <1>4
  <2>3. fault' \in [Calls -> {"none", "pending", "reported"}]
    BY <1>1, <1>4
  <2>4. QED
    BY <1>1, <2>1, <2>2, <2>3 DEF Protocol, Typed, TypeOK, serverVars
<1>6. Call(c) /\ ~gone[c] /\ word[c] \in {"none", "OK"} /\ received[c] = 0 /\ filelen[c] = 0
  BY <1>1 DEF Protocol, Call, Standing, Progress
<1>7. /\ cpc'[c] = s /\ (gone'[c] <=> s = "killed") /\ (word[c] # "OK" => filelen'[c] = 0)
      /\ \A d \in Calls \ {c} :
           cpc'[d] = cpc[d] /\ gone'[d] = gone[d] /\ filelen'[d] = filelen[d] /\ fault'[d] = fault[d]
  BY <1>1, <1>3, <1>4, <1>6
<1>8. Progress(c)'
  BY <1>1, <1>6, <1>7 DEF Call, Progress
<1>9. Standing(c)'
  BY <1>1, <1>2, <1>6, <1>7 DEF Call, Standing, Up, serverVars
<1>10. InLine(c)' => InLine(c)
  BY <1>1, <1>7 DEF InLine, serverVars
<1>11. Shaped(c)'
  BY <1>1, <1>2, <1>6, <1>7, <1>10, EmptySeq DEF Call, Shaped
<1>12. word[c] = "OK" => broken[c]
  BY <1>1, <1>2, <1>6 DEF Call, Shaped
<1>13. Answering(c)'
  BY <1>1, <1>6, <1>7, <1>12 DEF Call, Answering, serverVars
<1>14. ~(Up /\ ~broken[c])
  BY <1>2
<1>15. QED
  BY <1>1, <1>5, <1>6, <1>7, <1>8, <1>9, <1>11, <1>13, <1>14, CallStep

LEMMA ParseKeeps ==
  ASSUME Protocol, NEW c \in Calls, Parse(c), UNCHANGED serverVars
  PROVE  Protocol'
<1>1. /\ cpc[c] = "parse"
      /\ UNCHANGED <<listening, backlog, asked, down, gone, shut, broken, fault, word, filelen, received>>
  BY DEF Parse, tcpVars
<1>2. Call(c) /\ ~gone[c] /\ received[c] = 0
  BY <1>1 DEF Protocol, Call, Standing, Progress
<1>3. PICK s \in {"returned", "body"} :
        /\ cpc' = [cpc EXCEPT ![c] = s]
        /\ s = "returned" => word[c] = "none" /\ status' = status /\ ret' = [ret EXCEPT ![c] = "failed"]
        /\ s = "body" => word[c] # "none" /\ status' = [status EXCEPT ![c] = word[c]] /\ ret' = ret
  <2>1. CASE word[c] = "none"
    BY <2>1 DEF Parse, Go
  <2>2. CASE word[c] # "none"
    BY <2>2 DEF Parse, Go
  <2>3. QED
    BY <2>1, <2>2
<1>4. Typed'
  <2>1. word[c] # "none" => word[c] \in {"OK", "FILE_NOT_FOUND"}
    BY DEF Protocol, Typed, TypeOK
  <2>2. cpc' \in [Calls -> ClientStates]
    BY <1>3 DEF Protocol, Typed, TypeOK, ClientStates
  <2>3. status' \in [Calls -> {"INVALID", "OK", "FILE_NOT_FOUND", "ERROR"}]
    BY <1>3, <2>1 DEF Protocol, Typed, TypeOK
  <2>4. ret' \in [Calls -> {"none", "0", "failed"}]
    BY <1>3 DEF Protocol, Typed, TypeOK
  <2>5. QED
    BY <1>1, <2>2, <2>3, <2>4 DEF Protocol, Typed, TypeOK, serverVars
<1>5. /\ cpc'[c] = s /\ \A d \in Calls \ {c} : cpc'[d] = cpc[d] /\ status'[d] = status[d]
      /\ status'[c] = "FILE_NOT_FOUND" => word[c] = "FILE_NOT_FOUND"
  <2>1. cpc \in [Calls -> ClientStates]
    BY DEF Protocol, Typed, TypeOK
  <2>2. status \in [Calls -> {"INVALID", "OK", "FILE_NOT_FOUND", "ERROR"}]
    BY DEF Protocol, Typed, TypeOK
  <2>3. status[c] = "FILE_NOT_FOUND" => word[c] = "FILE_NOT_FOUND"
    BY <1>2 DEF Call, Progress
  <2>4. QED
    BY <1>3, <2>1, <2>2, <2>3
<1>6. Progress(c)'
  <2>1. word[c] \in {"none", "OK", "FILE_NOT_FOUND"}
    BY DEF Protocol, Typed, TypeOK
  <2>2. QED
    BY <1>1, <1>2, <1>3, <1>5, <2>1 DEF Call, Progress
<1>7. Standing(c)'
  BY <1>1, <1>2, <1>3, <1>5 DEF Call, Standing, Up, serverVars
<1>8. InLine(c)' => InLine(c)
  BY <1>1, <1>3, <1>5 DEF InLine, serverVars
<1>9. Shaped(c)'
  BY <1>1, <1>2, <1>3, <1>5, <1>8 DEF Call, Shaped
<1>10. Answering(c)'
  BY <1>1, <1>2, <1>3, <1>5 DEF Call, Answering, serverVars
<1>11. Accounted(c) => Accounted(c)'
  BY <1>1, <1>3, <1>5 DEF Accounted, HeaderLeft, serverVars
<1>12. QED
  BY <1>1, <1>2, <1>3, <1>4, <1>5, <1>6, <1>7, <1>9, <1>10, <1>11, CallStep

LEMMA ReadBodyKeeps ==
  ASSUME Protocol, NEW c \in Calls, ReadBody(c), UNCHANGED serverVars
  PROVE  Protocol'
<1>1. /\ cpc[c] = "body" /\ received[c] < filelen[c] /\ down[c] # <<>>
      /\ down' = [down EXCEPT ![c] = Tail(down[c])]
      /\ received' = [received EXCEPT ![c] = received[c] + 1]
      /\ UNCHANGED <<listening, backlog, asked, gone, shut, broken, fault, cpc, word, status, filelen, ret>>
  BY DEF ReadBody, HasPiece
<1>2. /\ down \in [Calls -> Seq(Pieces)] /\ down[c] \in Seq(Pieces) /\ received \in [Calls -> Nat]
  BY DEF Protocol, Typed
<1>3. Call(c) /\ ~gone[c] /\ word[c] = "OK"
  BY <1>1 DEF Protocol, Call, Standing, Progress, Shaped
<1>4. /\ down'[c] = Tail(down[c]) /\ received'[c] = received[c] + 1
      /\ \A d \in Calls \ {c} : down'[d] = down[d] /\ received'[d] = received[d]
  BY <1>1, <1>2
<1>5. Typed'
  <2>1. down' \in [Calls -> Seq(Pieces)]
    BY <1>1, <1>2, TailPieces
  <2>2. received' \in [Calls -> Nat]
    BY <1>1, <1>2
  <2>3. QED
    BY <1>1, <2>1, <2>2 DEF Protocol, Typed, TypeOK, serverVars
<1>6. Progress(c)'
  BY <1>1, <1>3 DEF Call, Progress
<1>7. Standing(c)'
  BY <1>1, <1>3 DEF Call, Standing, Up, serverVars
<1>8. ~InLine(c) /\ ~InLine(c)'
  BY <1>1, <1>3 DEF Call, Shaped, InLine, serverVars
<1>9. \A k \in DOMAIN down'[c] : down'[c][k].kind = "data"
  <2>1. \A k \in DOMAIN down[c] : down[c][k].kind = "data"
    BY <1>1, <1>3 DEF Call, Shaped
  <2>2. QED
    BY <1>1, <1>2, <1>4, <2>1, TailPieces
<1>10. Shaped(c)'
  BY <1>1, <1>3, <1>8, <1>9 DEF Shaped
<1>11. Answering(c)'
  BY <1>1, <1>3, <1>9 DEF Call, Answering, serverVars
<1>12. Accounted(c) => Accounted(c)'
  <2>1. SUFFICES ASSUME Accounted(c) PROVE Accounted(c)'
    OBVIOUS
  <2>2. HeaderLeft(c) = 0 /\ HeaderLeft(c)' = 0
    BY <1>1, <1>3 DEF HeaderLeft
  <2>3. received[c] + Len(down[c]) = sent /\ sent' = sent /\ sent \in Nat /\ received[c] \in Nat
    BY <1>2, <2>1, <2>2, BoundsAssumption, MaxSizeAssumption DEF Accounted, serverVars,
       Protocol, Typed, TypeOK
  <2>4. Len(down'[c]) = Len(down[c]) - 1 /\ Len(down[c]) \in Nat /\ Len(down'[c]) \in Nat
    BY <1>1, <1>2, <1>4, TailPieces
  <2>5. QED
    BY <1>1, <1>3, <1>4, <2>2, <2>3, <2>4 DEF Accounted
<1>13. QED
  BY <1>1, <1>3, <1>4, <1>5, <1>6, <1>7, <1>10, <1>11, <1>12, CallStep

LEMMA BodyCutKeeps ==
  ASSUME Protocol, NEW c \in Calls, BodyCut(c), UNCHANGED serverVars
  PROVE  Protocol'
<1>1. /\ cpc[c] = "body" /\ received[c] < filelen[c] /\ HasEof(c)
      /\ status' = [status EXCEPT ![c] = "ERROR"] /\ ret' = [ret EXCEPT ![c] = "failed"]
      /\ cpc' = [cpc EXCEPT ![c] = "returned"]
      /\ UNCHANGED <<listening, backlog, asked, down, gone, shut, broken, fault, word, filelen, received>>
  BY DEF BodyCut, Go, tcpVars
<1>2. down[c] = <<>> /\ (Up => broken[c])
  BY <1>1, CutMeans
<1>3. Typed'
  BY <1>1 DEF Protocol, Typed, TypeOK, ClientStates, serverVars
<1>4. /\ cpc'[c] = "returned" /\ status'[c] = "ERROR"
      /\ \A d \in Calls \ {c} : cpc'[d] = cpc[d] /\ status'[d] = status[d]
  BY <1>1 DEF Protocol, Typed, TypeOK
<1>5. Call(c) /\ ~gone[c] /\ word[c] \in {"OK", "FILE_NOT_FOUND"}
  BY <1>1 DEF Protocol, Call, Standing, Progress
<1>6. Progress(c)'
  BY <1>1, <1>4, <1>5 DEF Call, Progress
<1>7. Standing(c)'
  BY <1>1, <1>2, <1>4, <1>5 DEF Call, Standing, Up, serverVars
<1>8. InLine(c)' => InLine(c)
  BY <1>1, <1>4 DEF InLine, serverVars
<1>9. Shaped(c)'
  BY <1>1, <1>2, <1>4, <1>5, <1>8, EmptySeq DEF Call, Shaped
<1>10. Answering(c)'
  BY <1>1, <1>4, <1>5 DEF Call, Answering, serverVars
<1>11. QED
  BY <1>1, <1>2, <1>3, <1>4, <1>5, <1>6, <1>7, <1>9, <1>10, CallStep

LEMMA BodyErrorKeeps ==
  ASSUME Protocol, NEW c \in Calls, BodyError(c), UNCHANGED serverVars
  PROVE  Protocol'
<1>1. /\ cpc[c] = "body" /\ received[c] < filelen[c] /\ HasError(c)
      /\ fault' = [fault EXCEPT ![c] = "reported"]
      /\ UNCHANGED <<listening, backlog, asked, down, shut, broken, word, status, filelen, ret>>
  BY DEF BodyError
<1>2. down[c] = <<>> /\ (Up => broken[c])
  BY <1>1, CutMeans
<1>3. PICK s \in {"body", "killed"} :
        /\ s = "body" => /\ cpc' = cpc /\ gone' = gone
                         /\ received' = [received EXCEPT ![c] = IF received[c] = 0 THEN Huge ELSE received[c] - 1]
        /\ s = "killed" => /\ cpc' = [cpc EXCEPT ![c] = "killed"] /\ received' = received
                           /\ gone' = [gone EXCEPT ![c] = TRUE]
  BY DEF BodyError, Go
<1>4. cpc \in [Calls -> ClientStates] /\ gone \in [Calls -> BOOLEAN] /\ received \in [Calls -> Nat]
      /\ fault \in [Calls -> {"none", "pending", "reported"}]
  BY DEF Protocol, Typed, TypeOK
<1>5. Typed'
  <2>1. received' \in [Calls -> Nat]
    BY <1>3, <1>4 DEF Huge
  <2>2. cpc' \in [Calls -> ClientStates] /\ gone' \in [Calls -> BOOLEAN]
    BY <1>3, <1>4 DEF ClientStates
  <2>3. fault' \in [Calls -> {"none", "pending", "reported"}]
    BY <1>1, <1>4
  <2>4. QED
    BY <1>1, <2>1, <2>2, <2>3 DEF Protocol, Typed, TypeOK, serverVars
<1>6. Call(c) /\ ~gone[c] /\ word[c] = "OK"
  <2>1. filelen[c] # 0 \/ received[c] # 0
    BY <1>1
  <2>2. QED
    BY <1>1, <2>1 DEF Protocol, Call, Standing, Progress
<1>7. /\ cpc'[c] = s /\ (gone'[c] <=> s = "killed")
      /\ \A d \in Calls \ {c} :
           cpc'[d] = cpc[d] /\ gone'[d] = gone[d] /\ received'[d] = received[d] /\ fault'[d] = fault[d]
  BY <1>1, <1>3, <1>4, <1>6
<1>8. Progress(c)'
  BY <1>1, <1>3, <1>6, <1>7 DEF Call, Progress
<1>9. Standing(c)'
  BY <1>1, <1>2, <1>3, <1>6, <1>7 DEF Call, Standing, Up, serverVars
<1>10. InLine(c)' => InLine(c)
  BY <1>1, <1>3, <1>7 DEF InLine, serverVars
<1>11. Shaped(c)'
  BY <1>1, <1>2, <1>3, <1>6, <1>7, <1>10, EmptySeq DEF Call, Shaped
<1>12. Answering(c)'
  BY <1>1, <1>3, <1>6, <1>7 DEF Call, Answering, serverVars
<1>13. QED
  BY <1>1, <1>2, <1>3, <1>5, <1>6, <1>7, <1>8, <1>9, <1>11, <1>12, CallStep

LEMMA ReturnKeeps ==
  ASSUME Protocol, NEW c \in Calls, Return(c), UNCHANGED serverVars
  PROVE  Protocol'
<1>1. /\ cpc[c] = "body" /\ ret' = [ret EXCEPT ![c] = "0"] /\ cpc' = [cpc EXCEPT ![c] = "returned"]
      /\ gone' = [gone EXCEPT ![c] = TRUE]
      /\ UNCHANGED <<listening, backlog, asked, down, shut, broken, fault, word, status, filelen, received>>
  BY DEF Return, Go
<1>2. Typed'
  BY <1>1 DEF Protocol, Typed, TypeOK, ClientStates, serverVars
<1>3. /\ cpc'[c] = "returned" /\ gone'[c]
      /\ \A d \in Calls \ {c} : cpc'[d] = cpc[d] /\ gone'[d] = gone[d]
  BY <1>1 DEF Protocol, Typed, TypeOK
<1>4. Call(c) /\ word[c] \in {"OK", "FILE_NOT_FOUND"}
  BY <1>1 DEF Protocol, Call, Progress
<1>5. Progress(c)' /\ Standing(c)'
  BY <1>1, <1>3, <1>4 DEF Call, Progress, Standing, Up, serverVars
<1>6. InLine(c)' => InLine(c)
  BY <1>1, <1>3 DEF InLine, serverVars
<1>7. Shaped(c)'
  BY <1>1, <1>3, <1>4, <1>6 DEF Call, Shaped
<1>8. Answering(c)'
  BY <1>1, <1>3, <1>4 DEF Call, Answering, serverVars
<1>9. QED
  BY <1>1, <1>2, <1>3, <1>5, <1>7, <1>8, CallStep

LEMMA ClientKeeps ==
  ASSUME Protocol, NEW c \in Calls, ClientStep(c) \/ Quit(c), UNCHANGED serverVars
  PROVE  Protocol'
  BY ConnectKeeps, RequestKeeps, ReadHeaderKeeps, HeaderCutKeeps, ParseKeeps, ReadBodyKeeps,
     BodyCutKeeps, BodyErrorKeeps, ReturnKeeps DEF ClientStep

-----------------------------------------------------------------------------
(* Steps of the server and of the network.                                 *)

(* A step that leaves the clients alone and the responses but to the calls *)
(* it answers.                                                             *)
LEMMA AnswerStep ==
  ASSUME Protocol, UNCHANGED clientVars, gone' = gone, broken' = broken, content' = content,
         partial \subseteq partial',
         Up' => Up /\ shut' = shut /\ fault' = fault,
         \A d \in Calls : size'[PathOf[d]] <= size[PathOf[d]],
         \A d \in Calls : InLine(d)' => InLine(d),
         \A d \in Calls : down'[d] = down[d] \/ Call(d)',
         Typed', Lined', Server'
  PROVE  Protocol'
<1>1. ASSUME NEW d \in Calls PROVE Call(d)'
  <2>1. CASE down'[d] = down[d]
    BY <2>1, Unmoved DEF Protocol, clientVars
  <2>2. QED
    BY <2>1
<1>2. QED
  BY <1>1 DEF Protocol

LEMMA SameSizes ==
  ASSUME Typed, size' = size
  PROVE  \A d \in Calls : size'[PathOf[d]] <= size[PathOf[d]]
  BY PathOfAssumption, BoundsAssumption, MaxSizeAssumption DEF Typed

(* The server ends: nothing is said of a connection any more.              *)
LEMMA EndKeeps ==
  ASSUME Protocol, NEW state \in {"returned", "killed"}, End(state), UNCHANGED clientVars,
         UNCHANGED <<down, conn, fds, found, fileLen, sent, partial, aborted, size, content, shrinks>>, freed' \in 0 .. 2
  PROVE  Protocol'
<1>1. /\ spc' = state /\ listening' = FALSE /\ backlog' = <<>> /\ shut' = [c \in Calls |-> TRUE]
      /\ asked' = asked /\ gone' = gone /\ broken' = broken
      /\ fault' = [c \in Calls |->
                     IF c \in {backlog[k] : k \in DOMAIN backlog} /\ fault[c] = "none" THEN "pending" ELSE fault[c]]
  BY DEF End, CloseServer
<1>2. Typed'
  <2>1. backlog' \in Seq(Calls) /\ listening' \in BOOLEAN /\ shut' \in [Calls -> BOOLEAN]
    BY <1>1, EmptySeq
  <2>2. fault' \in [Calls -> {"none", "pending", "reported"}]
    <3>1. fault \in [Calls -> {"none", "pending", "reported"}]
      BY DEF Protocol, Typed, TypeOK
    <3>2. QED
      BY <1>1, <3>1
  <2>3. spc' \in ServerStates
    BY <1>1 DEF ServerStates
  <2>4. QED
    BY <1>1, <2>1, <2>2, <2>3 DEF Protocol, Typed, TypeOK, clientVars
<1>3. ~Up' /\ ~Serving'
  BY <1>1 DEF Up, Serving
<1>4. DOMAIN backlog' = {}
  BY <1>1
<1>5. Lined'
  BY <1>3, <1>4 DEF Lined
<1>6. Server'
  BY <1>1 DEF Server
<1>7. \A d \in Calls : InLine(d)' => InLine(d)
  BY <1>1, <1>4 DEF InLine, clientVars
<1>8. QED
  BY <1>1, <1>2, <1>3, <1>5, <1>6, <1>7, AnswerStep, SameSizes DEF Protocol

LEMMA AcceptKeeps ==
  ASSUME Protocol, Accept, UNCHANGED clientVars
  PROVE  Protocol'
<1>1. /\ spc = "accept" /\ fds < MaxFds /\ backlog # <<>> /\ conn' = Head(backlog) /\ backlog' = Tail(backlog)
      /\ fds' = fds + 1 /\ freed' = 0 /\ spc' = "read"
      /\ UNCHANGED <<listening, asked, down, gone, shut, broken, fault, found, fileLen, sent, partial, aborted, size,
                     content, shrinks>>
  BY DEF Accept
<1>2. backlog \in Seq(Calls) /\ fds \in 0 .. MaxFds /\ MaxFds \in Nat
  BY BoundsAssumption, MaxSizeAssumption DEF Protocol, Typed, TypeOK
<1>3. /\ conn' = backlog[1] /\ conn' \in Calls /\ 1 \in DOMAIN backlog /\ backlog' \in Seq(Calls)
      /\ \A k \in DOMAIN backlog' : k \in Nat /\ k >= 1 /\ k + 1 \in DOMAIN backlog /\ backlog'[k] = backlog[k + 1]
  BY <1>1, <1>2, TailPieces
<1>4. Typed'
  <2>1. fds' \in 0 .. MaxFds
    BY <1>1, <1>2
  <2>2. freed' \in 0 .. 2 /\ spc' \in ServerStates
    BY <1>1 DEF ServerStates
  <2>3. listening' \in BOOLEAN /\ found' \in BOOLEAN /\ fileLen' \in 0 .. MaxSize /\ sent' \in 0 .. MaxSize
    BY <1>1 DEF Protocol, Typed, TypeOK
  <2>4. QED
    BY <1>1, <1>3, <2>1, <2>2, <2>3 DEF Protocol, Typed, TypeOK, clientVars
<1>5. Lined'
  <2>1. \A i, j \in DOMAIN backlog' : backlog'[i] = backlog'[j] => i = j
    <3>1. SUFFICES ASSUME NEW i \in DOMAIN backlog', NEW j \in DOMAIN backlog', backlog'[i] = backlog'[j]
                   PROVE  i = j
      OBVIOUS
    <3>2. i + 1 = j + 1
      BY <1>3, <3>1 DEF Protocol, Lined
    <3>3. QED
      BY <1>3, <3>2
  <2>2. \A k \in DOMAIN backlog' : cpc'[backlog'[k]] # "connect"
    BY <1>3 DEF Protocol, Lined, clientVars
  <2>3. cpc'[conn'] # "connect"
    BY <1>3 DEF Protocol, Lined, clientVars
  <2>4. ASSUME NEW k \in DOMAIN backlog' PROVE backlog'[k] # conn'
    <3>1. k + 1 # 1
      BY <1>3
    <3>2. QED
      BY <1>3, <3>1 DEF Protocol, Lined
  <2>5. QED
    BY <2>1, <2>2, <2>3, <2>4 DEF Lined
<1>6. Server'
  BY <1>1 DEF Server
<1>7. \A d \in Calls : InLine(d)' => InLine(d)
  BY <1>1, <1>3 DEF InLine, clientVars
<1>8. Up' => Up
  BY <1>1 DEF Up
<1>9. QED
  BY <1>1, <1>4, <1>5, <1>6, <1>7, <1>8, AnswerStep, SameSizes DEF Protocol

LEMMA ReadRequestKeeps ==
  ASSUME Protocol, ReadRequest, UNCHANGED clientVars
  PROVE  Protocol'
<1>1. PICK whole \in BOOLEAN :
        /\ whole => asked[conn]
        /\ ~whole => MayFragment \/ ~asked[conn]
        /\ found' = (whole /\ PathOf[conn] \in content)
        /\ partial' = IF whole \/ ~asked[conn] THEN partial ELSE partial \cup {conn}
  BY DEF ReadRequest
<1>2. /\ spc = "read" /\ spc' = "header"
      /\ UNCHANGED <<conn, fds, fileLen, sent, freed, aborted, size, content, shrinks>>
      /\ UNCHANGED <<listening, backlog, asked, down, gone, shut, broken, fault>>
  BY DEF ReadRequest, tcpVars
<1>3. found' \in BOOLEAN
  BY <1>1
<1>11. partial \subseteq partial' /\ partial' \in SUBSET Calls
  BY <1>1 DEF Protocol, Typed, TypeOK
<1>4. Typed'
  BY <1>2, <1>3, <1>11 DEF Protocol, Typed, TypeOK, ServerStates, clientVars
<1>5. Lined'
  BY <1>2 DEF Protocol, Lined, Serving, clientVars
<1>6. found' => PathOf[conn] \in content
  BY <1>1, Zenon
<1>7. ~found' => gone[conn] \/ conn \in partial' \/ PathOf[conn] \notin content
  <2>1. asked[conn] \/ gone[conn]
    BY DEF ReadRequest
  <2>2. QED
    BY <1>1, <2>1, Zenon
<1>8. Server'
  BY <1>2, <1>3, <1>6, <1>7 DEF Protocol, Server
<1>9. (\A d \in Calls : InLine(d)' => InLine(d)) /\ (Up' => Up)
  BY <1>2 DEF InLine, Up, clientVars
<1>10. QED
  BY <1>2, <1>4, <1>5, <1>8, <1>9, <1>11, AnswerStep, SameSizes DEF Protocol

(* A header goes to a client that has read nothing and waits for it.       *)
LEMMA SendHeaderKeeps ==
  ASSUME Protocol, SendHeader, UNCHANGED clientVars
  PROVE  Protocol'
<1> DEFINE len == IF found THEN size[PathOf[conn]] ELSE 0
           header == IF found THEN <<Status("OK"), Length(len)>> ELSE <<Status("FILE_NOT_FOUND")>>
<1>1. /\ spc = "header" /\ conn' = conn /\ conn \in Calls
      /\ UNCHANGED <<fds, found, freed, partial, aborted, size, content, shrinks>>
  BY DEF SendHeader, Protocol, Typed, TypeOK
<1>2. CASE End("killed") /\ UNCHANGED <<down, fileLen, sent>>
  BY <1>1, <1>2, EndKeeps DEF Protocol, Typed, TypeOK
<1>3. CASE /\ down' = IF "sent" \in WriteOutcomes(conn) THEN [down EXCEPT ![conn] = @ \o header] ELSE down
           /\ fileLen' = len /\ sent' = 0 /\ spc' = HandlerLoop(0, len)
           /\ UNCHANGED <<listening, backlog, asked, gone, shut, broken, fault>>
  <2>1. PathOf[conn] \in Paths /\ size \in [Paths -> 0 .. MaxSize] /\ MaxSize \in Nat
    BY <1>1, PathOfAssumption, BoundsAssumption, MaxSizeAssumption DEF Protocol, Typed
  <2>2. len \in 0 .. MaxSize /\ (found => len = size[PathOf[conn]]) /\ (~found => len = 0)
    BY <2>1
  <2>3. Call(conn) /\ down[conn] = <<>> /\ word[conn] = "none" /\ InLine(conn)
    BY <1>1 DEF Protocol, Call, Shaped, InLine
  <2>4. /\ header \in Seq(Pieces) /\ Len(header) = IF found THEN 2 ELSE 1
        /\ found => header[1] = Status("OK") /\ header[2] = Length(len)
        /\ ~found => header[1] = Status("FILE_NOT_FOUND")
    <3>1. Status("OK") \in Pieces /\ Status("FILE_NOT_FOUND") \in Pieces /\ Length(len) \in Pieces
      BY <2>1, <2>2 DEF Status, Length, Pieces
    <3>2. QED
      BY <3>1
  <2> HIDE DEF header
  <2> HIDE DEF len
  <2>5. WriteOutcomes(conn) = IF gone[conn] \/ broken[conn] THEN {"lost", "error", "sigpipe"}
                             ELSE {"sent", "short"}
    BY DEF WriteOutcomes
  <2>6. /\ \A d \in Calls : d # conn => down'[d] = down[d]
        /\ gone[conn] \/ broken[conn] => down'[conn] = down[conn]
        /\ ~gone[conn] /\ ~broken[conn] => down'[conn] = header
        /\ down' \in [Calls -> Seq(Pieces)]
    <3>1. down \in [Calls -> Seq(Pieces)]
      BY DEF Protocol, Typed
    <3>2. <<>> \o header = header
      BY <2>4
    <3>3. CASE gone[conn] \/ broken[conn]
      BY <1>3, <2>5, <3>1, <3>3
    <3>4. CASE ~(gone[conn] \/ broken[conn])
      <4>1. down' = [down EXCEPT ![conn] = header]
        BY <1>3, <2>3, <2>5, <3>2, <3>4
      <4>2. QED
        BY <1>1, <2>4, <3>1, <3>4, <4>1
    <3>5. QED
      BY <3>3, <3>4
  <2>7. spc' \in {"body", "free"} /\ (spc' = "body" => found)
    BY <1>3, <2>2 DEF HandlerLoop
  <2>8. Typed'
    <3>1. fileLen' \in 0 .. MaxSize /\ sent' \in 0 .. MaxSize /\ spc' \in ServerStates
      BY <1>3, <2>1, <2>2, <2>7 DEF ServerStates
    <3>2. down' \in [Calls -> Seq(Pieces)]
      BY <2>6
    <3>3. QED
      BY <1>1, <1>3, <3>1, <3>2 DEF Protocol, Typed, TypeOK, clientVars
  <2>9. Lined'
    BY <1>1, <1>3, <2>7 DEF Protocol, Lined, Serving, clientVars
  <2>10. \A d \in Calls : InLine(d)' => InLine(d)
    BY <1>3, <2>7 DEF InLine, clientVars
  <2>11. ~InLine(conn)'
    BY <1>1, <1>3, <2>7 DEF InLine, clientVars, Protocol, Lined, Serving
  <2>12. Up /\ Up'
    BY <1>1, <2>7 DEF Up
  <2>13. CASE gone[conn] \/ broken[conn]
    <3>1. Server'
      BY <1>1, <1>3, <2>7, <2>13 DEF Protocol, Server
    <3>2. QED
      BY <1>1, <1>3, <2>6, <2>8, <2>9, <2>10, <2>12, <2>13, <3>1, AnswerStep, SameSizes DEF
         Protocol
  <2>14. CASE ~gone[conn] /\ ~broken[conn]
    <3>1. Progress(conn)' /\ Standing(conn)'
      BY <1>1, <1>3, <2>3, <2>12 DEF Call, Progress, Standing, clientVars
    <3>2. Shaped(conn)'
      <4>1. word'[conn] = "none" /\ down'[conn] = header
        BY <1>1, <2>3, <2>6, <2>14 DEF clientVars
      <4>2. \A k \in DOMAIN header : header[k].kind = IF k = 1 THEN "status" ELSE IF k = 2 THEN "length" ELSE "data"
        BY <2>4 DEF Status, Length
      <4>3. /\ header[1].val \in {"OK", "FILE_NOT_FOUND"}
            /\ header[1].val = "FILE_NOT_FOUND" => Len(header) = 1
            /\ header[1].val = "OK" => Len(header) >= 2
        BY <2>4 DEF Status
      <4>4. QED
        BY <1>1, <2>11, <4>1, <4>2, <4>3 DEF Shaped
    <3>3. Answering(conn)'
      <4>1. IF found THEN PathOf[conn] \in content ELSE conn \in partial \/ PathOf[conn] \notin content
        BY <1>1, <2>14 DEF Protocol, Server
      <4>2. \A k \in DOMAIN header :
              /\ header[k].kind = "length" => header[k].val \in 0 .. MaxSize /\ header[k].val >= size[PathOf[conn]]
              /\ header[k].kind = "status" =>
                   IF header[k].val = "OK" THEN PathOf[conn] \in content
                                           ELSE conn \in partial \/ PathOf[conn] \notin content
        <5>1. CASE found
          <6>1. \A k \in DOMAIN header : k = 1 \/ k = 2
            BY <2>4, <5>1
          <6>2. /\ header[1].kind = "status" /\ header[1].val = "OK"
                /\ header[2].kind = "length" /\ header[2].val = len
            BY <2>4, <5>1 DEF Status, Length
          <6>3. len >= size[PathOf[conn]]
            BY <2>1, <2>2, <5>1
          <6>4. QED
            BY <2>2, <4>1, <5>1, <6>1, <6>2, <6>3
        <5>2. CASE ~found
          <6>1. \A k \in DOMAIN header : k = 1
            BY <2>4, <5>2
          <6>2. header[1].kind = "status" /\ header[1].val = "FILE_NOT_FOUND"
            BY <2>4, <5>2 DEF Status
          <6>3. QED
            BY <4>1, <5>2, <6>1, <6>2
        <5>3. QED
          BY <5>1, <5>2
      <4>3. /\ word'[conn] = "none" /\ down'[conn] = header /\ size' = size
            /\ content' = content /\ conn' = conn /\ partial' = partial
        BY <1>1, <2>3, <2>6, <2>14 DEF clientVars
      <4>4. QED
        BY <4>2, <4>3 DEF Answering
    <3>4. found => Accounted(conn)'
      <4>1. SUFFICES ASSUME found PROVE Accounted(conn)'
        OBVIOUS
      <4>2. word'[conn'] = "none" /\ received'[conn'] = 0 /\ down'[conn'] = header /\ sent' = 0
        BY <1>1, <1>3, <2>3, <2>6, <2>14 DEF Call, Progress, clientVars
      <4>3. HeaderLeft(conn)' = 2
        BY <4>2 DEF HeaderLeft
      <4>4. Len(header) = 2 /\ header[1].val = "OK"
        BY <2>4, <4>1 DEF Status
      <4>5. QED
        BY <4>2, <4>3, <4>4 DEF Accounted
    <3>5. Server'
      BY <1>1, <1>3, <2>7, <3>4 DEF Protocol, Server
    <3>6. Call(conn)'
      BY <3>1, <3>2, <3>3 DEF Call
    <3>7. \A d \in Calls : down'[d] = down[d] \/ Call(d)'
      BY <1>1, <2>6, <3>6
    <3>8. QED
      BY <1>1, <1>3, <2>8, <2>9, <2>10, <2>12, <3>5, <3>7, AnswerStep, SameSizes DEF Protocol
  <2>15. QED
    BY <2>13, <2>14
<1>4. QED
  BY <1>2, <1>3 DEF SendHeader

(* A step that only moves the server on past the connection it answered.   *)
LEMMA MovesOn ==
  ASSUME Protocol, Serving, NEW s \in {"free", "accept"}, spc' = s, spc # "header" /\ spc # "read",
         UNCHANGED <<tcpVars, clientVars>>,
         UNCHANGED <<conn, fds, found, fileLen, sent, partial, size, content, shrinks>>,
         aborted' \in SUBSET Calls, freed' = freed + 1, s = "free" => freed' <= 1
  PROVE  Protocol'
<1>1. freed' \in 0 .. 2
  BY DEF Protocol, Server, Serving, Typed, TypeOK
<1>2. Typed'
  BY <1>1 DEF Protocol, Typed, TypeOK, ServerStates, clientVars, tcpVars
<1>3. Lined'
  BY DEF Protocol, Lined, Serving, clientVars, tcpVars
<1>4. Accounted(conn) => Accounted(conn)'
  BY DEF Accounted, HeaderLeft, clientVars, tcpVars
<1>5. spc \in {"body", "free"}
  BY DEF Serving
<1>6. Server'
  BY <1>4, <1>5 DEF Protocol, Server, clientVars, tcpVars
<1>7. (\A d \in Calls : InLine(d)' => InLine(d)) /\ Up
  BY <1>5 DEF InLine, Up, clientVars, tcpVars
<1>8. QED
  BY <1>2, <1>3, <1>6, <1>7, AnswerStep, SameSizes DEF Protocol, tcpVars

LEMMA PreadFailsKeeps ==
  ASSUME Protocol, PreadFails, UNCHANGED clientVars
  PROVE  Protocol'
<1>1. /\ spc = "body" /\ spc' = "free" /\ freed' = freed + 1 /\ tcpVars' = tcpVars
      /\ UNCHANGED <<conn, fds, found, fileLen, sent, partial, size, content, shrinks>>
      /\ aborted' = aborted \cup {conn}
  BY DEF PreadFails
<1>2. freed = 0 /\ Serving /\ aborted' \in SUBSET Calls
  BY <1>1 DEF Protocol, Server, Serving, Typed, TypeOK
<1>3. QED
  BY <1>1, <1>2, MovesOn

LEMMA FreeContextKeeps ==
  ASSUME Protocol, FreeContext, UNCHANGED clientVars
  PROVE  Protocol'
<1>1. /\ spc = "free" /\ freed' = freed + 1
      /\ UNCHANGED <<conn, fds, found, fileLen, sent, partial, aborted, size, content, shrinks>>
  BY DEF FreeContext
<1>2. freed' \in 0 .. 2 /\ Serving /\ aborted \in SUBSET Calls
  BY <1>1 DEF Protocol, Server, Serving, Typed, TypeOK
<1>3. CASE spc' = "accept" /\ UNCHANGED tcpVars
  BY <1>1, <1>2, <1>3, MovesOn
<1>4. CASE End("killed") /\ UNCHANGED down
  BY <1>1, <1>2, <1>4, EndKeeps
<1>5. QED
  BY <1>3, <1>4 DEF FreeContext

LEMMA FailuresKeep ==
  ASSUME Protocol, AcceptFails \/ ReadFails, UNCHANGED clientVars
  PROVE  Protocol'
<1>1. /\ End("returned") /\ UNCHANGED <<down, conn, fds, found, fileLen, sent, partial, aborted, size, content, shrinks>>
      /\ freed' = freed \/ (spc = "read" /\ freed' = freed + 1)
  BY DEF AcceptFails, ReadFails
<1>2. freed' \in 0 .. 2
  BY <1>1 DEF Protocol, Server, Typed, TypeOK
<1>3. QED
  BY <1>1, <1>2, EndKeeps

LEMMA AppendPiece ==
  ASSUME NEW s \in Seq(Pieces), NEW p \in Pieces
  PROVE  /\ Append(s, p) \in Seq(Pieces) /\ Len(Append(s, p)) = Len(s) + 1 /\ Len(s) \in Nat
         /\ DOMAIN Append(s, p) = DOMAIN s \cup {Len(s) + 1} /\ Append(s, p)[Len(s) + 1] = p
         /\ \A k \in DOMAIN s : Append(s, p)[k] = s[k]
         /\ Append(s, p) # <<>> /\ (s # <<>> => 1 \in DOMAIN s) /\ DOMAIN s = 1 .. Len(s)
  BY AppendProperties, LenProperties, EmptySeq

(* A unit goes to a client that has the header or will have it first.      *)
LEMMA SendUnitKeeps ==
  ASSUME Protocol, SendUnit, UNCHANGED clientVars
  PROVE  Protocol'
<1>1. /\ spc = "body" /\ size[PathOf[conn]] > sent /\ conn' = conn /\ conn \in Calls
      /\ UNCHANGED <<fds, found, fileLen, partial, size, content, shrinks>>
  BY DEF SendUnit, Protocol, Typed, TypeOK
<1>2. freed = 0 /\ found /\ Serving /\ Up
  BY <1>1 DEF Protocol, Server, Serving, Up
<1>3. PICK w \in WriteOutcomes(conn) :
       \/ /\ w \in {"sent", "lost"}
          /\ down' = IF w = "sent" THEN [down EXCEPT ![conn] = Append(@, Data)] ELSE down
          /\ sent' = sent + 1
          /\ spc' = HandlerLoop(sent + 1, fileLen)
          /\ UNCHANGED <<listening, backlog, asked, gone, shut, broken, fault, freed, aborted>>
       \/ /\ w \in {"short", "error"}
          /\ freed' = freed + 1
          /\ aborted' = IF w = "short" THEN aborted \cup {conn} ELSE aborted
          /\ spc' = "free"
          /\ UNCHANGED <<tcpVars, sent>>
       \/ /\ w = "sigpipe"
          /\ End("killed")
          /\ UNCHANGED <<down, sent, freed, aborted>>
  BY DEF SendUnit
<1>4. CASE w \in {"short", "error"}
  <2>1. aborted' \in SUBSET Calls
    BY <1>1, <1>3, <1>4 DEF Protocol, Typed, TypeOK
  <2>2. QED
    BY <1>1, <1>2, <1>3, <1>4, <2>1, MovesOn
<1>5. CASE w = "sigpipe"
  BY <1>1, <1>2, <1>3, <1>5, EndKeeps
<1>6. CASE w \in {"sent", "lost"}
  <2> DEFINE longer == Append(down[conn], Data)
  <2>1. /\ down' = IF w = "sent" THEN [down EXCEPT ![conn] = longer] ELSE down
        /\ sent' = sent + 1 /\ spc' = HandlerLoop(sent + 1, fileLen)
        /\ UNCHANGED <<listening, backlog, asked, gone, shut, broken, fault, freed, aborted>>
    BY <1>3, <1>6
  <2>2. down \in [Calls -> Seq(Pieces)] /\ down[conn] \in Seq(Pieces) /\ Data \in Pieces
    BY <1>1 DEF Protocol, Typed, Data, Pieces
  <2>3. sent \in Nat /\ sent' \in 0 .. MaxSize
    <3>1. sent \in 0 .. MaxSize /\ size[PathOf[conn]] \in 0 .. MaxSize /\ MaxSize \in Nat
      BY <1>1, PathOfAssumption, BoundsAssumption, MaxSizeAssumption DEF Protocol, Typed, TypeOK
    <3>2. QED
      BY <1>1, <2>1, <3>1
  <2>4. /\ \A d \in Calls : d # conn => down'[d] = down[d]
        /\ w = "lost" => down'[conn] = down[conn]
        /\ w = "sent" => down'[conn] = longer
    BY <1>1, <2>1, <2>2
  <2>5. w = "sent" <=> ~gone[conn] /\ ~broken[conn]
    BY <1>3, <1>6 DEF WriteOutcomes
  <2>6. spc' \in {"body", "free"}
    BY <2>1 DEF HandlerLoop
  <2>7. Typed'
    <3>1. down' \in [Calls -> Seq(Pieces)]
      BY <1>1, <2>1, <2>2, AppendPiece
    <3>2. spc' \in ServerStates
      BY <2>6 DEF ServerStates
    <3>3. QED
      BY <1>1, <2>1, <2>3, <3>1, <3>2 DEF Protocol, Typed, TypeOK, clientVars
  <2>8. Lined'
    BY <1>1, <1>2, <2>1, <2>6 DEF Protocol, Lined, Serving, clientVars
  <2>9. \A d \in Calls : InLine(d)' => InLine(d)
    BY <2>1, <2>6 DEF InLine, clientVars
  <2>10. ~InLine(conn)'
    BY <1>1, <1>2, <2>1, <2>6 DEF InLine, clientVars, Protocol, Lined
  <2>11. CASE w = "lost"
    <3>1. Server'
      BY <1>1, <1>2, <2>1, <2>5, <2>6, <2>11 DEF Protocol, Server
    <3>2. \A d \in Calls : down'[d] = down[d]
      BY <2>4, <2>11
    <3>3. QED
      BY <1>1, <1>2, <2>1, <2>7, <2>8, <2>9, <3>1, <3>2, AnswerStep, SameSizes DEF Protocol
  <2>12. CASE w = "sent"
    <3>1. Call(conn) /\ Accounted(conn) /\ ~gone[conn] /\ ~broken[conn]
      BY <1>1, <1>2, <2>5, <2>12 DEF Protocol, Server
    <3>2. /\ cpc' = cpc /\ word' = word /\ received' = received /\ filelen' = filelen /\ status' = status
          /\ down'[conn] = longer /\ size' = size /\ content' = content
      BY <1>1, <2>4, <2>12 DEF clientVars
    <3>3. /\ Len(longer) = Len(down[conn]) + 1 /\ Len(down[conn]) \in Nat
          /\ DOMAIN longer = DOMAIN down[conn] \cup {Len(down[conn]) + 1}
          /\ \A k \in DOMAIN down[conn] : longer[k] = down[conn][k]
          /\ longer[Len(down[conn]) + 1].kind = "data"
          /\ longer # <<>> /\ (down[conn] # <<>> => 1 \in DOMAIN down[conn])
          /\ DOMAIN down[conn] = 1 .. Len(down[conn])
      BY <2>2, AppendPiece DEF Data
    <3> HIDE DEF longer
    <3>4. word[conn] \in {"none", "OK"} /\ received[conn] \in Nat
      BY <1>1, <3>1 DEF Accounted, Protocol, Typed, TypeOK
    <3>5. Progress(conn)' /\ Standing(conn)'
      BY <1>1, <1>2, <2>1, <3>1, <3>2 DEF Call, Progress, Standing
    <3>6. Shaped(conn)'
      <4>1. CASE word[conn] = "none"
        <5>1. /\ Len(down[conn]) >= 2 /\ down[conn][1].val = "OK" /\ 1 \in DOMAIN down[conn]
              /\ \A k \in DOMAIN down[conn] :
                   down[conn][k].kind = IF k = 1 THEN "status" ELSE IF k = 2 THEN "length" ELSE "data"
          BY <3>1, <3>3, <4>1 DEF Accounted, HeaderLeft, Call, Shaped
        <5>2. \A k \in DOMAIN longer :
                longer[k].kind = IF k = 1 THEN "status" ELSE IF k = 2 THEN "length" ELSE "data"
          BY <3>3, <5>1
        <5>3. Len(longer) >= 2 /\ longer[1].val = "OK"
          BY <3>3, <5>1
        <5>4. QED
          BY <1>1, <2>10, <3>2, <4>1, <5>2, <5>3 DEF Shaped
      <4>2. CASE word[conn] = "OK"
        <5>1. cpc[conn] = "header" => Len(down[conn]) >= 1
          BY <3>1, <4>2 DEF Accounted, HeaderLeft
        <5>2. \A k \in DOMAIN down[conn] :
                \/ down[conn][k].kind = "data" /\ (k = 1 => cpc[conn] # "header")
                \/ down[conn][k].kind = "length" /\ k = 1 /\ cpc[conn] \in {"header", "killed"}
          BY <3>1, <4>2 DEF Call, Shaped
        <5>3. Len(down[conn]) + 1 = 1 => cpc[conn] # "header"
          BY <3>3, <5>1
        <5>4. \A k \in DOMAIN longer :
                \/ longer[k].kind = "data" /\ (k = 1 => cpc[conn] # "header")
                \/ longer[k].kind = "length" /\ k = 1 /\ cpc[conn] \in {"header", "killed"}
          BY <3>3, <5>2, <5>3
        <5>5. QED
          BY <1>1, <2>10, <3>2, <3>3, <4>2, <5>4 DEF Shaped
      <4>3. QED
        BY <3>4, <4>1, <4>2
    <3>7. Answering(conn)'
      <4>1. \A k \in DOMAIN longer : k \notin DOMAIN down[conn] => longer[k].kind = "data"
        BY <3>3
      <4>2. QED
        BY <1>1, <2>1, <3>1, <3>2, <3>3, <4>1 DEF Call, Answering
    <3>8. Accounted(conn)'
      <4>1. HeaderLeft(conn)' = HeaderLeft(conn) /\ HeaderLeft(conn) \in {0, 1, 2}
        BY <1>1, <3>2 DEF HeaderLeft
      <4>2. word[conn] = "none" => longer[1] = down[conn][1]
        BY <3>1, <3>3 DEF Accounted, HeaderLeft
      <4>3. /\ Len(down[conn]) >= HeaderLeft(conn)
            /\ received[conn] + Len(down[conn]) = sent + HeaderLeft(conn)
            /\ word[conn] = "none" => down[conn][1].val = "OK"
        BY <3>1 DEF Accounted
      <4>4. /\ Len(longer) >= HeaderLeft(conn)
            /\ received[conn] + Len(longer) = (sent + 1) + HeaderLeft(conn)
        <5> DEFINE a == Len(down[conn])
                   b == Len(longer)
                   h == HeaderLeft(conn)
                   r == received[conn]
        <5>1. /\ a \in Nat /\ h \in {0, 1, 2} /\ r \in Nat /\ sent \in Nat /\ b = a + 1
              /\ a >= h /\ r + a = sent + h
          BY <2>3, <3>3, <3>4, <4>1, <4>3, Zenon
        <5> HIDE DEF a, b, h, r
        <5>2. b >= h /\ r + b = (sent + 1) + h
          BY <5>1
        <5>3. QED
          BY <5>2 DEF a, b, h, r
      <4>5. word[conn] = "none" => longer[1].val = "OK"
        BY <4>2, <4>3
      <4>6. QED
        BY <1>1, <2>1, <3>2, <3>4, <4>1, <4>4, <4>5 DEF Accounted
    <3>9. Server'
      BY <1>1, <1>2, <2>1, <2>6, <3>8 DEF Protocol, Server
    <3>10. \A d \in Calls : down'[d] = down[d] \/ Call(d)'
      BY <1>1, <2>4, <3>5, <3>6, <3>7 DEF Call
    <3>11. QED
      BY <1>1, <1>2, <2>1, <2>7, <2>8, <2>9, <3>9, <3>10, AnswerStep, SameSizes DEF Protocol
  <2>13. QED
    BY <1>6, <2>11, <2>12
<1>7. QED
  BY <1>3, <1>4, <1>5, <1>6

LEMMA ServerKeeps ==
  ASSUME Protocol, ServerStep, UNCHANGED clientVars
  PROVE  Protocol'
  BY AcceptKeeps, ReadRequestKeeps, SendHeaderKeeps, PreadFailsKeeps, SendUnitKeeps,
     FreeContextKeeps,
     FailuresKeep DEF ServerStep

LEMMA ShrinkKeeps ==
  ASSUME Protocol, NEW p \in Paths, Shrink(p), UNCHANGED clientVars
  PROVE  Protocol'
<1>1. /\ size[p] > 0 /\ size' = [size EXCEPT ![p] = size[p] - 1]
      /\ UNCHANGED <<listening, backlog, asked, down, gone, shut, broken, fault>>
      /\ UNCHANGED <<spc, conn, fds, found, fileLen, sent, freed, partial, aborted, content>>
  BY DEF Shrink, tcpVars
<1>2. size \in [Paths -> 0 .. MaxSize] /\ MaxSize \in Nat
  BY BoundsAssumption, MaxSizeAssumption DEF Protocol, Typed
<1>3. \A q \in Paths : size'[q] \in 0 .. MaxSize /\ size'[q] <= size[q]
  BY <1>1, <1>2
<1>4. Typed'
  <2>1. size' \in [Paths -> 0 .. MaxSize]
    BY <1>1, <1>2, <1>3
  <2>2. QED
    BY <1>1, <2>1 DEF Protocol, Typed, TypeOK, clientVars
<1>5. Lined'
  BY <1>1 DEF Protocol, Lined, Serving, clientVars
<1>6. Accounted(conn) => Accounted(conn)'
  BY <1>1 DEF Accounted, HeaderLeft, clientVars
<1>7. Server'
  BY <1>1, <1>6 DEF Protocol, Server
<1>8. (\A d \in Calls : InLine(d)' => InLine(d)) /\ (Up' => Up)
  BY <1>1 DEF InLine, Up, clientVars
<1>9. \A d \in Calls : size'[PathOf[d]] <= size[PathOf[d]]
  BY <1>3, PathOfAssumption
<1>10. QED
  BY <1>1, <1>4, <1>5, <1>7, <1>8, <1>9, AnswerStep

LEMMA FirstPieces ==
  ASSUME NEW s \in Seq(Pieces), NEW n \in 0 .. Len(s)
  PROVE  /\ SubSeq(s, 1, n) \in Seq(Pieces) /\ Len(SubSeq(s, 1, n)) = n /\ Len(s) \in Nat
         /\ \A k \in DOMAIN SubSeq(s, 1, n) : k \in DOMAIN s /\ SubSeq(s, 1, n)[k] = s[k]
         /\ SubSeq(s, 1, n) # <<>> => n >= 1 /\ 1 \in DOMAIN s /\ SubSeq(s, 1, n)[1] = s[1]
<1>1. /\ SubSeq(s, 1, n) \in Seq(Pieces) /\ Len(SubSeq(s, 1, n)) = n /\ Len(s) \in Nat
      /\ \A k \in 1 .. n : SubSeq(s, 1, n)[k] = s[k]
  BY SubSeqProperties, LenProperties
<1>2. DOMAIN SubSeq(s, 1, n) = 1 .. n /\ DOMAIN s = 1 .. Len(s)
  BY <1>1
<1>3. SubSeq(s, 1, n) # <<>> => n >= 1
  BY <1>1, EmptySeq
<1>4. QED
  BY <1>1, <1>2, <1>3

(* What a break leaves of a response is the beginning of it.               *)
LEMMA BreakKeeps ==
  ASSUME Protocol, NEW c \in Calls, Break(c), UNCHANGED <<serverVars, clientVars>>
  PROVE  Protocol'
<1>1. PICK n \in 0 .. Len(down[c]) : down' = [down EXCEPT ![c] = SubSeq(down[c], 1, n)]
  BY DEF Break
<1>2. /\ ~gone[c] /\ ~shut[c]
      /\ broken' = [broken EXCEPT ![c] = TRUE] /\ fault' = [fault EXCEPT ![c] = "pending"]
      /\ UNCHANGED <<listening, backlog, asked, gone, shut>>
      /\ UNCHANGED <<spc, conn, fds, found, fileLen, sent, freed, partial, aborted, size, content, shrinks>>
      /\ UNCHANGED <<cpc, word, status, filelen, received, ret>>
  BY DEF Break, serverVars, clientVars
<1>3. /\ down \in [Calls -> Seq(Pieces)] /\ broken \in [Calls -> BOOLEAN] /\ down[c] \in Seq(Pieces)
      /\ fault \in [Calls -> {"none", "pending", "reported"}]
  BY DEF Protocol, Typed, TypeOK
<1> DEFINE first == SubSeq(down[c], 1, n)
<1>4. /\ down'[c] = first /\ broken'[c]
      /\ \A d \in Calls \ {c} : down'[d] = down[d] /\ broken'[d] = broken[d] /\ fault'[d] = fault[d]
  BY <1>1, <1>2, <1>3
<1>5. /\ first \in Seq(Pieces) /\ Len(first) = n /\ n \in Nat /\ n <= Len(down[c]) /\ Len(down[c]) \in Nat
      /\ \A k \in DOMAIN first : k \in DOMAIN down[c] /\ first[k] = down[c][k]
      /\ first # <<>> => n >= 1 /\ 1 \in DOMAIN down[c] /\ first[1] = down[c][1]
      /\ down[c] = <<>> => first = <<>>
  <2>1. down[c] = <<>> => n = 0
    BY <1>3
  <2>2. n = 0 => first = <<>>
    BY <1>3, FirstPieces, EmptySeq
  <2>3. QED
    BY <1>1, <1>3, <2>1, <2>2, FirstPieces
<1> HIDE DEF first
<1>6. Typed'
  <2>1. down' \in [Calls -> Seq(Pieces)]
    BY <1>1, <1>3, <1>5 DEF first
  <2>2. broken' \in [Calls -> BOOLEAN] /\ fault' \in [Calls -> {"none", "pending", "reported"}]
    BY <1>2, <1>3
  <2>3. QED
    BY <1>2, <2>1, <2>2 DEF Protocol, Typed, TypeOK
<1>7. Lined'
  BY <1>2 DEF Protocol, Lined, Serving
<1>8. (\A d \in Calls : InLine(d)' <=> InLine(d)) /\ (Up' <=> Up)
  BY <1>2 DEF InLine, Up
<1>9. ASSUME NEW d \in Calls \ {c} PROVE Call(d)'
  BY <1>2, <1>4, <1>6, <1>8, Unmoved, SameSizes DEF Protocol
<1>10. Call(c)'
  <2>1. Call(c)
    BY DEF Protocol
  <2>2. Progress(c)'
    BY <1>2, <2>1 DEF Call, Progress
  <2>3. Standing(c)'
    BY <1>2, <1>4, <1>8, <2>1 DEF Call, Standing
  <2>4. Shaped(c)'
    <3>1. word[c] = "none" /\ first # <<>> =>
            /\ first[1].val \in {"OK", "FILE_NOT_FOUND"}
            /\ first[1].val = "FILE_NOT_FOUND" => Len(first) = 1
      <4>1. SUFFICES ASSUME word[c] = "none", first # <<>>
                     PROVE  /\ first[1].val \in {"OK", "FILE_NOT_FOUND"}
                            /\ first[1].val = "FILE_NOT_FOUND" => Len(first) = 1
        OBVIOUS
      <4>2. down[c] # <<>> /\ first[1] = down[c][1] /\ n >= 1
        BY <1>5, <4>1
      <4>3. /\ down[c][1].val \in {"OK", "FILE_NOT_FOUND"}
            /\ down[c][1].val = "FILE_NOT_FOUND" => Len(down[c]) = 1
        BY <2>1, <4>1, <4>2 DEF Call, Shaped
      <4>4. QED
        BY <1>5, <4>2, <4>3
    <3>2. word[c] = "none" => \A k \in DOMAIN first :
            first[k].kind = IF k = 1 THEN "status" ELSE IF k = 2 THEN "length" ELSE "data"
      BY <1>5, <2>1 DEF Call, Shaped
    <3>3. word[c] = "OK" => \A k \in DOMAIN first :
            \/ first[k].kind = "data" /\ (k = 1 => cpc[c] # "header")
            \/ first[k].kind = "length" /\ k = 1 /\ cpc[c] \in {"header", "killed"}
      BY <1>5, <2>1 DEF Call, Shaped
    <3>4. /\ InLine(c) => first = <<>> /\ word[c] = "none"
          /\ word[c] = "FILE_NOT_FOUND" => first = <<>>
      BY <1>5, <2>1 DEF Call, Shaped
    <3>5. QED
      BY <1>2, <1>4, <1>8, <3>1, <3>2, <3>3, <3>4 DEF Shaped
  <2>5. Answering(c)'
    BY <1>2, <1>4, <1>5, <2>1 DEF Call, Answering
  <2>6. QED
    BY <2>2, <2>3, <2>4, <2>5 DEF Call
<1>11. Server'
  <2>1. conn \in Calls
    BY DEF Protocol, Typed, TypeOK
  <2>2. ~broken'[conn] => ~broken[conn] /\ (Accounted(conn) => Accounted(conn)')
    BY <1>2, <1>4, <2>1 DEF Accounted, HeaderLeft
  <2>3. QED
    BY <1>2, <2>2 DEF Protocol, Server
<1>12. QED
  BY <1>6, <1>7, <1>9, <1>10, <1>11 DEF Protocol

-----------------------------------------------------------------------------
(* What the protocol promises, for any calls, paths, files and faults.     *)

LEMMA ProtocolFirst == Init => Protocol
<1> SUFFICES ASSUME Init PROVE Protocol
  OBVIOUS
<1> USE DEF Init, TcpInit, ServerInit, ClientInit
<1>1. Typed
  <2>1. conn \in Calls
    BY CallsAssumption
  <2>2. down \in [Calls -> Seq(Pieces)] /\ backlog \in Seq(Calls)
    BY EmptySeq
  <2>3. TypeOK
    BY <2>1, <2>2, BoundsAssumption, MaxSizeAssumption DEF TypeOK, ServerStates, ClientStates
  <2>4. QED
    BY <2>2, <2>3 DEF Typed
<1>2. Lined /\ Server
  BY DEF Lined, Server, Serving
<1>3. ASSUME NEW c \in Calls PROVE Call(c)
  <2>1. Progress(c) /\ Standing(c) /\ Answering(c)
    BY DEF Progress, Standing, Answering
  <2>2. Shaped(c)
    BY DEF Shaped
  <2>3. QED
    BY <2>1, <2>2 DEF Call
<1>4. QED
  BY <1>1, <1>2, <1>3 DEF Protocol

LEMMA ProtocolStutters ==
  ASSUME Protocol, UNCHANGED vars
  PROVE  Protocol'
<1> USE DEF vars, tcpVars, serverVars, clientVars
<1>1. Typed' /\ Lined' /\ Server'
  BY DEF Protocol, Typed, TypeOK, Lined, Serving, Server, Accounted, HeaderLeft
<1>2. (\A d \in Calls : InLine(d)' => InLine(d)) /\ (Up' => Up)
  BY DEF InLine, Up
<1>3. QED
  BY <1>1, <1>2, AnswerStep, SameSizes DEF Protocol

(* The state of the server, of the clients and of what is under way        *)
(* between them is as Protocol says, whatever fails and whoever quits.     *)
THEOREM ProtocolInvariant == Spec => []Protocol
<1>1. Protocol /\ [Next]_vars => Protocol'
  <2>1. SUFFICES ASSUME Protocol, [Next]_vars PROVE Protocol'
    OBVIOUS
  <2>2. CASE Rest \/ UNCHANGED vars
    BY <2>1, <2>2, ProtocolStutters DEF Rest
  <2>3. CASE Next
    BY <2>1, <2>2, <2>3, ServerKeeps, ShrinkKeeps, ClientKeeps, BreakKeeps DEF Next
  <2>4. QED
    BY <2>1, <2>2, <2>3
<1>2. QED
  BY <1>1, ProtocolFirst, PTL DEF Spec

LEMMA ProtocolShapes == Protocol => ResponseShape
<1> SUFFICES ASSUME Protocol, NEW c \in Calls
    PROVE /\ \A k \in DOMAIN down[c] :
               /\ down[c][k].kind = "status" => k = 1 /\ word[c] = "none"
               /\ down[c][k].kind = "length" =>
                    k > 1 \/ (word[c] = "OK" /\ cpc[c] \in {"header", "killed"})
               /\ down[c][k].kind = "data" => k > 1 \/ word[c] = "OK"
          /\ (\E k \in DOMAIN down[c] : down[c][k].kind = "status" /\ down[c][k].val = "FILE_NOT_FOUND")
               => Len(down[c]) = 1
          /\ word[c] = "FILE_NOT_FOUND" => down[c] = <<>> /\ received[c] = 0
  BY DEF ResponseShape
<1>1. Shaped(c) /\ Progress(c) /\ down[c] \in Seq(Pieces) /\ word[c] \in {"none", "OK", "FILE_NOT_FOUND"}
  BY DEF Protocol, Call, Typed, TypeOK
<1>2. /\ \A k \in DOMAIN down[c] : k \in Nat /\ k >= 1
      /\ DOMAIN down[c] # {} => down[c] # <<>>
  BY <1>1
<1>3. CASE word[c] = "none"
  BY <1>1, <1>2, <1>3 DEF Shaped
<1>4. CASE word[c] = "OK"
  BY <1>1, <1>2, <1>4 DEF Shaped
<1>5. CASE word[c] = "FILE_NOT_FOUND"
  BY <1>1, <1>2, <1>5 DEF Shaped, Progress
<1>6. QED
  BY <1>1, <1>3, <1>4, <1>5

(* What is under way to a client is a response as gfs_sendheader and       *)
(* gfs_send make it, cut at most at its end (gflib/gfserver.c:46-87).     *)
THEOREM ResponsesHaveShape == Spec => []ResponseShape
  BY ProtocolInvariant, ProtocolShapes, PTL

LEMMA ProtocolLosesNothing == Protocol => NothingLost
<1> SUFFICES ASSUME Protocol, spc \in {"body", "free"}, found, ~gone[conn], ~broken[conn]
    PROVE received[conn] + Cardinality(Unread(conn)) = sent
  BY DEF NothingLost
<1>1. /\ Accounted(conn) /\ Shaped(conn) /\ conn \in Calls /\ cpc[conn] # "killed"
      /\ down[conn] \in Seq(Pieces) /\ word[conn] \in {"none", "OK"} /\ sent \in Nat /\ received[conn] \in Nat
  BY BoundsAssumption, MaxSizeAssumption DEF Protocol, Server, Call, Standing, Typed, TypeOK,
     Accounted
<1>2. Len(down[conn]) \in Nat /\ DOMAIN down[conn] = 1 .. Len(down[conn])
  BY <1>1
<1>3. Unread(conn) = HeaderLeft(conn) + 1 .. Len(down[conn])
  <2>1. CASE word[conn] = "none"
    <3>1. \A k \in DOMAIN down[conn] : down[conn][k].kind = "data" <=> k # 1 /\ k # 2
      BY <1>1, <2>1 DEF Shaped
    <3>2. HeaderLeft(conn) = 2
      BY <2>1 DEF HeaderLeft
    <3>3. QED
      BY <1>2, <3>1, <3>2 DEF Unread
  <2>2. CASE word[conn] = "OK" /\ cpc[conn] = "header"
    <3>1. \A k \in DOMAIN down[conn] : down[conn][k].kind = "data" <=> k # 1
      BY <1>1, <2>2 DEF Shaped
    <3>2. HeaderLeft(conn) = 1
      BY <2>2 DEF HeaderLeft
    <3>3. QED
      BY <1>2, <3>1, <3>2 DEF Unread
  <2>3. CASE word[conn] = "OK" /\ cpc[conn] # "header"
    <3>1. \A k \in DOMAIN down[conn] : down[conn][k].kind = "data"
      BY <1>1, <2>3 DEF Shaped
    <3>2. HeaderLeft(conn) = 0
      BY <2>3 DEF HeaderLeft
    <3>3. QED
      BY <1>2, <3>1, <3>2 DEF Unread
  <2>4. QED
    BY <1>1, <2>1, <2>2, <2>3
<1>4. HeaderLeft(conn) \in {0, 1, 2}
  BY DEF HeaderLeft
<1>5. Len(down[conn]) >= HeaderLeft(conn) /\ received[conn] + Len(down[conn]) = sent + HeaderLeft(conn)
  BY <1>1 DEF Accounted
<1>6. Cardinality(Unread(conn)) = Len(down[conn]) - HeaderLeft(conn)
  <2> DEFINE h == HeaderLeft(conn)
             n == Len(down[conn])
  <2>1. h \in Int /\ n \in Int /\ h + 1 \in Int /\ n >= h
    BY <1>2, <1>4, <1>5
  <2> HIDE DEF h, n
  <2>2. Cardinality(h + 1 .. n) = IF h + 1 > n THEN 0 ELSE n - (h + 1) + 1
    BY <2>1, FS_Interval
  <2>3. Cardinality(h + 1 .. n) = n - h
    BY <2>1, <2>2
  <2>4. QED
    BY <1>3, <2>3 DEF h, n
<1>7. QED
  BY <1>1, <1>2, <1>4, <1>5, <1>6

(* On a connection that stands no unit the server counts is lost: each is  *)
(* with the client or under way to it (mtgf/handler.c:27-43).              *)
THEOREM NoUnitIsLost == Spec => []NothingLost
  BY ProtocolInvariant, ProtocolLosesNothing, PTL

LEMMA ProtocolIsHonest == Protocol => NotFoundMeansMissing
  BY DEF Protocol, Call, Progress, Answering, NotFoundMeansMissing

(* A client is told FILE_NOT_FOUND only of a path that content.txt does    *)
(* not have, or when one read() returned a part of its request             *)
(* (gflib/gfserver.c:157-171, mtgf/handler.c:19-20).                       *)
THEOREM NotFoundIsHonest == Spec => []NotFoundMeansMissing
  BY ProtocolInvariant, ProtocolIsHonest, PTL

-----------------------------------------------------------------------------
(* The files the clients of gflib keep.                                    *)

(* What a call returns says how far it came.                               *)
Results(c) ==
  /\ cpc[c] \in {"connect", "request", "header", "parse"} => status[c] = "INVALID"
  /\ status[c] \in {"OK", "FILE_NOT_FOUND"} => word[c] = status[c]
  /\ cpc[c] = "returned" => ret[c] # "none"
  /\ ret[c] = "0" => cpc[c] = "returned" /\ received[c] >= filelen[c]

(* The write function has had what was received, unless a read() failed.   *)
Copied(c) == garbled[c] \/ (written[c] = received[c] /\ received[c] <= filelen[c])

(* A call that is over and whose file has been dealt with.                 *)
Kept(c) ==
  /\ cpc[c] = "returned"
  /\ IF ret[c] = "0" /\ status[c] = "OK"
     THEN /\ file[c] = "closed"
          /\ PathOf[c] \in content
          /\ garbled[c] \/ written[c] = filelen[c]
          /\ broken[c] \/ filelen[c] >= size[PathOf[c]]
     ELSE file[c] = "absent"

FetchTyped ==
  /\ main \in [Mains -> {"start", "next", "perform", "returned", "exited", "killed"}]
  /\ turn \in [Mains -> Nat]
  /\ file \in [Calls -> {"absent", "open", "closed"}]
  /\ written \in [Calls -> Nat]
  /\ garbled \in [Calls -> BOOLEAN]

Turns ==
  \A m \in Mains :
    /\ turn[m] \in 1 .. Len(RequestsOf[m]) + 1
    /\ main[m] = "perform" => turn[m] \in DOMAIN RequestsOf[m]

FetchInv ==
  /\ Protocol
  /\ FetchTyped
  /\ Turns
  /\ \A c \in Calls : Results(c) /\ Copied(c)
  /\ \A m \in Mains : \A k \in 1 .. turn[m] - 1 : Kept(RequestsOf[m][k])

LEMMA RequestIsCall ==
  ASSUME FetchTyped, NEW m \in Mains, turn[m] \in DOMAIN RequestsOf[m]
  PROVE  Request(m) \in Calls
  BY RequestsAssumption DEF Request

(* No call whose file has been dealt with is made again.                   *)
LEMMA OthersAreOthers ==
  ASSUME FetchTyped, Turns, NEW m \in Mains, turn[m] \in DOMAIN RequestsOf[m]
  PROVE  \A n \in Mains : \A k \in 1 .. turn[n] - 1 : RequestsOf[n][k] \in Calls \ {Request(m)}
<1> TAKE n \in Mains
<1> TAKE k \in 1 .. turn[n] - 1
<1>1. RequestsOf[n] \in Seq(Calls) /\ turn[n] \in 1 .. Len(RequestsOf[n]) + 1 /\ Len(RequestsOf[n]) \in Nat
  BY RequestsAssumption DEF Turns
<1>2. k \in DOMAIN RequestsOf[n] /\ k < turn[n] /\ k \in Nat
  BY <1>1
<1>3. ASSUME RequestsOf[n][k] = Request(m) PROVE FALSE
  <2>1. n = m /\ k = turn[m]
    BY <1>2, <1>3, RequestsAssumption DEF Request
  <2>2. QED
    BY <1>1, <1>2, <2>1
<1>4. QED
  BY <1>1, <1>2, <1>3

LEMMA KeptStays ==
  ASSUME NEW c \in Calls, Kept(c), Typed, Typed',
         cpc'[c] = cpc[c], ret'[c] = ret[c], status'[c] = status[c], filelen'[c] = filelen[c],
         written'[c] = written[c], garbled'[c] = garbled[c], file'[c] = file[c],
         broken[c] => broken'[c], content' = content, size'[PathOf[c]] <= size[PathOf[c]]
  PROVE  Kept(c)'
<1>1. \A a, b \in Nat : \A l \in Nat : a <= b /\ l >= b => l >= a
  OBVIOUS
<1>2. size[PathOf[c]] \in Nat /\ size'[PathOf[c]] \in Nat /\ filelen[c] \in Nat
  <2>1. size \in [Paths -> 0 .. MaxSize] /\ size' \in [Paths -> 0 .. MaxSize] /\ PathOf[c] \in Paths
    BY PathOfAssumption DEF Typed
  <2>2. filelen \in [Calls -> 0 .. MaxSize]
    BY DEF Typed, TypeOK
  <2>3. QED
    BY <2>1, <2>2, BoundsAssumption, MaxSizeAssumption
<1>3. filelen[c] >= size[PathOf[c]] => filelen'[c] >= size'[PathOf[c]]
  BY <1>1, <1>2
<1>4. QED
  BY <1>3 DEF Kept

(* A step that changes nothing of the clients; files shrink, connections   *)
(* break.                                                                  *)
LEMMA ClientsRest ==
  ASSUME FetchInv, Protocol', clientVars' = clientVars,
         UNCHANGED <<main, turn, file, written, garbled>>, content' = content,
         \A c \in Calls : (broken[c] => broken'[c]) /\ size'[PathOf[c]] <= size[PathOf[c]]
  PROVE  FetchInv'
<1> USE DEF clientVars
<1>1. FetchTyped' /\ Turns'
  BY DEF FetchInv, FetchTyped, Turns
<1>2. \A c \in Calls : Results(c)' /\ Copied(c)'
  BY DEF FetchInv, Results, Copied
<1>3. ASSUME NEW m \in Mains, NEW k \in 1 .. turn[m] - 1 PROVE Kept(RequestsOf[m][k])'
  <2>1. RequestsOf[m][k] \in Calls
    BY RequestsAssumption DEF FetchInv, Turns
  <2>2. Kept(RequestsOf[m][k]) /\ Typed /\ Typed'
    BY DEF FetchInv, Protocol
  <2>3. QED
    BY <2>1, <2>2, KeptStays
<1>4. QED
  BY <1>1, <1>2, <1>3 DEF FetchInv

(* A step of the process m in the midst of its requests, which touches no  *)
(* call but its own and leaves its turn.                                   *)
LEMMA OwnStep ==
  ASSUME FetchInv, NEW m \in Mains, turn[m] \in DOMAIN RequestsOf[m], Protocol', FetchTyped', turn' = turn,
         \A n \in Mains \ {m} : main'[n] = main[n],
         content' = content, size' = size, \A c \in Calls : broken[c] => broken'[c],
         \A c \in Calls \ {Request(m)} :
           /\ cpc'[c] = cpc[c] /\ word'[c] = word[c] /\ ret'[c] = ret[c] /\ status'[c] = status[c]
           /\ filelen'[c] = filelen[c] /\ received'[c] = received[c]
           /\ written'[c] = written[c] /\ garbled'[c] = garbled[c] /\ file'[c] = file[c],
         Results(Request(m))', Copied(Request(m))'
  PROVE  FetchInv'
<1>1. Turns'
  BY DEF FetchInv, Turns, FetchTyped
<1>2. Request(m) \in Calls
  BY RequestIsCall DEF FetchInv
<1>3. ASSUME NEW c \in Calls PROVE Results(c)' /\ Copied(c)'
  <2>1. Request(m)' = Request(m)
    BY DEF Request
  <2>2. CASE c = Request(m)
    BY <2>1, <2>2 DEF Results, Copied
  <2>3. CASE c # Request(m)
    BY <2>3 DEF FetchInv, Results, Copied
  <2>4. QED
    BY <2>2, <2>3
<1>4. ASSUME NEW n \in Mains, NEW k \in 1 .. turn[n] - 1 PROVE Kept(RequestsOf[n][k])'
  <2>1. RequestsOf[n][k] \in Calls \ {Request(m)} /\ Kept(RequestsOf[n][k])
    BY OthersAreOthers DEF FetchInv
  <2>2. Typed /\ Typed' /\ size'[PathOf[RequestsOf[n][k]]] <= size[PathOf[RequestsOf[n][k]]]
    BY <2>1, SameSizes DEF FetchInv, Protocol
  <2>3. QED
    BY <2>1, <2>2, KeptStays
<1>5. QED
  BY <1>1, <1>3, <1>4 DEF FetchInv

(* What a step of a call does to its results and to what it has received.  *)
Advances(c) ==
  \/ received'[c] = received[c] /\ (received[c] <= filelen[c] => received'[c] <= filelen'[c])
  \/ received'[c] = received[c] + 1 /\ received'[c] <= filelen'[c]
  \/ received'[c] \notin {received[c], received[c] + 1}

Untouched(d) ==
  /\ cpc'[d] = cpc[d] /\ word'[d] = word[d] /\ ret'[d] = ret[d] /\ status'[d] = status[d]
  /\ filelen'[d] = filelen[d] /\ received'[d] = received[d]

LEMMA CallEffects ==
  ASSUME Protocol, Protocol', NEW c \in Calls, ClientStep(c) \/ Quit(c), Results(c)
  PROVE  /\ Results(c)' /\ Advances(c) /\ \A d \in Calls : broken[d] => broken'[d]
         /\ \A d \in Calls \ {c} : Untouched(d)
<1>1. /\ cpc \in [Calls -> ClientStates] /\ word \in [Calls -> {"none", "OK", "FILE_NOT_FOUND"}]
      /\ ret \in [Calls -> {"none", "0", "failed"}] /\ filelen \in [Calls -> 0 .. MaxSize]
      /\ status \in [Calls -> {"INVALID", "OK", "FILE_NOT_FOUND", "ERROR"}]
      /\ received \in [Calls -> Nat]
  BY DEF Protocol, Typed, TypeOK
<1>2. \A n \in Nat : n <= n + 1 /\ n # n + 1
  OBVIOUS
<1>3. received[c] \in Nat /\ filelen[c] \in Nat
  BY <1>1, BoundsAssumption, MaxSizeAssumption
<1>4. CASE Connect(c) \/ SendRequest(c) \/ Quit(c)
  <2>1. /\ UNCHANGED <<word, ret, status, filelen, received>>
        /\ cpc[c] # "returned" /\ \A d \in Calls \ {c} : cpc'[d] = cpc[d]
        /\ cpc'[c] # "returned" /\ (cpc'[c] = "killed" \/ cpc[c] \in {"connect", "request", "header"})
    BY <1>1, <1>4 DEF Connect, SendRequest, Quit, Go
  <2>2. broken' = broken \/ broken' = [broken EXCEPT ![c] = TRUE]
    BY <1>4 DEF Connect, SendRequest, Quit
  <2>3. \A d \in Calls : broken[d] => broken'[d]
    <3>1. broken \in [Calls -> BOOLEAN]
      BY DEF Protocol, Typed, TypeOK
    <3>2. QED
      BY <2>2, <3>1
  <2>4. QED
    BY <2>1, <2>3 DEF Results, Advances, Untouched
<1>12. CASE HeaderCut(c)
  <2>1. /\ UNCHANGED <<word, ret, status, received, broken>> /\ cpc[c] = "header"
        /\ cpc'[c] \in {"parse", "killed"}
        /\ \A d \in Calls \ {c} : cpc'[d] = cpc[d] /\ filelen'[d] = filelen[d]
    BY <1>1, <1>12 DEF HeaderCut, Go
  <2>2. received[c] = 0 /\ status[c] = "INVALID"
    BY <2>1 DEF Protocol, Call, Progress, Results
  <2>3. received'[c] <= filelen'[c]
    <3>1. filelen'[c] \in 0 .. MaxSize
      BY DEF Protocol, Typed, TypeOK
    <3>2. QED
      BY <2>1, <2>2, <3>1, MaxSizeAssumption
  <2>4. QED
    BY <2>1, <2>2, <2>3 DEF Results, Advances, Untouched
<1>5. CASE ReadHeader(c)
  <2>1. /\ UNCHANGED <<ret, status, received, broken>> /\ cpc[c] = "header" /\ cpc'[c] # "returned"
        /\ \A d \in Calls \ {c} : cpc'[d] = cpc[d] /\ word'[d] = word[d] /\ filelen'[d] = filelen[d]
    BY <1>1, <1>5 DEF ReadHeader, Go
  <2>2. received[c] = 0 /\ status[c] = "INVALID"
    BY <2>1 DEF Protocol, Call, Progress, Results
  <2>3. received'[c] <= filelen'[c]
    <3>1. filelen'[c] \in 0 .. MaxSize
      BY DEF Protocol, Typed, TypeOK
    <3>2. QED
      BY <2>1, <2>2, <3>1, BoundsAssumption, MaxSizeAssumption
  <2>4. QED
    BY <2>1, <2>2, <2>3 DEF Results, Advances, Untouched
<1>6. CASE Parse(c)
  <2>1. /\ UNCHANGED <<word, filelen, received, broken>> /\ cpc[c] = "parse"
        /\ \A d \in Calls \ {c} : cpc'[d] = cpc[d] /\ ret'[d] = ret[d] /\ status'[d] = status[d]
        /\ \/ status'[c] = status[c] /\ ret'[c] = "failed" /\ cpc'[c] = "returned"
           \/ status'[c] = word[c] /\ ret'[c] = ret[c] /\ cpc'[c] = "body"
    BY <1>1, <1>6 DEF Parse, Go, tcpVars
  <2>2. QED
    BY <2>1 DEF Results, Advances, Untouched
<1>7. CASE ReadBody(c)
  <2>1. /\ UNCHANGED <<cpc, word, ret, status, filelen, broken>> /\ cpc[c] = "body"
        /\ received[c] < filelen[c] /\ received'[c] = received[c] + 1
        /\ \A d \in Calls \ {c} : received'[d] = received[d]
    BY <1>1, <1>7 DEF ReadBody
  <2>2. QED
    BY <1>3, <2>1 DEF Results, Advances, Untouched
<1>8. CASE BodyCut(c)
  <2>1. /\ UNCHANGED <<word, filelen, received, broken>> /\ ret'[c] = "failed" /\ status'[c] = "ERROR"
        /\ cpc'[c] = "returned"
        /\ \A d \in Calls \ {c} : cpc'[d] = cpc[d] /\ ret'[d] = ret[d] /\ status'[d] = status[d]
    BY <1>1, <1>8 DEF BodyCut, Go, tcpVars
  <2>2. QED
    BY <2>1 DEF Results, Advances, Untouched
<1>9. CASE BodyError(c)
  <2>1. /\ UNCHANGED <<word, ret, status, filelen, broken>> /\ cpc[c] = "body" /\ cpc'[c] \in {"body", "killed"}
        /\ \A d \in Calls \ {c} : cpc'[d] = cpc[d] /\ received'[d] = received[d]
        /\ \/ received'[c] = received[c]
           \/ received'[c] = IF received[c] = 0 THEN Huge ELSE received[c] - 1
    BY <1>1, <1>9 DEF BodyError, Go
  <2>2. Advances(c)
    BY <1>3, <2>1 DEF Advances, Huge
  <2>3. QED
    BY <2>1, <2>2 DEF Results, Untouched
<1>10. CASE Return(c)
  <2>1. /\ UNCHANGED <<word, status, filelen, received, broken>> /\ received[c] >= filelen[c]
        /\ cpc'[c] = "returned" /\ ret'[c] = "0"
        /\ \A d \in Calls \ {c} : cpc'[d] = cpc[d] /\ ret'[d] = ret[d]
    BY <1>1, <1>10 DEF Return, Go
  <2>2. QED
    BY <2>1 DEF Results, Advances, Untouched
<1>11. QED
  BY <1>4, <1>5, <1>6, <1>7, <1>8, <1>9, <1>10, <1>12 DEF ClientStep

LEMMA PerformKeeps ==
  ASSUME FetchInv, NEW m \in Mains, Perform(m)
  PROVE  FetchInv'
<1>1. main[m] = "perform"
  BY DEF Perform
<1>2. turn[m] \in DOMAIN RequestsOf[m] /\ Request(m) \in Calls
  BY <1>1, RequestIsCall DEF FetchInv, Turns
<1>3. PICK c \in Calls : c = Request(m)
  BY <1>2
<1>4. /\ main[m] = "perform" /\ ClientStep(c) /\ UNCHANGED <<serverVars, turn, file, signals>>
      /\ main' = [main EXCEPT ![m] = IF cpc'[c] = "killed" THEN "killed" ELSE main[m]]
      /\ written' = [written EXCEPT ![c] = IF received'[c] = received[c] + 1 THEN written[c] + 1 ELSE written[c]]
      /\ garbled' = [garbled EXCEPT ![c] = garbled[c] \/ received'[c] \notin {received[c], received[c] + 1}]
  BY <1>3 DEF Perform, writecb
<1>5. Protocol'
  BY <1>4, <1>2, ClientKeeps DEF FetchInv
<1>6. /\ Results(c)' /\ Advances(c) /\ \A d \in Calls : broken[d] => broken'[d]
      /\ \A d \in Calls \ {c} : Untouched(d)
  BY <1>4, <1>2, <1>5, CallEffects DEF FetchInv
<1>7. written \in [Calls -> Nat] /\ garbled \in [Calls -> BOOLEAN]
  BY DEF FetchInv, FetchTyped
<1>8. FetchTyped'
  <2>1. written' \in [Calls -> Nat]
    BY <1>4, <1>2, <1>7
  <2>2. garbled' \in [Calls -> BOOLEAN]
    <3>1. (garbled[c] \/ received'[c] \notin {received[c], received[c] + 1}) \in BOOLEAN
      BY Zenon
    <3>2. QED
      BY <1>4, <1>7, <3>1
  <2>3. main' \in [Mains -> {"start", "next", "perform", "returned", "exited", "killed"}]
    BY <1>4 DEF FetchInv, FetchTyped
  <2>4. QED
    BY <1>4, <2>1, <2>2, <2>3 DEF FetchInv, FetchTyped
<1>9. Copied(c)'
  <2>1. received[c] \in Nat /\ written[c] \in Nat /\ received'[c] \in Nat
    BY <1>2, <1>5, <1>7 DEF FetchInv, Protocol, Typed
  <2>2. Copied(c)
    BY <1>2 DEF FetchInv
  <2>3. garbled'[c] <=> garbled[c] \/ received'[c] \notin {received[c], received[c] + 1}
    BY <1>4, <1>2, <1>7
  <2>4. written'[c] = IF received'[c] = received[c] + 1 THEN written[c] + 1 ELSE written[c]
    BY <1>4, <1>2, <1>7
  <2>5. CASE garbled'[c]
    BY <2>5 DEF Copied
  <2>6. CASE ~garbled'[c]
    <3>1. /\ ~garbled[c] /\ received'[c] \in {received[c], received[c] + 1}
          /\ written[c] = received[c] /\ received[c] <= filelen[c]
      BY <2>2, <2>3, <2>6 DEF Copied
    <3>2. written'[c] = received'[c] /\ received'[c] <= filelen'[c]
      BY <1>6, <2>1, <2>4, <3>1 DEF Advances
    <3>3. QED
      BY <3>2 DEF Copied
  <2>7. QED
    BY <2>5, <2>6
<1>10. \A d \in Calls \ {c} : written'[d] = written[d] /\ garbled'[d] = garbled[d]
  BY <1>4, <1>7
<1>11. \A n \in Mains \ {m} : main'[n] = main[n]
  BY <1>4 DEF FetchInv, FetchTyped
<1>12. UNCHANGED <<turn, file, content, size>>
  BY <1>4 DEF serverVars
<1>13. \A d \in Calls \ {Request(m)} :
         /\ cpc'[d] = cpc[d] /\ word'[d] = word[d] /\ ret'[d] = ret[d] /\ status'[d] = status[d]
         /\ filelen'[d] = filelen[d] /\ received'[d] = received[d]
         /\ written'[d] = written[d] /\ garbled'[d] = garbled[d] /\ file'[d] = file[d]
  BY <1>3, <1>6, <1>10, <1>12 DEF Untouched
<1>14. Results(Request(m))' /\ Copied(Request(m))'
  <2>1. Request(m)' = c
    BY <1>3, <1>12 DEF Request
  <2>2. QED
    BY <1>6, <1>9, <2>1 DEF Results, Copied
<1>15. QED
  BY <1>2, <1>5, <1>6, <1>8, <1>11, <1>12, <1>13, <1>14, OwnStep

LEMMA QuitMainKeeps ==
  ASSUME FetchInv, NEW m \in Mains, QuitMain(m)
  PROVE  FetchInv'
<1>1. /\ main[m] = "perform" /\ Quit(Request(m)) /\ main' = [main EXCEPT ![m] = "killed"]
      /\ UNCHANGED <<serverVars, turn, file, written, garbled, signals>>
  BY DEF QuitMain
<1>2. turn[m] \in DOMAIN RequestsOf[m] /\ Request(m) \in Calls
  BY <1>1, RequestIsCall DEF FetchInv, Turns
<1>3. PICK c \in Calls : c = Request(m)
  BY <1>2
<1>4. Protocol'
  BY <1>1, <1>3, ClientKeeps DEF FetchInv
<1>5. /\ Results(c)' /\ \A d \in Calls : broken[d] => broken'[d]
      /\ \A d \in Calls \ {c} : Untouched(d)
  BY <1>1, <1>3, <1>4, CallEffects DEF FetchInv
<1>6. received' = received /\ filelen' = filelen
  BY <1>1 DEF Quit
<1>7. Copied(c)'
  BY <1>1, <1>6 DEF FetchInv, Copied
<1>8. FetchTyped' /\ \A n \in Mains \ {m} : main'[n] = main[n]
  BY <1>1 DEF FetchInv, FetchTyped
<1>9. UNCHANGED <<turn, file, content, size>>
  BY <1>1 DEF serverVars
<1>10. \A d \in Calls \ {Request(m)} :
         /\ cpc'[d] = cpc[d] /\ word'[d] = word[d] /\ ret'[d] = ret[d] /\ status'[d] = status[d]
         /\ filelen'[d] = filelen[d] /\ received'[d] = received[d]
         /\ written'[d] = written[d] /\ garbled'[d] = garbled[d] /\ file'[d] = file[d]
  BY <1>1, <1>3, <1>5 DEF Untouched
<1>11. Results(Request(m))' /\ Copied(Request(m))'
  <2>1. Request(m)' = c
    BY <1>3, <1>9 DEF Request
  <2>2. QED
    BY <1>5, <1>7, <2>1 DEF Results, Copied
<1>12. QED
  BY <1>2, <1>4, <1>5, <1>8, <1>9, <1>10, <1>11, OwnStep

LEMMA SameProtocol ==
  ASSUME Protocol, vars' = vars
  PROVE  Protocol'
  BY ProtocolStutters

(* Opening the file of a request disturbs none that is settled.            *)
LEMMA NextRequestKeeps ==
  ASSUME FetchInv, NEW m \in Mains, NextRequest(m)
  PROVE  FetchInv'
<1>1. /\ main[m] = "next" /\ turn[m] \in DOMAIN RequestsOf[m]
      /\ UNCHANGED <<vars, turn, written, garbled, signals>>
      /\ \/ main' = [main EXCEPT ![m] = "perform"] /\ file' = [file EXCEPT ![Request(m)] = "open"]
         \/ main' = [main EXCEPT ![m] = "exited"] /\ file' = file
  BY DEF NextRequest, openFile, Exit
<1>2. Protocol' /\ Request(m) \in Calls
  BY <1>1, SameProtocol, RequestIsCall DEF FetchInv
<1>3. FetchTyped' /\ \A n \in Mains \ {m} : main'[n] = main[n]
  BY <1>1, <1>2 DEF FetchInv, FetchTyped
<1>4. UNCHANGED <<content, size, broken, cpc, word, ret, status, filelen, received>>
  BY <1>1 DEF vars, tcpVars, serverVars, clientVars
<1>5. \A c \in Calls \ {Request(m)} : file'[c] = file[c]
  BY <1>1 DEF FetchInv, FetchTyped
<1>6. Results(Request(m))' /\ Copied(Request(m))'
  BY <1>1, <1>2, <1>4 DEF FetchInv, Results, Copied, Request
<1>7. QED
  BY <1>1, <1>2, <1>3, <1>4, <1>5, <1>6, OwnStep

LEMMA MainRests ==
  ASSUME FetchInv, NEW m \in Mains, Begin(m) \/ Finish(m)
  PROVE  FetchInv'
<1>1. UNCHANGED <<vars, turn, file, written, garbled, signals>>
  BY DEF Begin, Finish
<1>2. PICK s \in {"next", "returned", "exited"} : main' = [main EXCEPT ![m] = s]
  BY DEF Begin, Finish, Exit
<1>3. Protocol'
  BY <1>1, SameProtocol DEF FetchInv
<1>4. FetchTyped' /\ Turns'
  BY <1>1, <1>2 DEF FetchInv, FetchTyped, Turns
<1>5. UNCHANGED <<content, size, broken, cpc, word, ret, status, filelen, received>>
  BY <1>1 DEF vars, tcpVars, serverVars, clientVars
<1>6. \A c \in Calls : Results(c)' /\ Copied(c)'
  BY <1>1, <1>5 DEF FetchInv, Results, Copied
<1>7. ASSUME NEW n \in Mains, NEW k \in 1 .. turn[n] - 1 PROVE Kept(RequestsOf[n][k])'
  BY <1>1, <1>5 DEF FetchInv, Kept
<1>8. QED
  BY <1>1, <1>3, <1>4, <1>6, <1>7 DEF FetchInv

LEMMA SettleKeeps ==
  ASSUME FetchInv, NEW m \in Mains, Settle(m)
  PROVE  FetchInv'
<1>1. /\ main[m] = "perform" /\ cpc[Request(m)] = "returned"
      /\ file' = [file EXCEPT ![Request(m)] =
                    IF ret[Request(m)] = "failed" \/ status[Request(m)] # "OK" THEN "absent" ELSE "closed"]
      /\ turn' = [turn EXCEPT ![m] = turn[m] + 1] /\ main' = [main EXCEPT ![m] = "next"]
      /\ UNCHANGED <<vars, written, garbled, signals>>
  BY DEF Settle
<1>2. turn[m] \in DOMAIN RequestsOf[m] /\ Request(m) \in Calls
  BY <1>1, RequestIsCall DEF FetchInv, Turns
<1>3. Protocol'
  BY <1>1, SameProtocol DEF FetchInv
<1>4. UNCHANGED <<content, size, broken, cpc, word, ret, status, filelen, received>>
  BY <1>1 DEF vars, tcpVars, serverVars, clientVars
<1>5. turn \in [Mains -> Nat] /\ file \in [Calls -> {"absent", "open", "closed"}]
      /\ main \in [Mains -> {"start", "next", "perform", "returned", "exited", "killed"}]
  BY DEF FetchInv, FetchTyped
<1>6. FetchTyped'
  BY <1>1, <1>2, <1>5 DEF FetchInv, FetchTyped
<1>7. turn'[m] = turn[m] + 1 /\ \A n \in Mains \ {m} : turn'[n] = turn[n]
  BY <1>1, <1>5
<1>8. Turns'
  <2>1. RequestsOf[m] \in Seq(Calls)
    BY RequestsAssumption
  <2>2. turn'[m] \in 1 .. Len(RequestsOf[m]) + 1
    BY <1>2, <1>5, <1>7, <2>1
  <2>3. main'[m] = "next" /\ \A n \in Mains \ {m} : main'[n] = main[n]
    BY <1>1, <1>5
  <2>4. QED
    BY <1>7, <2>2, <2>3 DEF FetchInv, Turns
<1>9. \A c \in Calls : Results(c)' /\ Copied(c)'
  BY <1>1, <1>4 DEF FetchInv, Results, Copied
<1>10. \A n \in Mains : \A k \in 1 .. turn[n] - 1 : Kept(RequestsOf[n][k])'
  <2>1. TAKE n \in Mains
  <2>2. TAKE k \in 1 .. turn[n] - 1
  <2>3. RequestsOf[n][k] \in Calls \ {Request(m)} /\ Kept(RequestsOf[n][k])
    BY <1>2, OthersAreOthers DEF FetchInv
  <2>4. file'[RequestsOf[n][k]] = file[RequestsOf[n][k]]
    BY <1>1, <1>5, <2>3
  <2>5. QED
    BY <1>1, <1>4, <2>3, <2>4 DEF Kept
<1>11. PICK c \in Calls : c = Request(m)
  BY <1>2
<1>12. Kept(c)'
  <2>1. Results(c) /\ Copied(c) /\ Answering(c) /\ cpc[c] = "returned"
    BY <1>1, <1>11 DEF FetchInv, Protocol, Call
  <2>2. ret[c] \in {"none", "0", "failed"} /\ received[c] \in Nat /\ filelen[c] \in Nat /\ written[c] \in Nat
    BY BoundsAssumption, MaxSizeAssumption DEF FetchInv, FetchTyped, Protocol, Typed, TypeOK
  <2>3. ret[c] \in {"0", "failed"}
    BY <2>1, <2>2 DEF Results
  <2>4. file'[c] = (IF ret[c] = "failed" \/ status[c] # "OK" THEN "absent" ELSE "closed")
    BY <1>1, <1>5, <1>11
  <2>5. CASE ret[c] = "0" /\ status[c] = "OK"
    <3>1. word[c] = "OK" /\ received[c] >= filelen[c]
      BY <2>1, <2>5 DEF Results
    <3>2. garbled[c] \/ written[c] = filelen[c]
      BY <2>1, <2>2, <3>1 DEF Copied
    <3>3. PathOf[c] \in content /\ (broken[c] \/ filelen[c] >= size[PathOf[c]])
      BY <2>1, <3>1 DEF Answering
    <3>4. QED
      BY <1>1, <1>4, <2>1, <2>4, <2>5, <3>2, <3>3 DEF Kept
  <2>6. CASE ~(ret[c] = "0" /\ status[c] = "OK")
    <3>1. file'[c] = "absent"
      BY <2>3, <2>4, <2>6
    <3>2. QED
      BY <1>1, <1>4, <2>1, <2>6, <3>1 DEF Kept
  <2>7. QED
    BY <2>5, <2>6
<1>13. QED
  <2>1. ASSUME NEW n \in Mains, NEW k \in 1 .. turn'[n] - 1 PROVE Kept(RequestsOf[n][k])'
    <3>1. CASE n = m /\ k = turn[m]
      BY <1>11, <1>12, <3>1 DEF Request, Kept
    <3>2. CASE ~(n = m /\ k = turn[m])
      <4>1. k \in 1 .. turn[n] - 1
        BY <1>5, <1>7, <3>2
      <4>2. QED
        BY <1>10, <4>1
    <3>3. QED
      BY <3>1, <3>2
  <2>2. QED
    BY <1>3, <1>6, <1>8, <1>9, <2>1 DEF FetchInv

LEMMA FetchFirst == FetchInit => FetchInv
<1> SUFFICES ASSUME FetchInit PROVE FetchInv
  OBVIOUS
<1>1. Protocol
  BY ProtocolFirst DEF FetchInit
<1>2. FetchTyped
  BY DEF FetchInit, FetchTyped
<1>3. Turns
  BY RequestsAssumption, LenProperties DEF FetchInit, Turns
<1>4. ASSUME NEW c \in Calls PROVE Results(c) /\ Copied(c)
  BY DEF FetchInit, Init, ClientInit, Results, Copied
<1>5. \A m \in Mains : \A k \in 1 .. turn[m] - 1 : Kept(RequestsOf[m][k])
  BY DEF FetchInit
<1>6. QED
  BY <1>1, <1>2, <1>3, <1>4, <1>5 DEF FetchInv

LEMMA FetchNextKeeps ==
  ASSUME FetchInv, [FetchNext]_fetchVars
  PROVE  FetchInv'
<1>1. Protocol
  BY DEF FetchInv
<1>2. CASE ServerStep /\ UNCHANGED <<clientVars, mainVars>>
  <2>1. Protocol'
    BY <1>1, <1>2, ServerKeeps
  <2>2. content' = content /\ size' = size /\ broken' = broken
    BY <1>2 DEF ServerStep, AcceptFails, Accept, ReadFails, ReadRequest, SendHeader, PreadFails,
       SendUnit,
       FreeContext, End, tcpVars
  <2>3. \A c \in Calls : size'[PathOf[c]] <= size[PathOf[c]]
    BY <1>1, <2>2, SameSizes DEF Protocol
  <2>4. QED
    BY <1>2, <2>1, <2>2, <2>3, ClientsRest DEF mainVars
<1>3. ASSUME NEW p \in Paths, Shrink(p), UNCHANGED <<clientVars, mainVars>> PROVE FetchInv'
  <2>1. Protocol'
    BY <1>1, <1>3, ShrinkKeeps
  <2>2. content' = content /\ broken' = broken /\ size' = [size EXCEPT ![p] = size[p] - 1]
    BY <1>3 DEF Shrink, tcpVars
  <2>3. \A c \in Calls : size'[PathOf[c]] <= size[PathOf[c]]
    BY <1>1, <2>2, PathOfAssumption, BoundsAssumption, MaxSizeAssumption DEF Protocol, Typed
  <2>4. QED
    BY <1>3, <2>1, <2>2, <2>3, ClientsRest DEF mainVars
<1>4. ASSUME NEW c \in Calls, Break(c), UNCHANGED <<serverVars, clientVars, mainVars>> PROVE FetchInv'
  <2>1. Protocol'
    BY <1>1, <1>4, BreakKeeps
  <2>2. content' = content /\ size' = size /\ broken' = [broken EXCEPT ![c] = TRUE]
    BY <1>4 DEF Break, serverVars
  <2>3. \A d \in Calls : (broken[d] => broken'[d]) /\ size'[PathOf[d]] <= size[PathOf[d]]
    BY <1>1, <2>2, SameSizes DEF Protocol, Typed, TypeOK
  <2>4. QED
    BY <1>4, <2>1, <2>2, <2>3, ClientsRest DEF mainVars
<1>5. CASE Interrupt
  <2>1. /\ End("killed") /\ UNCHANGED <<down, conn, fds, found, fileLen, sent, freed, partial, aborted, size, content, shrinks>>
        /\ UNCHANGED <<clientVars, main, turn, file, written, garbled>>
    BY <1>5 DEF Interrupt
  <2>2. freed' \in 0 .. 2
    BY <1>1, <2>1 DEF Protocol, Typed, TypeOK
  <2>3. Protocol'
    BY <1>1, <2>1, <2>2, EndKeeps
  <2>4. \A c \in Calls : (broken[c] => broken'[c]) /\ size'[PathOf[c]] <= size[PathOf[c]]
    BY <1>1, <2>1, SameSizes DEF Protocol, End
  <2>5. QED
    BY <2>1, <2>3, <2>4, ClientsRest
<1>6. CASE UNCHANGED fetchVars
  <2>1. Protocol'
    BY <1>1, <1>6, ProtocolStutters DEF fetchVars
  <2>2. \A c \in Calls : (broken[c] => broken'[c]) /\ size'[PathOf[c]] <= size[PathOf[c]]
    BY <1>1, <1>6, SameSizes DEF Protocol, fetchVars, vars, tcpVars, serverVars
  <2>3. QED
    BY <1>6, <2>1, <2>2, ClientsRest DEF fetchVars, vars, serverVars, mainVars
<1>7. QED
  BY <1>2, <1>3, <1>4, <1>5, <1>6, MainRests, NextRequestKeeps, PerformKeeps, SettleKeeps,
     QuitMainKeeps
     DEF FetchNext, MainStep

(* The protocol's invariant, and of each process of gflib how far it is    *)
(* and what it did with the files it is through with.                      *)
THEOREM FetchInvariant == FetchSpec => []FetchInv
  BY FetchFirst, FetchNextKeeps, PTL DEF FetchSpec

LEMMA FilesAsKept == FetchInv => KeptFiles
<1> SUFFICES ASSUME FetchInv, NEW m \in Mains, NEW k \in 1 .. turn[m] - 1
    PROVE LET c == RequestsOf[m][k]
          IN  IF ret[c] = "0" /\ status[c] = "OK"
              THEN /\ file[c] = "closed"
                   /\ PathOf[c] \in content
                   /\ garbled[c] \/ written[c] = filelen[c]
                   /\ broken[c] \/ filelen[c] >= size[PathOf[c]]
              ELSE file[c] = "absent"
  BY DEF KeptFiles, Settled
<1>1. QED
  BY DEF FetchInv, Kept

(* A client of gflib keeps the files of the calls that returned 0 with OK, *)
(* each as long as its header said, and no other's, for any processes and  *)
(* whatever fails (gflib/gfclient_download.c:157-170).                     *)
THEOREM FilesAreKept == FetchSpec => []KeptFiles
  BY FetchInvariant, FilesAsKept, PTL

(* Such a client is told FILE_NOT_FOUND of a path that content.txt has     *)
(* only when one read() returned a part of its request                     *)
(* (gflib/gfserver.c:157-171, mtgf/handler.c:19-20).                       *)
THEOREM NotFoundToClients == FetchSpec => []NotFoundMeansMissing
<1>1. FetchInv => Protocol
  BY DEF FetchInv
<1>2. QED
  BY <1>1, FetchInvariant, ProtocolIsHonest, PTL
=============================================================================
