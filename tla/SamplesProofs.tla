---------------------------- MODULE SamplesProofs ----------------------------
(***************************************************************************)
(* Proofs about Samples, for any clients, sizes of file and messages, and  *)
(* any number of faults: what a client of transferserver stores is of the  *)
(* file, and what a client of echoserver prints is its own bytes first.    *)
(***************************************************************************)
EXTENDS Samples, SequenceTheorems, WellFoundedInduction, TLAPS

-----------------------------------------------------------------------------
(* The inductive invariant, of the sockets, of the copy and of the echo.   *)
SocketOK ==
  /\ program \in {"transfer", "echo"} /\ listening \in BOOLEAN /\ faults \in Nat
  /\ backlog \in Seq(Clients) /\ connfd \in Clients \cup {NoClient}
  /\ spc \in {"start", "accept", "resolve", "serve", "read", "write", "ended"}
  /\ server_exit \in {"none", "0", "1"}
  /\ cpc \in [Clients -> {"start", "connected", "receive", "ended"}]
  /\ exit \in [Clients -> {"none", "0", "1", "killed"}]
  /\ closed \in [Clients -> SUBSET {"client", "server"}]
  /\ reset \in [Clients -> BOOLEAN]
  /\ connfd \in Clients <=> spc \in {"resolve", "serve", "read", "write"}
  /\ server_exit = "none" <=> spc # "ended"
  /\ \A c \in Clients : "client" \in closed[c] <=> cpc[c] = "ended"

(* A client is waiting once, or is the one that is served.                 *)
Queued ==
  /\ \A i, j \in 1..Len(backlog) : backlog[i] = backlog[j] => i = j
  /\ \A i \in 1..Len(backlog) : cpc[backlog[i]] # "start" /\ backlog[i] # connfd
  /\ connfd \in Clients => cpc[connfd] # "start"

(* The bytes of the file from one place to another.                        *)
Segment(i, j) == [k \in 1..(j - i) |-> i + k]

Stored(c) == IF output[c] = Old THEN <<>> ELSE output[c]

Early == {"start", "accept", "resolve", "serve"}

TransferTyped ==
  /\ position \in 0..Size /\ (spc \in Early => position = 0)
  /\ buf \in Seq(1..Size) /\ unseen \subseteq {"fread", "short", "flush"}
  /\ down \in [Clients -> Seq(1..Size)] /\ output \in [Clients -> Seq(0..Size)]
  /\ \A c \in Clients :
       /\ cpc[c] \in {"start", "connected"} => output[c] = Old
       /\ cpc[c] = "receive" => output[c] \in Seq(1..Size)
       /\ output[c] = Old \/ output[c] \in Seq(1..Size)
       /\ "server" \in closed[c] => spc = "ended"

(* How far the server has come with a client that has not ended.           *)
Reaches(c, j) ==
  /\ (~reset[c] /\ c = connfd /\ spc = "read") => j = position
  /\ (~reset[c] /\ c = connfd /\ spc = "write") => j < position /\ buf = Segment(j, position)
  /\ ((c # connfd \/ spc \in Early) /\ "server" \notin closed[c]) => j = 0
  /\ (~reset[c] /\ "server" \in closed[c] /\ server_exit = "0" /\ "fread" \notin unseen) => j = Size

Copied(c) ==
  \E i, j \in 0..Size :
    /\ i <= j /\ Stored(c) = Segment(0, i)
    /\ cpc[c] # "ended" => down[c] = Segment(i, j) /\ Reaches(c, j)

Whole(c) ==
  (exit[c] = "0" /\ output[c] # Old /\ ~reset[c] /\ unseen = {}) =>
    server_exit # "none" /\ (server_exit = "0" => output[c] = File)

Transferred ==
  /\ TransferTyped
  /\ "short" \notin unseen => \A c \in Clients : Copied(c)
  /\ \A c \in Clients : Whole(c)
  /\ \A c \in Clients : cpc[c] # "ended" => exit[c] = "none"

TransferOK == program = "transfer" => Transferred

Bytes == Clients \cup {Zero, Stack}

EchoTyped ==
  /\ message \in [1..Reach + 1 -> Bytes] /\ message[Reach + 1] = Zero
  /\ bytesRead \in [Clients -> 0..BUFSIZE]
  /\ up \in [Clients -> Seq(Clients)] /\ down \in [Clients -> Seq(Bytes)]
  /\ printed \in [Clients -> Seq(Bytes)]
  /\ spc # "read"
  /\ \A c \in Clients : \A n \in 1..Len(up[c]) : up[c][n] = c

(* The buffer holds of each client no more than was read.                  *)
Buffered ==
  /\ \A n \in 1..Reach + 1 : message[n] \in Clients => n <= bytesRead[message[n]]
  /\ spc = "write" => \A n \in 1..bytesRead[connfd] : message[n] = connfd

(* A client that the server has not answered yet has seen nothing of it.   *)
Unread(c) == cpc[c] = "start" \/ c \in ToSet(backlog) \/ (c = connfd /\ spc \in {"resolve", "serve"})
Unanswered(c) == Unread(c) \/ c = connfd

Fresh(c) ==
  /\ Unread(c) => bytesRead[c] = 0
  /\ Unanswered(c) => down[c] = <<>> /\ printed[c] = <<>> /\ "server" \notin closed[c]

(* Of what was sent to a client its own bytes are the first; it reads once.*)
Sent(c) ==
  cpc[c] # "ended" => \A n \in 1..Len(down[c]) :
    /\ n <= bytesRead[c] => down[c][n] = c
    /\ down[c][n] \in Clients => n <= bytesRead[down[c][n]]

Printed(c) ==
  \A n \in 1..Len(printed[c]) :
    /\ printed[c][n] = c => n <= bytesRead[c]
    /\ printed[c][n] \in Clients \ {c} => bytesRead[c] < n /\ n <= bytesRead[printed[c][n]]
    /\ n > 1 /\ printed[c][n] = c => printed[c][n - 1] = c

Echoed == EchoTyped /\ Buffered /\ \A c \in Clients : Fresh(c) /\ Sent(c) /\ Printed(c)

EchoOK == program = "echo" => Echoed

(* The programs that do not run leave their variables as they were.        *)
Apart ==
  /\ program = "echo" => \A c \in Clients : output[c] = Old
  /\ program = "transfer" => \A c \in Clients : printed[c] = <<>>

IInv == SocketOK /\ Queued /\ TransferOK /\ EchoOK /\ Apart

-----------------------------------------------------------------------------
(* Sequences: parts, what follows them, and the bytes of the file.         *)
LEMMA PartOf ==
  ASSUME NEW S, NEW s \in Seq(S), NEW n \in 0..Len(s)
  PROVE  /\ Len(s) \in Nat
         /\ SubSeq(s, 1, n) \in Seq(S) /\ Len(SubSeq(s, 1, n)) = n
         /\ \A k \in 1..n : SubSeq(s, 1, n)[k] = s[k]
<1>1. Len(s) \in Nat /\ \A k \in 1..n : s[k] \in S
  BY LenProperties, ElementOfSeq
<1>2. n \in Int /\ 1 \in Int
  BY <1>1
<1>3. /\ SubSeq(s, 1, n) \in Seq(S)
      /\ Len(SubSeq(s, 1, n)) = IF 1 <= n THEN n - 1 + 1 ELSE 0
      /\ \A k \in 1..n - 1 + 1 : SubSeq(s, 1, n)[k] = s[1 + k - 1]
  BY <1>1, <1>2, SubSeqProperties
<1>4. QED
  BY <1>1, <1>3

LEMMA RestOf ==
  ASSUME NEW S, NEW s \in Seq(S), NEW n \in 0..Len(s)
  PROVE  /\ SubSeq(s, n + 1, Len(s)) \in Seq(S) /\ Len(SubSeq(s, n + 1, Len(s))) = Len(s) - n
         /\ \A k \in 1..Len(s) - n : SubSeq(s, n + 1, Len(s))[k] = s[n + k]
<1>1. Len(s) \in Nat
  BY LenProperties
<1>2. \A k \in n+1..Len(s) : s[k] \in S
  BY <1>1, ElementOfSeq
<1>3. n + 1 \in Int /\ Len(s) \in Int
  BY <1>1
<1>4. /\ SubSeq(s, n + 1, Len(s)) \in Seq(S)
      /\ Len(SubSeq(s, n + 1, Len(s))) = IF n + 1 <= Len(s) THEN Len(s) - (n + 1) + 1 ELSE 0
      /\ \A k \in 1..Len(s) - (n + 1) + 1 : SubSeq(s, n + 1, Len(s))[k] = s[n + 1 + k - 1]
  BY <1>2, <1>3, SubSeqProperties
<1>5. QED
  BY <1>1, <1>4

Runs(s, i, j) == s \in Seq(1..j) /\ Len(s) = j - i /\ \A k \in 1..j - i : s[k] = i + k

LEMMA SegmentIs ==
  ASSUME NEW i \in Nat, NEW j \in Nat, i <= j
  PROVE  Runs(Segment(i, j), i, j)
<1>1. Segment(i, j) \in [1..j - i -> 1..j] /\ j - i \in Nat
  BY DEF Segment
<1>2. Segment(i, j) \in Seq(1..j)
  BY <1>1, SeqDef
<1>3. Len(Segment(i, j)) = j - i
  <2>1. DOMAIN Segment(i, j) = 1..j - i
    BY DEF Segment
  <2>2. DOMAIN Segment(i, j) = 1..Len(Segment(i, j)) /\ Len(Segment(i, j)) \in Nat
    BY <1>2, LenProperties
  <2>3. \A a, b \in Nat : 1..a = 1..b => a = b
    OBVIOUS
  <2>4. QED
    BY <1>1, <2>1, <2>2, <2>3, Zenon
<1>4. QED
  BY <1>2, <1>3 DEF Segment, Runs

LEMMA IsSegment ==
  ASSUME NEW i \in Nat, NEW j \in Nat, i <= j, NEW s \in Seq(Int), Len(s) = j - i,
         \A k \in 1..j - i : s[k] = i + k
  PROVE  s = Segment(i, j)
<1>1. /\ Segment(i, j) \in Seq(1..j) /\ Len(Segment(i, j)) = j - i
      /\ \A k \in 1..j - i : Segment(i, j)[k] = i + k
  BY SegmentIs DEF Runs
<1>2. Segment(i, j) \in Seq(Int)
  BY <1>1, SeqMonotonic
<1>3. \A k \in 1..Len(s) : s[k] = Segment(i, j)[k]
  BY <1>1
<1>4. QED
  BY <1>1, <1>2, <1>3, SeqEqual

LEMMA SegmentEmpty == ASSUME NEW i \in Nat PROVE Segment(i, i) = <<>>
<1>1. Segment(i, i) \in Seq(1..i) /\ Len(Segment(i, i)) = i - i
  BY SegmentIs DEF Runs
<1>2. QED
  BY <1>1, EmptySeq

LEMMA SegmentJoined ==
  ASSUME NEW i \in Nat, NEW j \in Nat, NEW n \in Nat, i <= j, j <= n
  PROVE  Segment(i, j) \o Segment(j, n) = Segment(i, n)
<1> DEFINE s == Segment(i, j)
           t == Segment(j, n)
<1>1. /\ s \in Seq(1..j) /\ Len(s) = j - i /\ \A k \in 1..j - i : s[k] = i + k
      /\ t \in Seq(1..n) /\ Len(t) = n - j /\ \A k \in 1..n - j : t[k] = j + k
  BY SegmentIs DEF Runs
<1>2. s \in Seq(Int) /\ t \in Seq(Int)
  BY <1>1, SeqMonotonic
<1> HIDE DEF s, t
<1>3. /\ s \o t \in Seq(Int) /\ Len(s \o t) = Len(s) + Len(t)
      /\ \A k \in 1..Len(s) + Len(t) : (s \o t)[k] = IF k <= Len(s) THEN s[k] ELSE t[k - Len(s)]
  BY <1>2, ConcatProperties
<1>4. Len(s \o t) = n - i /\ i <= n
  BY <1>1, <1>3
<1>5. \A k \in 1..n - i : (s \o t)[k] = i + k
  <2>1. SUFFICES ASSUME NEW k \in 1..n - i PROVE (s \o t)[k] = i + k
    OBVIOUS
  <2>2. CASE k <= j - i
    BY <1>1, <1>3, <2>2
  <2>3. CASE ~(k <= j - i)
    <3>1. k - (j - i) \in 1..n - j
      BY <2>3
    <3>2. (s \o t)[k] = t[k - (j - i)]
      BY <1>1, <1>3, <2>3
    <3>3. QED
      BY <1>1, <3>1, <3>2
  <2>4. QED
    BY <2>2, <2>3
<1>6. QED
  BY <1>3, <1>4, <1>5, IsSegment DEF s, t

LEMMA SegmentCut ==
  ASSUME NEW i \in Nat, NEW j \in Nat, i <= j, NEW n \in 0..j - i
  PROVE  /\ SubSeq(Segment(i, j), 1, n) = Segment(i, i + n)
         /\ SubSeq(Segment(i, j), n + 1, j - i) = Segment(i + n, j)
<1> DEFINE s == Segment(i, j)
<1>1. s \in Seq(1..j) /\ Len(s) = j - i /\ \A k \in 1..j - i : s[k] = i + k
  BY SegmentIs DEF Runs
<1>2. s \in Seq(Int)
  BY <1>1, SeqMonotonic
<1> HIDE DEF s
<1>3. SubSeq(s, 1, n) = Segment(i, i + n)
  <2>1. /\ SubSeq(s, 1, n) \in Seq(Int) /\ Len(SubSeq(s, 1, n)) = n
        /\ \A k \in 1..n : SubSeq(s, 1, n)[k] = s[k]
    BY <1>1, <1>2, PartOf
  <2>2. i + n \in Nat /\ i <= i + n /\ (i + n) - i = n
    OBVIOUS
  <2>3. \A k \in 1..n : SubSeq(s, 1, n)[k] = i + k
    BY <1>1, <2>1
  <2>4. QED
    BY <2>1, <2>2, <2>3, IsSegment
<1>4. SubSeq(s, n + 1, j - i) = Segment(i + n, j)
  <2>1. /\ SubSeq(s, n + 1, j - i) \in Seq(Int) /\ Len(SubSeq(s, n + 1, j - i)) = j - i - n
        /\ \A k \in 1..j - i - n : SubSeq(s, n + 1, j - i)[k] = s[n + k]
    <3>1. n \in 0..Len(s)
      BY <1>1
    <3>2. /\ SubSeq(s, n + 1, Len(s)) \in Seq(Int) /\ Len(SubSeq(s, n + 1, Len(s))) = Len(s) - n
          /\ \A k \in 1..Len(s) - n : SubSeq(s, n + 1, Len(s))[k] = s[n + k]
      BY <1>2, <3>1, RestOf
    <3>3. QED
      BY <1>1, <3>2
  <2>2. i + n \in Nat /\ i + n <= j /\ j - (i + n) = j - i - n
    OBVIOUS
  <2>3. \A k \in 1..j - i - n : SubSeq(s, n + 1, j - i)[k] = (i + n) + k
    BY <1>1, <2>1
  <2>4. QED
    BY <2>1, <2>2, <2>3, IsSegment
<1>5. QED
  BY <1>3, <1>4 DEF s

LEMMA FileIsSegment == File = Segment(0, Size)
  BY SizeAssumption DEF File, Segment

LEMMA SegmentOfFile ==
  ASSUME NEW i \in 0..Size, NEW j \in 0..Size, i <= j
  PROVE  SubSeq(File, i + 1, j) = Segment(i, j)
<1> DEFINE s == Segment(0, Size)
<1>1. Runs(s, 0, Size)
  BY SizeAssumption, SegmentIs
<1>2. s \in Seq(1..Size) /\ Len(s) = Size /\ \A k \in 1..Size : s[k] = k
  BY <1>1, SizeAssumption DEF Runs
<1> HIDE DEF s
<1>3. s \in Seq(Int) /\ \A k \in i+1..j : s[k] \in Int
  BY <1>2, SeqMonotonic, SizeAssumption
<1>4. i + 1 \in Int /\ j \in Int
  BY SizeAssumption
<1>5. /\ SubSeq(s, i + 1, j) \in Seq(Int)
      /\ Len(SubSeq(s, i + 1, j)) = IF i + 1 <= j THEN j - (i + 1) + 1 ELSE 0
      /\ \A k \in 1..j - (i + 1) + 1 : SubSeq(s, i + 1, j)[k] = s[i + 1 + k - 1]
  BY <1>3, <1>4, SubSeqProperties
<1>6. Len(SubSeq(s, i + 1, j)) = j - i /\ i \in Nat /\ j \in Nat
  BY <1>5, SizeAssumption
<1>7. \A k \in 1..j - i : SubSeq(s, i + 1, j)[k] = i + k
  BY <1>2, <1>5, SizeAssumption
<1>8. SubSeq(s, i + 1, j) = Segment(i, j)
  BY <1>5, <1>6, <1>7, IsSegment
<1>9. QED
  BY <1>8, FileIsSegment DEF s

LEMMA SegmentIsPrefix ==
  ASSUME NEW i \in 0..Size
  PROVE  IsPrefix(Segment(0, i), File)
<1>1. Runs(Segment(0, i), 0, i) /\ Runs(Segment(0, Size), 0, Size)
  BY SizeAssumption, SegmentIs
<1>2. SubSeq(Segment(0, i), 1, i) = Segment(0, 0 + i) /\ SubSeq(Segment(0, Size), 1, i) = Segment(0, 0 + i)
  BY SizeAssumption, SegmentCut
<1>3. Len(Segment(0, i)) = i /\ Len(Segment(0, Size)) = Size /\ i <= Size
  BY <1>1, SizeAssumption DEF Runs
<1>4. QED
  BY <1>2, <1>3, FileIsSegment DEF IsPrefix

-----------------------------------------------------------------------------
(* The sockets.                                                            *)
LEMMA FaultsCounted == ASSUME SocketOK, Fault \/ NoFault PROVE faults' \in Nat
  BY DEF SocketOK, Fault, NoFault

LEMMA ServerExitsKeeps ==
  ASSUME SocketOK, Queued, NEW status \in {"0", "1"}, ServerExits(status), faults' \in Nat,
         program' = program, cpc' = cpc, exit' = exit
  PROVE  SocketOK' /\ Queued'
<1>1. /\ spc' = "ended" /\ server_exit' = status /\ listening' = FALSE /\ backlog' = <<>>
      /\ connfd' = NoClient
      /\ closed' = [c \in Clients |-> IF c = connfd THEN closed[c] \cup {"server"} ELSE closed[c]]
      /\ reset' = [c \in Clients |-> \/ reset[c]
                                     \/ c \in ToSet(backlog)
                                     \/ c = connfd /\ up[c] # <<>>]
  BY DEF ServerExits
<1>2. closed' \in [Clients -> SUBSET {"client", "server"}]
  BY <1>1 DEF SocketOK
<1>3. reset' \in [Clients -> BOOLEAN]
  BY <1>1 DEF SocketOK
<1>4. \A c \in Clients : "client" \in closed'[c] <=> "client" \in closed[c]
  BY <1>1
<1>5. backlog' \in Seq(Clients) /\ Len(backlog') = 0
  BY <1>1, EmptySeq
<1>6. connfd' \notin Clients
  BY <1>1, SocketAssumption
<1>7. SocketOK'
  BY <1>1, <1>2, <1>3, <1>4, <1>5, <1>6 DEF SocketOK
<1>8. Queued'
  BY <1>5, <1>6 DEF Queued
<1>9. QED
  BY <1>7, <1>8

LEMMA ClientExitsKeeps ==
  ASSUME SocketOK, Queued, NEW c \in Clients, NEW status \in {"0", "1", "killed"},
         ClientExits(c, status), faults' \in Nat,
         program' = program, listening' = listening, backlog' = backlog, spc' = spc,
         connfd' = connfd, server_exit' = server_exit, reset' = reset
  PROVE  SocketOK' /\ Queued'
<1>1. /\ cpc' = [cpc EXCEPT ![c] = "ended"] /\ exit' = [exit EXCEPT ![c] = status]
      /\ closed' = [closed EXCEPT ![c] = @ \cup {"client"}]
  BY DEF ClientExits
<1>2. SocketOK'
  BY <1>1 DEF SocketOK
<1>3. Queued'
  BY <1>1 DEF SocketOK, Queued
<1>4. QED
  BY <1>2, <1>3

LEMMA ListenKeeps ==
  ASSUME SocketOK, Queued, Listen
  PROVE  SocketOK' /\ Queued'
<1>1. faults' \in Nat
  BY FaultsCounted DEF Listen
<1>2. CASE /\ spc' = "accept" /\ listening' = TRUE
           /\ UNCHANGED <<backlog, connfd, server_exit, closed, reset>>
  BY <1>1, <1>2 DEF Listen, SocketOK, Queued, clientSide
<1>3. (\E status \in {"0", "1"} : ServerExits(status)) => SocketOK' /\ Queued'
  BY <1>1, ServerExitsKeeps DEF Listen, clientSide
<1>4. QED
  BY <1>2, <1>3 DEF Listen

LEMMA AcceptKeeps ==
  ASSUME SocketOK, Queued, Accept
  PROVE  SocketOK' /\ Queued'
<1>1. faults' \in Nat
  BY FaultsCounted DEF Accept
<1>2. CASE /\ spc' = "resolve" /\ connfd' = Head(backlog) /\ backlog' = Tail(backlog)
           /\ UNCHANGED <<listening, server_exit, closed, reset>>
  <2>1. /\ Head(backlog) \in Clients /\ Tail(backlog) \in Seq(Clients)
        /\ Len(Tail(backlog)) = Len(backlog) - 1 /\ Len(backlog) \in Nat
        /\ \A k \in 1..Len(backlog) - 1 : Tail(backlog)[k] = backlog[k + 1]
        /\ Head(backlog) = backlog[1] /\ 1 \in 1..Len(backlog)
    BY HeadTailProperties, LenProperties, EmptySeq DEF Accept, SocketOK
  <2>2. spc = "accept" /\ cpc' = cpc /\ exit' = exit /\ program' = program
    BY DEF Accept, clientSide
  <2>3. SocketOK'
    BY <1>1, <1>2, <2>1, <2>2 DEF SocketOK
  <2>4. Queued'
    <3>1. \A i, j \in 1..Len(backlog') : backlog'[i] = backlog'[j] => i = j
      BY <1>2, <2>1 DEF Queued
    <3>2. \A i \in 1..Len(backlog') : cpc'[backlog'[i]] # "start" /\ backlog'[i] # connfd'
      BY <1>2, <2>1, <2>2 DEF Queued
    <3>3. cpc'[connfd'] # "start"
      BY <1>2, <2>1, <2>2 DEF Queued
    <3>4. QED
      BY <3>1, <3>2, <3>3 DEF Queued
  <2>5. QED
    BY <2>3, <2>4
<1>3. CASE ServerExits("1")
  BY <1>1, <1>3, ServerExitsKeeps DEF Accept, clientSide
<1>4. QED
  BY <1>2, <1>3 DEF Accept

LEMMA ResolveKeeps ==
  ASSUME SocketOK, Queued, Resolve
  PROVE  SocketOK' /\ Queued'
<1>1. faults' \in Nat
  BY FaultsCounted DEF Resolve
<1>2. CASE spc' = "serve" /\ UNCHANGED <<listening, backlog, connfd, server_exit, closed, reset>>
  BY <1>1, <1>2 DEF Resolve, SocketOK, Queued, clientSide
<1>3. CASE ServerExits("1")
  BY <1>1, <1>3, ServerExitsKeeps DEF Resolve, clientSide
<1>4. QED
  BY <1>2, <1>3 DEF Resolve

LEMMA ConnectKeeps ==
  ASSUME SocketOK, Queued, NEW c \in Clients, Connect(c)
  PROVE  SocketOK' /\ Queued'
<1>1. faults' \in Nat
  BY FaultsCounted DEF Connect
<1>2. /\ cpc[c] = "start" /\ program' = program /\ listening' = listening /\ spc' = spc
      /\ connfd' = connfd /\ server_exit' = server_exit /\ reset' = reset
  BY DEF Connect
<1>3. CASE /\ backlog' = Append(backlog, c) /\ cpc' = [cpc EXCEPT ![c] = "connected"]
           /\ UNCHANGED <<exit, closed>>
  <2>1. /\ backlog' \in Seq(Clients) /\ Len(backlog') = Len(backlog) + 1 /\ Len(backlog) \in Nat
        /\ \A k \in 1..Len(backlog) : backlog'[k] = backlog[k] /\ backlog[k] \in Clients
        /\ backlog'[Len(backlog) + 1] = c
    BY <1>3, AppendProperties, LenProperties, ElementOfSeq DEF SocketOK
  <2>2. SocketOK'
    BY <1>1, <1>2, <1>3, <2>1 DEF SocketOK
  <2>3. \A k \in 1..Len(backlog) : backlog[k] # c
    BY <1>2 DEF Queued
  <2>4. \A i, j \in 1..Len(backlog') : backlog'[i] = backlog'[j] => i = j
    <3>1. \A i \in 1..Len(backlog') : i \in 1..Len(backlog) \/ i = Len(backlog) + 1
      BY <2>1
    <3>2. QED
      BY <2>1, <2>3, <3>1 DEF Queued
  <2>5. \A k \in 1..Len(backlog') : cpc'[backlog'[k]] # "start" /\ backlog'[k] # connfd'
    <3>1. SUFFICES ASSUME NEW k \in 1..Len(backlog')
                   PROVE  cpc'[backlog'[k]] # "start" /\ backlog'[k] # connfd'
      OBVIOUS
    <3>2. CASE k \in 1..Len(backlog)
      BY <1>2, <1>3, <2>1, <3>2 DEF Queued, SocketOK
    <3>3. CASE k = Len(backlog) + 1
      BY <1>2, <1>3, <2>1, <3>3 DEF Queued, SocketOK
    <3>4. QED
      BY <2>1, <3>2, <3>3
  <2>6. connfd' \in Clients => cpc'[connfd'] # "start"
    BY <1>2, <1>3 DEF Queued, SocketOK
  <2>7. QED
    BY <2>2, <2>4, <2>5, <2>6 DEF Queued
<1>4. CASE \E status \in {"0", "1"} : ClientExits(c, status) /\ backlog' = backlog
  BY <1>1, <1>2, <1>4, ClientExitsKeeps
<1>5. ErrorStatus \in {"0", "1"}
  BY DEF ErrorStatus
<1>6. QED
  BY <1>3, <1>4, <1>5 DEF Connect

LEMMA BreakKeeps ==
  ASSUME SocketOK, Queued, NEW c \in Clients, Break(c)
  PROVE  SocketOK' /\ Queued'
<1>1. faults' \in Nat
  BY FaultsCounted DEF Break
<1>2. QED
  BY <1>1 DEF Break, SocketOK, Queued, clientSide, serverSide

LEMMA KillKeeps ==
  ASSUME SocketOK, Queued, NEW c \in Clients, Kill(c)
  PROVE  SocketOK' /\ Queued'
<1>1. faults' \in Nat
  BY FaultsCounted DEF Kill
<1>2. QED
  BY <1>1, ClientExitsKeeps DEF Kill, serverSide

(* A step of a server that stays with its connection or ends.              *)
LEMMA ServesOn ==
  ASSUME SocketOK, Queued, faults' \in Nat, program' = program, cpc' = cpc, exit' = exit,
         listening' = listening, backlog' = backlog, connfd' = connfd, server_exit' = server_exit,
         closed' = closed, reset' = reset,
         spc \in {"serve", "read", "write"}, spc' \in {"serve", "read", "write"}
  PROVE  SocketOK' /\ Queued'
  BY DEF SocketOK, Queued

LEMMA SendsFaults ==
  ASSUME SocketOK, NEW bytes, WriteSends(bytes)
  PROVE  faults' \in Nat
<1>1. Fault \/ NoFault
  BY DEF WriteSends
<1>2. QED
  BY <1>1, FaultsCounted

LEMMA WriteReplyKeeps ==
  ASSUME SocketOK, Queued, faults' \in Nat, spc = "write", program' = program, cpc' = cpc, exit' = exit,
         listening' = listening, backlog' = backlog, server_exit' = server_exit,
         spc' = "accept", connfd' = NoClient,
         closed' = [closed EXCEPT ![connfd] = @ \cup {"server"}],
         reset' = [reset EXCEPT ![connfd] = @ \/ up[connfd] # <<>>]
  PROVE  SocketOK' /\ Queued'
<1>1. NoClient \notin Clients /\ connfd \in Clients
  BY SocketAssumption DEF SocketOK
<1>2. reset' \in [Clients -> BOOLEAN]
  <2>1. (reset[connfd] \/ up[connfd] # <<>>) \in BOOLEAN
    OBVIOUS
  <2>2. QED
    BY <2>1 DEF SocketOK
<1>3. /\ closed' \in [Clients -> SUBSET {"client", "server"}]
      /\ \A c \in Clients : "client" \in closed'[c] <=> "client" \in closed[c]
  BY <1>1 DEF SocketOK
<1>4. SocketOK'
  BY <1>1, <1>2, <1>3 DEF SocketOK
<1>5. \A i \in 1..Len(backlog) : backlog[i] \in Clients
  BY ElementOfSeq DEF SocketOK
<1>6. Queued'
  BY <1>1, <1>5 DEF Queued
<1>7. QED
  BY <1>4, <1>6

LEMMA TransferServerKeeps ==
  ASSUME SocketOK, Queued, TransferServerStep
  PROVE  SocketOK' /\ Queued'
<1>1. CASE StartTransferServer
  BY <1>1, ListenKeeps DEF StartTransferServer
<1>2. CASE AcceptTransfer
  BY <1>2, AcceptKeeps, ResolveKeeps DEF AcceptTransfer
<1> USE DEF TransferServer, clientSide
<1>3. CASE OpenFile
  <2>1. faults' \in Nat
    BY <1>3, FaultsCounted DEF OpenFile
  <2>2. CASE ServerExits("1")
    BY <1>3, <2>1, <2>2, ServerExitsKeeps DEF OpenFile
  <2>3. CASE spc' = "read" /\ UNCHANGED <<listening, backlog, connfd, server_exit, closed, reset>>
    BY <1>3, <2>1, <2>3, ServesOn DEF OpenFile
  <2>4. QED
    BY <1>3, <2>2, <2>3 DEF OpenFile
<1>4. CASE ReadFile
  <2>1. faults' \in Nat
    BY <1>4, FaultsCounted DEF ReadFile
  <2>2. CASE ServerExits("0")
    BY <1>4, <2>1, <2>2, ServerExitsKeeps DEF ReadFile
  <2>3. CASE spc' = "write" /\ UNCHANGED <<listening, backlog, connfd, server_exit, closed, reset>>
    BY <1>4, <2>1, <2>3, ServesOn DEF ReadFile
  <2>4. QED
    BY <1>4, <2>2, <2>3 DEF ReadFile
<1>5. CASE WriteFile
  <2>1. faults' \in Nat
    BY <1>5, FaultsCounted, SendsFaults DEF WriteFile
  <2>2. CASE ServerExits("1")
    BY <1>5, <2>1, <2>2, ServerExitsKeeps DEF WriteFile
  <2>3. CASE spc' = "read" /\ UNCHANGED <<listening, backlog, connfd, server_exit, closed, reset>>
    BY <1>5, <2>1, <2>3, ServesOn DEF WriteFile
  <2>4. QED
    BY <1>5, <2>2, <2>3 DEF WriteFile, WriteFails
<1>6. QED
  BY <1>1, <1>2, <1>3, <1>4, <1>5 DEF TransferServerStep

LEMMA EchoServerKeeps ==
  ASSUME SocketOK, Queued, EchoServerStep
  PROVE  SocketOK' /\ Queued'
<1>1. CASE StartEchoServer
  BY <1>1, ListenKeeps DEF StartEchoServer
<1>2. CASE AcceptEcho
  BY <1>2, AcceptKeeps, ResolveKeeps DEF AcceptEcho
<1> USE DEF EchoServer, clientSide
<1>3. CASE ReadMessage
  <2>1. faults' \in Nat
    BY <1>3, FaultsCounted DEF ReadMessage
  <2>2. CASE ServerExits("1")
    BY <1>3, <2>1, <2>2, ServerExitsKeeps DEF ReadMessage
  <2>3. CASE spc' = "write" /\ UNCHANGED <<listening, backlog, connfd, server_exit, closed, reset>>
    BY <1>3, <2>1, <2>3, ServesOn DEF ReadMessage
  <2>4. QED
    BY <1>3, <2>2, <2>3 DEF ReadMessage
<1>4. CASE WriteReply
  <2>1. faults' \in Nat
    BY <1>4, FaultsCounted, SendsFaults DEF WriteReply
  <2>2. CASE ServerExits("1")
    BY <1>4, <2>1, <2>2, ServerExitsKeeps DEF WriteReply
  <2>3. CASE /\ closed' = [closed EXCEPT ![connfd] = @ \cup {"server"}]
             /\ reset' = [reset EXCEPT ![connfd] = @ \/ up[connfd] # <<>>]
             /\ spc' = "accept" /\ connfd' = NoClient
             /\ UNCHANGED <<listening, backlog, server_exit>>
    BY <1>4, <2>1, <2>3, WriteReplyKeeps DEF WriteReply
  <2>4. QED
    BY <1>4, <2>2, <2>3 DEF WriteReply, WriteFails
<1>5. QED
  BY <1>1, <1>2, <1>3, <1>4 DEF EchoServerStep

(* A step of a client that goes on or ends.                                *)
LEMMA ClientGoesOn ==
  ASSUME SocketOK, Queued, NEW c \in Clients, cpc[c] \in {"connected", "receive"}, faults' \in Nat,
         program' = program, listening' = listening, backlog' = backlog, spc' = spc,
         connfd' = connfd, server_exit' = server_exit, reset' = reset, exit' = exit,
         closed' = closed, cpc' = [cpc EXCEPT ![c] = "receive"]
  PROVE  SocketOK' /\ Queued'
<1>1. SocketOK'
  BY DEF SocketOK
<1>2. \A i \in 1..Len(backlog) : backlog[i] \in Clients
  BY ElementOfSeq DEF SocketOK
<1>3. Queued'
  BY <1>2 DEF SocketOK, Queued
<1>4. QED
  BY <1>1, <1>3

LEMMA TransferClientKeeps ==
  ASSUME SocketOK, Queued, NEW c \in Clients, TransferClientStep(c)
  PROVE  SocketOK' /\ Queued'
<1>1. CASE ConnectTransfer(c)
  BY <1>1, ConnectKeeps DEF ConnectTransfer
<1> USE DEF TransferClient, serverSide
<1>2. CASE OpenOutput(c)
  <2>1. faults' \in Nat
    BY <1>2, FaultsCounted DEF OpenOutput
  <2>2. CASE ClientExits(c, "1")
    BY <1>2, <2>1, <2>2, ClientExitsKeeps DEF OpenOutput
  <2>3. CASE cpc' = [cpc EXCEPT ![c] = "receive"] /\ UNCHANGED <<exit, closed>>
    BY <1>2, <2>1, <2>3, ClientGoesOn DEF OpenOutput
  <2>4. QED
    BY <1>2, <2>2, <2>3 DEF OpenOutput
<1>3. CASE Receive(c)
  <2>1. faults' \in Nat
    BY <1>3, FaultsCounted DEF Receive
  <2>2. CASE ClientExits(c, "1")
    BY <1>3, <2>1, <2>2, ClientExitsKeeps DEF Receive
  <2>3. CASE UNCHANGED <<clientSide, closed>>
    BY <1>3, <2>1, <2>3 DEF Receive, clientSide, SocketOK, Queued
  <2>4. QED
    BY <1>3, <2>2, <2>3 DEF Receive
<1>4. CASE Received(c)
  <2>1. faults' \in Nat
    BY <1>4, FaultsCounted DEF Received
  <2>2. QED
    BY <1>4, <2>1, ClientExitsKeeps DEF Received
<1>5. QED
  BY <1>1, <1>2, <1>3, <1>4 DEF TransferClientStep

LEMMA EchoClientKeeps ==
  ASSUME SocketOK, Queued, NEW c \in Clients, EchoClientStep(c)
  PROVE  SocketOK' /\ Queued'
<1>1. CASE ConnectEcho(c)
  BY <1>1, ConnectKeeps DEF ConnectEcho
<1> USE DEF EchoClient, serverSide
<1>2. ErrorStatus \in {"0", "1"}
  BY DEF ErrorStatus
<1>3. CASE SendMessage(c)
  <2>1. faults' \in Nat
    BY <1>3, FaultsCounted DEF SendMessage
  <2>2. CASE ClientExits(c, ErrorStatus)
    BY <1>2, <1>3, <2>1, <2>2, ClientExitsKeeps DEF SendMessage
  <2>3. CASE cpc' = [cpc EXCEPT ![c] = "receive"] /\ UNCHANGED <<exit, closed>>
    BY <1>3, <2>1, <2>3, ClientGoesOn DEF SendMessage
  <2>4. QED
    BY <1>3, <2>2, <2>3 DEF SendMessage
<1>4. CASE ReceiveReply(c)
  <2>1. faults' \in Nat
    BY <1>4, FaultsCounted DEF ReceiveReply
  <2>2. QED
    BY <1>2, <1>4, <2>1, ClientExitsKeeps DEF ReceiveReply
<1>5. QED
  BY <1>1, <1>3, <1>4 DEF EchoClientStep

LEMMA SocketKept ==
  ASSUME SocketOK, Queued, Next
  PROVE  SocketOK' /\ Queued'
<1>1. ServerStep => SocketOK' /\ Queued'
  BY TransferServerKeeps, EchoServerKeeps DEF ServerStep
<1>2. \A c \in Clients : ClientStep(c) => SocketOK' /\ Queued'
  BY TransferClientKeeps, EchoClientKeeps DEF ClientStep
<1>3. \A c \in Clients : BreakStep(c) => SocketOK' /\ Queued'
  BY BreakKeeps, KillKeeps DEF BreakStep, TransferBreak, EchoBreak
<1>4. QED
  BY <1>1, <1>2, <1>3 DEF Next

-----------------------------------------------------------------------------
(* The copy.                                                               *)
LEMMA SegmentLen ==
  ASSUME NEW i \in Nat, NEW j \in Nat, i <= j
  PROVE  Segment(i, j) \in Seq(1..j) /\ Len(Segment(i, j)) = j - i
  BY SegmentIs DEF Runs

LEMMA InFile == ASSUME NEW i \in 0..Size, NEW s \in Seq(1..i) PROVE s \in Seq(1..Size)
<1>1. 1..i \subseteq 1..Size
  BY SizeAssumption
<1>2. QED
  BY <1>1, SeqMonotonic, Zenon

LEMMA NotOld == \A s \in Seq(1..Size) : s # Old
<1>1. SUFFICES ASSUME NEW s \in Seq(1..Size), s = Old PROVE FALSE
  OBVIOUS
<1>2. Len(s) = 1 /\ s[1] = 0
  BY <1>1 DEF Old
<1>3. 1 \in 1..Len(s)
  BY <1>2
<1>4. s[1] \in 1..Size
  BY <1>3, ElementOfSeq, Zenon
<1>5. QED
  BY <1>2, <1>4, SizeAssumption

LEMMA CopiedStill ==
  ASSUME NEW c \in Clients, Copied(c), Stored(c)' = Stored(c),
         cpc'[c] # "ended" =>
           cpc[c] # "ended" /\ down'[c] = down[c] /\ \A j \in 0..Size : Reaches(c, j) => Reaches(c, j)'
  PROVE  Copied(c)'
<1>1. PICK i \in 0..Size, j \in 0..Size :
        /\ i <= j /\ Stored(c) = Segment(0, i)
        /\ cpc[c] # "ended" => down[c] = Segment(i, j) /\ Reaches(c, j)
  BY DEF Copied
<1>2. Segment(0, i)' = Segment(0, i) /\ Segment(i, j)' = Segment(i, j)
  BY DEF Segment
<1>3. /\ i <= j /\ Stored(c)' = Segment(0, i)'
      /\ cpc'[c] # "ended" => down'[c] = Segment(i, j)' /\ Reaches(c, j)'
  BY <1>1, <1>2, Zenon
<1>4. QED
  BY <1>3, Zenon DEF Copied

LEMMA WholeStill ==
  ASSUME SocketOK, Transferred, spc # "ended", output' = output, exit' = exit,
         unseen \subseteq unseen', \A c \in Clients : reset[c] => reset'[c]
  PROVE  \A c \in Clients : Whole(c)'
<1>1. server_exit = "none"
  BY DEF SocketOK
<1>2. \A c \in Clients : ~(exit[c] = "0" /\ output[c] # Old /\ ~reset[c] /\ unseen = {})
  BY <1>1 DEF Transferred, Whole
<1>3. Old' = Old
  BY DEF Old
<1>4. SUFFICES ASSUME NEW c \in Clients, exit'[c] = "0", output'[c] # Old', ~reset'[c], unseen' = {}
               PROVE  FALSE
  BY DEF Whole
<1>5. QED
  BY <1>2, <1>3, <1>4

LEMMA ServerLeaves ==
  ASSUME SocketOK, Transferred, spc # "ended", NEW status \in {"0", "1"}, ServerExits(status),
         down' = down, position' = position, buf' = buf, output' = output,
         cpc' = cpc, exit' = exit, unseen' \in {unseen, unseen \cup {"fread"}},
         status = "0" =>
           spc = "start" \/ (spc = "read" /\ position = Size) \/ "fread" \in unseen'
  PROVE  Transferred'
<1>1. /\ spc' = "ended" /\ server_exit' = status /\ connfd' = NoClient
      /\ closed' = [c \in Clients |-> IF c = connfd THEN closed[c] \cup {"server"} ELSE closed[c]]
      /\ \A c \in Clients : reset[c] => reset'[c]
  BY DEF ServerExits
<1>2. TransferTyped'
  <2>1. Old' = Old
    BY DEF Old
  <2>2. QED
    BY <1>1, <2>1 DEF Transferred, TransferTyped, Early
<1>3. ASSUME "short" \notin unseen', NEW c \in Clients PROVE Copied(c)'
  <2>1. Copied(c) /\ Stored(c)' = Stored(c)
    BY <1>3 DEF Transferred, Stored, Old
  <2>2. ASSUME NEW j \in 0..Size, Reaches(c, j) PROVE Reaches(c, j)'
    <3>1. "server" \notin closed[c]
      BY DEF Transferred, TransferTyped
    <3>2. "server" \notin closed'[c] => j = 0
      BY <1>1, <2>2, <3>1 DEF Reaches
    <3>3. (~reset'[c] /\ "server" \in closed'[c] /\ server_exit' = "0" /\ "fread" \notin unseen') => j = Size
      BY <1>1, <2>2, <3>1 DEF Reaches, SocketOK
    <3>4. QED
      BY <1>1, <3>2, <3>3 DEF Reaches
  <2>3. QED
    BY <2>1, <2>2, CopiedStill
<1>4. \A c \in Clients : Whole(c)'
  BY <1>1, WholeStill
<1>5. QED
  BY <1>2, <1>3, <1>4 DEF Transferred

(* A step of the server that leaves the connections and the copies alone.  *)
LEMMA ServerGoesOn ==
  ASSUME SocketOK, Transferred, spc # "ended", spc' # "ended",
         down' = down, output' = output, cpc' = cpc, exit' = exit, unseen' = unseen,
         closed' = closed, reset' = reset, server_exit' = server_exit,
         position' \in 0..Size, spc' \in Early => position' = 0, buf' \in Seq(1..Size),
         \A c \in Clients : \A j \in 0..Size : Reaches(c, j) => Reaches(c, j)'
  PROVE  Transferred'
<1>1. Old' = Old
  BY DEF Old
<1>2. TransferTyped'
  BY <1>1 DEF Transferred, TransferTyped, Early
<1>3. ASSUME "short" \notin unseen', NEW c \in Clients PROVE Copied(c)'
  <2>1. Copied(c) /\ Stored(c)' = Stored(c)
    BY <1>3, <1>1 DEF Transferred, Stored
  <2>2. QED
    BY <2>1, CopiedStill
<1>4. \A c \in Clients : Whole(c)'
  BY WholeStill
<1>5. QED
  BY <1>2, <1>3, <1>4 DEF Transferred

LEMMA EarlyCopied ==
  ASSUME SocketOK, Transferred, spc \in Early, spc' \in Early,
         down' = down, output' = output, cpc' = cpc, exit' = exit, unseen' = unseen,
         closed' = closed, reset' = reset, server_exit' = server_exit,
         position' = position, buf' = buf
  PROVE  Transferred'
<1>1. spc # "ended" /\ spc' # "ended" /\ position' = 0
  BY DEF Early, Transferred, TransferTyped
<1>2. /\ position' \in 0..Size /\ buf' \in Seq(1..Size)
  BY DEF Transferred, TransferTyped
<1>3. \A c \in Clients : \A j \in 0..Size : Reaches(c, j) => Reaches(c, j)'
  BY DEF Reaches, Early, Transferred, TransferTyped
<1>4. QED
  BY <1>1, <1>2, <1>3, ServerGoesOn

(* The server reads the file and writes what it read.                      *)
LEMMA OpenCopied ==
  ASSUME SocketOK, Transferred, OpenFile
  PROVE  Transferred'
<1> USE DEF OpenFile, TransferServer, clientSide
<1>1. /\ down' = down /\ position' = position /\ buf' = buf /\ output' = output
      /\ cpc' = cpc /\ exit' = exit /\ unseen' = unseen /\ spc = "serve"
  OBVIOUS
<1>2. CASE spc' = "read" /\ UNCHANGED <<listening, backlog, connfd, server_exit, closed, reset>>
  <2>1. position \in 0..Size /\ position = 0 /\ buf \in Seq(1..Size)
    BY <1>1 DEF Transferred, TransferTyped, Early
  <2>2. spc # "ended" /\ spc' # "ended" /\ spc' \notin Early
    BY <1>1, <1>2 DEF Early
  <2>3. \A c \in Clients : \A j \in 0..Size : Reaches(c, j) => Reaches(c, j)'
    BY <1>1, <1>2, <2>1, <2>2 DEF Reaches, Early, Transferred, TransferTyped
  <2>4. QED
    BY <1>1, <1>2, <2>1, <2>2, <2>3, ServerGoesOn
<1>3. CASE ServerExits("1")
  BY <1>1, <1>3, ServerLeaves
<1>4. QED
  BY <1>2, <1>3

LEMMA ReadCopied ==
  ASSUME SocketOK, Transferred, ReadFile
  PROVE  Transferred'
<1>1. down' = down /\ output' = output /\ cpc' = cpc /\ exit' = exit /\ spc = "read"
  BY Zenon DEF ReadFile, TransferServer, clientSide
<1>2. CASE /\ ServerExits("0") /\ position' = position /\ buf' = buf
           /\ \/ position = Size /\ unseen' = unseen
              \/ unseen' = unseen \cup {"fread"}
  BY <1>1, <1>2, ServerLeaves
<1>3. CASE /\ position < Size
           /\ position' = IF Size - position < BUFSIZE THEN Size ELSE position + BUFSIZE
           /\ buf' = SubSeq(File, position + 1, position')
           /\ spc' = "write"
           /\ UNCHANGED <<listening, backlog, connfd, server_exit, closed, reset, unseen>>
  <2>1. position \in 0..Size /\ position' \in 0..Size /\ position < position'
    <3>1. position \in Nat /\ Size \in Nat /\ BUFSIZE \in Nat /\ 0 < BUFSIZE
      BY SizeAssumption, SocketAssumption DEF Transferred, TransferTyped
    <3>2. position < Size /\ position' = IF Size - position < BUFSIZE THEN Size ELSE position + BUFSIZE
      BY <1>3
    <3>3. QED
      BY <3>1, <3>2
  <2>2. buf' = Segment(position, position')
    <3>1. position \in 0..Size /\ position' \in 0..Size /\ position <= position'
      BY <2>1, SizeAssumption
    <3>2. \A i, j \in 0..Size : i <= j => SubSeq(File, i + 1, j) = Segment(i, j)
      BY SegmentOfFile
    <3>3. buf' = SubSeq(File, position + 1, position')
      BY <1>3
    <3>4. QED
      BY <3>1, <3>2, <3>3, Zenon
  <2>3. buf' \in Seq(1..Size)
    <3>1. position \in Nat /\ position' \in Nat /\ position <= position'
      BY <2>1, SizeAssumption
    <3>2. Segment(position, position') \in Seq(1..position')
      BY <3>1, SegmentLen
    <3>3. Segment(position, position') \in Seq(1..Size)
      BY <2>1, <3>2, InFile
    <3>4. QED
      BY <2>2, <3>3, Zenon
  <2>4. spc # "ended" /\ spc' # "ended" /\ spc' \notin Early
    BY <1>1, <1>3 DEF Early
  <2>5. ASSUME NEW c \in Clients, NEW j \in 0..Size, Reaches(c, j) PROVE Reaches(c, j)'
    <3>1. (~reset[c] /\ c = connfd) => j = position
      BY <1>1, <2>5 DEF Reaches
    <3>2. (~reset'[c] /\ c = connfd' /\ spc' = "write") => j < position' /\ buf' = Segment(j, position)'
      BY <1>3, <2>1, <2>2, <3>1 DEF Segment
    <3>3. QED
      BY <1>1, <1>3, <2>4, <2>5, <3>2 DEF Reaches
  <2>6. QED
    BY <1>1, <1>3, <2>1, <2>3, <2>4, <2>5, ServerGoesOn
<1>4. QED
  BY <1>2, <1>3 DEF ReadFile

(* write() appends to what is under way a beginning of the buffer.         *)
LEMMA SendsTyped ==
  ASSUME NEW S, NEW bytes \in Seq(S), down \in [Clients -> Seq(S)], WriteSends(bytes)
  PROVE  down' \in [Clients -> Seq(S)]
<1>1. PICK n \in 1..Len(bytes) :
        down' = IF "client" \in closed[connfd] \/ reset[connfd] THEN down
                ELSE [down EXCEPT ![connfd] = @ \o SubSeq(bytes, 1, n)]
  BY DEF WriteSends
<1>2. n \in 0..Len(bytes)
  BY <1>1
<1>3. SubSeq(bytes, 1, n) \in Seq(S)
  BY <1>2, PartOf
<1>4. connfd \in Clients => down[connfd] \o SubSeq(bytes, 1, n) \in Seq(S)
  BY <1>3, ConcatProperties
<1>5. QED
  BY <1>1, <1>4

LEMMA SendsAll ==
  ASSUME NEW bytes, bytes \in Seq(Int), faults \in Nat, WriteSends(bytes), faults' = faults,
         ~("client" \in closed[connfd]), ~reset[connfd]
  PROVE  down' = [down EXCEPT ![connfd] = @ \o bytes]
<1>1. PICK n \in 1..Len(bytes) :
        /\ IF n < Len(bytes) THEN Fault ELSE NoFault
        /\ down' = IF "client" \in closed[connfd] \/ reset[connfd] THEN down
                   ELSE [down EXCEPT ![connfd] = @ \o SubSeq(bytes, 1, n)]
  BY DEF WriteSends
<1>2. Len(bytes) \in Nat
  BY LenProperties
<1>3. ~Fault
  BY DEF Fault
<1>4. n = Len(bytes)
  BY <1>1, <1>2, <1>3
<1>5. SubSeq(bytes, 1, n) = bytes
  <2>1. n \in 0..Len(bytes)
    BY <1>2, <1>4
  <2>2. /\ SubSeq(bytes, 1, n) \in Seq(Int) /\ Len(SubSeq(bytes, 1, n)) = n
        /\ \A k \in 1..n : SubSeq(bytes, 1, n)[k] = bytes[k]
    BY <2>1, PartOf
  <2>3. QED
    BY <1>4, <2>2, SeqEqual
<1>6. QED
  BY <1>1, <1>5

LEMMA WriteCopied ==
  ASSUME SocketOK, Transferred, WriteFile
  PROVE  Transferred'
<1>1. /\ output' = output /\ cpc' = cpc /\ exit' = exit /\ spc = "write"
      /\ position' = position /\ buf' = buf
  BY Zenon DEF WriteFile, TransferServer, clientSide
<1>2. CASE ServerExits("1") /\ down' = down /\ unseen' = unseen
  BY <1>1, <1>2, ServerLeaves
<1>3. CASE /\ WriteSends(buf) /\ spc' = "read"
           /\ unseen' = IF faults' # faults THEN unseen \cup {"short"} ELSE unseen
           /\ UNCHANGED <<listening, backlog, connfd, server_exit, closed, reset>>
  <2>1. buf \in Seq(1..Size) /\ down \in [Clients -> Seq(1..Size)]
    BY DEF Transferred, TransferTyped
  <2>2. down' \in [Clients -> Seq(1..Size)]
    BY <1>3, <2>1, SendsTyped
  <2>3. Old' = Old
    BY DEF Old
  <2>4. TransferTyped'
    BY <1>1, <1>3, <2>2, <2>3 DEF Transferred, TransferTyped, Early
  <2>5. ASSUME "short" \notin unseen', NEW c \in Clients PROVE Copied(c)'
    <3>1. Copied(c) /\ Stored(c)' = Stored(c) /\ faults' = faults
      BY <1>1, <1>3, <2>3, <2>5 DEF Transferred, Stored
    <3>2. connfd \in Clients
      BY <1>1 DEF SocketOK
    <3>3. "server" \notin closed'[c]
      BY <1>1, <1>3 DEF Transferred, TransferTyped
    <3>4. CASE c # connfd \/ cpc[c] = "ended" \/ reset[c]
      <4>1. "client" \in closed[c] <=> cpc[c] = "ended"
        BY DEF SocketOK
      <4>2. down'[c] = down[c]
        BY <1>3, <2>1, <3>2, <3>4, <4>1 DEF WriteSends
      <4>3. (c # connfd \/ reset[c]) => \A j \in 0..Size : Reaches(c, j) => Reaches(c, j)'
        BY <1>1, <1>3, <3>3 DEF Reaches, Early
      <4>4. QED
        BY <1>1, <3>1, <3>4, <4>2, <4>3, CopiedStill
    <3>5. CASE c = connfd /\ cpc[c] # "ended" /\ ~reset[c]
      <4>1. PICK i \in 0..Size, j \in 0..Size :
              i <= j /\ Stored(c) = Segment(0, i) /\ down[c] = Segment(i, j) /\ Reaches(c, j)
        BY <3>1, <3>5, Zenon DEF Copied
      <4>2. j < position /\ buf = Segment(j, position)
        BY <1>1, <3>5, <4>1 DEF Reaches
      <4>3. position \in 0..Size
        BY DEF Transferred, TransferTyped
      <4>4. down' = [down EXCEPT ![connfd] = @ \o buf]
        <5>1. "client" \notin closed[connfd] /\ ~reset[connfd]
          BY <3>2, <3>5 DEF SocketOK
        <5>2. buf \in Seq(Int) /\ faults \in Nat
          BY <2>1, SeqMonotonic, SizeAssumption DEF SocketOK
        <5>3. QED
          BY <1>3, <3>1, <5>1, <5>2, SendsAll
      <4>5. down'[c] = Segment(i, j) \o Segment(j, position)
        BY <2>1, <3>5, <4>1, <4>2, <4>4
      <4>6. i \in Nat /\ j \in Nat /\ position \in Nat /\ i <= j /\ j <= position /\ i <= position
        BY <4>1, <4>2, <4>3, SizeAssumption
      <4>7. down'[c] = Segment(i, position)
        BY <4>5, <4>6, SegmentJoined
      <4>8. Reaches(c, position)'
        BY <1>1, <1>3, <3>3, <3>5 DEF Reaches, Early
      <4>9. Segment(0, i)' = Segment(0, i) /\ Segment(i, position)' = Segment(i, position)
        BY <1>1 DEF Segment
      <4>10. QED
        <5>1. /\ i <= position /\ Stored(c)' = Segment(0, i)'
              /\ cpc'[c] # "ended" => down'[c] = Segment(i, position)' /\ Reaches(c, position)'
          BY <3>1, <4>1, <4>6, <4>7, <4>8, <4>9, Zenon
        <5>2. QED
          BY <1>1, <4>3, <5>1, Zenon DEF Copied
    <3>6. QED
      BY <3>4, <3>5
  <2>6. \A c \in Clients : Whole(c)'
    BY <1>1, <1>3, WholeStill
  <2>7. QED
    BY <1>1, <2>4, <2>5, <2>6 DEF Transferred
<1>4. QED
  BY <1>2, <1>3, Zenon DEF WriteFile, WriteFails

(* A client connects, stores what it reads, and ends.                      *)
LEMMA ClientCopied ==
  ASSUME SocketOK, Transferred, NEW c \in Clients,
         spc' = spc, connfd' = connfd, server_exit' = server_exit, reset' = reset,
         position' = position, buf' = buf,
         unseen \subseteq unseen', unseen' \subseteq {"fread", "short", "flush"},
         ("fread" \in unseen' => "fread" \in unseen), ("short" \in unseen' => "short" \in unseen),
         down' \in [Clients -> Seq(1..Size)], output' \in [Clients -> Seq(0..Size)],
         closed' \in [Clients -> SUBSET {"client", "server"}],
         cpc' \in [Clients -> {"start", "connected", "receive", "ended"}],
         \A d \in Clients \ {c} :
           /\ down'[d] = down[d] /\ output'[d] = output[d] /\ closed'[d] = closed[d]
           /\ cpc'[d] = cpc[d] /\ exit'[d] = exit[d],
         "server" \in closed'[c] <=> "server" \in closed[c],
         cpc'[c] \in {"start", "connected"} => output'[c] = Old,
         cpc'[c] = "receive" => output'[c] \in Seq(1..Size),
         output'[c] = Old \/ output'[c] \in Seq(1..Size),
         cpc'[c] # "ended" => exit'[c] = "none",
         "short" \notin unseen => Copied(c)', Whole(c)'
  PROVE  Transferred'
<1>1. Old' = Old
  BY DEF Old
<1>2. TransferTyped'
  <2>1. /\ position' \in 0..Size /\ (spc' \in Early => position' = 0) /\ buf' \in Seq(1..Size)
    BY DEF Transferred, TransferTyped
  <2>2. ASSUME NEW d \in Clients
        PROVE  /\ cpc'[d] \in {"start", "connected"} => output'[d] = Old'
               /\ cpc'[d] = "receive" => output'[d] \in Seq(1..Size)
               /\ output'[d] = Old' \/ output'[d] \in Seq(1..Size)
               /\ "server" \in closed'[d] => spc' = "ended"
    BY <1>1 DEF Transferred, TransferTyped
  <2>3. QED
    BY <2>1, <2>2 DEF TransferTyped, Early
<1>3. ASSUME "short" \notin unseen', NEW d \in Clients PROVE Copied(d)'
  <2>1. CASE d = c
    BY <1>3, <2>1
  <2>2. CASE d # c
    <3>1. Copied(d) /\ Stored(d)' = Stored(d)
      BY <1>1, <1>3, <2>2 DEF Transferred, Stored
    <3>2. \A j \in 0..Size : Reaches(d, j) => Reaches(d, j)'
      BY <2>2 DEF Reaches, Early, Segment
    <3>3. QED
      BY <2>2, <3>1, <3>2, CopiedStill
  <2>3. QED
    BY <2>1, <2>2
<1>4. ASSUME NEW d \in Clients PROVE Whole(d)'
  <2>1. CASE d = c
    BY <2>1
  <2>2. CASE d # c
    BY <1>1, <2>2 DEF Transferred, Whole, File
  <2>3. QED
    BY <2>1, <2>2
<1>5. \A d \in Clients : cpc'[d] # "ended" => exit'[d] = "none"
  BY DEF Transferred
<1>6. QED
  BY <1>2, <1>3, <1>4, <1>5 DEF Transferred

LEMMA ConnectCopied ==
  ASSUME SocketOK, Transferred, SocketOK', NEW c \in Clients, ConnectTransfer(c)
  PROVE  Transferred'
<1>1. /\ cpc[c] = "start" /\ down' = down /\ output' = output /\ unseen' = unseen
      /\ position' = position /\ buf' = buf /\ reset' = reset
      /\ spc' = spc /\ connfd' = connfd /\ server_exit' = server_exit
  BY Zenon DEF ConnectTransfer, Connect, transferVars
<1>2. \/ cpc' = [cpc EXCEPT ![c] = "connected"] /\ exit' = exit /\ closed' = closed
      \/ \E status \in {"0", "1"} : ClientExits(c, status)
  BY DEF ConnectTransfer, Connect, ErrorStatus
<1>3. output[c] = Old
  BY <1>1 DEF Transferred, TransferTyped
<1>4. \A d \in Clients \ {c} : closed'[d] = closed[d] /\ cpc'[d] = cpc[d] /\ exit'[d] = exit[d]
  BY <1>2 DEF ClientExits, SocketOK
<1>5. /\ "server" \in closed'[c] <=> "server" \in closed[c]
      /\ cpc'[c] \in {"connected", "ended"} /\ (cpc'[c] # "ended" => exit'[c] = "none")
  BY <1>1, <1>2 DEF ClientExits, SocketOK, Transferred
<1>6. "short" \notin unseen => Copied(c)'
  <2>1. SUFFICES ASSUME "short" \notin unseen PROVE Copied(c)'
    OBVIOUS
  <2>2. Copied(c) /\ Stored(c)' = Stored(c)
    BY <1>1, <2>1 DEF Transferred, Stored, Old
  <2>3. \A j \in 0..Size : Reaches(c, j) => Reaches(c, j)'
    BY <1>1, <1>5 DEF Reaches, Early, Segment
  <2>4. QED
    BY <1>1, <2>2, <2>3, CopiedStill
<1>7. Whole(c)'
  BY <1>1, <1>3 DEF Whole, Old
<1>8. /\ down' \in [Clients -> Seq(1..Size)] /\ output' \in [Clients -> Seq(0..Size)]
      /\ unseen' \subseteq {"fread", "short", "flush"}
      /\ closed' \in [Clients -> SUBSET {"client", "server"}]
      /\ cpc' \in [Clients -> {"start", "connected", "receive", "ended"}]
  BY <1>1 DEF Transferred, TransferTyped, SocketOK
<1>9. QED
  BY <1>1, <1>3, <1>4, <1>5, <1>6, <1>7, <1>8, ClientCopied

LEMMA OpenedCopied ==
  ASSUME SocketOK, Transferred, SocketOK', NEW c \in Clients, OpenOutput(c)
  PROVE  Transferred'
<1>1. /\ cpc[c] = "connected" /\ down' = down /\ unseen' = unseen
      /\ position' = position /\ buf' = buf /\ reset' = reset
      /\ spc' = spc /\ connfd' = connfd /\ server_exit' = server_exit
  BY Zenon DEF OpenOutput, TransferClient, serverSide
<1>2. \/ /\ output' = [output EXCEPT ![c] = <<>>] /\ cpc' = [cpc EXCEPT ![c] = "receive"]
         /\ exit' = exit /\ closed' = closed
      \/ ClientExits(c, "1") /\ output' = output
  BY DEF OpenOutput
<1>3. output[c] = Old /\ output \in [Clients -> Seq(0..Size)]
  BY <1>1 DEF Transferred, TransferTyped
<1>4. \A d \in Clients \ {c} :
        /\ closed'[d] = closed[d] /\ cpc'[d] = cpc[d] /\ exit'[d] = exit[d] /\ output'[d] = output[d]
  BY <1>2, <1>3 DEF ClientExits, SocketOK
<1>5. /\ "server" \in closed'[c] <=> "server" \in closed[c]
      /\ cpc'[c] \in {"receive", "ended"} /\ (cpc'[c] # "ended" => exit'[c] = "none")
      /\ exit'[c] # "0"
  BY <1>1, <1>2 DEF ClientExits, SocketOK, Transferred
<1>6. /\ output'[c] \in {<<>>, Old} /\ (cpc'[c] = "receive" => output'[c] = <<>>)
      /\ <<>> \in Seq(1..Size) /\ <<>> \in Seq(0..Size) /\ Old' = Old
  BY <1>2, <1>3, <1>5, EmptySeq DEF ClientExits, SocketOK, Old
<1>7. "short" \notin unseen => Copied(c)'
  <2>1. SUFFICES ASSUME "short" \notin unseen PROVE Copied(c)'
    OBVIOUS
  <2>2. Copied(c) /\ Stored(c)' = Stored(c)
    BY <1>3, <1>6, <2>1 DEF Transferred, Stored
  <2>3. \A j \in 0..Size : Reaches(c, j) => Reaches(c, j)'
    BY <1>1, <1>5 DEF Reaches, Early, Segment
  <2>4. QED
    BY <1>1, <2>2, <2>3, CopiedStill
<1>8. Whole(c)'
  BY <1>5 DEF Whole
<1>9. /\ down' \in [Clients -> Seq(1..Size)] /\ output' \in [Clients -> Seq(0..Size)]
      /\ unseen' \subseteq {"fread", "short", "flush"}
      /\ closed' \in [Clients -> SUBSET {"client", "server"}]
      /\ cpc' \in [Clients -> {"start", "connected", "receive", "ended"}]
  <2>1. output' \in [Clients -> Seq(0..Size)]
    BY <1>2, <1>3, <1>6
  <2>2. QED
    BY <1>1, <2>1 DEF Transferred, TransferTyped, SocketOK
<1>10. /\ cpc'[c] \in {"start", "connected"} => output'[c] = Old
       /\ cpc'[c] = "receive" => output'[c] \in Seq(1..Size)
       /\ output'[c] = Old \/ output'[c] \in Seq(1..Size)
  BY <1>5, <1>6
<1>11. QED
  BY <1>1, <1>4, <1>5, <1>7, <1>8, <1>9, <1>10, ClientCopied

LEMMA ReceiveCopied ==
  ASSUME SocketOK, Transferred, SocketOK', NEW c \in Clients, Receive(c)
  PROVE  Transferred'
<1>1. /\ cpc[c] = "receive" /\ unseen' = unseen
      /\ position' = position /\ buf' = buf /\ reset' = reset
      /\ spc' = spc /\ connfd' = connfd /\ server_exit' = server_exit
  BY Zenon DEF Receive, TransferClient, serverSide
<1>2. /\ output[c] \in Seq(1..Size) /\ output \in [Clients -> Seq(0..Size)]
      /\ down \in [Clients -> Seq(1..Size)] /\ BUFSIZE \in Nat
  BY <1>1, SocketAssumption DEF Transferred, TransferTyped
<1>3. PICK part \in Parts(down[c]) :
        /\ down' = [down EXCEPT ![c] = After(@, part)]
        /\ \/ /\ output' = [output EXCEPT ![c] = @ \o part]
              /\ UNCHANGED <<clientSide, closed>>
           \/ ClientExits(c, "1") /\ output' = output
  BY DEF Receive
<1>4. PICK n \in 1..Len(down[c]) : part = SubSeq(down[c], 1, n)
  <2>1. Len(down[c]) \in Nat
    BY <1>2, LenProperties
  <2>2. QED
    BY <1>2, <2>1 DEF Parts
<1>5. /\ n \in 0..Len(down[c]) /\ part \in Seq(1..Size) /\ Len(part) = n
      /\ After(down[c], part) = SubSeq(down[c], n + 1, Len(down[c]))
      /\ After(down[c], part) \in Seq(1..Size)
  <2>1. n \in 0..Len(down[c]) /\ down[c] \in Seq(1..Size)
    BY <1>2, <1>4
  <2>2. part \in Seq(1..Size) /\ Len(part) = n
    BY <1>4, <2>1, PartOf
  <2>3. SubSeq(down[c], n + 1, Len(down[c])) \in Seq(1..Size)
    BY <2>1, RestOf
  <2>4. QED
    BY <2>1, <2>2, <2>3 DEF After
<1>6. output[c] \o part \in Seq(1..Size)
  BY <1>2, <1>5, ConcatProperties
<1>7. output[c] \o part \in Seq(0..Size)
  <2>1. 1..Size \subseteq 0..Size
    BY SizeAssumption
  <2>2. QED
    BY <1>6, <2>1, SeqMonotonic, Zenon
<1>8. Old' = Old /\ output[c] # Old /\ output[c] \o part # Old
  BY <1>2, <1>6, NotOld DEF Old
<1>9. \A d \in Clients \ {c} :
        /\ down'[d] = down[d] /\ closed'[d] = closed[d] /\ cpc'[d] = cpc[d] /\ exit'[d] = exit[d]
        /\ output'[d] = output[d]
  BY <1>2, <1>3 DEF ClientExits, SocketOK, clientSide
<1>10. /\ "server" \in closed'[c] <=> "server" \in closed[c]
       /\ cpc'[c] \in {"receive", "ended"} /\ (cpc'[c] # "ended" => exit'[c] = "none")
       /\ exit'[c] # "0" /\ output'[c] \in Seq(1..Size)
  <2>1. output'[c] \in Seq(1..Size)
    BY <1>2, <1>3, <1>6
  <2>2. exit[c] = "none"
    BY <1>1 DEF Transferred
  <2>3. QED
    BY <1>1, <1>3, <2>1, <2>2 DEF ClientExits, SocketOK, clientSide
<1>11. "short" \notin unseen => Copied(c)'
  <2>1. SUFFICES ASSUME "short" \notin unseen PROVE Copied(c)'
    OBVIOUS
  <2>2. Copied(c)
    BY <2>1 DEF Transferred
  <2>3. CASE ClientExits(c, "1") /\ output' = output
    <3>1. Stored(c)' = Stored(c) /\ cpc'[c] = "ended"
      BY <1>8, <2>3 DEF Stored, ClientExits, SocketOK
    <3>2. QED
      BY <2>2, <3>1, CopiedStill
  <2>4. CASE /\ output' = [output EXCEPT ![c] = @ \o part]
             /\ UNCHANGED <<clientSide, closed>>
    <3>1. PICK i \in 0..Size, j \in 0..Size :
            i <= j /\ Stored(c) = Segment(0, i) /\ down[c] = Segment(i, j) /\ Reaches(c, j)
      BY <1>1, <2>2 DEF Copied
    <3>2. i \in Nat /\ j \in Nat /\ i <= j /\ Size \in Nat /\ j <= Size
      BY <3>1, SizeAssumption
    <3>3. Len(down[c]) = j - i
      BY <3>1, <3>2, SegmentLen
    <3>4. n \in 0..j - i /\ i + n \in 0..Size /\ i + n <= j
      BY <1>5, <3>2, <3>3
    <3>5. part = Segment(i, i + n) /\ After(down[c], part) = Segment(i + n, j)
      <4>1. /\ SubSeq(Segment(i, j), 1, n) = Segment(i, i + n)
            /\ SubSeq(Segment(i, j), n + 1, j - i) = Segment(i + n, j)
        BY <3>2, <3>4, SegmentCut
      <4>2. QED
        BY <1>4, <1>5, <3>1, <3>3, <4>1, Zenon
    <3>6. output'[c] = Segment(0, i) \o Segment(i, i + n) /\ down'[c] = Segment(i + n, j)
      BY <1>2, <1>3, <1>8, <2>4, <3>1, <3>5 DEF Stored
    <3>7. Segment(0, i) \o Segment(i, i + n) = Segment(0, i + n)
      <4>1. 0 \in Nat /\ i + n \in Nat /\ 0 <= i /\ i <= i + n
        BY <3>2, <3>4
      <4>2. QED
        BY <3>2, <4>1, SegmentJoined
    <3>8. Stored(c)' = Segment(0, i + n)
      BY <1>8, <1>10, <3>6, <3>7, NotOld DEF Stored
    <3>9. Reaches(c, j)'
      BY <1>1, <1>10, <3>1 DEF Reaches, Early, Segment
    <3>10. \A a, b \in 0..Size : Segment(a, b)' = Segment(a, b)
      BY DEF Segment
    <3>11. Segment(0, i + n)' = Segment(0, i + n) /\ Segment(i + n, j)' = Segment(i + n, j)
      BY DEF Segment
    <3>12. i + n <= j /\ Stored(c)' = Segment(0, i + n)' /\ down'[c] = Segment(i + n, j)' /\ Reaches(c, j)'
      BY <3>4, <3>6, <3>8, <3>9, <3>11, Zenon
    <3>13. QED
      BY <3>1, <3>4, <3>12, Zenon DEF Copied
  <2>5. QED
    BY <1>3, <2>3, <2>4
<1>12. Whole(c)'
  BY <1>10 DEF Whole
<1>13. /\ down' \in [Clients -> Seq(1..Size)] /\ output' \in [Clients -> Seq(0..Size)]
       /\ unseen' \subseteq {"fread", "short", "flush"}
       /\ closed' \in [Clients -> SUBSET {"client", "server"}]
       /\ cpc' \in [Clients -> {"start", "connected", "receive", "ended"}]
  <2>1. output' \in [Clients -> Seq(0..Size)] /\ down' \in [Clients -> Seq(1..Size)]
    BY <1>2, <1>3, <1>5, <1>7
  <2>2. QED
    BY <1>1, <2>1 DEF Transferred, TransferTyped, SocketOK
<1>14. QED
  BY <1>1, <1>9, <1>10, <1>11, <1>12, <1>13, ClientCopied

LEMMA ReceivedCopied ==
  ASSUME SocketOK, Transferred, SocketOK', NEW c \in Clients, Received(c)
  PROVE  Transferred'
<1>1. /\ cpc[c] = "receive" /\ down' = down
      /\ position' = position /\ buf' = buf /\ reset' = reset
      /\ spc' = spc /\ connfd' = connfd /\ server_exit' = server_exit
  BY Zenon DEF Received, TransferClient, serverSide
<1>2. ClientExits(c, "0") /\ (AtEof(c) \/ AtError(c))
  BY DEF Received
<1>3. \/ output' = output /\ unseen' = unseen
      \/ /\ output[c] # <<>> /\ output' = [output EXCEPT ![c] = Front(@)]
         /\ unseen' = unseen \cup {"flush"}
  BY DEF Received
<1>4. /\ output[c] \in Seq(1..Size) /\ output \in [Clients -> Seq(0..Size)]
  BY <1>1 DEF Transferred, TransferTyped
<1>5. /\ Front(output[c]) = SubSeq(output[c], 1, Len(output[c]) - 1) /\ Len(output[c]) \in Nat
      /\ output[c] # <<>> => Len(output[c]) - 1 \in 0..Len(output[c])
  BY <1>4, LenProperties, EmptySeq DEF Front
<1>6. output[c] # <<>> => Front(output[c]) \in Seq(1..Size)
  BY <1>4, <1>5, PartOf
<1>7. output'[c] \in Seq(1..Size) /\ Old' = Old
  BY <1>3, <1>4, <1>6 DEF Old
<1>8. output' \in [Clients -> Seq(0..Size)]
  <2>1. 1..Size \subseteq 0..Size
    BY SizeAssumption
  <2>2. output'[c] \in Seq(0..Size)
    BY <1>7, <2>1, SeqMonotonic, Zenon
  <2>3. QED
    BY <1>3, <1>4, <2>2
<1>9. \A d \in Clients \ {c} :
        /\ closed'[d] = closed[d] /\ cpc'[d] = cpc[d] /\ exit'[d] = exit[d] /\ output'[d] = output[d]
  <2>1. \A d \in Clients \ {c} : output'[d] = output[d]
    BY <1>3, <1>4
  <2>2. QED
    BY <1>2, <2>1 DEF ClientExits, SocketOK
<1>10. "server" \in closed'[c] <=> "server" \in closed[c]
  BY <1>2 DEF ClientExits, SocketOK
<1>11. cpc'[c] = "ended" /\ exit'[c] = "0"
  BY <1>2 DEF ClientExits, SocketOK
<1>12. ASSUME "short" \notin unseen
       PROVE  \E i, j \in 0..Size :
                /\ i <= j /\ output[c] = Segment(0, i) /\ down[c] = Segment(i, j) /\ Reaches(c, j)
  <2>1. Copied(c) /\ Stored(c) = output[c]
    BY <1>4, <1>12, NotOld DEF Transferred, Stored
  <2>2. QED
    BY <1>1, <2>1 DEF Copied
<1>13. ASSUME "short" \notin unseen PROVE Copied(c)'
  <2>1. PICK i \in 0..Size, j \in 0..Size :
          i <= j /\ output[c] = Segment(0, i) /\ down[c] = Segment(i, j) /\ Reaches(c, j)
    BY <1>12, <1>13
  <2>2. i \in Nat /\ i <= i
    BY <2>1, SizeAssumption
  <2>3. PICK h \in 0..Size : output'[c] = Segment(0, h)
    <3>1. CASE output' = output
      BY <2>1, <3>1
    <3>2. CASE output[c] # <<>> /\ output' = [output EXCEPT ![c] = Front(@)]
      <4>1. Len(output[c]) = i
        BY <2>1, <2>2, SegmentLen
      <4>2. i - 1 \in 0..i - 0 /\ i - 1 \in 0..Size /\ 0 \in Nat /\ 0 <= i
        <5>1. Len(output[c]) - 1 \in 0..Len(output[c])
          BY <1>5, <3>2
        <5>2. i - 1 \in 0..i
          BY <4>1, <5>1
        <5>3. QED
          BY <2>1, <2>2, <5>2, SizeAssumption
      <4>3. SubSeq(Segment(0, i), 1, i - 1) = Segment(0, 0 + (i - 1))
        BY <2>2, <4>2, SegmentCut
      <4>4. output'[c] = Segment(0, i - 1)
        <5>1. output'[c] = SubSeq(output[c], 1, Len(output[c]) - 1)
          BY <1>4, <1>5, <3>2
        <5>2. 0 + (i - 1) = i - 1
          BY <2>2
        <5>3. QED
          BY <2>1, <4>1, <4>3, <5>1, <5>2
      <4>5. QED
        BY <4>2, <4>4
    <3>3. QED
      BY <1>3, <3>1, <3>2
  <2>4. Stored(c)' = Segment(0, h)
    BY <1>7, <2>3, NotOld DEF Stored
  <2>5. Segment(0, h)' = Segment(0, h)
    BY DEF Segment
  <2>6. h <= h /\ h \in 0..Size
    BY <2>3, SizeAssumption
  <2>7. h <= h /\ Stored(c)' = Segment(0, h)' /\ (cpc'[c] # "ended" => down'[c] = Segment(h, h)' /\ Reaches(c, h)')
    BY <1>11, <2>4, <2>5, <2>6
  <2>8. QED
    BY <2>6, <2>7, Zenon DEF Copied
<1>14. Whole(c)'
  <2>1. SUFFICES ASSUME ~reset[c], unseen' = {}
                 PROVE  server_exit # "none" /\ (server_exit = "0" => output'[c] = File)
    BY <1>1 DEF Whole, File
  <2>2. unseen = {} /\ output' = output /\ down[c] = <<>> /\ "server" \in closed[c]
    BY <1>2, <1>3, <2>1 DEF AtEof, AtError
  <2>3. server_exit # "none"
    BY <2>2 DEF Transferred, TransferTyped, SocketOK
  <2>4. ASSUME server_exit = "0" PROVE output[c] = File
    <3>1. PICK i \in 0..Size, j \in 0..Size :
            i <= j /\ output[c] = Segment(0, i) /\ down[c] = Segment(i, j) /\ Reaches(c, j)
      BY <1>12, <2>2
    <3>2. j = Size
      BY <2>1, <2>2, <2>4, <3>1 DEF Reaches
    <3>3. i \in Nat /\ j \in Nat /\ i <= j
      BY <3>1, SizeAssumption
    <3>4. Len(Segment(i, j)) = j - i /\ Len(<<>>) = 0
      BY <3>3, SegmentLen
    <3>5. i = Size
      BY <2>2, <3>1, <3>2, <3>3, <3>4
    <3>6. QED
      BY <3>1, <3>5, FileIsSegment
  <2>5. QED
    BY <2>2, <2>3, <2>4
<1>15. /\ unseen \subseteq unseen' /\ unseen' \subseteq {"fread", "short", "flush"}
       /\ ("fread" \in unseen' => "fread" \in unseen) /\ ("short" \in unseen' => "short" \in unseen)
  BY <1>3 DEF Transferred, TransferTyped
<1>16. /\ down' \in [Clients -> Seq(1..Size)] /\ closed' \in [Clients -> SUBSET {"client", "server"}]
       /\ cpc' \in [Clients -> {"start", "connected", "receive", "ended"}]
  BY <1>1 DEF Transferred, TransferTyped, SocketOK
<1>17. QED
  BY <1>1, <1>7, <1>8, <1>9, <1>10, <1>11, <1>13, <1>14, <1>15, <1>16, ClientCopied

LEMMA BrokenCopied ==
  ASSUME SocketOK, Transferred, SocketOK', NEW c \in Clients, Break(c),
         position' = position, buf' = buf, output' = output, unseen' = unseen
  PROVE  Transferred'
<1>1. PICK n \in 0..Len(down[c]) : down' = [down EXCEPT ![c] = SubSeq(@, 1, n)]
  BY DEF Break
<1>2. /\ cpc' = cpc /\ exit' = exit /\ closed' = closed /\ reset' = [reset EXCEPT ![c] = TRUE]
      /\ spc' = spc /\ connfd' = connfd /\ server_exit' = server_exit
      /\ "server" \notin closed[c] /\ cpc[c] # "ended"
  BY Zenon DEF Break, clientSide, serverSide
<1>3. down \in [Clients -> Seq(1..Size)] /\ Old' = Old
  BY DEF Transferred, TransferTyped, Old
<1>4. SubSeq(down[c], 1, n) \in Seq(1..Size)
  BY <1>1, <1>3, PartOf
<1>5. down' \in [Clients -> Seq(1..Size)]
  BY <1>1, <1>3, <1>4
<1>6. TransferTyped'
  BY <1>2, <1>3, <1>5 DEF Transferred, TransferTyped, Early
<1>7. reset'[c] /\ \A d \in Clients \ {c} : reset'[d] = reset[d]
  BY <1>2 DEF SocketOK
<1>8. ASSUME "short" \notin unseen', NEW d \in Clients PROVE Copied(d)'
  <2>1. Copied(d) /\ Stored(d)' = Stored(d)
    BY <1>3, <1>8 DEF Transferred, Stored
  <2>2. CASE d # c
    <3>1. down'[d] = down[d] /\ cpc'[d] = cpc[d]
      BY <1>1, <1>2, <1>3, <2>2
    <3>2. \A j \in 0..Size : Reaches(d, j) => Reaches(d, j)'
      BY <1>2, <1>7, <2>2 DEF Reaches, Early, Segment
    <3>3. QED
      BY <2>1, <3>1, <3>2, CopiedStill
  <2>3. CASE d = c
    <3>1. PICK i \in 0..Size, j \in 0..Size :
            i <= j /\ Stored(c) = Segment(0, i) /\ down[c] = Segment(i, j) /\ Reaches(c, j)
      BY <1>2, <2>1, <2>3 DEF Copied
    <3>2. i \in Nat /\ j \in Nat /\ i <= j /\ Size \in Nat /\ j <= Size
      BY <3>1, SizeAssumption
    <3>3. Len(down[c]) = j - i
      BY <3>1, <3>2, SegmentLen
    <3>4. n \in 0..j - i /\ i + n \in 0..Size /\ i <= i + n /\ (j = 0 => i + n = 0)
      BY <1>1, <3>2, <3>3
    <3>5. SubSeq(Segment(i, j), 1, n) = Segment(i, i + n)
      BY <3>2, <3>4, SegmentCut
    <3>6. down'[c] = Segment(i, i + n)
      BY <1>1, <1>3, <3>1, <3>5
    <3>7. Reaches(c, i + n)'
      BY <1>2, <1>7, <3>1, <3>4 DEF Reaches, Early
    <3>8. Segment(0, i)' = Segment(0, i) /\ Segment(i, i + n)' = Segment(i, i + n)
      BY DEF Segment
    <3>9. i <= i + n /\ Stored(c)' = Segment(0, i)' /\ down'[c] = Segment(i, i + n)' /\ Reaches(c, i + n)'
      BY <2>1, <2>3, <3>1, <3>4, <3>6, <3>7, <3>8, Zenon
    <3>10. QED
      BY <2>3, <3>1, <3>4, <3>9, Zenon DEF Copied
  <2>4. QED
    BY <2>2, <2>3
<1>9. \A d \in Clients : Whole(d)'
  BY <1>2, <1>3, <1>7 DEF Transferred, Whole, File, SocketOK
<1>10. \A d \in Clients : cpc'[d] # "ended" => exit'[d] = "none"
  BY <1>2 DEF Transferred
<1>11. QED
  BY <1>6, <1>8, <1>9, <1>10 DEF Transferred

LEMMA KilledCopied ==
  ASSUME SocketOK, Transferred, SocketOK', NEW c \in Clients, Kill(c),
         position' = position, buf' = buf, output' = output, unseen' = unseen
  PROVE  Transferred'
<1>1. /\ down' = down /\ reset' = reset
      /\ spc' = spc /\ connfd' = connfd /\ server_exit' = server_exit
      /\ ClientExits(c, "killed")
  BY Zenon DEF Kill, serverSide
<1>2. /\ \A d \in Clients \ {c} : closed'[d] = closed[d] /\ cpc'[d] = cpc[d] /\ exit'[d] = exit[d]
      /\ "server" \in closed'[c] <=> "server" \in closed[c]
      /\ cpc'[c] = "ended" /\ exit'[c] = "killed"
  BY <1>1 DEF ClientExits, SocketOK
<1>3. output[c] = Old \/ output[c] \in Seq(1..Size)
  BY DEF Transferred, TransferTyped
<1>4. "short" \notin unseen => Copied(c)'
  BY <1>2, CopiedStill DEF Transferred, Stored, Old
<1>5. Whole(c)'
  BY <1>2 DEF Whole
<1>6. /\ down' \in [Clients -> Seq(1..Size)] /\ output' \in [Clients -> Seq(0..Size)]
      /\ unseen' \subseteq {"fread", "short", "flush"}
      /\ closed' \in [Clients -> SUBSET {"client", "server"}]
      /\ cpc' \in [Clients -> {"start", "connected", "receive", "ended"}]
  BY <1>1 DEF Transferred, TransferTyped, SocketOK
<1>7. QED
  BY <1>1, <1>2, <1>3, <1>4, <1>5, <1>6, ClientCopied

LEMMA StartCopied ==
  ASSUME SocketOK, Transferred, StartTransferServer \/ AcceptTransfer
  PROVE  Transferred'
<1>1. /\ down' = down /\ output' = output /\ cpc' = cpc /\ exit' = exit /\ unseen' = unseen
      /\ position' = position /\ buf' = buf /\ spc \in Early
  BY DEF StartTransferServer, AcceptTransfer, Listen, Accept, Resolve, transferVars, clientSide,
     Early
<1>2. \/ spc' \in Early /\ closed' = closed /\ reset' = reset /\ server_exit' = server_exit
      \/ \E status \in {"0", "1"} : ServerExits(status) /\ (status = "0" => spc = "start")
  BY DEF StartTransferServer, AcceptTransfer, Listen, Accept, Resolve, Early
<1>3. spc # "ended"
  BY <1>1 DEF Early
<1>4. QED
  BY <1>1, <1>2, <1>3, EarlyCopied, ServerLeaves

LEMMA TransferKept ==
  ASSUME SocketOK, SocketOK', TransferOK, Next
  PROVE  TransferOK'
<1> SUFFICES ASSUME program' = "transfer" PROVE Transferred'
  BY DEF TransferOK
<1>1. program = "transfer"
  BY DEF Next, ServerStep, ClientStep, BreakStep, TransferServerStep, StartTransferServer,
     AcceptTransfer,
     OpenFile, ReadFile, WriteFile, TransferServer, Listen, Accept, Resolve, EchoServerStep,
     StartEchoServer, AcceptEcho, ReadMessage, WriteReply, EchoServer, TransferClientStep, EchoClientStep,
     ConnectTransfer, ConnectEcho, Connect, OpenOutput, Receive, Received, TransferClient, SendMessage,
     ReceiveReply, EchoClient, TransferBreak, EchoBreak, Break, Kill
<1>2. Transferred
  BY <1>1 DEF TransferOK
<1>3. TransferServerStep \/ \E c \in Clients : TransferClientStep(c) \/ TransferBreak(c)
  BY <1>1, Zenon DEF Next, ServerStep, ClientStep, BreakStep, EchoServerStep, EchoClientStep,
     EchoBreak,
     StartEchoServer, AcceptEcho, ReadMessage, WriteReply, EchoServer, ConnectEcho, SendMessage,
     ReceiveReply, EchoClient
<1>4. TransferServerStep => Transferred'
  BY <1>2, StartCopied, OpenCopied, ReadCopied, WriteCopied DEF TransferServerStep
<1>5. \A c \in Clients : TransferClientStep(c) => Transferred'
  BY <1>2, ConnectCopied, OpenedCopied, ReceiveCopied, ReceivedCopied DEF TransferClientStep
<1>6. \A c \in Clients : TransferBreak(c) => Transferred'
  BY <1>2, BrokenCopied, KilledCopied DEF TransferBreak, transferVars
<1>7. QED
  BY <1>3, <1>4, <1>5, <1>6

-----------------------------------------------------------------------------
(* The echo.                                                               *)
LEMMA LeastOf ==
  ASSUME NEW S, S \subseteq Nat, S # {}
  PROVE  \E m \in S : \A k \in S : m <= k
<1> DEFINE less == OpToRel(<, Nat)
<1>1. \E m \in S : \A k \in S : <<k, m>> \notin less
  BY NatLessThanWellFounded, WFMin
<1>2. ASSUME NEW k \in S, NEW m \in S, k < m PROVE <<k, m>> \in less
  BY <1>2, Zenon DEF OpToRel
<1>3. \A k \in S, m \in S : (k < m) => <<k, m>> \in less
  BY <1>2
<1> HIDE DEF less
<1>4. PICK m \in S : \A k \in S : <<k, m>> \notin less
  BY <1>1
<1>5. \A k \in S : ~(k < m)
  BY <1>3, <1>4
<1>6. QED
  BY <1>5

(* The buffer and what follows it hold a zero, so strlen() finds one.      *)
LEMMA ReachIs == Reach \in Nat /\ BUFSIZE \in Nat /\ BUFSIZE <= Reach
BY SocketAssumption, EchoAssumption

LEMMA StrlenIs == ASSUME EchoTyped PROVE strlen \in 0..Reach
<1> DEFINE S == {n \in 0..Reach : message[n + 1] = Zero}
<1>1. Reach \in Nat
  BY ReachIs
<1>2. S \subseteq Nat /\ Reach \in S
  BY <1>1 DEF EchoTyped
<1>3. PICK m \in S : \A k \in S : m <= k
  BY <1>2, LeastOf, Zenon
<1>4. \A k \in 1..m : message[k] # Zero
  <2>1. SUFFICES ASSUME NEW k \in 1..m, message[k] = Zero PROVE FALSE
    OBVIOUS
  <2>2. k - 1 \in 0..Reach /\ (k - 1) + 1 = k
    BY <1>1, <1>3
  <2>3. k - 1 \in S
    BY <2>1, <2>2
  <2>4. QED
    BY <1>1, <1>3, <2>3
<1>5. \E n \in 0..Reach : message[n + 1] = Zero /\ \A k \in 1..n : message[k] # Zero
  BY <1>3, <1>4
<1>6. QED
  BY <1>5, Zenon DEF strlen

LEMMA ReplyIs ==
  ASSUME EchoTyped
  PROVE  Reply \in Seq(Bytes) /\ Len(Reply) \in 0..Reach /\ \A k \in 1..Len(Reply) : Reply[k] = message[k]
<1>1. Reach \in Nat /\ strlen \in 0..Reach
  BY ReachIs, StrlenIs
<1>2. message \in Seq(Bytes) /\ Len(message) = Reach + 1
  <2>1. message \in [1..Reach + 1 -> Bytes] /\ Reach + 1 \in Nat
    BY <1>1 DEF EchoTyped
  <2>2. message \in Seq(Bytes)
    BY <2>1, SeqDef
  <2>3. DOMAIN message = 1..Reach + 1 /\ DOMAIN message = 1..Len(message) /\ Len(message) \in Nat
    BY <2>1, <2>2, LenProperties
  <2>4. \A a, b \in Nat : 1..a = 1..b => a = b
    OBVIOUS
  <2>5. QED
    BY <2>1, <2>2, <2>3, <2>4, Zenon
<1>3. strlen \in 0..Len(message)
  BY <1>1, <1>2
<1>4. /\ SubSeq(message, 1, strlen) \in Seq(Bytes) /\ Len(SubSeq(message, 1, strlen)) = strlen
      /\ \A k \in 1..strlen : SubSeq(message, 1, strlen)[k] = message[k]
  BY <1>2, <1>3, PartOf
<1>5. QED
  BY <1>1, <1>4 DEF Reply

(* The server ends, and what it has not served is as fresh as before.      *)
LEMMA EchoServerLeaves ==
  ASSUME SocketOK, Queued, Echoed, NEW status, ServerExits(status),
         message' = message, bytesRead' = bytesRead, printed' = printed,
         up' = up, down' = down, cpc' = cpc
  PROVE  Echoed'
<1>1. /\ spc' = "ended" /\ backlog' = <<>> /\ connfd' = NoClient /\ NoClient \notin Clients
      /\ closed' = [c \in Clients |-> IF c = connfd THEN closed[c] \cup {"server"} ELSE closed[c]]
  BY SocketAssumption DEF ServerExits
<1>2. EchoTyped' /\ Buffered'
  BY <1>1 DEF Echoed, EchoTyped, Buffered, Bytes
<1>3. ToSet(backlog') = {}
  BY <1>1 DEF ToSet
<1>4. ASSUME NEW c \in Clients PROVE Fresh(c)' /\ Sent(c)' /\ Printed(c)'
  <2>1. (Unanswered(c)' \/ Unread(c)') => cpc[c] = "start" /\ Unread(c) /\ Unanswered(c) /\ c # connfd
    BY <1>1, <1>3 DEF Unanswered, Unread, Queued
  <2>2. Fresh(c)'
    BY <1>1, <2>1 DEF Fresh, Echoed
  <2>3. Sent(c)' /\ Printed(c)'
    BY DEF Sent, Printed, Echoed
  <2>4. QED
    BY <2>2, <2>3
<1>5. QED
  BY <1>2, <1>4 DEF Echoed

LEMMA EchoServerStarts ==
  ASSUME SocketOK, Queued, Echoed, StartEchoServer \/ AcceptEcho
  PROVE  Echoed'
<1>1. /\ message' = message /\ bytesRead' = bytesRead /\ printed' = printed
      /\ up' = up /\ down' = down /\ cpc' = cpc /\ spc \in {"start", "accept", "resolve"}
  BY DEF StartEchoServer, AcceptEcho, Listen, Accept, Resolve, echoVars, clientSide
<1>2. CASE \E status \in {"0", "1"} : ServerExits(status)
  BY <1>1, <1>2, EchoServerLeaves
<1>3. CASE /\ closed' = closed /\ spc' \in {"accept", "resolve", "serve"}
           /\ \A c \in Clients : (Unanswered(c)' => Unanswered(c)) /\ (Unread(c)' => Unread(c))
  <2>1. EchoTyped' /\ Buffered'
    BY <1>1, <1>3 DEF Echoed, EchoTyped, Buffered, Bytes
  <2>2. ASSUME NEW c \in Clients PROVE Fresh(c)' /\ Sent(c)' /\ Printed(c)'
    BY <1>1, <1>3 DEF Fresh, Sent, Printed, Echoed
  <2>3. QED
    BY <2>1, <2>2 DEF Echoed
<1>4. CASE Listen /\ spc' = "accept" /\ UNCHANGED <<backlog, connfd, server_exit, closed, reset>>
  BY <1>1, <1>3, <1>4 DEF Unanswered, Unread
<1>5. CASE /\ spc' = "resolve" /\ connfd' = Head(backlog) /\ backlog' = Tail(backlog) /\ backlog # <<>>
           /\ UNCHANGED <<listening, server_exit, closed, reset>>
  <2>1. /\ Len(backlog) \in Nat /\ Len(Tail(backlog)) = Len(backlog) - 1
        /\ DOMAIN backlog = 1..Len(backlog) /\ DOMAIN Tail(backlog) = 1..Len(Tail(backlog))
        /\ \A k \in 1..Len(backlog) - 1 : Tail(backlog)[k] = backlog[k + 1]
        /\ Head(backlog) = backlog[1] /\ 1 \in 1..Len(backlog)
    BY <1>5, HeadTailProperties, LenProperties, EmptySeq DEF SocketOK
  <2>2. Head(backlog) \in ToSet(backlog)
    BY <2>1 DEF ToSet
  <2>3. ASSUME NEW c \in ToSet(Tail(backlog)) PROVE c \in ToSet(backlog)
    <3>1. PICK k \in 1..Len(backlog) - 1 : c = Tail(backlog)[k]
      BY <2>1, <2>3 DEF ToSet
    <3>2. k + 1 \in DOMAIN backlog /\ c = backlog[k + 1]
      BY <2>1, <3>1
    <3>3. QED
      BY <3>2 DEF ToSet
  <2>4. \A c \in Clients : (Unanswered(c)' => Unanswered(c)) /\ (Unread(c)' => Unread(c))
    BY <1>1, <1>5, <2>2, <2>3 DEF Unanswered, Unread
  <2>5. QED
    BY <1>3, <1>5, <2>4
<1>6. CASE Resolve /\ spc' = "serve" /\ UNCHANGED <<listening, backlog, connfd, server_exit, closed, reset>>
  BY <1>1, <1>3, <1>6 DEF Unanswered, Unread, Resolve
<1>7. QED
  BY <1>2, <1>4, <1>5, <1>6 DEF StartEchoServer, AcceptEcho, Listen, Accept, Resolve

(* A read() gives a part of what has come, which fits the buffer.          *)
IsPart(part, bytes, S) ==
  /\ part \in Seq(S) /\ Len(part) \in 0..BUFSIZE /\ Len(part) \in 0..Len(bytes)
  /\ \A k \in 1..Len(part) : part[k] = bytes[k]
  /\ After(bytes, part) \in Seq(S) /\ Len(After(bytes, part)) = Len(bytes) - Len(part)
  /\ \A k \in 1..Len(bytes) - Len(part) : After(bytes, part)[k] = bytes[Len(part) + k]
  /\ bytes # <<>>

LEMMA PartsAre ==
  ASSUME NEW S, NEW bytes \in Seq(S), NEW part \in Parts(bytes)
  PROVE  IsPart(part, bytes, S)
<1>1. Len(bytes) \in Nat /\ BUFSIZE \in Nat
  BY LenProperties, SocketAssumption
<1>2. PICK n \in 1..(IF Len(bytes) < BUFSIZE THEN Len(bytes) ELSE BUFSIZE) : part = SubSeq(bytes, 1, n)
  BY DEF Parts
<1>3. n \in 0..Len(bytes) /\ n \in 0..BUFSIZE /\ n \in 1..Len(bytes)
  BY <1>1, <1>2
<1>4. part \in Seq(S) /\ Len(part) = n /\ \A k \in 1..n : part[k] = bytes[k]
  BY <1>2, <1>3, PartOf
<1>5. /\ SubSeq(bytes, n + 1, Len(bytes)) \in Seq(S) /\ Len(SubSeq(bytes, n + 1, Len(bytes))) = Len(bytes) - n
      /\ \A k \in 1..Len(bytes) - n : SubSeq(bytes, n + 1, Len(bytes))[k] = bytes[n + k]
  BY <1>3, RestOf
<1>6. bytes # <<>>
  BY <1>3
<1>7. QED
  BY <1>3, <1>4, <1>5, <1>6 DEF After, IsPart

LEMMA ReadMessageEchoed ==
  ASSUME SocketOK, Queued, Echoed, ReadMessage
  PROVE  Echoed'
<1>1. /\ spc = "serve" /\ down' = down /\ printed' = printed /\ cpc' = cpc
  BY Zenon DEF ReadMessage, EchoServer, clientSide
<1>2. /\ connfd \in Clients /\ Unread(connfd) /\ Unanswered(connfd) /\ BUFSIZE \in Nat /\ Reach \in Nat /\ BUFSIZE <= Reach
  BY <1>1, ReachIs DEF SocketOK, Unread, Unanswered
<1>3. bytesRead[connfd] = 0 /\ down[connfd] = <<>> /\ printed[connfd] = <<>> /\ "server" \notin closed[connfd]
  BY <1>2 DEF Echoed, Fresh
<1>4. CASE ServerExits("1") /\ UNCHANGED <<up, message, bytesRead>>
  BY <1>1, <1>4, EchoServerLeaves
<1>5. ASSUME spc' = "write", UNCHANGED <<listening, backlog, connfd, server_exit, closed, reset>>,
             NEW n \in 0..BUFSIZE, bytesRead' = [bytesRead EXCEPT ![connfd] = n]
      PROVE  \A c \in Clients : Fresh(c)' /\ Sent(c)' /\ Printed(c)'
  <2>1. SUFFICES ASSUME NEW c \in Clients PROVE Fresh(c)' /\ Sent(c)' /\ Printed(c)'
    OBVIOUS
  <2>2. /\ bytesRead \in [Clients -> 0..BUFSIZE] /\ bytesRead'[connfd] = n
        /\ \A d \in Clients : bytesRead[d] \in Nat /\ bytesRead'[d] \in Nat /\ bytesRead[d] <= bytesRead'[d]
        /\ \A d \in Clients \ {connfd} : bytesRead'[d] = bytesRead[d]
    BY <1>2, <1>3, <1>5 DEF Echoed, EchoTyped
  <2>3. Unanswered(c)' => Unanswered(c)
    BY <1>1, <1>2, <1>5 DEF Unread, Unanswered
  <2>4. Unread(c)' => Unread(c) /\ c # connfd
    <3>1. connfd \notin ToSet(backlog)
      <4>1. DOMAIN backlog = 1..Len(backlog)
        BY LenProperties DEF SocketOK
      <4>2. QED
        BY <4>1 DEF Queued, ToSet
    <3>2. QED
      BY <1>1, <1>2, <1>5, <3>1 DEF Unread, Queued
  <2>5. Fresh(c)'
    BY <1>1, <1>5, <2>2, <2>3, <2>4 DEF Fresh, Echoed
  <2>6. CASE c = connfd
    <3>1. Len(down[c]) = 0 /\ Len(printed[c]) = 0
      BY <1>3, <2>6
    <3>2. Sent(c)' /\ Printed(c)'
      BY <1>1, <3>1 DEF Sent, Printed
    <3>3. QED
      BY <2>5, <3>2
  <2>7. CASE c # connfd
    <3>1. bytesRead'[c] = bytesRead[c]
      BY <2>2, <2>7
    <3>2. Sent(c)'
      <4>1. Sent(c) /\ down'[c] = down[c] /\ cpc'[c] = cpc[c]
        BY <1>1 DEF Echoed
      <4>2. ASSUME cpc[c] # "ended", NEW k \in 1..Len(down[c])
            PROVE  /\ k <= bytesRead'[c] => down[c][k] = c
                   /\ down[c][k] \in Clients => k <= bytesRead'[down[c][k]]
        <5>1. /\ k <= bytesRead[c] => down[c][k] = c
              /\ down[c][k] \in Clients => k <= bytesRead[down[c][k]]
          BY <4>1, <4>2 DEF Sent
        <5>2. \A d \in Clients : k <= bytesRead[d] => k <= bytesRead'[d]
          BY <2>2
        <5>3. QED
          BY <3>1, <5>1, <5>2
      <4>3. QED
        BY <4>1, <4>2 DEF Sent
    <3>3. Printed(c)'
      <4>1. Printed(c) /\ printed'[c] = printed[c]
        BY <1>1 DEF Echoed
      <4>2. ASSUME NEW k \in 1..Len(printed[c])
            PROVE  /\ printed[c][k] = c => k <= bytesRead'[c]
                   /\ printed[c][k] \in Clients \ {c} => bytesRead'[c] < k /\ k <= bytesRead'[printed[c][k]]
                   /\ k > 1 /\ printed[c][k] = c => printed[c][k - 1] = c
        <5>1. /\ printed[c][k] = c => k <= bytesRead[c]
              /\ printed[c][k] \in Clients \ {c} => bytesRead[c] < k /\ k <= bytesRead[printed[c][k]]
              /\ k > 1 /\ printed[c][k] = c => printed[c][k - 1] = c
          BY <4>1, <4>2 DEF Printed
        <5>2. \A d \in Clients : k <= bytesRead[d] => k <= bytesRead'[d]
          BY <2>2
        <5>3. QED
          BY <3>1, <5>1, <5>2
      <4>3. QED
        BY <4>1, <4>2 DEF Printed
    <3>4. QED
      BY <2>5, <3>2, <3>3
  <2>8. QED
    BY <2>6, <2>7
<1>6. CASE /\ \E part \in Parts(up[connfd]) :
                /\ up' = [up EXCEPT ![connfd] = After(@, part)]
                /\ message' = Overwritten(part)
                /\ bytesRead' = [bytesRead EXCEPT ![connfd] = Len(part)]
           /\ spc' = "write"
           /\ UNCHANGED <<listening, backlog, connfd, server_exit, closed, reset>>
  <2>1. PICK part \in Parts(up[connfd]) :
          /\ up' = [up EXCEPT ![connfd] = After(@, part)]
          /\ message' = Overwritten(part)
          /\ bytesRead' = [bytesRead EXCEPT ![connfd] = Len(part)]
    BY <1>6
  <2>2. /\ up \in [Clients -> Seq(Clients)] /\ message \in [1..Reach + 1 -> Bytes]
        /\ bytesRead \in [Clients -> 0..BUFSIZE] /\ message[Reach + 1] = Zero
        /\ \A c \in Clients : \A k \in 1..Len(up[c]) : up[c][k] = c
    BY DEF Echoed, EchoTyped
  <2>3. up[connfd] \in Seq(Clients)
    BY <1>2, <2>2
  <2>4. /\ part \in Seq(Clients) /\ Len(part) \in 0..BUFSIZE /\ Len(part) \in 0..Len(up[connfd])
        /\ \A k \in 1..Len(part) : part[k] = up[connfd][k]
        /\ After(up[connfd], part) \in Seq(Clients)
        /\ Len(After(up[connfd], part)) = Len(up[connfd]) - Len(part)
        /\ \A k \in 1..Len(up[connfd]) - Len(part) : After(up[connfd], part)[k] = up[connfd][Len(part) + k]
    <3>1. IsPart(part, up[connfd], Clients)
      BY <2>1, <2>3, PartsAre
    <3>2. QED
      BY <3>1, Zenon DEF IsPart
  <2>5. \A k \in 1..Len(part) : part[k] = connfd
    <3>1. \A k \in 1..Len(part) : k \in 1..Len(up[connfd])
      BY <2>3, <2>4, LenProperties
    <3>2. QED
      BY <1>2, <2>2, <2>4, <3>1
  <2>6. \A k \in 1..Len(After(up[connfd], part)) : After(up[connfd], part)[k] = connfd
    <3>1. \A k \in 1..Len(up[connfd]) - Len(part) : Len(part) + k \in 1..Len(up[connfd])
      BY <2>3, <2>4, LenProperties
    <3>2. QED
      BY <1>2, <2>2, <2>4, <3>1
  <2>7. message' = [k \in 1..Reach + 1 |-> IF k <= Len(part) THEN connfd ELSE message[k]]
    <3>1. DOMAIN message = 1..Reach + 1 /\ Len(part) \in Nat
      BY <2>2, <2>4
    <3>2. \A k \in 1..Reach + 1 : k <= Len(part) => part[k] = connfd
      BY <2>5, <3>1
    <3>3. QED
      BY <2>1, <3>1, <3>2 DEF Overwritten
  <2>8. EchoTyped'
    <3>1. message' \in [1..Reach + 1 -> Bytes] /\ message'[Reach + 1] = Zero
      <4>1. Len(part) <= BUFSIZE /\ Reach + 1 \in 1..Reach + 1 /\ ~(Reach + 1 <= Len(part))
        BY <1>2, <2>4
      <4>2. QED
        BY <1>2, <2>2, <2>7, <4>1 DEF Bytes
    <3>2. bytesRead' \in [Clients -> 0..BUFSIZE]
      BY <2>1, <2>2, <2>4
    <3>3. /\ up' \in [Clients -> Seq(Clients)]
          /\ \A c \in Clients : \A k \in 1..Len(up'[c]) : up'[c][k] = c
      BY <1>2, <2>1, <2>2, <2>4, <2>6
    <3>4. QED
      BY <1>1, <1>6, <3>1, <3>2, <3>3 DEF EchoTyped, Echoed, Bytes
  <2>9. Buffered'
    <3>1. bytesRead'[connfd] = Len(part) /\ \A d \in Clients \ {connfd} : bytesRead'[d] = bytesRead[d]
      BY <1>2, <2>1, <2>2
    <3>2. ASSUME NEW k \in 1..Reach + 1, message'[k] \in Clients PROVE k <= bytesRead'[message'[k]]
      <4>1. CASE k <= Len(part)
        BY <2>7, <3>1, <3>2, <4>1
      <4>2. CASE ~(k <= Len(part))
        <5>1. message'[k] = message[k] /\ k <= bytesRead[message[k]]
          BY <2>7, <3>2, <4>2 DEF Echoed, Buffered
        <5>2. message[k] # connfd
          BY <1>3, <3>2, <5>1
        <5>3. QED
          BY <3>1, <3>2, <5>1, <5>2
      <4>3. QED
        BY <4>1, <4>2
    <3>3. \A k \in 1..bytesRead'[connfd] : message'[k] = connfd
      <4>1. \A k \in 1..Len(part) : k \in 1..Reach + 1 /\ k <= Len(part)
        BY <1>2, <2>4
      <4>2. QED
        BY <2>7, <3>1, <4>1
    <3>4. QED
      BY <1>6, <3>2, <3>3 DEF Buffered
  <2>10. \A c \in Clients : Fresh(c)' /\ Sent(c)' /\ Printed(c)'
    BY <1>5, <1>6, <2>1, <2>4
  <2>11. QED
    BY <2>8, <2>9, <2>10 DEF Echoed
<1>7. CASE /\ spc' = "write"
           /\ UNCHANGED <<listening, backlog, connfd, server_exit, closed, reset, up, message, bytesRead>>
  <2>1. bytesRead' = [bytesRead EXCEPT ![connfd] = 0] /\ 0 \in 0..BUFSIZE
    BY <1>2, <1>3, <1>7 DEF Echoed, EchoTyped
  <2>2. \A c \in Clients : Fresh(c)' /\ Sent(c)' /\ Printed(c)'
    BY <1>5, <1>7, <2>1
  <2>3. EchoTyped'
    BY <1>1, <1>7 DEF Echoed, EchoTyped, Bytes
  <2>4. Buffered'
    <3>1. bytesRead'[connfd'] = 0
      BY <1>3, <1>7
    <3>2. QED
      BY <1>7, <3>1 DEF Echoed, Buffered
  <2>5. QED
    BY <2>2, <2>3, <2>4 DEF Echoed
<1>8. QED
  BY <1>4, <1>6, <1>7 DEF ReadMessage

LEMMA WriteReplyEchoed ==
  ASSUME SocketOK, Queued, Echoed, WriteReply
  PROVE  Echoed'
<1>1. /\ spc = "write" /\ printed' = printed /\ cpc' = cpc
      /\ up' = up /\ message' = message /\ bytesRead' = bytesRead
  BY Zenon DEF WriteReply, EchoServer, clientSide
<1>2. /\ connfd \in Clients /\ Unanswered(connfd) /\ Reach \in Nat /\ NoClient \notin Clients
  BY <1>1, ReachIs, SocketAssumption DEF SocketOK, Unanswered
<1>3. down[connfd] = <<>> /\ printed[connfd] = <<>> /\ "server" \notin closed[connfd]
  BY <1>2 DEF Echoed, Fresh
<1>4. CASE ServerExits("1") /\ down' = down
  BY <1>1, <1>4, EchoServerLeaves
<1>5. CASE /\ IF Reply = <<>> THEN NoFault /\ UNCHANGED down ELSE WriteSends(Reply)
           /\ closed' = [closed EXCEPT ![connfd] = @ \cup {"server"}]
           /\ reset' = [reset EXCEPT ![connfd] = @ \/ up[connfd] # <<>>]
           /\ spc' = "accept" /\ connfd' = NoClient
           /\ UNCHANGED <<listening, backlog, server_exit>>
  <2>1. /\ Reply \in Seq(Bytes) /\ Len(Reply) \in 0..Reach
        /\ \A k \in 1..Len(Reply) : Reply[k] = message[k]
    BY ReplyIs DEF Echoed
  <2>2. down \in [Clients -> Seq(Bytes)]
    BY DEF Echoed, EchoTyped
  <2>3. \A c \in Clients \ {connfd} : down'[c] = down[c]
    BY <1>5, <2>2 DEF WriteSends
  <2>4. /\ down' \in [Clients -> Seq(Bytes)]
        /\ \A k \in 1..Len(down'[connfd]) : down'[connfd][k] = message[k] /\ k \in 1..Reach
    <3>1. CASE down' = down
      BY <1>3, <2>2, <3>1
    <3>2. CASE WriteSends(Reply) /\ down' # down
      <4>1. PICK n \in 1..Len(Reply) : down' = [down EXCEPT ![connfd] = @ \o SubSeq(Reply, 1, n)]
        BY <3>2 DEF WriteSends
      <4>2. n \in 0..Len(Reply)
        BY <2>1, <4>1
      <4>3. /\ SubSeq(Reply, 1, n) \in Seq(Bytes) /\ Len(SubSeq(Reply, 1, n)) = n
            /\ \A k \in 1..n : SubSeq(Reply, 1, n)[k] = Reply[k]
        BY <2>1, <4>2, PartOf
      <4>4. <<>> \o SubSeq(Reply, 1, n) = SubSeq(Reply, 1, n)
        BY <4>3, ConcatEmptySeq
      <4>5. down'[connfd] = SubSeq(Reply, 1, n) /\ down' \in [Clients -> Seq(Bytes)]
        BY <1>2, <1>3, <2>2, <4>1, <4>3, <4>4
      <4>6. \A k \in 1..n : k \in 1..Len(Reply) /\ k \in 1..Reach
        BY <1>2, <2>1, <4>1
      <4>7. QED
        BY <2>1, <4>3, <4>5, <4>6
    <3>3. QED
      BY <1>5, <3>1, <3>2
  <2>5. EchoTyped' /\ Buffered'
    BY <1>1, <1>5, <2>4 DEF Echoed, EchoTyped, Buffered, Bytes
  <2>6. ASSUME NEW c \in Clients PROVE Fresh(c)' /\ Sent(c)' /\ Printed(c)'
    <3>1. Printed(c)'
      BY <1>1 DEF Echoed, Printed
    <3>2. CASE c = connfd
      <4>1. ~Unanswered(c)' /\ ~Unread(c)'
        <5>1. DOMAIN backlog = 1..Len(backlog)
          BY LenProperties DEF SocketOK
        <5>2. connfd \notin ToSet(backlog)
          BY <5>1 DEF Queued, ToSet
        <5>3. QED
          BY <1>1, <1>2, <1>5, <3>2, <5>2 DEF Unanswered, Unread, Queued
      <4>2. Fresh(c)'
        BY <4>1 DEF Fresh
      <4>3. ASSUME NEW k \in 1..Len(down'[c])
            PROVE  /\ k <= bytesRead[c] => down'[c][k] = c
                   /\ down'[c][k] \in Clients => k <= bytesRead[down'[c][k]]
        <5>1. down'[c][k] = message[k] /\ k \in 1..Reach /\ k \in 1..Reach + 1
          BY <1>2, <2>4, <3>2, <4>3
        <5>2. /\ \A n \in 1..Reach + 1 : message[n] \in Clients => n <= bytesRead[message[n]]
              /\ \A n \in 1..bytesRead[c] : message[n] = c
          BY <1>1, <3>2 DEF Echoed, Buffered
        <5>3. bytesRead[c] \in Nat
          BY DEF Echoed, EchoTyped
        <5>4. QED
          BY <5>1, <5>2, <5>3
      <4>4. Sent(c)'
        BY <1>1, <4>3 DEF Sent
      <4>5. QED
        BY <3>1, <4>2, <4>4
    <3>3. CASE c # connfd
      <4>1. (Unanswered(c)' => Unanswered(c)) /\ (Unread(c)' => Unread(c))
        BY <1>1, <1>2, <1>5, <3>3 DEF Unanswered, Unread
      <4>2. down'[c] = down[c] /\ closed'[c] = closed[c]
        BY <1>5, <2>3, <3>3 DEF SocketOK
      <4>3. Fresh(c)'
        BY <1>1, <4>1, <4>2 DEF Fresh, Echoed
      <4>4. Sent(c)'
        BY <1>1, <4>2 DEF Sent, Echoed
      <4>5. QED
        BY <3>1, <4>3, <4>4
    <3>4. QED
      BY <3>2, <3>3
  <2>7. QED
    BY <2>5, <2>6 DEF Echoed
<1>6. QED
  BY <1>4, <1>5 DEF WriteReply, WriteFails

(* A client connects, sends its message, reads once, and ends.             *)
LEMMA EchoClientMoves ==
  ASSUME SocketOK, Queued, Echoed, NEW c \in Clients,
         spc' = spc, connfd' = connfd, message' = message, bytesRead' = bytesRead,
         up' \in [Clients -> Seq(Clients)], \A d \in Clients : \A n \in 1..Len(up'[d]) : up'[d][n] = d,
         down' \in [Clients -> Seq(Bytes)], printed' \in [Clients -> Seq(Bytes)],
         \A d \in Clients \ {c} :
           /\ down'[d] = down[d] /\ printed'[d] = printed[d] /\ cpc'[d] = cpc[d] /\ closed'[d] = closed[d]
           /\ d \in ToSet(backlog') => d \in ToSet(backlog),
         Fresh(c)', Sent(c)', Printed(c)'
  PROVE  Echoed'
<1>1. EchoTyped' /\ Buffered'
  BY DEF Echoed, EchoTyped, Buffered, Bytes
<1>2. ASSUME NEW d \in Clients PROVE Fresh(d)' /\ Sent(d)' /\ Printed(d)'
  <2>1. CASE d = c
    BY <2>1
  <2>2. CASE d # c
    <3>1. (Unanswered(d)' => Unanswered(d)) /\ (Unread(d)' => Unread(d))
      BY <2>2 DEF Unanswered, Unread
    <3>2. Fresh(d)'
      BY <2>2, <3>1 DEF Fresh, Echoed
    <3>3. /\ Sent(d) /\ Printed(d) /\ down'[d] = down[d] /\ printed'[d] = printed[d]
          /\ cpc'[d] = cpc[d] /\ bytesRead' = bytesRead
      BY <2>2 DEF Echoed
    <3>4. Sent(d)'
      BY <3>3, Zenon DEF Sent
    <3>5. Printed(d)'
      BY <3>3, Zenon DEF Printed
    <3>6. QED
      BY <3>2, <3>4, <3>5
  <2>3. QED
    BY <2>1, <2>2
<1>3. QED
  BY <1>1, <1>2 DEF Echoed

LEMMA ConnectEchoed ==
  ASSUME SocketOK, Queued, Echoed, NEW c \in Clients, ConnectEcho(c)
  PROVE  Echoed'
<1>1. /\ cpc[c] = "start" /\ down' = down /\ up' = up /\ printed' = printed
      /\ message' = message /\ bytesRead' = bytesRead /\ spc' = spc /\ connfd' = connfd
  BY Zenon DEF ConnectEcho, Connect, echoVars
<1>2. \/ /\ cpc' = [cpc EXCEPT ![c] = "connected"] /\ exit' = exit /\ closed' = closed
         /\ backlog' = Append(backlog, c)
      \/ (\E status \in {"0", "1"} : ClientExits(c, status)) /\ backlog' = backlog
  BY DEF ConnectEcho, Connect, ErrorStatus
<1>3. bytesRead[c] = 0 /\ down[c] = <<>> /\ printed[c] = <<>> /\ "server" \notin closed[c]
  BY <1>1 DEF Echoed, Fresh, Unread, Unanswered
<1>4. \A d \in Clients \ {c} : cpc'[d] = cpc[d] /\ closed'[d] = closed[d]
  BY <1>2 DEF ClientExits, SocketOK
<1>5. \A d \in Clients \ {c} : d \in ToSet(backlog') => d \in ToSet(backlog)
  <2>1. CASE backlog' = Append(backlog, c)
    <3>1. /\ DOMAIN backlog = 1..Len(backlog) /\ DOMAIN backlog' = 1..Len(backlog) + 1 /\ Len(backlog) \in Nat
          /\ \A k \in 1..Len(backlog) : backlog'[k] = backlog[k]
          /\ backlog'[Len(backlog) + 1] = c
      <4>1. /\ Append(backlog, c) \in Seq(Clients) /\ Len(Append(backlog, c)) = Len(backlog) + 1
            /\ \A k \in 1..Len(backlog) : Append(backlog, c)[k] = backlog[k]
            /\ Append(backlog, c)[Len(backlog) + 1] = c
        BY AppendProperties DEF SocketOK
      <4>2. /\ DOMAIN backlog = 1..Len(backlog) /\ Len(backlog) \in Nat
            /\ DOMAIN Append(backlog, c) = 1..Len(Append(backlog, c))
        BY <4>1, LenProperties DEF SocketOK
      <4>3. QED
        BY <2>1, <4>1, <4>2
    <3>2. SUFFICES ASSUME NEW d \in Clients \ {c}, NEW k \in 1..Len(backlog) + 1, d = backlog'[k]
                   PROVE  d \in ToSet(backlog)
      BY <3>1 DEF ToSet
    <3>3. k \in 1..Len(backlog)
      BY <3>1, <3>2
    <3>4. QED
      BY <3>1, <3>2, <3>3 DEF ToSet
  <2>2. QED
    BY <1>2, <2>1
<1>6. "server" \notin closed'[c]
  BY <1>2, <1>3 DEF ClientExits, SocketOK
<1>7. Fresh(c)'
  BY <1>1, <1>3, <1>6 DEF Fresh
<1>8. Sent(c)' /\ Printed(c)'
  <2>1. Len(down'[c]) = 0 /\ Len(printed'[c]) = 0
    BY <1>1, <1>3
  <2>2. QED
    BY <2>1 DEF Sent, Printed
<1>9. /\ up' \in [Clients -> Seq(Clients)] /\ \A d \in Clients : \A n \in 1..Len(up'[d]) : up'[d][n] = d
      /\ down' \in [Clients -> Seq(Bytes)] /\ printed' \in [Clients -> Seq(Bytes)]
  BY <1>1 DEF Echoed, EchoTyped
<1>10. QED
  BY <1>1, <1>4, <1>5, <1>7, <1>8, <1>9, EchoClientMoves

LEMMA SendEchoed ==
  ASSUME SocketOK, Queued, Echoed, NEW c \in Clients, SendMessage(c)
  PROVE  Echoed'
<1>1. /\ cpc[c] = "connected" /\ down' = down /\ printed' = printed /\ backlog' = backlog
      /\ message' = message /\ bytesRead' = bytesRead /\ spc' = spc /\ connfd' = connfd
  BY Zenon DEF SendMessage, EchoClient, serverSide
<1>2. \/ /\ \E n \in Nat : up' = [up EXCEPT ![c] = [k \in 1..n |-> c]]
         /\ cpc' = [cpc EXCEPT ![c] = "receive"] /\ exit' = exit /\ closed' = closed
      \/ ClientExits(c, ErrorStatus) /\ up' = up
  <2>1. \A n \in IF LengthOf[c] = 0 THEN {0} ELSE 1..LengthOf[c] : n \in Nat
    BY EchoAssumption
  <2>2. QED
    BY <2>1, Zenon DEF SendMessage
<1>3. /\ up \in [Clients -> Seq(Clients)] /\ \A d \in Clients : \A n \in 1..Len(up[d]) : up[d][n] = d
      /\ down \in [Clients -> Seq(Bytes)] /\ printed \in [Clients -> Seq(Bytes)]
  BY DEF Echoed, EchoTyped
<1>4. /\ up' \in [Clients -> Seq(Clients)]
      /\ \A d \in Clients : \A n \in 1..Len(up'[d]) : up'[d][n] = d
  <2>1. CASE up' = up
    BY <1>3, <2>1
  <2>2. CASE \E n \in Nat : up' = [up EXCEPT ![c] = [k \in 1..n |-> c]]
    <3>1. PICK n \in Nat : up' = [up EXCEPT ![c] = [k \in 1..n |-> c]]
      BY <2>2
    <3>2. n \in Nat
      OBVIOUS
    <3> DEFINE sent == [k \in 1..n |-> c]
    <3>3. sent \in [1..n -> Clients] /\ \A k \in 1..n : sent[k] = c
      OBVIOUS
    <3>4. sent \in Seq(Clients)
      BY <3>2, <3>3, SeqDef
    <3>5. DOMAIN sent = 1..Len(sent) /\ DOMAIN sent = 1..n
      BY <3>4, LenProperties
    <3>6. \A k \in 1..Len(sent) : sent[k] = c
      BY <3>3, <3>5, Zenon
    <3>7. up' = [up EXCEPT ![c] = sent]
      BY <3>1
    <3> HIDE DEF sent
    <3>8. QED
      BY <1>3, <3>4, <3>6, <3>7
  <2>3. QED
    BY <1>2, <2>1, <2>2
<1>5. \A d \in Clients \ {c} : cpc'[d] = cpc[d] /\ closed'[d] = closed[d]
  BY <1>2 DEF ClientExits, SocketOK
<1>6. cpc'[c] # "start" /\ ("server" \in closed'[c] => "server" \in closed[c])
  BY <1>2 DEF ClientExits, SocketOK
<1>7. (Unanswered(c)' => Unanswered(c)) /\ (Unread(c)' => Unread(c))
  BY <1>1, <1>6 DEF Unanswered, Unread
<1>8. Fresh(c)'
  BY <1>1, <1>6, <1>7 DEF Fresh, Echoed
<1>9. Sent(c)' /\ Printed(c)'
  BY <1>1 DEF Sent, Printed, Echoed
<1>10. QED
  BY <1>1, <1>3, <1>4, <1>5, <1>8, <1>9, EchoClientMoves

(* What is printed is the part read, and the stack after it.               *)
LEMMA ShownIs ==
  ASSUME NEW part \in Seq(Bytes), NEW text \in Shown(part)
  PROVE  /\ text \in Seq(Bytes)
         /\ \A k \in 1..Len(text) : text[k] = IF k \in 1..Len(part) THEN part[k] ELSE Stack
<1> DEFINE rest == [k \in 1..Width |-> Stack]
<1>1. Len(part) \in Nat /\ Width \in Nat /\ Stack \in Bytes
  BY LenProperties, EchoAssumption DEF Bytes
<1>2. rest \in Seq(Bytes) /\ Len(rest) = Width /\ \A k \in 1..Width : rest[k] = Stack
  <2>1. rest \in [1..Width -> Bytes] /\ \A k \in 1..Width : rest[k] = Stack
    BY <1>1
  <2>2. rest \in Seq(Bytes)
    BY <1>1, <2>1, SeqDef
  <2>3. DOMAIN rest = 1..Len(rest) /\ DOMAIN rest = 1..Width /\ Len(rest) \in Nat
    BY <2>2, LenProperties
  <2>4. \A a, b \in Nat : 1..a = 1..b => a = b
    OBVIOUS
  <2>5. QED
    BY <1>1, <2>1, <2>2, <2>3, <2>4, Zenon
<1>3. PICK n \in 0..Width : text = SubSeq(part \o rest, 1, n)
  BY DEF Shown
<1> HIDE DEF rest
<1>4. /\ part \o rest \in Seq(Bytes) /\ Len(part \o rest) = Len(part) + Len(rest)
      /\ \A k \in 1..Len(part) + Len(rest) :
            (part \o rest)[k] = IF k <= Len(part) THEN part[k] ELSE rest[k - Len(part)]
  BY <1>2, ConcatProperties
<1>5. n \in 0..Len(part \o rest)
  BY <1>1, <1>2, <1>4
<1>6. text \in Seq(Bytes) /\ Len(text) = n /\ \A k \in 1..n : text[k] = (part \o rest)[k]
  BY <1>3, <1>4, <1>5, PartOf
<1>7. ASSUME NEW k \in 1..n
      PROVE  text[k] = IF k \in 1..Len(part) THEN part[k] ELSE Stack
  <2>1. text[k] = IF k <= Len(part) THEN part[k] ELSE rest[k - Len(part)]
    BY <1>1, <1>2, <1>4, <1>6
  <2>2. CASE k <= Len(part)
    BY <1>1, <2>1, <2>2
  <2>3. CASE ~(k <= Len(part))
    <3>1. k - Len(part) \in 1..Width
      BY <1>1, <2>3
    <3>2. QED
      BY <1>2, <2>1, <2>3, <3>1
  <2>4. QED
    BY <2>2, <2>3
<1>8. QED
  BY <1>6, <1>7

LEMMA ReceiveEchoed ==
  ASSUME SocketOK, Queued, Echoed, NEW c \in Clients, ReceiveReply(c)
  PROVE  Echoed'
<1>1. /\ cpc[c] = "receive" /\ up' = up /\ backlog' = backlog
      /\ message' = message /\ bytesRead' = bytesRead /\ spc' = spc /\ connfd' = connfd
      /\ ClientExits(c, ErrorStatus)
  BY Zenon DEF ReceiveReply, EchoClient, serverSide
<1>2. /\ up \in [Clients -> Seq(Clients)] /\ \A d \in Clients : \A n \in 1..Len(up[d]) : up[d][n] = d
      /\ down \in [Clients -> Seq(Bytes)] /\ printed \in [Clients -> Seq(Bytes)]
      /\ bytesRead \in [Clients -> 0..BUFSIZE]
  BY DEF Echoed, EchoTyped
<1>3. cpc'[c] = "ended" /\ ("server" \in closed'[c] => "server" \in closed[c])
  BY <1>1 DEF ClientExits, SocketOK
<1>4. \A d \in Clients \ {c} : cpc'[d] = cpc[d] /\ closed'[d] = closed[d]
  BY <1>1 DEF ClientExits, SocketOK
<1>5. (Unanswered(c)' => Unanswered(c)) /\ (Unread(c)' => Unread(c))
  BY <1>1, <1>3 DEF Unanswered, Unread
<1>6. Sent(c)'
  BY <1>3 DEF Sent
<1>7. CASE AtError(c) /\ UNCHANGED <<down, printed>>
  <2>1. Fresh(c)'
    BY <1>1, <1>3, <1>5, <1>7 DEF Fresh, Echoed
  <2>2. Printed(c)'
    BY <1>1, <1>7 DEF Printed, Echoed
  <2>3. QED
    BY <1>1, <1>2, <1>4, <1>6, <1>7, <2>1, <2>2, EchoClientMoves
<1>8. ASSUME ~Unanswered(c), NEW part \in Seq(Bytes), NEW text \in Shown(part),
             \A k \in 1..Len(part) : k \in 1..Len(down[c]) /\ part[k] = down[c][k],
             printed' = [printed EXCEPT ![c] = text],
             down' \in [Clients -> Seq(Bytes)], \A d \in Clients \ {c} : down'[d] = down[d]
      PROVE  Echoed'
  <2>1. ~Unanswered(c)' /\ ~Unread(c)'
    BY <1>5, <1>8 DEF Unanswered
  <2>2. Fresh(c)'
    BY <2>1 DEF Fresh
  <2>3. /\ text \in Seq(Bytes)
        /\ \A k \in 1..Len(text) : text[k] = IF k \in 1..Len(part) THEN part[k] ELSE Stack
    BY ShownIs
  <2>4. printed'[c] = text /\ printed' \in [Clients -> Seq(Bytes)]
    BY <1>2, <1>8, <2>3
  <2>5. \A k \in 1..Len(text) : (k \in 1..Len(down[c]) /\ text[k] = down[c][k] /\ k \in 1..Len(part)) \/ text[k] = Stack
    BY <1>8, <2>3
  <2>6. \A k \in 1..Len(down[c]) :
          /\ k <= bytesRead[c] => down[c][k] = c
          /\ down[c][k] \in Clients => k <= bytesRead[down[c][k]]
    BY <1>1 DEF Echoed, Sent
  <2>7. Stack \notin Clients /\ Len(text) \in Nat /\ Len(part) \in Nat
    BY <2>3, EchoAssumption, LenProperties
  <2>8. ASSUME NEW k \in 1..Len(text)
        PROVE  /\ text[k] = c => k <= bytesRead[c]
               /\ text[k] \in Clients \ {c} => bytesRead[c] < k /\ k <= bytesRead[text[k]]
               /\ k > 1 /\ text[k] = c => text[k - 1] = c
    <3>1. CASE text[k] = Stack
      BY <2>7, <3>1
    <3>2. CASE k \in 1..Len(down[c]) /\ text[k] = down[c][k] /\ k \in 1..Len(part)
      <4>1. /\ k <= bytesRead[c] => text[k] = c
            /\ text[k] \in Clients => k <= bytesRead[text[k]]
        BY <2>6, <3>2
      <4>2. bytesRead[c] \in Nat /\ k \in Nat
        BY <1>2, <2>7
      <4>3. ASSUME k > 1, text[k] = c PROVE text[k - 1] = c
        <5>1. k - 1 \in 1..Len(part) /\ k - 1 \in 1..Len(text) /\ k - 1 <= bytesRead[c]
          BY <2>7, <3>2, <4>1, <4>2, <4>3
        <5>2. k - 1 \in 1..Len(down[c]) /\ part[k - 1] = down[c][k - 1]
          BY <1>8, <5>1
        <5>3. down[c][k - 1] = c
          BY <2>6, <5>1, <5>2
        <5>4. QED
          BY <2>3, <5>1, <5>2, <5>3
      <4>4. QED
        BY <4>1, <4>2, <4>3
    <3>3. QED
      BY <2>5, <3>1, <3>2
  <2>9. Printed(c)'
    BY <1>1, <2>4, <2>8 DEF Printed
  <2>10. QED
    BY <1>1, <1>2, <1>4, <1>6, <1>8, <2>2, <2>4, <2>9, EchoClientMoves
<1>9. CASE \E part \in Parts(down[c]) : \E text \in Shown(part) :
             /\ down' = [down EXCEPT ![c] = After(@, part)]
             /\ printed' = [printed EXCEPT ![c] = text]
  <2>0. PICK part \in Parts(down[c]) : \E text \in Shown(part) :
          /\ down' = [down EXCEPT ![c] = After(@, part)]
          /\ printed' = [printed EXCEPT ![c] = text]
    BY <1>9
  <2>1. PICK text \in Shown(part) :
          /\ down' = [down EXCEPT ![c] = After(@, part)]
          /\ printed' = [printed EXCEPT ![c] = text]
    BY <2>0
  <2>2. down[c] \in Seq(Bytes)
    BY <1>2
  <2>3. IsPart(part, down[c], Bytes)
    BY <2>0, <2>2, PartsAre
  <2>4. /\ part \in Seq(Bytes) /\ Len(part) \in 0..Len(down[c])
        /\ \A k \in 1..Len(part) : part[k] = down[c][k]
        /\ After(down[c], part) \in Seq(Bytes) /\ down[c] # <<>>
    BY <2>3, Zenon DEF IsPart
  <2>5. ~Unanswered(c)
    BY <2>4 DEF Echoed, Fresh
  <2>6. \A k \in 1..Len(part) : k \in 1..Len(down[c]) /\ part[k] = down[c][k]
    <3>1. Len(down[c]) \in Nat
      BY <2>2, LenProperties
    <3>2. QED
      BY <2>4, <3>1
  <2>7. down' \in [Clients -> Seq(Bytes)] /\ \A d \in Clients \ {c} : down'[d] = down[d]
    BY <1>2, <2>1, <2>4
  <2>8. QED
    BY <1>8, <2>1, <2>4, <2>5, <2>6, <2>7
<1>10. CASE /\ AtEof(c)
            /\ \E text \in Shown(<<>>) : printed' = [printed EXCEPT ![c] = text]
            /\ UNCHANGED down
  <2>1. PICK text \in Shown(<<>>) : printed' = [printed EXCEPT ![c] = text]
    BY <1>10
  <2> DEFINE nothing == <<>>
  <2>2. nothing \in Seq(Bytes) /\ \A k \in 1..Len(nothing) : k \in 1..Len(down[c]) /\ nothing[k] = down[c][k]
    BY EmptySeq
  <2>5. text \in Shown(nothing)
    BY <2>1
  <2> HIDE DEF nothing
  <2>3. ~Unanswered(c)
    BY <1>10 DEF Echoed, Fresh, AtEof
  <2>4. QED
    BY <1>2, <1>8, <1>10, <2>1, <2>2, <2>3, <2>5
<1>11. QED
  BY <1>7, <1>9, <1>10 DEF ReceiveReply

LEMMA BrokenEchoed ==
  ASSUME SocketOK, Queued, Echoed, NEW c \in Clients, Break(c),
         message' = message, bytesRead' = bytesRead, printed' = printed
  PROVE  Echoed'
<1>1. PICK n \in 0..Len(down[c]) : down' = [down EXCEPT ![c] = SubSeq(@, 1, n)]
  BY DEF Break
<1>2. /\ cpc' = cpc /\ closed' = closed /\ spc' = spc /\ connfd' = connfd /\ backlog' = backlog /\ up' = up
  BY Zenon DEF Break, clientSide, serverSide
<1>3. /\ up \in [Clients -> Seq(Clients)] /\ \A d \in Clients : \A k \in 1..Len(up[d]) : up[d][k] = d
      /\ down \in [Clients -> Seq(Bytes)] /\ printed \in [Clients -> Seq(Bytes)]
  BY DEF Echoed, EchoTyped
<1>4. /\ SubSeq(down[c], 1, n) \in Seq(Bytes) /\ Len(SubSeq(down[c], 1, n)) = n /\ Len(down[c]) \in Nat
      /\ \A k \in 1..n : SubSeq(down[c], 1, n)[k] = down[c][k]
  BY <1>1, <1>3, PartOf
<1>5. /\ down' \in [Clients -> Seq(Bytes)] /\ Len(down'[c]) = n
      /\ \A k \in 1..n : down'[c][k] = down[c][k] /\ k \in 1..Len(down[c])
      /\ \A d \in Clients \ {c} : down'[d] = down[d]
  BY <1>1, <1>3, <1>4
<1>6. down[c] = <<>> => down'[c] = <<>>
  BY <1>1, <1>5, EmptySeq
<1>7. Fresh(c)'
  BY <1>2, <1>6 DEF Fresh, Unanswered, Unread, Echoed
<1>8. Sent(c)'
  <2>1. Sent(c)
    BY DEF Echoed
  <2>2. QED
    BY <1>2, <1>5, <2>1 DEF Sent
<1>9. Printed(c)'
  BY DEF Printed, Echoed
<1>10. QED
  BY <1>2, <1>3, <1>5, <1>7, <1>8, <1>9, EchoClientMoves

LEMMA KilledEchoed ==
  ASSUME SocketOK, Queued, Echoed, NEW c \in Clients, Kill(c),
         message' = message, bytesRead' = bytesRead, printed' = printed
  PROVE  Echoed'
<1>1. /\ down' = down /\ up' = up /\ spc' = spc /\ connfd' = connfd /\ backlog' = backlog
      /\ cpc[c] # "start" /\ ClientExits(c, "killed")
  BY Zenon DEF Kill, serverSide
<1>2. /\ \A d \in Clients \ {c} : closed'[d] = closed[d] /\ cpc'[d] = cpc[d]
      /\ ("server" \in closed'[c] => "server" \in closed[c]) /\ cpc'[c] = "ended"
  BY <1>1 DEF ClientExits, SocketOK
<1>3. /\ up \in [Clients -> Seq(Clients)] /\ \A d \in Clients : \A k \in 1..Len(up[d]) : up[d][k] = d
      /\ down \in [Clients -> Seq(Bytes)] /\ printed \in [Clients -> Seq(Bytes)]
  BY DEF Echoed, EchoTyped
<1>4. (Unanswered(c)' => Unanswered(c)) /\ (Unread(c)' => Unread(c))
  BY <1>1, <1>2 DEF Unanswered, Unread
<1>5. Fresh(c)'
  BY <1>1, <1>2, <1>4 DEF Fresh, Echoed
<1>6. Sent(c)'
  BY <1>2 DEF Sent
<1>7. Printed(c)'
  BY DEF Printed, Echoed
<1>8. QED
  BY <1>1, <1>2, <1>3, <1>5, <1>6, <1>7, EchoClientMoves

LEMMA EchoKept ==
  ASSUME SocketOK, Queued, EchoOK, Next
  PROVE  EchoOK'
<1> SUFFICES ASSUME program' = "echo" PROVE Echoed'
  BY DEF EchoOK
<1>1. program = "echo"
  BY DEF Next, ServerStep, ClientStep, BreakStep, TransferServerStep, StartTransferServer,
     AcceptTransfer,
     OpenFile, ReadFile, WriteFile, TransferServer, Listen, Accept, Resolve, EchoServerStep,
     StartEchoServer, AcceptEcho, ReadMessage, WriteReply, EchoServer, TransferClientStep, EchoClientStep,
     ConnectTransfer, ConnectEcho, Connect, OpenOutput, Receive, Received, TransferClient, SendMessage,
     ReceiveReply, EchoClient, TransferBreak, EchoBreak, Break, Kill
<1>2. Echoed
  BY <1>1 DEF EchoOK
<1>3. EchoServerStep \/ \E c \in Clients : EchoClientStep(c) \/ EchoBreak(c)
  BY <1>1, Zenon DEF Next, ServerStep, ClientStep, BreakStep, TransferServerStep,
     TransferClientStep,
     TransferBreak, StartTransferServer, AcceptTransfer, OpenFile, ReadFile, WriteFile, TransferServer,
     ConnectTransfer, OpenOutput, Receive, Received, TransferClient
<1>4. EchoServerStep => Echoed'
  BY <1>2, EchoServerStarts, ReadMessageEchoed, WriteReplyEchoed DEF EchoServerStep
<1>5. \A c \in Clients : EchoClientStep(c) => Echoed'
  BY <1>2, ConnectEchoed, SendEchoed, ReceiveEchoed DEF EchoClientStep
<1>6. \A c \in Clients : EchoBreak(c) => Echoed'
  BY <1>2, BrokenEchoed, KilledEchoed DEF EchoBreak, echoVars
<1>7. QED
  BY <1>3, <1>4, <1>5, <1>6

-----------------------------------------------------------------------------
(* The theorems.                                                           *)
LEMMA AtFirst == Init => IInv
<1> SUFFICES ASSUME Init PROVE IInv
  OBVIOUS
<1> USE DEF Init, SocketInit, TransferInit, EchoInit
<1>1. /\ <<>> \in Seq(Clients) /\ Len(<<>>) = 0 /\ <<>> \in Seq(1..Size) /\ <<>> \in Seq(Bytes)
  BY EmptySeq
<1>2. SocketOK
  BY <1>1, SocketAssumption DEF SocketOK
<1>3. Queued
  BY <1>1, SocketAssumption DEF Queued
<1>4. Transferred
  <2>1. Old \in Seq(0..Size)
    BY SizeAssumption DEF Old
  <2>2. 0 \in 0..Size /\ 0 <= 0
    BY SizeAssumption
  <2>3. TransferTyped
    BY <1>1, <2>1, <2>2 DEF TransferTyped
  <2>4. ASSUME NEW c \in Clients PROVE Copied(c)
    <3>1. Stored(c) = Segment(0, 0) /\ down[c] = Segment(0, 0)
      BY SegmentEmpty DEF Stored
    <3>2. Reaches(c, 0)
      BY DEF Reaches
    <3>3. QED
      BY <2>2, <3>1, <3>2, Zenon DEF Copied
  <2>5. QED
    BY <2>3, <2>4 DEF Transferred, Whole
<1>5. Echoed
  <2>1. EchoTyped
    BY <1>1, SocketAssumption, ReachIs DEF EchoTyped, Bytes
  <2>2. Buffered
    BY EchoAssumption DEF Buffered
  <2>3. ASSUME NEW c \in Clients PROVE Fresh(c) /\ Sent(c) /\ Printed(c)
    BY <1>1 DEF Fresh, Sent, Printed
  <2>4. QED
    BY <2>1, <2>2, <2>3 DEF Echoed
<1>6. Apart
  BY DEF Apart
<1>7. QED
  BY <1>2, <1>3, <1>4, <1>5, <1>6 DEF IInv, TransferOK, EchoOK

LEMMA Stutters == IInv /\ UNCHANGED vars => IInv'
<1> SUFFICES ASSUME IInv, UNCHANGED vars PROVE IInv'
  OBVIOUS
<1> USE DEF vars, socketVars, network, clientSide, serverSide, transferVars, echoVars
<1>1. SocketOK' /\ Queued'
  BY DEF IInv, SocketOK, Queued
<1>2. TransferOK'
  <2>1. Old' = Old /\ File' = File
    BY DEF Old, File
  <2>2. \A c \in Clients : \A j \in 0..Size : Reaches(c, j) => Reaches(c, j)'
    BY DEF Reaches, Early, Segment
  <2>3. \A c \in Clients : Copied(c) => Copied(c)'
    BY <2>1, <2>2, CopiedStill DEF Stored
  <2>4. TransferTyped => TransferTyped'
    BY <2>1 DEF TransferTyped, Early
  <2>5. \A c \in Clients : Whole(c) => Whole(c)'
    BY <2>1 DEF Whole
  <2>6. QED
    BY <2>3, <2>4, <2>5 DEF IInv, TransferOK, Transferred
<1>3. EchoOK'
  <2>1. EchoTyped => EchoTyped'
    BY DEF EchoTyped, Bytes
  <2>2. Buffered => Buffered'
    BY DEF Buffered
  <2>3. \A c \in Clients : Fresh(c) => Fresh(c)'
    BY DEF Fresh, Unread, Unanswered, ToSet
  <2>4. \A c \in Clients : Sent(c) => Sent(c)'
    BY DEF Sent
  <2>5. \A c \in Clients : Printed(c) => Printed(c)'
    BY DEF Printed
  <2>6. QED
    BY <2>1, <2>2, <2>3, <2>4, <2>5 DEF IInv, EchoOK, Echoed
<1>4. Apart'
  BY DEF IInv, Apart, Old
<1>5. QED
  BY <1>1, <1>2, <1>3, <1>4 DEF IInv

LEMMA ApartKept == Apart /\ Next => Apart'
<1> SUFFICES ASSUME Apart, Next PROVE Apart'
  OBVIOUS
<1>1. program' = program /\ Old' = Old
  BY DEF Next, ServerStep, ClientStep, BreakStep, TransferServerStep, StartTransferServer,
     AcceptTransfer,
     OpenFile, ReadFile, WriteFile, TransferServer, Listen, Accept, Resolve, EchoServerStep,
     StartEchoServer, AcceptEcho, ReadMessage, WriteReply, EchoServer, TransferClientStep, EchoClientStep,
     ConnectTransfer, ConnectEcho, Connect, OpenOutput, Receive, Received, TransferClient, SendMessage,
     ReceiveReply, EchoClient, TransferBreak, EchoBreak, Break, Kill, Old
<1>2. \/ program = "transfer" /\ printed' = printed
      \/ program = "echo" /\ output' = output
  BY Zenon DEF Next, ServerStep, ClientStep, BreakStep, TransferServerStep, StartTransferServer,
     AcceptTransfer, OpenFile, ReadFile, WriteFile, TransferServer, EchoServerStep, StartEchoServer,
     AcceptEcho, ReadMessage, WriteReply, EchoServer, TransferClientStep, EchoClientStep, ConnectTransfer,
     ConnectEcho, OpenOutput, Receive, Received, TransferClient, SendMessage, ReceiveReply, EchoClient,
     TransferBreak, EchoBreak, echoVars, transferVars
<1>3. QED
  BY <1>1, <1>2 DEF Apart

-----------------------------------------------------------------------------
(* The order of a copy: of the bytes a client stored, those under way to   *)
(* it and those in the server's buffer each comes before the next.         *)
Rising(s) == \A i, j \in 1..Len(s) : i < j => s[i] < s[j]
Before(s, t) == \A i \in 1..Len(s), j \in 1..Len(t) : s[i] < t[j]
UpTo(s, n) == \A i \in 1..Len(s) : s[i] <= n

OrderedBy(c) ==
  /\ Rising(output[c]) /\ Rising(down[c]) /\ Before(output[c], down[c])
  /\ UpTo(output[c], position) /\ UpTo(down[c], position)
  /\ spc = "write" => Before(output[c], buf) /\ Before(down[c], buf)

Ordered ==
  program = "transfer" =>
    /\ spc = "write" => Rising(buf) /\ UpTo(buf, position)
    /\ \A c \in Clients : OrderedBy(c)

(* A rising sequence in two.                                               *)
Cut(s, a, b) ==
  /\ Rising(a) /\ Rising(b) /\ Before(a, b)
  /\ \A t : Before(s, t) => Before(a, t) /\ Before(b, t)
  /\ \A t : Before(t, s) => Before(t, a) /\ Before(t, b)
  /\ \A p : UpTo(s, p) => UpTo(a, p) /\ UpTo(b, p)

LEMMA RisingCut ==
  ASSUME NEW s \in Seq(Int), NEW n \in 0..Len(s), Rising(s)
  PROVE  Cut(s, SubSeq(s, 1, n), SubSeq(s, n + 1, Len(s)))
<1> DEFINE a == SubSeq(s, 1, n)
           b == SubSeq(s, n + 1, Len(s))
<1>1. Len(s) \in Nat
  BY LenProperties
<1>2. Len(a) = n /\ \A k \in 1..n : a[k] = s[k]
  BY PartOf
<1>3. Len(b) = Len(s) - n /\ \A k \in 1..Len(s) - n : b[k] = s[n + k]
  BY RestOf
<1> HIDE DEF a, b
<1>4. \A k \in 1..Len(a) : k \in 1..Len(s) /\ a[k] = s[k]
  BY <1>1, <1>2
<1>5. \A k \in 1..Len(b) : n + k \in 1..Len(s) /\ b[k] = s[n + k]
  BY <1>1, <1>3
<1>6. Rising(a)
  BY <1>4 DEF Rising
<1>7. Rising(b)
  <2>1. SUFFICES ASSUME NEW i \in 1..Len(b), NEW j \in 1..Len(b), i < j PROVE b[i] < b[j]
    BY DEF Rising
  <2>2. n + i < n + j /\ n + i \in 1..Len(s) /\ n + j \in 1..Len(s)
    BY <1>3, <1>5, <2>1
  <2>3. QED
    BY <1>5, <2>2 DEF Rising
<1>8. Before(a, b)
  <2>1. SUFFICES ASSUME NEW i \in 1..Len(a), NEW j \in 1..Len(b) PROVE a[i] < b[j]
    BY DEF Before
  <2>2. i < n + j /\ i \in 1..Len(s) /\ n + j \in 1..Len(s)
    BY <1>1, <1>2, <1>3, <1>5, <2>1
  <2>3. QED
    BY <1>4, <1>5, <2>2 DEF Rising
<1>9. ASSUME NEW t, Before(s, t) PROVE Before(a, t) /\ Before(b, t)
  BY <1>4, <1>5, <1>9 DEF Before
<1>10. ASSUME NEW t, Before(t, s) PROVE Before(t, a) /\ Before(t, b)
  BY <1>4, <1>5, <1>10 DEF Before
<1>11. ASSUME NEW p, UpTo(s, p) PROVE UpTo(a, p) /\ UpTo(b, p)
  BY <1>4, <1>5, <1>11 DEF UpTo
<1>12. QED
  BY <1>6, <1>7, <1>8, <1>9, <1>10, <1>11, Zenon DEF Cut, a, b

LEMMA RisingJoined ==
  ASSUME NEW s \in Seq(Int), NEW t \in Seq(Int), Rising(s), Rising(t), Before(s, t),
         NEW u, u = s \o t
  PROVE  /\ Rising(u)
         /\ \A r : Before(s, r) /\ Before(t, r) => Before(u, r)
         /\ \A r : Before(r, s) /\ Before(r, t) => Before(r, u)
         /\ \A p : UpTo(s, p) /\ UpTo(t, p) => UpTo(u, p)
<1>1. /\ Len(s) \in Nat /\ Len(t) \in Nat /\ Len(u) = Len(s) + Len(t)
      /\ \A k \in 1..Len(s) + Len(t) : u[k] = IF k <= Len(s) THEN s[k] ELSE t[k - Len(s)]
  BY LenProperties, ConcatProperties
<1>2. \A k \in 1..Len(u) :
        \/ k <= Len(s) /\ k \in 1..Len(s) /\ u[k] = s[k]
        \/ k > Len(s) /\ k - Len(s) \in 1..Len(t) /\ u[k] = t[k - Len(s)]
  BY <1>1
<1>3. Rising(u)
  <2>1. SUFFICES ASSUME NEW i \in 1..Len(u), NEW j \in 1..Len(u), i < j PROVE u[i] < u[j]
    BY DEF Rising
  <2>2. CASE j <= Len(s)
    <3>1. i \in 1..Len(s) /\ j \in 1..Len(s) /\ u[i] = s[i] /\ u[j] = s[j]
      BY <1>1, <1>2, <2>1, <2>2
    <3>2. QED
      BY <2>1, <3>1 DEF Rising
  <2>3. CASE i <= Len(s) /\ ~(j <= Len(s))
    <3>1. i \in 1..Len(s) /\ j - Len(s) \in 1..Len(t) /\ u[i] = s[i] /\ u[j] = t[j - Len(s)]
      BY <1>1, <1>2, <2>1, <2>3
    <3>2. QED
      BY <3>1 DEF Before
  <2>4. CASE ~(i <= Len(s))
    <3>1. /\ i - Len(s) \in 1..Len(t) /\ j - Len(s) \in 1..Len(t) /\ i - Len(s) < j - Len(s)
          /\ u[i] = t[i - Len(s)] /\ u[j] = t[j - Len(s)]
      BY <1>1, <1>2, <2>1, <2>4
    <3>2. QED
      BY <3>1 DEF Rising
  <2>5. QED
    BY <1>1, <2>2, <2>3, <2>4
<1>4. ASSUME NEW r, Before(s, r), Before(t, r) PROVE Before(u, r)
  BY <1>2, <1>4 DEF Before
<1>5. ASSUME NEW r, Before(r, s), Before(r, t) PROVE Before(r, u)
  BY <1>2, <1>5 DEF Before
<1>6. ASSUME NEW p, UpTo(s, p), UpTo(t, p) PROVE UpTo(u, p)
  BY <1>2, <1>6 DEF UpTo
<1>7. QED
  BY <1>3, <1>4, <1>5, <1>6

(* A step of a client, or of its connection, moves only its own bytes.     *)
LEMMA OneMoves ==
  ASSUME program = "transfer", program' = program, Ordered, NEW c \in Clients,
         position' = position, buf' = buf, spc' = spc,
         \A d \in Clients \ {c} : output'[d] = output[d] /\ down'[d] = down[d],
         OrderedBy(c)'
  PROVE  Ordered'
<1>1. /\ spc = "write" => Rising(buf) /\ UpTo(buf, position)
      /\ \A d \in Clients : OrderedBy(d)
  BY DEF Ordered
<1>2. \A d \in Clients \ {c} : OrderedBy(d)'
  BY <1>1 DEF OrderedBy, Rising, Before, UpTo
<1>3. (spc = "write" => Rising(buf) /\ UpTo(buf, position))'
  BY <1>1 DEF Rising, UpTo
<1>4. QED
  BY <1>2, <1>3 DEF Ordered

LEMMA NoneMoves ==
  ASSUME Ordered, program' = program, output' = output, down' = down,
         position' = position, buf' = buf, spc' # "write" \/ spc' = spc
  PROVE  Ordered'
BY DEF Ordered, OrderedBy, Rising, Before, UpTo

(* What is read into the buffer comes after all that was read before.      *)
LEMMA ReadOrdered ==
  ASSUME SocketOK, Transferred, Ordered, program = "transfer", program' = program, ReadFile
  PROVE  Ordered'
<1>1. down' = down /\ output' = output
  BY Zenon DEF ReadFile, TransferServer
<1>2. CASE ServerExits("0") /\ position' = position /\ buf' = buf
  BY <1>1, <1>2, NoneMoves DEF ServerExits
<1>3. CASE /\ position < Size
           /\ position' = IF Size - position < BUFSIZE THEN Size ELSE position + BUFSIZE
           /\ buf' = SubSeq(File, position + 1, position')
           /\ spc' = "write"
  <2>1. position \in 0..Size /\ position' \in 0..Size /\ position < position'
    <3>1. position \in Nat /\ Size \in Nat /\ BUFSIZE \in Nat /\ 0 < BUFSIZE
      BY SizeAssumption, SocketAssumption DEF Transferred, TransferTyped
    <3>2. QED
      BY <1>3, <3>1
  <2>2. buf' = Segment(position, position')
    <3>1. position <= position'
      BY <2>1, SizeAssumption
    <3>2. \A i, j \in 0..Size : i <= j => SubSeq(File, i + 1, j) = Segment(i, j)
      BY SegmentOfFile
    <3>3. buf' = SubSeq(File, position + 1, position')
      BY <1>3
    <3>4. QED
      BY <2>1, <3>1, <3>2, <3>3, Zenon
  <2>3. Len(buf') = position' - position /\ \A k \in 1..Len(buf') : buf'[k] = position + k
    <3>1. position \in Nat /\ position' \in Nat /\ position <= position'
      BY <2>1, SizeAssumption
    <3>2. Runs(Segment(position, position'), position, position')
      BY <3>1, SegmentIs
    <3>3. QED
      BY <2>2, <3>2 DEF Runs
  <2>4. position \in Int /\ position' \in Int
    BY <2>1, SizeAssumption
  <2>5. Rising(buf)' /\ UpTo(buf, position)'
    <3>1. ASSUME NEW i \in 1..Len(buf'), NEW j \in 1..Len(buf'), i < j PROVE buf'[i] < buf'[j]
      <4>1. buf'[i] = position + i /\ buf'[j] = position + j /\ i \in Int /\ j \in Int
        BY <2>3
      <4>2. QED
        BY <2>4, <3>1, <4>1
    <3>2. ASSUME NEW i \in 1..Len(buf') PROVE buf'[i] <= position'
      <4>1. buf'[i] = position + i /\ i \in 1..position' - position
        BY <2>3
      <4>2. \A m, n \in Int : \A k \in 1..n - m : m + k <= n
        OBVIOUS
      <4>3. position + i <= position'
        BY <2>4, <4>1, <4>2
      <4>4. QED
        BY <4>1, <4>3, Zenon
    <3>3. QED
      BY <3>1, <3>2, Zenon DEF Rising, UpTo
  <2>6. ASSUME NEW c \in Clients PROVE OrderedBy(c)'
    <3>1. /\ Rising(output[c]) /\ Rising(down[c]) /\ Before(output[c], down[c])
          /\ UpTo(output[c], position) /\ UpTo(down[c], position)
      BY DEF Ordered, OrderedBy
    <3>2. output[c] \in Seq(0..Size) /\ down[c] \in Seq(1..Size)
      BY DEF Transferred, TransferTyped
    <3>3. ASSUME NEW s, UpTo(s, position), NEW S, S \subseteq Int, s \in Seq(S)
          PROVE  UpTo(s, position') /\ Before(s, buf')
      <4>1. \A k \in 1..Len(s) : s[k] \in Int
        BY <3>3, ElementOfSeq
      <4>2. \A k \in 1..Len(s) : s[k] <= position
        BY <3>3 DEF UpTo
      <4>3. \A k \in 1..Len(s) : s[k] <= position'
        BY <2>1, <2>4, <4>1, <4>2
      <4>4. \A k \in 1..Len(s), j \in 1..Len(buf') : s[k] < buf'[j]
        <5>1. SUFFICES ASSUME NEW k \in 1..Len(s), NEW j \in 1..Len(buf') PROVE s[k] < buf'[j]
          OBVIOUS
        <5>2. buf'[j] = position + j /\ j \in 1..position' - position /\ s[k] \in Int /\ s[k] <= position
          BY <2>3, <4>1, <4>2
        <5>3. QED
          BY <2>4, <5>2
      <4>5. QED
        BY <4>3, <4>4, Zenon DEF UpTo, Before
    <3>4. /\ UpTo(output[c], position') /\ Before(output[c], buf')
          /\ UpTo(down[c], position') /\ Before(down[c], buf')
      <4>1. 0..Size \subseteq Int /\ 1..Size \subseteq Int
        BY SizeAssumption
      <4>2. QED
        BY <3>1, <3>2, <3>3, <4>1
    <3>5. QED
      BY <1>1, <3>1, <3>4 DEF OrderedBy
  <2>7. QED
    BY <2>5, <2>6 DEF Ordered
<1>4. QED
  BY <1>2, <1>3 DEF ReadFile

(* write() sends a beginning of the buffer, after what was sent.           *)
LEMMA WriteOrdered ==
  ASSUME SocketOK, Transferred, Ordered, program = "transfer", program' = program, WriteFile
  PROVE  Ordered'
<1>1. output' = output /\ position' = position /\ buf' = buf /\ spc = "write"
  BY Zenon DEF WriteFile, TransferServer
<1>2. CASE spc' # "write" /\ down' = down
  BY <1>1, <1>2, NoneMoves
<1>3. CASE WriteSends(buf) /\ spc' = "read"
  <2>1. PICK n \in 1..Len(buf) :
          down' = IF "client" \in closed[connfd] \/ reset[connfd] THEN down
                  ELSE [down EXCEPT ![connfd] = @ \o SubSeq(buf, 1, n)]
    BY <1>3 DEF WriteSends
  <2>2. CASE down' = down
    BY <1>1, <1>3, <2>2, NoneMoves
  <2>3. CASE down' = [down EXCEPT ![connfd] = @ \o SubSeq(buf, 1, n)]
    <3>1. /\ buf \in Seq(1..Size) /\ down \in [Clients -> Seq(1..Size)]
          /\ output \in [Clients -> Seq(0..Size)] /\ connfd \in Clients
      BY <1>1 DEF Transferred, TransferTyped, SocketOK
    <3>2. Rising(buf) /\ UpTo(buf, position) /\ \A c \in Clients : OrderedBy(c)
      BY <1>1 DEF Ordered
    <3>3. PICK c \in Clients : c = connfd
      BY <3>1
    <3>4. buf \in Seq(Int) /\ down[c] \in Seq(Int) /\ n \in 0..Len(buf)
      <4>1. 1..Size \subseteq Int
        OBVIOUS
      <4>2. buf \in Seq(Int) /\ down[c] \in Seq(Int)
        BY <3>1, <4>1, SeqMonotonic
      <4>3. QED
        BY <2>1, <4>2, LenProperties
    <3>5. PICK part : part = SubSeq(buf, 1, n)
      OBVIOUS
    <3>6. part \in Seq(Int)
      BY <3>4, <3>5, PartOf
    <3>7. /\ Rising(part)
          /\ \A t : Before(t, buf) => Before(t, part)
          /\ \A p : UpTo(buf, p) => UpTo(part, p)
      <4>1. Cut(buf, SubSeq(buf, 1, n), SubSeq(buf, n + 1, Len(buf)))
        BY <3>2, <3>4, RisingCut
      <4>2. QED
        BY <3>5, <4>1, Zenon DEF Cut
    <3>8. /\ Rising(output[c]) /\ Rising(down[c]) /\ Before(output[c], down[c])
          /\ UpTo(output[c], position) /\ UpTo(down[c], position)
          /\ Before(output[c], buf) /\ Before(down[c], buf)
      BY <1>1, <3>2 DEF OrderedBy
    <3>9. Before(output[c], part) /\ Before(down[c], part) /\ UpTo(part, position)
      BY <3>2, <3>7, <3>8
    <3>10. down'[c] = down[c] \o part /\ \A d \in Clients \ {c} : down'[d] = down[d]
      BY <2>3, <3>1, <3>3, <3>5
    <3>11. /\ Rising(down'[c])
           /\ \A r : Before(r, down[c]) /\ Before(r, part) => Before(r, down'[c])
           /\ \A p : UpTo(down[c], p) /\ UpTo(part, p) => UpTo(down'[c], p)
      BY <3>4, <3>6, <3>7, <3>8, <3>9, <3>10, RisingJoined
    <3>12. Before(output[c], down'[c]) /\ UpTo(down'[c], position)
      BY <3>8, <3>9, <3>11
    <3>13. OrderedBy(c)'
      BY <1>1, <1>3, <3>8, <3>11, <3>12 DEF OrderedBy
    <3>14. \A d \in Clients \ {c} : OrderedBy(d)'
      BY <1>1, <1>3, <3>2, <3>10 DEF OrderedBy
    <3>15. QED
      BY <1>3, <3>13, <3>14 DEF Ordered
  <2>4. QED
    BY <2>1, <2>2, <2>3
<1>4. QED
  BY <1>2, <1>3 DEF WriteFile, WriteFails, ServerExits

LEMMA OpenedOrdered ==
  ASSUME Transferred, Ordered, program = "transfer", program' = program,
         NEW c \in Clients, OpenOutput(c)
  PROVE  Ordered'
<1>1. down' = down /\ position' = position /\ buf' = buf /\ spc' = spc
  BY Zenon DEF OpenOutput, TransferClient, serverSide
<1>2. CASE output' = output
  BY <1>1, <1>2, NoneMoves
<1>3. CASE output' = [output EXCEPT ![c] = <<>>]
  <2>1. output'[c] = <<>> /\ \A d \in Clients \ {c} : output'[d] = output[d]
    BY <1>3 DEF Transferred, TransferTyped
  <2>2. Len(output'[c]) = 0
    BY <2>1
  <2>3. OrderedBy(c)
    BY DEF Ordered
  <2>4. OrderedBy(c)'
    BY <1>1, <2>2, <2>3 DEF OrderedBy, Rising, Before, UpTo
  <2>5. QED
    BY <1>1, <2>1, <2>4, OneMoves
<1>4. QED
  BY <1>2, <1>3 DEF OpenOutput

(* What is read is the beginning of what is under way.                     *)
LEMMA ReceiveOrdered ==
  ASSUME Transferred, Ordered, program = "transfer", program' = program,
         NEW c \in Clients, Receive(c)
  PROVE  Ordered'
<1>1. /\ position' = position /\ buf' = buf /\ spc' = spc
  BY Zenon DEF Receive, TransferClient, serverSide
<1>2. PICK part \in Parts(down[c]) :
        /\ down' = [down EXCEPT ![c] = After(@, part)]
        /\ output' = [output EXCEPT ![c] = @ \o part] \/ output' = output
  BY DEF Receive
<1>3. /\ down \in [Clients -> Seq(1..Size)] /\ output \in [Clients -> Seq(0..Size)]
  BY DEF Transferred, TransferTyped
<1>4. down[c] \in Seq(Int) /\ output[c] \in Seq(Int)
  <2>1. 1..Size \subseteq Int /\ 0..Size \subseteq Int
    OBVIOUS
  <2>2. QED
    BY <1>3, <2>1, SeqMonotonic
<1>5. PICK n \in 0..Len(down[c]) : part = SubSeq(down[c], 1, n) /\ Len(part) = n
  <2>1. PICK n \in 1..(IF Len(down[c]) < BUFSIZE THEN Len(down[c]) ELSE BUFSIZE) :
          part = SubSeq(down[c], 1, n)
    BY <1>2 DEF Parts
  <2>2. n \in 0..Len(down[c])
    BY <1>4, <2>1, LenProperties, SocketAssumption
  <2>3. Len(part) = n
    BY <1>4, <2>1, <2>2, PartOf
  <2>4. QED
    BY <2>1, <2>2, <2>3
<1>6. PICK rest : rest = SubSeq(down[c], n + 1, Len(down[c]))
  OBVIOUS
<1>7. /\ down'[c] = rest
      /\ \A d \in Clients \ {c} : down'[d] = down[d] /\ output'[d] = output[d]
      /\ output'[c] = output[c] \o part \/ output'[c] = output[c]
  BY <1>2, <1>3, <1>5, <1>6 DEF After
<1>8. /\ Rising(output[c]) /\ Rising(down[c]) /\ Before(output[c], down[c])
      /\ UpTo(output[c], position) /\ UpTo(down[c], position)
      /\ spc = "write" => Before(output[c], buf) /\ Before(down[c], buf)
  BY DEF Ordered, OrderedBy
<1>9. /\ Rising(part) /\ Rising(rest) /\ Before(part, rest)
      /\ \A t : Before(down[c], t) => Before(part, t) /\ Before(rest, t)
      /\ \A t : Before(t, down[c]) => Before(t, part) /\ Before(t, rest)
      /\ \A p : UpTo(down[c], p) => UpTo(part, p) /\ UpTo(rest, p)
  <2>1. Cut(down[c], SubSeq(down[c], 1, n), SubSeq(down[c], n + 1, Len(down[c])))
    BY <1>4, <1>8, RisingCut
  <2>2. QED
    BY <1>5, <1>6, <2>1, Zenon DEF Cut
<1>10. part \in Seq(Int)
  BY <1>4, <1>5, PartOf
<1>11. /\ Rising(output'[c]) /\ Before(output'[c], rest) /\ UpTo(output'[c], position)
       /\ spc = "write" => Before(output'[c], buf)
  <2>1. Before(output[c], part) /\ Before(output[c], rest) /\ UpTo(part, position)
    BY <1>8, <1>9
  <2>2. CASE output'[c] = output[c] \o part
    <3>1. /\ Rising(output'[c])
          /\ \A r : Before(output[c], r) /\ Before(part, r) => Before(output'[c], r)
          /\ \A p : UpTo(output[c], p) /\ UpTo(part, p) => UpTo(output'[c], p)
      BY <1>4, <1>8, <1>9, <1>10, <2>1, <2>2, RisingJoined
    <3>2. QED
      BY <1>8, <1>9, <2>1, <3>1
  <2>3. CASE output'[c] = output[c]
    BY <1>8, <2>1, <2>3
  <2>4. QED
    BY <1>7, <2>2, <2>3
<1>12. Rising(rest) /\ UpTo(rest, position) /\ (spc = "write" => Before(rest, buf))
  BY <1>8, <1>9
<1>13. OrderedBy(c)'
  BY <1>1, <1>7, <1>11, <1>12 DEF OrderedBy
<1>14. QED
  BY <1>1, <1>7, <1>13, OneMoves

(* exit() may lose the end of what is stored.                              *)
LEMMA ReceivedOrdered ==
  ASSUME Transferred, Ordered, program = "transfer", program' = program,
         NEW c \in Clients, Received(c)
  PROVE  Ordered'
<1>1. down' = down /\ position' = position /\ buf' = buf /\ spc' = spc /\ cpc[c] = "receive"
  BY Zenon DEF Received, TransferClient, serverSide
<1>2. CASE output' = output
  BY <1>1, <1>2, NoneMoves
<1>3. CASE output[c] # <<>> /\ output' = [output EXCEPT ![c] = Front(@)]
  <2>1. output[c] \in Seq(1..Size) /\ output \in [Clients -> Seq(0..Size)]
    BY <1>1 DEF Transferred, TransferTyped
  <2>2. output[c] \in Seq(Int)
    <3>1. 1..Size \subseteq Int
      OBVIOUS
    <3>2. QED
      BY <2>1, <3>1, SeqMonotonic
  <2>3. PICK n \in 0..Len(output[c]) : n = Len(output[c]) - 1
    <3>1. Len(output[c]) \in Nat /\ Len(output[c]) # 0
      BY <1>3, <2>2, LenProperties, EmptySeq
    <3>2. Len(output[c]) - 1 \in 0..Len(output[c])
      BY <3>1
    <3>3. QED
      BY <3>2, Zenon
  <2>4. PICK a : a = SubSeq(output[c], 1, n)
    OBVIOUS
  <2>5. output'[c] = a /\ \A d \in Clients \ {c} : output'[d] = output[d]
    BY <1>3, <2>1, <2>3, <2>4 DEF Front
  <2>6. OrderedBy(c)
    BY DEF Ordered
  <2>7. /\ Rising(a) /\ \A t : Before(output[c], t) => Before(a, t)
        /\ \A p : UpTo(output[c], p) => UpTo(a, p)
    <3>1. Cut(output[c], SubSeq(output[c], 1, n), SubSeq(output[c], n + 1, Len(output[c])))
      BY <2>2, <2>6, RisingCut DEF OrderedBy
    <3>2. QED
      BY <2>4, <3>1, Zenon DEF Cut
  <2>8. OrderedBy(c)'
    BY <1>1, <2>5, <2>6, <2>7 DEF OrderedBy
  <2>9. QED
    BY <1>1, <2>5, <2>8, OneMoves
<1>4. QED
  BY <1>2, <1>3 DEF Received

(* A connection that breaks loses the end of what is under way.            *)
LEMMA BrokenOrdered ==
  ASSUME Transferred, Ordered, program = "transfer", program' = program,
         NEW c \in Clients, Break(c), position' = position, buf' = buf, output' = output
  PROVE  Ordered'
<1>1. PICK n \in 0..Len(down[c]) : down' = [down EXCEPT ![c] = SubSeq(@, 1, n)]
  BY DEF Break
<1>2. spc' = spc
  BY DEF Break, serverSide
<1>3. down \in [Clients -> Seq(1..Size)]
  BY DEF Transferred, TransferTyped
<1>4. down[c] \in Seq(Int)
  <2>1. 1..Size \subseteq Int
    OBVIOUS
  <2>2. QED
    BY <1>3, <2>1, SeqMonotonic
<1>5. PICK a : a = SubSeq(down[c], 1, n)
  OBVIOUS
<1>6. down'[c] = a /\ \A d \in Clients \ {c} : down'[d] = down[d]
  BY <1>1, <1>3, <1>5
<1>7. OrderedBy(c)
  BY DEF Ordered
<1>8. /\ Rising(a) /\ \A t : Before(down[c], t) => Before(a, t)
      /\ \A t : Before(t, down[c]) => Before(t, a)
      /\ \A p : UpTo(down[c], p) => UpTo(a, p)
  <2>1. Cut(down[c], SubSeq(down[c], 1, n), SubSeq(down[c], n + 1, Len(down[c])))
    BY <1>4, <1>7, RisingCut DEF OrderedBy
  <2>2. QED
    BY <1>5, <2>1, Zenon DEF Cut
<1>9. OrderedBy(c)'
  BY <1>2, <1>6, <1>7, <1>8 DEF OrderedBy
<1>10. QED
  BY <1>2, <1>6, <1>9, OneMoves

LEMMA OrderedKept ==
  ASSUME SocketOK, TransferOK, Ordered, Next
  PROVE  Ordered'
<1>1. program' = program
  BY DEF Next, ServerStep, ClientStep, BreakStep, TransferServerStep, StartTransferServer,
     AcceptTransfer,
     OpenFile, ReadFile, WriteFile, TransferServer, Listen, Accept, Resolve, EchoServerStep,
     StartEchoServer, AcceptEcho, ReadMessage, WriteReply, EchoServer, TransferClientStep, EchoClientStep,
     ConnectTransfer, ConnectEcho, Connect, OpenOutput, Receive, Received, TransferClient, SendMessage,
     ReceiveReply, EchoClient, TransferBreak, EchoBreak, Break, Kill
<1>2. SUFFICES ASSUME program = "transfer" PROVE Ordered'
  BY <1>1 DEF Ordered
<1>3. Transferred
  BY <1>2 DEF TransferOK
<1>4. TransferServerStep \/ \E c \in Clients : TransferClientStep(c) \/ TransferBreak(c)
  BY <1>2, Zenon DEF Next, ServerStep, ClientStep, BreakStep, EchoServerStep, EchoClientStep,
     EchoBreak,
     StartEchoServer, AcceptEcho, ReadMessage, WriteReply, EchoServer, ConnectEcho, SendMessage,
     ReceiveReply, EchoClient
<1>5. CASE StartTransferServer \/ AcceptTransfer \/ OpenFile
  <2>1. /\ output' = output /\ down' = down /\ position' = position /\ buf' = buf
        /\ spc' # "write"
    BY <1>5 DEF StartTransferServer, AcceptTransfer, OpenFile, TransferServer, Listen, Accept,
       Resolve,
       ServerExits, transferVars
  <2>2. QED
    BY <1>1, <2>1, NoneMoves
<1>6. ASSUME NEW c \in Clients, ConnectTransfer(c) \/ (TransferBreak(c) /\ Kill(c)) PROVE Ordered'
  <2>1. /\ output' = output /\ down' = down /\ position' = position /\ buf' = buf
        /\ spc' = spc
    BY <1>6, Zenon DEF ConnectTransfer, Connect, TransferBreak, Kill, transferVars, serverSide
  <2>2. QED
    BY <1>1, <2>1, NoneMoves
<1>7. ASSUME NEW c \in Clients, TransferBreak(c), Break(c) PROVE Ordered'
  BY <1>1, <1>2, <1>3, <1>7, BrokenOrdered DEF TransferBreak, transferVars
<1>8. TransferServerStep => Ordered'
  BY <1>1, <1>2, <1>3, <1>5, ReadOrdered, WriteOrdered DEF TransferServerStep
<1>9. ASSUME NEW c \in Clients, TransferClientStep(c) PROVE Ordered'
  BY <1>1, <1>2, <1>3, <1>6, <1>9, OpenedOrdered, ReceiveOrdered, ReceivedOrdered DEF
     TransferClientStep
<1>10. ASSUME NEW c \in Clients, TransferBreak(c) PROVE Ordered'
  BY <1>6, <1>7, <1>10 DEF TransferBreak
<1>11. QED
  BY <1>4, <1>8, <1>9, <1>10

LEMMA OrderedAtFirst == Init => Ordered
<1> SUFFICES ASSUME Init, NEW c \in Clients PROVE OrderedBy(c)
  BY DEF Ordered, Init, SocketInit
<1>1. spc = "start" /\ position = 0 /\ output[c] = <<0>> /\ down[c] = <<>>
  BY DEF Init, SocketInit, TransferInit, Old
<1>2. Len(<<0>>) = 1 /\ <<0>>[1] = 0 /\ Len(<<>>) = 0
  OBVIOUS
<1>3. Rising(output[c]) /\ UpTo(output[c], position)
  BY <1>1, <1>2 DEF Rising, UpTo
<1>4. QED
  BY <1>1, <1>2, <1>3 DEF OrderedBy, Rising, Before, UpTo

(* Every step of the programs keeps what is known of the sockets, of the   *)
(* copies and of the buffer.                                               *)
THEOREM SamplesInvariant == Spec => []IInv
<1>1. Init => IInv
  BY AtFirst
<1>2. IInv /\ [Next]_vars => IInv'
  <2>1. IInv /\ Next => IInv'
    BY SocketKept, TransferKept, EchoKept, ApartKept DEF IInv
  <2>2. QED
    BY <2>1, Stutters
<1>3. QED
  BY <1>1, <1>2, PTL DEF Spec

(* What a client of transferserver stored is a beginning of the file,      *)
(* whatever fails, as long as no write() was short                         *)
(* (transferserver.c:142-149, transferclient.c:118-126).                   *)
THEOREM StoredIsPrefix == Spec => []CopyIsPrefix
<1>1. IInv => CopyIsPrefix
  <2>1. SUFFICES ASSUME IInv, NEW c \in Clients, output[c] # Old, "short" \notin unseen
                 PROVE  IsPrefix(output[c], File)
    BY DEF CopyIsPrefix
  <2>2. CASE program = "transfer"
    <3>1. PICK i \in 0..Size : output[c] = Segment(0, i)
      BY <2>1, <2>2 DEF IInv, TransferOK, Transferred, Copied, Stored
    <3>2. QED
      BY <3>1, SegmentIsPrefix
  <2>3. CASE program # "transfer"
    BY <2>1, <2>3 DEF IInv, SocketOK, Apart
  <2>4. QED
    BY <2>2, <2>3
<1>2. QED
  BY <1>1, SamplesInvariant, PTL

(* A client that exits with 0 has the whole file, unless something failed  *)
(* that neither program looks at (transferserver.c:112-149).               *)
THEOREM StoredIsWhole == Spec => []CopyIsWhole
<1>1. IInv => CopyIsWhole
  <2>1. SUFFICES ASSUME IInv, NEW c \in Clients, exit[c] = "0", output[c] # Old, ~reset[c], unseen = {},
                        server_exit # "1"
                 PROVE  output[c] = File
    BY DEF CopyIsWhole
  <2>2. program = "transfer" /\ server_exit \in {"none", "0", "1"}
    BY <2>1 DEF IInv, SocketOK, Apart
  <2>3. Whole(c)
    BY <2>1, <2>2 DEF IInv, TransferOK, Transferred
  <2>4. QED
    BY <2>1, <2>2, <2>3 DEF Whole
<1>2. QED
  BY <1>1, SamplesInvariant, PTL

(* Whatever fails, short writes included, what a client of transferserver  *)
(* stored is in the order of the file, and no byte is there twice          *)
(* (transferserver.c:142-146, transferclient.c:119-123).                   *)
THEOREM StoredInOrder == Spec => []CopyInOrder
<1>1. Init => Ordered
  BY OrderedAtFirst
<1>2. IInv /\ Ordered /\ [Next]_vars => Ordered'
  <2>1. IInv /\ Ordered /\ Next => Ordered'
    BY OrderedKept DEF IInv
  <2>2. Ordered /\ UNCHANGED vars => Ordered'
    BY NoneMoves DEF vars, socketVars, network, serverSide, transferVars
  <2>3. QED
    BY <2>1, <2>2
<1>3. IInv /\ Ordered => CopyInOrder
  <2>1. SUFFICES ASSUME IInv, Ordered, NEW c \in Clients, NEW i \in DOMAIN output[c],
                        NEW j \in DOMAIN output[c], i < j
                 PROVE  output[c][i] < output[c][j]
    BY DEF CopyInOrder
  <2>2. CASE program = "transfer"
    <3>1. output[c] \in Seq(0..Size) /\ Rising(output[c])
      BY <2>1, <2>2 DEF IInv, TransferOK, Transferred, TransferTyped, Ordered, OrderedBy
    <3>2. i \in 1..Len(output[c]) /\ j \in 1..Len(output[c])
      BY <2>1, <3>1, LenProperties
    <3>3. QED
      BY <2>1, <3>1, <3>2 DEF Rising
  <2>3. CASE program = "echo"
    <3>1. output[c] = <<0>> /\ DOMAIN <<0>> = {1}
      BY <2>1, <2>3 DEF IInv, Apart, Old
    <3>2. i = 1 /\ j = 1
      BY <2>1, <3>1
    <3>3. QED
      BY <2>1, <3>2
  <2>4. QED
    BY <2>1, <2>2, <2>3 DEF IInv, SocketOK
<1>4. QED
  BY <1>1, <1>2, <1>3, SamplesInvariant, PTL DEF Spec

(* What a client of echoserver prints begins with its own bytes, as many   *)
(* as the server read; what follows is what the buffer still held          *)
(* (echoserver.c:109-145).                                                 *)
THEOREM OwnBytesPrinted == Spec => []OwnBytesFirst
<1>1. IInv => OwnBytesFirst
  <2>1. SUFFICES ASSUME IInv, NEW c \in Clients, NEW n \in DOMAIN printed[c]
                 PROVE  /\ printed[c][n] = c => n <= bytesRead[c]
                        /\ printed[c][n] \in Clients \ {c} =>
                             bytesRead[c] < n /\ n <= bytesRead[printed[c][n]]
                        /\ n > 1 /\ printed[c][n] = c => printed[c][n - 1] = c
    BY DEF OwnBytesFirst
  <2>2. CASE program = "transfer"
    <3>1. printed[c] = <<>> /\ DOMAIN <<>> = {}
      BY <2>1, <2>2 DEF IInv, Apart
    <3>2. QED
      BY <2>1, <3>1
  <2>3. CASE program = "echo"
    <3>1. printed[c] \in Seq(Bytes) /\ Printed(c)
      BY <2>1, <2>3 DEF IInv, EchoOK, Echoed, EchoTyped
    <3>2. n \in 1..Len(printed[c])
      BY <2>1, <3>1, LenProperties
    <3>3. QED
      BY <3>1, <3>2 DEF Printed
  <2>4. QED
    BY <2>1, <2>2, <2>3 DEF IInv, SocketOK
<1>2. QED
  BY <1>1, SamplesInvariant, PTL
=============================================================================
