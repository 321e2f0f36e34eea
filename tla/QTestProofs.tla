----------------------------- MODULE QTestProofs -----------------------------
(***************************************************************************)
(* Proofs about QTest, for any memory, any number of alarms and whatever   *)
(* they interrupt.                                                         *)
(***************************************************************************)
EXTENDS QTest, FiniteSetTheorems, SequenceTheorems, WellFoundedInduction, TLAPS

(* Where an operation is, by what it does to the list.                     *)
Linking == {"head_value", "tail_value", "head_link", "tail_link"}
Linked == {"head_tail", "tail_tail", "insert_size"}
Inserting == {"q_insert_head", "q_insert_tail", "undo", "undone"} \cup Linking \cup Linked
Removed == {"remove_value", "remove_element", "remove_size"}
FreeLoop == {"free_loop", "free_value", "free_element"}
Removes == {"rh", "rh str", "rhq"}
Outside == {"prompt", "returned", "again", "cancel", "show", "check", "exited"}
Freeing == cmd = "free" \/ (cmd = "new" /\ reps = 2)
Freed == pc = "free_done" \/ (pc = "returned" /\ Freeing)

(* Each command is where its handler can be.                               *)
Handled ==
  /\ pc \in Inserting => cmd \in Inserts
  /\ pc \in {"q_remove_head"} \cup Removed => cmd \in Removes
  /\ pc \in {"q_reverse", "reverse_loop"} => cmd = "reverse"
  /\ pc = "q_size" => cmd = "size"
  /\ pc \in {"q_new", "new_fields"} => cmd = "new" /\ reps = 1
  /\ pc \in {"q_free", "free_done"} \cup FreeLoop => Freeing
  /\ pc \in {"again", "cancel"} => cmd \in Inserts \cup {"size"}
  /\ pc = "again" => reps = 2
  /\ pc = "returned" => cmd \notin {"quit", "show"} /\ (cmd = "new" => reps \in {1, 2})
  /\ pc \in {"show", "check"} => cmd \notin {"quit", "free"}
  /\ pc = "check" => cmd # "show"
  /\ pc = "show" => (verbose \/ cmd = "show") /\ (cmd = "new" => qcnt = 0)
  /\ pc \in Outside => owed = 0

(* From p, by the pointers nx, come the blocks of s, each once, and Null.  *)
Chain(p, s, nx) ==
  /\ \A i, j \in DOMAIN s : s[i] = s[j] => i = j
  /\ p = IF s = <<>> THEN Null ELSE s[1]
  /\ \A k \in DOMAIN s : nx[s[k]] = IF k = Len(s) THEN Null ELSE s[k + 1]

(* The same in q_reverse's loop, which has turned the first k pointers.    *)
Turned(s) ==
  /\ \A i, j \in DOMAIN s : s[i] = s[j] => i = j
  /\ s # <<>> /\ head = s[1]
  /\ \E k \in 0 .. Len(s) :
       /\ curr = IF k = Len(s) THEN Null ELSE s[k + 1]
       /\ prev = IF k = 0 THEN Null ELSE s[k]
       /\ \A i \in DOMAIN s :
            next[s[i]] = IF i > k THEN (IF i = Len(s) THEN Null ELSE s[i + 1])
                         ELSE IF i = 1 THEN Null ELSE s[i - 1]

(* The list that an operation works on.                                    *)
Lists(s) ==
  /\ pc \in FreeLoop => Chain(curr, s, next)
  /\ pc = "reverse_loop" => Turned(s)
  /\ pc \notin FreeLoop /\ pc # "reverse_loop" /\ ~Freed => Chain(head, s, next)
  /\ Freed => s = <<>>

(* The elements of s are in a, and so are their strings, which v gives,    *)
(* and no two of all these are the same.                                   *)
Whole(s, a, v) ==
  /\ \A k \in DOMAIN s : s[k] \in a /\ v[s[k]] \in a
  /\ \A i, j \in DOMAIN s : v[s[i]] = v[s[j]] => i = j
  /\ \A i, j \in DOMAIN s : v[s[i]] # s[j]

(* Block b is none of them.                                                *)
Apart(b, s, v) == \A k \in DOMAIN s : s[k] # b /\ v[s[k]] # b

QueueThere(s) ==
  /\ q # Null /\ ~Freed => q \in allocated /\ Apart(q, s, value)
  /\ q = Null => s = <<>>
  /\ pc \in {"undo"} \cup Linking \cup Linked \cup FreeLoop => q # Null
  /\ pc \in {"q_new", "new_fields"} => q = Null
  /\ pc = "returned" /\ cmd = "new" => s = <<>>

(* The block at hand, and in two the string in it, are allocated and not   *)
(* of the list.                                                            *)
Spare(b, s) == b \in allocated /\ b # q /\ Apart(b, s, value)
OneSpare == {"head_value", "tail_value", "undo", "free_element", "remove_element"}
TwoSpare == {"head_link", "tail_link", "free_value", "remove_value"}

AtHand(s) ==
  /\ pc = "new_fields" => elt \in allocated
  /\ pc \in OneSpare \cup TwoSpare => Spare(elt, s)
  /\ pc \in TwoSpare => Spare(value[elt], s) /\ value[elt] # elt

(* As long as nothing was interrupted, the blocks are counted right; and   *)
(* as long as the list was not missed either, there are no others, nothing *)
(* was corrupted, and the sizes are right.                                 *)
Queued == IF q = Null \/ Freed THEN {} ELSE {q}
Pending ==
  IF pc \in TwoSpare THEN {elt, value[elt]}
  ELSE IF pc \in OneSpare \cup {"new_fields"} THEN {elt} ELSE {}
Elements(s) == {s[k] : k \in DOMAIN s}
Strings(s, v) == {v[s[k]] : k \in DOMAIN s}

Ahead == IF pc \in Linked THEN 1 ELSE IF pc \in Removed THEN -1 ELSE 0
AheadOfHandler ==
  IF pc = "returned" /\ rval
  THEN IF cmd \in Inserts THEN 1 ELSE IF cmd \in Removes THEN -1 ELSE 0
  ELSE Ahead

Counted ==
  alarms = 0 =>
    /\ allocated_count + owed = Cardinality(allocated)
    /\ pc = "prompt" /\ cmd = "free" /\ ok => allocated_count = 0

Accounted(s) ==
  /\ allocated = Queued \cup Elements(s) \cup Strings(s, value) \cup Pending
  /\ \A b \in Blocks : value[b] \in Blocks =>
       b \in Elements(s) \/ (pc \in TwoSpare \cup {"free_element", "remove_element"} /\ b = elt)

Clean ==
  /\ corrupt = {}
  /\ ~error_occurred
  /\ cmd = "free" => ok

Sizes(s) ==
  /\ pc \notin FreeLoop /\ ~Freed => size = Len(s) - Ahead /\ qcnt = Len(s) - AheadOfHandler
  /\ pc \in Linked \/ (pc = "returned" /\ cmd \in Inserts /\ rval) => s # <<>>

Tally(s) == alarms = 0 /\ ~lost => Accounted(s) /\ Clean /\ Sizes(s)

Shape(s) == Lists(s) /\ Whole(s, allocated, value) /\ QueueThere(s) /\ AtHand(s)
Heap(s) == s \in Seq(Blocks) /\ Shape(s) /\ Tally(s)

(* An exception is not forgotten until the command has failed, but for     *)
(* those that FailuresSurface excuses.                                     *)
Excused ==
  \/ cmd \in Inserts \cup {"size"} /\ raised = "outside"
  \/ cmd \in {"rh", "rh str", "rhq", "reverse"} /\ verbose
  \/ cmd = "show"

Surfacing ==
  raised # "no" =>
    \/ Excused
    \/ ~ok \/ pc = "exited"
    \/ pc = "returned" /\ error_occurred
    \/ pc \in {"show", "check"} /\ error_occurred /\ cmd \notin Inserts \cup {"size"}

TypedMemory ==
  allocated \subseteq Blocks /\ allocated_count \in Int /\ owed \in {-1, 0, 1}
TypedFlags ==
  error_occurred \in BOOLEAN /\ jmp_ready \in BOOLEAN /\ rval \in BOOLEAN /\ lost \in BOOLEAN
TypedQueue ==
  q \in Blocks \cup {Null} /\ tail \in Blocks \cup {Null} /\ head \in Pointers /\ size \in Int
TypedElements ==
  value \in [Blocks -> Pointers] /\ next \in [Blocks -> Pointers] /\ corrupt \subseteq Blocks
TypedPlace ==
  /\ elt \in Blocks \cup {Null} /\ curr \in Pointers /\ prev \in Pointers
  /\ pc \in Inside \cup Outside
  /\ pc # "reverse_loop" => prev = Null
TypedCommand ==
  /\ cmd \in Inserts \cup {"quit", "new", "free", "rh", "rh str", "rhq", "reverse", "size", "show"}
  /\ raised \in {"no", "inside", "outside"}
TypedResult == ok \in BOOLEAN /\ verbose \in BOOLEAN
TypedCounts ==
  /\ reps \in 0 .. 2 /\ qcnt \in Int
  /\ fail_count \in 0 .. fail_limit /\ alarms \in 0 .. MaxRaised
TypedSession == TypedCommand /\ TypedResult /\ TypedCounts

Typed ==
  TypedMemory /\ TypedFlags /\ TypedQueue /\ TypedElements /\ TypedPlace /\ TypedSession

Inv ==
  /\ Typed
  /\ Handled
  /\ Counted
  /\ Surfacing
  /\ \E s \in Seq(Blocks) : Heap(s)

-----------------------------------------------------------------------------
(* Null, Junk and the blocks differ.                                       *)
LEMMA BlockFacts ==
  /\ IsFiniteSet(Blocks) /\ Cardinality(Blocks) \in Nat
  /\ Null \notin Blocks /\ Junk \notin Blocks
  BY MemoryAssumption, FS_CardinalityType

LEMMA SeqFacts ==
  ASSUME NEW s \in Seq(Blocks)
  PROVE  /\ Len(s) \in Nat /\ DOMAIN s = 1 .. Len(s)
         /\ \A k \in DOMAIN s : s[k] \in Blocks
         /\ s = <<>> <=> Len(s) = 0
<1>1. Len(s) \in Nat /\ DOMAIN s = 1 .. Len(s)
  BY LenProperties
<1>2. \A k \in DOMAIN s : s[k] \in Blocks
  BY <1>1, ElementOfSeq
<1>3. s = <<>> <=> Len(s) = 0
  BY EmptySeq
<1>4. QED
  BY <1>1, <1>2, <1>3

LEMMA LeastOf ==
  ASSUME NEW S, S \subseteq Nat, S # {}
  PROVE  \E m \in S : \A k \in S : m <= k
<1> DEFINE less == OpToRel(<, Nat)
<1>1. \E m \in S : \A k \in S : <<k, m>> \notin less
  BY NatLessThanWellFounded, WFMin
<1>2. ASSUME NEW k \in S, NEW m \in S, k < m PROVE <<k, m>> \in less
  BY <1>2, Zenon DEF OpToRel
<1>3. \A k \in S, m \in S : (k < m) => <<k, m>> \in less
  BY <1>2
<1> HIDE DEF less
<1>4. PICK m \in S : \A k \in S : <<k, m>> \notin less
  BY <1>1
<1>5. \A k \in S : ~(k < m)
  BY <1>3, <1>4
<1>6. QED
  BY <1>5

-----------------------------------------------------------------------------
(* Chains.                                                                 *)
Pushed(s, t, b) ==
  /\ Len(t) = Len(s) + 1 /\ t[1] = b
  /\ \A k \in 2 .. Len(s) + 1 : t[k] = s[k - 1]

LEMMA ChainPush ==
  ASSUME NEW s \in Seq(Blocks), NEW p, NEW nx, NEW ny, NEW b \in Blocks, Chain(p, s, nx),
         ny[b] = p, \A k \in DOMAIN s : s[k] # b /\ ny[s[k]] = nx[s[k]]
  PROVE  \E t \in Seq(Blocks) : Pushed(s, t, b) /\ Chain(b, t, ny)
<1> DEFINE t == <<b>> \o s
<1>1. <<b>> \in Seq(Blocks) /\ Len(<<b>>) = 1 /\ <<b>>[1] = b
  OBVIOUS
<1>2. /\ t \in Seq(Blocks) /\ Len(t) = 1 + Len(s)
      /\ \A k \in 1 .. 1 + Len(s) : t[k] = IF k <= 1 THEN <<b>>[k] ELSE s[k - 1]
  BY <1>1, ConcatProperties
<1> HIDE DEF t
<1>3. /\ Len(s) \in Nat /\ DOMAIN s = 1 .. Len(s) /\ DOMAIN t = 1 .. Len(s) + 1
      /\ \A k \in DOMAIN s : s[k] \in Blocks
      /\ (s = <<>> <=> Len(s) = 0) /\ t # <<>>
  BY <1>2, SeqFacts
<1>4. t[1] = b /\ \A k \in 2 .. Len(s) + 1 : t[k] = s[k - 1] /\ k - 1 \in DOMAIN s
  BY <1>1, <1>2, <1>3
<1>5. \A i, j \in DOMAIN t : t[i] = t[j] => i = j
  <2>1. SUFFICES ASSUME NEW i \in DOMAIN t, NEW j \in DOMAIN t, t[i] = t[j] PROVE i = j
    OBVIOUS
  <2>2. CASE i = 1 /\ j = 1
    BY <2>2
  <2>3. CASE i = 1 /\ j # 1
    BY <2>1, <2>3, <1>3, <1>4
  <2>4. CASE i # 1 /\ j = 1
    BY <2>1, <2>4, <1>3, <1>4
  <2>5. CASE i # 1 /\ j # 1
    <3>1. t[i] = s[i - 1] /\ t[j] = s[j - 1] /\ i - 1 \in DOMAIN s /\ j - 1 \in DOMAIN s
      BY <2>5, <1>3, <1>4
    <3>2. i - 1 = j - 1
      BY <2>1, <3>1 DEF Chain
    <3>3. QED
      BY <1>3, <3>2
  <2>6. QED
    BY <2>2, <2>3, <2>4, <2>5
<1>6. ASSUME NEW k \in DOMAIN t PROVE ny[t[k]] = IF k = Len(t) THEN Null ELSE t[k + 1]
  <2>1. CASE k = 1
    BY <2>1, <1>2, <1>3, <1>4 DEF Chain
  <2>2. CASE k # 1
    <3>1. t[k] = s[k - 1] /\ k - 1 \in DOMAIN s
      BY <2>2, <1>3, <1>4
    <3>2. ny[t[k]] = IF k - 1 = Len(s) THEN Null ELSE s[k]
      BY <3>1, <1>3 DEF Chain
    <3>3. QED
      BY <2>2, <3>2, <1>2, <1>3, <1>4
  <2>3. QED
    BY <2>1, <2>2
<1>7. Chain(b, t, ny)
  BY <1>3, <1>4, <1>5, <1>6 DEF Chain
<1>8. QED
  BY <1>2, <1>3, <1>4, <1>7 DEF Pushed

LEMMA ChainPop ==
  ASSUME NEW s \in Seq(Blocks), NEW p, NEW nx, p # Null, Chain(p, s, nx)
  PROVE  /\ s # <<>> /\ s[1] = p /\ 1 \in DOMAIN s /\ Len(s) \in Nat /\ Len(s) >= 1
         /\ Tail(s) \in Seq(Blocks) /\ Len(Tail(s)) = Len(s) - 1
         /\ \A k \in DOMAIN Tail(s) : k \in Nat /\ k + 1 \in DOMAIN s /\ k + 1 # 1 /\ Tail(s)[k] = s[k + 1]
         /\ Chain(nx[p], Tail(s), nx)
<1>1. s # <<>> /\ s[1] = p
  BY DEF Chain
<1>2. Len(s) \in Nat /\ DOMAIN s = 1 .. Len(s) /\ Len(s) >= 1 /\ 1 \in DOMAIN s
  BY <1>1, SeqFacts
<1> DEFINE t == Tail(s)
<1>3. t \in Seq(Blocks) /\ Len(t) = Len(s) - 1 /\ \A k \in 1 .. Len(t) : t[k] = s[k + 1]
  BY <1>1, HeadTailProperties
<1> HIDE DEF t
<1>4. DOMAIN t = 1 .. Len(s) - 1 /\ (t = <<>> <=> Len(s) = 1)
  BY <1>2, <1>3, SeqFacts
<1>5. \A k \in DOMAIN t : k \in Nat /\ k + 1 \in DOMAIN s /\ k + 1 # 1 /\ t[k] = s[k + 1]
  BY <1>2, <1>3, <1>4
<1>6. \A i, j \in DOMAIN t : t[i] = t[j] => i = j
  <2>1. SUFFICES ASSUME NEW i \in DOMAIN t, NEW j \in DOMAIN t, t[i] = t[j] PROVE i = j
    OBVIOUS
  <2>2. i + 1 = j + 1
    BY <2>1, <1>5 DEF Chain
  <2>3. QED
    BY <1>5, <2>2
<1>7. nx[p] = IF t = <<>> THEN Null ELSE t[1]
  BY <1>1, <1>2, <1>4, <1>3 DEF Chain
<1>8. ASSUME NEW k \in DOMAIN t PROVE nx[t[k]] = IF k = Len(t) THEN Null ELSE t[k + 1]
  <2>1. nx[t[k]] = IF k + 1 = Len(s) THEN Null ELSE s[k + 2]
    BY <1>5 DEF Chain
  <2>2. k + 1 # Len(s) => t[k + 1] = s[k + 2]
    BY <1>2, <1>3, <1>4
  <2>3. QED
    BY <1>2, <1>3, <1>4, <2>1, <2>2
<1>9. Chain(nx[p], t, nx)
  BY <1>6, <1>7, <1>8 DEF Chain
<1>10. QED
  BY <1>1, <1>2, <1>3, <1>5, <1>9 DEF t

(* The block b comes after the i-th, and what came there is cut off.       *)
Extended(s, t, i, b) ==
  /\ Len(t) = i + 1 /\ t[i + 1] = b
  /\ \A k \in 1 .. i : k \in DOMAIN s /\ t[k] = s[k]

LEMMA ChainEnd ==
  ASSUME NEW s \in Seq(Blocks), NEW p, NEW nx, NEW ny, NEW b \in Blocks, NEW i \in DOMAIN s,
         Chain(p, s, nx), ny[s[i]] = b, ny[b] = Null,
         \A k \in DOMAIN s : s[k] # b /\ (k # i => ny[s[k]] = nx[s[k]])
  PROVE  \E t \in Seq(Blocks) : Extended(s, t, i, b) /\ Chain(p, t, ny)
<1> DEFINE t == [k \in 1 .. i + 1 |-> IF k <= i THEN s[k] ELSE b]
<1>1. /\ Len(s) \in Nat /\ DOMAIN s = 1 .. Len(s) /\ i \in Nat /\ i >= 1 /\ i <= Len(s)
      /\ \A k \in DOMAIN s : s[k] \in Blocks
  BY SeqFacts
<1>2. t \in Seq(Blocks) /\ Len(t) = i + 1 /\ DOMAIN t = 1 .. i + 1
  <2>1. \A k \in 1 .. i + 1 : (IF k <= i THEN s[k] ELSE b) \in Blocks
    BY <1>1
  <2>2. t \in [1 .. i + 1 -> Blocks] /\ i + 1 \in Nat
    BY <1>1, <2>1
  <2> HIDE DEF t
  <2>3. t \in Seq(Blocks)
    BY <2>2, SeqDef
  <2>4. DOMAIN t = 1 .. i + 1
    BY <2>2
  <2>5. QED
    BY <2>2, <2>3, <2>4, LenProperties
<1>3. t[i + 1] = b /\ \A k \in 1 .. i : k \in DOMAIN s /\ t[k] = s[k]
  BY <1>1
<1> HIDE DEF t
<1>4. t # <<>>
  BY <1>1, <1>2, SeqFacts
<1>5. p = t[1]
  <2>1. s # <<>>
    BY <1>1, SeqFacts
  <2>2. QED
    BY <1>1, <1>3, <2>1 DEF Chain
<1>6. \A j, k \in DOMAIN t : t[j] = t[k] => j = k
  <2>1. SUFFICES ASSUME NEW j \in DOMAIN t, NEW k \in DOMAIN t, t[j] = t[k] PROVE j = k
    OBVIOUS
  <2>2. CASE j \in 1 .. i /\ k \in 1 .. i
    BY <2>1, <2>2, <1>3 DEF Chain
  <2>3. CASE j \notin 1 .. i \/ k \notin 1 .. i
    BY <2>1, <2>3, <1>1, <1>2, <1>3
  <2>4. QED
    BY <2>2, <2>3
<1>7. ASSUME NEW k \in DOMAIN t PROVE ny[t[k]] = IF k = Len(t) THEN Null ELSE t[k + 1]
  <2>1. CASE k = i + 1
    BY <2>1, <1>2, <1>3
  <2>2. CASE k = i
    BY <2>2, <1>1, <1>2, <1>3
  <2>3. CASE k \in 1 .. i - 1
    <3>1. /\ k \in 1 .. i /\ k + 1 \in 1 .. i /\ k # i /\ k # Len(s) /\ k # i + 1 /\ k \in DOMAIN s
      BY <2>3, <1>1
    <3>2. ny[s[k]] = s[k + 1]
      BY <3>1 DEF Chain
    <3>3. QED
      BY <3>1, <3>2, <1>2, <1>3
  <2>4. QED
    BY <2>1, <2>2, <2>3, <1>1, <1>2
<1>8. Chain(p, t, ny)
  BY <1>4, <1>5, <1>6, <1>7 DEF Chain
<1>9. QED
  BY <1>2, <1>3, <1>8 DEF Extended

(* Nothing is written to the blocks of the chain.                          *)
LEMMA ChainSame ==
  ASSUME NEW s \in Seq(Blocks), NEW p, NEW nx, NEW ny, Chain(p, s, nx),
         \A k \in DOMAIN s : ny[s[k]] = nx[s[k]]
  PROVE  Chain(p, s, ny)
  BY DEF Chain

LEMMA ChainNone ==
  ASSUME NEW nx
  PROVE  <<>> \in Seq(Blocks) /\ Chain(Null, <<>>, nx)
  BY DEF Chain

LEMMA ChainOne ==
  ASSUME NEW b \in Blocks, NEW nx, nx[b] = Null
  PROVE  \E t \in Seq(Blocks) : t # <<>> /\ Len(t) = 1 /\ t[1] = b /\ DOMAIN t = {1} /\ Chain(b, t, nx)
<1>1. /\ <<b>> \in Seq(Blocks) /\ Len(<<b>>) = 1 /\ <<b>>[1] = b /\ DOMAIN <<b>> = {1} /\ <<b>> # <<>>
  OBVIOUS
<1>2. Chain(b, <<b>>, nx)
  BY <1>1 DEF Chain
<1>3. QED
  BY <1>1, <1>2

(* A chain read from its other end.                                        *)
ReadBack(s, t) == Len(t) = Len(s) /\ Elements(t) = Elements(s)

LEMMA ChainTurned ==
  ASSUME NEW s \in Seq(Blocks), NEW nx, s # <<>>,
         \A i, j \in DOMAIN s : s[i] = s[j] => i = j,
         \A i \in DOMAIN s : nx[s[i]] = IF i = 1 THEN Null ELSE s[i - 1]
  PROVE  \E t \in Seq(Blocks) : ReadBack(s, t) /\ Chain(s[Len(s)], t, nx)
<1> DEFINE n == Len(s)
           t == [k \in 1 .. n |-> s[n + 1 - k]]
<1>1. /\ n \in Nat /\ n >= 1 /\ DOMAIN s = 1 .. n /\ \A k \in DOMAIN s : s[k] \in Blocks
  BY SeqFacts
<1> HIDE DEF n
<1>2. \A k \in 1 .. n : n + 1 - k \in 1 .. n
  BY <1>1
<1>3. t \in [1 .. n -> Blocks] /\ \A k \in 1 .. n : t[k] = s[n + 1 - k]
  BY <1>1, <1>2
<1> HIDE DEF t
<1>4. t \in Seq(Blocks)
  BY <1>1, <1>3, SeqDef
<1>5. DOMAIN t = 1 .. n /\ Len(t) = n
  BY <1>1, <1>3, <1>4, LenProperties
<1>6. t # <<>>
  BY <1>1, <1>4, <1>5, SeqFacts
<1>7. t[1] = s[n]
  BY <1>1, <1>3
<1>8. \A i, j \in DOMAIN t : t[i] = t[j] => i = j
  <2>1. SUFFICES ASSUME NEW i \in DOMAIN t, NEW j \in DOMAIN t, t[i] = t[j] PROVE i = j
    OBVIOUS
  <2>2. n + 1 - i \in DOMAIN s /\ n + 1 - j \in DOMAIN s /\ s[n + 1 - i] = s[n + 1 - j]
    BY <2>1, <1>1, <1>2, <1>3, <1>5
  <2>3. n + 1 - i = n + 1 - j
    BY <2>2
  <2>4. QED
    BY <2>3, <1>1, <1>5
<1>9. ASSUME NEW k \in DOMAIN t PROVE nx[t[k]] = IF k = Len(t) THEN Null ELSE t[k + 1]
  <2>1. nx[t[k]] = IF n + 1 - k = 1 THEN Null ELSE s[n + 1 - k - 1]
    BY <1>1, <1>2, <1>3, <1>5
  <2>2. k # n => t[k + 1] = s[n + 1 - k - 1]
    BY <1>1, <1>3, <1>5
  <2>3. QED
    BY <1>1, <1>5, <2>1, <2>2
<1>10. Chain(s[n], t, nx)
  BY <1>6, <1>7, <1>8, <1>9 DEF Chain
<1>11. Elements(t) = Elements(s)
  <2>1. \A k \in DOMAIN t : t[k] \in Elements(s)
    BY <1>1, <1>2, <1>3, <1>5 DEF Elements
  <2>2. ASSUME NEW k \in DOMAIN s PROVE s[k] \in Elements(t)
    <3>1. n + 1 - k \in DOMAIN t /\ n + 1 - (n + 1 - k) = k
      BY <1>1, <1>2, <1>5
    <3>2. t[n + 1 - k] = s[k]
      BY <1>3, <1>5, <3>1
    <3>3. QED
      BY <3>1, <3>2 DEF Elements
  <2>3. QED
    BY <2>1, <2>2 DEF Elements
<1>12. QED
  BY <1>4, <1>5, <1>10, <1>11 DEF n, ReadBack

(* A sequence of blocks, each once, is as long as it has elements.         *)
LEMMA SeqCount ==
  ASSUME NEW n \in Nat, NEW f \in [1 .. n -> Blocks], \A i, j \in 1 .. n : f[i] = f[j] => i = j
  PROVE  Cardinality({f[k] : k \in 1 .. n}) = n /\ n <= Cardinality(Blocks)
<1> DEFINE R == {f[k] : k \in 1 .. n}
<1>1. f \in Surjection(1 .. n, R) /\ f \in Injection(1 .. n, R) /\ f \in Injection(1 .. n, Blocks)
  BY DEF Surjection, Injection, IsInjective
<1>2. f \in Bijection(1 .. n, R)
  BY <1>1 DEF Bijection
<1>3. ExistsBijection(1 .. n, R)
  BY <1>2 DEF ExistsBijection
<1>4. Cardinality(R) = n
  BY <1>3, FS_CountingElements
<1>5. Cardinality(1 .. n) = n
  BY FS_Interval
<1>6. n <= Cardinality(Blocks)
  BY <1>1, <1>5, FS_Injection, BlockFacts
<1>7. QED
  BY <1>4, <1>6

(* Follow walks along the chain and stays at its end.                      *)
LEMMA FollowIs ==
  ASSUME NEW s \in Seq(Blocks), Chain(head, s, next)
  PROVE  /\ Len(s) <= Cardinality(Blocks)
         /\ \A k \in 0 .. Cardinality(Blocks) : Follow[k] = IF k < Len(s) THEN s[k + 1] ELSE Null
<1> DEFINE N == Cardinality(Blocks)
           n == Len(s)
           f == [k \in 0 .. N |-> IF k < n THEN s[k + 1] ELSE Null]
           g == [k \in 0 .. N |-> IF k = 0 THEN head
                                 ELSE LET p == f[k - 1] IN IF p \in Blocks THEN next[p] ELSE p]
           Bad == {k \in 0 .. N : Follow[k] # f[k]}
<1>1. /\ n \in Nat /\ DOMAIN s = 1 .. n /\ \A k \in DOMAIN s : s[k] \in Blocks
      /\ N \in Nat /\ Null \notin Blocks /\ (s = <<>> <=> n = 0)
  BY SeqFacts, BlockFacts
<1>2. n <= N
  <2>1. s \in [1 .. n -> Blocks]
    BY <1>1, SeqDef
  <2>2. \A i, j \in 1 .. n : s[i] = s[j] => i = j
    BY <1>1 DEF Chain
  <2> HIDE DEF n
  <2>3. QED
    BY <1>1, <2>1, <2>2, SeqCount
<1> HIDE DEF N, n
<1>3. \A k \in 0 .. N : f[k] = IF k < n THEN s[k + 1] ELSE Null
  OBVIOUS
<1> HIDE DEF f
<1>4. ASSUME NEW k \in 0 .. N
      PROVE f[k] = IF k = 0 THEN head ELSE LET p == f[k - 1] IN IF p \in Blocks THEN next[p] ELSE p
  <2>1. CASE k = 0
    BY <1>1, <1>3, <2>1 DEF Chain
  <2>2. CASE k # 0 /\ k - 1 < n
    <3>1. k \in DOMAIN s /\ k - 1 \in 0 .. N /\ f[k - 1] = s[k] /\ s[k] \in Blocks
      BY <1>1, <1>2, <1>3, <2>2
    <3>2. next[s[k]] = IF k = n THEN Null ELSE s[k + 1]
      BY <3>1 DEF Chain, n
    <3>3. f[k] = IF k = n THEN Null ELSE s[k + 1]
      BY <1>1, <1>3, <2>2
    <3>4. QED
      BY <2>2, <3>1, <3>2, <3>3
  <2>3. CASE k # 0 /\ ~(k - 1 < n)
    BY <1>1, <1>3, <2>3
  <2>4. QED
    BY <2>1, <2>2, <2>3
<1>5. f = [k \in 0 .. N |-> IF k = 0 THEN head
                           ELSE LET p == f[k - 1] IN IF p \in Blocks THEN next[p] ELSE p]
  <2>1. f = [k \in 0 .. N |-> f[k]]
    BY DEF f
  <2>2. QED
    BY <1>4, <2>1
<1>6. Follow = [k \in 0 .. N |-> IF k = 0 THEN head
                                ELSE LET p == Follow[k - 1] IN IF p \in Blocks THEN next[p] ELSE p]
  <2>1. Follow = CHOOSE h : h = [k \in 0 .. N |-> IF k = 0 THEN head
                                ELSE LET p == h[k - 1] IN IF p \in Blocks THEN next[p] ELSE p]
    BY DEF Follow, N
  <2>2. \E h : h = [k \in 0 .. N |-> IF k = 0 THEN head
                                ELSE LET p == h[k - 1] IN IF p \in Blocks THEN next[p] ELSE p]
    BY <1>5
  <2>3. QED
    BY <2>1, <2>2
<1>7. Bad = {}
  <2>1. SUFFICES ASSUME Bad # {} PROVE FALSE
    OBVIOUS
  <2>2. Bad \subseteq Nat /\ Bad \subseteq 0 .. N
    BY <1>1
  <2> HIDE DEF Bad
  <2>3. PICK m \in Bad : \A k \in Bad : m <= k
    BY <2>1, <2>2, LeastOf
  <2>4. m \in 0 .. N /\ Follow[m] # f[m]
    BY <2>3 DEF Bad
  <2>5. Follow[m] = IF m = 0 THEN head
                    ELSE LET p == Follow[m - 1] IN IF p \in Blocks THEN next[p] ELSE p
    BY <1>6, <2>4
  <2>6. m # 0 => Follow[m - 1] = f[m - 1]
    <3>1. SUFFICES ASSUME m # 0 PROVE Follow[m - 1] = f[m - 1]
      OBVIOUS
    <3>2. m - 1 \in 0 .. N /\ ~(m <= m - 1)
      BY <1>1, <2>4, <3>1
    <3>3. m - 1 \notin Bad
      BY <2>3, <3>2
    <3>4. QED
      BY <3>2, <3>3 DEF Bad
  <2>7. QED
    BY <1>4, <2>4, <2>5, <2>6
<1>8. \A k \in 0 .. N : Follow[k] = f[k]
  BY <1>7
<1>9. QED
  BY <1>2, <1>3, <1>8 DEF N, n

LEMMA ListedIs ==
  ASSUME NEW s \in Seq(Blocks), Chain(head, s, next)
  PROVE  /\ Listed = Elements(s)
         /\ Length = Len(s)
         /\ \E k \in 0 .. Cardinality(Blocks) : Follow[k] = Null
<1> DEFINE N == Cardinality(Blocks)
<1>1. /\ Len(s) \in Nat /\ DOMAIN s = 1 .. Len(s) /\ \A k \in DOMAIN s : s[k] \in Blocks
      /\ N \in Nat /\ Null \notin Blocks
  BY SeqFacts, BlockFacts
<1>2. Len(s) <= N /\ \A k \in 0 .. N : Follow[k] = IF k < Len(s) THEN s[k + 1] ELSE Null
  BY FollowIs
<1> HIDE DEF N
<1>3. \A b : b \in Elements(s) => b \in Listed
  <2>1. SUFFICES ASSUME NEW j \in DOMAIN s PROVE s[j] \in Listed
    BY DEF Elements
  <2>2. j - 1 \in 0 .. N /\ Follow[j - 1] = s[j]
    BY <1>1, <1>2
  <2>3. QED
    BY <1>1, <2>2 DEF Listed, N
<1>4. \A b : b \in Listed => b \in Elements(s)
  <2>1. SUFFICES ASSUME NEW k \in 0 .. N, Follow[k] \in Blocks PROVE Follow[k] \in Elements(s)
    BY DEF Listed, N
  <2>2. k < Len(s) /\ k + 1 \in DOMAIN s /\ Follow[k] = s[k + 1]
    BY <1>1, <1>2, <2>1
  <2>3. QED
    BY <2>2 DEF Elements
<1>5. Listed = Elements(s)
  BY <1>3, <1>4
<1>6. Cardinality(Elements(s)) = Len(s)
  <2>1. s \in [1 .. Len(s) -> Blocks]
    BY <1>1
  <2>2. \A i, j \in 1 .. Len(s) : s[i] = s[j] => i = j
    BY <1>1 DEF Chain
  <2>3. QED
    BY <1>1, <2>1, <2>2, SeqCount DEF Elements
<1>7. Follow[N] = Null
  BY <1>1, <1>2
<1>8. QED
  BY <1>1, <1>5, <1>6, <1>7 DEF Length, N

-----------------------------------------------------------------------------
(* The types, the places and the count of blocks, step by step.            *)
(* In an operation nothing of the handler changes.                         *)
LEMMA InsideSurfaces ==
  ASSUME Surfacing, UNCHANGED session, pc \in Inside
  PROVE  Surfacing'
<1>1. raised' = raised /\ cmd' = cmd /\ verbose' = verbose /\ ok' = ok
  BY DEF session, history
<1>2. pc \notin {"returned", "show", "check", "exited"}
  BY DEF Inside, Starts
<1>3. Excused' = Excused
  BY <1>1 DEF Excused
<1>4. QED
  BY <1>1, <1>2, <1>3 DEF Surfacing

(* From one place of an operation to the next.                             *)
SamePart(l, m) ==
  \E part \in {Inserting, {"q_remove_head"} \cup Removed, {"q_reverse", "reverse_loop"}, {"q_size"},
               {"q_new", "new_fields"}, {"q_free", "free_done"} \cup FreeLoop} :
    l \in part /\ m \in part

LEMMA SessionTyped ==
  ASSUME TypedSession, UNCHANGED session
  PROVE  TypedSession'
  BY DEF TypedSession, TypedCommand, TypedResult, TypedCounts, session, history

LEMMA InsideHandled ==
  ASSUME Handled, UNCHANGED session, SamePart(pc, pc')
  PROVE  Handled'
<1>1. cmd' = cmd /\ reps' = reps /\ verbose' = verbose /\ qcnt' = qcnt
  BY DEF session
<1>2. Freeing' = Freeing
  BY <1>1 DEF Freeing
<1>3. QED
  BY <1>1, <1>2 DEF Handled, SamePart, Inserting, Linking, Linked, Removed, FreeLoop, Outside

LEMMA ReturnHandled ==
  ASSUME Handled, UNCHANGED session, pc \in Inside, pc' = "returned", owed' = 0
  PROVE  Handled'
<1>1. cmd' = cmd /\ reps' = reps /\ verbose' = verbose /\ qcnt' = qcnt
  BY DEF session
<1>2. cmd \notin {"quit", "show"} /\ (cmd = "new" => reps \in {1, 2})
  BY DEF Handled, Inside, Starts, Inserting, Linking, Linked, Removed, Removes, Inserts,
     FreeLoop, Freeing
<1>3. QED
  BY <1>1, <1>2 DEF Handled, Inserting, Linking, Linked, Removed, FreeLoop, Outside

(* How the count of blocks follows what is allocated.                      *)
LEMMA CountSteps ==
  ASSUME Typed, Counted,
         UNCHANGED alarms, ~(pc' = "prompt" /\ cmd' = "free" /\ ok'),
         \/ UNCHANGED memory
         \/ \E b \in Available : Link(b)
         \/ \E b \in allocated : Unlink(b)
         \/ Count
  PROVE  Counted'
<1>1. SUFFICES ASSUME alarms = 0 PROVE allocated_count' + owed' = Cardinality(allocated')
  BY DEF Counted
<1>2. /\ allocated_count + owed = Cardinality(allocated) /\ IsFiniteSet(allocated)
      /\ allocated_count \in Int /\ owed \in Int
  <2>1. allocated \in SUBSET Blocks
    BY DEF Typed, TypedMemory
  <2>2. IsFiniteSet(allocated)
    BY <2>1, BlockFacts, FS_Subset
  <2>3. QED
    BY <1>1, <2>2 DEF Counted, Typed, TypedMemory
<1>3. CASE UNCHANGED memory
  BY <1>2, <1>3 DEF memory
<1>4. ASSUME NEW b \in Available, Link(b) PROVE allocated_count' + owed' = Cardinality(allocated')
  BY <1>2, <1>4, FS_AddElement DEF Link, Available
<1>5. ASSUME NEW b \in allocated, Unlink(b) PROVE allocated_count' + owed' = Cardinality(allocated')
  BY <1>2, <1>5, FS_RemoveElement DEF Unlink
<1>6. CASE Count
  BY <1>2, <1>6 DEF Count
<1>7. QED
  BY <1>3, <1>4, <1>5, <1>6

Control == Typed /\ Handled /\ Counted /\ Surfacing

(* A step of an operation that keeps memory, or that allocates or frees.   *)
LEMMA InsideControl ==
  ASSUME Control, UNCHANGED session, pc \in Inside,
         TypedMemory' /\ TypedFlags' /\ TypedQueue', TypedElements' /\ TypedPlace',
         \/ SamePart(pc, pc') /\ pc' \notin Outside
         \/ pc' = "returned" /\ owed' = 0,
         \/ UNCHANGED memory
         \/ \E b \in Available : Link(b)
         \/ \E b \in allocated : Unlink(b)
  PROVE  Control'
<1>1. Typed'
  BY SessionTyped DEF Control, Typed
<1>2. Handled'
  BY InsideHandled, ReturnHandled DEF Control
<1>3. Surfacing'
  BY InsideSurfaces DEF Control
<1>4. Counted'
  BY CountSteps DEF Control, session, history, Outside
<1>5. QED
  BY <1>2, <1>3, <1>4, <1>1 DEF Control

(* The head of the list is Null or a block.                                *)
LEMMA HeadFacts ==
  ASSUME NEW s, Heap(s), pc \notin FreeLoop, ~Freed
  PROVE  head = Null \/ head \in Blocks
<1>1. s \in Seq(Blocks) /\ Lists(s)
  BY DEF Heap, Shape
<1>2. s # <<>> => s[1] \in Blocks
  BY <1>1, SeqFacts
<1>3. QED
  BY <1>1, <1>2 DEF Lists, Chain, Turned

LEMMA OperateControl ==
  ASSUME Control, NEW s, Heap(s), Operate
  PROVE  Control'
<1> USE DEF Inside, Starts, Outside, memory, flags, struct, elements, locals
<1>1. UNCHANGED session /\ Operation
  BY DEF Operate
<1>2. Typed
  BY DEF Control
<1>3. CASE NewMalloc
  <2>1. TypedMemory' /\ TypedFlags' /\ TypedQueue'
    BY <1>2, <1>3 DEF Typed, TypedMemory, TypedFlags, NewMalloc, At, Return, Malloc, Link, Goto,
       Available, TypedQueue, TypedPlace, TypedElements, Pointers
  <2>2. TypedElements' /\ TypedPlace'
    BY <1>2, <1>3 DEF Typed, TypedElements, TypedMemory, TypedQueue, TypedPlace, Pointers,
       NewMalloc, At, Return, Malloc, Link, Goto, Available
  <2>3. QED
    BY <1>1, <1>3, <2>1, <2>2, InsideControl DEF NewMalloc, At, Return, Malloc, Link, Goto,
       Available, SamePart, Inserting, Linking, Linked, Removed, FreeLoop
<1>4. CASE NewFields
  <2>1. TypedMemory' /\ TypedFlags' /\ TypedQueue'
    BY <1>2, <1>4 DEF Typed, TypedMemory, TypedFlags, NewFields, At, Return, TypedQueue,
       TypedPlace, TypedElements, Pointers
  <2>2. TypedElements' /\ TypedPlace'
    BY <1>2, <1>4 DEF Typed, TypedElements, TypedMemory, TypedQueue, TypedPlace, Pointers,
       NewFields, At, Return
  <2>3. QED
    BY <1>1, <1>4, <2>1, <2>2, InsideControl DEF NewFields, At, Return, SamePart, Inserting,
       Linking, Linked, Removed, FreeLoop
<1>5. CASE FreeStart
  <2>1. TypedMemory' /\ TypedFlags' /\ TypedQueue'
    BY <1>2, <1>5 DEF Typed, TypedMemory, TypedFlags, FreeStart, At, Return, Goto, TypedQueue,
       TypedPlace, TypedElements, Pointers
  <2>2. TypedElements' /\ TypedPlace'
    BY <1>2, <1>5 DEF Typed, TypedElements, TypedMemory, TypedQueue, TypedPlace, Pointers,
       FreeStart, At, Return, Goto
  <2>3. QED
    BY <1>1, <1>5, <2>1, <2>2, InsideControl DEF FreeStart, At, Return, Goto, SamePart,
       Inserting, Linking, Linked, Removed, FreeLoop
<1>6. CASE FreeNext
  <2>1. TypedMemory' /\ TypedFlags' /\ TypedQueue'
    BY <1>2, <1>6 DEF Typed, TypedMemory, TypedFlags, FreeNext, At, Goto, TypedQueue,
       TypedPlace, TypedElements, Pointers
  <2>2. TypedElements' /\ TypedPlace'
    BY <1>2, <1>6 DEF Typed, TypedElements, TypedMemory, TypedQueue, TypedPlace, Pointers,
       FreeNext, At, Goto
  <2>3. QED
    BY <1>1, <1>6, <2>1, <2>2, InsideControl DEF FreeNext, At, Goto, SamePart, Inserting,
       Linking, Linked, Removed, FreeLoop
<1>7. CASE FreeValue
  <2>1. TypedMemory' /\ TypedFlags' /\ TypedQueue'
    BY <1>2, <1>7 DEF Typed, TypedMemory, TypedFlags, FreeValue, At, Free, Unlink, Goto,
       TypedQueue, TypedPlace, TypedElements, Pointers
  <2>2. TypedElements' /\ TypedPlace'
    BY <1>2, <1>7 DEF Typed, TypedElements, TypedMemory, TypedQueue, TypedPlace, Pointers,
       FreeValue, At, Free, Unlink, Goto
  <2>3. QED
    BY <1>1, <1>7, <2>1, <2>2, InsideControl DEF FreeValue, At, Free, Unlink, Goto, SamePart,
       Inserting, Linking, Linked, Removed, FreeLoop
<1>8. CASE FreeElement
  <2>1. TypedMemory' /\ TypedFlags' /\ TypedQueue'
    BY <1>2, <1>8 DEF Typed, TypedMemory, TypedFlags, FreeElement, At, Free, Unlink, Goto,
       TypedQueue, TypedPlace, TypedElements, Pointers
  <2>2. TypedElements' /\ TypedPlace'
    BY <1>2, <1>8 DEF Typed, TypedElements, TypedMemory, TypedQueue, TypedPlace, Pointers,
       FreeElement, At, Free, Unlink, Goto
  <2>3. QED
    BY <1>1, <1>8, <2>1, <2>2, InsideControl DEF FreeElement, At, Free, Unlink, Goto, SamePart,
       Inserting, Linking, Linked, Removed, FreeLoop
<1>9. CASE FreeQueue
  <2>1. TypedMemory' /\ TypedFlags' /\ TypedQueue'
    BY <1>2, <1>9 DEF Typed, TypedMemory, TypedFlags, FreeQueue, At, Free, Unlink, Goto,
       TypedQueue, TypedPlace, TypedElements, Pointers
  <2>2. TypedElements' /\ TypedPlace'
    BY <1>2, <1>9 DEF Typed, TypedElements, TypedMemory, TypedQueue, TypedPlace, Pointers,
       FreeQueue, At, Free, Unlink, Goto
  <2>3. QED
    BY <1>1, <1>9, <2>1, <2>2, InsideControl DEF FreeQueue, At, Free, Unlink, Goto, SamePart,
       Inserting, Linking, Linked, Removed, FreeLoop
<1>10. CASE FreeDone
  <2>1. TypedMemory' /\ TypedFlags' /\ TypedQueue'
    BY <1>2, <1>10 DEF Typed, TypedMemory, TypedFlags, FreeDone, At, Return, TypedQueue,
       TypedPlace, TypedElements, Pointers
  <2>2. TypedElements' /\ TypedPlace'
    BY <1>2, <1>10 DEF Typed, TypedElements, TypedMemory, TypedQueue, TypedPlace, Pointers,
       FreeDone, At, Return
  <2>3. QED
    BY <1>1, <1>10, <2>1, <2>2, InsideControl DEF FreeDone, At, Return, SamePart, Inserting,
       Linking, Linked, Removed, FreeLoop
<1>11. CASE InsertElement("q_insert_head", "head_value")
  <2>1. TypedMemory' /\ TypedFlags' /\ TypedQueue'
    BY <1>2, <1>11 DEF Typed, TypedMemory, TypedFlags, InsertElement, At, Return, Malloc, Link,
       Goto, Available, TypedQueue, TypedPlace, TypedElements, Pointers
  <2>2. TypedElements' /\ TypedPlace'
    BY <1>2, <1>11 DEF Typed, TypedElements, TypedMemory, TypedQueue, TypedPlace, Pointers,
       InsertElement, At, Return, Malloc, Link, Goto, Available
  <2>3. QED
    BY <1>1, <1>11, <2>1, <2>2, InsideControl DEF InsertElement, At, Return, Malloc, Link, Goto,
       Available, SamePart, Inserting, Linking, Linked, Removed, FreeLoop
<1>12. CASE InsertElement("q_insert_tail", "tail_value")
  <2>1. TypedMemory' /\ TypedFlags' /\ TypedQueue'
    BY <1>2, <1>12 DEF Typed, TypedMemory, TypedFlags, InsertElement, At, Return, Malloc, Link,
       Goto, Available, TypedQueue, TypedPlace, TypedElements, Pointers
  <2>2. TypedElements' /\ TypedPlace'
    BY <1>2, <1>12 DEF Typed, TypedElements, TypedMemory, TypedQueue, TypedPlace, Pointers,
       InsertElement, At, Return, Malloc, Link, Goto, Available
  <2>3. QED
    BY <1>1, <1>12, <2>1, <2>2, InsideControl DEF InsertElement, At, Return, Malloc, Link, Goto,
       Available, SamePart, Inserting, Linking, Linked, Removed, FreeLoop
<1>13. CASE InsertValue("head_value", "head_link", "undo")
  <2>1. TypedMemory' /\ TypedFlags' /\ TypedQueue'
    BY <1>2, <1>13 DEF Typed, TypedMemory, TypedFlags, InsertValue, At, Malloc, Link, Goto,
       Available, TypedQueue, TypedPlace, TypedElements, Pointers
  <2>2. TypedElements' /\ TypedPlace'
    BY <1>2, <1>13 DEF Typed, TypedElements, TypedMemory, TypedQueue, TypedPlace, Pointers,
       InsertValue, At, Malloc, Link, Goto, Available
  <2>3. QED
    BY <1>1, <1>13, <2>1, <2>2, InsideControl DEF InsertValue, At, Malloc, Link, Goto,
       Available, SamePart, Inserting, Linking, Linked, Removed, FreeLoop
<1>14. CASE InsertValue("tail_value", "tail_link", "undo")
  <2>1. TypedMemory' /\ TypedFlags' /\ TypedQueue'
    BY <1>2, <1>14 DEF Typed, TypedMemory, TypedFlags, InsertValue, At, Malloc, Link, Goto,
       Available, TypedQueue, TypedPlace, TypedElements, Pointers
  <2>2. TypedElements' /\ TypedPlace'
    BY <1>2, <1>14 DEF Typed, TypedElements, TypedMemory, TypedQueue, TypedPlace, Pointers,
       InsertValue, At, Malloc, Link, Goto, Available
  <2>3. QED
    BY <1>1, <1>14, <2>1, <2>2, InsideControl DEF InsertValue, At, Malloc, Link, Goto,
       Available, SamePart, Inserting, Linking, Linked, Removed, FreeLoop
<1>15. CASE LinkAtHead
  <2>1. TypedMemory' /\ TypedFlags' /\ TypedQueue'
    BY <1>2, <1>15 DEF Typed, TypedMemory, TypedFlags, LinkAtHead, At, Goto, TypedQueue,
       TypedPlace, TypedElements, Pointers
  <2>2. TypedElements' /\ TypedPlace'
    BY <1>2, <1>15 DEF Typed, TypedElements, TypedMemory, TypedQueue, TypedPlace, Pointers,
       LinkAtHead, At, Goto
  <2>3. QED
    BY <1>1, <1>15, <2>1, <2>2, InsideControl DEF LinkAtHead, At, Goto, SamePart, Inserting,
       Linking, Linked, Removed, FreeLoop
<1>16. CASE HeadTail
  <2>1. TypedMemory' /\ TypedFlags' /\ TypedQueue'
    BY <1>2, <1>16 DEF Typed, TypedMemory, TypedFlags, HeadTail, At, Goto, TypedQueue,
       TypedPlace, TypedElements, Pointers
  <2>2. TypedElements' /\ TypedPlace'
    BY <1>2, <1>16 DEF Typed, TypedElements, TypedMemory, TypedQueue, TypedPlace, Pointers,
       HeadTail, At, Goto
  <2>3. QED
    BY <1>1, <1>16, <2>1, <2>2, InsideControl DEF HeadTail, At, Goto, SamePart, Inserting,
       Linking, Linked, Removed, FreeLoop
<1>17. CASE LinkAtTail
  <2>1. TypedMemory' /\ TypedFlags'
    BY <1>2, <1>17 DEF Typed, TypedMemory, TypedFlags, LinkAtTail, At, Goto
  <2>2. TypedQueue'
    BY <1>2, <1>17 DEF Typed, TypedQueue, TypedPlace, TypedElements, TypedMemory, Pointers,
       LinkAtTail, At, Goto
  <2>3. TypedElements'
    <3>1. /\ value' = value
          /\ corrupt' \in {corrupt, corrupt \cup ({value[b] : b \in Blocks} \cap {tail})} \/ UNCHANGED corrupt
          /\ tail = Null => UNCHANGED corrupt
          /\ next' = IF tail = Null THEN [next EXCEPT ![elt] = Null]
                     ELSE [b \in Blocks |-> IF b = tail /\ b \in allocated THEN elt
                                            ELSE IF b = elt THEN Null ELSE next[b]]
      BY <1>17 DEF LinkAtTail
    <3>2. next' \in [Blocks -> Pointers]
      BY <1>2, <3>1 DEF Typed, TypedElements, TypedPlace, Pointers
    <3>3. corrupt' \subseteq Blocks
      BY <1>2, <3>1 DEF Typed, TypedElements, TypedQueue
    <3>4. QED
      BY <1>2, <3>1, <3>2, <3>3 DEF Typed, TypedElements
  <2>4. TypedPlace'
    BY <1>2, <1>17 DEF Typed, TypedPlace, TypedElements, TypedQueue, TypedMemory, Pointers,
       LinkAtTail, At, Goto
  <2>5. QED
    BY <1>1, <1>17, <2>1, <2>2, <2>3, <2>4, InsideControl DEF LinkAtTail, At, Goto, SamePart,
       Inserting, Linking, Linked, Removed, FreeLoop
<1>18. CASE TailTail
  <2>1. TypedMemory' /\ TypedFlags' /\ TypedQueue'
    BY <1>2, <1>18 DEF Typed, TypedMemory, TypedFlags, TailTail, At, Goto, TypedQueue,
       TypedPlace, TypedElements, Pointers
  <2>2. TypedElements' /\ TypedPlace'
    BY <1>2, <1>18 DEF Typed, TypedElements, TypedMemory, TypedQueue, TypedPlace, Pointers,
       TailTail, At, Goto
  <2>3. QED
    BY <1>1, <1>18, <2>1, <2>2, InsideControl DEF TailTail, At, Goto, SamePart, Inserting,
       Linking, Linked, Removed, FreeLoop
<1>19. CASE InsertSize
  <2>1. TypedMemory' /\ TypedFlags' /\ TypedQueue'
    BY <1>2, <1>19 DEF Typed, TypedMemory, TypedFlags, InsertSize, At, Return, TypedQueue,
       TypedPlace, TypedElements, Pointers
  <2>2. TypedElements' /\ TypedPlace'
    BY <1>2, <1>19 DEF Typed, TypedElements, TypedMemory, TypedQueue, TypedPlace, Pointers,
       InsertSize, At, Return
  <2>3. QED
    BY <1>1, <1>19, <2>1, <2>2, InsideControl DEF InsertSize, At, Return, SamePart, Inserting,
       Linking, Linked, Removed, FreeLoop
<1>20. CASE InsertUndo
  <2>1. TypedMemory' /\ TypedFlags' /\ TypedQueue'
    BY <1>2, <1>20 DEF Typed, TypedMemory, TypedFlags, InsertUndo, At, Free, Unlink, Goto,
       TypedQueue, TypedPlace, TypedElements, Pointers
  <2>2. TypedElements' /\ TypedPlace'
    BY <1>2, <1>20 DEF Typed, TypedElements, TypedMemory, TypedQueue, TypedPlace, Pointers,
       InsertUndo, At, Free, Unlink, Goto
  <2>3. QED
    BY <1>1, <1>20, <2>1, <2>2, InsideControl DEF InsertUndo, At, Free, Unlink, Goto, SamePart,
       Inserting, Linking, Linked, Removed, FreeLoop
<1>21. CASE InsertUndone
  <2>1. TypedMemory' /\ TypedFlags' /\ TypedQueue'
    BY <1>2, <1>21 DEF Typed, TypedMemory, TypedFlags, InsertUndone, At, Return, TypedQueue,
       TypedPlace, TypedElements, Pointers
  <2>2. TypedElements' /\ TypedPlace'
    BY <1>2, <1>21 DEF Typed, TypedElements, TypedMemory, TypedQueue, TypedPlace, Pointers,
       InsertUndone, At, Return
  <2>3. QED
    BY <1>1, <1>21, <2>1, <2>2, InsideControl DEF InsertUndone, At, Return, SamePart, Inserting,
       Linking, Linked, Removed, FreeLoop
<1>22. CASE RemoveNothing(cmd # "rhq")
  <2>1. TypedMemory' /\ TypedFlags' /\ TypedQueue'
    BY <1>2, <1>22 DEF Typed, TypedMemory, TypedFlags, RemoveNothing, At, Return, TypedQueue,
       TypedPlace, TypedElements, Pointers
  <2>2. TypedElements' /\ TypedPlace'
    BY <1>2, <1>22 DEF Typed, TypedElements, TypedMemory, TypedQueue, TypedPlace, Pointers,
       RemoveNothing, At, Return
  <2>3. QED
    BY <1>1, <1>22, <2>1, <2>2, InsideControl DEF RemoveNothing, At, Return, SamePart,
       Inserting, Linking, Linked, Removed, FreeLoop
<1>23. CASE RemoveHead(cmd # "rhq")
  <2>1. TypedMemory' /\ TypedFlags' /\ TypedQueue'
    BY <1>2, <1>23, HeadFacts DEF Typed, TypedMemory, TypedFlags, RemoveHead, At, Goto,
       TypedQueue, TypedPlace, TypedElements, Pointers, FreeLoop, Freed
  <2>2. TypedElements' /\ TypedPlace'
    BY <1>2, <1>23, HeadFacts DEF Typed, TypedElements, TypedMemory, TypedQueue, TypedPlace,
       Pointers, RemoveHead, At, Goto, FreeLoop, Freed
  <2>3. QED
    BY <1>1, <1>23, <2>1, <2>2, InsideControl DEF RemoveHead, At, Goto, SamePart, Inserting,
       Linking, Linked, Removed, FreeLoop
<1>24. CASE RemoveValue
  <2>1. TypedMemory' /\ TypedFlags' /\ TypedQueue'
    BY <1>2, <1>24 DEF Typed, TypedMemory, TypedFlags, RemoveValue, At, Free, Unlink, Goto,
       TypedQueue, TypedPlace, TypedElements, Pointers
  <2>2. TypedElements' /\ TypedPlace'
    BY <1>2, <1>24 DEF Typed, TypedElements, TypedMemory, TypedQueue, TypedPlace, Pointers,
       RemoveValue, At, Free, Unlink, Goto
  <2>3. QED
    BY <1>1, <1>24, <2>1, <2>2, InsideControl DEF RemoveValue, At, Free, Unlink, Goto, SamePart,
       Inserting, Linking, Linked, Removed, FreeLoop
<1>25. CASE RemoveElement
  <2>1. TypedMemory' /\ TypedFlags' /\ TypedQueue'
    BY <1>2, <1>25 DEF Typed, TypedMemory, TypedFlags, RemoveElement, At, Free, Unlink, Goto,
       TypedQueue, TypedPlace, TypedElements, Pointers
  <2>2. TypedElements' /\ TypedPlace'
    BY <1>2, <1>25 DEF Typed, TypedElements, TypedMemory, TypedQueue, TypedPlace, Pointers,
       RemoveElement, At, Free, Unlink, Goto
  <2>3. QED
    BY <1>1, <1>25, <2>1, <2>2, InsideControl DEF RemoveElement, At, Free, Unlink, Goto,
       SamePart, Inserting, Linking, Linked, Removed, FreeLoop
<1>26. CASE RemoveSize
  <2>1. TypedMemory' /\ TypedFlags' /\ TypedQueue'
    BY <1>2, <1>26 DEF Typed, TypedMemory, TypedFlags, RemoveSize, At, Return, TypedQueue,
       TypedPlace, TypedElements, Pointers
  <2>2. TypedElements' /\ TypedPlace'
    BY <1>2, <1>26 DEF Typed, TypedElements, TypedMemory, TypedQueue, TypedPlace, Pointers,
       RemoveSize, At, Return
  <2>3. QED
    BY <1>1, <1>26, <2>1, <2>2, InsideControl DEF RemoveSize, At, Return, SamePart, Inserting,
       Linking, Linked, Removed, FreeLoop
<1>27. CASE Size(qcnt)
  <2>1. TypedMemory' /\ TypedFlags' /\ TypedQueue'
    BY <1>2, <1>27 DEF Typed, TypedMemory, TypedFlags, Size, At, Return, TypedQueue, TypedPlace,
       TypedElements, Pointers
  <2>2. TypedElements' /\ TypedPlace'
    BY <1>2, <1>27 DEF Typed, TypedElements, TypedMemory, TypedQueue, TypedPlace, Pointers,
       Size, At, Return
  <2>3. QED
    BY <1>1, <1>27, <2>1, <2>2, InsideControl DEF Size, At, Return, SamePart, Inserting,
       Linking, Linked, Removed, FreeLoop
<1>28. CASE ReverseStart
  <2>1. TypedMemory' /\ TypedFlags' /\ TypedQueue'
    BY <1>2, <1>28, HeadFacts DEF Typed, TypedMemory, TypedFlags, ReverseStart, At, Return,
       Goto, FreeLoop, Freed, TypedQueue, TypedPlace, TypedElements, Pointers
  <2>2. TypedElements' /\ TypedPlace'
    BY <1>2, <1>28 DEF Typed, TypedElements, TypedMemory, TypedQueue, TypedPlace, Pointers,
       ReverseStart, At, Return, Goto
  <2>3. QED
    BY <1>1, <1>28, <2>1, <2>2, InsideControl DEF ReverseStart, At, Return, Goto, SamePart,
       Inserting, Linking, Linked, Removed, FreeLoop
<1>29. CASE ReverseNext
  <2>1. TypedMemory' /\ TypedFlags' /\ TypedQueue'
    BY <1>2, <1>29 DEF Typed, TypedMemory, TypedFlags, ReverseNext, At, Goto, TypedQueue,
       TypedPlace, TypedElements, Pointers
  <2>2. TypedElements' /\ TypedPlace'
    BY <1>2, <1>29 DEF Typed, TypedElements, TypedMemory, TypedQueue, TypedPlace, Pointers,
       ReverseNext, At, Goto
  <2>3. QED
    BY <1>1, <1>29, <2>1, <2>2, InsideControl DEF ReverseNext, At, Goto, SamePart, Inserting,
       Linking, Linked, Removed, FreeLoop
<1>30. CASE ReverseEnd
  <2>1. TypedMemory' /\ TypedFlags' /\ TypedQueue'
    BY <1>2, <1>30 DEF Typed, TypedMemory, TypedFlags, ReverseEnd, At, Return, TypedQueue,
       TypedPlace, TypedElements, Pointers
  <2>2. TypedElements' /\ TypedPlace'
    BY <1>2, <1>30 DEF Typed, TypedElements, TypedMemory, TypedQueue, TypedPlace, Pointers,
       ReverseEnd, At, Return
  <2>3. QED
    BY <1>1, <1>30, <2>1, <2>2, InsideControl DEF ReverseEnd, At, Return, SamePart, Inserting,
       Linking, Linked, Removed, FreeLoop
<1>31. QED
  BY <1>1, <1>3, <1>4, <1>5, <1>6, <1>7, <1>8, <1>9, <1>10, <1>11, <1>12, <1>13, <1>14, <1>15,
     <1>16, <1>17, <1>18, <1>19, <1>20, <1>21, <1>22, <1>23, <1>24, <1>25, <1>26, <1>27, <1>28,
     <1>29, <1>30 DEF Operation

-----------------------------------------------------------------------------
(* The handlers, the interruptions and the prompt.                         *)
LEMMA StartFacts ==
  /\ Start("new") = "q_new" /\ Start("free") = "q_free"
  /\ Start("ih") = "q_insert_head" /\ Start("it") = "q_insert_tail"
  /\ \A c \in Removes : Start(c) = "q_remove_head"
  /\ Start("reverse") = "q_reverse" /\ Start("size") = "q_size"
  BY DEF Start, Removes

LEMMA HandlerControl ==
  ASSUME Control, \/ Progress /\ ~Operate
                  \/ Interruption
  PROVE  Control'
<1> USE DEF Inside, Starts, Outside, memory, flags, struct, elements, locals, queueVars, history
<1>1. Typed /\ Handled /\ Counted /\ Surfacing /\ fail_limit \in Nat /\ MaxRaised \in Nat
  BY CommandsAssumption DEF Control
<1>2. CASE CountBlocks
  <2>1. pc' = pc /\ pc \notin Outside /\ UNCHANGED session /\ Count
    BY <1>1, <1>2 DEF CountBlocks, Count, Handled
  <2>2. TypedMemory'
    BY <1>1, <1>2 DEF CountBlocks, Count, Typed, TypedMemory
  <2>3. Typed'
    BY <1>1, <1>2, <2>2, SessionTyped DEF CountBlocks, Typed, TypedFlags, TypedQueue,
       TypedElements, TypedPlace
  <2>4. Handled'
    BY <1>1, <2>1 DEF Handled, Freeing, session
  <2>5. Surfacing'
    BY <1>1, <1>2 DEF CountBlocks, Surfacing, Excused, session
  <2>6. Counted'
    BY <1>1, <2>1, CountSteps DEF session
  <2>7. QED
    BY <2>3, <2>4, <2>5, <2>6 DEF Control
<1>3. CASE Inserted
  <2>1. TypedMemory' /\ TypedFlags'
    BY <1>1, <1>3 DEF Typed, TypedMemory, TypedFlags, Inserted, EndOfBody, Goto
  <2>2. TypedQueue' /\ TypedElements'
    BY <1>1, <1>3 DEF Typed, TypedQueue, TypedElements, Inserted, EndOfBody, Goto
  <2>3. TypedPlace'
    BY <1>1, <1>3, StartFacts DEF Typed, TypedPlace, Pointers, Inserts, Inserted, EndOfBody,
       Goto
  <2>4. TypedSession'
    <3>1. TypedCommand'
      BY <1>1, <1>3 DEF Typed, TypedSession, TypedCommand, Inserted, EndOfBody, Goto
    <3>2. TypedResult'
      BY <1>1, <1>3, Zenon DEF Typed, TypedSession, TypedResult, session, Inserted, EndOfBody,
         Goto
    <3>3. TypedCounts'
      BY <1>1, <1>3 DEF Typed, TypedSession, TypedCounts, Inserted, EndOfBody, Goto
    <3>4. QED
      BY <3>1, <3>2, <3>3 DEF TypedSession
  <2>5. Handled'
    <3>1. pc' \in {"again", "cancel"} /\ (pc' = "again" => reps > 1)
      BY <1>3 DEF Inserted, EndOfBody, Goto
    <3>2. reps \in 0 .. 2 /\ (reps > 1 => reps = 2)
      BY <1>1 DEF Typed, TypedSession, TypedCounts
    <3>3. reps' = reps /\ cmd' = cmd /\ cmd \in Inserts \cup {"size"} /\ owed' = owed
      BY <1>3 DEF Inserted, EndOfBody
    <3>4. owed = 0
      BY <1>1, <1>3 DEF Handled, Inserted
    <3>5. QED
      BY <3>1, <3>2, <3>3, <3>4 DEF Handled, Inserting, Linking, Linked, Removed, FreeLoop,
         Inserts
  <2>6. Surfacing'
    BY <1>1, <1>3, StartFacts DEF Typed, TypedSession, TypedCommand, TypedResult, TypedCounts,
       TypedFlags, Handled, Surfacing, Excused, Inserts, Inserted, EndOfBody, Goto
  <2>7. Counted'
    BY <1>1, <1>3, StartFacts DEF Typed, TypedSession, TypedCommand, TypedResult, TypedCounts,
       TypedFlags, Handled, Counted, Inserts, Inserted, EndOfBody, Goto
  <2>8. QED
    BY <2>1, <2>2, <2>3, <2>4, <2>5, <2>6, <2>7 DEF Typed, Control
<1>4. CASE InsertFailed
  <2>1. TypedMemory' /\ TypedFlags'
    BY <1>1, <1>4 DEF Typed, TypedMemory, TypedFlags, InsertFailed, EndOfBody, Goto, Failures,
       Allowed
  <2>2. TypedQueue' /\ TypedElements'
    BY <1>1, <1>4 DEF Typed, TypedQueue, TypedElements, InsertFailed, EndOfBody, Goto, Failures,
       Allowed
  <2>3. TypedPlace'
    BY <1>1, <1>4, StartFacts DEF Typed, TypedPlace, Pointers, Inserts, InsertFailed, EndOfBody,
       Goto, Failures, Allowed
  <2>4. TypedSession'
    <3>1. TypedCommand'
      BY <1>1, <1>4 DEF Typed, TypedSession, TypedCommand, InsertFailed, EndOfBody, Goto,
         Failures, Allowed
    <3>2. TypedResult'
      BY <1>1, <1>4, Zenon DEF Typed, TypedSession, TypedResult, session, InsertFailed,
         EndOfBody, Goto, Failures, Allowed
    <3>3. TypedCounts'
      BY <1>1, <1>4 DEF Typed, TypedSession, TypedCounts, InsertFailed, EndOfBody, Goto,
         Failures, Allowed
    <3>4. QED
      BY <3>1, <3>2, <3>3 DEF TypedSession
  <2>5. Handled'
    <3>1. pc' \in {"again", "cancel"} /\ (pc' = "again" => reps > 1)
      BY <1>4 DEF InsertFailed, EndOfBody, Goto, Failures, Allowed
    <3>2. reps \in 0 .. 2 /\ (reps > 1 => reps = 2)
      BY <1>1 DEF Typed, TypedSession, TypedCounts
    <3>3. reps' = reps /\ cmd' = cmd /\ cmd \in Inserts \cup {"size"} /\ owed' = owed
      BY <1>4 DEF InsertFailed, EndOfBody
    <3>4. owed = 0
      BY <1>1, <1>4 DEF Handled, InsertFailed
    <3>5. QED
      BY <3>1, <3>2, <3>3, <3>4 DEF Handled, Inserting, Linking, Linked, Removed, FreeLoop,
         Inserts
  <2>6. Surfacing'
    BY <1>1, <1>4, StartFacts DEF Typed, TypedSession, TypedCommand, TypedResult, TypedCounts,
       TypedFlags, Handled, Surfacing, Excused, Inserts, InsertFailed, EndOfBody, Goto,
       Failures, Allowed
  <2>7. Counted'
    BY <1>1, <1>4, StartFacts DEF Typed, TypedSession, TypedCommand, TypedResult, TypedCounts,
       TypedFlags, Handled, Counted, Inserts, InsertFailed, EndOfBody, Goto, Failures, Allowed
  <2>8. QED
    BY <2>1, <2>2, <2>3, <2>4, <2>5, <2>6, <2>7 DEF Typed, Control
<1>5. CASE InsertFaults
  <2>1. TypedMemory' /\ TypedFlags'
    BY <1>1, <1>5 DEF Typed, TypedMemory, TypedFlags, InsertFaults, Jump
  <2>2. TypedQueue' /\ TypedElements'
    BY <1>1, <1>5 DEF Typed, TypedQueue, TypedElements, InsertFaults, Jump
  <2>3. TypedPlace'
    BY <1>1, <1>5 DEF Typed, TypedPlace, Pointers, Inserts, InsertFaults, Jump
  <2>4. TypedSession'
    <3>1. TypedCommand'
      BY <1>1, <1>5 DEF Typed, TypedSession, TypedCommand, InsertFaults, Jump
    <3>2. TypedResult'
      BY <1>1, <1>5, Zenon DEF Typed, TypedSession, TypedResult, session, InsertFaults, Jump
    <3>3. TypedCounts'
      BY <1>1, <1>5 DEF Typed, TypedSession, TypedCounts, InsertFaults, Jump
    <3>4. QED
      BY <3>1, <3>2, <3>3 DEF TypedSession
  <2>5. Handled'
    BY <1>1, <1>5 DEF Handled, Freeing, Typed, TypedSession, TypedCommand, TypedCounts,
       Inserting, Linking, Linked, Removed, Removes, FreeLoop, Inserts, InsertFaults, Jump
  <2>6. Surfacing'
    BY <1>1, <1>5 DEF Typed, TypedSession, TypedCommand, TypedResult, TypedCounts, TypedFlags,
       Handled, Surfacing, Excused, Inserts, InsertFaults, Jump
  <2>7. Counted'
    BY <1>1, <1>5 DEF Typed, TypedSession, TypedCommand, TypedResult, TypedCounts, TypedFlags,
       Handled, Counted, Inserts, InsertFaults, Jump
  <2>8. QED
    BY <2>1, <2>2, <2>3, <2>4, <2>5, <2>6, <2>7 DEF Typed, Control
<1>6. CASE Sized
  <2>1. TypedMemory' /\ TypedFlags'
    BY <1>1, <1>6 DEF Typed, TypedMemory, TypedFlags, Sized, EndOfBody, Goto
  <2>2. TypedQueue' /\ TypedElements'
    BY <1>1, <1>6 DEF Typed, TypedQueue, TypedElements, Sized, EndOfBody, Goto
  <2>3. TypedPlace'
    BY <1>1, <1>6, StartFacts DEF Typed, TypedPlace, Pointers, Inserts, Sized, EndOfBody, Goto
  <2>4. TypedSession'
    <3>1. TypedCommand'
      BY <1>1, <1>6 DEF Typed, TypedSession, TypedCommand, Sized, EndOfBody, Goto
    <3>2. TypedResult'
      BY <1>1, <1>6, Zenon DEF Typed, TypedSession, TypedResult, session, Sized, EndOfBody, Goto
    <3>3. TypedCounts'
      BY <1>1, <1>6 DEF Typed, TypedSession, TypedCounts, Sized, EndOfBody, Goto
    <3>4. QED
      BY <3>1, <3>2, <3>3 DEF TypedSession
  <2>5. Handled'
    <3>1. pc' \in {"again", "cancel"} /\ (pc' = "again" => reps > 1)
      BY <1>6 DEF Sized, EndOfBody, Goto
    <3>2. reps \in 0 .. 2 /\ (reps > 1 => reps = 2)
      BY <1>1 DEF Typed, TypedSession, TypedCounts
    <3>3. reps' = reps /\ cmd' = cmd /\ cmd \in Inserts \cup {"size"} /\ owed' = owed
      BY <1>6 DEF Sized, EndOfBody
    <3>4. owed = 0
      BY <1>1, <1>6 DEF Handled, Sized
    <3>5. QED
      BY <3>1, <3>2, <3>3, <3>4 DEF Handled, Inserting, Linking, Linked, Removed, FreeLoop,
         Inserts
  <2>6. Surfacing'
    BY <1>1, <1>6, StartFacts DEF Typed, TypedSession, TypedCommand, TypedResult, TypedCounts,
       TypedFlags, Handled, Surfacing, Excused, Inserts, Sized, EndOfBody, Goto
  <2>7. Counted'
    BY <1>1, <1>6, StartFacts DEF Typed, TypedSession, TypedCommand, TypedResult, TypedCounts,
       TypedFlags, Handled, Counted, Inserts, Sized, EndOfBody, Goto
  <2>8. QED
    BY <2>1, <2>2, <2>3, <2>4, <2>5, <2>6, <2>7 DEF Typed, Control
<1>7. CASE FinishInsert
  <2>1. TypedMemory' /\ TypedFlags'
    BY <1>1, <1>7 DEF Typed, TypedMemory, TypedFlags, FinishInsert, Finish, Goto
  <2>2. TypedQueue' /\ TypedElements'
    BY <1>1, <1>7 DEF Typed, TypedQueue, TypedElements, FinishInsert, Finish, Goto
  <2>3. TypedPlace'
    BY <1>1, <1>7 DEF Typed, TypedPlace, Pointers, Inserts, FinishInsert, Finish, Goto
  <2>4. TypedSession'
    <3>1. TypedCommand'
      BY <1>1, <1>7 DEF Typed, TypedSession, TypedCommand, FinishInsert, Finish, Goto
    <3>2. TypedResult'
      BY <1>1, <1>7, Zenon DEF Typed, TypedSession, TypedResult, session, FinishInsert, Finish,
         Goto
    <3>3. TypedCounts'
      BY <1>1, <1>7 DEF Typed, TypedSession, TypedCounts, FinishInsert, Finish, Goto
    <3>4. QED
      BY <3>1, <3>2, <3>3 DEF TypedSession
  <2>5. Handled'
    BY <1>1, <1>7 DEF Handled, Freeing, Typed, TypedSession, TypedCommand, TypedCounts,
       Inserting, Linking, Linked, Removed, Removes, FreeLoop, Inserts, FinishInsert, Finish,
       Goto
  <2>6. Surfacing'
    BY <1>1, <1>7 DEF Typed, TypedSession, TypedCommand, TypedResult, TypedCounts, TypedFlags,
       Handled, Surfacing, Excused, Inserts, FinishInsert, Finish, Goto
  <2>7. Counted'
    BY <1>1, <1>7 DEF Typed, TypedSession, TypedCommand, TypedResult, TypedCounts, TypedFlags,
       Handled, Counted, Inserts, FinishInsert, Finish, Goto
  <2>8. QED
    BY <2>1, <2>2, <2>3, <2>4, <2>5, <2>6, <2>7 DEF Typed, Control
<1>8. CASE FinishSize
  <2>1. TypedMemory' /\ TypedFlags'
    BY <1>1, <1>8 DEF Typed, TypedMemory, TypedFlags, FinishSize, Finish, Goto
  <2>2. TypedQueue' /\ TypedElements'
    BY <1>1, <1>8 DEF Typed, TypedQueue, TypedElements, FinishSize, Finish, Goto
  <2>3. TypedPlace'
    BY <1>1, <1>8 DEF Typed, TypedPlace, Pointers, Inserts, FinishSize, Finish, Goto
  <2>4. TypedSession'
    <3>1. TypedCommand'
      BY <1>1, <1>8 DEF Typed, TypedSession, TypedCommand, FinishSize, Finish, Goto
    <3>2. TypedResult'
      BY <1>1, <1>8, Zenon DEF Typed, TypedSession, TypedResult, session, FinishSize, Finish,
         Goto
    <3>3. TypedCounts'
      BY <1>1, <1>8 DEF Typed, TypedSession, TypedCounts, FinishSize, Finish, Goto
    <3>4. QED
      BY <3>1, <3>2, <3>3 DEF TypedSession
  <2>5. Handled'
    BY <1>1, <1>8 DEF Handled, Freeing, Typed, TypedSession, TypedCommand, TypedCounts,
       Inserting, Linking, Linked, Removed, Removes, FreeLoop, Inserts, FinishSize, Finish, Goto
  <2>6. Surfacing'
    BY <1>1, <1>8 DEF Typed, TypedSession, TypedCommand, TypedResult, TypedCounts, TypedFlags,
       Handled, Surfacing, Excused, Inserts, FinishSize, Finish, Goto
  <2>7. Counted'
    BY <1>1, <1>8 DEF Typed, TypedSession, TypedCommand, TypedResult, TypedCounts, TypedFlags,
       Handled, Counted, Inserts, FinishSize, Finish, Goto
  <2>8. QED
    BY <2>1, <2>2, <2>3, <2>4, <2>5, <2>6, <2>7 DEF Typed, Control
<1>9. CASE FinishReverse
  <2>1. TypedMemory' /\ TypedFlags'
    BY <1>1, <1>9 DEF Typed, TypedMemory, TypedFlags, FinishReverse, Finish, Goto
  <2>2. TypedQueue' /\ TypedElements'
    BY <1>1, <1>9 DEF Typed, TypedQueue, TypedElements, FinishReverse, Finish, Goto
  <2>3. TypedPlace'
    BY <1>1, <1>9 DEF Typed, TypedPlace, Pointers, Inserts, FinishReverse, Finish, Goto
  <2>4. TypedSession'
    <3>1. TypedCommand'
      BY <1>1, <1>9 DEF Typed, TypedSession, TypedCommand, FinishReverse, Finish, Goto
    <3>2. TypedResult'
      BY <1>1, <1>9, Zenon DEF Typed, TypedSession, TypedResult, session, FinishReverse, Finish,
         Goto
    <3>3. TypedCounts'
      BY <1>1, <1>9 DEF Typed, TypedSession, TypedCounts, FinishReverse, Finish, Goto
    <3>4. QED
      BY <3>1, <3>2, <3>3 DEF TypedSession
  <2>5. Handled'
    BY <1>1, <1>9 DEF Handled, Freeing, Typed, TypedSession, TypedCommand, TypedCounts,
       Inserting, Linking, Linked, Removed, Removes, FreeLoop, Inserts, FinishReverse, Finish,
       Goto
  <2>6. Surfacing'
    BY <1>1, <1>9 DEF Typed, TypedSession, TypedCommand, TypedResult, TypedCounts, TypedFlags,
       Handled, Surfacing, Excused, Inserts, FinishReverse, Finish, Goto
  <2>7. Counted'
    BY <1>1, <1>9 DEF Typed, TypedSession, TypedCommand, TypedResult, TypedCounts, TypedFlags,
       Handled, Counted, Inserts, FinishReverse, Finish, Goto
  <2>8. QED
    BY <2>1, <2>2, <2>3, <2>4, <2>5, <2>6, <2>7 DEF Typed, Control
<1>10. CASE FinishRemove
  <2>1. TypedMemory' /\ TypedFlags'
    BY <1>1, <1>10 DEF Typed, TypedMemory, TypedFlags, FinishRemove, Finish, Goto, Failures,
       Allowed
  <2>2. TypedQueue' /\ TypedElements'
    BY <1>1, <1>10 DEF Typed, TypedQueue, TypedElements, FinishRemove, Finish, Goto, Failures,
       Allowed
  <2>3. TypedPlace'
    BY <1>1, <1>10 DEF Typed, TypedPlace, Pointers, Inserts, FinishRemove, Finish, Goto,
       Failures, Allowed
  <2>4. TypedSession'
    <3>1. TypedCommand'
      BY <1>1, <1>10 DEF Typed, TypedSession, TypedCommand, FinishRemove, Finish, Goto,
         Failures, Allowed
    <3>2. TypedResult'
      BY <1>1, <1>10, Zenon DEF Typed, TypedSession, TypedResult, session, FinishRemove, Finish,
         Goto, Failures, Allowed
    <3>3. TypedCounts'
      <4>1. CASE rval
        <5>1. qcnt' = qcnt - 1 /\ UNCHANGED fail_count /\ reps' = 0 /\ UNCHANGED alarms
          BY <1>10, <4>1 DEF FinishRemove, Finish
        <5>2. QED
          BY <1>1, <5>1 DEF Typed, TypedSession, TypedCounts
      <4>2. CASE ~rval
        <5>1. fail_count' = Failures /\ UNCHANGED qcnt /\ reps' = 0 /\ UNCHANGED alarms
          BY <1>10, <4>2 DEF FinishRemove, Finish
        <5>2. Failures \in 0 .. fail_limit
          BY <1>1 DEF Typed, TypedSession, TypedCounts, Failures
        <5>3. QED
          BY <1>1, <5>1, <5>2 DEF Typed, TypedSession, TypedCounts
      <4>3. QED
        BY <4>1, <4>2
    <3>4. QED
      BY <3>1, <3>2, <3>3 DEF TypedSession
  <2>5. Handled'
    BY <1>1, <1>10 DEF Handled, Freeing, Typed, TypedSession, TypedCommand, TypedCounts,
       Inserting, Linking, Linked, Removed, Removes, FreeLoop, Inserts, FinishRemove, Finish,
       Goto, Failures, Allowed
  <2>6. Surfacing'
    BY <1>1, <1>10 DEF Typed, TypedSession, TypedCommand, TypedResult, TypedCounts, TypedFlags,
       Handled, Surfacing, Excused, Inserts, FinishRemove, Finish, Goto, Failures, Allowed
  <2>7. Counted'
    BY <1>1, <1>10 DEF Typed, TypedSession, TypedCommand, TypedResult, TypedCounts, TypedFlags,
       Handled, Counted, Inserts, FinishRemove, Finish, Goto, Failures, Allowed
  <2>8. QED
    BY <2>1, <2>2, <2>3, <2>4, <2>5, <2>6, <2>7 DEF Typed, Control
<1>11. CASE FinishFree
  <2>1. TypedMemory' /\ TypedFlags'
    BY <1>1, <1>11 DEF Typed, TypedMemory, TypedFlags, FinishFree, Forget, SetUp, Goto
  <2>2. TypedQueue' /\ TypedElements'
    <3>1. TypedQueue'
      BY <1>1, <1>11 DEF Typed, TypedQueue, Pointers, FinishFree, Forget
    <3>2. UNCHANGED <<value, next, corrupt>>
      BY <1>11 DEF FinishFree, Forget
    <3>3. TypedElements'
      BY <1>1, <3>2 DEF Typed, TypedElements
    <3>4. QED
      BY <3>1, <3>3
  <2>3. TypedPlace'
    BY <1>1, <1>11 DEF Typed, TypedPlace, Pointers, Inserts, FinishFree, Forget, SetUp, Goto
  <2>4. TypedSession'
    <3>1. TypedCommand'
      BY <1>1, <1>11 DEF Typed, TypedSession, TypedCommand, FinishFree, Forget, SetUp, Goto
    <3>2. TypedResult'
      BY <1>1, <1>11, Zenon DEF Typed, TypedSession, TypedResult, session, FinishFree, Forget,
         SetUp, Goto
    <3>3. TypedCounts'
      BY <1>1, <1>11 DEF Typed, TypedSession, TypedCounts, FinishFree, Forget, SetUp, Goto
    <3>4. QED
      BY <3>1, <3>2, <3>3 DEF TypedSession
  <2>5. Handled'
    BY <1>1, <1>11 DEF Handled, Freeing, Typed, TypedSession, TypedCommand, TypedCounts,
       Inserting, Linking, Linked, Removed, Removes, FreeLoop, Inserts, FinishFree, Forget,
       SetUp, Goto
  <2>6. Surfacing'
    BY <1>1, <1>11 DEF Typed, TypedSession, TypedCommand, TypedResult, TypedCounts, TypedFlags,
       Handled, Surfacing, Excused, Inserts, FinishFree, Forget, SetUp, Goto
  <2>7. Counted'
    BY <1>1, <1>11 DEF Typed, TypedSession, TypedCommand, TypedResult, TypedCounts, TypedFlags,
       Handled, Counted, Inserts, FinishFree, Forget, SetUp, Goto
  <2>8. QED
    BY <2>1, <2>2, <2>3, <2>4, <2>5, <2>6, <2>7 DEF Typed, Control
<1>12. CASE FinishNew
  <2>1. TypedMemory' /\ TypedFlags'
    BY <1>1, <1>12 DEF Typed, TypedMemory, TypedFlags, FinishNew, Finish, Goto
  <2>2. TypedQueue' /\ TypedElements'
    BY <1>1, <1>12 DEF Typed, TypedQueue, TypedElements, FinishNew, Finish, Goto
  <2>3. TypedPlace'
    BY <1>1, <1>12 DEF Typed, TypedPlace, Pointers, Inserts, FinishNew, Finish, Goto
  <2>4. TypedSession'
    <3>1. TypedCommand'
      BY <1>1, <1>12 DEF Typed, TypedSession, TypedCommand, FinishNew, Finish, Goto
    <3>2. TypedResult'
      BY <1>1, <1>12, Zenon DEF Typed, TypedSession, TypedResult, session, FinishNew, Finish,
         Goto
    <3>3. TypedCounts'
      BY <1>1, <1>12 DEF Typed, TypedSession, TypedCounts, FinishNew, Finish, Goto
    <3>4. QED
      BY <3>1, <3>2, <3>3 DEF TypedSession
  <2>5. Handled'
    BY <1>1, <1>12 DEF Handled, Freeing, Typed, TypedSession, TypedCommand, TypedCounts,
       Inserting, Linking, Linked, Removed, Removes, FreeLoop, Inserts, FinishNew, Finish, Goto
  <2>6. Surfacing'
    BY <1>1, <1>12 DEF Typed, TypedSession, TypedCommand, TypedResult, TypedCounts, TypedFlags,
       Handled, Surfacing, Excused, Inserts, FinishNew, Finish, Goto
  <2>7. Counted'
    BY <1>1, <1>12 DEF Typed, TypedSession, TypedCommand, TypedResult, TypedCounts, TypedFlags,
       Handled, Counted, Inserts, FinishNew, Finish, Goto
  <2>8. QED
    BY <2>1, <2>2, <2>3, <2>4, <2>5, <2>6, <2>7 DEF Typed, Control
<1>13. CASE FinalCheck
  <2>1. TypedMemory' /\ TypedFlags'
    BY <1>1, <1>13 DEF Typed, TypedMemory, TypedFlags, FinalCheck, Goto
  <2>2. TypedQueue' /\ TypedElements'
    BY <1>1, <1>13 DEF Typed, TypedQueue, TypedElements, FinalCheck, Goto
  <2>3. TypedPlace'
    BY <1>1, <1>13 DEF Typed, TypedPlace, Pointers, Inserts, FinalCheck, Goto
  <2>4. TypedSession'
    <3>1. TypedCommand'
      BY <1>1, <1>13 DEF Typed, TypedSession, TypedCommand, FinalCheck, Goto
    <3>2. TypedResult'
      BY <1>1, <1>13, Zenon DEF Typed, TypedSession, TypedResult, session, FinalCheck, Goto
    <3>3. TypedCounts'
      BY <1>1, <1>13 DEF Typed, TypedSession, TypedCounts, FinalCheck, Goto
    <3>4. QED
      BY <3>1, <3>2, <3>3 DEF TypedSession
  <2>5. Handled'
    BY <1>1, <1>13 DEF Handled, Freeing, Typed, TypedSession, TypedCommand, TypedCounts,
       Inserting, Linking, Linked, Removed, Removes, FreeLoop, Inserts, FinalCheck, Goto
  <2>6. Surfacing'
    BY <1>1, <1>13 DEF Typed, TypedSession, TypedCommand, TypedResult, TypedCounts, TypedFlags,
       Handled, Surfacing, Excused, Inserts, FinalCheck, Goto
  <2>7. Counted'
    BY <1>1, <1>13 DEF Typed, TypedSession, TypedCommand, TypedResult, TypedCounts, TypedFlags,
       Handled, Counted, Inserts, FinalCheck, Goto
  <2>8. QED
    BY <2>1, <2>2, <2>3, <2>4, <2>5, <2>6, <2>7 DEF Typed, Control
<1>14. CASE Show
  <2>1. TypedMemory' /\ TypedFlags'
    BY <1>1, <1>14 DEF Typed, TypedMemory, TypedFlags, Show, AfterShow, Goto, ShowOk, Walks
  <2>2. TypedQueue' /\ TypedElements'
    BY <1>1, <1>14 DEF Typed, TypedQueue, TypedElements, Show, AfterShow, Goto, ShowOk, Walks
  <2>3. TypedPlace'
    BY <1>1, <1>14 DEF Typed, TypedPlace, Pointers, Inserts, Show, AfterShow, Goto, ShowOk,
       Walks
  <2>4. TypedSession'
    <3>1. TypedCommand'
      BY <1>1, <1>14 DEF Typed, TypedSession, TypedCommand, Show, AfterShow, Goto, ShowOk, Walks
    <3>2. TypedResult'
      BY <1>1, <1>14, Zenon DEF Typed, TypedSession, TypedResult, session, Show, AfterShow,
         Goto, ShowOk, Walks
    <3>3. TypedCounts'
      BY <1>1, <1>14 DEF Typed, TypedSession, TypedCounts, Show, AfterShow, Goto, ShowOk, Walks
    <3>4. QED
      BY <3>1, <3>2, <3>3 DEF TypedSession
  <2>5. Handled'
    BY <1>1, <1>14 DEF Handled, Freeing, Typed, TypedSession, TypedCommand, TypedCounts,
       Inserting, Linking, Linked, Removed, Removes, FreeLoop, Inserts, Show, AfterShow, Goto,
       ShowOk, Walks
  <2>6. Surfacing'
    BY <1>1, <1>14 DEF Typed, TypedSession, TypedCommand, TypedResult, TypedCounts, TypedFlags,
       Handled, Surfacing, Excused, Inserts, Show, AfterShow, Goto, ShowOk, Walks
  <2>7. Counted'
    BY <1>1, <1>14 DEF Typed, TypedSession, TypedCommand, TypedResult, TypedCounts, TypedFlags,
       Handled, Counted, Inserts, Show, AfterShow, Goto, ShowOk, Walks
  <2>8. QED
    BY <2>1, <2>2, <2>3, <2>4, <2>5, <2>6, <2>7 DEF Typed, Control
<1>15. CASE Raise
  <2>1. TypedMemory' /\ TypedFlags'
    BY <1>1, <1>15 DEF Typed, TypedMemory, TypedFlags, Raise, Jump, Return, Alarm
  <2>2. TypedQueue' /\ TypedElements'
    BY <1>1, <1>15 DEF Typed, TypedQueue, TypedElements, Raise, Jump, Return, Alarm
  <2>3. TypedPlace'
    BY <1>1, <1>15 DEF Typed, TypedPlace, Pointers, Inserts, Raise, Jump, Return, Alarm
  <2>4. TypedSession'
    <3>1. TypedCommand'
      BY <1>1, <1>15 DEF Typed, TypedSession, TypedCommand, Raise, Jump, Return, Alarm
    <3>2. TypedResult'
      BY <1>1, <1>15, Zenon DEF Typed, TypedSession, TypedResult, session, Raise, Jump, Return,
         Alarm
    <3>3. TypedCounts'
      BY <1>1, <1>15 DEF Typed, TypedSession, TypedCounts, Raise, Jump, Return, Alarm
    <3>4. QED
      BY <3>1, <3>2, <3>3 DEF TypedSession
  <2>5. Handled'
    BY <1>1, <1>15 DEF Handled, Freeing, Typed, TypedSession, TypedCommand, TypedCounts,
       Inserting, Linking, Linked, Removed, Removes, FreeLoop, Inserts, Raise, Jump, Return,
       Alarm
  <2>6. Surfacing'
    BY <1>1, <1>15 DEF Typed, TypedSession, TypedCommand, TypedResult, TypedCounts, TypedFlags,
       Handled, Surfacing, Excused, Inserts, Raise, Jump, Return, Alarm
  <2>7. Counted'
    <3>1. alarms' = alarms + 1 /\ alarms \in Nat
      BY <1>1, <1>15 DEF Typed, TypedSession, TypedCounts, Raise, RaiseInLoop, ShowTimesOut,
         Alarm
    <3>2. alarms' # 0
      BY <3>1
    <3>3. QED
      BY <3>2 DEF Counted
  <2>8. QED
    BY <2>1, <2>2, <2>3, <2>4, <2>5, <2>6, <2>7 DEF Typed, Control
<1>16. CASE RaiseInLoop
  <2>1. TypedMemory' /\ TypedFlags'
    BY <1>1, <1>16 DEF Typed, TypedMemory, TypedFlags, RaiseInLoop, Jump, Goto, Alarm
  <2>2. TypedQueue' /\ TypedElements'
    BY <1>1, <1>16 DEF Typed, TypedQueue, TypedElements, RaiseInLoop, Jump, Goto, Alarm
  <2>3. TypedPlace'
    BY <1>1, <1>16 DEF Typed, TypedPlace, Pointers, Inserts, RaiseInLoop, Jump, Goto, Alarm
  <2>4. TypedSession'
    <3>1. TypedCommand'
      BY <1>1, <1>16 DEF Typed, TypedSession, TypedCommand, RaiseInLoop, Jump, Goto, Alarm
    <3>2. TypedResult'
      BY <1>1, <1>16, Zenon DEF Typed, TypedSession, TypedResult, session, RaiseInLoop, Jump,
         Goto, Alarm
    <3>3. TypedCounts'
      BY <1>1, <1>16 DEF Typed, TypedSession, TypedCounts, RaiseInLoop, Jump, Goto, Alarm
    <3>4. QED
      BY <3>1, <3>2, <3>3 DEF TypedSession
  <2>5. Handled'
    BY <1>1, <1>16 DEF Handled, Freeing, Typed, TypedSession, TypedCommand, TypedCounts,
       Inserting, Linking, Linked, Removed, Removes, FreeLoop, Inserts, RaiseInLoop, Jump, Goto,
       Alarm
  <2>6. Surfacing'
    BY <1>1, <1>16 DEF Typed, TypedSession, TypedCommand, TypedResult, TypedCounts, TypedFlags,
       Handled, Surfacing, Excused, Inserts, RaiseInLoop, Jump, Goto, Alarm
  <2>7. Counted'
    <3>1. alarms' = alarms + 1 /\ alarms \in Nat
      BY <1>1, <1>16 DEF Typed, TypedSession, TypedCounts, Raise, RaiseInLoop, ShowTimesOut,
         Alarm
    <3>2. alarms' # 0
      BY <3>1
    <3>3. QED
      BY <3>2 DEF Counted
  <2>8. QED
    BY <2>1, <2>2, <2>3, <2>4, <2>5, <2>6, <2>7 DEF Typed, Control
<1>17. CASE ShowTimesOut
  <2>1. TypedMemory' /\ TypedFlags'
    BY <1>1, <1>17 DEF Typed, TypedMemory, TypedFlags, ShowTimesOut, AfterShow, Goto, Alarm
  <2>2. TypedQueue' /\ TypedElements'
    BY <1>1, <1>17 DEF Typed, TypedQueue, TypedElements, ShowTimesOut, AfterShow, Goto, Alarm
  <2>3. TypedPlace'
    BY <1>1, <1>17 DEF Typed, TypedPlace, Pointers, Inserts, ShowTimesOut, AfterShow, Goto,
       Alarm
  <2>4. TypedSession'
    <3>1. TypedCommand'
      BY <1>1, <1>17 DEF Typed, TypedSession, TypedCommand, ShowTimesOut, AfterShow, Goto, Alarm
    <3>2. TypedResult'
      BY <1>1, <1>17, Zenon DEF Typed, TypedSession, TypedResult, session, ShowTimesOut,
         AfterShow, Goto, Alarm
    <3>3. TypedCounts'
      BY <1>1, <1>17 DEF Typed, TypedSession, TypedCounts, ShowTimesOut, AfterShow, Goto, Alarm
    <3>4. QED
      BY <3>1, <3>2, <3>3 DEF TypedSession
  <2>5. Handled'
    BY <1>1, <1>17 DEF Handled, Freeing, Typed, TypedSession, TypedCommand, TypedCounts,
       Inserting, Linking, Linked, Removed, Removes, FreeLoop, Inserts, ShowTimesOut, AfterShow,
       Goto, Alarm
  <2>6. Surfacing'
    <3>1. PICK seen \in BOOLEAN :
            /\ seen => Walks
            /\ error_occurred' = ~seen
            /\ ok' = IF cmd = "show" /\ seen THEN FALSE ELSE ok
      BY <1>17 DEF ShowTimesOut
    <3>2. cmd' = cmd /\ verbose' = verbose /\ raised' = IF raised = "no" THEN "outside" ELSE raised
      BY <1>17 DEF ShowTimesOut
    <3>3. CASE cmd = "show"
      BY <3>2, <3>3 DEF Surfacing, Excused
    <3>4. CASE cmd # "show"
      <4>1. pc = "show" /\ pc' = "check" /\ ok' = ok /\ verbose /\ cmd \notin {"quit", "free"}
        BY <1>1, <1>17, <3>1, <3>4 DEF ShowTimesOut, AfterShow, Goto, Handled
      <4>2. CASE cmd \in Inserts \cup {"size"}
        BY <1>1, <3>2, <4>1, <4>2 DEF Surfacing, Excused, Inserts
      <4>3. CASE cmd = "new"
        <5>1. ~seen
          BY <1>1, <3>1, <4>1, <4>3 DEF Handled, Walks
        <5>2. error_occurred'
          BY <3>1, <5>1, Zenon
        <5>3. QED
          BY <3>2, <4>1, <4>3, <5>2 DEF Surfacing, Inserts
      <4>4. CASE cmd \in {"rh", "rh str", "rhq", "reverse"}
        BY <3>2, <4>1, <4>4 DEF Surfacing, Excused
      <4>5. QED
        BY <1>1, <3>4, <4>1, <4>2, <4>3, <4>4 DEF Typed, TypedSession, TypedCommand
    <3>5. QED
      BY <3>3, <3>4
  <2>7. Counted'
    <3>1. alarms' = alarms + 1 /\ alarms \in Nat
      BY <1>1, <1>17 DEF Typed, TypedSession, TypedCounts, Raise, RaiseInLoop, ShowTimesOut,
         Alarm
    <3>2. alarms' # 0
      BY <3>1
    <3>3. QED
      BY <3>2 DEF Counted
  <2>8. QED
    BY <2>1, <2>2, <2>3, <2>4, <2>5, <2>6, <2>7 DEF Typed, Control
<1>18. CASE NextTurn
  <2>1. TypedMemory' /\ TypedFlags'
    BY <1>1, <1>18 DEF Typed, TypedMemory, TypedFlags, session, NextTurn, Goto
  <2>2. TypedQueue' /\ TypedElements'
    BY <1>1, <1>18 DEF Typed, TypedQueue, TypedElements, session, NextTurn, Goto
  <2>3. TypedPlace'
    BY <1>1, <1>18, StartFacts DEF Typed, TypedPlace, Pointers, Handled, Inserts, NextTurn, Goto
  <2>4. TypedSession'
    <3>1. TypedCommand'
      BY <1>1, <1>18 DEF Typed, TypedSession, TypedCommand, session, NextTurn, Goto
    <3>2. TypedResult'
      BY <1>1, <1>18, Zenon DEF Typed, TypedSession, TypedResult, session, NextTurn, Goto
    <3>3. TypedCounts'
      BY <1>1, <1>18 DEF Typed, TypedSession, TypedCounts, Handled, session, NextTurn, Goto
    <3>4. QED
      BY <3>1, <3>2, <3>3 DEF TypedSession
  <2>5. Handled'
    BY <1>1, <1>18, StartFacts DEF Handled, Freeing, Typed, TypedSession, TypedCommand,
       TypedCounts, session, Inserting, Linking, Linked, Removed, Removes, FreeLoop, Inserts,
       NextTurn, Goto
  <2>6. Surfacing'
    BY <1>1, <1>18, StartFacts DEF Typed, TypedSession, TypedCommand, TypedResult, TypedCounts,
       TypedFlags, Handled, Surfacing, Excused, session, Inserts, NextTurn, Goto
  <2>7. Counted'
    BY <1>1, <1>18, StartFacts DEF Typed, TypedSession, TypedCommand, TypedResult, TypedCounts,
       TypedFlags, Handled, Counted, session, Inserts, NextTurn, Goto
  <2>8. QED
    BY <2>1, <2>2, <2>3, <2>4, <2>5, <2>6, <2>7 DEF Typed, Control
<1>19. CASE InsertExits
  <2>1. TypedMemory' /\ TypedFlags'
    BY <1>1, <1>19 DEF Typed, TypedMemory, TypedFlags, session, InsertExits, Goto
  <2>2. TypedQueue' /\ TypedElements'
    BY <1>1, <1>19 DEF Typed, TypedQueue, TypedElements, session, InsertExits, Goto
  <2>3. TypedPlace'
    BY <1>1, <1>19 DEF Typed, TypedPlace, Pointers, Handled, Inserts, InsertExits, Goto
  <2>4. TypedSession'
    <3>1. TypedCommand'
      BY <1>1, <1>19 DEF Typed, TypedSession, TypedCommand, session, InsertExits, Goto
    <3>2. TypedResult'
      BY <1>1, <1>19, Zenon DEF Typed, TypedSession, TypedResult, session, InsertExits, Goto
    <3>3. TypedCounts'
      BY <1>1, <1>19 DEF Typed, TypedSession, TypedCounts, Handled, session, InsertExits, Goto
    <3>4. QED
      BY <3>1, <3>2, <3>3 DEF TypedSession
  <2>5. Handled'
    BY <1>1, <1>19 DEF Handled, Freeing, Typed, TypedSession, TypedCommand, TypedCounts,
       session, Inserting, Linking, Linked, Removed, Removes, FreeLoop, Inserts, InsertExits,
       Goto
  <2>6. Surfacing'
    BY <1>1, <1>19 DEF Typed, TypedSession, TypedCommand, TypedResult, TypedCounts, TypedFlags,
       Handled, Surfacing, Excused, session, Inserts, InsertExits, Goto
  <2>7. Counted'
    BY <1>1, <1>19 DEF Typed, TypedSession, TypedCommand, TypedResult, TypedCounts, TypedFlags,
       Handled, Counted, session, Inserts, InsertExits, Goto
  <2>8. QED
    BY <2>1, <2>2, <2>3, <2>4, <2>5, <2>6, <2>7 DEF Typed, Control
<1>20. QED
  BY <1>2, <1>3, <1>4, <1>5, <1>6, <1>7, <1>8, <1>9, <1>10, <1>11, <1>12, <1>13, <1>14, <1>15,
     <1>16, <1>17, <1>18, <1>19 DEF Progress, Interruption

LEMMA PromptControl ==
  ASSUME Control, Commands
  PROVE  Control'
<1> USE DEF Inside, Starts, Outside, memory, flags, struct, elements, locals, queueVars, history
<1>1. Typed /\ Handled /\ Counted /\ Surfacing
  BY DEF Control
<1>2. ASSUME NEW c, NEW n, Command(c, n), n \in 0 .. 2,
             \/ c \in Inserts \cup {"free", "reverse", "size"} \cup Removes
             \/ c = "new" /\ n = IF q = Null THEN 1 ELSE 2
      PROVE  Control'
  <2>1. TypedMemory' /\ TypedFlags'
    BY <1>1, <1>2 DEF Typed, TypedMemory, TypedFlags, Command, SetUp
  <2>2. TypedQueue' /\ TypedElements'
    BY <1>1, <1>2 DEF Typed, TypedQueue, TypedElements, Command
  <2>3. TypedPlace'
    BY <1>1, <1>2, StartFacts DEF Typed, TypedPlace, Command, Goto, Inserts
  <2>4. TypedSession'
    BY <1>1, <1>2 DEF Typed, TypedSession, TypedCommand, TypedResult, TypedCounts, Command,
       Removes
  <2>5. Handled'
    BY <1>1, <1>2, StartFacts
    DEF Handled, Freeing, Inserting, Linking, Linked, Removed, Removes, FreeLoop, Inserts, Command, Goto
  <2>6. Surfacing'
    BY <1>2 DEF Surfacing, Command
  <2>7. Counted'
    BY <1>1, <1>2, StartFacts DEF Handled, Counted, Command, Goto, Inserts, Removes
  <2>8. QED
    BY <2>1, <2>2, <2>3, <2>4, <2>5, <2>6, <2>7 DEF Typed, Control
<1>3. CASE ShowCommand
  <2>1. TypedMemory' /\ TypedFlags' /\ TypedQueue' /\ TypedElements' /\ TypedPlace'
    BY <1>1, <1>3
    DEF Typed, TypedMemory, TypedFlags, TypedQueue, TypedElements, TypedPlace, ShowCommand, Goto
  <2>2. TypedSession'
    BY <1>1, <1>3 DEF Typed, TypedSession, TypedCommand, TypedResult, TypedCounts, ShowCommand
  <2>3. Handled'
    BY <1>1, <1>3
    DEF Handled, Inserting, Linking, Linked, Removed, FreeLoop, ShowCommand, Goto
  <2>4. Surfacing' /\ Counted'
    BY <1>1, <1>3 DEF Surfacing, Counted, ShowCommand, Goto
  <2>5. QED
    BY <2>1, <2>2, <2>3, <2>4 DEF Typed, Control
<1>4. MaxReps \in 1 .. 2 /\ 1 \in 0 .. 2 /\ 2 \in 0 .. 2
  BY CommandsAssumption
<1>5. ASSUME NEW c \in Inserts, NEW n \in 1 .. MaxReps, Command(c, n) PROVE Control'
  <2>1. n \in 0 .. 2
    BY <1>4
  <2>2. QED
    BY <1>2, <1>5, <2>1
<1>6. ASSUME NEW c \in {"free", "rh", "rh str", "rhq", "reverse", "size"}, Command(c, 1) PROVE Control'
  <2>1. c \in Inserts \cup {"free", "reverse", "size"} \cup Removes
    BY <1>6 DEF Removes
  <2>2. QED
    BY <1>2, <1>4, <1>6, <2>1
<1>7. CASE Command("new", IF q = Null THEN 1 ELSE 2)
  <2>1. (IF q = Null THEN 1 ELSE 2) \in 0 .. 2
    BY <1>4
  <2>2. QED
    BY <1>2, <1>7, <2>1
<1>8. QED
  BY <1>3, <1>5, <1>6, <1>7 DEF Commands

-----------------------------------------------------------------------------
(* What a list is made of, when memory changes.                            *)
LEMMA WholeMore ==
  ASSUME NEW s, NEW a, NEW b, NEW v, Whole(s, a, v), a \subseteq b
  PROVE  Whole(s, b, v)
  BY DEF Whole

(* A block that is not allocated is none of an allocated list.             *)
LEMMA FreshApart ==
  ASSUME NEW s, NEW a, NEW v, NEW b, Whole(s, a, v), b \notin a
  PROVE  Apart(b, s, v)
  BY DEF Whole, Apart

(* Writing to a block that is none of the list.                            *)
Untouched(s, a, b, v, w) ==
  /\ Whole(s, a \ {b}, w) /\ Whole(s, a, w)
  /\ \A c : Apart(c, s, v) => Apart(c, s, w)
  /\ Strings(s, w) = Strings(s, v)

LEMMA WriteApart ==
  ASSUME NEW s \in Seq(Blocks), NEW a, NEW v \in [Blocks -> Pointers], NEW b \in Blocks, NEW x,
         Whole(s, a, v), Apart(b, s, v)
  PROVE  Untouched(s, a, b, v, [v EXCEPT ![b] = x])
<1> DEFINE w == [v EXCEPT ![b] = x]
<1>1. \A k \in DOMAIN s : s[k] \in Blocks /\ s[k] # b /\ v[s[k]] # b
  BY SeqFacts DEF Apart
<1>2. \A k \in DOMAIN s : w[s[k]] = v[s[k]]
  BY <1>1
<1> HIDE DEF w
<1>3. Whole(s, a \ {b}, w) /\ Whole(s, a, w)
  BY <1>1, <1>2 DEF Whole
<1>4. \A c : Apart(c, s, v) => Apart(c, s, w)
  BY <1>2 DEF Apart
<1>5. Strings(s, w) = Strings(s, v)
  BY <1>2 DEF Strings
<1>6. QED
  BY <1>3, <1>4, <1>5 DEF w, Untouched

LEMMA ChainApart ==
  ASSUME NEW s \in Seq(Blocks), NEW p, NEW nx \in [Blocks -> Pointers], NEW v, NEW b \in Blocks, NEW x,
         Chain(p, s, nx), Apart(b, s, v)
  PROVE  Chain(p, s, [nx EXCEPT ![b] = x])
<1>1. \A k \in DOMAIN s : s[k] \in Blocks /\ s[k] # b
  BY SeqFacts DEF Apart
<1>2. \A k \in DOMAIN s : [nx EXCEPT ![b] = x][s[k]] = nx[s[k]]
  BY <1>1
<1>3. QED
  BY <1>2, ChainSame

(* The first element of a list, when it is taken off.                      *)
Popped(s, t, p, nx, a, v) ==
  /\ Chain(nx[p], t, nx) /\ Whole(t, a, v)
  /\ p \in a /\ v[p] \in a /\ v[p] # p /\ Apart(p, t, v) /\ Apart(v[p], t, v)
  /\ \A c : Apart(c, s, v) => Apart(c, t, v) /\ c # p /\ c # v[p]
  /\ Elements(s) = Elements(t) \cup {p} /\ Strings(s, v) = Strings(t, v) \cup {v[p]}
  /\ Len(t) = Len(s) - 1 /\ Len(s) \in Nat

LEMMA WholePop ==
  ASSUME NEW s \in Seq(Blocks), NEW p, NEW nx, NEW a, NEW v, p # Null, Chain(p, s, nx), Whole(s, a, v)
  PROVE  \E t \in Seq(Blocks) : Popped(s, t, p, nx, a, v)
<1> DEFINE t == Tail(s)
<1>1. /\ s # <<>> /\ s[1] = p /\ 1 \in DOMAIN s /\ Len(s) \in Nat
      /\ t \in Seq(Blocks) /\ Len(t) = Len(s) - 1
      /\ \A k \in DOMAIN t : k \in Nat /\ k + 1 \in DOMAIN s /\ k + 1 # 1 /\ t[k] = s[k + 1]
      /\ Chain(nx[p], t, nx)
  BY ChainPop
<1>2. \A k \in DOMAIN s : k # 1 => k - 1 \in DOMAIN t /\ t[k - 1] = s[k]
  <2>1. DOMAIN s = 1 .. Len(s) /\ DOMAIN t = 1 .. Len(t)
    BY <1>1, SeqFacts
  <2>2. SUFFICES ASSUME NEW k \in DOMAIN s, k # 1 PROVE k - 1 \in DOMAIN t /\ t[k - 1] = s[k]
    OBVIOUS
  <2> HIDE DEF t
  <2>3. k - 1 \in DOMAIN t /\ k - 1 + 1 = k
    BY <1>1, <2>1, <2>2
  <2>4. QED
    BY <1>1, <2>3
<1> HIDE DEF t
<1>3. \A i, j \in DOMAIN s : s[i] = s[j] => i = j
  BY DEF Chain
<1>4. Whole(t, a, v)
  <2>1. \A k \in DOMAIN t : t[k] \in a /\ v[t[k]] \in a
    BY <1>1 DEF Whole
  <2>2. \A i, j \in DOMAIN t : v[t[i]] # t[j]
    BY <1>1 DEF Whole
  <2>3. ASSUME NEW i \in DOMAIN t, NEW j \in DOMAIN t, v[t[i]] = v[t[j]] PROVE i = j
    <3>1. i + 1 = j + 1
      BY <1>1, <2>3 DEF Whole
    <3>2. QED
      BY <1>1, <3>1
  <2>4. QED
    BY <2>1, <2>2, <2>3 DEF Whole
<1>5. p \in a /\ v[p] \in a /\ v[p] # p
  BY <1>1 DEF Whole
<1>6. Apart(p, t, v)
  <2>1. SUFFICES ASSUME NEW k \in DOMAIN t PROVE t[k] # p /\ v[t[k]] # p
    BY DEF Apart
  <2>2. k + 1 \in DOMAIN s /\ k + 1 # 1 /\ t[k] = s[k + 1]
    BY <1>1
  <2>3. s[k + 1] # s[1]
    BY <1>1, <1>3, <2>2
  <2>4. v[s[k + 1]] # s[1]
    BY <1>1, <2>2 DEF Whole
  <2>5. QED
    BY <1>1, <2>2, <2>3, <2>4
<1>7. Apart(v[p], t, v)
  <2>1. SUFFICES ASSUME NEW k \in DOMAIN t PROVE t[k] # v[p] /\ v[t[k]] # v[p]
    BY DEF Apart
  <2>2. k + 1 \in DOMAIN s /\ k + 1 # 1 /\ t[k] = s[k + 1]
    BY <1>1
  <2>3. v[s[1]] # s[k + 1]
    BY <1>1, <2>2 DEF Whole
  <2>4. v[s[k + 1]] # v[s[1]]
    BY <1>1, <2>2 DEF Whole
  <2>5. QED
    BY <1>1, <2>2, <2>3, <2>4
<1>8. ASSUME NEW c, Apart(c, s, v) PROVE Apart(c, t, v) /\ c # p /\ c # v[p]
  BY <1>1, <1>8 DEF Apart
<1>9. Elements(s) = Elements(t) \cup {p}
  <2>1. \A k \in DOMAIN s : s[k] \in Elements(t) \cup {p}
    BY <1>1, <1>2 DEF Elements
  <2>2. \A k \in DOMAIN t : t[k] \in Elements(s)
    BY <1>1 DEF Elements
  <2>3. p \in Elements(s)
    BY <1>1 DEF Elements
  <2>4. QED
    BY <2>1, <2>2, <2>3 DEF Elements
<1>10. Strings(s, v) = Strings(t, v) \cup {v[p]}
  <2>1. \A k \in DOMAIN s : v[s[k]] \in Strings(t, v) \cup {v[p]}
    BY <1>1, <1>2 DEF Strings
  <2>2. \A k \in DOMAIN t : v[t[k]] \in Strings(s, v)
    BY <1>1 DEF Strings
  <2>3. v[p] \in Strings(s, v)
    BY <1>1 DEF Strings
  <2>4. QED
    BY <2>1, <2>2, <2>3 DEF Strings
<1>11. QED
  BY <1>1, <1>4, <1>5, <1>6, <1>7, <1>8, <1>9, <1>10 DEF Popped

(* A list that has a further element, wherever that is.                    *)
LEMMA WholeGrown ==
  ASSUME NEW s \in Seq(Blocks), NEW t \in Seq(Blocks), NEW a, NEW v, NEW b,
         Whole(s, a, v), \A i, j \in DOMAIN t : t[i] = t[j] => i = j,
         \A k \in DOMAIN t : t[k] = b \/ (\E m \in DOMAIN s : t[k] = s[m]),
         \A i, j \in DOMAIN s : s[i] = s[j] => i = j,
         b \in a, v[b] \in a, v[b] # b, Apart(b, s, v), Apart(v[b], s, v)
  PROVE  Whole(t, a, v) /\ \A c : c # b /\ c # v[b] /\ Apart(c, s, v) => Apart(c, t, v)
<1>1. \A k \in DOMAIN t : t[k] \in a /\ v[t[k]] \in a
  BY DEF Whole
<1>2. ASSUME NEW i \in DOMAIN t, NEW j \in DOMAIN t PROVE v[t[i]] # t[j]
  BY DEF Whole, Apart
<1>3. ASSUME NEW i \in DOMAIN t, NEW j \in DOMAIN t, v[t[i]] = v[t[j]] PROVE t[i] = t[j]
  <2>1. CASE t[i] = b /\ t[j] = b
    BY <2>1
  <2>2. CASE t[i] = b /\ t[j] # b
    BY <1>3, <2>2 DEF Apart
  <2>3. CASE t[i] # b /\ t[j] = b
    BY <1>3, <2>3 DEF Apart
  <2>4. CASE t[i] # b /\ t[j] # b
    BY <1>3, <2>4 DEF Whole
  <2>5. QED
    BY <2>1, <2>2, <2>3, <2>4
<1>4. Whole(t, a, v)
  BY <1>1, <1>2, <1>3 DEF Whole
<1>5. ASSUME NEW c, c # b, c # v[b], Apart(c, s, v) PROVE Apart(c, t, v)
  BY <1>5 DEF Apart
<1>6. QED
  BY <1>4, <1>5

LEMMA NoList ==
  /\ <<>> \in Seq(Blocks) /\ Len(<<>>) = 0
  /\ \A v : Elements(<<>>) = {} /\ Strings(<<>>, v) = {}
  /\ \A a, v : Whole(<<>>, a, v)
  /\ \A b, v : Apart(b, <<>>, v)
  BY DEF Elements, Strings, Whole, Apart

-----------------------------------------------------------------------------
(* Steps that leave the list as it is.                                     *)
Holding == OneSpare \cup TwoSpare \cup {"new_fields"}
Plain == pc \notin FreeLoop \cup {"reverse_loop"} \cup Holding /\ ~Freed

LEMMA SameShape ==
  ASSUME NEW s \in Seq(Blocks), Shape(s), Plain, Plain', UNCHANGED <<allocated, value, next, head, q>>,
         pc' \in Linked => pc \in Linked, pc' = "q_new" => q = Null,
         pc' = "returned" /\ cmd' = "new" => s = <<>>
  PROVE  Shape(s)'
<1> USE DEF Linking, Linked, FreeLoop, OneSpare, TwoSpare, Holding
<1>1. Lists(s)'
  BY DEF Shape, Lists, Plain
<1>2. Whole(s, allocated, value)'
  BY DEF Shape
<1>3. QueueThere(s)'
  BY DEF Shape, QueueThere, Plain
<1>4. AtHand(s)'
  BY DEF AtHand, Plain
<1>5. QED
  BY <1>1, <1>2, <1>3, <1>4 DEF Shape

LEMMA SameAccounts ==
  ASSUME NEW s \in Seq(Blocks), Accounted(s), Plain, Plain', UNCHANGED <<allocated, value, q>>
  PROVE  Accounted(s)'
<1> USE DEF OneSpare, TwoSpare, Holding
<1>1. Queued' = Queued
  BY DEF Queued, Plain
<1>2. Pending = {} /\ Pending' = {}
  BY DEF Pending, Plain
<1>3. Strings(s, value)' = Strings(s, value)
  OBVIOUS
<1>4. QED
  BY <1>1, <1>2, <1>3 DEF Accounted, Plain, FreeLoop

LEMMA TallyOf ==
  ASSUME NEW s, alarms' = 0 /\ ~lost' => Accounted(s)' /\ Clean' /\ Sizes(s)'
  PROVE  Tally(s)'
  BY DEF Tally

LEMMA PlainSteps ==
  ASSUME Control, Control', NEW s, Heap(s),
         \/ (HeadTail \/ TailTail \/ InsertSize
            \/ InsertUndone \/ RemoveNothing(cmd # "rhq") \/ RemoveSize \/ Size(qcnt)) /\ UNCHANGED session
         \/ Inserted \/ InsertFailed \/ InsertFaults \/ InsertExits \/ Sized \/ NextTurn
         \/ FinishInsert \/ FinishSize \/ FinishReverse
         \/ FinishRemove \/ FinishNew \/ FinalCheck \/ Show \/ ShowTimesOut \/ RaiseInLoop \/ ShowCommand
  PROVE  Heap(s)'
<1> USE DEF memory, flags, struct, elements, locals, queueVars, history
<1>1. s \in Seq(Blocks) /\ Shape(s) /\ Tally(s)
  BY DEF Heap
<1>2. Typed /\ Handled /\ TypedMemory /\ TypedQueue /\ TypedSession /\ TypedPlace
  BY DEF Control, Typed
<1>3. Len(s) \in Nat /\ (s = <<>> <=> Len(s) = 0)
  BY <1>1, SeqFacts
<1>4. CASE HeadTail /\ UNCHANGED session
  <2>1. UNCHANGED <<allocated, value, next, head, q>>
    BY <1>4 DEF HeadTail, At, Goto, session
  <2>2. Plain /\ Plain'
    BY <1>2, <1>4 DEF Plain, Freed, Freeing, Handled, Inserting, Linking, Linked, Removed,
       Removes, FreeLoop, OneSpare, TwoSpare, Holding, Inserts, Inside, Starts, Outside,
       TypedSession, TypedCommand, TypedCounts, HeadTail, At, Goto, session
  <2>3. /\ pc' \in Linked => pc \in Linked
        /\ pc' # "q_new"
        /\ pc' = "returned" /\ cmd' = "new" => s = <<>>
    BY <1>1, <1>2, <1>4 DEF Shape, QueueThere, Handled, Inserting, Linking, Linked, Removed,
       Removes, Inserts, HeadTail, At, Goto, session
  <2>4. Shape(s)'
    BY <1>1, <2>1, <2>2, <2>3, SameShape
  <2>5. ASSUME alarms' = 0, ~lost' PROVE Accounted(s)' /\ Clean' /\ Sizes(s)'
    <3>1. alarms = 0 /\ ~lost
      BY <1>4, <2>5 DEF HeadTail, At, Goto, session
    <3>2. Accounted(s) /\ Clean /\ Sizes(s)
      BY <1>1, <3>1 DEF Tally
    <3>3. Accounted(s)'
      BY <1>1, <2>1, <2>2, <3>2, SameAccounts
    <3>4. Clean'
      BY <1>2, <1>4, <3>2 DEF Clean, Handled, Inserts, HeadTail, At, Goto, session
    <3>5. Sizes(s)'
      BY <1>1, <1>2, <1>3, <1>4, <2>2, <3>2 DEF Sizes, Ahead, AheadOfHandler, TypedQueue,
         TypedSession, TypedCounts, Plain, Freed, Freeing, Handled, Inserting, Linking, Linked,
         Removed, Removes, FreeLoop, OneSpare, TwoSpare, Holding, Inserts, Inside, Starts,
         Outside, HeadTail, At, Goto, session
    <3>6. QED
      BY <3>3, <3>4, <3>5
  <2>6. QED
    BY <1>1, <2>4, <2>5, TallyOf DEF Heap
<1>5. CASE TailTail /\ UNCHANGED session
  <2>1. UNCHANGED <<allocated, value, next, head, q>>
    BY <1>5 DEF TailTail, At, Goto, session
  <2>2. Plain /\ Plain'
    BY <1>2, <1>5 DEF Plain, Freed, Freeing, Handled, Inserting, Linking, Linked, Removed,
       Removes, FreeLoop, OneSpare, TwoSpare, Holding, Inserts, Inside, Starts, Outside,
       TypedSession, TypedCommand, TypedCounts, TailTail, At, Goto, session
  <2>3. /\ pc' \in Linked => pc \in Linked
        /\ pc' # "q_new"
        /\ pc' = "returned" /\ cmd' = "new" => s = <<>>
    BY <1>1, <1>2, <1>5 DEF Shape, QueueThere, Handled, Inserting, Linking, Linked, Removed,
       Removes, Inserts, TailTail, At, Goto, session
  <2>4. Shape(s)'
    BY <1>1, <2>1, <2>2, <2>3, SameShape
  <2>5. ASSUME alarms' = 0, ~lost' PROVE Accounted(s)' /\ Clean' /\ Sizes(s)'
    <3>1. alarms = 0 /\ ~lost
      BY <1>5, <2>5 DEF TailTail, At, Goto, session
    <3>2. Accounted(s) /\ Clean /\ Sizes(s)
      BY <1>1, <3>1 DEF Tally
    <3>3. Accounted(s)'
      BY <1>1, <2>1, <2>2, <3>2, SameAccounts
    <3>4. Clean'
      BY <1>2, <1>5, <3>2 DEF Clean, Handled, Inserts, TailTail, At, Goto, session
    <3>5. Sizes(s)'
      BY <1>1, <1>2, <1>3, <1>5, <2>2, <3>2 DEF Sizes, Ahead, AheadOfHandler, TypedQueue,
         TypedSession, TypedCounts, Plain, Freed, Freeing, Handled, Inserting, Linking, Linked,
         Removed, Removes, FreeLoop, OneSpare, TwoSpare, Holding, Inserts, Inside, Starts,
         Outside, TailTail, At, Goto, session
    <3>6. QED
      BY <3>3, <3>4, <3>5
  <2>6. QED
    BY <1>1, <2>4, <2>5, TallyOf DEF Heap
<1>6. CASE InsertSize /\ UNCHANGED session
  <2>1. UNCHANGED <<allocated, value, next, head, q>>
    BY <1>6 DEF InsertSize, At, Return, session
  <2>2. Plain /\ Plain'
    BY <1>2, <1>6 DEF Plain, Freed, Freeing, Handled, Inserting, Linking, Linked, Removed,
       Removes, FreeLoop, OneSpare, TwoSpare, Holding, Inserts, Inside, Starts, Outside,
       TypedSession, TypedCommand, TypedCounts, InsertSize, At, Return, session
  <2>3. /\ pc' \in Linked => pc \in Linked
        /\ pc' # "q_new"
        /\ pc' = "returned" /\ cmd' = "new" => s = <<>>
    BY <1>1, <1>2, <1>6 DEF Shape, QueueThere, Handled, Inserting, Linking, Linked, Removed,
       Removes, Inserts, InsertSize, At, Return, session
  <2>4. Shape(s)'
    BY <1>1, <2>1, <2>2, <2>3, SameShape
  <2>5. ASSUME alarms' = 0, ~lost' PROVE Accounted(s)' /\ Clean' /\ Sizes(s)'
    <3>1. alarms = 0 /\ ~lost
      BY <1>6, <2>5 DEF InsertSize, At, Return, session
    <3>2. Accounted(s) /\ Clean /\ Sizes(s)
      BY <1>1, <3>1 DEF Tally
    <3>3. Accounted(s)'
      BY <1>1, <2>1, <2>2, <3>2, SameAccounts
    <3>4. Clean'
      BY <1>2, <1>6, <3>2 DEF Clean, Handled, Inserts, InsertSize, At, Return, session
    <3>5. Sizes(s)'
      <4>1. size = Len(s) - (1) /\ qcnt = Len(s) - (1)
        BY <1>2, <1>6, <2>2, <3>2 DEF Sizes, Ahead, AheadOfHandler, Plain, Linked, Removed,
           Removes, Inserts, Handled, Inserting, InsertSize, At, Return, session
      <4>2. size' = size + 1 /\ qcnt' = qcnt
        BY <1>6 DEF InsertSize, At, Return, session
      <4>3. Ahead' = 0 /\ AheadOfHandler' = 1
        BY <1>2, <1>6 DEF Ahead, AheadOfHandler, Linked, Removed, Removes, Inserts, Handled,
           Inserting, InsertSize, At, Return, session
      <4>4. /\ pc' \in Linked \/ (pc' = "returned" /\ cmd' \in Inserts /\ rval') => s # <<>>
            /\ pc' \notin FreeLoop /\ ~Freed'
        BY <1>2, <1>6, <2>2, <3>2 DEF Sizes, Plain, Handled, Removed, Removes, Linked, Inserts,
           InsertSize, At, Return, session
      <4>5. QED
        BY <1>2, <1>3, <4>1, <4>2, <4>3, <4>4 DEF Sizes, TypedQueue, TypedSession, TypedCounts
    <3>6. QED
      BY <3>3, <3>4, <3>5
  <2>6. QED
    BY <1>1, <2>4, <2>5, TallyOf DEF Heap
<1>7. CASE InsertUndone /\ UNCHANGED session
  <2>1. UNCHANGED <<allocated, value, next, head, q>>
    BY <1>7 DEF InsertUndone, At, Return, session
  <2>2. Plain /\ Plain'
    BY <1>2, <1>7 DEF Plain, Freed, Freeing, Handled, Inserting, Linking, Linked, Removed,
       Removes, FreeLoop, OneSpare, TwoSpare, Holding, Inserts, Inside, Starts, Outside,
       TypedSession, TypedCommand, TypedCounts, InsertUndone, At, Return, session
  <2>3. /\ pc' \in Linked => pc \in Linked
        /\ pc' # "q_new"
        /\ pc' = "returned" /\ cmd' = "new" => s = <<>>
    BY <1>1, <1>2, <1>7 DEF Shape, QueueThere, Handled, Inserting, Linking, Linked, Removed,
       Removes, Inserts, InsertUndone, At, Return, session
  <2>4. Shape(s)'
    BY <1>1, <2>1, <2>2, <2>3, SameShape
  <2>5. ASSUME alarms' = 0, ~lost' PROVE Accounted(s)' /\ Clean' /\ Sizes(s)'
    <3>1. alarms = 0 /\ ~lost
      BY <1>7, <2>5 DEF InsertUndone, At, Return, session
    <3>2. Accounted(s) /\ Clean /\ Sizes(s)
      BY <1>1, <3>1 DEF Tally
    <3>3. Accounted(s)'
      BY <1>1, <2>1, <2>2, <3>2, SameAccounts
    <3>4. Clean'
      BY <1>2, <1>7, <3>2 DEF Clean, Handled, Inserts, InsertUndone, At, Return, session
    <3>5. Sizes(s)'
      BY <1>1, <1>2, <1>3, <1>7, <2>2, <3>2 DEF Sizes, Ahead, AheadOfHandler, TypedQueue,
         TypedSession, TypedCounts, Plain, Freed, Freeing, Handled, Inserting, Linking, Linked,
         Removed, Removes, FreeLoop, OneSpare, TwoSpare, Holding, Inserts, Inside, Starts,
         Outside, InsertUndone, At, Return, session
    <3>6. QED
      BY <3>3, <3>4, <3>5
  <2>6. QED
    BY <1>1, <2>4, <2>5, TallyOf DEF Heap
<1>8. CASE RemoveNothing(cmd # "rhq") /\ UNCHANGED session
  <2>1. UNCHANGED <<allocated, value, next, head, q>>
    BY <1>8 DEF RemoveNothing, At, Return, session
  <2>2. Plain /\ Plain'
    BY <1>2, <1>8 DEF Plain, Freed, Freeing, Handled, Inserting, Linking, Linked, Removed,
       Removes, FreeLoop, OneSpare, TwoSpare, Holding, Inserts, Inside, Starts, Outside,
       TypedSession, TypedCommand, TypedCounts, RemoveNothing, At, Return, session
  <2>3. /\ pc' \in Linked => pc \in Linked
        /\ pc' # "q_new"
        /\ pc' = "returned" /\ cmd' = "new" => s = <<>>
    BY <1>1, <1>2, <1>8 DEF Shape, QueueThere, Handled, Inserting, Linking, Linked, Removed,
       Removes, Inserts, RemoveNothing, At, Return, session
  <2>4. Shape(s)'
    BY <1>1, <2>1, <2>2, <2>3, SameShape
  <2>5. ASSUME alarms' = 0, ~lost' PROVE Accounted(s)' /\ Clean' /\ Sizes(s)'
    <3>1. alarms = 0 /\ ~lost
      BY <1>8, <2>5 DEF RemoveNothing, At, Return, session
    <3>2. Accounted(s) /\ Clean /\ Sizes(s)
      BY <1>1, <3>1 DEF Tally
    <3>3. Accounted(s)'
      BY <1>1, <2>1, <2>2, <3>2, SameAccounts
    <3>4. Clean'
      BY <1>2, <1>8, <3>2 DEF Clean, Handled, Inserts, RemoveNothing, At, Return, session
    <3>5. Sizes(s)'
      BY <1>1, <1>2, <1>3, <1>8, <2>2, <3>2 DEF Sizes, Ahead, AheadOfHandler, TypedQueue,
         TypedSession, TypedCounts, Plain, Freed, Freeing, Handled, Inserting, Linking, Linked,
         Removed, Removes, FreeLoop, OneSpare, TwoSpare, Holding, Inserts, Inside, Starts,
         Outside, RemoveNothing, At, Return, session
    <3>6. QED
      BY <3>3, <3>4, <3>5
  <2>6. QED
    BY <1>1, <2>4, <2>5, TallyOf DEF Heap
<1>9. CASE RemoveSize /\ UNCHANGED session
  <2>1. UNCHANGED <<allocated, value, next, head, q>>
    BY <1>9 DEF RemoveSize, At, Return, session
  <2>2. Plain /\ Plain'
    BY <1>2, <1>9 DEF Plain, Freed, Freeing, Handled, Inserting, Linking, Linked, Removed,
       Removes, FreeLoop, OneSpare, TwoSpare, Holding, Inserts, Inside, Starts, Outside,
       TypedSession, TypedCommand, TypedCounts, RemoveSize, At, Return, session
  <2>3. /\ pc' \in Linked => pc \in Linked
        /\ pc' # "q_new"
        /\ pc' = "returned" /\ cmd' = "new" => s = <<>>
    BY <1>1, <1>2, <1>9 DEF Shape, QueueThere, Handled, Inserting, Linking, Linked, Removed,
       Removes, Inserts, RemoveSize, At, Return, session
  <2>4. Shape(s)'
    BY <1>1, <2>1, <2>2, <2>3, SameShape
  <2>5. ASSUME alarms' = 0, ~lost' PROVE Accounted(s)' /\ Clean' /\ Sizes(s)'
    <3>1. alarms = 0 /\ ~lost
      BY <1>9, <2>5 DEF RemoveSize, At, Return, session
    <3>2. Accounted(s) /\ Clean /\ Sizes(s)
      BY <1>1, <3>1 DEF Tally
    <3>3. Accounted(s)'
      BY <1>1, <2>1, <2>2, <3>2, SameAccounts
    <3>4. Clean'
      BY <1>2, <1>9, <3>2 DEF Clean, Handled, Inserts, RemoveSize, At, Return, session
    <3>5. Sizes(s)'
      <4>1. size = Len(s) - (-1) /\ qcnt = Len(s) - (-1)
        BY <1>2, <1>9, <2>2, <3>2 DEF Sizes, Ahead, AheadOfHandler, Plain, Linked, Removed,
           Removes, Inserts, Handled, Inserting, RemoveSize, At, Return, session
      <4>2. size' = size - 1 /\ qcnt' = qcnt
        BY <1>9 DEF RemoveSize, At, Return, session
      <4>3. Ahead' = 0 /\ AheadOfHandler' = -1
        BY <1>2, <1>9 DEF Ahead, AheadOfHandler, Linked, Removed, Removes, Inserts, Handled,
           Inserting, RemoveSize, At, Return, session
      <4>4. /\ pc' \in Linked \/ (pc' = "returned" /\ cmd' \in Inserts /\ rval') => s # <<>>
            /\ pc' \notin FreeLoop /\ ~Freed'
        BY <1>2, <1>9, <2>2, <3>2 DEF Sizes, Plain, Handled, Removed, Removes, Linked, Inserts,
           RemoveSize, At, Return, session
      <4>5. QED
        BY <1>2, <1>3, <4>1, <4>2, <4>3, <4>4 DEF Sizes, TypedQueue, TypedSession, TypedCounts
    <3>6. QED
      BY <3>3, <3>4, <3>5
  <2>6. QED
    BY <1>1, <2>4, <2>5, TallyOf DEF Heap
<1>10. CASE Size(qcnt) /\ UNCHANGED session
  <2>1. UNCHANGED <<allocated, value, next, head, q>>
    BY <1>10 DEF Size, At, Return, session
  <2>2. Plain /\ Plain'
    BY <1>2, <1>10 DEF Plain, Freed, Freeing, Handled, Inserting, Linking, Linked, Removed,
       Removes, FreeLoop, OneSpare, TwoSpare, Holding, Inserts, Inside, Starts, Outside,
       TypedSession, TypedCommand, TypedCounts, Size, At, Return, session
  <2>3. /\ pc' \in Linked => pc \in Linked
        /\ pc' # "q_new"
        /\ pc' = "returned" /\ cmd' = "new" => s = <<>>
    BY <1>1, <1>2, <1>10 DEF Shape, QueueThere, Handled, Inserting, Linking, Linked, Removed,
       Removes, Inserts, Size, At, Return, session
  <2>4. Shape(s)'
    BY <1>1, <2>1, <2>2, <2>3, SameShape
  <2>5. ASSUME alarms' = 0, ~lost' PROVE Accounted(s)' /\ Clean' /\ Sizes(s)'
    <3>1. alarms = 0 /\ ~lost
      BY <1>10, <2>5 DEF Size, At, Return, session
    <3>2. Accounted(s) /\ Clean /\ Sizes(s)
      BY <1>1, <3>1 DEF Tally
    <3>3. Accounted(s)'
      BY <1>1, <2>1, <2>2, <3>2, SameAccounts
    <3>4. Clean'
      BY <1>2, <1>10, <3>2 DEF Clean, Handled, Inserts, Size, At, Return, session
    <3>5. Sizes(s)'
      BY <1>1, <1>2, <1>3, <1>10, <2>2, <3>2 DEF Sizes, Ahead, AheadOfHandler, TypedQueue,
         TypedSession, TypedCounts, Plain, Freed, Freeing, Handled, Inserting, Linking, Linked,
         Removed, Removes, FreeLoop, OneSpare, TwoSpare, Holding, Inserts, Inside, Starts,
         Outside, Size, At, Return, session
    <3>6. QED
      BY <3>3, <3>4, <3>5
  <2>6. QED
    BY <1>1, <2>4, <2>5, TallyOf DEF Heap
<1>11. CASE Inserted
  <2>1. UNCHANGED <<allocated, value, next, head, q>>
    BY <1>11 DEF Inserted, EndOfBody, Goto
  <2>2. Plain /\ Plain'
    BY <1>2, <1>11, StartFacts DEF Plain, Freed, Freeing, Handled, Inserting, Linking, Linked,
       Removed, Removes, FreeLoop, OneSpare, TwoSpare, Holding, Inserts, Inside, Starts,
       Outside, TypedSession, TypedCommand, TypedCounts, Inserted, EndOfBody, Goto
  <2>3. /\ pc' \in Linked => pc \in Linked
        /\ pc' # "q_new"
        /\ pc' = "returned" /\ cmd' = "new" => s = <<>>
    BY <1>1, <1>2, <1>11, StartFacts DEF Shape, QueueThere, Handled, Inserting, Linking, Linked,
       Removed, Removes, Inserts, Inserted, EndOfBody, Goto
  <2>4. Shape(s)'
    BY <1>1, <2>1, <2>2, <2>3, SameShape
  <2>5. ASSUME alarms' = 0, ~lost' PROVE Accounted(s)' /\ Clean' /\ Sizes(s)'
    <3>1. alarms = 0 /\ ~lost
      BY <1>11, <2>5 DEF Inserted, EndOfBody, Goto
    <3>2. Accounted(s) /\ Clean /\ Sizes(s)
      BY <1>1, <3>1 DEF Tally
    <3>3. Accounted(s)'
      BY <1>1, <2>1, <2>2, <3>2, SameAccounts
    <3>4. Clean'
      BY <1>2, <1>11, <3>2 DEF Clean, Handled, Inserts, Inserted, EndOfBody, Goto
    <3>5. Sizes(s)'
      <4>1. size = Len(s) - (0) /\ qcnt = Len(s) - (1)
        BY <1>2, <1>11, <2>2, <3>2 DEF Sizes, Ahead, AheadOfHandler, Plain, Linked, Removed,
           Removes, Inserts, Handled, Inserting, Inserted, EndOfBody, Goto
      <4>2. size' = size /\ qcnt' = qcnt + 1
        BY <1>11 DEF Inserted, EndOfBody, Goto
      <4>3. Ahead' = 0 /\ AheadOfHandler' = 0
        BY <1>2, <1>11, StartFacts DEF Ahead, AheadOfHandler, Linked, Removed, Removes, Inserts,
           Handled, Inserting, Inserted, EndOfBody, Goto
      <4>4. /\ pc' \in Linked \/ (pc' = "returned" /\ cmd' \in Inserts /\ rval') => s # <<>>
            /\ pc' \notin FreeLoop /\ ~Freed'
        BY <1>2, <1>11, <2>2, <3>2, StartFacts DEF Sizes, Plain, Handled, Removed, Removes,
           Linked, Inserts, Inserted, EndOfBody, Goto
      <4>5. QED
        BY <1>2, <1>3, <4>1, <4>2, <4>3, <4>4 DEF Sizes, TypedQueue, TypedSession, TypedCounts
    <3>6. QED
      BY <3>3, <3>4, <3>5
  <2>6. QED
    BY <1>1, <2>4, <2>5, TallyOf DEF Heap
<1>12. CASE InsertFailed
  <2>1. UNCHANGED <<allocated, value, next, head, q>>
    BY <1>12 DEF InsertFailed, EndOfBody, Goto
  <2>2. Plain /\ Plain'
    BY <1>2, <1>12, StartFacts DEF Plain, Freed, Freeing, Handled, Inserting, Linking, Linked,
       Removed, Removes, FreeLoop, OneSpare, TwoSpare, Holding, Inserts, Inside, Starts,
       Outside, TypedSession, TypedCommand, TypedCounts, InsertFailed, EndOfBody, Goto
  <2>3. /\ pc' \in Linked => pc \in Linked
        /\ pc' # "q_new"
        /\ pc' = "returned" /\ cmd' = "new" => s = <<>>
    BY <1>1, <1>2, <1>12, StartFacts DEF Shape, QueueThere, Handled, Inserting, Linking, Linked,
       Removed, Removes, Inserts, InsertFailed, EndOfBody, Goto
  <2>4. Shape(s)'
    BY <1>1, <2>1, <2>2, <2>3, SameShape
  <2>5. ASSUME alarms' = 0, ~lost' PROVE Accounted(s)' /\ Clean' /\ Sizes(s)'
    <3>1. alarms = 0 /\ ~lost
      BY <1>12, <2>5 DEF InsertFailed, EndOfBody, Goto
    <3>2. Accounted(s) /\ Clean /\ Sizes(s)
      BY <1>1, <3>1 DEF Tally
    <3>3. Accounted(s)'
      BY <1>1, <2>1, <2>2, <3>2, SameAccounts
    <3>4. Clean'
      BY <1>2, <1>12, <3>2 DEF Clean, Handled, Inserts, InsertFailed, EndOfBody, Goto
    <3>5. Sizes(s)'
      BY <1>1, <1>2, <1>3, <1>12, <2>2, <3>2, StartFacts DEF Sizes, Ahead, AheadOfHandler,
         TypedQueue, TypedSession, TypedCounts, Plain, Freed, Freeing, Handled, Inserting,
         Linking, Linked, Removed, Removes, FreeLoop, OneSpare, TwoSpare, Holding, Inserts,
         Inside, Starts, Outside, InsertFailed, EndOfBody, Goto
    <3>6. QED
      BY <3>3, <3>4, <3>5
  <2>6. QED
    BY <1>1, <2>4, <2>5, TallyOf DEF Heap
<1>13. CASE InsertFaults
  <2>1. UNCHANGED <<allocated, value, next, head, q>>
    BY <1>13 DEF InsertFaults, Jump
  <2>2. Plain /\ Plain'
    BY <1>2, <1>13 DEF Plain, Freed, Freeing, Handled, Inserting, Linking, Linked, Removed,
       Removes, FreeLoop, OneSpare, TwoSpare, Holding, Inserts, Inside, Starts, Outside,
       TypedSession, TypedCommand, TypedCounts, InsertFaults, Jump
  <2>3. /\ pc' \in Linked => pc \in Linked
        /\ pc' # "q_new"
        /\ pc' = "returned" /\ cmd' = "new" => s = <<>>
    BY <1>1, <1>2, <1>13 DEF Shape, QueueThere, Handled, Inserting, Linking, Linked, Removed,
       Removes, Inserts, InsertFaults, Jump
  <2>4. Shape(s)'
    BY <1>1, <2>1, <2>2, <2>3, SameShape
  <2>5. ASSUME alarms' = 0, ~lost' PROVE Accounted(s)' /\ Clean' /\ Sizes(s)'
    <3>1. alarms = 0 /\ ~lost
      BY <1>13, <2>5 DEF InsertFaults, Jump
    <3>2. Accounted(s) /\ Clean /\ Sizes(s)
      BY <1>1, <3>1 DEF Tally
    <3>3. Accounted(s)'
      BY <1>1, <2>1, <2>2, <3>2, SameAccounts
    <3>4. Clean'
      <4>1. s # <<>> /\ head = Null /\ Chain(head, s, next)
        BY <1>1, <1>13, <2>2, <3>2 DEF InsertFaults, Sizes, Shape, Lists, Plain
      <4>2. s[1] \in Blocks
        BY <1>1, <4>1, SeqFacts
      <4>3. QED
        BY <4>1, <4>2, BlockFacts DEF Chain
    <3>5. Sizes(s)'
      BY <1>1, <1>2, <1>3, <1>13, <2>2, <3>2 DEF Sizes, Ahead, AheadOfHandler, TypedQueue,
         TypedSession, TypedCounts, Plain, Freed, Freeing, Handled, Inserting, Linking, Linked,
         Removed, Removes, FreeLoop, OneSpare, TwoSpare, Holding, Inserts, Inside, Starts,
         Outside, InsertFaults, Jump
    <3>6. QED
      BY <3>3, <3>4, <3>5
  <2>6. QED
    BY <1>1, <2>4, <2>5, TallyOf DEF Heap
<1>14. CASE Sized
  <2>1. UNCHANGED <<allocated, value, next, head, q>>
    BY <1>14 DEF Sized, EndOfBody, Goto
  <2>2. Plain /\ Plain'
    BY <1>2, <1>14, StartFacts DEF Plain, Freed, Freeing, Handled, Inserting, Linking, Linked,
       Removed, Removes, FreeLoop, OneSpare, TwoSpare, Holding, Inserts, Inside, Starts,
       Outside, TypedSession, TypedCommand, TypedCounts, Sized, EndOfBody, Goto
  <2>3. /\ pc' \in Linked => pc \in Linked
        /\ pc' # "q_new"
        /\ pc' = "returned" /\ cmd' = "new" => s = <<>>
    BY <1>1, <1>2, <1>14, StartFacts DEF Shape, QueueThere, Handled, Inserting, Linking, Linked,
       Removed, Removes, Inserts, Sized, EndOfBody, Goto
  <2>4. Shape(s)'
    BY <1>1, <2>1, <2>2, <2>3, SameShape
  <2>5. ASSUME alarms' = 0, ~lost' PROVE Accounted(s)' /\ Clean' /\ Sizes(s)'
    <3>1. alarms = 0 /\ ~lost
      BY <1>14, <2>5 DEF Sized, EndOfBody, Goto
    <3>2. Accounted(s) /\ Clean /\ Sizes(s)
      BY <1>1, <3>1 DEF Tally
    <3>3. Accounted(s)'
      BY <1>1, <2>1, <2>2, <3>2, SameAccounts
    <3>4. Clean'
      BY <1>2, <1>14, <3>2 DEF Clean, Handled, Inserts, Sized, EndOfBody, Goto
    <3>5. Sizes(s)'
      BY <1>1, <1>2, <1>3, <1>14, <2>2, <3>2, StartFacts DEF Sizes, Ahead, AheadOfHandler,
         TypedQueue, TypedSession, TypedCounts, Plain, Freed, Freeing, Handled, Inserting,
         Linking, Linked, Removed, Removes, FreeLoop, OneSpare, TwoSpare, Holding, Inserts,
         Inside, Starts, Outside, Sized, EndOfBody, Goto
    <3>6. QED
      BY <3>3, <3>4, <3>5
  <2>6. QED
    BY <1>1, <2>4, <2>5, TallyOf DEF Heap
<1>15. CASE FinishInsert
  <2>1. UNCHANGED <<allocated, value, next, head, q>>
    BY <1>15 DEF FinishInsert, Finish, Goto
  <2>2. Plain /\ Plain'
    BY <1>2, <1>15 DEF Plain, Freed, Freeing, Handled, Inserting, Linking, Linked, Removed,
       Removes, FreeLoop, OneSpare, TwoSpare, Holding, Inserts, Inside, Starts, Outside,
       TypedSession, TypedCommand, TypedCounts, FinishInsert, Finish, Goto
  <2>3. /\ pc' \in Linked => pc \in Linked
        /\ pc' # "q_new"
        /\ pc' = "returned" /\ cmd' = "new" => s = <<>>
    BY <1>1, <1>2, <1>15 DEF Shape, QueueThere, Handled, Inserting, Linking, Linked, Removed,
       Removes, Inserts, FinishInsert, Finish, Goto
  <2>4. Shape(s)'
    BY <1>1, <2>1, <2>2, <2>3, SameShape
  <2>5. ASSUME alarms' = 0, ~lost' PROVE Accounted(s)' /\ Clean' /\ Sizes(s)'
    <3>1. alarms = 0 /\ ~lost
      BY <1>15, <2>5 DEF FinishInsert, Finish, Goto
    <3>2. Accounted(s) /\ Clean /\ Sizes(s)
      BY <1>1, <3>1 DEF Tally
    <3>3. Accounted(s)'
      BY <1>1, <2>1, <2>2, <3>2, SameAccounts
    <3>4. Clean'
      BY <1>2, <1>15, <3>2 DEF Clean, Handled, Inserts, FinishInsert, Finish, Goto
    <3>5. Sizes(s)'
      BY <1>1, <1>2, <1>3, <1>15, <2>2, <3>2 DEF Sizes, Ahead, AheadOfHandler, TypedQueue,
         TypedSession, TypedCounts, Plain, Freed, Freeing, Handled, Inserting, Linking, Linked,
         Removed, Removes, FreeLoop, OneSpare, TwoSpare, Holding, Inserts, Inside, Starts,
         Outside, FinishInsert, Finish, Goto
    <3>6. QED
      BY <3>3, <3>4, <3>5
  <2>6. QED
    BY <1>1, <2>4, <2>5, TallyOf DEF Heap
<1>16. CASE FinishSize
  <2>1. UNCHANGED <<allocated, value, next, head, q>>
    BY <1>16 DEF FinishSize, Finish, Goto
  <2>2. Plain /\ Plain'
    BY <1>2, <1>16 DEF Plain, Freed, Freeing, Handled, Inserting, Linking, Linked, Removed,
       Removes, FreeLoop, OneSpare, TwoSpare, Holding, Inserts, Inside, Starts, Outside,
       TypedSession, TypedCommand, TypedCounts, FinishSize, Finish, Goto
  <2>3. /\ pc' \in Linked => pc \in Linked
        /\ pc' # "q_new"
        /\ pc' = "returned" /\ cmd' = "new" => s = <<>>
    BY <1>1, <1>2, <1>16 DEF Shape, QueueThere, Handled, Inserting, Linking, Linked, Removed,
       Removes, Inserts, FinishSize, Finish, Goto
  <2>4. Shape(s)'
    BY <1>1, <2>1, <2>2, <2>3, SameShape
  <2>5. ASSUME alarms' = 0, ~lost' PROVE Accounted(s)' /\ Clean' /\ Sizes(s)'
    <3>1. alarms = 0 /\ ~lost
      BY <1>16, <2>5 DEF FinishSize, Finish, Goto
    <3>2. Accounted(s) /\ Clean /\ Sizes(s)
      BY <1>1, <3>1 DEF Tally
    <3>3. Accounted(s)'
      BY <1>1, <2>1, <2>2, <3>2, SameAccounts
    <3>4. Clean'
      BY <1>2, <1>16, <3>2 DEF Clean, Handled, Inserts, FinishSize, Finish, Goto
    <3>5. Sizes(s)'
      BY <1>1, <1>2, <1>3, <1>16, <2>2, <3>2 DEF Sizes, Ahead, AheadOfHandler, TypedQueue,
         TypedSession, TypedCounts, Plain, Freed, Freeing, Handled, Inserting, Linking, Linked,
         Removed, Removes, FreeLoop, OneSpare, TwoSpare, Holding, Inserts, Inside, Starts,
         Outside, FinishSize, Finish, Goto
    <3>6. QED
      BY <3>3, <3>4, <3>5
  <2>6. QED
    BY <1>1, <2>4, <2>5, TallyOf DEF Heap
<1>17. CASE FinishReverse
  <2>1. UNCHANGED <<allocated, value, next, head, q>>
    BY <1>17 DEF FinishReverse, Finish, Goto
  <2>2. Plain /\ Plain'
    BY <1>2, <1>17 DEF Plain, Freed, Freeing, Handled, Inserting, Linking, Linked, Removed,
       Removes, FreeLoop, OneSpare, TwoSpare, Holding, Inserts, Inside, Starts, Outside,
       TypedSession, TypedCommand, TypedCounts, FinishReverse, Finish, Goto
  <2>3. /\ pc' \in Linked => pc \in Linked
        /\ pc' # "q_new"
        /\ pc' = "returned" /\ cmd' = "new" => s = <<>>
    BY <1>1, <1>2, <1>17 DEF Shape, QueueThere, Handled, Inserting, Linking, Linked, Removed,
       Removes, Inserts, FinishReverse, Finish, Goto
  <2>4. Shape(s)'
    BY <1>1, <2>1, <2>2, <2>3, SameShape
  <2>5. ASSUME alarms' = 0, ~lost' PROVE Accounted(s)' /\ Clean' /\ Sizes(s)'
    <3>1. alarms = 0 /\ ~lost
      BY <1>17, <2>5 DEF FinishReverse, Finish, Goto
    <3>2. Accounted(s) /\ Clean /\ Sizes(s)
      BY <1>1, <3>1 DEF Tally
    <3>3. Accounted(s)'
      BY <1>1, <2>1, <2>2, <3>2, SameAccounts
    <3>4. Clean'
      BY <1>2, <1>17, <3>2 DEF Clean, Handled, Inserts, FinishReverse, Finish, Goto
    <3>5. Sizes(s)'
      BY <1>1, <1>2, <1>3, <1>17, <2>2, <3>2 DEF Sizes, Ahead, AheadOfHandler, TypedQueue,
         TypedSession, TypedCounts, Plain, Freed, Freeing, Handled, Inserting, Linking, Linked,
         Removed, Removes, FreeLoop, OneSpare, TwoSpare, Holding, Inserts, Inside, Starts,
         Outside, FinishReverse, Finish, Goto
    <3>6. QED
      BY <3>3, <3>4, <3>5
  <2>6. QED
    BY <1>1, <2>4, <2>5, TallyOf DEF Heap
<1>18. CASE FinishRemove
  <2>1. UNCHANGED <<allocated, value, next, head, q>>
    BY <1>18 DEF FinishRemove, Finish, Goto
  <2>2. Plain /\ Plain'
    BY <1>2, <1>18 DEF Plain, Freed, Freeing, Handled, Inserting, Linking, Linked, Removed,
       Removes, FreeLoop, OneSpare, TwoSpare, Holding, Inserts, Inside, Starts, Outside,
       TypedSession, TypedCommand, TypedCounts, FinishRemove, Finish, Goto
  <2>3. /\ pc' \in Linked => pc \in Linked
        /\ pc' # "q_new"
        /\ pc' = "returned" /\ cmd' = "new" => s = <<>>
    BY <1>1, <1>2, <1>18 DEF Shape, QueueThere, Handled, Inserting, Linking, Linked, Removed,
       Removes, Inserts, FinishRemove, Finish, Goto
  <2>4. Shape(s)'
    BY <1>1, <2>1, <2>2, <2>3, SameShape
  <2>5. ASSUME alarms' = 0, ~lost' PROVE Accounted(s)' /\ Clean' /\ Sizes(s)'
    <3>1. alarms = 0 /\ ~lost
      BY <1>18, <2>5 DEF FinishRemove, Finish, Goto
    <3>2. Accounted(s) /\ Clean /\ Sizes(s)
      BY <1>1, <3>1 DEF Tally
    <3>3. Accounted(s)'
      BY <1>1, <2>1, <2>2, <3>2, SameAccounts
    <3>4. Clean'
      BY <1>2, <1>18, <3>2 DEF Clean, Handled, Inserts, FinishRemove, Finish, Goto
    <3>5. Sizes(s)'
      <4>1. size = Len(s) - (0) /\ qcnt = Len(s) - (IF rval THEN -1 ELSE 0)
        BY <1>2, <1>18, <2>2, <3>2 DEF Sizes, Ahead, AheadOfHandler, Plain, Linked, Removed,
           Removes, Inserts, Handled, Inserting, FinishRemove, Finish, Goto
      <4>2. size' = size /\ qcnt' = IF rval THEN qcnt - 1 ELSE qcnt
        BY <1>18 DEF FinishRemove, Finish, Goto
      <4>3. Ahead' = 0 /\ AheadOfHandler' = 0
        BY <1>2, <1>18 DEF Ahead, AheadOfHandler, Linked, Removed, Removes, Inserts, Handled,
           Inserting, FinishRemove, Finish, Goto
      <4>4. /\ pc' \in Linked \/ (pc' = "returned" /\ cmd' \in Inserts /\ rval') => s # <<>>
            /\ pc' \notin FreeLoop /\ ~Freed'
        BY <1>2, <1>18, <2>2, <3>2 DEF Sizes, Plain, Handled, Removed, Removes, Linked, Inserts,
           FinishRemove, Finish, Goto
      <4>5. QED
        BY <1>2, <1>3, <4>1, <4>2, <4>3, <4>4 DEF Sizes, TypedQueue, TypedSession, TypedCounts
    <3>6. QED
      BY <3>3, <3>4, <3>5
  <2>6. QED
    BY <1>1, <2>4, <2>5, TallyOf DEF Heap
<1>19. CASE FinishNew
  <2>1. UNCHANGED <<allocated, value, next, head, q>>
    BY <1>19 DEF FinishNew, Finish, Goto
  <2>2. Plain /\ Plain'
    BY <1>2, <1>19 DEF Plain, Freed, Freeing, Handled, Inserting, Linking, Linked, Removed,
       Removes, FreeLoop, OneSpare, TwoSpare, Holding, Inserts, Inside, Starts, Outside,
       TypedSession, TypedCommand, TypedCounts, FinishNew, Finish, Goto
  <2>3. /\ pc' \in Linked => pc \in Linked
        /\ pc' # "q_new"
        /\ pc' = "returned" /\ cmd' = "new" => s = <<>>
    BY <1>1, <1>2, <1>19 DEF Shape, QueueThere, Handled, Inserting, Linking, Linked, Removed,
       Removes, Inserts, FinishNew, Finish, Goto
  <2>4. Shape(s)'
    BY <1>1, <2>1, <2>2, <2>3, SameShape
  <2>5. ASSUME alarms' = 0, ~lost' PROVE Accounted(s)' /\ Clean' /\ Sizes(s)'
    <3>1. alarms = 0 /\ ~lost
      BY <1>19, <2>5 DEF FinishNew, Finish, Goto
    <3>2. Accounted(s) /\ Clean /\ Sizes(s)
      BY <1>1, <3>1 DEF Tally
    <3>3. Accounted(s)'
      BY <1>1, <2>1, <2>2, <3>2, SameAccounts
    <3>4. Clean'
      BY <1>2, <1>19, <3>2 DEF Clean, Handled, Inserts, FinishNew, Finish, Goto
    <3>5. Sizes(s)'
      <4>1. size = Len(s) /\ Len(s) = 0
        BY <1>1, <1>2, <1>3, <1>19, <2>2, <3>2 DEF Shape, QueueThere, Sizes, Ahead, Plain,
           Linked, Removed, TypedQueue, FinishNew
      <4>2. size' = size /\ qcnt' = 0
        BY <1>19 DEF FinishNew, Finish, Goto
      <4>3. Ahead' = 0 /\ AheadOfHandler' = 0
        BY <1>2, <1>19 DEF Ahead, AheadOfHandler, Linked, Removed, Removes, Inserts, Handled,
           Inserting, FinishNew, Finish, Goto
      <4>4. /\ pc' \in Linked \/ (pc' = "returned" /\ cmd' \in Inserts /\ rval') => s # <<>>
            /\ pc' \notin FreeLoop /\ ~Freed'
        BY <1>2, <1>19, <2>2, <3>2 DEF Sizes, Plain, Handled, Removed, Removes, Linked, Inserts,
           FinishNew, Finish, Goto
      <4>5. QED
        BY <1>2, <1>3, <4>1, <4>2, <4>3, <4>4 DEF Sizes, TypedQueue, TypedSession, TypedCounts
    <3>6. QED
      BY <3>3, <3>4, <3>5
  <2>6. QED
    BY <1>1, <2>4, <2>5, TallyOf DEF Heap
<1>20. CASE FinalCheck
  <2>1. UNCHANGED <<allocated, value, next, head, q>>
    BY <1>20 DEF FinalCheck, Goto
  <2>2. Plain /\ Plain'
    BY <1>2, <1>20 DEF Plain, Freed, Freeing, Handled, Inserting, Linking, Linked, Removed,
       Removes, FreeLoop, OneSpare, TwoSpare, Holding, Inserts, Inside, Starts, Outside,
       TypedSession, TypedCommand, TypedCounts, FinalCheck, Goto
  <2>3. /\ pc' \in Linked => pc \in Linked
        /\ pc' # "q_new"
        /\ pc' = "returned" /\ cmd' = "new" => s = <<>>
    BY <1>1, <1>2, <1>20 DEF Shape, QueueThere, Handled, Inserting, Linking, Linked, Removed,
       Removes, Inserts, FinalCheck, Goto
  <2>4. Shape(s)'
    BY <1>1, <2>1, <2>2, <2>3, SameShape
  <2>5. ASSUME alarms' = 0, ~lost' PROVE Accounted(s)' /\ Clean' /\ Sizes(s)'
    <3>1. alarms = 0 /\ ~lost
      BY <1>20, <2>5 DEF FinalCheck, Goto
    <3>2. Accounted(s) /\ Clean /\ Sizes(s)
      BY <1>1, <3>1 DEF Tally
    <3>3. Accounted(s)'
      BY <1>1, <2>1, <2>2, <3>2, SameAccounts
    <3>4. Clean'
      BY <1>2, <1>20, <3>2 DEF Clean, Handled, Inserts, FinalCheck, Goto
    <3>5. Sizes(s)'
      BY <1>1, <1>2, <1>3, <1>20, <2>2, <3>2 DEF Sizes, Ahead, AheadOfHandler, TypedQueue,
         TypedSession, TypedCounts, Plain, Freed, Freeing, Handled, Inserting, Linking, Linked,
         Removed, Removes, FreeLoop, OneSpare, TwoSpare, Holding, Inserts, Inside, Starts,
         Outside, FinalCheck, Goto
    <3>6. QED
      BY <3>3, <3>4, <3>5
  <2>6. QED
    BY <1>1, <2>4, <2>5, TallyOf DEF Heap
<1>21. CASE Show
  <2>1. UNCHANGED <<allocated, value, next, head, q>>
    BY <1>21 DEF Show, AfterShow, Goto
  <2>2. Plain /\ Plain'
    BY <1>2, <1>21 DEF Plain, Freed, Freeing, Handled, Inserting, Linking, Linked, Removed,
       Removes, FreeLoop, OneSpare, TwoSpare, Holding, Inserts, Inside, Starts, Outside,
       TypedSession, TypedCommand, TypedCounts, Show, AfterShow, Goto
  <2>3. /\ pc' \in Linked => pc \in Linked
        /\ pc' # "q_new"
        /\ pc' = "returned" /\ cmd' = "new" => s = <<>>
    BY <1>1, <1>2, <1>21 DEF Shape, QueueThere, Handled, Inserting, Linking, Linked, Removed,
       Removes, Inserts, Show, AfterShow, Goto
  <2>4. Shape(s)'
    BY <1>1, <2>1, <2>2, <2>3, SameShape
  <2>5. ASSUME alarms' = 0, ~lost' PROVE Accounted(s)' /\ Clean' /\ Sizes(s)'
    <3>1. alarms = 0 /\ ~lost
      BY <1>21, <2>5 DEF Show, AfterShow, Goto
    <3>2. Accounted(s) /\ Clean /\ Sizes(s)
      BY <1>1, <3>1 DEF Tally
    <3>3. Accounted(s)'
      BY <1>1, <2>1, <2>2, <3>2, SameAccounts
    <3>4. Clean'
      BY <1>2, <1>21, <3>2 DEF Clean, Handled, Inserts, Show, AfterShow, Goto
    <3>5. Sizes(s)'
      BY <1>1, <1>2, <1>3, <1>21, <2>2, <3>2 DEF Sizes, Ahead, AheadOfHandler, TypedQueue,
         TypedSession, TypedCounts, Plain, Freed, Freeing, Handled, Inserting, Linking, Linked,
         Removed, Removes, FreeLoop, OneSpare, TwoSpare, Holding, Inserts, Inside, Starts,
         Outside, Show, AfterShow, Goto
    <3>6. QED
      BY <3>3, <3>4, <3>5
  <2>6. QED
    BY <1>1, <2>4, <2>5, TallyOf DEF Heap
<1>22. CASE ShowTimesOut
  <2>1. UNCHANGED <<allocated, value, next, head, q>>
    BY <1>22 DEF ShowTimesOut, AfterShow, Goto, Alarm
  <2>2. Plain /\ Plain'
    BY <1>2, <1>22 DEF Plain, Freed, Freeing, Handled, Inserting, Linking, Linked, Removed,
       Removes, FreeLoop, OneSpare, TwoSpare, Holding, Inserts, Inside, Starts, Outside,
       TypedSession, TypedCommand, TypedCounts, ShowTimesOut, AfterShow, Goto, Alarm
  <2>3. /\ pc' \in Linked => pc \in Linked
        /\ pc' # "q_new"
        /\ pc' = "returned" /\ cmd' = "new" => s = <<>>
    BY <1>1, <1>2, <1>22 DEF Shape, QueueThere, Handled, Inserting, Linking, Linked, Removed,
       Removes, Inserts, ShowTimesOut, AfterShow, Goto, Alarm
  <2>4. Shape(s)'
    BY <1>1, <2>1, <2>2, <2>3, SameShape
  <2>5. alarms' # 0
    <3>1. alarms \in Nat /\ alarms' = alarms + 1
      BY <1>2, <1>22 DEF TypedSession, TypedCounts, ShowTimesOut, AfterShow, Goto, Alarm
    <3>2. QED
      BY <3>1
  <2>6. QED
    BY <1>1, <2>4, <2>5, TallyOf DEF Heap
<1>23. CASE RaiseInLoop
  <2>1. UNCHANGED <<allocated, value, next, head, q>>
    BY <1>23 DEF RaiseInLoop, Jump, Goto, Alarm
  <2>2. Plain /\ Plain'
    BY <1>2, <1>23 DEF Plain, Freed, Freeing, Handled, Inserting, Linking, Linked, Removed,
       Removes, FreeLoop, OneSpare, TwoSpare, Holding, Inserts, Inside, Starts, Outside,
       TypedSession, TypedCommand, TypedCounts, RaiseInLoop, Jump, Goto, Alarm
  <2>3. /\ pc' \in Linked => pc \in Linked
        /\ pc' # "q_new"
        /\ pc' = "returned" /\ cmd' = "new" => s = <<>>
    BY <1>1, <1>2, <1>23 DEF Shape, QueueThere, Handled, Inserting, Linking, Linked, Removed,
       Removes, Inserts, RaiseInLoop, Jump, Goto, Alarm
  <2>4. Shape(s)'
    BY <1>1, <2>1, <2>2, <2>3, SameShape
  <2>5. alarms' # 0
    <3>1. alarms \in Nat /\ alarms' = alarms + 1
      BY <1>2, <1>23 DEF TypedSession, TypedCounts, RaiseInLoop, Jump, Goto, Alarm
    <3>2. QED
      BY <3>1
  <2>6. QED
    BY <1>1, <2>4, <2>5, TallyOf DEF Heap
<1>24. CASE ShowCommand
  <2>1. UNCHANGED <<allocated, value, next, head, q>>
    BY <1>24 DEF ShowCommand, Goto
  <2>2. Plain /\ Plain'
    BY <1>2, <1>24 DEF Plain, Freed, Freeing, Handled, Inserting, Linking, Linked, Removed,
       Removes, FreeLoop, OneSpare, TwoSpare, Holding, Inserts, Inside, Starts, Outside,
       TypedSession, TypedCommand, TypedCounts, ShowCommand, Goto
  <2>3. /\ pc' \in Linked => pc \in Linked
        /\ pc' # "q_new"
        /\ pc' = "returned" /\ cmd' = "new" => s = <<>>
    BY <1>1, <1>2, <1>24 DEF Shape, QueueThere, Handled, Inserting, Linking, Linked, Removed,
       Removes, Inserts, ShowCommand, Goto
  <2>4. Shape(s)'
    BY <1>1, <2>1, <2>2, <2>3, SameShape
  <2>5. ASSUME alarms' = 0, ~lost' PROVE Accounted(s)' /\ Clean' /\ Sizes(s)'
    <3>1. alarms = 0 /\ ~lost
      BY <1>24, <2>5 DEF ShowCommand, Goto
    <3>2. Accounted(s) /\ Clean /\ Sizes(s)
      BY <1>1, <3>1 DEF Tally
    <3>3. Accounted(s)'
      BY <1>1, <2>1, <2>2, <3>2, SameAccounts
    <3>4. Clean'
      BY <1>2, <1>24, <3>2 DEF Clean, Handled, Inserts, ShowCommand, Goto
    <3>5. Sizes(s)'
      BY <1>1, <1>2, <1>3, <1>24, <2>2, <3>2 DEF Sizes, Ahead, AheadOfHandler, TypedQueue,
         TypedSession, TypedCounts, Plain, Freed, Freeing, Handled, Inserting, Linking, Linked,
         Removed, Removes, FreeLoop, OneSpare, TwoSpare, Holding, Inserts, Inside, Starts,
         Outside, ShowCommand, Goto
    <3>6. QED
      BY <3>3, <3>4, <3>5
  <2>6. QED
    BY <1>1, <2>4, <2>5, TallyOf DEF Heap
<1>25. CASE NextTurn
  <2>1. UNCHANGED <<allocated, value, next, head, q>>
    BY <1>25 DEF NextTurn, Goto
  <2>2. Plain /\ Plain'
    BY <1>2, <1>25, StartFacts DEF Plain, Freed, Freeing, Handled, Inserting, Linking, Linked,
       Removed, Removes, FreeLoop, OneSpare, TwoSpare, Holding, Inserts, Inside, Starts,
       Outside, TypedSession, TypedCommand, TypedCounts, session, NextTurn, Goto
  <2>3. /\ pc' \in Linked => pc \in Linked
        /\ pc' # "q_new"
        /\ pc' = "returned" /\ cmd' = "new" => s = <<>>
    BY <1>1, <1>2, <1>25, StartFacts DEF Shape, QueueThere, Handled, Inserting, Linking, Linked,
       Removed, Removes, Inserts, session, NextTurn, Goto
  <2>4. Shape(s)'
    BY <1>1, <2>1, <2>2, <2>3, SameShape
  <2>5. ASSUME alarms' = 0, ~lost' PROVE Accounted(s)' /\ Clean' /\ Sizes(s)'
    <3>1. alarms = 0 /\ ~lost
      BY <1>25, <2>5 DEF session, NextTurn, Goto
    <3>2. Accounted(s) /\ Clean /\ Sizes(s)
      BY <1>1, <3>1 DEF Tally
    <3>3. Accounted(s)'
      BY <1>1, <2>1, <2>2, <3>2, SameAccounts
    <3>4. Clean'
      BY <1>2, <1>25, <3>2 DEF Clean, Handled, Inserts, NextTurn, Goto
    <3>5. Sizes(s)'
      BY <1>1, <1>2, <1>3, <1>25, <2>2, <3>2, StartFacts DEF Sizes, Ahead, AheadOfHandler,
         TypedQueue, TypedSession, TypedCounts, Plain, Freed, Freeing, Handled, Inserting,
         Linking, Linked, Removed, Removes, FreeLoop, OneSpare, TwoSpare, Holding, Inserts,
         Inside, Starts, Outside, NextTurn, Goto
    <3>6. QED
      BY <3>3, <3>4, <3>5
  <2>6. QED
    BY <1>1, <2>4, <2>5, TallyOf DEF Heap
<1>26. CASE InsertExits
  <2>1. UNCHANGED <<allocated, value, next, head, q>>
    BY <1>26 DEF InsertExits, Goto
  <2>2. Plain /\ Plain'
    BY <1>2, <1>26 DEF Plain, Freed, Freeing, Handled, Inserting, Linking, Linked, Removed,
       Removes, FreeLoop, OneSpare, TwoSpare, Holding, Inserts, Inside, Starts, Outside,
       TypedSession, TypedCommand, TypedCounts, session, InsertExits, Goto
  <2>3. /\ pc' \in Linked => pc \in Linked
        /\ pc' # "q_new"
        /\ pc' = "returned" /\ cmd' = "new" => s = <<>>
    BY <1>1, <1>2, <1>26 DEF Shape, QueueThere, Handled, Inserting, Linking, Linked, Removed,
       Removes, Inserts, session, InsertExits, Goto
  <2>4. Shape(s)'
    BY <1>1, <2>1, <2>2, <2>3, SameShape
  <2>5. ASSUME alarms' = 0, ~lost' PROVE Accounted(s)' /\ Clean' /\ Sizes(s)'
    <3>1. alarms = 0 /\ ~lost
      BY <1>26, <2>5 DEF session, InsertExits, Goto
    <3>2. Accounted(s) /\ Clean /\ Sizes(s)
      BY <1>1, <3>1 DEF Tally
    <3>3. s # <<>> /\ head = Null /\ Chain(head, s, next)
      BY <1>1, <1>26, <2>2, <3>2 DEF InsertExits, Sizes, Shape, Lists, Plain
    <3>4. s[1] \in Blocks
      BY <1>1, <3>3, SeqFacts
    <3>5. QED
      BY <3>3, <3>4, BlockFacts DEF Chain
  <2>6. QED
    BY <1>1, <2>4, <2>5, TallyOf DEF Heap
<1>27. QED
  BY <1>4, <1>5, <1>6, <1>7, <1>8, <1>9, <1>10, <1>11, <1>12, <1>13, <1>14, <1>15, <1>16, <1>17,
     <1>18, <1>19, <1>20, <1>21, <1>22, <1>23, <1>24, <1>25, <1>26

-----------------------------------------------------------------------------
(* A command begins, and an allocator's step ends.                         *)
LEMMA CommandHeap ==
  ASSUME Control, NEW s, Heap(s), NEW c, NEW n, Command(c, n), n \in 0 .. 2,
         \/ c \in Inserts \cup {"free", "reverse", "size"} \cup Removes
         \/ c = "new" /\ n = IF q = Null THEN 1 ELSE 2
  PROVE  Heap(s)'
<1> USE DEF memory, flags, struct, elements, locals, queueVars, history
<1>1. s \in Seq(Blocks) /\ Shape(s) /\ Tally(s)
  BY DEF Heap
<1>2. Typed /\ Handled /\ TypedMemory /\ TypedQueue /\ TypedSession /\ TypedPlace
  BY DEF Control, Typed
<1>3. UNCHANGED <<allocated, value, next, head, q>> /\ pc = "prompt"
  BY DEF Command
<1>4. pc' \in Starts /\ (pc' = "q_new" => q = Null)
  BY StartFacts DEF Command, Goto, Starts, Inserts, Removes
<1>5. Plain /\ Plain'
  BY <1>2, <1>3, <1>4 DEF Plain, Freed, Freeing, Handled, Inserting, Linking, Linked, Removed,
     Removes, FreeLoop, OneSpare, TwoSpare, Holding, Inserts, Inside, Starts, Outside
<1>6. Shape(s)'
  BY <1>1, <1>3, <1>4, <1>5, SameShape DEF Starts, Linked
<1>7. ASSUME alarms' = 0, ~lost' PROVE Accounted(s)' /\ Clean' /\ Sizes(s)'
  <2>1. Accounted(s) /\ Clean /\ Sizes(s)
    BY <1>1, <1>7 DEF Tally, Command
  <2>2. Accounted(s)'
    BY <1>1, <1>3, <1>5, <2>1, SameAccounts
  <2>3. Clean'
    BY <2>1 DEF Clean, Command
  <2>4. size' = size /\ qcnt' = qcnt
    BY DEF Command
  <2>5. Ahead = 0 /\ AheadOfHandler = 0 /\ Ahead' = 0 /\ AheadOfHandler' = 0
    BY <1>3, <1>4 DEF Ahead, AheadOfHandler, Linked, Removed, Starts
  <2>6. QED
    BY <1>3, <1>4, <1>5, <2>1, <2>2, <2>3, <2>4, <2>5 DEF Sizes, Plain, Starts, Linked
<1>8. QED
  BY <1>1, <1>6, <1>7, TallyOf DEF Heap

LEMMA CountHeap ==
  ASSUME NEW s, Heap(s), CountBlocks
  PROVE  Heap(s)'
<1> USE DEF memory, flags, struct, elements, locals, queueVars, history, session
<1>1. /\ UNCHANGED <<allocated, value, next, head, q, elt, curr, prev, pc, cmd, reps>>
      /\ UNCHANGED <<corrupt, error_occurred, ok, size, qcnt, rval, alarms, lost>>
  BY DEF CountBlocks, Count
<1>2. Freeing' = Freeing /\ Freed' = Freed
  BY <1>1 DEF Freeing, Freed
<1>3. Lists(s)'
  <2>1. Turned(s)' = Turned(s)
    BY <1>1 DEF Turned
  <2>2. QED
    BY <1>1, <1>2, <2>1 DEF Heap, Shape, Lists
<1>4. Whole(s, allocated, value)' /\ QueueThere(s)'
  BY <1>1, <1>2 DEF Heap, Shape, QueueThere
<1>5. AtHand(s)'
  BY <1>1 DEF Heap, Shape, AtHand, Spare
<1>6. Accounted(s)' = Accounted(s)
  BY <1>1, <1>2 DEF Accounted, Queued, Pending
<1>7. Sizes(s)' = Sizes(s)
  BY <1>1, <1>2 DEF Sizes, Ahead, AheadOfHandler
<1>8. Tally(s)'
  BY <1>1, <1>6, <1>7 DEF Heap, Tally, Clean
<1>9. QED
  BY <1>3, <1>4, <1>5, <1>8 DEF Heap, Shape

-----------------------------------------------------------------------------
(* The operations that allocate.                                           *)
LEMMA MallocHeap ==
  ASSUME Control, NEW s, Heap(s), UNCHANGED session, Plain,
         NEW b \in Blocks, b \notin allocated, allocated' = allocated \cup {b}, elt' = b,
         UNCHANGED <<error_occurred, q, struct, elements, rval, lost>>,
         pc \in Starts, owed = 0,
         \/ q # Null /\ pc' \in {"head_value", "tail_value"}
         \/ pc = "q_new" /\ pc' = "new_fields"
  PROVE  Heap(s)'
<1> USE DEF struct, elements, history, Starts
<1>1. s \in Seq(Blocks) /\ Shape(s) /\ Tally(s)
  BY DEF Heap
<1>2. Typed /\ TypedMemory /\ TypedQueue /\ TypedElements /\ TypedSession
  BY DEF Control, Typed
<1>3. /\ Lists(s) /\ Whole(s, allocated, value) /\ QueueThere(s) /\ Apart(b, s, value)
      /\ Chain(head, s, next)
  BY <1>1, FreshApart DEF Shape, Lists, Plain
<1>4. ~Freed' /\ pc' \notin FreeLoop \cup {"reverse_loop", "returned"} \cup TwoSpare
  BY DEF Freed, FreeLoop, TwoSpare
<1>5. Lists(s)' /\ Whole(s, allocated, value)'
  BY <1>3, <1>4, WholeMore DEF Lists
<1>6. QueueThere(s)'
  BY <1>3, <1>4 DEF QueueThere, Linking, Linked, FreeLoop, Plain
<1>7. AtHand(s)'
  BY <1>2, <1>3, <1>4 DEF AtHand, Spare, OneSpare, QueueThere, Plain, TypedQueue
<1>8. ASSUME alarms' = 0, ~lost' PROVE Accounted(s)' /\ Clean' /\ Sizes(s)'
  <2>1. Accounted(s) /\ Clean /\ Sizes(s)
    BY <1>1, <1>8 DEF Tally, session
  <2>2. Queued' = Queued /\ Pending = {} /\ Pending' = {b}
    BY <1>4 DEF Queued, Pending, OneSpare, TwoSpare, Plain, Holding
  <2>3. Accounted(s)'
    BY <1>4, <2>1, <2>2 DEF Accounted, TwoSpare
  <2>4. Clean'
    BY <2>1 DEF Clean, session
  <2>5. /\ size' = size /\ qcnt' = qcnt /\ Ahead = 0 /\ AheadOfHandler = 0
        /\ Ahead' = 0 /\ AheadOfHandler' = 0
    BY DEF Ahead, AheadOfHandler, Linked, Removed, session
  <2>6. Sizes(s)'
    BY <1>4, <2>1, <2>5 DEF Sizes, Plain, Linked
  <2>7. QED
    BY <2>3, <2>4, <2>6
<1>9. QED
  BY <1>1, <1>5, <1>6, <1>7, <1>8, TallyOf DEF Heap, Shape

LEMMA ReturnHeap ==
  ASSUME Control, NEW s, Heap(s), UNCHANGED session, Plain, pc \in Starts, owed = 0,
         UNCHANGED <<allocated, error_occurred, q, struct, elements, lost>>,
         pc' = "returned", rval' \in BOOLEAN, ~rval' \/ cmd = "reverse", ~Freeing,
         cmd = "new" => q = Null
  PROVE  Heap(s)'
<1> USE DEF struct, elements, history, Starts
<1>1. s \in Seq(Blocks) /\ Shape(s) /\ Tally(s)
  BY DEF Heap
<1>2. Plain'
  BY DEF Plain, Freed, Freeing, session, FreeLoop, Holding, OneSpare, TwoSpare
<1>3. cmd' = "new" => s = <<>>
  BY <1>1 DEF Shape, QueueThere, session
<1>4. Shape(s)'
  BY <1>1, <1>2, <1>3, SameShape DEF Linked
<1>5. ASSUME alarms' = 0, ~lost' PROVE Accounted(s)' /\ Clean' /\ Sizes(s)'
  <2>1. Accounted(s) /\ Clean /\ Sizes(s)
    BY <1>1, <1>5 DEF Tally, session
  <2>2. Accounted(s)'
    BY <1>1, <1>2, <2>1, SameAccounts
  <2>3. Clean'
    BY <2>1 DEF Clean, session
  <2>4. /\ size' = size /\ qcnt' = qcnt /\ Ahead = 0 /\ AheadOfHandler = 0
        /\ Ahead' = 0 /\ AheadOfHandler' = 0
    BY DEF Ahead, AheadOfHandler, Linked, Removed, session, Inserts, Removes
  <2>5. Sizes(s)'
    BY <1>2, <2>1, <2>4 DEF Sizes, Plain, Linked, Inserts, session
  <2>6. QED
    BY <2>2, <2>3, <2>5
<1>6. QED
  BY <1>1, <1>4, <1>5, TallyOf DEF Heap

LEMMA AllocHeap ==
  ASSUME Control, NEW s, Heap(s), UNCHANGED session,
         \/ NewMalloc
         \/ InsertElement("q_insert_head", "head_value")
         \/ InsertElement("q_insert_tail", "tail_value")
  PROVE  Heap(s)'
<1> USE DEF memory, flags, Starts
<1>1. Handled /\ pc \in {"q_new", "q_insert_head", "q_insert_tail"} /\ owed = 0
  BY DEF Control, NewMalloc, InsertElement, At
<1>2. Plain /\ ~Freeing
  <2>1. cmd \in {"ih", "it"} \/ (cmd = "new" /\ reps = 1)
    BY <1>1 DEF Handled, Inserting, Inserts
  <2>2. ~Freeing
    BY <2>1 DEF Freeing
  <2>3. QED
    BY <1>1, <2>2 DEF Plain, Freed, FreeLoop, OneSpare, TwoSpare, Holding
<1>3. cmd = "new" => q = Null
  BY <1>1 DEF Handled, Heap, Shape, QueueThere, Inserting, Inserts
<1>4. UNCHANGED <<error_occurred, q, struct, elements, lost>>
  BY DEF NewMalloc, InsertElement
<1>5. \/ /\ \E b \in Available : elt' = b /\ allocated' = allocated \cup {b}
         /\ UNCHANGED rval
         /\ \/ q # Null /\ pc' \in {"head_value", "tail_value"}
            \/ pc = "q_new" /\ pc' = "new_fields"
      \/ UNCHANGED allocated /\ pc' = "returned" /\ rval' \in BOOLEAN /\ ~rval'
  <2>1. CASE NewMalloc
    BY <2>1 DEF NewMalloc, Malloc, Link, Goto, Return, At
  <2>2. CASE InsertElement("q_insert_head", "head_value")
    BY <2>2 DEF InsertElement, Malloc, Link, Goto, Return
  <2>3. CASE InsertElement("q_insert_tail", "tail_value")
    BY <2>3 DEF InsertElement, Malloc, Link, Goto, Return
  <2>4. QED
    BY <2>1, <2>2, <2>3
<1>6. CASE UNCHANGED allocated /\ pc' = "returned" /\ rval' \in BOOLEAN /\ ~rval'
  BY <1>1, <1>2, <1>3, <1>4, <1>6, ReturnHeap
<1>7. CASE /\ \E b \in Available : elt' = b /\ allocated' = allocated \cup {b}
           /\ UNCHANGED rval
           /\ \/ q # Null /\ pc' \in {"head_value", "tail_value"}
              \/ pc = "q_new" /\ pc' = "new_fields"
  <2>1. PICK b \in Available : elt' = b /\ allocated' = allocated \cup {b}
    BY <1>7
  <2>2. b \in Blocks /\ b \notin allocated
    BY <2>1 DEF Available
  <2>3. QED
    BY <1>1, <1>2, <1>4, <1>7, <2>1, <2>2, MallocHeap
<1>8. QED
  BY <1>5, <1>6, <1>7

-----------------------------------------------------------------------------
(* The operations that free a block that is none of the list.              *)
LEMMA SpareFreed ==
  ASSUME Control, NEW s, Heap(s), UNCHANGED session, NEW b,
         \/ pc = "free_value" /\ b = value[elt] /\ Free(b, "free_element")
         \/ pc = "remove_value" /\ b = value[elt] /\ Free(b, "remove_element")
         \/ pc = "free_element" /\ b = elt /\ Free(b, "free_loop")
         \/ pc = "remove_element" /\ b = elt /\ Free(b, "remove_size")
         \/ pc = "undo" /\ b = elt /\ Free(b, "undone"),
         UNCHANGED <<q, struct, locals, rval, lost>>
  PROVE  Heap(s)'
<1> USE DEF struct, locals, history
<1>1. s \in Seq(Blocks) /\ Shape(s) /\ Tally(s) /\ Lists(s) /\ Whole(s, allocated, value)
  BY DEF Heap, Shape
<1>2. /\ value \in [Blocks -> Pointers] /\ next \in [Blocks -> Pointers] /\ allocated \subseteq Blocks
      /\ corrupt \subseteq Blocks
  BY DEF Control, Typed, TypedElements, TypedMemory
<1>3. /\ b \in allocated /\ allocated' = allocated \ {b}
      /\ error_occurred' = (error_occurred \/ b \in corrupt)
      /\ value' = [value EXCEPT ![b] = Junk] /\ next' = [next EXCEPT ![b] = Junk]
      /\ corrupt' = corrupt \ {b}
  BY DEF Free, Unlink
<1>4. /\ pc \in {"free_value", "remove_value"} =>
           /\ b = value[elt] /\ Spare(b, s) /\ Spare(elt, s) /\ b # elt
           /\ pc' = IF pc = "free_value" THEN "free_element" ELSE "remove_element"
      /\ pc \in {"free_element", "remove_element", "undo"} =>
           /\ b = elt /\ Spare(b, s)
           /\ pc' = IF pc = "free_element" THEN "free_loop"
                    ELSE IF pc = "remove_element" THEN "remove_size" ELSE "undone"
      /\ pc \in {"free_value", "remove_value", "free_element", "remove_element", "undo"}
  BY <1>1 DEF Shape, AtHand, OneSpare, TwoSpare, Free, Goto
<1>5. Spare(b, s)
  BY <1>4
<1>6. b \in Blocks /\ b # q /\ Apart(b, s, value)
  BY <1>2, <1>3, <1>5 DEF Spare
<1>7. /\ Whole(s, allocated', value') /\ Strings(s, value') = Strings(s, value)
      /\ \A c : Apart(c, s, value) => Apart(c, s, value')
  <2>1. Untouched(s, allocated, b, value, [value EXCEPT ![b] = Junk])
    BY <1>1, <1>2, <1>6, WriteApart
  <2>2. QED
    BY <1>3, <2>1 DEF Untouched
<1>8. ~Freed /\ ~Freed' /\ (pc \in FreeLoop <=> pc' \in FreeLoop)
  BY <1>4 DEF Freed, FreeLoop
<1>9. Lists(s)'
  <2>1. \A p : Chain(p, s, next) => Chain(p, s, next')
    BY <1>1, <1>2, <1>3, <1>6, ChainApart
  <2>2. pc # "reverse_loop" /\ pc' # "reverse_loop"
    BY <1>4
  <2>3. QED
    BY <1>1, <1>8, <2>1, <2>2 DEF Lists
<1>10. QueueThere(s)'
  <2>1. QueueThere(s)
    BY <1>1 DEF Shape
  <2>2. q # Null => q \in allocated' /\ Apart(q, s, value')
    BY <1>3, <1>6, <1>7, <1>8, <2>1 DEF QueueThere
  <2>3. q' = q /\ (q = Null => s = <<>>) /\ (pc \in FreeLoop => q # Null)
    BY <2>1 DEF QueueThere
  <2>4. pc' \notin {"undo", "q_new", "new_fields", "returned"} \cup Linking \cup Linked
    BY <1>4 DEF Linking, Linked
  <2>5. QED
    BY <1>8, <2>2, <2>3, <2>4 DEF QueueThere
<1>11. AtHand(s)'
  <2>1. pc' \in OneSpare => Spare(elt, s)'
    <3>1. SUFFICES ASSUME pc' \in OneSpare PROVE Spare(elt, s)'
      OBVIOUS
    <3>2. Spare(elt, s) /\ b # elt
      BY <1>4, <3>1 DEF OneSpare
    <3>3. QED
      BY <1>3, <1>7, <3>2 DEF Spare
  <2>2. pc' \notin TwoSpare \cup {"new_fields"}
    BY <1>4 DEF TwoSpare
  <2>3. QED
    BY <2>1, <2>2 DEF AtHand
<1>12. ASSUME alarms' = 0, ~lost' PROVE Accounted(s)' /\ Clean' /\ Sizes(s)'
  <2>1. Accounted(s) /\ Clean /\ Sizes(s)
    BY <1>1, <1>12 DEF Tally, session
  <2>2. Queued' = Queued /\ b \notin Queued
    BY <1>6, <1>8 DEF Queued
  <2>3. b \notin Elements(s) /\ b \notin Strings(s, value)
    BY <1>6 DEF Elements, Strings, Apart
  <2>4. Pending' = Pending \ {b}
    BY <1>4 DEF Pending, OneSpare, TwoSpare
  <2>5. allocated' = Queued' \cup Elements(s) \cup Strings(s, value') \cup Pending'
    BY <1>3, <1>7, <2>1, <2>2, <2>3, <2>4 DEF Accounted
  <2>6. ASSUME NEW c \in Blocks, value'[c] \in Blocks
        PROVE  c \in Elements(s) \/ (pc' \in TwoSpare \cup {"free_element", "remove_element"} /\ c = elt')
    <3>1. c # b /\ value[c] \in Blocks
      BY <1>2, <1>3, <1>6, <2>6, BlockFacts
    <3>2. c \in Elements(s) \/ c = elt
      BY <2>1, <3>1 DEF Accounted
    <3>3. QED
      BY <1>4, <3>1, <3>2
  <2>7. Accounted(s)'
    BY <2>5, <2>6 DEF Accounted
  <2>8. Clean'
    BY <1>3, <2>1, Zenon DEF Clean, session
  <2>9. /\ size' = size /\ qcnt' = qcnt
        /\ pc' \notin FreeLoop => Ahead = Ahead' /\ AheadOfHandler = AheadOfHandler'
    BY <1>4 DEF Ahead, AheadOfHandler, Linked, Removed, FreeLoop, session
  <2>10. pc' # "returned" /\ pc' \notin Linked
    BY <1>4 DEF Linked
  <2>11. Sizes(s)'
    BY <1>8, <2>1, <2>9, <2>10 DEF Sizes
  <2>12. QED
    BY <2>7, <2>8, <2>11
<1>13. QED
  BY <1>1, <1>7, <1>9, <1>10, <1>11, <1>12, TallyOf DEF Heap, Shape

LEMMA FreeStartHeap ==
  ASSUME Control, NEW s, Heap(s), UNCHANGED session, FreeStart
  PROVE  Heap(s)'
<1> USE DEF memory, flags, struct, elements, locals, history
<1>1. s \in Seq(Blocks) /\ Shape(s) /\ Tally(s) /\ Lists(s) /\ Whole(s, allocated, value) /\ QueueThere(s)
  BY DEF Heap, Shape
<1>2. pc = "q_free" /\ Freeing /\ Freeing' /\ ~Freed
  BY DEF FreeStart, At, Control, Handled, Freeing, Freed, session
<1>3. /\ UNCHANGED <<allocated, corrupt, error_occurred, value, next, head, q, size, alarms, lost, cmd, ok>>
      /\ IF q = Null THEN pc' = "returned" ELSE curr' = head /\ pc' = "free_loop"
  BY DEF FreeStart, Return, Goto, session
<1>4. Chain(head, s, next)
  BY <1>1, <1>2 DEF Lists, FreeLoop
<1>5. q = Null => s = <<>>
  BY <1>1 DEF QueueThere
<1>6. IF q = Null THEN Freed' ELSE ~Freed'
  BY <1>2, <1>3 DEF Freed
<1>7. Lists(s)'
  BY <1>3, <1>4, <1>5, <1>6 DEF Lists, FreeLoop
<1>8. QueueThere(s)' /\ AtHand(s)'
  BY <1>1, <1>2, <1>3, <1>5, <1>6
  DEF QueueThere, AtHand, Linking, Linked, FreeLoop, OneSpare, TwoSpare
<1>9. ASSUME alarms' = 0, ~lost' PROVE Accounted(s)' /\ Clean' /\ Sizes(s)'
  <2>1. Accounted(s) /\ Clean /\ Sizes(s)
    BY <1>1, <1>3, <1>9 DEF Tally
  <2>2. Queued' = Queued /\ Pending' = {} /\ Pending = {}
    BY <1>2, <1>3, <1>6 DEF Queued, Pending, OneSpare, TwoSpare
  <2>3. Accounted(s)'
    BY <1>2, <1>3, <2>1, <2>2 DEF Accounted, TwoSpare
  <2>4. Clean'
    BY <1>3, <2>1 DEF Clean
  <2>5. Sizes(s)'
    BY <1>2, <1>3, <1>6 DEF Sizes, FreeLoop, Linked, Freeing, Inserts
  <2>6. QED
    BY <2>3, <2>4, <2>5
<1>10. QED
  BY <1>1, <1>3, <1>7, <1>8, <1>9, TallyOf DEF Heap, Shape

LEMMA FreeNextHeap ==
  ASSUME Control, NEW s, Heap(s), UNCHANGED session, FreeNext
  PROVE  \E t \in Seq(Blocks) : Heap(t)'
<1> USE DEF memory, flags, struct, elements, history
<1>1. s \in Seq(Blocks) /\ Shape(s) /\ Tally(s) /\ Lists(s) /\ Whole(s, allocated, value) /\ QueueThere(s)
  BY DEF Heap, Shape
<1>2. /\ pc = "free_loop" /\ pc' = "free_value" /\ curr \in Blocks /\ elt' = curr /\ curr' = next[curr]
      /\ UNCHANGED <<allocated, corrupt, error_occurred, value, next, head, q, size, alarms, lost, cmd, ok>>
  BY DEF FreeNext, At, Goto, session
<1>3. Chain(curr, s, next) /\ curr # Null /\ ~Freed /\ ~Freed'
  BY <1>1, <1>2, BlockFacts DEF Lists, FreeLoop, Freed
<1>4. PICK t \in Seq(Blocks) : Popped(s, t, curr, next, allocated, value)
  BY <1>1, <1>3, WholePop
<1>5. /\ Chain(next[curr], t, next) /\ Whole(t, allocated, value)
      /\ curr \in allocated /\ value[curr] \in allocated /\ value[curr] # curr
      /\ Apart(curr, t, value) /\ Apart(value[curr], t, value)
      /\ \A c : Apart(c, s, value) => Apart(c, t, value) /\ c # curr /\ c # value[curr]
      /\ Elements(s) = Elements(t) \cup {curr}
      /\ Strings(s, value) = Strings(t, value) \cup {value[curr]}
  BY <1>4 DEF Popped
<1>6. q # Null /\ q \in allocated /\ Apart(q, s, value)
  BY <1>1, <1>2, <1>3 DEF QueueThere, FreeLoop
<1>7. Apart(q, t, value) /\ q # curr /\ q # value[curr]
  BY <1>5, <1>6
<1>8. Lists(t)'
  BY <1>2, <1>3, <1>5 DEF Lists, FreeLoop
<1>9. QueueThere(t)'
  BY <1>2, <1>6, <1>7 DEF QueueThere
<1>10. AtHand(t)'
  BY <1>2, <1>5, <1>7 DEF AtHand, Spare, OneSpare, TwoSpare
<1>11. ASSUME alarms' = 0, ~lost' PROVE Accounted(t)' /\ Clean' /\ Sizes(t)'
  <2>1. Accounted(s) /\ Clean
    BY <1>1, <1>2, <1>11 DEF Tally
  <2>2. Queued = {q} /\ Queued' = {q} /\ Pending = {} /\ Pending' = {curr, value[curr]}
    BY <1>2, <1>3, <1>6 DEF Queued, Pending, OneSpare, TwoSpare
  <2>3. allocated' = Queued' \cup Elements(t) \cup Strings(t, value') \cup Pending'
    <3>1. allocated = {q} \cup Elements(s) \cup Strings(s, value)
      BY <2>1, <2>2 DEF Accounted
    <3>2. /\ Elements(s) = Elements(t) \cup {curr}
          /\ Strings(s, value) = Strings(t, value) \cup {value[curr]}
      BY <1>5
    <3>3. allocated' = allocated /\ value' = value
      BY <1>2
    <3>4. QED
      BY <2>2, <3>1, <3>2, <3>3
  <2>4. \A c \in Blocks : value'[c] \in Blocks => c \in Elements(t) \/ c = elt'
    <3>1. \A c \in Blocks : value[c] \in Blocks => c \in Elements(s)
      BY <1>2, <2>1 DEF Accounted, TwoSpare
    <3>2. Elements(s) = Elements(t) \cup {curr} /\ value' = value /\ elt' = curr
      BY <1>2, <1>5
    <3>3. QED
      BY <3>1, <3>2
  <2>5. Accounted(t)'
    BY <1>2, <2>3, <2>4 DEF Accounted, TwoSpare
  <2>6. Clean' /\ Sizes(t)'
    BY <1>2, <2>1 DEF Clean, Sizes, FreeLoop, Linked
  <2>7. QED
    BY <2>5, <2>6
<1>12. Heap(t)'
  BY <1>2, <1>5, <1>8, <1>9, <1>10, <1>11, TallyOf DEF Heap, Shape
<1>13. QED
  BY <1>12

LEMMA FreeQueueHeap ==
  ASSUME Control, NEW s, Heap(s), UNCHANGED session, FreeQueue \/ FreeDone
  PROVE  Heap(s)'
<1> USE DEF memory, flags, struct, elements, locals, history
<1>1. s \in Seq(Blocks) /\ Shape(s) /\ Tally(s) /\ Lists(s) /\ QueueThere(s)
  BY DEF Heap, Shape
<1>2. pc \in {"free_loop", "free_done"} /\ Freeing /\ Freeing'
  BY DEF FreeQueue, FreeDone, At, Control, Handled, Freeing, session, FreeLoop
<1>3. s = <<>>
  <2>1. CASE FreeQueue
    <3>1. Chain(Null, s, next)
      BY <1>1, <2>1 DEF FreeQueue, At, Lists, FreeLoop
    <3>2. s # <<>> => s[1] \in Blocks
      BY <1>1, SeqFacts
    <3>3. QED
      BY <3>1, <3>2, BlockFacts DEF Chain
  <2>2. CASE FreeDone
    BY <1>1, <2>2 DEF FreeDone, At, Lists, Freed
  <2>3. QED
    BY <2>1, <2>2
<1>4. Freed' /\ q' = q /\ pc' \in {"free_done", "returned"}
  BY <1>2 DEF Freed, FreeQueue, FreeDone, Free, Goto, Return
<1>5. Lists(s)' /\ Whole(s, allocated, value)'
  BY <1>3, <1>4, NoList DEF Lists, FreeLoop
<1>6. QueueThere(s)' /\ AtHand(s)'
  BY <1>3, <1>4 DEF QueueThere, AtHand, Linking, Linked, FreeLoop, OneSpare, TwoSpare
<1>7. ASSUME alarms' = 0, ~lost' PROVE Accounted(s)' /\ Clean' /\ Sizes(s)'
  <2>1. Accounted(s) /\ Clean
    BY <1>1, <1>7 DEF Tally, session, FreeQueue, FreeDone
  <2>2. Elements(s) = {} /\ Strings(s, value) = {} /\ Strings(s, value)' = {}
    BY <1>3 DEF Elements, Strings
  <2>3. Queued' = {} /\ Pending' = {} /\ Pending = {}
    BY <1>2, <1>4 DEF Queued, Pending, OneSpare, TwoSpare
  <2>4. allocated' = {}
    <3>1. CASE FreeQueue
      <4>1. allocated' = allocated \ {q} /\ Queued \subseteq {q}
        BY <3>1 DEF FreeQueue, Free, Unlink, Queued
      <4>2. QED
        BY <2>1, <2>2, <2>3, <4>1 DEF Accounted
    <3>2. CASE FreeDone
      <4>1. allocated' = allocated /\ Queued = {}
        BY <3>2 DEF FreeDone, At, Queued, Freed
      <4>2. QED
        BY <2>1, <2>2, <2>3, <4>1 DEF Accounted
    <3>3. QED
      BY <3>1, <3>2
  <2>5. \A c \in Blocks : value'[c] \notin Blocks
    <3>1. \A c \in Blocks : value[c] \notin Blocks
      BY <1>2, <2>1, <2>2 DEF Accounted, TwoSpare
    <3>2. CASE FreeQueue
      <4>1. value' = [value EXCEPT ![q] = Junk] /\ value \in [Blocks -> Pointers]
        BY <3>2 DEF FreeQueue, Free, Control, Typed, TypedElements
      <4>2. QED
        BY <3>1, <4>1, BlockFacts
    <3>3. CASE FreeDone
      BY <3>1, <3>3 DEF FreeDone
    <3>4. QED
      BY <3>2, <3>3
  <2>6. Accounted(s)'
    BY <2>2, <2>3, <2>4, <2>5 DEF Accounted
  <2>7. Clean'
    <3>1. UNCHANGED <<cmd, ok>> /\ corrupt' \subseteq corrupt
      BY DEF FreeQueue, FreeDone, Free, session
    <3>2. corrupt = {} /\ ~error_occurred /\ (cmd = "free" => ok)
      BY <2>1 DEF Clean
    <3>3. ~error_occurred'
      <4>1. CASE FreeQueue
        BY <3>2, <4>1 DEF FreeQueue, Free
      <4>2. CASE FreeDone
        BY <3>2, <4>2 DEF FreeDone
      <4>3. QED
        BY <4>1, <4>2
    <3>4. QED
      BY <3>1, <3>2, <3>3 DEF Clean
  <2>8. Sizes(s)'
    BY <1>2, <1>4 DEF Sizes, Linked, Freeing, Inserts
  <2>9. QED
    BY <2>6, <2>7, <2>8
<1>8. QED
  BY <1>1, <1>5, <1>6, <1>7, TallyOf DEF Heap, Shape

LEMMA NewFieldsHeap ==
  ASSUME Control, NEW s, Heap(s), UNCHANGED session, NewFields
  PROVE  Heap(s)'
<1> USE DEF memory, flags, struct, elements, locals, history
<1>1. s \in Seq(Blocks) /\ Shape(s) /\ Tally(s) /\ QueueThere(s) /\ AtHand(s)
  BY DEF Heap, Shape
<1>2. /\ pc = "new_fields" /\ pc' = "returned" /\ cmd' = "new" /\ reps' = 1
      /\ head' = Null /\ size' = 0 /\ q' = elt
      /\ UNCHANGED <<allocated, corrupt, error_occurred, value, next, alarms, lost, cmd, ok, qcnt>>
  BY DEF NewFields, At, Return, Control, Handled, session
<1>3. s = <<>> /\ q = Null /\ ~Freed
  BY <1>1, <1>2 DEF QueueThere, Freed
<1>4. elt \in allocated /\ elt # Null
  BY <1>1, <1>2, BlockFacts DEF AtHand, Control, Typed, TypedMemory
<1>5. ~Freed' /\ ~Freeing'
  BY <1>2 DEF Freed, Freeing
<1>6. Lists(s)' /\ Whole(s, allocated, value)'
  BY <1>2, <1>3, <1>5, NoList, ChainNone DEF Lists, FreeLoop
<1>7. QueueThere(s)' /\ AtHand(s)'
  BY <1>2, <1>3, <1>4, NoList DEF QueueThere, AtHand, Linking, Linked, FreeLoop, OneSpare,
     TwoSpare
<1>8. ASSUME alarms' = 0, ~lost' PROVE Accounted(s)' /\ Clean' /\ Sizes(s)'
  <2>1. Accounted(s) /\ Clean /\ Sizes(s)
    BY <1>1, <1>2, <1>8 DEF Tally
  <2>2. Queued = {} /\ Queued' = {elt} /\ Pending = {elt} /\ Pending' = {}
    BY <1>2, <1>3, <1>4, <1>5 DEF Queued, Pending, OneSpare, TwoSpare
  <2>3. Strings(s, value)' = Strings(s, value)
    BY <1>2
  <2>4. Accounted(s)'
    BY <1>2, <2>1, <2>2, <2>3 DEF Accounted, TwoSpare
  <2>5. qcnt' = 0 /\ Len(s) = 0
    BY <1>2, <1>3, <2>1, NoList DEF Sizes, FreeLoop, AheadOfHandler, Ahead, Linked, Removed
  <2>6. AheadOfHandler' = 0 /\ Ahead' = 0
    BY <1>2 DEF AheadOfHandler, Ahead, Linked, Removed, Inserts, Removes
  <2>7. Sizes(s)'
    BY <1>2, <2>5, <2>6 DEF Sizes, Linked, Inserts
  <2>8. Clean'
    BY <1>2, <2>1 DEF Clean
  <2>9. QED
    BY <2>4, <2>7, <2>8
<1>9. QED
  BY <1>1, <1>6, <1>7, <1>8, TallyOf DEF Heap, Shape

LEMMA InsertValueHeap ==
  ASSUME Control, NEW s, Heap(s), UNCHANGED session,
         \/ InsertValue("head_value", "head_link", "undo")
         \/ InsertValue("tail_value", "tail_link", "undo")
  PROVE  Heap(s)'
<1> USE DEF memory, flags, struct, elements, locals, history
<1>1. s \in Seq(Blocks) /\ Shape(s) /\ Tally(s) /\ Lists(s) /\ Whole(s, allocated, value)
      /\ QueueThere(s) /\ AtHand(s)
  BY DEF Heap, Shape
<1>2. /\ value \in [Blocks -> Pointers] /\ allocated \subseteq Blocks /\ q \in Blocks \cup {Null}
  BY DEF Control, Typed, TypedElements, TypedMemory, TypedQueue
<1>3. /\ pc \in {"head_value", "tail_value"}
      /\ UNCHANGED <<next, head, q, size, qcnt, corrupt, error_occurred, alarms, lost, cmd, ok, elt>>
  BY DEF InsertValue, At, session
<1>4. Spare(elt, s) /\ q # Null /\ q \in allocated /\ Apart(q, s, value) /\ Chain(head, s, next)
  BY <1>1, <1>3 DEF AtHand, OneSpare, QueueThere, Linking, Lists, Freed, FreeLoop
<1>5. elt \in Blocks /\ elt \in allocated /\ elt # q /\ Apart(elt, s, value)
  BY <1>2, <1>4 DEF Spare
<1>6. CASE UNCHANGED <<allocated, value>> /\ pc' = "undo"
  <2>1. Lists(s)' /\ Whole(s, allocated, value)'
    BY <1>1, <1>3, <1>4, <1>6 DEF Lists, FreeLoop, Freed
  <2>2. QueueThere(s)' /\ AtHand(s)'
    BY <1>3, <1>4, <1>6 DEF QueueThere, AtHand, Spare, TwoSpare
  <2>3. ASSUME alarms' = 0, ~lost' PROVE Accounted(s)' /\ Clean' /\ Sizes(s)'
    <3>1. Accounted(s) /\ Clean /\ Sizes(s)
      BY <1>1, <1>3, <2>3 DEF Tally
    <3>2. Queued' = Queued /\ Pending' = Pending
      BY <1>3, <1>6 DEF Queued, Pending, OneSpare, TwoSpare, Freed
    <3>3. Strings(s, value)' = Strings(s, value)
      BY <1>6
    <3>4. Accounted(s)'
      BY <1>3, <1>6, <3>1, <3>2, <3>3 DEF Accounted, TwoSpare
    <3>5. Ahead = Ahead' /\ AheadOfHandler = AheadOfHandler'
      BY <1>3, <1>6 DEF Ahead, AheadOfHandler, Linked, Removed
    <3>6. Sizes(s)' /\ Clean'
      BY <1>3, <1>6, <3>1, <3>5 DEF Sizes, Clean, Linked, Freed, FreeLoop
    <3>7. QED
      BY <3>4, <3>6
  <2>4. QED
    BY <1>1, <2>1, <2>2, <2>3, TallyOf DEF Heap, Shape
<1>7. ASSUME NEW b \in Available, allocated' = allocated \cup {b},
             value' = [value EXCEPT ![elt] = b], pc' \in {"head_link", "tail_link"}
      PROVE  Heap(s)'
  <2>1. b \in Blocks /\ b \notin allocated /\ Apart(b, s, value) /\ b # elt /\ b # q /\ value'[elt] = b
    BY <1>1, <1>2, <1>4, <1>5, <1>7, FreshApart DEF Available
  <2>2. Untouched(s, allocated, elt, value, [value EXCEPT ![elt] = b])
    BY <1>1, <1>2, <1>5, WriteApart
  <2>3. /\ Whole(s, allocated, value') /\ Strings(s, value') = Strings(s, value)
        /\ \A c : Apart(c, s, value) => Apart(c, s, value')
    BY <1>7, <2>2 DEF Untouched
  <2>4. Lists(s)' /\ Whole(s, allocated, value)'
    BY <1>3, <1>4, <1>7, <2>3, WholeMore DEF Lists, FreeLoop, Freed
  <2>5. Apart(q, s, value') /\ Apart(elt, s, value') /\ Apart(b, s, value')
    BY <1>4, <1>5, <2>1, <2>3
  <2>6. QueueThere(s)' /\ AtHand(s)'
    BY <1>3, <1>4, <1>5, <1>7, <2>1, <2>5 DEF QueueThere, AtHand, Spare, OneSpare, TwoSpare
  <2>7. ASSUME alarms' = 0, ~lost' PROVE Accounted(s)' /\ Clean' /\ Sizes(s)'
    <3>1. Accounted(s) /\ Clean /\ Sizes(s)
      BY <1>1, <1>3, <2>7 DEF Tally
    <3>2. Queued' = Queued /\ Pending = {elt} /\ Pending' = {elt, b}
      BY <1>3, <1>7, <2>1 DEF Queued, Pending, OneSpare, TwoSpare, Freed
    <3>3. allocated' = Queued' \cup Elements(s) \cup Strings(s, value') \cup Pending'
      BY <1>7, <2>3, <3>1, <3>2 DEF Accounted
    <3>4. ASSUME NEW c \in Blocks, value'[c] \in Blocks PROVE c \in Elements(s) \/ c = elt
      <4>1. c # elt => value'[c] = value[c]
        BY <1>2, <1>7
      <4>2. QED
        BY <1>3, <3>1, <3>4, <4>1 DEF Accounted, TwoSpare
    <3>5. Accounted(s)'
      BY <1>3, <1>7, <3>3, <3>4 DEF Accounted, TwoSpare
    <3>6. Ahead = Ahead' /\ AheadOfHandler = AheadOfHandler'
      BY <1>3, <1>7 DEF Ahead, AheadOfHandler, Linked, Removed
    <3>7. Sizes(s)' /\ Clean'
      BY <1>3, <1>7, <3>1, <3>6 DEF Sizes, Clean, Linked, Freed, FreeLoop
    <3>8. QED
      BY <3>5, <3>7
  <2>8. QED
    BY <1>1, <2>4, <2>6, <2>7, TallyOf DEF Heap, Shape
<1>8. \/ UNCHANGED <<allocated, value>> /\ pc' = "undo"
      \/ \E b \in Available :
           /\ allocated' = allocated \cup {b} /\ value' = [value EXCEPT ![elt] = b]
           /\ pc' \in {"head_link", "tail_link"}
  BY DEF InsertValue, Malloc, Link, Goto
<1>9. QED
  BY <1>6, <1>7, <1>8

-----------------------------------------------------------------------------
(* The operations that change the list.                                    *)
LEMMA LinkHeap ==
  ASSUME Control, NEW s \in Seq(Blocks), NEW t \in Seq(Blocks), Heap(s), UNCHANGED session,
         pc \in {"head_link", "tail_link"}, pc' \in {"head_tail", "tail_tail"},
         UNCHANGED <<allocated, value, q, size, error_occurred>>,
         Chain(head', t, next'), t # <<>>,
         \A k \in DOMAIN t : t[k] = elt \/ (\E m \in DOMAIN s : t[k] = s[m]),
         ~lost' => /\ ~lost
                   /\ alarms = 0 => corrupt' = {}
                   /\ Elements(t) = Elements(s) \cup {elt} /\ Len(t) = Len(s) + 1
  PROVE  Heap(t)'
<1> USE DEF memory, flags, struct, elements, locals, history
<1>1. Shape(s) /\ Tally(s) /\ Lists(s) /\ Whole(s, allocated, value) /\ QueueThere(s) /\ AtHand(s)
  BY DEF Heap, Shape
<1>2. UNCHANGED <<alarms, cmd, ok, qcnt>>
  BY DEF session
<1>3. /\ Spare(elt, s) /\ Spare(value[elt], s) /\ value[elt] # elt
      /\ q # Null /\ q \in allocated /\ Apart(q, s, value) /\ Chain(head, s, next)
  BY <1>1 DEF AtHand, TwoSpare, QueueThere, Linking, Lists, Freed, FreeLoop
<1>4. /\ elt \in allocated /\ elt # q /\ Apart(elt, s, value)
      /\ value[elt] \in allocated /\ value[elt] # q /\ Apart(value[elt], s, value)
  BY <1>3 DEF Spare
<1>5. /\ \A i, j \in DOMAIN s : s[i] = s[j] => i = j
      /\ \A i, j \in DOMAIN t : t[i] = t[j] => i = j
  BY <1>3 DEF Chain
<1>6. /\ Whole(t, allocated, value)
      /\ \A c : c # elt /\ c # value[elt] /\ Apart(c, s, value) => Apart(c, t, value)
  BY <1>1, <1>3, <1>4, <1>5, WholeGrown
<1>7. Apart(q, t, value)
  BY <1>3, <1>4, <1>6
<1>8. Lists(t)' /\ Whole(t, allocated, value)' /\ QueueThere(t)' /\ AtHand(t)'
  BY <1>3, <1>6, <1>7 DEF Lists, FreeLoop, Freed, QueueThere, AtHand, OneSpare, TwoSpare
<1>9. ASSUME alarms' = 0, ~lost' PROVE Accounted(t)' /\ Clean' /\ Sizes(t)'
  <2>1. /\ Accounted(s) /\ Clean /\ Sizes(s) /\ corrupt' = {}
        /\ Elements(t) = Elements(s) \cup {elt} /\ Len(t) = Len(s) + 1 /\ Len(s) \in Nat
    BY <1>1, <1>2, <1>9, SeqFacts DEF Tally
  <2>2. Queued' = Queued /\ Pending = {elt, value[elt]} /\ Pending' = {}
    BY <1>3 DEF Queued, Pending, OneSpare, TwoSpare, Freed
  <2>3. Strings(t, value) = Strings(s, value) \cup {value[elt]}
    <3>1. \A k \in DOMAIN t : t[k] \in Elements(s) \cup {elt}
      BY <2>1 DEF Elements
    <3>2. \A k \in DOMAIN t : value[t[k]] \in Strings(s, value) \cup {value[elt]}
      BY <3>1 DEF Elements, Strings
    <3>3. \A b : b \in Elements(s) \cup {elt} => \E k \in DOMAIN t : t[k] = b
      BY <2>1 DEF Elements
    <3>4. \A k \in DOMAIN s : value[s[k]] \in Strings(t, value)
      <4>1. SUFFICES ASSUME NEW k \in DOMAIN s PROVE value[s[k]] \in Strings(t, value)
        OBVIOUS
      <4>2. s[k] \in Elements(s)
        BY DEF Elements
      <4>3. PICK m \in DOMAIN t : t[m] = s[k]
        BY <3>3, <4>2
      <4>4. QED
        BY <4>3 DEF Strings
    <3>5. value[elt] \in Strings(t, value)
      <4>1. PICK m \in DOMAIN t : t[m] = elt
        BY <3>3
      <4>2. QED
        BY <4>1 DEF Strings
    <3>6. Strings(t, value) \subseteq Strings(s, value) \cup {value[elt]}
      <4>1. \A b : b \in Strings(t, value) => \E k \in DOMAIN t : b = value[t[k]]
        BY DEF Strings
      <4>2. QED
        BY <3>2, <4>1
    <3>7. Strings(s, value) \subseteq Strings(t, value)
      <4>1. \A b : b \in Strings(s, value) => \E k \in DOMAIN s : b = value[s[k]]
        BY DEF Strings
      <4>2. QED
        BY <3>4, <4>1
    <3>8. QED
      BY <3>5, <3>6, <3>7
  <2>4. Strings(t, value)' = Strings(t, value)
    OBVIOUS
  <2>5. allocated' = Queued' \cup Elements(t) \cup Strings(t, value)' \cup Pending'
    BY <2>1, <2>2, <2>3, <2>4 DEF Accounted
  <2>6. \A c \in Blocks : value'[c] \in Blocks => c \in Elements(t)
    <3>1. \A c \in Blocks : value[c] \in Blocks => c \in Elements(s) \/ c = elt
      BY <2>1 DEF Accounted
    <3>2. QED
      BY <2>1, <3>1
  <2>7. Accounted(t)'
    BY <2>5, <2>6 DEF Accounted
  <2>8. /\ size = Len(s) /\ qcnt = Len(s)
    BY <2>1 DEF Sizes, FreeLoop, Freed, Ahead, AheadOfHandler, Linked, Removed
  <2>9. Ahead' = 1 /\ AheadOfHandler' = 1
    BY DEF Ahead, AheadOfHandler, Linked
  <2>10. Sizes(t)'
    BY <1>2, <2>1, <2>8, <2>9 DEF Sizes
  <2>11. Clean'
    BY <1>2, <2>1 DEF Clean
  <2>12. QED
    BY <2>7, <2>10, <2>11
<1>10. QED
  BY <1>8, <1>9, TallyOf DEF Heap, Shape

LEMMA LinkAtHeadHeap ==
  ASSUME Control, NEW s, Heap(s), UNCHANGED session, LinkAtHead
  PROVE  \E t \in Seq(Blocks) : Heap(t)'
<1> USE DEF memory, flags, struct, elements, locals, history
<1>1. s \in Seq(Blocks) /\ Shape(s) /\ Tally(s) /\ Lists(s) /\ AtHand(s)
  BY DEF Heap, Shape
<1>2. /\ pc = "head_link" /\ pc' = "head_tail" /\ next' = [next EXCEPT ![elt] = head] /\ head' = elt
      /\ UNCHANGED <<allocated, value, corrupt, q, size, error_occurred, lost, alarms>>
  BY DEF LinkAtHead, At, Goto, session
<1>3. next \in [Blocks -> Pointers] /\ allocated \subseteq Blocks
  BY DEF Control, Typed, TypedElements, TypedMemory
<1>4. Chain(head, s, next) /\ elt \in Blocks /\ Apart(elt, s, value)
  BY <1>1, <1>2, <1>3 DEF Lists, FreeLoop, Freed, AtHand, TwoSpare, Spare
<1>5. next'[elt] = head /\ \A k \in DOMAIN s : s[k] # elt /\ next'[s[k]] = next[s[k]]
  BY <1>1, <1>2, <1>3, <1>4, SeqFacts DEF Apart
<1>6. PICK t \in Seq(Blocks) : Pushed(s, t, elt) /\ Chain(elt, t, next')
  BY <1>1, <1>4, <1>5, ChainPush
<1>7. /\ t \in Seq(Blocks) /\ Len(t) = Len(s) + 1 /\ t[1] = elt
      /\ \A k \in 2 .. Len(s) + 1 : t[k] = s[k - 1]
      /\ Chain(elt, t, next')
  BY <1>6 DEF Pushed
<1>8. /\ Len(s) \in Nat /\ DOMAIN s = 1 .. Len(s) /\ DOMAIN t = 1 .. Len(s) + 1 /\ t # <<>>
  BY <1>1, <1>7, SeqFacts
<1>9. \A k \in DOMAIN t : t[k] = elt \/ (\E m \in DOMAIN s : t[k] = s[m])
  <2>1. SUFFICES ASSUME NEW k \in DOMAIN t, k # 1 PROVE \E m \in DOMAIN s : t[k] = s[m]
    BY <1>7
  <2>2. k - 1 \in DOMAIN s /\ t[k] = s[k - 1]
    BY <1>7, <1>8, <2>1
  <2>3. QED
    BY <2>2
<1>10. Elements(t) = Elements(s) \cup {elt}
  <2>1. \A k \in DOMAIN s : s[k] \in Elements(t)
    <3>1. SUFFICES ASSUME NEW k \in DOMAIN s PROVE s[k] \in Elements(t)
      OBVIOUS
    <3>2. k + 1 \in DOMAIN t /\ t[k + 1] = s[k]
      BY <1>7, <1>8
    <3>3. QED
      BY <3>2 DEF Elements
  <2>2. 1 \in DOMAIN t
    BY <1>8
  <2>3. elt \in Elements(t)
    BY <1>7, <2>2 DEF Elements
  <2>4. \A k \in DOMAIN t : t[k] \in Elements(s) \cup {elt}
    BY <1>9 DEF Elements
  <2>5. QED
    BY <2>1, <2>3, <2>4 DEF Elements
<1>11. alarms = 0 /\ ~lost => corrupt' = {}
  BY <1>1, <1>2 DEF Tally, Clean
<1>12. Heap(t)'
  BY <1>1, <1>2, <1>7, <1>8, <1>9, <1>10, <1>11, LinkHeap
<1>13. QED
  BY <1>12

LEMMA LinkAtTailHeap ==
  ASSUME Control, NEW s, Heap(s), UNCHANGED session, LinkAtTail
  PROVE  \E t \in Seq(Blocks) : Heap(t)'
<1> USE DEF memory, flags, struct, elements, locals, history
<1>1. s \in Seq(Blocks) /\ Shape(s) /\ Tally(s) /\ Lists(s) /\ AtHand(s) /\ Whole(s, allocated, value)
  BY DEF Heap, Shape
<1>2. /\ pc = "tail_link" /\ pc' = "tail_tail"
      /\ UNCHANGED <<allocated, value, q, size, error_occurred, alarms>>
  BY DEF LinkAtTail, At, Goto, session
<1>3. /\ next \in [Blocks -> Pointers] /\ allocated \subseteq Blocks
      /\ lost \in BOOLEAN /\ value \in [Blocks -> Pointers]
  BY DEF Control, Typed, TypedElements, TypedMemory, TypedFlags
<1>4. Chain(head, s, next) /\ Spare(elt, s) /\ Spare(value[elt], s)
  BY <1>1, <1>2 DEF Lists, FreeLoop, Freed, AtHand, TwoSpare
<1>5. /\ elt \in Blocks /\ elt \in allocated /\ Apart(elt, s, value) /\ Apart(value[elt], s, value)
      /\ \A k \in DOMAIN s : s[k] \in Blocks /\ s[k] \in allocated /\ s[k] # elt
      /\ \A i, j \in DOMAIN s : s[i] = s[j] => i = j
  BY <1>1, <1>3, <1>4, SeqFacts DEF Spare, Apart, Whole, Chain
<1>6. Len(s) \in Nat /\ DOMAIN s = 1 .. Len(s) /\ (s = <<>> <=> Len(s) = 0)
  BY <1>1, SeqFacts
<1>7. CASE tail = Null
  <2>1. /\ next' = [next EXCEPT ![elt] = Null] /\ head' = elt /\ corrupt' = corrupt
        /\ lost' = (lost \/ head # Null)
    BY <1>7 DEF LinkAtTail
  <2>2. next'[elt] = Null
    BY <1>3, <1>5, <2>1
  <2>3. PICK t \in Seq(Blocks) :
          t # <<>> /\ Len(t) = 1 /\ t[1] = elt /\ DOMAIN t = {1} /\ Chain(elt, t, next')
    BY <1>5, <2>2, ChainOne
  <2>5. ~lost' => ~lost /\ s = <<>>
    <3>1. SUFFICES ASSUME ~lost' PROVE ~lost /\ s = <<>>
      OBVIOUS
    <3>2. ~lost /\ head = Null
      BY <2>1, <3>1, Zenon
    <3>3. s # <<>> => head = s[1] /\ s[1] \in Blocks
      BY <1>4, <1>5, <1>6 DEF Chain
    <3>4. QED
      BY <3>2, <3>3, BlockFacts
  <2>6. Elements(t) = {elt}
    BY <2>3 DEF Elements
  <2>7. s = <<>> => Elements(s) = {} /\ Len(s) = 0
    BY NoList
  <2>8. alarms = 0 /\ ~lost => corrupt' = {}
    BY <1>1, <2>1 DEF Tally, Clean
  <2>4. \A k \in DOMAIN t : t[k] = elt
    BY <2>3
  <2>9. ~lost' => /\ ~lost
                  /\ alarms = 0 => corrupt' = {}
                  /\ Elements(t) = Elements(s) \cup {elt} /\ Len(t) = Len(s) + 1
    BY <2>3, <2>5, <2>6, <2>7, <2>8
  <2>11. Heap(t)'
    BY <1>1, <1>2, <2>1, <2>3, <2>4, <2>9, LinkHeap
  <2>10. QED
    BY <2>11
<1>8. CASE tail # Null
  <2>1. /\ next' = [b \in Blocks |-> IF b = tail /\ b \in allocated THEN elt
                                   ELSE IF b = elt THEN Null ELSE next[b]]
        /\ corrupt' \in {corrupt, corrupt \cup ({value[b] : b \in Blocks} \cap {tail})}
        /\ head' = head
        /\ lost' = (lost \/ ~Last(tail))
    BY <1>8 DEF LinkAtTail
  <2>2. CASE tail \notin Elements(s)
    <3>1. \A k \in DOMAIN s : s[k] # tail /\ next'[s[k]] = next[s[k]]
      BY <1>5, <2>1, <2>2 DEF Elements
    <3>2. Chain(head', s, next')
      BY <1>1, <1>4, <2>1, <3>1, ChainSame
    <3>3. lost'
      BY <1>1, <1>4, <2>1, <2>2, ListedIs DEF Last
    <3>4. CASE s = <<>>
      <4>1. QED
        BY <1>1, <1>2, <1>4, <1>5, <3>2, <3>3, <3>4, NoList
        DEF Heap, Shape, Lists, QueueThere, AtHand, Tally, Linking, Linked, FreeLoop, Freed, OneSpare, TwoSpare
    <3>5. CASE s # <<>>
      <4>1. Heap(s)'
        BY <1>1, <1>2, <3>2, <3>3, <3>5, LinkHeap
      <4>2. QED
        BY <1>1, <4>1
    <3>6. QED
      BY <3>4, <3>5
  <2>3. CASE tail \in Elements(s)
    <3>1. PICK i \in DOMAIN s : s[i] = tail
      BY <2>3 DEF Elements
    <3>2. /\ next'[s[i]] = elt /\ next'[elt] = Null
          /\ \A k \in DOMAIN s : s[k] # elt /\ (k # i => next'[s[k]] = next[s[k]])
      BY <1>5, <2>1, <3>1
    <3>11. PICK t \in Seq(Blocks) : Extended(s, t, i, elt) /\ Chain(head, t, next')
      BY <1>1, <1>4, <1>5, <3>2, ChainEnd
    <3>3. /\ Len(t) = i + 1 /\ t[i + 1] = elt /\ \A k \in 1 .. i : k \in DOMAIN s /\ t[k] = s[k]
          /\ Chain(head, t, next')
      BY <3>11 DEF Extended
    <3>4. DOMAIN t = 1 .. i + 1 /\ t # <<>> /\ i \in Nat /\ i <= Len(s)
      BY <1>6, <3>3, <3>11, SeqFacts
    <3>5. \A k \in DOMAIN t : t[k] = elt \/ (\E m \in DOMAIN s : t[k] = s[m])
      <4>1. SUFFICES ASSUME NEW k \in DOMAIN t, k # i + 1 PROVE \E m \in DOMAIN s : t[k] = s[m]
        BY <3>3
      <4>2. k \in 1 .. i
        BY <3>4, <4>1
      <4>3. QED
        BY <3>3, <4>2
    <3>6. ASSUME ~lost' PROVE ~lost /\ i = Len(s)
      <4>1. ~lost /\ Last(tail)
        BY <2>1, <3>6, Zenon
      <4>2. next[s[i]] = Null
        BY <3>1, <4>1 DEF Last
      <4>3. i # Len(s) => i + 1 \in DOMAIN s /\ next[s[i]] = s[i + 1]
        BY <1>4, <1>6, <3>1 DEF Chain
      <4>4. QED
        BY <1>5, <4>1, <4>2, <4>3, BlockFacts
    <3>7. ASSUME i = Len(s) PROVE Elements(t) = Elements(s) \cup {elt} /\ Len(t) = Len(s) + 1
      <4>1. \A k \in DOMAIN s : s[k] \in Elements(t)
        <5>1. SUFFICES ASSUME NEW k \in DOMAIN s PROVE s[k] \in Elements(t)
          OBVIOUS
        <5>2. k \in DOMAIN t /\ t[k] = s[k]
          BY <1>6, <3>3, <3>4, <3>7
        <5>3. QED
          BY <5>2 DEF Elements
      <4>2. elt \in Elements(t)
        <5>1. i + 1 \in DOMAIN t
          BY <3>4
        <5>2. QED
          BY <3>3, <5>1 DEF Elements
      <4>3. \A k \in DOMAIN t : t[k] \in Elements(s) \cup {elt}
        BY <3>5 DEF Elements
      <4>4. QED
        BY <3>3, <3>7, <4>1, <4>2, <4>3 DEF Elements
    <3>8. ASSUME alarms = 0, ~lost PROVE corrupt' = {}
      <4>1. Accounted(s) /\ corrupt = {}
        BY <1>1, <3>8 DEF Tally, Clean
      <4>2. ASSUME NEW c \in Blocks, value[c] = tail PROVE FALSE
        <5>1. c \in Elements(s) \/ c = elt
          BY <1>2, <1>5, <3>1, <4>1, <4>2 DEF Accounted
        <5>2. CASE c = elt
          BY <1>5, <3>1, <4>2, <5>2 DEF Apart
        <5>3. CASE c \in Elements(s)
          <6>1. PICK m \in DOMAIN s : c = s[m]
            BY <5>3 DEF Elements
          <6>2. QED
            BY <1>1, <3>1, <4>2, <6>1 DEF Whole
        <5>4. QED
          BY <5>1, <5>2, <5>3
      <4>3. {value[b] : b \in Blocks} \cap {tail} = {}
        BY <4>2
      <4>4. QED
        BY <2>1, <4>1, <4>3
    <3>9. Heap(t)'
      BY <1>1, <1>2, <2>1, <3>3, <3>4, <3>5, <3>6, <3>7, <3>8, LinkHeap
    <3>10. QED
      BY <3>9
  <2>4. QED
    BY <2>2, <2>3
<1>9. QED
  BY <1>7, <1>8

LEMMA RemoveHeadHeap ==
  ASSUME Control, NEW s, Heap(s), UNCHANGED session, RemoveHead(cmd # "rhq")
  PROVE  \E t \in Seq(Blocks) : Heap(t)'
<1> USE DEF memory, flags, struct, elements, history
<1>1. s \in Seq(Blocks) /\ Shape(s) /\ Tally(s) /\ Lists(s) /\ Whole(s, allocated, value) /\ QueueThere(s)
  BY DEF Heap, Shape
<1>2. /\ pc = "q_remove_head" /\ pc' = "remove_value" /\ q # Null /\ head # Null
      /\ elt' = head /\ head' = next[head]
      /\ UNCHANGED <<allocated, corrupt, error_occurred, value, next, q, size, qcnt, alarms, lost, cmd, ok>>
  BY DEF RemoveHead, At, Goto, session
<1>3. Chain(head, s, next) /\ ~Freed /\ ~Freed'
  BY <1>1, <1>2 DEF Lists, FreeLoop, Freed
<1>4. PICK t \in Seq(Blocks) : Popped(s, t, head, next, allocated, value)
  BY <1>1, <1>2, <1>3, WholePop
<1>5. /\ Chain(next[head], t, next) /\ Whole(t, allocated, value)
      /\ head \in allocated /\ value[head] \in allocated /\ value[head] # head
      /\ Apart(head, t, value) /\ Apart(value[head], t, value)
      /\ \A c : Apart(c, s, value) => Apart(c, t, value) /\ c # head /\ c # value[head]
      /\ Elements(s) = Elements(t) \cup {head}
      /\ Strings(s, value) = Strings(t, value) \cup {value[head]}
      /\ Len(t) = Len(s) - 1 /\ Len(s) \in Nat
  BY <1>4 DEF Popped
<1>6. q \in allocated /\ Apart(q, s, value)
  BY <1>1, <1>2, <1>3 DEF QueueThere
<1>7. Apart(q, t, value) /\ q # head /\ q # value[head]
  BY <1>5, <1>6
<1>8. Lists(t)'
  BY <1>2, <1>3, <1>5 DEF Lists, FreeLoop
<1>9. QueueThere(t)'
  BY <1>2, <1>6, <1>7 DEF QueueThere
<1>10. AtHand(t)'
  BY <1>2, <1>5, <1>7 DEF AtHand, Spare, OneSpare, TwoSpare
<1>11. ASSUME alarms' = 0, ~lost' PROVE Accounted(t)' /\ Clean' /\ Sizes(t)'
  <2>1. Accounted(s) /\ Clean /\ Sizes(s)
    BY <1>1, <1>2, <1>11 DEF Tally
  <2>2. Queued = {q} /\ Queued' = {q} /\ Pending = {} /\ Pending' = {head, value[head]}
    BY <1>2, <1>3 DEF Queued, Pending, OneSpare, TwoSpare
  <2>3. allocated' = Queued' \cup Elements(t) \cup Strings(t, value') \cup Pending'
    <3>1. allocated = {q} \cup Elements(s) \cup Strings(s, value)
      BY <2>1, <2>2 DEF Accounted
    <3>2. /\ Elements(s) = Elements(t) \cup {head}
          /\ Strings(s, value) = Strings(t, value) \cup {value[head]}
      BY <1>5
    <3>3. allocated' = allocated /\ value' = value
      BY <1>2
    <3>4. QED
      BY <2>2, <3>1, <3>2, <3>3
  <2>4. \A c \in Blocks : value'[c] \in Blocks => c \in Elements(t) \/ c = elt'
    <3>1. \A c \in Blocks : value[c] \in Blocks => c \in Elements(s)
      BY <1>2, <2>1 DEF Accounted, TwoSpare
    <3>2. Elements(s) = Elements(t) \cup {head} /\ value' = value /\ elt' = head
      BY <1>2, <1>5
    <3>3. QED
      BY <3>1, <3>2
  <2>5. Accounted(t)'
    BY <1>2, <2>3, <2>4 DEF Accounted, TwoSpare
  <2>6. size = Len(s) /\ qcnt = Len(s)
    BY <1>2, <1>3, <1>5, <2>1 DEF Sizes, FreeLoop, Ahead, AheadOfHandler, Linked, Removed
  <2>7. Ahead' = -1 /\ AheadOfHandler' = -1
    BY <1>2 DEF Ahead, AheadOfHandler, Linked, Removed
  <2>8. Sizes(t)'
    BY <1>2, <1>5, <2>6, <2>7 DEF Sizes, Linked
  <2>9. Clean'
    BY <1>2, <2>1 DEF Clean
  <2>10. QED
    BY <2>5, <2>8, <2>9
<1>12. Heap(t)'
  BY <1>2, <1>4, <1>5, <1>8, <1>9, <1>10, <1>11, TallyOf DEF Heap, Shape
<1>13. QED
  BY <1>12

-----------------------------------------------------------------------------
(* The reversal.                                                           *)
(* Where the list's shape is all that changes, for a list s that becomes t.*)
LEMMA ReverseShape ==
  ASSUME NEW s \in Seq(Blocks), NEW t \in Seq(Blocks), Heap(s), UNCHANGED session, cmd = "reverse",
         UNCHANGED <<allocated, value, corrupt, error_occurred, q, size, lost>>,
         pc \in {"q_reverse", "reverse_loop"}, pc' \in {"reverse_loop", "returned"},
         Lists(t)', Elements(t) = Elements(s), Len(t) = Len(s),
         \A i, j \in DOMAIN t : t[i] = t[j] => i = j
  PROVE  Heap(t)'
<1> USE DEF history
<1>1. Shape(s) /\ Tally(s) /\ Whole(s, allocated, value) /\ QueueThere(s)
  BY DEF Heap, Shape
<1>2. UNCHANGED <<alarms, cmd, reps, ok, qcnt>>
  BY DEF session
<1>3. ~Freed /\ ~Freed'
  BY <1>2 DEF Freed, Freeing
<1>4. \A k \in DOMAIN t : \E m \in DOMAIN s : t[k] = s[m]
  BY DEF Elements
<1>5. \A k \in DOMAIN s : \E m \in DOMAIN t : s[k] = t[m]
  BY DEF Elements
<1>6. Whole(t, allocated, value)
  <2>1. \A k \in DOMAIN t : t[k] \in allocated /\ value[t[k]] \in allocated
    BY <1>1, <1>4 DEF Whole
  <2>2. \A i, j \in DOMAIN t : value[t[i]] # t[j]
    BY <1>1, <1>4 DEF Whole
  <2>3. ASSUME NEW i \in DOMAIN t, NEW j \in DOMAIN t, value[t[i]] = value[t[j]] PROVE i = j
    <3>1. PICK m \in DOMAIN s : t[i] = s[m]
      BY <1>4
    <3>2. PICK n \in DOMAIN s : t[j] = s[n]
      BY <1>4
    <3>3. m = n
      BY <1>1, <2>3, <3>1, <3>2 DEF Whole
    <3>4. QED
      BY <3>1, <3>2, <3>3
  <2>4. QED
    BY <2>1, <2>2, <2>3 DEF Whole
<1>7. \A c : Apart(c, s, value) => Apart(c, t, value)
  BY <1>4 DEF Apart
<1>8. QueueThere(t)'
  <2>1. q # Null => q \in allocated /\ Apart(q, t, value)
    BY <1>1, <1>3, <1>7 DEF QueueThere
  <2>2. q = Null => t = <<>>
    <3>1. s = <<>> => Len(s) = 0
      BY SeqFacts
    <3>2. Len(t) = 0 => t = <<>>
      BY SeqFacts
    <3>3. QED
      BY <1>1, <3>1, <3>2 DEF QueueThere
  <2>3. QED
    BY <1>2, <2>1, <2>2 DEF QueueThere, Linking, Linked, FreeLoop
<1>9. AtHand(t)'
  BY DEF AtHand, OneSpare, TwoSpare
<1>10. ASSUME alarms' = 0, ~lost' PROVE Accounted(t)' /\ Clean' /\ Sizes(t)'
  <2>1. Accounted(s) /\ Clean /\ Sizes(s)
    BY <1>1, <1>2, <1>10 DEF Tally
  <2>2. Queued' = Queued /\ Pending = {} /\ Pending' = {}
    BY <1>3 DEF Queued, Pending, OneSpare, TwoSpare
  <2>3. Strings(t, value)' = Strings(s, value)
    <3>1. Strings(t, value)' = Strings(t, value)
      OBVIOUS
    <3>2. \A b : b \in Strings(t, value) => b \in Strings(s, value)
      BY <1>4 DEF Strings
    <3>3. \A b : b \in Strings(s, value) => b \in Strings(t, value)
      BY <1>5 DEF Strings
    <3>4. QED
      BY <3>1, <3>2, <3>3
  <2>4. Accounted(t)'
    BY <2>1, <2>2, <2>3 DEF Accounted, TwoSpare
  <2>5. Ahead = 0 /\ AheadOfHandler = 0 /\ Ahead' = 0 /\ AheadOfHandler' = 0
    BY <1>2 DEF Ahead, AheadOfHandler, Linked, Removed, Inserts, Removes
  <2>6. Sizes(t)'
    BY <1>2, <1>3, <2>1, <2>5 DEF Sizes, FreeLoop, Linked, Inserts
  <2>7. Clean'
    BY <1>2, <2>1 DEF Clean
  <2>8. QED
    BY <2>4, <2>6, <2>7
<1>11. QED
  BY <1>1, <1>6, <1>8, <1>9, <1>10, TallyOf DEF Heap, Shape

LEMMA ReverseHeap ==
  ASSUME Control, NEW s, Heap(s), UNCHANGED session, ReverseStart \/ ReverseNext \/ ReverseEnd
  PROVE  \E t \in Seq(Blocks) : Heap(t)'
<1> USE DEF memory, flags, struct, elements, locals, history
<1>1. s \in Seq(Blocks) /\ Shape(s) /\ Tally(s) /\ Lists(s) /\ QueueThere(s)
  BY DEF Heap, Shape
<1>2. Len(s) \in Nat /\ DOMAIN s = 1 .. Len(s) /\ \A k \in DOMAIN s : s[k] \in Blocks
  BY <1>1, SeqFacts
<1>3. /\ cmd = "reverse" /\ pc \in {"q_reverse", "reverse_loop"}
      /\ next \in [Blocks -> Pointers] /\ (pc # "reverse_loop" => prev = Null)
  <2>1. pc \in {"q_reverse", "reverse_loop"}
    BY DEF ReverseStart, ReverseNext, ReverseEnd, At
  <2>2. QED
    BY <2>1 DEF Control, Handled, Typed, TypedElements, TypedPlace
<1>4. UNCHANGED <<allocated, value, corrupt, error_occurred, q, size, lost, cmd, reps, alarms>>
  BY DEF ReverseStart, ReverseNext, ReverseEnd, session
<1>5. ~Freed' /\ ~Freed /\ ~Freeing
  <2>1. pc' \in {"reverse_loop", "returned"}
    BY DEF ReverseStart, ReverseNext, ReverseEnd, At, Return, Goto
  <2>2. QED
    BY <1>3, <1>4, <2>1 DEF Freed, Freeing
<1>6. CASE ReverseStart
  <2>1. Chain(head, s, next) /\ pc = "q_reverse"
    BY <1>1, <1>5, <1>6 DEF Lists, ReverseStart, At, FreeLoop
  <2>2. CASE q = Null \/ head = Null \/ head = tail
    <3>1. UNCHANGED <<next, head>> /\ pc' = "returned"
      BY <1>6, <2>2 DEF ReverseStart, Return
    <3>2. Lists(s)'
      BY <1>5, <2>1, <3>1 DEF Lists, FreeLoop
    <3>3. \A i, j \in DOMAIN s : s[i] = s[j] => i = j
      BY <2>1 DEF Chain
    <3>4. Heap(s)'
      BY <1>1, <1>3, <1>4, <3>1, <3>2, <3>3, ReverseShape
    <3>5. QED
      BY <1>1, <3>4
  <2>3. CASE ~(q = Null \/ head = Null \/ head = tail)
    <3>1. UNCHANGED <<next, head, prev>> /\ pc' = "reverse_loop" /\ curr' = head /\ head # Null
      BY <1>6, <2>3 DEF ReverseStart, Goto
    <3>2. s # <<>> /\ head = s[1] /\ Len(s) # 0 /\ \A i, j \in DOMAIN s : s[i] = s[j] => i = j
      BY <1>1, <2>1, <3>1, SeqFacts DEF Chain
    <3>3. \A i \in DOMAIN s : next[s[i]] = IF i = Len(s) THEN Null ELSE s[i + 1]
      BY <2>1 DEF Chain
    <3>4. Turned(s)'
      <4>1. 0 \in 0 .. Len(s) /\ \A i \in DOMAIN s : i > 0
        BY <1>2
      <4>2. /\ curr' = IF 0 = Len(s) THEN Null ELSE s[0 + 1]
            /\ prev' = Null
        BY <1>3, <2>1, <3>1, <3>2
      <4>3. \A i \in DOMAIN s :
              next'[s[i]] = IF i > 0 THEN (IF i = Len(s) THEN Null ELSE s[i + 1])
                            ELSE IF i = 1 THEN Null ELSE s[i - 1]
        BY <3>1, <3>3, <4>1
      <4>4. QED
        BY <3>1, <3>2, <4>1, <4>2, <4>3 DEF Turned
    <3>5. Lists(s)'
      BY <1>5, <3>1, <3>4 DEF Lists, FreeLoop
    <3>6. Heap(s)'
      BY <1>1, <1>3, <1>4, <3>1, <3>2, <3>5, ReverseShape
    <3>7. QED
      BY <1>1, <3>6
  <2>4. QED
    BY <2>2, <2>3
<1>7. ASSUME pc = "reverse_loop"
      PROVE  /\ \A i, j \in DOMAIN s : s[i] = s[j] => i = j
             /\ s # <<>> /\ head = s[1] /\ Len(s) # 0
             /\ \E k \in 0 .. Len(s) :
                  /\ curr = IF k = Len(s) THEN Null ELSE s[k + 1]
                  /\ prev = IF k = 0 THEN Null ELSE s[k]
                  /\ \A i \in DOMAIN s :
                       next[s[i]] = IF i > k THEN (IF i = Len(s) THEN Null ELSE s[i + 1])
                                    ELSE IF i = 1 THEN Null ELSE s[i - 1]
  BY <1>1, <1>7, SeqFacts DEF Lists, Turned
<1>8. CASE ReverseNext
  <2>1. /\ pc = "reverse_loop" /\ pc' = "reverse_loop" /\ curr \in Blocks /\ head' = head
        /\ next' = [next EXCEPT ![curr] = prev] /\ prev' = curr /\ curr' = next[curr]
    BY <1>8 DEF ReverseNext, At
  <2>2. PICK k \in 0 .. Len(s) :
          /\ curr = IF k = Len(s) THEN Null ELSE s[k + 1]
          /\ prev = IF k = 0 THEN Null ELSE s[k]
          /\ \A i \in DOMAIN s :
               next[s[i]] = IF i > k THEN (IF i = Len(s) THEN Null ELSE s[i + 1])
                            ELSE IF i = 1 THEN Null ELSE s[i - 1]
    BY <1>7, <2>1
  <2>3. k + 1 \in 1 .. Len(s) /\ k \in Nat /\ curr = s[k + 1] /\ k + 1 \in DOMAIN s
    <3>1. k \in 0 .. Len(s) /\ k # Len(s)
      BY <2>1, <2>2, BlockFacts
    <3>2. Len(s) \in Nat /\ 1 .. Len(s) = DOMAIN s
      BY <1>2
    <3> DEFINE n == Len(s)
    <3>3. n \in Nat /\ k \in 0 .. n /\ k # n
      BY <3>1, <3>2
    <3> HIDE DEF n
    <3>4. k + 1 \in 1 .. n /\ k \in Nat
      BY <3>3
    <3>5. QED
      BY <2>2, <3>1, <3>2, <3>4 DEF n
  <2>4. curr' = IF k + 1 = Len(s) THEN Null ELSE s[k + 1 + 1]
    <3>1. k + 1 > k
      BY <2>3
    <3>2. next[s[k + 1]] = IF k + 1 = Len(s) THEN Null ELSE s[k + 1 + 1]
      BY <2>2, <2>3, <3>1
    <3>3. QED
      BY <2>1, <2>3, <3>2
  <2>5. prev' = IF k + 1 = 0 THEN Null ELSE s[k + 1]
    BY <2>1, <2>3
  <2>6. ASSUME NEW i \in DOMAIN s
        PROVE  next'[s[i]] = IF i > k + 1 THEN (IF i = Len(s) THEN Null ELSE s[i + 1])
                             ELSE IF i = 1 THEN Null ELSE s[i - 1]
    <3>1. CASE i = k + 1
      <4>1. next'[s[i]] = prev
        BY <1>2, <1>3, <2>1, <2>3, <3>1
      <4>2. QED
        BY <2>2, <2>3, <3>1, <4>1
    <3>2. CASE i # k + 1
      <4>1. s[i] # curr
        BY <1>7, <2>1, <2>3, <3>2
      <4>2. next'[s[i]] = next[s[i]]
        BY <1>2, <1>3, <2>1, <4>1
      <4>3. i \in Nat /\ (i > k <=> i > k + 1)
        BY <1>2, <2>3, <3>2
      <4>4. QED
        BY <2>2, <4>2, <4>3
    <3>3. QED
      BY <3>1, <3>2
  <2>7. Turned(s)'
    <3>1. k + 1 \in 0 .. Len(s)
      BY <1>2, <2>3
    <3>2. QED
      BY <1>7, <2>1, <2>4, <2>5, <2>6, <3>1 DEF Turned
  <2>8. Lists(s)'
    BY <1>5, <2>1, <2>7 DEF Lists, FreeLoop
  <2>9. Heap(s)'
    BY <1>1, <1>3, <1>4, <1>7, <2>1, <2>8, ReverseShape
  <2>10. QED
    BY <1>1, <2>9
<1>9. CASE ReverseEnd
  <2>1. pc = "reverse_loop" /\ pc' = "returned" /\ curr = Null /\ head' = prev /\ next' = next
    BY <1>9 DEF ReverseEnd, At, Return
  <2>2. PICK k \in 0 .. Len(s) :
          /\ curr = IF k = Len(s) THEN Null ELSE s[k + 1]
          /\ prev = IF k = 0 THEN Null ELSE s[k]
          /\ \A i \in DOMAIN s :
               next[s[i]] = IF i > k THEN (IF i = Len(s) THEN Null ELSE s[i + 1])
                            ELSE IF i = 1 THEN Null ELSE s[i - 1]
    BY <1>7, <2>1
  <2>3. k = Len(s)
    <3>1. SUFFICES ASSUME k # Len(s) PROVE FALSE
      OBVIOUS
    <3> DEFINE n == Len(s)
    <3>3. n \in Nat /\ k \in 0 .. n /\ k # n
      BY <1>2, <2>2, <3>1
    <3> HIDE DEF n
    <3>4. k + 1 \in 1 .. n
      BY <3>3
    <3>2. k + 1 \in DOMAIN s
      BY <1>2, <3>4 DEF n
    <3>5. QED
      BY <1>2, <2>1, <2>2, <3>1, <3>2, BlockFacts
  <2>4. head' = s[Len(s)]
    BY <1>7, <2>1, <2>2, <2>3
  <2>5. \A i \in DOMAIN s : next'[s[i]] = IF i = 1 THEN Null ELSE s[i - 1]
    BY <1>2, <2>1, <2>2, <2>3
  <2>6. PICK t \in Seq(Blocks) : ReadBack(s, t) /\ Chain(s[Len(s)], t, next')
    BY <1>1, <1>7, <2>1, <2>5, ChainTurned
  <2>7. Elements(t) = Elements(s) /\ Len(t) = Len(s)
    BY <2>6 DEF ReadBack
  <2>8. Lists(t)'
    BY <1>5, <2>1, <2>4, <2>6 DEF Lists, FreeLoop
  <2>9. \A i, j \in DOMAIN t : t[i] = t[j] => i = j
    BY <2>6 DEF Chain
  <2>10. Heap(t)'
    BY <1>1, <1>3, <1>4, <2>1, <2>7, <2>8, <2>9, ReverseShape
  <2>11. QED
    BY <2>10
<1>10. QED
  BY <1>6, <1>8, <1>9

-----------------------------------------------------------------------------
(* The queue is gone, and an operation is cut short.                       *)
LEMMA FinishFreeHeap ==
  ASSUME Control, NEW s, Heap(s), FinishFree
  PROVE  Heap(s)'
<1> USE DEF memory, flags, struct, elements, locals, history
<1>1. s \in Seq(Blocks) /\ Tally(s) /\ Lists(s)
  BY DEF Heap, Shape
<1>2. /\ pc = "returned" /\ Freed /\ pc' \in {"q_new", "prompt"} /\ q' = Null /\ head' = Null
      /\ size' = 0 /\ qcnt' = 0 /\ ~error_occurred'
      /\ ok' = (ok /\ allocated_count = 0 /\ ~error_occurred)
      /\ UNCHANGED <<allocated, corrupt, value, next, alarms, lost, cmd>>
  BY DEF FinishFree, Forget, Freed, Freeing, Goto
<1>3. s = <<>>
  BY <1>1, <1>2 DEF Lists
<1>4. ~Freed'
  BY <1>2 DEF Freed
<1>5. Lists(s)' /\ Whole(s, allocated, value)' /\ QueueThere(s)' /\ AtHand(s)'
  BY <1>2, <1>3, <1>4, NoList, ChainNone
  DEF Lists, QueueThere, AtHand, FreeLoop, OneSpare, TwoSpare, Linking, Linked
<1>6. ASSUME alarms' = 0, ~lost' PROVE Accounted(s)' /\ Clean' /\ Sizes(s)'
  <2>1. Accounted(s) /\ Clean /\ alarms = 0
    BY <1>1, <1>2, <1>6 DEF Tally
  <2>2. Queued = {} /\ Queued' = {} /\ Pending = {} /\ Pending' = {}
    BY <1>2 DEF Queued, Pending, OneSpare, TwoSpare
  <2>3. Strings(s, value)' = Strings(s, value)
    BY <1>2
  <2>4. Accounted(s)'
    BY <1>2, <2>1, <2>2, <2>3 DEF Accounted, TwoSpare
  <2>5. allocated = {}
    BY <1>3, <2>1, <2>2, NoList DEF Accounted
  <2>6. allocated_count = 0
    <3>1. owed = 0 /\ allocated_count + owed = Cardinality(allocated) /\ allocated_count \in Int
      BY <1>2, <2>1 DEF Control, Handled, Outside, Counted, Typed, TypedMemory
    <3>2. Cardinality(allocated) = 0
      BY <2>5, FS_EmptySet
    <3>3. QED
      BY <3>1, <3>2
  <2>7. Clean'
    <3>1. corrupt' = {} /\ ~error_occurred /\ cmd' = cmd /\ (cmd = "free" => ok)
      BY <1>2, <2>1 DEF Clean
    <3>2. cmd = "free" => ok'
      BY <1>2, <2>6, <3>1, Zenon
    <3>3. QED
      BY <1>2, <3>1, <3>2 DEF Clean
  <2>8. Ahead' = 0 /\ AheadOfHandler' = 0
    BY <1>2 DEF Ahead, AheadOfHandler, Linked, Removed
  <2>9. Sizes(s)'
    BY <1>2, <1>3, <2>8, NoList DEF Sizes, Linked
  <2>10. QED
    BY <2>4, <2>7, <2>9
<1>7. QED
  BY <1>1, <1>5, <1>6, TallyOf DEF Heap, Shape

LEMMA RaiseHeap ==
  ASSUME Control, NEW s, Heap(s), Raise
  PROVE  \E t \in Seq(Blocks) : Heap(t)'
<1> USE DEF memory, flags, struct, elements, locals, history
<1>1. s \in Seq(Blocks) /\ Shape(s) /\ Lists(s) /\ Whole(s, allocated, value) /\ QueueThere(s)
  BY DEF Heap, Shape
<1>2. /\ pc \in Inside \cup {"returned"} /\ pc' = "returned" /\ alarms' = alarms + 1
      /\ UNCHANGED <<allocated, value, next, head, cmd, reps>>
      /\ q' = IF cmd = "new" /\ reps = 1 THEN Null ELSE q
  BY DEF Raise, Jump, Return, Alarm
<1>3. alarms' # 0
  BY <1>2 DEF Control, Typed, TypedSession, TypedCounts
<1>4. \A t : Tally(t)'
  BY <1>3 DEF Tally
<1>5. Handled
  BY DEF Control
<1>6. \A t : AtHand(t)'
  BY <1>2 DEF AtHand, OneSpare, TwoSpare
<1>7. CASE Freeing
  <2>1. Freed'
    BY <1>2, <1>7 DEF Freed, Freeing
  <2>2. Lists(<<>>)' /\ Whole(<<>>, allocated, value)' /\ QueueThere(<<>>)'
    BY <1>2, <2>1, NoList DEF Lists, QueueThere, FreeLoop, Linking, Linked
  <2>3. Heap(<<>>)'
    BY <1>4, <1>6, <2>2, NoList DEF Heap, Shape
  <2>4. QED
    BY <2>3, NoList
<1>8. ASSUME ~Freeing, NEW t \in Seq(Blocks), Chain(head, t, next), Whole(t, allocated, value),
             \A c : Apart(c, s, value) => Apart(c, t, value), s = <<>> => t = <<>>
      PROVE  Heap(t)'
  <2>1. ~Freed' /\ ~Freed
    BY <1>2, <1>5, <1>8 DEF Freed, Freeing, Handled
  <2>2. Lists(t)'
    BY <1>2, <1>8, <2>1 DEF Lists, FreeLoop
  <2>3. cmd = "new" => s = <<>>
    <3>1. SUFFICES ASSUME cmd = "new" PROVE s = <<>>
      OBVIOUS
    <3>2. pc \in {"q_new", "new_fields", "returned"}
      BY <1>2, <1>5, <1>8, <3>1
      DEF Handled, Inside, Starts, Inserting, Linking, Linked, Removed, Removes, FreeLoop, Inserts
    <3>3. QED
      BY <1>1, <3>1, <3>2 DEF QueueThere
  <2>4. QueueThere(t)'
    <3>1. q' # Null => q' \in allocated' /\ Apart(q', t, value')
      <4>1. SUFFICES ASSUME q' # Null PROVE q \in allocated /\ Apart(q, t, value)
        BY <1>2
      <4>2. q # Null
        BY <1>2, <4>1
      <4>3. QED
        BY <1>1, <1>8, <2>1, <4>2 DEF QueueThere
    <3>2. q' = Null => t = <<>>
      BY <1>1, <1>2, <1>8, <2>3 DEF QueueThere
    <3>3. cmd' = "new" => t = <<>>
      BY <1>2, <1>8, <2>3
    <3>4. QED
      BY <1>2, <3>1, <3>2, <3>3 DEF QueueThere, Linking, Linked, FreeLoop
  <2>5. QED
    BY <1>2, <1>4, <1>6, <1>8, <2>2, <2>4 DEF Heap, Shape
<1>9. CASE ~Freeing /\ pc # "reverse_loop"
  <2>1. Chain(head, s, next)
    BY <1>1, <1>5, <1>9 DEF Lists, Handled, Freed
  <2>2. Heap(s)'
    BY <1>1, <1>8, <1>9, <2>1
  <2>3. QED
    BY <1>1, <2>2
<1>10. CASE ~Freeing /\ pc = "reverse_loop"
  <2>1. Len(s) \in Nat /\ DOMAIN s = 1 .. Len(s) /\ \A k \in DOMAIN s : s[k] \in Blocks
    BY <1>1, SeqFacts
  <2>2. /\ \A i, j \in DOMAIN s : s[i] = s[j] => i = j
        /\ s # <<>> /\ head = s[1] /\ Len(s) # 0
    BY <1>1, <1>10, SeqFacts DEF Lists, Turned
  <2>3. PICK k \in 0 .. Len(s) : \A i \in DOMAIN s :
          next[s[i]] = IF i > k THEN (IF i = Len(s) THEN Null ELSE s[i + 1])
                       ELSE IF i = 1 THEN Null ELSE s[i - 1]
    BY <1>1, <1>10 DEF Lists, Turned
  <2>4. CASE k = 0
    <3>1. Chain(head, s, next)
      <4>1. \A i \in DOMAIN s : next[s[i]] = IF i = Len(s) THEN Null ELSE s[i + 1]
        BY <2>1, <2>3, <2>4
      <4>2. QED
        BY <2>2, <4>1 DEF Chain
    <3>2. Heap(s)'
      BY <1>1, <1>8, <1>10, <3>1
    <3>3. QED
      BY <1>1, <3>2
  <2>5. CASE k # 0
    <3>1. 1 \in DOMAIN s /\ next[s[1]] = Null
      BY <2>1, <2>2, <2>3, <2>5
    <3>2. PICK t \in Seq(Blocks) :
            t # <<>> /\ Len(t) = 1 /\ t[1] = s[1] /\ DOMAIN t = {1} /\ Chain(s[1], t, next)
      BY <2>1, <3>1, ChainOne
    <3>3. Whole(t, allocated, value)
      BY <1>1, <3>1, <3>2 DEF Whole
    <3>4. \A c : Apart(c, s, value) => Apart(c, t, value)
      BY <3>1, <3>2 DEF Apart
    <3>5. Heap(t)'
      BY <1>8, <1>10, <2>2, <3>2, <3>3, <3>4
    <3>6. QED
      BY <3>5
  <2>6. QED
    BY <2>4, <2>5
<1>11. QED
  BY <1>7, <1>9, <1>10

-----------------------------------------------------------------------------
(* The inductive invariant.                                                *)
LEMMA HeapKeeps ==
  ASSUME Control, Control', NEW s, Heap(s), Commands \/ Progress \/ Interruption
  PROVE  \E t \in Seq(Blocks) : Heap(t)'
<1>1. s \in Seq(Blocks)
  BY DEF Heap
<1>2. CASE Operate
  <2>1. UNCHANGED session /\ Operation
    BY <1>2 DEF Operate
  <2>2. CASE NewMalloc \/ InsertElement("q_insert_head", "head_value")
             \/ InsertElement("q_insert_tail", "tail_value")
    BY <1>1, <2>1, <2>2, AllocHeap
  <2>3. CASE NewFields
    BY <1>1, <2>1, <2>3, NewFieldsHeap
  <2>4. CASE FreeStart
    BY <1>1, <2>1, <2>4, FreeStartHeap
  <2>5. CASE FreeNext
    BY <2>1, <2>5, FreeNextHeap
  <2>6. CASE FreeQueue \/ FreeDone
    BY <1>1, <2>1, <2>6, FreeQueueHeap
  <2>7. CASE FreeValue \/ FreeElement \/ InsertUndo \/ RemoveValue \/ RemoveElement
    <3>1. UNCHANGED <<q, struct, locals, rval, lost>>
      BY <2>7 DEF FreeValue, FreeElement, InsertUndo, RemoveValue, RemoveElement
    <3>2. \/ pc = "free_value" /\ Free(value[elt], "free_element")
          \/ pc = "remove_value" /\ Free(value[elt], "remove_element")
          \/ pc = "free_element" /\ Free(elt, "free_loop")
          \/ pc = "remove_element" /\ Free(elt, "remove_size")
          \/ pc = "undo" /\ Free(elt, "undone")
      BY <2>7 DEF FreeValue, FreeElement, InsertUndo, RemoveValue, RemoveElement, At
    <3>3. PICK b : b = IF pc \in {"free_value", "remove_value"} THEN value[elt] ELSE elt
      OBVIOUS
    <3>4. \/ pc = "free_value" /\ b = value[elt] /\ Free(b, "free_element")
          \/ pc = "remove_value" /\ b = value[elt] /\ Free(b, "remove_element")
          \/ pc = "free_element" /\ b = elt /\ Free(b, "free_loop")
          \/ pc = "remove_element" /\ b = elt /\ Free(b, "remove_size")
          \/ pc = "undo" /\ b = elt /\ Free(b, "undone")
      BY <3>2, <3>3
    <3>5. Heap(s)'
      BY <2>1, <3>1, <3>4, SpareFreed
    <3>6. QED
      BY <1>1, <3>5
  <2>8. CASE InsertValue("head_value", "head_link", "undo") \/ InsertValue("tail_value", "tail_link", "undo")
    BY <1>1, <2>1, <2>8, InsertValueHeap
  <2>9. CASE LinkAtHead
    BY <2>1, <2>9, LinkAtHeadHeap
  <2>10. CASE LinkAtTail
    BY <2>1, <2>10, LinkAtTailHeap
  <2>11. CASE RemoveHead(cmd # "rhq")
    BY <2>1, <2>11, RemoveHeadHeap
  <2>12. CASE ReverseStart \/ ReverseNext \/ ReverseEnd
    BY <2>1, <2>12, ReverseHeap
  <2>13. CASE HeadTail \/ TailTail \/ InsertSize \/ InsertUndone \/ RemoveNothing(cmd # "rhq")
              \/ RemoveSize \/ Size(qcnt)
    BY <1>1, <2>1, <2>13, PlainSteps
  <2>14. QED
    BY <2>1, <2>2, <2>3, <2>4, <2>5, <2>6, <2>7, <2>8, <2>9, <2>10, <2>11, <2>12, <2>13 DEF
       Operation
<1>3. CASE Inserted \/ InsertFailed \/ InsertFaults \/ InsertExits \/ Sized \/ NextTurn
           \/ FinishInsert \/ FinishSize \/ FinishReverse
           \/ FinishRemove \/ FinishNew \/ FinalCheck \/ Show \/ ShowTimesOut \/ RaiseInLoop \/ ShowCommand
  BY <1>1, <1>3, PlainSteps
<1>4. CASE CountBlocks
  BY <1>1, <1>4, CountHeap
<1>5. CASE FinishFree
  BY <1>1, <1>5, FinishFreeHeap
<1>6. CASE Raise
  BY <1>6, RaiseHeap
<1>7. ASSUME NEW c, NEW n, Command(c, n), n \in 0 .. 2,
             \/ c \in Inserts \cup {"free", "reverse", "size"} \cup Removes
             \/ c = "new" /\ n = IF q = Null THEN 1 ELSE 2
      PROVE  \E t \in Seq(Blocks) : Heap(t)'
  BY <1>1, <1>7, CommandHeap
<1>8. MaxReps \in 1 .. 2 /\ 1 \in 0 .. 2 /\ 2 \in 0 .. 2
  BY CommandsAssumption
<1>9. ASSUME NEW c \in Inserts, NEW n \in 1 .. MaxReps, Command(c, n)
      PROVE  \E t \in Seq(Blocks) : Heap(t)'
  <2>1. n \in 0 .. 2
    BY <1>8
  <2>2. QED
    BY <1>7, <1>9, <2>1
<1>10. ASSUME NEW c \in {"free", "rh", "rh str", "rhq", "reverse", "size"}, Command(c, 1)
       PROVE  \E t \in Seq(Blocks) : Heap(t)'
  <2>1. c \in Inserts \cup {"free", "reverse", "size"} \cup Removes
    BY <1>10 DEF Removes
  <2>2. QED
    BY <1>7, <1>8, <1>10, <2>1
<1>11. CASE Command("new", IF q = Null THEN 1 ELSE 2)
  <2>1. PICK n : n = IF q = Null THEN 1 ELSE 2
    OBVIOUS
  <2>2. n \in 0 .. 2 /\ Command("new", n)
    BY <1>8, <1>11, <2>1
  <2>3. QED
    BY <1>7, <2>1, <2>2
<1>12. QED
  BY <1>2, <1>3, <1>4, <1>5, <1>6, <1>9, <1>10, <1>11 DEF Commands, Progress, Interruption

LEMMA InvInit == ASSUME Init PROVE Inv
<1> USE DEF Init, HarnessInit, QueueInit
<1>1. Typed
  <2>1. TypedMemory /\ TypedQueue /\ TypedElements /\ TypedPlace
    BY DEF TypedMemory, TypedQueue, TypedElements, TypedPlace, Pointers, Outside
  <2>2. TypedFlags /\ TypedResult
    BY Zenon DEF TypedFlags, TypedResult
  <2>3. TypedCommand /\ TypedCounts
    BY CommandsAssumption DEF TypedCommand, TypedCounts
  <2>4. QED
    BY <2>1, <2>2, <2>3 DEF Typed, TypedSession
<1>2. Handled
  BY DEF Handled, Inserting, Linking, Linked, Removed, FreeLoop
<1>3. Counted /\ Surfacing
  BY FS_EmptySet DEF Counted, Surfacing
<1>4. Shape(<<>>)
  BY NoList, ChainNone
  DEF Shape, Lists, QueueThere, AtHand, Freed, FreeLoop, OneSpare, TwoSpare, Linking, Linked
<1>5. Tally(<<>>)
  <2>1. Accounted(<<>>)
    BY NoList, BlockFacts DEF Accounted, Queued, Pending, OneSpare, TwoSpare
  <2>2. Clean
    BY DEF Clean
  <2>3. Sizes(<<>>)
    BY NoList DEF Sizes, Ahead, AheadOfHandler, Linked, Removed
  <2>4. QED
    BY <2>1, <2>2, <2>3 DEF Tally
<1>6. Heap(<<>>)
  BY <1>4, <1>5, NoList DEF Heap
<1>7. QED
  BY <1>1, <1>2, <1>3, <1>6, NoList DEF Inv

LEMMA InvStutters == ASSUME Inv, UNCHANGED vars PROVE Inv'
<1> USE DEF vars, memory, flags, struct, elements, locals, queueVars
<1>1. Typed'
  <2>1. TypedMemory' /\ TypedQueue' /\ TypedElements' /\ TypedPlace'
    BY DEF Inv, Typed, TypedMemory, TypedQueue, TypedElements, TypedPlace
  <2>2. TypedFlags'
    BY DEF Inv, Typed, TypedFlags
  <2>3. UNCHANGED session
    BY DEF session, history
  <2>4. TypedSession'
    BY <2>3, SessionTyped DEF Inv, Typed
  <2>5. QED
    BY <2>1, <2>2, <2>4 DEF Typed
<1>2. Freeing' = Freeing /\ Freed' = Freed
  BY DEF Freeing, Freed
<1>3. Handled' /\ Counted' /\ Surfacing'
  <2>1. Handled'
    BY <1>2 DEF Inv, Handled
  <2>2. Counted'
    BY DEF Inv, Counted
  <2>3. Surfacing'
    BY DEF Inv, Surfacing, Excused
  <2>4. QED
    BY <2>1, <2>2, <2>3
<1>4. PICK s \in Seq(Blocks) : Heap(s)
  BY DEF Inv
<1>5. Heap(s)'
  <2>1. Lists(s)'
    <3>1. Turned(s)' = Turned(s)
      BY DEF Turned
    <3>2. QED
      BY <1>2, <1>4, <3>1 DEF Heap, Shape, Lists
  <2>2. Whole(s, allocated, value)' /\ QueueThere(s)'
    BY <1>2, <1>4 DEF Heap, Shape, QueueThere
  <2>3. AtHand(s)'
    BY <1>4 DEF Heap, Shape, AtHand, Spare
  <2>4. Accounted(s)' = Accounted(s)
    BY <1>2 DEF Accounted, Queued, Pending
  <2>5. Sizes(s)' = Sizes(s)
    BY <1>2 DEF Sizes, Ahead, AheadOfHandler
  <2>6. Tally(s)'
    BY <1>4, <2>4, <2>5 DEF Heap, Tally, Clean
  <2>7. QED
    BY <1>4, <2>1, <2>2, <2>3, <2>6 DEF Heap, Shape
<1>6. QED
  BY <1>1, <1>3, <1>5 DEF Inv

(* The invariant of qtest and the queue: between any two writes to memory, *)
(* interrupted or not, the pointers make one list of allocated elements,   *)
(* each with a string of its own, and without interruptions nothing else   *)
(* is allocated and both counts are its length.                            *)
THEOREM QTestInvariant == Spec => []Inv
<1>1. Inv /\ [Next]_vars => Inv'
  <2>1. SUFFICES ASSUME Inv, [Next]_vars PROVE Inv'
    OBVIOUS
  <2>2. CASE UNCHANGED vars \/ Exited
    BY <2>1, <2>2, InvStutters DEF Exited
  <2>3. CASE Commands \/ Progress \/ Interruption
    <3>1. Control
      BY <2>1 DEF Inv, Control
    <3>2. PICK s \in Seq(Blocks) : Heap(s)
      BY <2>1 DEF Inv
    <3>3. Control'
      BY <2>3, <3>1, <3>2, OperateControl, HandlerControl, PromptControl DEF Progress
    <3>4. \E t \in Seq(Blocks) : Heap(t)'
      BY <2>3, <3>1, <3>2, <3>3, HeapKeeps
    <3>5. QED
      BY <3>3, <3>4 DEF Inv, Control
  <2>4. QED
    BY <2>1, <2>2, <2>3 DEF Next
<1>2. QED
  BY <1>1, InvInit, PTL DEF Spec

-----------------------------------------------------------------------------
LEMMA InvSound == ASSUME Inv PROVE HeadSound
<1>1. PICK s \in Seq(Blocks) : Heap(s)
  BY DEF Inv
<1>2. SUFFICES ASSUME pc \in {"prompt", "show", "check"}
      PROVE  /\ \E k \in 0 .. Cardinality(Blocks) : Follow[k] = Null
             /\ \A b \in Listed : {b, value[b]} \subseteq allocated
  BY DEF HeadSound
<1>3. Chain(head, s, next) /\ Whole(s, allocated, value)
  BY <1>1, <1>2 DEF Heap, Shape, Lists, FreeLoop, Freed
<1>4. Listed = Elements(s) /\ \E k \in 0 .. Cardinality(Blocks) : Follow[k] = Null
  BY <1>3, ListedIs
<1>5. \A k \in DOMAIN s : {s[k], value[s[k]]} \subseteq allocated
  BY <1>3 DEF Whole
<1>6. QED
  BY <1>4, <1>5 DEF Elements

LEMMA InvFrees == ASSUME Inv PROVE FreesAllocated
<1>1. PICK s \in Seq(Blocks) : Heap(s)
  BY DEF Inv
<1>2. Lists(s) /\ Whole(s, allocated, value) /\ QueueThere(s) /\ AtHand(s)
  BY <1>1 DEF Heap, Shape
<1>3. pc \in {"free_value", "remove_value"} => value[elt] \in allocated
  BY <1>2 DEF AtHand, TwoSpare, Spare
<1>4. pc \in {"free_element", "remove_element", "undo"} => elt \in allocated
  BY <1>2 DEF AtHand, OneSpare, Spare
<1>5. pc = "free_loop" => q \in allocated /\ curr \in allocated \cup {Null}
  <2>1. SUFFICES ASSUME pc = "free_loop" PROVE q \in allocated /\ curr \in allocated \cup {Null}
    OBVIOUS
  <2>2. q \in allocated /\ Chain(curr, s, next)
    BY <1>2, <2>1 DEF QueueThere, Lists, FreeLoop, Freed
  <2>3. s # <<>> => 1 \in DOMAIN s
    BY SeqFacts
  <2>4. QED
    BY <1>2, <2>2, <2>3 DEF Chain, Whole
<1>6. pc = "reverse_loop" => curr \in allocated \cup {Null}
  <2>1. SUFFICES ASSUME pc = "reverse_loop" PROVE curr \in allocated \cup {Null}
    OBVIOUS
  <2>2. PICK k \in 0 .. Len(s) : curr = IF k = Len(s) THEN Null ELSE s[k + 1]
    BY <1>2, <2>1 DEF Lists, Turned
  <2> DEFINE n == Len(s)
  <2>3. n \in Nat /\ DOMAIN s = 1 .. n /\ k \in 0 .. n
    BY <2>2, SeqFacts
  <2> HIDE DEF n
  <2>4. k # n => k + 1 \in DOMAIN s
    BY <2>3
  <2>5. QED
    BY <1>2, <2>2, <2>4 DEF Whole, n
<1>7. QED
  BY <1>3, <1>4, <1>5, <1>6 DEF FreesAllocated

(* The queue, n elements and their strings are 1 + 2 * n blocks.           *)
LEMMA BlockCount ==
  ASSUME NEW s \in Seq(Blocks), Whole(s, allocated, value), \A i, j \in DOMAIN s : s[i] = s[j] => i = j,
         allocated \subseteq Blocks, q \in Blocks, Apart(q, s, value)
  PROVE  Cardinality({q} \cup Elements(s) \cup Strings(s, value)) = 1 + 2 * Len(s)
<1> DEFINE n == Len(s)
           f == [k \in 1 .. n |-> s[k]]
           g == [k \in 1 .. n |-> value[s[k]]]
<1>1. n \in Nat /\ DOMAIN s = 1 .. n
  BY SeqFacts
<1>2. /\ f \in [1 .. n -> Blocks] /\ \A i, j \in 1 .. n : f[i] = f[j] => i = j
      /\ {f[k] : k \in 1 .. n} = Elements(s)
  BY <1>1 DEF Whole, Elements
<1>3. /\ g \in [1 .. n -> Blocks] /\ \A i, j \in 1 .. n : g[i] = g[j] => i = j
      /\ {g[k] : k \in 1 .. n} = Strings(s, value)
  BY <1>1 DEF Whole, Strings
<1>4. Elements(s) \cap Strings(s, value) = {} /\ q \notin Elements(s) \cup Strings(s, value)
  BY DEF Elements, Strings, Whole, Apart
<1>5. Elements(s) \subseteq Blocks /\ Strings(s, value) \subseteq Blocks
  BY <1>1 DEF Elements, Strings, Whole
<1> HIDE DEF n, f, g
<1>6. Cardinality(Elements(s)) = n
  BY <1>1, <1>2, SeqCount
<1>7. Cardinality(Strings(s, value)) = n
  BY <1>1, <1>3, SeqCount
<1>8. IsFiniteSet(Elements(s)) /\ IsFiniteSet(Strings(s, value))
  BY <1>5, BlockFacts, FS_Subset
<1> DEFINE E == Elements(s)
           S == Strings(s, value)
<1>9. E \cap S = {} /\ q \notin E \cup S /\ IsFiniteSet(E) /\ IsFiniteSet(S)
      /\ Cardinality(E) = n /\ Cardinality(S) = n
  BY <1>4, <1>6, <1>7, <1>8
<1> HIDE DEF E, S
<1>10. IsFiniteSet(E \cup S) /\ Cardinality(E \cup S) = Cardinality(E) + Cardinality(S) - Cardinality(E \cap S)
  BY <1>9, FS_Union
<1>11. Cardinality(E \cup S) = n + n
  <2>1. Cardinality(E \cap S) = 0
    BY <1>9, FS_EmptySet
  <2>2. QED
    BY <1>1, <1>9, <1>10, <2>1
<1>12. Cardinality((E \cup S) \cup {q}) = Cardinality(E \cup S) + 1
  BY <1>9, <1>10, FS_AddElement
<1>13. (E \cup S) \cup {q} = {q} \cup E \cup S
  OBVIOUS
<1>14. Cardinality({q} \cup E \cup S) = 1 + 2 * n
  <2>1. Cardinality({q} \cup E \cup S) = Cardinality(E \cup S) + 1
    BY <1>12, <1>13
  <2>2. n + n + 1 = 1 + 2 * n
    BY <1>1
  <2>3. QED
    BY <1>11, <2>1, <2>2
<1>15. QED
  BY <1>14 DEF E, S, n

LEMMA InvConsistent == ASSUME Inv PROVE Consistent
<1>1. PICK s \in Seq(Blocks) : Heap(s)
  BY DEF Inv
<1>2. SUFFICES ASSUME pc = "prompt", alarms = 0, ~lost
      PROVE  /\ qcnt = Length /\ size = Length
             /\ allocated = ({q} \ {Null}) \cup Listed \cup {value[b] : b \in Listed}
             /\ allocated_count = Cardinality(allocated)
             /\ q # Null => allocated_count = 1 + 2 * Length
  BY DEF Consistent
<1>3. /\ Chain(head, s, next) /\ Whole(s, allocated, value) /\ QueueThere(s) /\ Accounted(s) /\ Sizes(s)
      /\ ~Freed
  BY <1>1, <1>2 DEF Heap, Shape, Lists, FreeLoop, Freed, Tally
<1>4. Listed = Elements(s) /\ Length = Len(s)
  BY <1>3, ListedIs
<1>5. Len(s) \in Nat /\ size \in Int /\ qcnt \in Int /\ allocated_count \in Int /\ allocated \subseteq Blocks
  BY SeqFacts DEF Inv, Typed, TypedQueue, TypedSession, TypedCounts, TypedMemory
<1>6. Ahead = 0 /\ AheadOfHandler = 0
  BY <1>2 DEF Ahead, AheadOfHandler, Linked, Removed
<1>7. qcnt = Len(s) /\ size = Len(s)
  BY <1>2, <1>3, <1>5, <1>6 DEF Sizes, FreeLoop
<1>8. {value[b] : b \in Elements(s)} = Strings(s, value)
  <2>1. \A b : b \in {value[c] : c \in Elements(s)} => b \in Strings(s, value)
    BY DEF Elements, Strings
  <2>2. \A b : b \in Strings(s, value) => b \in {value[c] : c \in Elements(s)}
    BY DEF Elements, Strings
  <2>3. QED
    BY <2>1, <2>2
<1>9. Queued = {q} \ {Null} /\ Pending = {}
  BY <1>2, <1>3 DEF Queued, Pending, OneSpare, TwoSpare
<1>10. allocated = ({q} \ {Null}) \cup Elements(s) \cup Strings(s, value)
  BY <1>3, <1>9 DEF Accounted
<1>11. allocated_count = Cardinality(allocated)
  BY <1>2, <1>5 DEF Inv, Counted, Handled, Outside
<1>12. ASSUME q # Null PROVE Cardinality(allocated) = 1 + 2 * Len(s)
  <2>1. allocated = {q} \cup Elements(s) \cup Strings(s, value)
    BY <1>10, <1>12
  <2>2. q \in Blocks /\ Apart(q, s, value)
    BY <1>3, <1>5, <1>12 DEF QueueThere
  <2>3. QED
    BY <1>3, <1>5, <2>1, <2>2, BlockCount DEF Chain
<1>13. QED
  BY <1>4, <1>7, <1>8, <1>10, <1>11, <1>12

LEMMA InvHonest == ASSUME Inv PROVE FreeIsHonest
<1>1. PICK s \in Seq(Blocks) : Heap(s)
  BY DEF Inv
<1>2. SUFFICES ASSUME pc = "prompt", cmd = "free", alarms = 0
      PROVE  /\ ok => allocated = {}
             /\ ~lost => ok
  BY DEF FreeIsHonest
<1>3. IsFiniteSet(allocated)
  BY BlockFacts, FS_Subset DEF Inv, Typed, TypedMemory
<1>4. ok => allocated = {}
  <2>1. SUFFICES ASSUME ok PROVE allocated = {}
    OBVIOUS
  <2>2. Cardinality(allocated) = 0
    BY <1>2, <2>1 DEF Inv, Counted, Handled, Outside
  <2>3. QED
    BY <1>3, <2>2, FS_EmptySet
<1>5. ~lost => ok
  BY <1>1, <1>2 DEF Heap, Tally, Clean
<1>6. QED
  BY <1>4, <1>5

(* Whatever was interrupted, the list from head ends, and all of it is     *)
(* allocated: HeadSound of QTest.                                          *)
THEOREM ListsAreSound == Spec => []HeadSound
  BY QTestInvariant, InvSound, PTL

(* No operation frees what is not allocated or follows a pointer of freed  *)
(* memory, also after interruptions: FreesAllocated of QTest.              *)
THEOREM FreesAreSafe == Spec => []FreesAllocated
  BY QTestInvariant, InvFrees, PTL

(* Without interruptions, and lists missed by an insertion, the sizes, the *)
(* list and the harness's count of blocks agree: Consistent of QTest.      *)
THEOREM CountsAgree == Spec => []Consistent
  BY QTestInvariant, InvConsistent, PTL

(* Without interruptions, free reports a leak exactly when there is one:   *)
(* FreeIsHonest of QTest.                                                  *)
THEOREM LeaksAreReported == Spec => []FreeIsHonest
  BY QTestInvariant, InvHonest, PTL

(* A command in which an exception was raised fails, but for those named:  *)
(* FailuresSurface of QTest.                                               *)
THEOREM ExceptionsSurface == Spec => []FailuresSurface
<1>1. Inv => FailuresSurface
  BY DEF Inv, Surfacing, Excused, FailuresSurface
<1>2. QED
  BY <1>1, QTestInvariant, PTL
=============================================================================
