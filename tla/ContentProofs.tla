---------------------------- MODULE ContentProofs ----------------------------
(***************************************************************************)
(* Proofs about Content, for any content.txt and any capacity: the array   *)
(* never overflows, and the binary search answers rightly.                 *)
(***************************************************************************)
EXTENDS Content, SequenceTheorems, TLAPS

(* What the array holds of content.txt: while loading, the lines read, in  *)
(* their order; afterwards, the same lines sorted.                         *)
Item(k) == [key |-> text[k].key, path |-> Opened(text[k])]

Loaded ==
  /\ pc = "load" => /\ nitems = line
                    /\ \A k \in 1 .. line : items[k] = Item(k)
  /\ pc \in {"idle", "search", "answered"} =>
       /\ Ascending(items)
       /\ \A k \in 1 .. Len(text) : \E i \in 1 .. nitems : items[i] = Item(k)
       /\ \A i \in 1 .. nitems : \E k \in 1 .. Len(text) : items[i] = Item(k)

Answer ==
  pc = "answered" =>
    IF result = -1
    THEN \A i \in 1 .. nitems : items[i].key # key
    ELSE result + 1 \in 1 .. nitems /\ items[result + 1].key = key

Inv == TypeOK /\ RoomForNext /\ Loaded /\ InRange /\ Answer

-----------------------------------------------------------------------------
(* Halving an interval: its middle lies in it.                             *)
LEMMA Middle ==
  ASSUME NEW l \in Nat, NEW h \in Int, l <= h
  PROVE  l + (h - l) \div 2 \in l .. h
  OBVIOUS

LEMMA InitInv == Init => Inv
<1> SUFFICES ASSUME Init PROVE Inv
  OBVIOUS
<1>1. text \in Seq(Chunks)
  BY SeqDef, MaxChunksAssumption DEF Init
<1>2. (CHOOSE k \in Keys : TRUE) \in Keys
  BY KeysAssumption
<1>3. TypeOK
  BY <1>1, <1>2, EmptySeq, LenProperties, CapacityAssumption DEF Init, TypeOK
<1>4. RoomForNext
  BY EmptySeq, CapacityAssumption DEF Init, RoomForNext, nitems
<1>5. Loaded /\ InRange /\ Answer
  BY EmptySeq DEF Init, Loaded, InRange, Answer, nitems
<1>6. QED
  BY <1>3, <1>4, <1>5 DEF Inv

(* The facts about the state that the steps below share.                   *)
LEMMA StateFacts ==
  ASSUME Inv
  PROVE  /\ text \in Seq(Chunks) /\ items \in Seq(Items)
         /\ line \in 0 .. Len(text) /\ Len(text) \in Nat
         /\ nitems \in Nat /\ DOMAIN items = 1 .. nitems /\ DOMAIN text = 1 .. Len(text)
         /\ \A i \in 1 .. nitems : items[i] \in Items /\ items[i].key \in Int
         /\ lo \in Nat /\ hi \in Int /\ key \in Int /\ capacity \in Nat
<1>1. text \in Seq(Chunks) /\ items \in Seq(Items)
  BY DEF Inv, TypeOK
<1>2. /\ Len(text) \in Nat /\ DOMAIN text = 1 .. Len(text)
      /\ nitems \in Nat /\ DOMAIN items = 1 .. nitems
  BY <1>1, LenProperties DEF nitems
<1>3. \A i \in 1 .. nitems : items[i] \in Items
  BY <1>1, ElementOfSeq DEF nitems
<1>4. \A i \in 1 .. nitems : items[i].key \in Int
  BY <1>3, KeysAssumption DEF Items
<1>5. QED
  BY <1>1, <1>2, <1>3, <1>4, KeysAssumption DEF Inv, TypeOK

(* Loading one more line keeps the array in step with the file, and leaves *)
(* room for the next line.                                                 *)
LEMMA LoadInv == Inv /\ Load => Inv'
<1> SUFFICES ASSUME Inv, Load PROVE Inv'
  OBVIOUS
<1> DEFINE item == Item(line + 1)
<1>1. /\ pc = "load" /\ pc' = "load" /\ line < Len(text) /\ line' = line + 1
      /\ text' = text /\ items' = Append(items, item)
      /\ capacity' = IF nitems + 1 = capacity THEN 2 * capacity ELSE capacity
      /\ UNCHANGED <<key, lo, hi, result>>
      /\ Opened(text[line + 1]) \in Files
  BY DEF Load, Item
<1>2. text[line + 1] \in Chunks
  BY <1>1, StateFacts, ElementOfSeq
<1>3. item \in Items
  BY <1>1, <1>2 DEF Item, Items, Chunks, Paths
<1> HIDE DEF item
<1>4. /\ items' \in Seq(Items) /\ nitems' = nitems + 1
      /\ \A i \in 1 .. nitems : items'[i] = items[i]
      /\ items'[nitems + 1] = item
  BY <1>1, <1>3, StateFacts, AppendProperties DEF nitems
<1>5. nitems = line /\ nitems < capacity
  BY <1>1 DEF Inv, Loaded, RoomForNext
<1>6. TypeOK'
  BY <1>1, <1>4, StateFacts DEF Inv, TypeOK
<1>7. RoomForNext'
  BY <1>1, <1>4, <1>5, StateFacts DEF RoomForNext
<1>8. ASSUME NEW k \in 1 .. line' PROVE items'[k] = Item(k)'
  <2>1. Item(k)' = Item(k)
    BY <1>1 DEF Item
  <2>2. CASE k = line + 1
    BY <2>1, <2>2, <1>4, <1>5 DEF item
  <2>3. CASE k # line + 1
    BY <2>1, <2>3, <1>1, <1>4, <1>5, StateFacts DEF Inv, Loaded
  <2>4. QED
    BY <2>2, <2>3
<1>9. Loaded'
  BY <1>1, <1>4, <1>5, <1>8 DEF Loaded
<1>10. InRange' /\ Answer'
  BY <1>1 DEF InRange, Answer
<1>11. QED
  BY <1>6, <1>7, <1>9, <1>10 DEF Inv

(* Sorting moves the items around and loses none.                          *)
LEMMA SortInv == Inv /\ Sort => Inv'
<1> SUFFICES ASSUME Inv, Sort PROVE Inv'
  OBVIOUS
<1>1. /\ pc = "load" /\ pc' = "idle" /\ line = Len(text)
      /\ Ascending(items') /\ UNCHANGED <<text, line, capacity, key, lo, hi, result>>
  BY DEF Sort
<1>2. PICK p \in Bijection(1 .. nitems, 1 .. nitems) :
        items' = [i \in 1 .. nitems |-> items[p[i]]]
  BY StateFacts DEF Sort
<1>3. /\ p \in [1 .. nitems -> 1 .. nitems]
      /\ \A j \in 1 .. nitems : \E i \in 1 .. nitems : p[i] = j
  BY <1>2 DEF Bijection, Surjection
<1>4. /\ items' \in [1 .. nitems -> Items] /\ nitems \in Nat
      /\ \A i \in 1 .. nitems : items'[i] = items[p[i]]
  BY <1>2, <1>3, StateFacts
<1>5. items' \in Seq(Items) /\ nitems' = nitems
  BY <1>4, SeqDef, LenProperties DEF nitems
<1>6. \A k \in 1 .. nitems : items[k] = Item(k) /\ Item(k)' = Item(k)
  BY <1>1 DEF Inv, Loaded, Item
<1>7. nitems = Len(text)
  BY <1>1 DEF Inv, Loaded
<1>8. ASSUME NEW k \in 1 .. nitems
      PROVE  \E i \in 1 .. nitems : items'[i] = Item(k)'
  <2>1. PICK i \in 1 .. nitems : p[i] = k
    BY <1>3
  <2>2. items'[i] = items[k]
    BY <1>4, <2>1
  <2>3. items[k] = Item(k)'
    BY <1>6
  <2>4. QED
    BY <2>2, <2>3
<1>9. ASSUME NEW i \in 1 .. nitems
      PROVE  \E k \in 1 .. nitems : items'[i] = Item(k)'
  <2>1. p[i] \in 1 .. nitems
    BY <1>3
  <2>2. items'[i] = items[p[i]]
    BY <1>4
  <2>3. items[p[i]] = Item(p[i])'
    BY <1>6, <2>1
  <2>4. QED
    BY <2>1, <2>2, <2>3
<1>10. TypeOK'
  BY <1>1, <1>5, StateFacts DEF Inv, TypeOK
<1>11. Loaded'
  BY <1>1, <1>5, <1>7, <1>8, <1>9 DEF Loaded
<1>12. RoomForNext' /\ InRange' /\ Answer'
  BY <1>1 DEF RoomForNext, InRange, Answer
<1>13. QED
  BY <1>10, <1>11, <1>12 DEF Inv

(* One comparison: by the order of the items, the key is not in the half   *)
(* that is dropped.                                                        *)
LEMMA CompareInv == Inv /\ Compare => Inv'
<1> SUFFICES ASSUME Inv, Compare PROVE Inv'
  OBVIOUS
<1> DEFINE m == mid
<1>1. /\ pc = "search" /\ lo <= hi
      /\ UNCHANGED <<text, line, items, capacity, key>>
  BY DEF Compare
<1>2. m \in lo .. hi /\ hi < nitems
  BY <1>1, StateFacts, Middle DEF Inv, InRange, mid
<1>3. /\ \A i, j \in 1 .. nitems : i < j => items[i].key <= items[j].key
      /\ \A i \in 0 .. nitems - 1 : At(i) = key => lo <= i /\ i <= hi
  BY <1>1, StateFacts DEF Inv, Loaded, Ascending, InRange
<1>4. m + 1 \in 1 .. nitems /\ At(m) = items[m + 1].key /\ nitems' = nitems
      /\ \A i : At(i)' = At(i)
  BY <1>1, <1>2, StateFacts DEF At, nitems
<1> HIDE DEF m
<1>5. Loaded' /\ RoomForNext'
  <2>1. pc' \in {"search", "answered"}
    BY <1>1 DEF Compare
  <2>2. QED
    BY <1>1, <1>4, <2>1 DEF Inv, Loaded, RoomForNext, Item
<1>6. CASE key < At(m) /\ hi' = m - 1 /\ UNCHANGED <<lo, pc, result>>
  <2>1. ASSUME NEW i \in 0 .. nitems - 1, At(i) = key
        PROVE  i <= m - 1
    <3>1. /\ i \in Int /\ m \in Int /\ i + 1 \in 1 .. nitems
          /\ items[i + 1].key = key /\ key < items[m + 1].key
          /\ key \in Int /\ items[m + 1].key \in Int
      BY <1>2, <1>4, <1>6, <2>1, StateFacts DEF At
    <3>2. CASE i = m
      BY <3>1, <3>2
    <3>3. CASE m < i
      <4>1. items[m + 1].key <= items[i + 1].key
        BY <1>3, <1>4, <3>1, <3>3
      <4>2. QED
        BY <3>1, <4>1
    <3>4. QED
      BY <3>1, <3>2, <3>3
  <2>2. InRange'
    BY <1>1, <1>2, <1>3, <1>4, <1>6, <2>1, StateFacts DEF InRange
  <2>3. TypeOK'
    BY <1>1, <1>2, <1>6, StateFacts DEF Inv, TypeOK
  <2>4. QED
    BY <1>1, <1>5, <1>6, <2>2, <2>3 DEF Inv, Answer
<1>7. CASE key > At(m) /\ lo' = m + 1 /\ UNCHANGED <<hi, pc, result>>
  <2>1. ASSUME NEW i \in 0 .. nitems - 1, At(i) = key
        PROVE  m + 1 <= i
    <3>1. /\ i \in Int /\ m \in Int /\ i + 1 \in 1 .. nitems
          /\ items[i + 1].key = key /\ key > items[m + 1].key
          /\ key \in Int /\ items[m + 1].key \in Int
      BY <1>2, <1>4, <1>7, <2>1, StateFacts DEF At
    <3>2. CASE i = m
      BY <3>1, <3>2
    <3>3. CASE i < m
      <4>1. items[i + 1].key <= items[m + 1].key
        BY <1>3, <1>4, <3>1, <3>3
      <4>2. QED
        BY <3>1, <4>1
    <3>4. QED
      BY <3>1, <3>2, <3>3
  <2>2. InRange'
    BY <1>1, <1>2, <1>3, <1>4, <1>7, <2>1, StateFacts DEF InRange
  <2>3. TypeOK'
    BY <1>1, <1>2, <1>7, StateFacts DEF Inv, TypeOK
  <2>4. QED
    BY <1>1, <1>5, <1>7, <2>2, <2>3 DEF Inv, Answer
<1>8. CASE key = At(m) /\ result' = m /\ pc' = "answered" /\ UNCHANGED <<lo, hi>>
  <2>1. Answer'
    BY <1>1, <1>2, <1>4, <1>8, StateFacts DEF Answer
  <2>2. TypeOK' /\ InRange'
    BY <1>1, <1>2, <1>8, StateFacts DEF Inv, TypeOK, InRange
  <2>3. QED
    BY <1>5, <2>1, <2>2 DEF Inv
<1>9. QED
  BY <1>6, <1>7, <1>8 DEF Compare, m

(* The other steps.                                                        *)
LEMMA OtherInv ==
  ASSUME Inv,
         LoadFails \/ (\E k \in Keys : Get(k)) \/ NotFound \/ Answered \/ UNCHANGED vars
  PROVE  Inv'
<1>1. /\ UNCHANGED <<text, line, items, capacity>>
      /\ key' \in Keys /\ lo' \in Nat /\ hi' \in Int /\ result' \in Int
      /\ pc' \in {"load", "idle", "search", "answered", "exited"}
  BY StateFacts DEF Inv, TypeOK, LoadFails, Get, NotFound, Answered, vars
<1>2. TypeOK'
  BY <1>1 DEF Inv, TypeOK
<1>3. RoomForNext' /\ Loaded'
  BY <1>1 DEF Inv, RoomForNext, Loaded, Item, nitems,
     LoadFails, Get, NotFound, Answered, vars
<1>4. InRange'
  BY <1>1, StateFacts DEF Inv, InRange, At, nitems,
     LoadFails, Get, NotFound, Answered, vars
<1>5. Answer'
  <2>1. CASE NotFound
    <3>1. /\ lo > hi /\ result' = -1 /\ UNCHANGED <<items, key>>
          /\ \A i \in 0 .. nitems - 1 : At(i) = key => lo <= i /\ i <= hi
      BY <2>1 DEF Inv, InRange, NotFound
    <3>2. ASSUME NEW j \in 1 .. nitems PROVE items[j].key # key
      <4>1. j - 1 \in 0 .. nitems - 1 /\ At(j - 1) = items[j].key
        BY StateFacts DEF At
      <4>2. QED
        BY <3>1, <4>1, StateFacts
    <3>3. QED
      BY <3>1, <3>2 DEF Answer, nitems
  <2>2. CASE ~NotFound
    BY <1>1, <2>2 DEF Inv, Answer, nitems, LoadFails, Get, Answered, vars
  <2>3. QED
    BY <2>1, <2>2
<1>6. QED
  BY <1>2, <1>3, <1>4, <1>5 DEF Inv

THEOREM ContentInvariant == Spec => []Inv
<1>1. Inv /\ [Next]_vars => Inv'
  BY LoadInv, SortInv, CompareInv, OtherInv DEF Next, Search, Exited
<1>2. QED
  BY InitInv, <1>1, PTL DEF Spec

(* fgets() always has room for one more line, whatever the initial         *)
(* capacity and the length of content.txt.                                 *)
THEOREM ContentRoom == Spec => []RoomForNext
<1>1. Inv => RoomForNext
  BY DEF Inv
<1>2. QED
  BY <1>1, ContentInvariant, PTL

(* The comment in content_get's loop holds: the key is in items[lo..hi] or *)
(* not present, and the loop never leaves the array.                       *)
THEOREM ContentInRange == Spec => []InRange
<1>1. Inv => InRange
  BY DEF Inv
<1>2. QED
  BY <1>1, ContentInvariant, PTL

(* content_get knows the keys of content.txt and no others, and answers    *)
(* with the file content.txt names for the key, but for a chunk without an *)
(* end of line, whose file it names with the last character cut            *)
(* (content.c:36, 63-79).                                                  *)
THEOREM ContentFindsTheFile == Spec => []FindsTheFile
<1>1. ASSUME Inv PROVE FindsTheFile
  <2>1. SUFFICES ASSUME pc = "answered" PROVE FindsTheFile
    BY DEF FindsTheFile
  <2>2. /\ \A k \in DOMAIN text : \E i \in 1 .. nitems : items[i] = Item(k)
        /\ \A i \in 1 .. nitems : \E k \in DOMAIN text : items[i] = Item(k)
    BY <1>1, <2>1, StateFacts DEF Inv, Loaded
  <2>3. CASE result = -1
    <3>1. \A i \in 1 .. nitems : items[i].key # key
      BY <1>1, <2>1, <2>3 DEF Inv, Answer
    <3>2. \A k \in DOMAIN text : Item(k).key # key
      BY <2>2, <3>1
    <3>3. QED
      BY <2>3, <3>2 DEF FindsTheFile, Item
  <2>4. CASE result # -1
    <3>1. result + 1 \in 1 .. nitems /\ items[result + 1].key = key
      BY <1>1, <2>1, <2>4 DEF Inv, Answer
    <3>2. PICK k \in DOMAIN text : items[result + 1] = Item(k)
      BY <2>2, <3>1
    <3>3. items[result + 1].key = text[k].key /\ items[result + 1].path = Opened(text[k])
      BY <3>2 DEF Item
    <3>4. Answers(k)
      BY <3>1, <3>3 DEF Answers, Opened
    <3>5. QED
      BY <2>4, <3>2, <3>4 DEF FindsTheFile
  <2>5. QED
    BY <2>3, <2>4
<1>2. QED
  BY <1>1, ContentInvariant, PTL
=============================================================================
