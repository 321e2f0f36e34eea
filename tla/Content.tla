------------------------------- MODULE Content -------------------------------
(***************************************************************************)
(* The server's content, mtgf/content.c: content_init() loads content.txt  *)
(* into an array that doubles when it is full and sorts it by key, and     *)
(* content_get() finds the open file of a key by binary search.            *)
(*                                                                         *)
(* A chunk is what one fgets() returns: a line, or the part of a line that *)
(* fits into MAX_KEYLEN.  Keys are numbers, in the order of strcmp().      *)
(***************************************************************************)
EXTENDS Integers, Sequences, FiniteSets, Functions

CONSTANTS
  Keys,             \* the keys, and those that are asked for
  Files,            \* the paths that open() can open
  Cut(_),           \* a path without its last character
  InitialCapacity,  \* 16
  MaxChunks         \* bound: chunks in content.txt

ASSUME KeysAssumption == Keys \subseteq Int /\ Keys # {}
ASSUME CapacityAssumption == InitialCapacity \in Nat \ {0}
ASSUME MaxChunksAssumption == MaxChunks \in Nat

VARIABLES
  text,      \* content.txt, as a sequence of chunks
  line,      \* chunks read so far
  items,     \* the array items[0 .. nitems - 1], here from 1
  capacity,  \* elements allocated to items
  pc,        \* where the caller is
  key,       \* the key content_get looks for
  lo, hi,    \* its bounds, counted from 0 as in the code
  result     \* the index found, -1 for none

vars == <<text, line, items, capacity, pc, key, lo, hi, result>>

Paths == Files \cup {Cut(f) : f \in Files}
Chunks == [key : Keys, path : Paths, eol : BOOLEAN]
Items == [key : Keys, path : Paths]

(* nitems, and items[i] as the code counts. *)
nitems == Len(items)
At(i) == items[i + 1].key

Init ==
  /\ text \in UNION {[1 .. n -> Chunks] : n \in 0 .. MaxChunks}
  /\ line = 0
  /\ items = <<>>
  /\ capacity = InitialCapacity
  /\ pc = "load"
  /\ key = CHOOSE k \in Keys : TRUE
  /\ lo = 0
  /\ hi = -1
  /\ result = -1

(* The last character of a chunk is taken out, the end of the line or not. *)
Opened(chunk) == IF chunk.eol THEN chunk.path ELSE Cut(chunk.path)

(* Mutant: the array doubles one iteration too late.                       *)
LoadBeyond ==
  /\ pc = "load"
  /\ line < Len(text)
  /\ LET c == text[line + 1] IN
       /\ Opened(c) \in Files
       /\ items' = Append(items, [key |-> c.key, path |-> Opened(c)])
  /\ line' = line + 1
  /\ capacity' = IF nitems = capacity THEN 2 * capacity ELSE capacity
  /\ UNCHANGED <<text, pc, key, lo, hi, result>>

(* One iteration of content_init's loop: fgets, the two fields, open; the  *)
(* array doubles when it has become full.                                  *)
Load ==
  /\ pc = "load"
  /\ line < Len(text)
  /\ LET c == text[line + 1] IN
       /\ Opened(c) \in Files
       /\ items' = Append(items, [key |-> c.key, path |-> Opened(c)])
  /\ line' = line + 1
  /\ capacity' = IF nitems + 1 = capacity THEN 2 * capacity ELSE capacity
  /\ UNCHANGED <<text, pc, key, lo, hi, result>>

(* content.txt cannot be opened, or the next path cannot, which may be for *)
(* want of a descriptor: the server ends.                                  *)
LoadFails ==
  /\ pc = "load"
  /\ line = 0 \/ line < Len(text)
  /\ pc' = "exited"
  /\ UNCHANGED <<text, line, items, capacity, key, lo, hi, result>>

Ascending(s) == \A i, j \in DOMAIN s : i < j => s[i].key <= s[j].key

(* Mutant: the items stay in the order of the file.                        *)
SortNot ==
  /\ pc = "load"
  /\ line = Len(text)
  /\ pc' = "idle"
  /\ UNCHANGED <<text, line, items, capacity, key, lo, hi, result>>

(* At the end of the file: qsort, which orders equal keys as it likes.     *)
Sort ==
  /\ pc = "load"
  /\ line = Len(text)
  /\ \E p \in Bijection(DOMAIN items, DOMAIN items) :
       items' = [i \in DOMAIN items |-> items[p[i]]]
  /\ Ascending(items')
  /\ pc' = "idle"
  /\ UNCHANGED <<text, line, capacity, key, lo, hi, result>>

(* Mutant: the search starts at nitems, one past the end.                  *)
GetBeyond(k) ==
  /\ pc = "idle"
  /\ key' = k
  /\ lo' = 0
  /\ hi' = nitems
  /\ pc' = "search"
  /\ UNCHANGED <<text, line, items, capacity, result>>

(* content_get(k) starts ...                                               *)
Get(k) ==
  /\ pc = "idle"
  /\ key' = k
  /\ lo' = 0
  /\ hi' = nitems - 1
  /\ pc' = "search"
  /\ UNCHANGED <<text, line, items, capacity, result>>

mid == lo + (hi - lo) \div 2

(* Mutant: the bounds keep the middle element.                            *)
CompareKeeping ==
  /\ pc = "search"
  /\ lo <= hi
  /\ \/ /\ key < At(mid)
        /\ hi' = mid
        /\ UNCHANGED <<lo, pc, result>>
     \/ /\ key > At(mid)
        /\ lo' = mid
        /\ UNCHANGED <<hi, pc, result>>
     \/ /\ key = At(mid)
        /\ result' = mid
        /\ pc' = "answered"
        /\ UNCHANGED <<lo, hi>>
  /\ UNCHANGED <<text, line, items, capacity, key>>

(* ... compares the key with the middle one, as long as there is one ...   *)
Compare ==
  /\ pc = "search"
  /\ lo <= hi
  /\ \/ /\ key < At(mid)
        /\ hi' = mid - 1
        /\ UNCHANGED <<lo, pc, result>>
     \/ /\ key > At(mid)
        /\ lo' = mid + 1
        /\ UNCHANGED <<hi, pc, result>>
     \/ /\ key = At(mid)
        /\ result' = mid
        /\ pc' = "answered"
        /\ UNCHANGED <<lo, hi>>
  /\ UNCHANGED <<text, line, items, capacity, key>>

(* ... and gives up when none is left.                                     *)
NotFound ==
  /\ pc = "search"
  /\ lo > hi
  /\ result' = -1
  /\ pc' = "answered"
  /\ UNCHANGED <<text, line, items, capacity, key, lo, hi>>

(* The caller has the answer.                                              *)
Answered ==
  /\ pc = "answered"
  /\ pc' = "idle"
  /\ UNCHANGED <<text, line, items, capacity, key, lo, hi, result>>

Exited == pc = "exited" /\ UNCHANGED vars

Search == Compare \/ NotFound \/ Answered

Next ==
  \/ Load
  \/ LoadFails
  \/ Sort
  \/ \E k \in Keys : Get(k)
  \/ Search
  \/ Exited

Spec == Init /\ [][Next]_vars

FairSpec == Spec /\ WF_vars(Load \/ LoadFails \/ Sort) /\ WF_vars(Search)

-----------------------------------------------------------------------------
TypeOK ==
  /\ text \in Seq(Chunks)
  /\ line \in 0 .. Len(text)
  /\ items \in Seq(Items)
  /\ capacity \in Nat
  /\ pc \in {"load", "idle", "search", "answered", "exited"}
  /\ key \in Keys
  /\ lo \in Nat
  /\ hi \in Int
  /\ result \in Int

(* Every fgets() has an element of items to write to: the array is doubled *)
(* before it is full, not after.                                           *)
RoomForNext == pc = "load" => nitems < capacity

(* The comment in the loop, "Key is in items[lo..hi] or not present", with *)
(* the bounds that keep items[mid] inside the array.                       *)
InRange ==
  pc = "search" =>
    /\ lo <= hi + 1 /\ hi < nitems
    /\ \A i \in 0 .. nitems - 1 : At(i) = key => lo <= i /\ i <= hi

(* Each key content_get knows is one content.txt gives and the other way   *)
(* round; the file it answers with is the one content.txt names for the    *)
(* key, but for a chunk without an end of line: there it is the file whose *)
(* name lacks the last character (content.c:36).                           *)
Answers(k) ==
  /\ text[k].key = key
  /\ items[result + 1].key = key
  /\ text[k].eol => items[result + 1].path = text[k].path
  /\ ~text[k].eol => items[result + 1].path = Cut(text[k].path)
FindsTheFile ==
  pc = "answered" =>
    IF result = -1
    THEN \A k \in DOMAIN text : text[k].key # key
    ELSE \E k \in DOMAIN text : Answers(k)

(* Loading ends, in a sorted array or with exit(), and so does every       *)
(* search.                                                                 *)
CallsEnd == <>(pc \in {"idle", "exited"}) /\ (pc = "search" ~> pc = "answered")
=============================================================================
