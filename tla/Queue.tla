-------------------------------- MODULE Queue --------------------------------
(***************************************************************************)
(* The queue of queue.c, in steps of at most one write to memory, so that  *)
(* the alarm can abandon an operation between any two of its writes.       *)
(* Strings are left out: a value is the block that holds one.              *)
(***************************************************************************)
EXTENDS Harness

VARIABLES
  q,                 \* the queue being tested: Null or a block
  head, tail, size,  \* its fields
  value, next,       \* the fields of the blocks that are list elements
  corrupt,           \* the blocks whose footer is overwritten
  elt, curr, prev,   \* locals: the element at hand, and those of the loops
  pc,                \* where the command in progress is
  rval,              \* what the operation returned
  lost               \* history: an insertion at the tail missed the list

struct == <<head, tail, size>>
elements == <<value, next, corrupt>>
locals == <<elt, curr, prev>>
queueVars == <<q, struct, elements, locals, rval, lost>>

Pointers == Blocks \cup {Null, Junk}

QueueInit ==
  /\ q = Null
  /\ head = Null /\ tail = Null /\ size = 0
  /\ value = [b \in Blocks |-> Junk]
  /\ next = [b \in Blocks |-> Junk]
  /\ corrupt = {}
  /\ elt = Null /\ curr = Null /\ prev = Null
  /\ rval = FALSE
  /\ lost = FALSE

At(l) == pc = l /\ owed = 0
Goto(l) == pc' = l
Return(v) ==
  /\ pc' = "returned"
  /\ rval' = v
  /\ elt' = Null /\ curr' = Null /\ prev' = Null

(* The element at position k of the list, from 0.                          *)
Follow[k \in 0 .. Cardinality(Blocks)] ==
  IF k = 0 THEN head
  ELSE LET p == Follow[k - 1] IN IF p \in Blocks THEN next[p] ELSE p

Listed == {Follow[k] : k \in 0 .. Cardinality(Blocks)} \cap Blocks

Last(b) == b \in Listed /\ next[b] = Null

(* A malloc of the operation at l: block b and on, or Null and out.        *)
Malloc(b, on) ==
  /\ b \in Available
  /\ Link(b)
  /\ Goto(on)

(* A free of block b, which is allocated (FreesAllocated of QTest says so):*)
(* what it held is overwritten, and a corrupted footer is an error.        *)
Free(b, on) ==
  /\ b \in allocated
  /\ Unlink(b)
  /\ error_occurred' = (error_occurred \/ b \in corrupt)
  /\ value' = [value EXCEPT ![b] = Junk]
  /\ next' = [next EXCEPT ![b] = Junk]
  /\ corrupt' = corrupt \ {b}
  /\ Goto(on)
  /\ UNCHANGED jmp_ready

-----------------------------------------------------------------------------
(* q_new, which do_new assigns to q.                                       *)
NewMalloc ==
  /\ At("q_new")
  /\ \/ /\ \E b \in Available : elt' = b /\ Malloc(b, "new_fields")
        /\ UNCHANGED <<curr, prev, rval>>
     \/ Return(FALSE) /\ UNCHANGED memory
  /\ UNCHANGED <<q, struct, elements, flags, lost>>

NewFields ==
  /\ At("new_fields")
  /\ q' = elt
  /\ head' = Null /\ tail' = Null /\ size' = 0
  /\ Return(TRUE)
  /\ UNCHANGED <<elements, memory, flags, lost>>

(* q_free.                                                                 *)
FreeStart ==
  /\ At("q_free")
  /\ IF q = Null
     THEN Return(TRUE)
     ELSE curr' = head /\ Goto("free_loop") /\ UNCHANGED <<elt, prev, rval>>
  /\ UNCHANGED <<q, struct, elements, memory, flags, lost>>

(* Mutant: the loop stays at the element it frees.                         *)
FreeNextStaying ==
  /\ At("free_loop")
  /\ curr \in Blocks
  /\ elt' = curr
  /\ Goto("free_value")
  /\ UNCHANGED <<q, struct, elements, memory, flags, curr, prev, rval, lost>>

FreeNext ==
  /\ At("free_loop")
  /\ curr \in Blocks
  /\ elt' = curr
  /\ curr' = next[curr]
  /\ Goto("free_value")
  /\ UNCHANGED <<q, struct, elements, memory, flags, prev, rval, lost>>

(* Mutant: the string is not freed.                                        *)
FreeValueForgotten ==
  /\ At("free_value")
  /\ Goto("free_element")
  /\ UNCHANGED <<q, struct, elements, memory, flags, locals, rval, lost>>

FreeValue ==
  /\ At("free_value")
  /\ Free(value[elt], "free_element")
  /\ UNCHANGED <<q, struct, locals, rval, lost>>

FreeElement ==
  /\ At("free_element")
  /\ Free(elt, "free_loop")
  /\ UNCHANGED <<q, struct, locals, rval, lost>>

FreeQueue ==
  /\ At("free_loop")
  /\ curr = Null
  /\ Free(q, "free_done")
  /\ UNCHANGED <<q, struct, locals, rval, lost>>

FreeDone ==
  /\ At("free_done")
  /\ Return(TRUE)
  /\ UNCHANGED <<q, struct, elements, memory, flags, lost>>

-----------------------------------------------------------------------------
(* q_insert_head and q_insert_tail, which differ in how they link.         *)
InsertElement(start, on) ==
  /\ At(start)
  /\ \/ /\ q # Null
        /\ \E b \in Available : elt' = b /\ Malloc(b, on)
        /\ UNCHANGED <<curr, prev, rval>>
     \/ Return(FALSE) /\ UNCHANGED memory
  /\ UNCHANGED <<q, struct, elements, flags, lost>>

InsertValue(at, on, undo) ==
  /\ At(at)
  /\ \/ \E b \in Available :
          /\ Malloc(b, on)
          /\ value' = [value EXCEPT ![elt] = b]
     \/ /\ Goto(undo)
        /\ UNCHANGED <<memory, value>>
  /\ UNCHANGED <<q, struct, next, corrupt, flags, locals, rval, lost>>

InsertUndo ==
  /\ At("undo")
  /\ Free(elt, "undone")
  /\ UNCHANGED <<q, struct, locals, rval, lost>>

InsertUndone ==
  /\ At("undone")
  /\ Return(FALSE)
  /\ UNCHANGED <<q, struct, elements, memory, flags, lost>>

LinkAtHead ==
  /\ At("head_link")
  /\ next' = [next EXCEPT ![elt] = head]
  /\ head' = elt
  /\ Goto("head_tail")
  /\ UNCHANGED <<q, tail, size, value, corrupt, memory, flags, locals, rval, lost>>

HeadTail ==
  /\ At("head_tail")
  /\ tail' = IF tail = Null THEN elt ELSE tail
  /\ Goto("insert_size")
  /\ UNCHANGED <<q, head, size, elements, memory, flags, locals, rval, lost>>

(* The tail is written to whether or not it is still an element: a freed   *)
(* block takes it, one that holds a string may have its footer there.  A   *)
(* freed block is here the harness's own until it gives it out again; that *)
(* the C library lends it to the console meanwhile is left out.            *)
LinkAtTail ==
  /\ At("tail_link")
  /\ IF tail # Null
     THEN /\ next' = [b \in Blocks |-> IF b = tail /\ b \in allocated THEN elt
                                      ELSE IF b = elt THEN Null ELSE next[b]]
          /\ corrupt' \in {corrupt, corrupt \cup ({value[b] : b \in Blocks} \cap {tail})}
          /\ UNCHANGED head
     ELSE /\ next' = [next EXCEPT ![elt] = Null]
          /\ head' = elt
          /\ UNCHANGED corrupt
  /\ lost' = (lost \/ (IF tail = Null THEN head # Null ELSE ~Last(tail)))
  /\ Goto("tail_tail")
  /\ UNCHANGED <<q, tail, size, value, memory, flags, locals, rval>>

TailTail ==
  /\ At("tail_tail")
  /\ tail' = elt
  /\ Goto("insert_size")
  /\ UNCHANGED <<q, head, size, elements, memory, flags, locals, rval, lost>>

InsertSize ==
  /\ At("insert_size")
  /\ size' = size + 1
  /\ Return(TRUE)
  /\ UNCHANGED <<q, head, tail, elements, memory, flags, lost>>

-----------------------------------------------------------------------------
(* q_remove_head.  Its caller asks for a string, or (rhq) does not.        *)
RemoveNothing(asked) ==
  /\ At("q_remove_head")
  /\ q = Null \/ head = Null \/ ~asked
  /\ Return(FALSE)
  /\ UNCHANGED <<q, struct, elements, memory, flags, lost>>

(* Mutant: the head stays at the element removed.                          *)
RemoveHeadStaying(asked) ==
  /\ At("q_remove_head")
  /\ q # Null /\ head # Null /\ asked
  /\ elt' = head
  /\ Goto("remove_value")
  /\ UNCHANGED <<q, struct, elements, memory, flags, curr, prev, rval, lost>>

RemoveHead(asked) ==
  /\ At("q_remove_head")
  /\ q # Null /\ head # Null /\ asked
  /\ elt' = head
  /\ head' = next[head]
  /\ Goto("remove_value")
  /\ UNCHANGED <<q, tail, size, elements, memory, flags, curr, prev, rval, lost>>

RemoveValue ==
  /\ At("remove_value")
  /\ Free(value[elt], "remove_element")
  /\ UNCHANGED <<q, struct, locals, rval, lost>>

RemoveElement ==
  /\ At("remove_element")
  /\ Free(elt, "remove_size")
  /\ UNCHANGED <<q, struct, locals, rval, lost>>

(* Mutant: the size stays.                                                 *)
RemoveSizeStaying ==
  /\ At("remove_size")
  /\ Return(TRUE)
  /\ UNCHANGED <<q, struct, elements, memory, flags, lost>>

RemoveSize ==
  /\ At("remove_size")
  /\ size' = size - 1
  /\ Return(TRUE)
  /\ UNCHANGED <<q, head, tail, elements, memory, flags, lost>>

-----------------------------------------------------------------------------
(* q_size; what do_size makes of it is whether it is the count expected.   *)
Size(expected) ==
  /\ At("q_size")
  /\ Return((IF q = Null \/ head = Null THEN 0 ELSE size) = expected)
  /\ UNCHANGED <<q, struct, elements, memory, flags, lost>>

(* q_reverse.                                                              *)
ReverseStart ==
  /\ At("q_reverse")
  /\ IF q = Null \/ head = Null \/ head = tail
     THEN Return(TRUE) /\ UNCHANGED tail
     ELSE /\ curr' = head
          /\ tail' = head
          /\ Goto("reverse_loop")
          /\ UNCHANGED <<elt, prev, rval>>
  /\ UNCHANGED <<q, head, size, elements, memory, flags, lost>>

ReverseNext ==
  /\ At("reverse_loop")
  /\ curr \in Blocks
  /\ next' = [next EXCEPT ![curr] = prev]
  /\ prev' = curr
  /\ curr' = next[curr]
  /\ UNCHANGED <<q, struct, value, corrupt, elt, memory, flags, pc, rval, lost>>

ReverseEnd ==
  /\ At("reverse_loop")
  /\ curr = Null
  /\ head' = prev
  /\ Return(TRUE)
  /\ UNCHANGED <<q, tail, size, elements, memory, flags, lost>>

(* The places where an operation is in progress.                           *)
Starts == {"q_new", "q_free", "q_insert_head", "q_insert_tail", "q_remove_head",
           "q_size", "q_reverse"}
Inside == Starts \cup
  {"new_fields", "free_loop", "free_value", "free_element", "free_done",
   "head_value", "head_link", "head_tail", "tail_value", "tail_link", "tail_tail",
   "insert_size", "undo", "undone", "remove_value", "remove_element", "remove_size",
   "reverse_loop"}
=============================================================================
