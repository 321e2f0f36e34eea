------------------------------- MODULE Harness -------------------------------
(***************************************************************************)
(* The test harness of harness.c under which qtest runs the queue code:    *)
(* malloc and free that count blocks, and the flags of the exceptions.     *)
(*                                                                         *)
(* A call of malloc or free is two steps, the block and then the count,    *)
(* because the alarm may go off between them.  The C library's allocator   *)
(* may give out any block that is not allocated.                           *)
(***************************************************************************)
EXTENDS Integers, FiniteSets

CONSTANTS
  Blocks,     \* the memory there is, in blocks (a bound of the model)
  Null, Junk  \* the null pointer, and what memory holds after a memset

ASSUME MemoryAssumption == IsFiniteSet(Blocks) /\ Null \notin Blocks /\ Junk \notin Blocks

VARIABLES
  allocated,        \* the blocks of the list that starts at allocated
  allocated_count,  \* a size_t: a negative number stands for a huge one
  owed,             \* what the call in progress has yet to add to the count
  error_occurred,
  jmp_ready         \* and time_limited, which every caller sets with it

memory == <<allocated, allocated_count, owed>>
flags == <<error_occurred, jmp_ready>>

HarnessInit ==
  /\ allocated = {}
  /\ allocated_count = 0
  /\ owed = 0
  /\ error_occurred = FALSE
  /\ jmp_ready = FALSE

Available == Blocks \ allocated

(* The first part of test_malloc, up to the block's place in the list.     *)
Link(b) ==
  /\ owed = 0
  /\ allocated' = allocated \cup {b}
  /\ owed' = 1
  /\ UNCHANGED allocated_count

(* The first part of test_free, of a block that is allocated.              *)
Unlink(b) ==
  /\ owed = 0
  /\ allocated' = allocated \ {b}
  /\ owed' = -1
  /\ UNCHANGED allocated_count

(* The last line of either.                                                *)
Count ==
  /\ owed # 0
  /\ allocated_count' = allocated_count + owed
  /\ owed' = 0
  /\ UNCHANGED allocated

(* exception_setup, on its first return: the alarm is set.                 *)
SetUp == jmp_ready' = TRUE

(* trigger_exception and the jump: a call of the allocator is abandoned.   *)
Jump ==
  /\ jmp_ready
  /\ error_occurred' = TRUE
  /\ jmp_ready' = FALSE
  /\ owed' = 0
  /\ UNCHANGED <<allocated, allocated_count>>
=============================================================================
