-------------------------------- MODULE Deque --------------------------------
(***************************************************************************)
(* What steque.h promises: a stack-ended queue of items, as a sequence.    *)
(* Taking from an empty one ends the process, as running out of memory     *)
(* does.                                                                   *)
(***************************************************************************)
EXTENDS Naturals, Sequences

CONSTANTS Items, NoItem

VARIABLES
  deq,   \* the items, the front one first
  got,   \* the item returned last
  state  \* "idle", "emptying" (in steque_destroy) or "exited"

dequeVars == <<deq, got, state>>

DequeInit == deq = <<>> /\ got = NoItem /\ state = "idle"

Add(s) == deq' = s /\ UNCHANGED <<got, state>>

Enqueued(x) == state = "idle" /\ Add(Append(deq, x))
Pushed(x) == state = "idle" /\ Add(<<x>> \o deq)
Cycled ==
  /\ state = "idle"
  /\ deq # <<>>
  /\ Add(Append(Tail(deq), Head(deq)))

Popped ==
  /\ state \in {"idle", "emptying"}
  /\ deq # <<>>
  /\ got' = Head(deq)
  /\ deq' = Tail(deq)
  /\ UNCHANGED state

Peeked ==
  /\ state = "idle"
  /\ deq # <<>>
  /\ got' = Head(deq)
  /\ UNCHANGED <<deq, state>>

Emptying == state = "idle" /\ state' = "emptying" /\ UNCHANGED <<deq, got>>
Emptied ==
  /\ state = "emptying"
  /\ deq = <<>>
  /\ state' = "idle"
  /\ UNCHANGED <<deq, got>>

(* The process ends, but never in the middle of emptying.                  *)
Ended == state = "idle" /\ state' = "exited" /\ UNCHANGED <<deq, got>>

DequeNext ==
  \/ \E x \in Items : Enqueued(x) \/ Pushed(x)
  \/ Cycled
  \/ Popped
  \/ Peeked
  \/ Emptying
  \/ Emptied
  \/ Ended

DequeSpec == DequeInit /\ [][DequeNext]_dequeVars
=============================================================================
