------------------------------- MODULE Steque -------------------------------
(***************************************************************************)
(* The stack-ended queue of mtgf/steque.c: a singly linked list on the     *)
(* heap with a pointer to either end and a count.  The queue of WorkerPool *)
(* is one of these; there the mutex makes each operation a step.           *)
(*                                                                         *)
(* A history variable, chain, holds the nodes that are linked; no          *)
(* operation reads it.                                                     *)
(***************************************************************************)
EXTENDS Naturals, Sequences, FiniteSets

CONSTANTS
  Nodes,  \* the addresses malloc() can return, which bounds the queue
  Items,  \* the items
  Null    \* the null pointer

ASSUME NodesAssumption == IsFiniteSet(Nodes) /\ Null \notin Nodes

VARIABLES
  front, back, N,  \* steque_t
  item, next,      \* the fields of each steque_node_t
  live,            \* the nodes that are allocated
  ret,             \* the item returned last
  mode,            \* "idle", "emptying" (in steque_destroy) or "exited"
  chain            \* history: the linked nodes, front first

heap == <<item, next, live>>
vars == <<front, back, N, item, next, live, ret, mode, chain>>

Pointers == Nodes \cup {Null}

Init ==
  /\ front = Null
  /\ back = Null
  /\ N = 0
  /\ item = [n \in Nodes |-> Null]
  /\ next = [n \in Nodes |-> Null]
  /\ live = {}
  /\ ret = Null
  /\ mode = "idle"
  /\ chain = <<>>

Enqueue(x) ==
  /\ mode = "idle"
  /\ \E n \in Nodes \ live :
       /\ live' = live \cup {n}
       /\ item' = [item EXCEPT ![n] = x]
       /\ next' = [m \in Nodes |-> IF m = n THEN Null ELSE IF m = back THEN n ELSE next[m]]
       /\ front' = IF back = Null THEN n ELSE front
       /\ back' = n
       /\ chain' = Append(chain, n)
  /\ N' = N + 1
  /\ UNCHANGED <<ret, mode>>

Push(x) ==
  /\ mode = "idle"
  /\ \E n \in Nodes \ live :
       /\ live' = live \cup {n}
       /\ item' = [item EXCEPT ![n] = x]
       /\ next' = [next EXCEPT ![n] = front]
       /\ back' = IF back = Null THEN n ELSE back
       /\ front' = n
       /\ chain' = <<n>> \o chain
  /\ N' = N + 1
  /\ UNCHANGED <<ret, mode>>

(* malloc() returns NULL, which neither of them checks.                    *)
OutOfMemory ==
  /\ mode = "idle"
  /\ live = Nodes
  /\ mode' = "exited"
  /\ UNCHANGED <<front, back, N, heap, ret, chain>>

(* Mutant: the item of the back is returned.                               *)
TakeFrontBack ==
  /\ front # Null
  /\ ret' = item[back]
  /\ front' = next[front]
  /\ back' = IF next[front] = Null THEN Null ELSE back
  /\ live' = live \ {front}
  /\ N' = N - 1
  /\ chain' = Tail(chain)
  /\ UNCHANGED <<item, next, mode>>

(* Mutant: the back is left behind when the last node goes.                *)
TakeFrontLeavingBack ==
  /\ front # Null
  /\ ret' = item[front]
  /\ front' = next[front]
  /\ back' = back
  /\ live' = live \ {front}
  /\ N' = N - 1
  /\ chain' = Tail(chain)
  /\ UNCHANGED <<item, next, mode>>

(* steque_pop, on a queue that has a front.                                *)
TakeFront ==
  /\ front # Null
  /\ ret' = item[front]
  /\ front' = next[front]
  /\ back' = IF next[front] = Null THEN Null ELSE back
  /\ live' = live \ {front}
  /\ N' = N - 1
  /\ chain' = Tail(chain)
  /\ UNCHANGED <<item, next, mode>>

(* On a queue that has none, the process exits.                            *)
Underflow ==
  /\ front = Null
  /\ mode' = "exited"
  /\ UNCHANGED <<front, back, N, heap, ret, chain>>

Pop == mode = "idle" /\ (TakeFront \/ Underflow)

StequeFront ==
  /\ mode = "idle"
  /\ \/ /\ front # Null
        /\ ret' = item[front]
        /\ UNCHANGED <<front, back, N, heap, mode, chain>>
     \/ Underflow

(* steque_cycle: the four assignments, in their order.                     *)
Cycle ==
  LET linked == [next EXCEPT ![back] = front] IN
    /\ mode = "idle"
    /\ back # Null
    /\ back' = front
    /\ front' = linked[front]
    /\ next' = [linked EXCEPT ![front] = Null]
    /\ chain' = Append(Tail(chain), Head(chain))
    /\ UNCHANGED <<N, item, live, ret, mode>>

(* steque_destroy pops as long as the count says so.                       *)
Destroy ==
  /\ mode = "idle"
  /\ mode' = "emptying"
  /\ UNCHANGED <<front, back, N, heap, ret, chain>>

DestroyStep ==
  /\ mode = "emptying"
  /\ N # 0
  /\ TakeFront \/ Underflow

DestroyEnd ==
  /\ mode = "emptying"
  /\ N = 0
  /\ mode' = "idle"
  /\ UNCHANGED <<front, back, N, heap, ret, chain>>

Exited == mode = "exited" /\ UNCHANGED vars

Next ==
  \/ \E x \in Items : Enqueue(x) \/ Push(x)
  \/ OutOfMemory
  \/ Pop
  \/ StequeFront
  \/ Cycle
  \/ Destroy
  \/ DestroyStep
  \/ DestroyEnd
  \/ Exited

Spec == Init /\ [][Next]_vars

-----------------------------------------------------------------------------
TypeOK ==
  /\ front \in Pointers /\ back \in Pointers
  /\ N \in Nat
  /\ item \in [Nodes -> Items \cup {Null}]
  /\ next \in [Nodes -> Pointers]
  /\ live \in SUBSET Nodes
  /\ ret \in Items \cup {Null}
  /\ mode \in {"idle", "emptying", "exited"}
  /\ chain \in Seq(Nodes)

(* The list is whole: from front the next pointers lead through every      *)
(* allocated node, each once, to back and end there, and N counts them.    *)
(* No node leaks and no pointer dangles.                                   *)
Linked ==
  LET last == Len(chain) IN
    /\ N = last
    /\ IF last = 0
       THEN front = Null /\ back = Null
       ELSE front = chain[1] /\ back = chain[last] /\ next[chain[last]] = Null
    /\ \A k \in 1 .. last - 1 : next[chain[k]] = chain[k + 1]
    /\ \A j, k \in 1 .. last : chain[j] = chain[k] => j = k
    /\ live = {chain[k] : k \in 1 .. last}

(* The linked list implements the deque of steque.h: the items along the   *)
(* list are the deque, and steque_pop and steque_front return its first.   *)
D == INSTANCE Deque WITH
       NoItem <- Null,
       deq <- [k \in 1 .. Len(chain) |-> item[chain[k]]],
       got <- ret,
       state <- mode

RefinesDeque == D!DequeSpec

=============================================================================
