---------------------------- MODULE ClientProofs ----------------------------
(***************************************************************************)
(* Proofs about the parts of the mtgf client: the pool of workers and the  *)
(* client that downloads with it, for any number of threads and of         *)
(* requests, and the steque, for any set of nodes.                         *)
(*                                                                         *)
(* First WorkerPool, whose invariants are proved in the order in which     *)
(* they depend on each other: the types with the loop counters, mutual     *)
(* exclusion, the order of the queue, the account of the requests, and     *)
(* last that no wakeup is lost and that main() never joins workers that    *)
(* all sleep.  Then DownloadClient: it implements WorkerPool, so that all  *)
(* this holds of the whole client; and when no two requests have one path, *)
(* the race for the counter of localPath() costs no download.  Last        *)
(* Steque: the linked list stays whole, and it implements the deque that   *)
(* steque.h describes.                                                     *)
(***************************************************************************)
EXTENDS DownloadClient, Steque, FiniteSetTheorems, SequenceTheorems, TLAPS

(***************************************************************************)
(* The pool.                                                               *)
(***************************************************************************)

(* The loop counters agree with where the threads are in their loops.      *)
BossCounter ==
  /\ bpc = "create" => enq = 0
  /\ bpc \in {"lock", "enqueue"} => enq < Total
  /\ bpc \in {"join", "stuck", "exited"} => enq = Total

WorkerCounter(t) ==
  /\ wpc[t] = "unborn" => bpc = "create" /\ iter[t] = 0
  /\ wpc[t] = "missing" => iter[t] = 0
  /\ wpc[t] = "done" => iter[t] = NumRequests
  /\ wpc[t] \in {"lock", "check", "wait", "unlock", "busy"} => iter[t] < NumRequests

LoopCounters ==
  /\ BossCounter
  /\ \A t \in Threads : WorkerCounter(t)
  /\ bpc = "exited" => \A t \in Threads : Ended(t)

TypeInv == PoolTypeOK /\ LoopCounters

(* There are finitely many requests: num_requests * num_threads.           *)
LEMMA TotalType == Total \in Nat
<1>1. Cardinality(Threads) \in Nat
  BY ThreadsAssumption, FS_CardinalityType
<1>2. QED
  BY <1>1, NumRequestsAssumption DEF Total

(* The types and the loop counters hold when the program starts.           *)
LEMMA TypeInvInit == PoolInit => TypeInv
<1>1. SUFFICES ASSUME PoolInit PROVE TypeInv
  OBVIOUS
<1>2. PoolTypeOK
  BY <1>1, TotalType, NumRequestsAssumption, MaxSpuriousAssumption, EmptySeq
  DEF PoolInit, PoolTypeOK, BossStates, WorkerStates
<1>3. LoopCounters
  BY <1>1 DEF PoolInit, LoopCounters, BossCounter, WorkerCounter
<1>4. QED
  BY <1>2, <1>3 DEF TypeInv

(* Every step keeps the types and the loop counters.                       *)
LEMMA TypeInvNext == TypeInv /\ [PoolNext]_poolVars => TypeInv'
<1> SUFFICES ASSUME TypeInv, [PoolNext]_poolVars PROVE TypeInv'
  OBVIOUS
<1> USE TotalType, NumRequestsAssumption, MaxSpuriousAssumption
<1> USE DEF TypeInv, PoolTypeOK, LoopCounters, BossCounter, WorkerCounter,
            BossStates, WorkerStates, Ended
<1> HIDE DEF Total
<1>1. ASSUME NEW t \in Threads, Create(t) PROVE TypeInv'
  BY <1>1 DEF Create, WorkerLoop
<1>2. CASE AllCreated
  BY <1>2 DEF AllCreated, BossLoop
<1>3. CASE BossLock
  BY <1>3 DEF BossLock
<1>4. CASE BossEnqueue
  <2>1. queue' \in Seq(Nat)
    BY <1>4, AppendProperties DEF BossEnqueue
  <2>2. QED
    BY <1>4, <2>1 DEF BossEnqueue
<1>5. CASE BossSignal
  BY <1>5 DEF BossSignal
<1>6. CASE BossUnlock
  BY <1>6 DEF BossUnlock, BossLoop
<1>7. CASE BossJoin
  BY <1>7, EmptySeq DEF BossJoin
<1>8. ASSUME NEW t \in Threads, Lock(t) PROVE TypeInv'
  BY <1>8 DEF Lock
<1>9. ASSUME NEW t \in Threads, Wait(t) PROVE TypeInv'
  BY <1>9 DEF Wait
<1>10. ASSUME NEW t \in Threads, Reacquire(t) PROVE TypeInv'
  BY <1>10 DEF Reacquire
<1>11. ASSUME NEW t \in Threads, TakeRequest(t) PROVE TypeInv'
  <2>1. Head(queue) \in Nat /\ Tail(queue) \in Seq(Nat)
    BY <1>11, HeadTailProperties DEF TakeRequest
  <2>2. QED
    BY <1>11, <2>1 DEF TakeRequest
<1>12. ASSUME NEW t \in Threads, Unlock(t) PROVE TypeInv'
  BY <1>12 DEF Unlock
<1>13. ASSUME NEW t \in Threads, Finish(t) PROVE TypeInv'
  BY <1>13 DEF Finish, WorkerLoop
<1>14. ASSUME NEW t \in Threads, SpuriousWakeup(t) PROVE TypeInv'
  BY <1>14 DEF SpuriousWakeup
<1>15. ASSUME NEW t \in Threads, ExitProcess(t) PROVE TypeInv'
  BY <1>15 DEF ExitProcess
<1>16. ASSUME NEW t \in Threads, CreateFails(t) PROVE TypeInv'
  BY <1>16 DEF CreateFails
<1>17. ASSUME NEW t \in Threads, BossJoinMissing(t) PROVE TypeInv'
  BY <1>17 DEF BossJoinMissing
<1>18. CASE PathTooLong
  BY <1>18 DEF PathTooLong
<1>19. CASE UNCHANGED poolVars
  BY <1>19 DEF poolVars
<1>20. QED
  BY <1>1, <1>2, <1>3, <1>4, <1>5, <1>6, <1>7, <1>8, <1>9, <1>10, <1>11, <1>12,
     <1>13, <1>14, <1>15, <1>16, <1>17, <1>18, <1>19
  DEF PoolNext, BossStep, WorkerSync, PoolStutter

(* The variables of the client keep their types and the loop counters      *)
(* their bounds in every behavior of the pool.                             *)
THEOREM PoolTypeCorrect == PoolSpec => []PoolTypeOK
<1>1. PoolSpec => []TypeInv
  BY TypeInvInit, TypeInvNext, PTL DEF PoolSpec
<1>2. TypeInv => PoolTypeOK
  BY DEF TypeInv
<1>3. QED
  BY <1>1, <1>2, PTL

-----------------------------------------------------------------------------
(* Every step keeps the mutex with the thread that is between lock and     *)
(* unlock: a thread that enters found it free, one that leaves frees it.   *)
LEMMA MutexNext ==
  TypeInv /\ MutualExclusion /\ [PoolNext]_poolVars => MutualExclusion'
<1> SUFFICES ASSUME TypeInv, MutualExclusion, [PoolNext]_poolVars
             PROVE  MutualExclusion'
  OBVIOUS
<1> USE HoldersAssumption
<1> USE DEF TypeInv, PoolTypeOK, MutualExclusion, BossStates, WorkerStates, Free, Boss
<1>1. ASSUME NEW t \in Threads, Create(t) PROVE MutualExclusion'
  BY <1>1 DEF Create, WorkerLoop
<1>2. CASE AllCreated
  BY <1>2 DEF AllCreated, BossLoop
<1>3. CASE BossLock
  BY <1>3 DEF BossLock
<1>4. CASE BossEnqueue
  BY <1>4 DEF BossEnqueue
<1>5. CASE BossSignal
  BY <1>5 DEF BossSignal
<1>6. CASE BossUnlock
  BY <1>6 DEF BossUnlock, BossLoop
<1>7. CASE BossJoin
  BY <1>7 DEF BossJoin
<1>8. ASSUME NEW t \in Threads, Lock(t) PROVE MutualExclusion'
  BY <1>8 DEF Lock
<1>9. ASSUME NEW t \in Threads, Wait(t) PROVE MutualExclusion'
  BY <1>9 DEF Wait
<1>10. ASSUME NEW t \in Threads, Reacquire(t) PROVE MutualExclusion'
  BY <1>10 DEF Reacquire
<1>11. ASSUME NEW t \in Threads, TakeRequest(t) PROVE MutualExclusion'
  BY <1>11 DEF TakeRequest
<1>12. ASSUME NEW t \in Threads, Unlock(t) PROVE MutualExclusion'
  BY <1>12 DEF Unlock
<1>13. ASSUME NEW t \in Threads, Finish(t) PROVE MutualExclusion'
  BY <1>13 DEF Finish, WorkerLoop
<1>14. ASSUME NEW t \in Threads, SpuriousWakeup(t) PROVE MutualExclusion'
  BY <1>14 DEF SpuriousWakeup
<1>15. ASSUME NEW t \in Threads, ExitProcess(t) PROVE MutualExclusion'
  BY <1>15 DEF ExitProcess
<1>16. ASSUME NEW t \in Threads, CreateFails(t) PROVE MutualExclusion'
  BY <1>16 DEF CreateFails
<1>17. ASSUME NEW t \in Threads, BossJoinMissing(t) PROVE MutualExclusion'
  BY <1>17 DEF BossJoinMissing
<1>18. CASE PathTooLong
  BY <1>18 DEF PathTooLong
<1>19. CASE UNCHANGED poolVars
  BY <1>19 DEF poolVars
<1>20. QED
  BY <1>1, <1>2, <1>3, <1>4, <1>5, <1>6, <1>7, <1>8, <1>9, <1>10,
     <1>11, <1>12, <1>13, <1>14, <1>15, <1>16, <1>17, <1>18, <1>19
  DEF PoolNext, BossStep, WorkerSync, PoolStutter

(* steque_enqueue, steque_isempty and steque_pop are never called by two   *)
(* threads at a time: only the holder of the mutex is between lock and     *)
(* unlock.                                                                 *)
THEOREM PoolMutualExclusion == PoolSpec => []MutualExclusion
<1>1. PoolInit => MutualExclusion
  BY HoldersAssumption DEF PoolInit, MutualExclusion, Free, Boss
<1>2. QED
  BY <1>1, TypeInvInit, TypeInvNext, MutexNext, PTL DEF PoolSpec

-----------------------------------------------------------------------------
(* Every step keeps the steque in the order of the requests.               *)
LEMMA FifoNext ==
  TypeInv /\ FifoQueue /\ [PoolNext]_poolVars => FifoQueue'
<1> SUFFICES ASSUME TypeInv, FifoQueue, [PoolNext]_poolVars
             PROVE  FifoQueue'
  OBVIOUS
<1> DEFINE len == Len(queue)
<1>1. /\ queue \in Seq(Nat) /\ req \in [Threads -> Nat]
      /\ enq \in Nat /\ len \in Nat /\ DOMAIN queue = 1 .. len
      /\ len <= enq
      /\ \A k \in 1 .. len : queue[k] = enq - len + k
      /\ \A t \in Threads : req[t] <= enq - len
  BY TotalType, LenProperties DEF TypeInv, PoolTypeOK, FifoQueue
<1>2. (UNCHANGED <<queue, enq, req>>) => FifoQueue'
  BY DEF FifoQueue
<1> HIDE DEF len
<1>3. ASSUME NEW t \in Threads, Create(t) PROVE FifoQueue'
  BY <1>3, <1>2 DEF Create
<1>4. CASE AllCreated
  BY <1>4, <1>2 DEF AllCreated
<1>5. CASE BossLock
  BY <1>5, <1>2 DEF BossLock
<1>6. CASE BossEnqueue
  <2>1. /\ Len(queue') = len + 1 /\ DOMAIN queue' = 1 .. len + 1
        /\ \A k \in 1 .. len : queue'[k] = queue[k]
        /\ queue'[len + 1] = enq + 1
        /\ enq' = enq + 1 /\ req' = req
    BY <1>6, <1>1, AppendProperties, LenProperties DEF BossEnqueue, len
  <2>2. \A k \in 1 .. len + 1 : queue'[k] = enq' - Len(queue') + k
    BY <1>1, <2>1
  <2>3. \A t \in Threads : req'[t] <= enq' - Len(queue')
    BY <1>1, <2>1
  <2>4. QED
    BY <1>1, <2>1, <2>2, <2>3 DEF FifoQueue
<1>7. CASE BossSignal
  BY <1>7, <1>2 DEF BossSignal
<1>8. CASE BossUnlock
  BY <1>8, <1>2 DEF BossUnlock
<1>9. CASE BossJoin
  <2>1. Len(queue') = 0 /\ DOMAIN queue' = {} /\ enq' = enq /\ req' = req
    BY <1>9, EmptySeq DEF BossJoin
  <2>2. \A t \in Threads : req'[t] <= enq' - Len(queue')
    BY <1>1, <2>1
  <2>3. QED
    BY <1>1, <2>1, <2>2 DEF FifoQueue
<1>10. ASSUME NEW t \in Threads, Lock(t) PROVE FifoQueue'
  BY <1>10, <1>2 DEF Lock
<1>11. ASSUME NEW t \in Threads, Wait(t) PROVE FifoQueue'
  BY <1>11, <1>2 DEF Wait
<1>12. ASSUME NEW t \in Threads, Reacquire(t) PROVE FifoQueue'
  BY <1>12, <1>2 DEF Reacquire
<1>13. ASSUME NEW t \in Threads, TakeRequest(t) PROVE FifoQueue'
  <2>1. /\ len > 0 /\ Len(queue') = len - 1 /\ DOMAIN queue' = 1 .. len - 1
        /\ \A k \in 1 .. len - 1 : queue'[k] = queue[k + 1]
    BY <1>13, <1>1, HeadTailProperties, LenProperties, EmptySeq DEF TakeRequest, len
  <2>2. enq' = enq /\ req' = [req EXCEPT ![t] = queue[1]]
    BY <1>13 DEF TakeRequest
  <2>3. queue[1] = enq - len + 1
    BY <1>1, <2>1
  <2>4. \A u \in Threads : req'[u] <= enq' - Len(queue')
    BY <1>1, <2>1, <2>2, <2>3
  <2>5. \A k \in 1 .. len - 1 : queue'[k] = enq' - Len(queue') + k
    BY <1>1, <2>1, <2>2
  <2>6. Len(queue') <= enq'
    BY <1>1, <2>1, <2>2
  <2>7. QED
    BY <2>1, <2>4, <2>5, <2>6 DEF FifoQueue
<1>14. ASSUME NEW t \in Threads, Unlock(t) PROVE FifoQueue'
  BY <1>14, <1>2 DEF Unlock
<1>15. ASSUME NEW t \in Threads, Finish(t) PROVE FifoQueue'
  BY <1>15, <1>2 DEF Finish
<1>16. ASSUME NEW t \in Threads, SpuriousWakeup(t) PROVE FifoQueue'
  BY <1>16, <1>2 DEF SpuriousWakeup
<1>17. ASSUME NEW t \in Threads, ExitProcess(t) PROVE FifoQueue'
  BY <1>17, <1>2 DEF ExitProcess
<1>18. ASSUME NEW t \in Threads, CreateFails(t) PROVE FifoQueue'
  BY <1>18, <1>2 DEF CreateFails
<1>19. ASSUME NEW t \in Threads, BossJoinMissing(t) PROVE FifoQueue'
  BY <1>19, <1>2 DEF BossJoinMissing
<1>20. CASE PathTooLong
  BY <1>20, <1>2 DEF PathTooLong
<1>21. CASE UNCHANGED poolVars
  BY <1>21, <1>2 DEF poolVars
<1>22. QED
  BY <1>3, <1>4, <1>5, <1>6, <1>7, <1>8, <1>9, <1>10, <1>11, <1>12,
     <1>13, <1>14, <1>15, <1>16, <1>17, <1>18, <1>19, <1>20, <1>21
  DEF PoolNext, BossStep, WorkerSync, PoolStutter

(* The queue is first in, first out, whatever the threads do: it holds     *)
(* consecutive requests, later than all those the workers hold.            *)
THEOREM PoolFifo == PoolSpec => []FifoQueue
<1>1. PoolInit => FifoQueue
  BY EmptySeq DEF PoolInit, FifoQueue
<1>2. QED
  BY <1>1, TypeInvInit, TypeInvNext, FifoNext, PTL DEF PoolSpec

(* A step in which a worker takes a request takes a later one than every   *)
(* request taken before: steque_pop hands each request out once.           *)
THEOREM PoolDispatchInOrder == PoolSpec => DispatchInOrder
<1>1. ASSUME TypeInv, FifoQueue, [PoolNext]_poolVars
      PROVE  [\A t, u \in Threads : req'[t] # req[t] => req'[t] > req[u]]_poolVars
  <2>1. SUFFICES ASSUME NEW t \in Threads, NEW u \in Threads, req'[t] # req[t]
                 PROVE  req'[t] > req[u]
    OBVIOUS
  <2>2. TakeRequest(t)
    BY <1>1, <2>1 DEF PoolNext, BossStep, Create, AllCreated, BossLock, BossEnqueue,
       BossSignal, BossUnlock, BossJoin, BossJoinMissing, CreateFails, PathTooLong,
       WorkerSync, Lock, Wait, Reacquire, TakeRequest, Unlock, Finish, SpuriousWakeup, ExitProcess, PoolStutter, poolVars,
       TypeInv, PoolTypeOK
  <2>3. /\ Len(queue) \in Nat /\ DOMAIN queue = 1 .. Len(queue) /\ Len(queue) > 0
        /\ req'[t] = queue[1]
    BY <1>1, <2>2, LenProperties, EmptySeq DEF TakeRequest, TypeInv, PoolTypeOK
  <2>4. enq \in Nat /\ req[u] \in Nat
    BY <1>1, TotalType DEF TypeInv, PoolTypeOK
  <2>5. queue[1] = enq - Len(queue) + 1 /\ req[u] <= enq - Len(queue)
    BY <1>1, <2>3 DEF FifoQueue
  <2>6. QED
    BY <2>3, <2>4, <2>5
<1>2. PoolInit => FifoQueue
  BY EmptySeq DEF PoolInit, FifoQueue
<1>3. QED
  BY <1>1, <1>2, TypeInvInit, TypeInvNext, FifoNext, PTL DEF PoolSpec, DispatchInOrder

-----------------------------------------------------------------------------
(* Taken(t) counts at most NumRequests iterations, all of them at the end. *)
LEMMA TakenType ==
  ASSUME TypeInv, NEW t \in Threads
  PROVE  /\ Taken(t) \in Nat
         /\ Taken(t) <= NumRequests
         /\ wpc[t] \in {"lock", "check", "wait"} => Taken(t) < NumRequests
         /\ wpc[t] = "done" => Taken(t) = NumRequests
<1>1. /\ wpc[t] \in WorkerStates /\ iter[t] \in 0 .. NumRequests
      /\ wpc[t] = "done" => iter[t] = NumRequests
      /\ wpc[t] \in {"lock", "check", "wait", "unlock", "busy"} => iter[t] < NumRequests
  BY NumRequestsAssumption
  DEF TypeInv, PoolTypeOK, LoopCounters, WorkerCounter
<1>2. QED
  BY <1>1, NumRequestsAssumption DEF Taken

(* Only steque_pop changes Taken: the end of an iteration moves the        *)
(* request from being performed to i.                                      *)
LEMMA TakenNext ==
  ASSUME TypeInv, [PoolNext]_poolVars, NEW u \in Threads, ~TakeRequest(u)
  PROVE  Taken(u)' = Taken(u)
<1> USE DEF Taken
<1>1. /\ wpc \in [Threads -> WorkerStates] /\ iter \in [Threads -> 0 .. NumRequests]
      /\ \A t \in Threads : wpc[t] \in {"unborn", "missing"} => iter[t] = 0
  BY DEF TypeInv, PoolTypeOK, LoopCounters, WorkerCounter
<1>2. ASSUME NEW t \in Threads, Create(t) PROVE Taken(u)' = Taken(u)
  BY <1>1, <1>2 DEF Create, WorkerLoop
<1>3. CASE AllCreated
  BY <1>1, <1>3 DEF AllCreated
<1>4. CASE BossLock
  BY <1>1, <1>4 DEF BossLock
<1>5. CASE BossEnqueue
  BY <1>1, <1>5 DEF BossEnqueue
<1>6. CASE BossSignal
  BY <1>1, <1>6 DEF BossSignal
<1>7. CASE BossUnlock
  BY <1>1, <1>7 DEF BossUnlock
<1>8. CASE BossJoin
  BY <1>1, <1>8 DEF BossJoin
<1>9. ASSUME NEW t \in Threads, Lock(t) PROVE Taken(u)' = Taken(u)
  BY <1>1, <1>9 DEF Lock
<1>10. ASSUME NEW t \in Threads, Wait(t) PROVE Taken(u)' = Taken(u)
  BY <1>1, <1>10 DEF Wait
<1>11. ASSUME NEW t \in Threads, Reacquire(t) PROVE Taken(u)' = Taken(u)
  BY <1>1, <1>11 DEF Reacquire
<1>12. ASSUME NEW t \in Threads, TakeRequest(t) PROVE Taken(u)' = Taken(u)
  BY <1>1, <1>12 DEF TakeRequest
<1>13. ASSUME NEW t \in Threads, Unlock(t) PROVE Taken(u)' = Taken(u)
  BY <1>1, <1>13 DEF Unlock
<1>14. ASSUME NEW t \in Threads, Finish(t) PROVE Taken(u)' = Taken(u)
  BY <1>1, <1>14, NumRequestsAssumption DEF Finish, WorkerLoop
<1>15. ASSUME NEW t \in Threads, SpuriousWakeup(t) PROVE Taken(u)' = Taken(u)
  BY <1>1, <1>15 DEF SpuriousWakeup
<1>16. ASSUME NEW t \in Threads, ExitProcess(t) PROVE Taken(u)' = Taken(u)
  BY <1>1, <1>16 DEF ExitProcess
<1>17. ASSUME NEW t \in Threads, CreateFails(t) PROVE Taken(u)' = Taken(u)
  BY <1>1, <1>17 DEF CreateFails
<1>18. ASSUME NEW t \in Threads, BossJoinMissing(t) PROVE Taken(u)' = Taken(u)
  BY <1>1, <1>18 DEF BossJoinMissing
<1>19. CASE PathTooLong
  BY <1>1, <1>19 DEF PathTooLong
<1>20. CASE UNCHANGED poolVars
  BY <1>1, <1>20 DEF poolVars
<1>21. QED
  BY <1>2, <1>3, <1>4, <1>5, <1>6, <1>7, <1>8, <1>9, <1>10, <1>11,
     <1>12, <1>13, <1>14, <1>15, <1>16, <1>17, <1>18, <1>19, <1>20
  DEF PoolNext, BossStep, WorkerSync, PoolStutter

(* A worker is missing from the failed pthread_create on.                  *)
LEMMA MissingNext ==
  ASSUME TypeInv, [PoolNext]_poolVars, NEW u \in Threads, ~CreateFails(u)
  PROVE  (wpc[u] = "missing")' <=> wpc[u] = "missing"
<1>1. wpc \in [Threads -> WorkerStates]
  BY DEF TypeInv, PoolTypeOK
<1>2. ASSUME NEW t \in Threads, WorkerSync(t) \/ Finish(t) \/ Create(t)
      PROVE  (wpc[u] = "missing")' <=> wpc[u] = "missing"
  BY <1>1, <1>2 DEF WorkerSync, Lock, Wait, Reacquire, TakeRequest, Unlock, Finish,
     Create, WorkerLoop
<1>3. ASSUME NEW t \in Threads, CreateFails(t)
      PROVE  (wpc[u] = "missing")' <=> wpc[u] = "missing"
  BY <1>1, <1>3 DEF CreateFails
<1>4. CASE wpc' = wpc
  BY <1>4
<1>5. QED
  BY <1>2, <1>3, <1>4 DEF PoolNext, BossStep, AllCreated, BossLock, BossEnqueue,
     BossSignal, BossUnlock, BossJoin, BossJoinMissing, PathTooLong, SpuriousWakeup,
     ExitProcess, PoolStutter, poolVars

(* steque_pop takes the next request of that worker and of no other.       *)
LEMMA TakenPop ==
  ASSUME TypeInv, NEW t \in Threads, TakeRequest(t)
  PROVE  /\ Taken(t)' = Taken(t) + 1
         /\ \A u \in Threads \ {t} : Taken(u)' = Taken(u)
         /\ Taken(t) < NumRequests
<1>1. wpc \in [Threads -> WorkerStates] /\ iter \in [Threads -> 0 .. NumRequests]
  BY DEF TypeInv, PoolTypeOK
<1>2. wpc' = [wpc EXCEPT ![t] = "unlock"] /\ iter' = iter /\ wpc[t] = "check"
  BY DEF TakeRequest
<1>3. QED
  BY <1>1, <1>2, TakenType, NumRequestsAssumption DEF Taken

(* The iterations are finitely many, one per request.                      *)
LEMMA SlotsFinite ==
  /\ IsFiniteSet(Slots) /\ Cardinality(Slots) \in Nat
  /\ Cardinality(Slots) = Total => Slots = Threads \X (1 .. NumRequests)
<1>1. /\ IsFiniteSet(1 .. NumRequests)
      /\ Cardinality(1 .. NumRequests) = NumRequests
  BY NumRequestsAssumption, FS_Interval
<1>2. /\ IsFiniteSet(Threads \X (1 .. NumRequests))
      /\ Cardinality(Threads \X (1 .. NumRequests)) = Cardinality(Threads) * NumRequests
  BY <1>1, ThreadsAssumption, FS_Product
<1>3. Cardinality(Threads) * NumRequests = Total
  BY NumRequestsAssumption, ThreadsAssumption, FS_CardinalityType DEF Total
<1>4. Slots \in SUBSET (Threads \X (1 .. NumRequests))
  BY DEF Slots
<1>5. QED
  BY <1>2, <1>3, <1>4, FS_Subset, FS_CardinalityType

(* Every step keeps the account: enqueued = queued + taken.                *)
LEMMA AccountingNext ==
  TypeInv /\ Accounting /\ [PoolNext]_poolVars => Accounting'
<1> SUFFICES ASSUME TypeInv, Accounting, [PoolNext]_poolVars, bpc' # "exited"
             PROVE  enq' = Cardinality(Slots)' + Len(queue)'
  BY DEF Accounting
<1>1. /\ queue \in Seq(Nat) /\ Len(queue) \in Nat /\ enq \in Nat
      /\ Cardinality(Slots) \in Nat
  BY LenProperties, TotalType, SlotsFinite DEF TypeInv, PoolTypeOK
<1>2. bpc # "exited" /\ enq = Cardinality(Slots) + Len(queue)
  BY DEF Accounting, PoolNext, BossStep, Create, AllCreated, BossLock, BossEnqueue,
     BossSignal, BossUnlock, BossJoin, BossJoinMissing, CreateFails, PathTooLong,
     WorkerSync, Lock, Wait, Reacquire, TakeRequest, Unlock, Finish, SpuriousWakeup, ExitProcess, PoolStutter, poolVars
<1>3. ASSUME \A t \in Threads : Taken(t)' = Taken(t)
      PROVE  Slots' = Slots
  BY <1>3 DEF Slots
<1>4. CASE \E t \in Threads : TakeRequest(t)
  <2>1. PICK t \in Threads : TakeRequest(t)
    BY <1>4
  <2>2. /\ Taken(t)' = Taken(t) + 1 /\ Taken(t) \in Nat /\ Taken(t) < NumRequests
        /\ \A u \in Threads \ {t} : Taken(u)' = Taken(u)
    BY <2>1, TakenPop, TakenType
  <2> DEFINE s == <<t, Taken(t) + 1>>
  <2>3. Slots' = Slots \cup {s} /\ s \notin Slots
    BY <2>2, NumRequestsAssumption DEF Slots
  <2>4. Cardinality(Slots)' = Cardinality(Slots) + 1
    BY <2>3, SlotsFinite, FS_AddElement
  <2>5. Len(queue') = Len(queue) - 1 /\ enq' = enq
    BY <2>1, <1>1, HeadTailProperties DEF TakeRequest
  <2>6. QED
    BY <1>1, <1>2, <2>4, <2>5
<1>5. CASE BossEnqueue
  <2>1. \A t \in Threads : Taken(t)' = Taken(t)
    BY <1>5 DEF BossEnqueue, Taken
  <2>2. Len(queue') = Len(queue) + 1 /\ enq' = enq + 1
    BY <1>5, <1>1, AppendProperties DEF BossEnqueue
  <2>3. QED
    BY <1>1, <1>2, <1>3, <2>1, <2>2
<1>6. CASE ~BossEnqueue /\ ~\E t \in Threads : TakeRequest(t)
  <2>1. queue' = queue /\ enq' = enq
    BY <1>6 DEF PoolNext, BossStep, Create, AllCreated, BossLock,
       BossSignal, BossUnlock, BossJoin, BossJoinMissing, CreateFails, PathTooLong,
       WorkerSync, Lock, Wait, Reacquire, Unlock, Finish, SpuriousWakeup, ExitProcess, PoolStutter, poolVars
  <2>2. \A t \in Threads : Taken(t)' = Taken(t)
    BY <1>6, TakenNext
  <2>3. QED
    BY <1>2, <1>3, <2>1, <2>2
<1>7. QED
  BY <1>4, <1>5, <1>6

LEMMA AccountingInit == PoolInit => Accounting
<1> SUFFICES ASSUME PoolInit PROVE Accounting
  OBVIOUS
<1>1. Slots = {}
  BY NumRequestsAssumption DEF PoolInit, Slots, Taken
<1>2. QED
  BY <1>1, FS_EmptySet, EmptySeq DEF PoolInit, Accounting

(* No request is lost or taken twice: each one enqueued is in the steque   *)
(* or belongs to exactly one iteration of one worker.                      *)
THEOREM PoolAccounting == PoolSpec => []Accounting
  BY AccountingInit, TypeInvInit, TypeInvNext, AccountingNext, PTL DEF PoolSpec

-----------------------------------------------------------------------------
(* A worker that is awake and wants one stays so, or goes to sleep, or     *)
(* takes one: the workers that serve the queue, and how many they are.     *)
Serving == Wanting \ sleeping

LEMMA ServingFinite ==
  /\ IsFiniteSet(Serving) /\ Cardinality(Serving) \in Nat
  /\ IsFiniteSet(Serving') /\ Cardinality(Serving') \in Nat
<1>1. Serving \in SUBSET Threads /\ Serving' \in SUBSET Threads
  BY DEF Serving, Wanting
<1>2. QED
  BY <1>1, ThreadsAssumption, FS_Subset, FS_CardinalityType

(* Every step keeps a serving worker for each queued request.              *)
LEMMA NoLostWakeupNext ==
  TypeInv /\ MutualExclusion /\ Accounting /\ NoLostWakeup /\ [PoolNext]_poolVars
    => NoLostWakeup'
<1> SUFFICES ASSUME TypeInv, MutualExclusion, Accounting, NoLostWakeup,
                    [PoolNext]_poolVars, sleeping' # {}
             PROVE  Len(queue') <= Cardinality(Serving')
                                   + (IF bpc' = "signal" THEN 1 ELSE 0)
  BY DEF NoLostWakeup, Serving
<1> DEFINE n == Cardinality(Serving)
           m == Cardinality(Serving')
<1>1. /\ queue \in Seq(Nat) /\ Len(queue) \in Nat
      /\ n \in Nat /\ m \in Nat
      /\ IsFiniteSet(Serving) /\ IsFiniteSet(Serving')
  BY LenProperties, ServingFinite DEF TypeInv, PoolTypeOK
<1>2. sleeping # {} => Len(queue) <= n + (IF bpc = "signal" THEN 1 ELSE 0)
  BY DEF NoLostWakeup, Serving
<1>3. ASSUME ~\E t \in Threads : TakeRequest(t) \/ CreateFails(t)
      PROVE  Wanting' = Wanting
  BY <1>3, TakenNext, MissingNext DEF Wanting
<1>4. CASE BossEnqueue
  <2>1. Serving' = Serving /\ sleeping' = sleeping
    BY <1>4, <1>3 DEF BossEnqueue, TakeRequest, CreateFails, Serving, Taken, Wanting
  <2>2. Len(queue') = Len(queue) + 1 /\ bpc = "enqueue" /\ bpc' = "signal"
    BY <1>4, <1>1, AppendProperties DEF BossEnqueue
  <2>3. QED
    BY <1>1, <1>2, <2>1, <2>2
<1>5. CASE BossSignal
  <2>1. PICK t \in sleeping : sleeping' = sleeping \ {t}
    BY <1>5 DEF BossSignal
  <2>2. t \in Threads /\ wpc[t] = "wait"
    BY DEF TypeInv, PoolTypeOK, MutualExclusion
  <2>3. Wanting' = Wanting /\ t \in Wanting
    BY <1>5, <2>2, TakenType DEF BossSignal, Wanting, Taken
  <2>4. Serving' = Serving \cup {t} /\ t \notin Serving
    BY <2>1, <2>3 DEF Serving
  <2>5. m = n + 1
    BY <2>4, <1>1, FS_AddElement
  <2>6. queue' = queue /\ bpc' # "signal"
    BY <1>5 DEF BossSignal
  <2>7. QED
    BY <1>1, <1>2, <2>1, <2>5, <2>6
<1>6. CASE BossJoin
  <2>1. Len(queue') = 0
    BY <1>6, EmptySeq DEF BossJoin
  <2>2. QED
    BY <1>1, <2>1
<1>7. ASSUME NEW t \in Threads, Wait(t)
      PROVE  Len(queue') <= m + (IF bpc' = "signal" THEN 1 ELSE 0)
  <2>1. Len(queue') = 0
    BY <1>7, EmptySeq DEF Wait
  <2>2. QED
    BY <1>1, <2>1
<1>8. ASSUME NEW t \in Threads, TakeRequest(t)
      PROVE  Len(queue') <= m + (IF bpc' = "signal" THEN 1 ELSE 0)
  <2>1. sleeping' = sleeping /\ bpc' = bpc /\ Len(queue') = Len(queue) - 1
    BY <1>8, <1>1, HeadTailProperties DEF TakeRequest
  <2>2. Serving \ {t} \in SUBSET Serving'
    <3>1. ASSUME NEW u \in Threads \ {t}
          PROVE  Taken(u)' = Taken(u) /\ ((wpc[u] = "missing")' <=> wpc[u] = "missing")
      <4>1. Taken(u)' = Taken(u)
        BY <1>8, TakenPop
      <4>2. wpc'[u] = wpc[u]
        BY <1>8 DEF TakeRequest, TypeInv, PoolTypeOK
      <4>3. QED
        BY <4>1, <4>2
    <3>2. QED
      BY <2>1, <3>1 DEF Serving, Wanting
  <2>3. n - 1 <= Cardinality(Serving \ {t}) /\ Cardinality(Serving \ {t}) \in Nat
    <3>1. /\ IsFiniteSet(Serving \ {t})
          /\ Cardinality(Serving \ {t}) = IF t \in Serving THEN n - 1 ELSE n
      BY <1>1, FS_RemoveElement
    <3>2. Cardinality(Serving \ {t}) \in Nat
      BY <3>1, FS_CardinalityType
    <3> HIDE DEF n
    <3>3. QED
      BY <1>1, <3>1, <3>2
  <2>4. Cardinality(Serving \ {t}) <= m
    BY <1>1, <2>2, FS_Subset
  <2>5. QED
    BY <1>1, <1>2, <2>1, <2>3, <2>4
<1>9. ASSUME NEW t \in Threads, SpuriousWakeup(t)
      PROVE  Len(queue') <= m + (IF bpc' = "signal" THEN 1 ELSE 0)
  <2>1. sleeping' = sleeping \ {t} /\ bpc' = bpc /\ queue' = queue /\ t \in sleeping
    BY <1>9 DEF SpuriousWakeup
  <2>2. Serving \in SUBSET Serving'
    BY <1>9, <2>1 DEF SpuriousWakeup, Serving, Wanting, Taken
  <2>3. n <= m
    BY <1>1, <2>2, FS_Subset
  <2>4. QED
    BY <1>1, <1>2, <2>1, <2>3
<1>10. ASSUME NEW t \in Threads, CreateFails(t)
       PROVE  Len(queue') <= m + (IF bpc' = "signal" THEN 1 ELSE 0)
  <2>1. bpc = "create" /\ queue' = queue /\ enq = 0 /\ Cardinality(Slots) \in Nat
    BY <1>10, SlotsFinite DEF CreateFails, TypeInv, LoopCounters, BossCounter
  <2>2. Len(queue') = 0
    BY <1>1, <2>1 DEF Accounting
  <2>3. QED
    BY <1>1, <2>2
<1>11. CASE ~BossEnqueue /\ ~BossSignal /\ ~BossJoin
            /\ ~\E t \in Threads : \/ Wait(t) \/ TakeRequest(t) \/ SpuriousWakeup(t)
                                  \/ CreateFails(t)
  <2>1. sleeping' = sleeping /\ queue' = queue
    BY <1>11 DEF PoolNext, BossStep, Create, AllCreated, BossLock, BossUnlock,
       BossJoinMissing, PathTooLong, WorkerSync, Lock, Reacquire, Unlock, Finish, ExitProcess, PoolStutter, poolVars
  <2>2. bpc = "signal" => bpc' = "signal"
    BY <1>11 DEF PoolNext, BossStep, Create, AllCreated, BossLock, BossUnlock,
       BossJoinMissing, PathTooLong, WorkerSync, Lock, Reacquire, Unlock, Finish, ExitProcess, PoolStutter, poolVars
  <2>3. Serving' = Serving
    BY <1>11, <1>3, <2>1 DEF Serving
  <2>4. QED
    BY <1>1, <1>2, <2>1, <2>2, <2>3
<1>12. QED
  BY <1>4, <1>5, <1>6, <1>7, <1>8, <1>9, <1>10, <1>11

(* The invariants together are inductive.                                  *)
PoolInv == TypeInv /\ MutualExclusion /\ Accounting /\ NoLostWakeup

THEOREM PoolInvariant == PoolSpec => []PoolInv
<1>1. PoolInit => PoolInv
  BY TypeInvInit, AccountingInit, HoldersAssumption
  DEF PoolInit, PoolInv, MutualExclusion, NoLostWakeup, Free, Boss
<1>2. PoolInv /\ [PoolNext]_poolVars => PoolInv'
  BY TypeInvNext, MutexNext, AccountingNext, NoLostWakeupNext DEF PoolInv
<1>3. QED
  BY <1>1, <1>2, PTL DEF PoolSpec

(* The signal after each enqueue loses no wakeup: while a worker sleeps,   *)
(* each queued request has a worker that is awake and will take one.       *)
THEOREM PoolNoLostWakeup == PoolSpec => []NoLostWakeup
<1>1. PoolInv => NoLostWakeup
  BY DEF PoolInv
<1>2. QED
  BY <1>1, PoolInvariant, PTL

(* main() never waits in pthread_join for workers that all sleep: if none  *)
(* is awake, all requests are enqueued and none is queued, so every        *)
(* iteration has its request and no worker is left to sleep.               *)
THEOREM PoolJoinNeverStuck == PoolSpec => []JoinNeverStuck
<1>1. ASSUME PoolInv PROVE JoinNeverStuck
  <2>1. SUFFICES ASSUME bpc = "join", NEW t \in Threads, ~Ended(t),
                        \A u \in Threads \ sleeping : Ended(u)
                 PROVE  FALSE
    BY DEF JoinNeverStuck
  <2>2. /\ queue \in Seq(Nat) /\ Len(queue) \in Nat
        /\ Total \in Nat /\ enq = Total /\ t \in sleeping
    BY <1>1, <2>1, TotalType, LenProperties
    DEF PoolInv, TypeInv, PoolTypeOK, LoopCounters, BossCounter
  <2>3. Serving = {}
    BY <1>1, <2>1, TakenType, NumRequestsAssumption DEF PoolInv, Serving, Wanting, Ended
  <2>4. Len(queue) = 0
    <3>1. Cardinality(Wanting \ sleeping) = 0 /\ sleeping # {} /\ bpc # "signal"
      BY <2>1, <2>2, <2>3, FS_EmptySet DEF Serving
    <3>2. NoLostWakeup
      BY <1>1 DEF PoolInv
    <3>3. QED
      BY <2>2, <3>1, <3>2 DEF NoLostWakeup
  <2>5. Slots = Threads \X (1 .. NumRequests)
    BY <1>1, <2>1, <2>2, <2>4, SlotsFinite DEF PoolInv, Accounting
  <2>6. Taken(t) < NumRequests /\ Taken(t) \in Nat
    BY <1>1, <2>2, TakenType DEF PoolInv, MutualExclusion
  <2>7. <<t, NumRequests>> \in Slots
    BY <2>5, <2>6, NumRequestsAssumption
  <2>8. QED
    BY <2>6, <2>7, NumRequestsAssumption DEF Slots
<1>2. QED
  BY <1>1, PoolInvariant, PTL

(***************************************************************************)
(* The client.                                                             *)
(***************************************************************************)

(* The body of the loop is invisible to the pool, but for its end and for  *)
(* a call of exit().                                                       *)
LEMMA StepsAreThePools == [DownloadNext]_downloadVars => [PoolNext]_poolVars
<1>1. SUFFICES ASSUME [DownloadNext]_downloadVars PROVE [PoolNext]_poolVars
  OBVIOUS
<1>2. CASE Elsewhere
  BY <1>2 DEF Elsewhere, PoolNext
<1>3. ASSUME NEW t \in Threads, Body(t) PROVE [PoolNext]_poolVars
  <2>1. CASE EndRequest(t)
    BY <2>1 DEF EndRequest, PoolNext
  <2>2. CASE ~EndRequest(t)
    BY <1>3, <2>2 DEF Body, LoadCounter, StoreCounter, OpenFile, Perform,
       UnlinkBroken, CheckStatus
  <2>3. QED
    BY <2>1, <2>2
<1>4. ASSUME NEW t \in Threads, Exit(t) PROVE [PoolNext]_poolVars
  BY <1>4 DEF Exit, PoolNext
<1>5. CASE UNCHANGED downloadVars
  BY <1>5 DEF downloadVars
<1>6. QED
  BY <1>1, <1>2, <1>3, <1>4, <1>5 DEF DownloadNext

(* The detailed client implements the worker pool: a worker that performs  *)
(* its request is the pool's busy worker (gfclient_download.c:143-168).    *)
THEOREM DownloadImplementsPool == DownloadSpec => PoolSpec
<1>1. DownloadInit => PoolInit
  BY DEF DownloadInit
<1>2. QED
  BY <1>1, StepsAreThePools, PTL DEF DownloadSpec, PoolSpec

(* In the whole client too, no wakeup is lost and main() is never stuck in *)
(* pthread_join.                                                           *)
THEOREM DownloadNeverStuck == DownloadSpec => [](NoLostWakeup /\ JoinNeverStuck)
  BY DownloadImplementsPool, PoolNoLostWakeup, PoolJoinNeverStuck, PTL

-----------------------------------------------------------------------------
(* Requests with paths of their own.                                       *)
(* The workload has a path of its own for every request.                   *)
OwnPaths == Total <= NumPaths

Active == {"unlock", "busy"}
Untaken(r) == \A u \in Threads : req[u] < r

Has(r, n) == n \in DOMAIN dir /\ r \in dir[n]

(* A request's file is there and its own; or no file is the request's.     *)
Kept(r) == \E n \in DOMAIN dir : n[1] = Path(r) /\ dir[n] = {r}
Gone(r) == \A n \in DOMAIN dir : r \notin dir[n]

(* A worker holds a request of its own, and none outside of the loop body. *)
Holding ==
  /\ \A t, u \in Threads : t # u /\ req[t] = req[u] => req[t] = 0
  /\ \A t \in Threads : wpc[t] \in Active => req[t] \in Requests
  /\ \A t \in Threads : wpc[t] # "busy" => stage[t] = "load"

(* A file is one request's, and its name begins with that request's path.  *)
Files == \A n \in DOMAIN dir : \E r \in Requests : dir[n] = {r} /\ n[1] = Path(r)

Settled ==
  \A r \in Requests :
    /\ outcome[r] = "ok" => Kept(r)
    /\ outcome[r] \in {"rejected", "broken"} =>
         \/ Gone(r)
         \/ \E t \in Threads : wpc[t] = "busy" /\ req[t] = r /\ stage[t] \in {"unlink", "check"}
    /\ Untaken(r) => outcome[r] = "none" /\ Gone(r)

(* What the worker t knows of the file it works on.                        *)
Working(t) ==
  /\ wpc[t] = "unlock" \/ (wpc[t] = "busy" /\ stage[t] \in {"load", "store", "open"}) =>
       outcome[req[t]] = "none" /\ Gone(req[t])
  /\ wpc[t] = "busy" /\ stage[t] \in {"open", "perform", "unlink", "check"} =>
       local[t][1] = Path(req[t])
  /\ wpc[t] = "busy" /\ stage[t] \in {"perform", "unlink", "check"} =>
       \A n \in DOMAIN dir : req[t] \in dir[n] => n = local[t]
  /\ wpc[t] = "busy" /\ stage[t] = "perform" => outcome[req[t]] = "none" /\ local[t] \in DOMAIN dir
  /\ wpc[t] = "busy" /\ stage[t] = "unlink" => outcome[req[t]] = "broken"
  /\ wpc[t] = "busy" /\ stage[t] \in {"check", "end"} => outcome[req[t]] # "none"

BodyTyped ==
  /\ stage \in [Threads -> Stages] /\ outcome \in [Requests -> Outcomes]
  /\ local \in [Threads -> Names] /\ seen \in [Threads -> Nat] /\ counter \in Nat

BodyInv == BodyTyped /\ Holding /\ Files /\ Settled /\ \A t \in Threads : Working(t)

LEMMA PathsDiffer ==
  ASSUME OwnPaths, NEW r \in Requests, NEW s \in Requests, Path(r) = Path(s)
  PROVE  r = s
<1>1. NumPaths \in Nat \ {0} /\ Total \in Nat
  BY NumPathsAssumption, TotalType
<1>2. r - 1 \in 0 .. NumPaths - 1 /\ s - 1 \in 0 .. NumPaths - 1
  BY <1>1 DEF OwnPaths, Requests
<1>3. \A m \in Nat \ {0} : \A a \in 0 .. m - 1 : (a % m) = a
  OBVIOUS
<1>4. ((r - 1) % NumPaths) = r - 1 /\ ((s - 1) % NumPaths) = s - 1
  BY <1>1, <1>2, <1>3
<1>5. r - 1 = s - 1
  BY <1>4 DEF Path
<1>6. QED
  BY <1>1, <1>5 DEF Requests

(* A step of the body of a worker, which touches no request but its own.   *)
LEMMA BodyStep ==
  ASSUME OwnPaths, BodyInv, NEW t \in Threads, wpc[t] = "busy", req' = req,
         \A u \in Threads \ {t} : wpc'[u] = wpc[u] /\ stage'[u] = stage[u] /\ local'[u] = local[u],
         BodyTyped', Files', wpc'[t] \notin {"busy", "unlock"} => stage'[t] = "load", wpc'[t] # "unlock",
         \A r \in Requests \ {req[t]} : outcome'[r] = outcome[r] /\ \A n : Has(r, n)' <=> Has(r, n),
         outcome'[req[t]] = "ok" => Kept(req[t])',
         outcome'[req[t]] \in {"rejected", "broken"} =>
           Gone(req[t])' \/ (wpc'[t] = "busy" /\ stage'[t] \in {"unlink", "check"}),
         Working(t)'
  PROVE  BodyInv'
<1>1. /\ req[t] \in Requests /\ req[t] # 0 /\ 0 \notin Requests
      /\ \A u \in Threads \ {t} : req[u] # req[t]
      /\ \A u \in Threads \ {t} : wpc[u] \in Active => req[u] \in Requests \ {req[t]}
  <2>1. 0 \notin Requests
    BY TotalType DEF Requests
  <2>2. QED
    BY <2>1 DEF BodyInv, Holding, Active
<1>2. Holding'
  BY DEF BodyInv, Holding, Active
<1>3. \A r \in Requests : Path(r)' = Path(r)
  BY DEF Path
<1>4. ASSUME NEW r \in Requests \ {req[t]} PROVE (Kept(r) => Kept(r)') /\ (Gone(r) => Gone(r)')
  <2>1. ASSUME Kept(r) PROVE Kept(r)'
    <3>1. PICK n \in DOMAIN dir : dir[n] = {r}
      BY <2>1 DEF Kept
    <3>2. Has(r, n)'
      BY <3>1 DEF Has
    <3>3. QED
      BY <3>2 DEF Files, Has, Kept
  <2>2. Gone(r) => Gone(r)'
    BY DEF Gone, Has
  <2>3. QED
    BY <2>1, <2>2
<1>5. Settled'
  <2>1. SUFFICES ASSUME NEW r \in Requests
        PROVE /\ outcome'[r] = "ok" => Kept(r)'
              /\ outcome'[r] \in {"rejected", "broken"} =>
                   \/ Gone(r)'
                   \/ \E u \in Threads : wpc'[u] = "busy" /\ req'[u] = r /\ stage'[u] \in {"unlink", "check"}
              /\ Untaken(r)' => outcome'[r] = "none" /\ Gone(r)'
    BY DEF Settled
  <2>2. CASE r = req[t]
    <3>1. ~Untaken(r)'
      <4>1. r \in Nat
        BY TotalType DEF Requests
      <4>2. QED
        BY <2>2, <4>1 DEF Untaken
    <3>2. QED
      BY <2>2, <3>1
  <2>3. CASE r # req[t]
    <3>1. Untaken(r)' => Untaken(r)
      BY DEF Untaken
    <3>2. /\ outcome[r] = "ok" => Kept(r)
          /\ outcome[r] \in {"rejected", "broken"} =>
               \/ Gone(r)
               \/ \E u \in Threads : wpc[u] = "busy" /\ req[u] = r /\ stage[u] \in {"unlink", "check"}
          /\ Untaken(r) => outcome[r] = "none" /\ Gone(r)
      BY DEF BodyInv, Settled
    <3>3. (\E u \in Threads : wpc[u] = "busy" /\ req[u] = r /\ stage[u] \in {"unlink", "check"}) =>
             \E u \in Threads : wpc'[u] = "busy" /\ req'[u] = r /\ stage'[u] \in {"unlink", "check"}
      BY <2>3
    <3>4. outcome'[r] = outcome[r]
      BY <2>3
    <3>5. QED
      BY <1>4, <2>3, <3>1, <3>2, <3>3, <3>4
  <2>4. QED
    BY <2>2, <2>3
<1>6. ASSUME NEW u \in Threads \ {t} PROVE Working(u)'
  <2>1. CASE wpc[u] \in Active
    <3>1. req[u] \in Requests \ {req[t]} /\ outcome'[req[u]] = outcome[req[u]]
      BY <1>1, <2>1
    <3>2. Gone(req[u]) => Gone(req[u])'
      BY <1>4, <3>1
    <3>3. \A n \in DOMAIN dir' : req[u] \in dir'[n] => n \in DOMAIN dir /\ req[u] \in dir[n]
      BY <3>1 DEF Has
    <3>4. Working(u) /\ req'[u] = req[u] /\ wpc'[u] = wpc[u] /\ stage'[u] = stage[u] /\ local'[u] = local[u]
      BY DEF BodyInv
    <3>5. wpc[u] = "busy" /\ stage[u] = "perform" => local[u] \in DOMAIN dir'
      <4>1. SUFFICES ASSUME wpc[u] = "busy", stage[u] = "perform" PROVE local[u] \in DOMAIN dir'
        OBVIOUS
      <4>2. local[u] \in DOMAIN dir /\ local[u][1] = Path(req[u])
        BY <3>4, <4>1 DEF Working
      <4>3. PICK r \in Requests : dir[local[u]] = {r} /\ local[u][1] = Path(r)
        BY <4>2 DEF BodyInv, Files
      <4>4. r = req[u]
        BY <3>1, <4>2, <4>3, PathsDiffer
      <4>5. Has(req[u], local[u])
        BY <4>2, <4>3, <4>4 DEF Has
      <4>6. QED
        BY <3>1, <4>5 DEF Has
    <3>6. Path(req[u])' = Path(req[u])
      BY <3>4 DEF Path
    <3>7. QED
      BY <3>1, <3>2, <3>3, <3>4, <3>5, <3>6 DEF Working
  <2>2. CASE wpc[u] \notin Active
    BY <2>2 DEF Working, Active
  <2>3. QED
    BY <2>1, <2>2
<1>7. QED
  BY <1>2, <1>5, <1>6 DEF BodyInv

LEMMA SameFiles ==
  ASSUME dir' = dir
  PROVE  /\ Files => Files'
         /\ \A r : (Kept(r) => Kept(r)') /\ (Gone(r) => Gone(r)') /\ \A n : Has(r, n)' <=> Has(r, n)
<1>1. Files => Files'
  BY DEF Files, Path
<1>2. ASSUME NEW r PROVE (Kept(r) => Kept(r)') /\ (Gone(r) => Gone(r)') /\ \A n : Has(r, n)' <=> Has(r, n)
  <2>1. Path(r)' = Path(r)
    BY DEF Path
  <2>2. QED
    BY <2>1 DEF Kept, Gone, Has
<1>3. QED
  BY <1>1, <1>2

(* A step that changes neither the files nor what became of the requests.  *)
LEMMA QuietStep ==
  ASSUME OwnPaths, BodyInv, NEW t \in Threads, wpc[t] = "busy", req' = req, dir' = dir, outcome' = outcome,
         \A u \in Threads \ {t} : wpc'[u] = wpc[u] /\ stage'[u] = stage[u] /\ local'[u] = local[u],
         BodyTyped', wpc'[t] \notin {"busy", "unlock"} => stage'[t] = "load", wpc'[t] # "unlock",
         stage[t] \notin {"unlink", "check"},
         Working(t)'
  PROVE  BodyInv'
<1>1. req[t] \in Requests
  BY DEF BodyInv, Holding, Active
<1>2. outcome[req[t]] = "ok" => Kept(req[t])'
  BY <1>1, SameFiles DEF BodyInv, Settled
<1>3. outcome[req[t]] \in {"rejected", "broken"} => Gone(req[t])'
  <2>1. SUFFICES ASSUME outcome[req[t]] \in {"rejected", "broken"} PROVE Gone(req[t])
    BY SameFiles
  <2>2. \A u \in Threads : req[u] = req[t] => u = t
    <3>1. req[t] # 0
      BY <1>1, TotalType DEF Requests
    <3>2. QED
      BY <3>1 DEF BodyInv, Holding
  <2>3. QED
    BY <1>1, <2>1, <2>2 DEF BodyInv, Settled
<1>4. Files' /\ \A r \in Requests \ {req[t]} : \A n : Has(r, n)' <=> Has(r, n)
  BY SameFiles DEF BodyInv
<1>5. QED
  BY <1>2, <1>3, <1>4, BodyStep

LEMMA CounterSteps ==
  ASSUME OwnPaths, BodyInv, NEW t \in Threads, LoadCounter(t) \/ StoreCounter(t)
  PROVE  BodyInv'
<1>1. /\ wpc[t] = "busy" /\ stage[t] \in {"load", "store"} /\ wpc' = wpc /\ req' = req
      /\ dir' = dir /\ outcome' = outcome
  BY DEF LoadCounter, StoreCounter, At, poolVars
<1>2. outcome[req[t]] = "none" /\ Gone(req[t]) /\ req[t] \in Requests
  BY <1>1 DEF BodyInv, Working, Holding, Active
<1>3. Gone(req[t])' /\ Path(req[t])' = Path(req[t])
  BY <1>1, <1>2 DEF Gone, Path
<1>4. CASE LoadCounter(t)
  <2>1. /\ seen' = [seen EXCEPT ![t] = counter] /\ stage' = [stage EXCEPT ![t] = "store"]
        /\ local' = local /\ counter' = counter
    BY <1>4 DEF LoadCounter, Goto
  <2>2. BodyTyped' /\ stage'[t] = "store" /\ \A u \in Threads \ {t} : stage'[u] = stage[u]
    BY <1>1, <2>1 DEF BodyInv, BodyTyped, Stages
  <2>3. Working(t)'
    BY <1>1, <1>2, <1>3, <2>2 DEF Working
  <2>4. QED
    BY <1>1, <2>1, <2>2, <2>3, QuietStep
<1>5. CASE StoreCounter(t)
  <2>1. /\ seen' = seen /\ stage' = [stage EXCEPT ![t] = "open"] /\ counter' = seen[t] + 1
        /\ local' = [local EXCEPT ![t] = <<Path(req[t]), seen[t]>>]
    BY <1>5 DEF StoreCounter, Goto
  <2>2. Path(req[t]) \in 0 .. NumPaths - 1
    <3>1. req[t] - 1 \in Int
      BY <1>2, TotalType DEF Requests
    <3>2. \A m \in Nat \ {0} : \A a \in Int : (a % m) \in 0 .. m - 1
      OBVIOUS
    <3>3. QED
      BY <3>1, <3>2, NumPathsAssumption DEF Path
  <2>3. <<Path(req[t]), seen[t]>> \in Names /\ seen[t] \in Nat
    BY <2>2 DEF BodyInv, BodyTyped, Names
  <2>4. /\ BodyTyped' /\ stage'[t] = "open" /\ local'[t] = <<Path(req[t]), seen[t]>>
        /\ \A u \in Threads \ {t} : stage'[u] = stage[u] /\ local'[u] = local[u]
    BY <1>1, <2>1, <2>3 DEF BodyInv, BodyTyped, Stages
  <2>5. Working(t)'
    BY <1>1, <1>2, <1>3, <2>4 DEF Working
  <2>6. QED
    BY <1>1, <2>4, <2>5, QuietStep
<1>6. QED
  BY <1>4, <1>5

(* No file has the name yet, for its path is the request's own.            *)
LEMMA OpenStep ==
  ASSUME OwnPaths, BodyInv, NEW t \in Threads, OpenFile(t)
  PROVE  BodyInv'
<1> DEFINE n == local[t]
<1>1. /\ wpc[t] = "busy" /\ stage[t] = "open" /\ wpc' = wpc /\ req' = req
      /\ local' = local /\ outcome' = outcome /\ seen' = seen /\ counter' = counter
      /\ stage' = [stage EXCEPT ![t] = "perform"]
      /\ dir' = [m \in DOMAIN dir \cup {n} |->
                   (IF m \in DOMAIN dir THEN dir[m] ELSE {}) \cup (IF m = n THEN {req[t]} ELSE {})]
  BY DEF OpenFile, At, Goto, poolVars
<1>2. outcome[req[t]] = "none" /\ Gone(req[t]) /\ req[t] \in Requests /\ n[1] = Path(req[t])
  BY <1>1 DEF BodyInv, Working, Holding, Active
<1>3. n \notin DOMAIN dir
  <2>1. SUFFICES ASSUME n \in DOMAIN dir PROVE FALSE
    OBVIOUS
  <2>2. PICK r \in Requests : dir[n] = {r} /\ n[1] = Path(r)
    BY <2>1 DEF BodyInv, Files
  <2>3. r = req[t]
    BY <1>2, <2>2, PathsDiffer
  <2>4. QED
    BY <1>2, <2>1, <2>2, <2>3 DEF Gone
<1> HIDE DEF n
<1>4. /\ DOMAIN dir' = DOMAIN dir \cup {n} /\ dir'[n] = {req[t]}
      /\ \A m \in DOMAIN dir : m # n /\ dir'[m] = dir[m]
  BY <1>1, <1>3
<1>5. \A r : Path(r)' = Path(r)
  BY DEF Path
<1>6. Files'
  BY <1>2, <1>4, <1>5 DEF BodyInv, Files
<1>7. \A r \in Requests \ {req[t]} : \A m : Has(r, m)' <=> Has(r, m)
  BY <1>3, <1>4 DEF Has
<1>8. /\ BodyTyped' /\ stage'[t] = "perform" /\ \A u \in Threads \ {t} : stage'[u] = stage[u]
  BY <1>1 DEF BodyInv, BodyTyped, Stages
<1>9. \A m \in DOMAIN dir' : req[t] \in dir'[m] => m = n
  BY <1>2, <1>4 DEF Gone
<1>10. Working(t)'
  BY <1>1, <1>2, <1>4, <1>5, <1>8, <1>9 DEF Working, n
<1>11. QED
  BY <1>1, <1>2, <1>6, <1>7, <1>8, <1>10, BodyStep

LEMMA PerformStep ==
  ASSUME OwnPaths, BodyInv, NEW t \in Threads, Perform(t)
  PROVE  BodyInv'
<1>1. PICK o \in Outcomes \ {"none"} :
        /\ outcome' = [outcome EXCEPT ![req[t]] = o]
        /\ stage' = [stage EXCEPT ![t] = IF o = "broken" THEN "unlink" ELSE "check"]
  BY DEF Perform, Goto
<1>2. /\ wpc[t] = "busy" /\ stage[t] = "perform" /\ wpc' = wpc /\ req' = req
      /\ local' = local /\ dir' = dir /\ seen' = seen /\ counter' = counter
  BY DEF Perform, At, poolVars
<1>3. /\ req[t] \in Requests /\ local[t][1] = Path(req[t]) /\ local[t] \in DOMAIN dir
      /\ \A n \in DOMAIN dir : req[t] \in dir[n] => n = local[t]
  BY <1>2 DEF BodyInv, Working, Holding, Active
<1>4. dir[local[t]] = {req[t]}
  <2>1. PICK r \in Requests : dir[local[t]] = {r} /\ local[t][1] = Path(r)
    BY <1>3 DEF BodyInv, Files
  <2>2. r = req[t]
    BY <1>3, <2>1, PathsDiffer
  <2>3. QED
    BY <2>1, <2>2
<1>5. /\ BodyTyped' /\ outcome'[req[t]] = o /\ o \in {"ok", "rejected", "broken"}
      /\ stage'[t] = (IF o = "broken" THEN "unlink" ELSE "check")
      /\ \A u \in Threads \ {t} : stage'[u] = stage[u]
      /\ \A r \in Requests \ {req[t]} : outcome'[r] = outcome[r]
  BY <1>1, <1>2, <1>3 DEF BodyInv, BodyTyped, Stages, Outcomes
<1>6. Kept(req[t])'
  <2>1. Kept(req[t])
    BY <1>3, <1>4 DEF Kept
  <2>2. QED
    BY <1>2, <2>1, SameFiles
<1>7. Files' /\ \A r \in Requests \ {req[t]} : \A n : Has(r, n)' <=> Has(r, n)
  BY <1>2, SameFiles DEF BodyInv
<1>8. Path(req[t])' = Path(req[t])
  BY <1>2 DEF Path
<1>9. Working(t)'
  BY <1>2, <1>3, <1>5, <1>8 DEF Working
<1>10. QED
  BY <1>2, <1>5, <1>6, <1>7, <1>9, BodyStep

(* unlink() takes the request's own file, if there is one, and no other.   *)
LEMMA RemoveStep ==
  ASSUME OwnPaths, BodyInv, NEW t \in Threads, wpc[t] = "busy", stage[t] \in {"unlink", "check"},
         wpc' = wpc, req' = req, local' = local, outcome' = outcome, seen' = seen, counter' = counter,
         dir' = Remove(local[t]), outcome[req[t]] # "ok",
         NEW s \in {"check", "end"}, stage' = [stage EXCEPT ![t] = s]
  PROVE  BodyInv'
<1>1. /\ req[t] \in Requests /\ local[t][1] = Path(req[t]) /\ outcome[req[t]] # "none"
      /\ \A n \in DOMAIN dir : req[t] \in dir[n] => n = local[t]
  BY DEF BodyInv, Working, Holding, Active
<1>2. DOMAIN dir' = DOMAIN dir \ {local[t]} /\ \A n \in DOMAIN dir' : dir'[n] = dir[n]
  BY DEF Remove
<1>3. local[t] \in DOMAIN dir => dir[local[t]] = {req[t]}
  <2>1. SUFFICES ASSUME local[t] \in DOMAIN dir PROVE dir[local[t]] = {req[t]}
    OBVIOUS
  <2>2. PICK r \in Requests : dir[local[t]] = {r} /\ local[t][1] = Path(r)
    BY <2>1 DEF BodyInv, Files
  <2>3. r = req[t]
    BY <1>1, <2>2, PathsDiffer
  <2>4. QED
    BY <2>2, <2>3
<1>4. Gone(req[t])'
  BY <1>1, <1>2 DEF Gone
<1>5. \A r : Path(r)' = Path(r)
  BY DEF Path
<1>6. Files'
  BY <1>2, <1>5 DEF BodyInv, Files
<1>7. \A r \in Requests \ {req[t]} : \A n : Has(r, n)' <=> Has(r, n)
  BY <1>2, <1>3 DEF Has
<1>8. BodyTyped' /\ stage'[t] = s /\ \A u \in Threads \ {t} : stage'[u] = stage[u]
  BY DEF BodyInv, BodyTyped, Stages
<1>9. Working(t)'
  BY <1>1, <1>4, <1>5, <1>8 DEF Working, Gone
<1>10. QED
  BY <1>4, <1>6, <1>7, <1>8, <1>9, BodyStep

LEMMA BodyKept ==
  ASSUME OwnPaths, TypeInv, BodyInv, NEW t \in Threads, Body(t)
  PROVE  BodyInv'
<1>1. CASE UnlinkBroken(t)
  <2>1. /\ wpc[t] = "busy" /\ stage[t] = "unlink" /\ wpc' = wpc /\ req' = req /\ local' = local
        /\ outcome' = outcome /\ seen' = seen /\ counter' = counter /\ dir' = Remove(local[t])
        /\ stage' = [stage EXCEPT ![t] = "check"]
    BY <1>1 DEF UnlinkBroken, At, Goto, poolVars
  <2>2. outcome[req[t]] # "ok"
    BY <2>1 DEF BodyInv, Working
  <2>3. QED
    BY <2>1, <2>2, RemoveStep
<1>2. CASE CheckStatus(t)
  <2>1. /\ wpc[t] = "busy" /\ stage[t] = "check" /\ wpc' = wpc /\ req' = req /\ local' = local
        /\ outcome' = outcome /\ seen' = seen /\ counter' = counter
        /\ dir' = IF outcome[req[t]] = "ok" THEN dir ELSE Remove(local[t])
        /\ stage' = [stage EXCEPT ![t] = "end"]
    BY <1>2 DEF CheckStatus, At, Goto, poolVars
  <2>2. CASE outcome[req[t]] # "ok"
    BY <2>1, <2>2, RemoveStep
  <2>3. CASE outcome[req[t]] = "ok"
    <3>1. dir' = dir
      BY <2>1, <2>3
    <3>2. req[t] \in Requests
      BY <2>1 DEF BodyInv, Holding, Active
    <3>3. Kept(req[t])'
      <4>1. Kept(req[t])
        BY <2>3, <3>2 DEF BodyInv, Settled
      <4>2. QED
        BY <2>1, <3>1, <4>1, SameFiles
    <3>4. Files' /\ \A r \in Requests \ {req[t]} : \A n : Has(r, n)' <=> Has(r, n)
      BY <3>1, SameFiles DEF BodyInv
    <3>5. BodyTyped' /\ stage'[t] = "end" /\ \A u \in Threads \ {t} : stage'[u] = stage[u]
      BY <2>1 DEF BodyInv, BodyTyped, Stages
    <3>6. Working(t)'
      BY <2>1, <2>3, <3>5 DEF Working
    <3>7. QED
      BY <2>1, <2>3, <3>3, <3>4, <3>5, <3>6, BodyStep
  <2>4. QED
    BY <2>2, <2>3
<1>3. CASE EndRequest(t)
  <2>1. /\ wpc[t] = "busy" /\ stage[t] = "end" /\ req' = req /\ local' = local /\ dir' = dir
        /\ outcome' = outcome /\ seen' = seen /\ counter' = counter
        /\ stage' = [stage EXCEPT ![t] = "load"]
        /\ wpc' = [wpc EXCEPT ![t] = WorkerLoop(iter[t] + 1)]
    BY <1>3 DEF EndRequest, Finish, At, Goto
  <2>2. WorkerLoop(iter[t] + 1) \in {"lock", "done"}
    BY DEF WorkerLoop
  <2>3. /\ BodyTyped' /\ stage'[t] = "load"
        /\ \A u \in Threads \ {t} : stage'[u] = stage[u] /\ wpc'[u] = wpc[u]
    BY <2>1 DEF BodyInv, BodyTyped, Stages
  <2>4. wpc'[t] \notin {"busy", "unlock"}
    <3>1. t \in DOMAIN wpc
      BY DEF TypeInv, PoolTypeOK
    <3>2. QED
      BY <2>1, <2>2, <3>1
  <2>5. Working(t)'
    BY <2>4 DEF Working
  <2>6. QED
    BY <2>1, <2>3, <2>4, <2>5, QuietStep
<1>4. QED
  BY <1>1, <1>2, <1>3, CounterSteps, OpenStep, PerformStep DEF Body

(* The pool's steps: a worker that pops a request holds one nobody held.   *)
LEMMA BodiesAlone ==
  ASSUME BodyInv, UNCHANGED bodyVars, req' = req,
         \A u \in Threads :
           \/ wpc'[u] = wpc[u]
           \/ wpc[u] \notin Active /\ wpc'[u] \notin Active
           \/ wpc[u] = "unlock" /\ wpc'[u] = "busy"
  PROVE  BodyInv'
<1> USE DEF bodyVars
<1>1. BodyTyped' /\ Holding' /\ Files'
  BY SameFiles DEF BodyInv, BodyTyped, Holding, Active
<1>2. Settled'
  <2>1. \A r \in Requests : (Kept(r) => Kept(r)') /\ (Gone(r) => Gone(r)') /\ (Untaken(r)' => Untaken(r))
    BY SameFiles DEF Untaken
  <2>2. \A t \in Threads : wpc[t] = "busy" => wpc'[t] = "busy"
    BY DEF Active
  <2>3. QED
    BY <2>1, <2>2 DEF BodyInv, Settled
<1>3. ASSUME NEW t \in Threads PROVE Working(t)'
  <2>1. Gone(req[t]) => Gone(req[t])'
    BY SameFiles
  <2>2. Path(req[t])' = Path(req[t])
    BY DEF Path
  <2>3. CASE wpc'[t] = wpc[t]
    BY <2>1, <2>2, <2>3 DEF BodyInv, Working
  <2>4. CASE wpc'[t] \notin Active
    BY <2>4 DEF Working, Active
  <2>5. CASE wpc[t] = "unlock" /\ wpc'[t] = "busy"
    <3>1. stage[t] = "load"
      BY <2>5 DEF BodyInv, Holding
    <3>2. QED
      BY <2>1, <2>5, <3>1 DEF BodyInv, Working
  <2>6. QED
    BY <2>3, <2>4, <2>5
<1>4. QED
  BY <1>1, <1>2, <1>3 DEF BodyInv

LEMMA PopKeeps ==
  ASSUME TypeInv, FifoQueue, BodyInv, NEW t \in Threads, TakeRequest(t), UNCHANGED bodyVars
  PROVE  BodyInv'
<1> USE DEF bodyVars
<1>1. /\ queue # <<>> /\ req' = [req EXCEPT ![t] = Head(queue)] /\ wpc' = [wpc EXCEPT ![t] = "unlock"]
      /\ wpc[t] = "check"
  BY DEF TakeRequest
<1>2. /\ req \in [Threads -> Nat] /\ wpc \in [Threads -> WorkerStates]
      /\ queue \in Seq(Nat) /\ enq \in 0 .. Total /\ Total \in Nat
  BY TotalType DEF TypeInv, PoolTypeOK
<1>3. /\ Len(queue) \in Nat /\ Len(queue) > 0 /\ DOMAIN queue = 1 .. Len(queue) /\ Head(queue) = queue[1]
  BY <1>1, <1>2, LenProperties, HeadTailProperties, EmptySeq
<1>4. Head(queue) = enq - Len(queue) + 1 /\ Len(queue) <= enq /\ \A u \in Threads : req[u] <= enq - Len(queue)
  BY <1>3 DEF FifoQueue
<1>5. Head(queue) \in Requests /\ Untaken(Head(queue)) /\ Head(queue) # 0
  BY <1>2, <1>3, <1>4 DEF Requests, Untaken
<1>6. outcome[Head(queue)] = "none" /\ Gone(Head(queue))
  BY <1>5 DEF BodyInv, Settled
<1>7. /\ req'[t] = Head(queue) /\ wpc'[t] = "unlock"
      /\ \A u \in Threads \ {t} : req'[u] = req[u] /\ wpc'[u] = wpc[u] /\ req[u] # Head(queue)
  BY <1>1, <1>2, <1>5 DEF Untaken
<1>8. BodyTyped' /\ Files'
  BY SameFiles DEF BodyInv, BodyTyped
<1>9. Holding'
  BY <1>1, <1>5, <1>7 DEF BodyInv, Holding, Active
<1>10. Settled'
  <2>1. \A r \in Requests : (Kept(r) => Kept(r)') /\ (Gone(r) => Gone(r)')
    BY SameFiles
  <2>2. \A r \in Requests : Untaken(r)' => Untaken(r)
    <3>1. req[t] <= Head(queue) /\ Requests \subseteq Nat
      BY <1>2, <1>5 DEF Untaken, Requests
    <3>2. \A u \in Threads : req[u] <= req'[u]
      BY <1>2, <1>7, <3>1
    <3>3. \A u \in Threads : req'[u] \in Nat
      BY <1>2, <1>5, <1>7, <3>1
    <3>4. QED
      BY <1>2, <3>1, <3>2, <3>3 DEF Untaken
  <2>3. \A u \in Threads : wpc[u] = "busy" => wpc'[u] = "busy" /\ req'[u] = req[u]
    BY <1>1, <1>7
  <2>4. QED
    BY <2>1, <2>2, <2>3 DEF BodyInv, Settled
<1>11. ASSUME NEW u \in Threads PROVE Working(u)'
  <2>1. CASE u = t
    <3>1. Gone(req[u])' /\ outcome'[req'[u]] = "none" /\ wpc'[u] = "unlock"
      BY <1>6, <1>7, <2>1 DEF Gone
    <3>2. QED
      BY <3>1 DEF Working
  <2>2. CASE u # t
    <3>1. Working(u) /\ req'[u] = req[u] /\ wpc'[u] = wpc[u]
      BY <1>7, <2>2 DEF BodyInv
    <3>2. Path(req[u])' = Path(req[u])
      BY <3>1 DEF Path
    <3>3. QED
      BY <3>1, <3>2 DEF Working, Gone
  <2>3. QED
    BY <2>1, <2>2
<1>12. QED
  BY <1>8, <1>9, <1>10, <1>11 DEF BodyInv

LEMMA ElsewhereKept ==
  ASSUME TypeInv, FifoQueue, BodyInv, Elsewhere
  PROVE  BodyInv'
<1>1. /\ UNCHANGED bodyVars
      /\ BossStep \/ PathTooLong \/ PoolStutter
           \/ \E t \in Threads : WorkerSync(t) \/ SpuriousWakeup(t)
  BY DEF Elsewhere
<1>2. ASSUME NEW t \in Threads, TakeRequest(t) PROVE BodyInv'
  BY <1>1, <1>2, PopKeeps
<1>3. CASE BossStep \/ PathTooLong \/ PoolStutter
  <2>1. req' = req
    BY <1>3 DEF BossStep, PoolStutter, Create, AllCreated, BossLock, BossEnqueue, BossSignal,
       BossUnlock, BossJoin, BossJoinMissing, CreateFails, PathTooLong, poolVars
  <2>2. ASSUME NEW u \in Threads PROVE wpc'[u] = wpc[u] \/ (wpc[u] \notin Active /\ wpc'[u] \notin Active)
    <3>1. CASE \E t \in Threads : Create(t) \/ CreateFails(t)
      BY <3>1 DEF Create, CreateFails, WorkerLoop, Active, TypeInv, PoolTypeOK
    <3>2. QED
      BY <1>3, <3>1 DEF BossStep, PoolStutter, AllCreated, BossLock, BossEnqueue, BossSignal,
         BossUnlock, BossJoin, BossJoinMissing, PathTooLong, poolVars
  <2>3. QED
    BY <1>1, <2>1, <2>2, BodiesAlone
<1>4. ASSUME NEW t \in Threads, Lock(t) \/ Wait(t) \/ Reacquire(t) \/ Unlock(t) \/ SpuriousWakeup(t)
      PROVE  BodyInv'
  <2>1. req' = req
    BY <1>4 DEF Lock, Wait, Reacquire, Unlock, SpuriousWakeup
  <2>2. ASSUME NEW u \in Threads
        PROVE  \/ wpc'[u] = wpc[u]
               \/ wpc[u] \notin Active /\ wpc'[u] \notin Active
               \/ wpc[u] = "unlock" /\ wpc'[u] = "busy"
    BY <1>4 DEF Lock, Wait, Reacquire, Unlock, SpuriousWakeup, Active, TypeInv, PoolTypeOK
  <2>3. QED
    BY <1>1, <2>1, <2>2, BodiesAlone
<1>5. QED
  BY <1>1, <1>2, <1>3, <1>4 DEF WorkerSync

LEMMA BodyFirst == DownloadInit => BodyInv
<1> SUFFICES ASSUME DownloadInit PROVE BodyInv
  OBVIOUS
<1> USE DEF DownloadInit, PoolInit
<1>1. BodyTyped
  BY NumPathsAssumption DEF BodyTyped, Stages, Outcomes, Names, NoName
<1>2. Holding /\ Files
  BY DEF Holding, Files, Active
<1>3. Settled
  BY DEF Settled, Gone
<1>4. \A t \in Threads : Working(t)
  BY DEF Working
<1>5. QED
  BY <1>1, <1>2, <1>3, <1>4 DEF BodyInv

(* The pool's invariants and what the workers know of their files hold     *)
(* throughout, when every request has a path of its own.                   *)
LEMMA BodyInvariant ==
  ASSUME OwnPaths
  PROVE  DownloadSpec => []BodyInv
<1> DEFINE All == TypeInv /\ FifoQueue /\ BodyInv
<1>1. DownloadInit => All
  <2>1. PoolInit => FifoQueue
    BY EmptySeq DEF PoolInit, FifoQueue
  <2>2. QED
    BY <2>1, TypeInvInit, BodyFirst DEF DownloadInit
<1>2. All /\ [DownloadNext]_downloadVars => All'
  <2>1. SUFFICES ASSUME All, [DownloadNext]_downloadVars PROVE All'
    OBVIOUS
  <2>2. TypeInv' /\ FifoQueue'
    BY <2>1, StepsAreThePools, TypeInvNext, FifoNext
  <2>3. CASE Elsewhere
    BY <2>1, <2>2, <2>3, ElsewhereKept
  <2>4. ASSUME NEW t \in Threads, Body(t) PROVE BodyInv'
    BY <2>1, <2>4, BodyKept
  <2>5. ASSUME NEW t \in Threads, Exit(t) PROVE BodyInv'
    BY <2>1, <2>5, BodiesAlone DEF Exit, ExitProcess
  <2>6. CASE UNCHANGED downloadVars
    <3>1. UNCHANGED bodyVars /\ req' = req /\ wpc' = wpc
      BY <2>6 DEF downloadVars, poolVars
    <3>2. BodyInv'
      BY <2>1, <3>1, BodiesAlone
    <3>3. QED
      BY <2>2, <3>2
  <2>7. QED
    BY <2>1, <2>2, <2>3, <2>4, <2>5, <2>6 DEF DownloadNext
<1> HIDE DEF All
<1>3. All => BodyInv
  BY DEF All
<1>4. QED
  BY <1>1, <1>2, <1>3, PTL DEF DownloadSpec

(* The race for the counter costs no result when no two requests have one  *)
(* path: every download that succeeded has a file that no other request    *)
(* wrote to (gfclient_download.c:143-168).                                 *)
THEOREM DownloadKeepsResults ==
  ASSUME OwnPaths
  PROVE  DownloadSpec => []ResultsKept
<1>1. BodyInv => ResultsKept
  BY DEF BodyInv, Settled, Kept, ResultsKept
<1>2. QED
  BY <1>1, BodyInvariant, PTL

(* Nor does a request that failed leave a file behind, whether its worker  *)
(* unlinked it once or twice (gfclient_download.c:158-166).                *)
THEOREM DownloadLeavesNothing ==
  ASSUME OwnPaths
  PROVE  DownloadSpec => []NothingLeftOver
<1>1. BodyInv => NothingLeftOver
  BY DEF BodyInv, Settled, Gone, NothingLeftOver
<1>2. QED
  BY <1>1, BodyInvariant, PTL

(***************************************************************************)
(* The steque.                                                             *)
(***************************************************************************)
ListInv == TypeOK /\ Linked

(* What the invariant says of a chain c, with first its front, last its    *)
(* back, nx the next pointers and al the allocated nodes.                  *)
Chained(c, first, last, nx, al) ==
  /\ IF c = <<>> THEN first = Null /\ last = Null
     ELSE first = c[1] /\ last = c[Len(c)] /\ nx[c[Len(c)]] = Null
  /\ \A k \in 1 .. Len(c) - 1 : nx[c[k]] = c[k + 1]
  /\ \A j, k \in 1 .. Len(c) : c[j] = c[k] => j = k
  /\ \A n \in Nodes : n \in al <=> \E k \in 1 .. Len(c) : c[k] = n

LEMMA LinkedChained ==
  ASSUME chain \in Seq(Nodes), live \in SUBSET Nodes
  PROVE  Linked <=> N = Len(chain) /\ Chained(chain, front, back, next, live)
<1>1. Len(chain) \in Nat /\ \A k \in 1 .. Len(chain) : chain[k] \in Nodes
  BY LenProperties, ElementOfSeq
<1>2. chain = <<>> <=> Len(chain) = 0
  BY EmptySeq
<1>3. live = {chain[k] : k \in 1 .. Len(chain)}
        <=> \A n \in Nodes : n \in live <=> \E k \in 1 .. Len(chain) : chain[k] = n
  BY <1>1
<1>4. QED
  BY <1>1, <1>2, <1>3 DEF Linked, Chained

(* The facts about the state that the steps below share.                   *)
LEMMA StateFacts ==
  ASSUME ListInv
  PROVE  /\ chain \in Seq(Nodes) /\ Len(chain) \in Nat /\ DOMAIN chain = 1 .. Len(chain)
         /\ \A k \in 1 .. Len(chain) : chain[k] \in Nodes /\ chain[k] # Null
         /\ N = Len(chain) /\ (chain = <<>> <=> Len(chain) = 0)
         /\ Chained(chain, front, back, next, live)
         /\ front = Null <=> chain = <<>>
         /\ back = Null <=> chain = <<>>
         /\ live \in SUBSET Nodes
         /\ next \in [Nodes -> Pointers] /\ item \in [Nodes -> Items \cup {Null}]
<1>1. /\ chain \in Seq(Nodes) /\ live \in SUBSET Nodes
      /\ next \in [Nodes -> Pointers] /\ item \in [Nodes -> Items \cup {Null}]
  BY DEF ListInv, TypeOK
<1>2. N = Len(chain) /\ Chained(chain, front, back, next, live)
  BY <1>1, LinkedChained DEF ListInv
<1>3. /\ Len(chain) \in Nat /\ DOMAIN chain = 1 .. Len(chain)
      /\ \A k \in 1 .. Len(chain) : chain[k] \in Nodes
      /\ (chain = <<>> <=> Len(chain) = 0)
  BY <1>1, LenProperties, ElementOfSeq, EmptySeq
<1>4. \A k \in 1 .. Len(chain) : chain[k] # Null
  BY <1>3, NodesAssumption
<1>5. (front = Null <=> chain = <<>>) /\ (back = Null <=> chain = <<>>)
  BY <1>2, <1>3, <1>4 DEF Chained
<1>6. QED
  BY <1>1, <1>2, <1>3, <1>4, <1>5

LEMMA InitListInv == Init => ListInv
<1> SUFFICES ASSUME Init PROVE ListInv
  OBVIOUS
<1>1. chain \in Seq(Nodes) /\ Len(chain) = 0
  BY EmptySeq DEF Init
<1>2. TypeOK
  BY <1>1 DEF Init, TypeOK, Pointers
<1>3. Linked
  BY <1>1 DEF Init, Linked
<1>4. QED
  BY <1>2, <1>3 DEF ListInv

(* A new node at the back, at the front, and the front node taken away or  *)
(* put to the back: what becomes of the chain.                             *)
LEMMA AppendChain ==
  ASSUME ListInv, NEW n \in Nodes \ live,
         NEW nx, nx = [m \in Nodes |-> IF m = n THEN Null ELSE IF m = back THEN n ELSE next[m]]
  PROVE  /\ Append(chain, n) \in Seq(Nodes)
         /\ Len(Append(chain, n)) = Len(chain) + 1
         /\ Chained(Append(chain, n), IF back = Null THEN n ELSE front, n,
                    nx, live \cup {n})
<1> DEFINE c == Append(chain, n)
           first == IF back = Null THEN n ELSE front
<1>1. /\ c \in Seq(Nodes) /\ Len(c) = Len(chain) + 1 /\ c[Len(c)] = n
      /\ \A k \in 1 .. Len(chain) : c[k] = chain[k]
  BY StateFacts, AppendProperties
<1> HIDE DEF c
<1>2. c # <<>>
  BY <1>1, StateFacts, EmptySeq
<1>3. \A k \in 1 .. Len(chain) : chain[k] \in live /\ chain[k] # n
  BY StateFacts DEF Chained
<1>4. first = c[1]
  BY <1>1, StateFacts DEF Chained
<1>5. nx[c[Len(c)]] = Null
  BY <1>1
<1>6. ASSUME NEW k \in 1 .. Len(c) - 1 PROVE nx[c[k]] = c[k + 1]
  <2>1. k \in 1 .. Len(chain) /\ c[k] = chain[k] /\ chain[k] \in Nodes /\ chain[k] # n
    BY <1>1, <1>3, StateFacts
  <2>2. CASE k = Len(chain)
    <3>1. c[k] = back
      BY <2>1, <2>2, StateFacts DEF Chained
    <3>2. QED
      BY <1>1, <2>1, <2>2, <3>1, StateFacts
  <2>3. CASE k # Len(chain)
    <3>1. k + 1 \in 1 .. Len(chain) /\ k \in 1 .. Len(chain) - 1
      <4>1. Len(chain) \in Nat
        BY StateFacts
      <4>2. QED
        BY <2>1, <2>3, <4>1
    <3>2. chain[k] # back
      <4>1. Len(chain) \in 1 .. Len(chain) /\ chain # <<>>
        BY <2>1, StateFacts
      <4>2. back = chain[Len(chain)]
        BY <4>1, StateFacts DEF Chained
      <4>3. QED
        BY <2>1, <2>3, <4>1, <4>2, StateFacts DEF Chained
    <3>3. nx[c[k]] = next[chain[k]]
      BY <2>1, <3>2
    <3>4. QED
      BY <1>1, <3>1, <3>3, StateFacts DEF Chained
  <2>4. QED
    BY <2>2, <2>3
<1>7. ASSUME NEW j \in 1 .. Len(c), NEW k \in 1 .. Len(c), c[j] = c[k] PROVE j = k
  BY <1>1, <1>3, <1>7, StateFacts DEF Chained
<1>8. ASSUME NEW m \in Nodes
      PROVE  m \in live \cup {n} <=> \E k \in 1 .. Len(c) : c[k] = m
  <2>1. CASE m = n
    BY <1>1, <2>1, StateFacts
  <2>2. CASE m # n
    BY <1>1, <2>2, StateFacts DEF Chained
  <2>3. QED
    BY <2>1, <2>2
<1>9. Chained(c, first, n, nx, live \cup {n})
  BY <1>1, <1>2, <1>4, <1>5, <1>6, <1>7, <1>8 DEF Chained
<1>10. QED
  BY <1>1, <1>9 DEF c

LEMMA PrependChain ==
  ASSUME ListInv, NEW n \in Nodes \ live, NEW nx, nx = [next EXCEPT ![n] = front]
  PROVE  /\ <<n>> \o chain \in Seq(Nodes)
         /\ Len(<<n>> \o chain) = Len(chain) + 1
         /\ \A k \in 1 .. Len(chain) : (<<n>> \o chain)[k + 1] = chain[k]
         /\ (<<n>> \o chain)[1] = n
         /\ Chained(<<n>> \o chain, n, IF back = Null THEN n ELSE back, nx, live \cup {n})
<1> DEFINE c == <<n>> \o chain
           last == IF back = Null THEN n ELSE back
<1>1. /\ c \in Seq(Nodes) /\ Len(c) = Len(chain) + 1 /\ c[1] = n
      /\ \A k \in 1 .. Len(chain) : c[k + 1] = chain[k]
  <2>1. <<n>> \in Seq(Nodes) /\ Len(<<n>>) = 1 /\ <<n>>[1] = n
    OBVIOUS
  <2>2. c \in Seq(Nodes) /\ Len(c) = 1 + Len(chain)
    BY <2>1, StateFacts, ConcatProperties
  <2>3. \A k \in 1 .. Len(c) : c[k] = IF k <= 1 THEN <<n>>[k] ELSE chain[k - 1]
    BY <2>1, StateFacts, ConcatProperties
  <2>4. QED
    BY <2>1, <2>2, <2>3, StateFacts
<1> HIDE DEF c
<1>2. \A k \in 1 .. Len(c) : k = 1 \/ (k - 1 \in 1 .. Len(chain) /\ c[k] = chain[k - 1])
  <2>1. SUFFICES ASSUME NEW k \in 1 .. Len(c), k # 1
                 PROVE  k - 1 \in 1 .. Len(chain) /\ c[k] = chain[k - 1]
    OBVIOUS
  <2>2. k - 1 \in 1 .. Len(chain) /\ k = (k - 1) + 1
    BY <1>1, <2>1, StateFacts
  <2>3. c[(k - 1) + 1] = chain[k - 1]
    BY <1>1, <2>2
  <2>4. QED
    BY <2>2, <2>3
<1>3. \A k \in 1 .. Len(chain) : chain[k] \in live /\ chain[k] # n
  BY StateFacts DEF Chained
<1>4. c # <<>>
  BY <1>1, StateFacts, EmptySeq
<1>5. last = c[Len(c)] /\ nx[c[Len(c)]] = Null
  <2>1. CASE chain = <<>>
    BY <1>1, <2>1, StateFacts
  <2>2. CASE chain # <<>>
    <3>1. c[Len(c)] = chain[Len(chain)] /\ Len(chain) \in 1 .. Len(chain)
      BY <1>1, <2>2, StateFacts
    <3>2. chain[Len(chain)] = back /\ next[chain[Len(chain)]] = Null /\ back # Null
      BY <2>2, StateFacts DEF Chained
    <3>3. QED
      BY <1>3, <3>1, <3>2, StateFacts
  <2>3. QED
    BY <2>1, <2>2
<1>6. ASSUME NEW k \in 1 .. Len(c) - 1 PROVE nx[c[k]] = c[k + 1]
  <2>1. k \in 1 .. Len(chain) /\ c[k + 1] = chain[k]
    BY <1>1, StateFacts
  <2>2. CASE k = 1
    <3>1. front = chain[1]
      BY <2>1, <2>2, StateFacts DEF Chained
    <3>2. QED
      BY <1>1, <2>1, <2>2, <3>1, StateFacts
  <2>3. CASE k # 1
    <3>1. k - 1 \in 1 .. Len(chain) - 1 /\ c[k] = chain[k - 1] /\ (k - 1) + 1 = k
      BY <1>2, <2>1, <2>3, StateFacts
    <3>2. next[chain[k - 1]] = chain[k]
      BY <3>1, StateFacts DEF Chained
    <3>3. QED
      BY <1>3, <2>1, <3>1, <3>2, StateFacts
  <2>4. QED
    BY <2>2, <2>3
<1>7. ASSUME NEW j \in 1 .. Len(c), NEW k \in 1 .. Len(c), c[j] = c[k] PROVE j = k
  <2>1. CASE j = 1 \/ k = 1
    BY <1>1, <1>2, <1>3, <1>7, <2>1
  <2>2. CASE j # 1 /\ k # 1
    <3>1. j - 1 = k - 1
      BY <1>2, <1>7, <2>2, StateFacts DEF Chained
    <3>2. QED
      BY <3>1, <1>1, StateFacts
  <2>3. QED
    BY <2>1, <2>2
<1>8. ASSUME NEW m \in Nodes
      PROVE  m \in live \cup {n} <=> \E k \in 1 .. Len(c) : c[k] = m
  <2>1. CASE m = n
    BY <1>1, <2>1, StateFacts
  <2>2. CASE m # n
    <3>1. m \in live <=> \E k \in 1 .. Len(chain) : chain[k] = m
      BY StateFacts DEF Chained
    <3>2. ASSUME NEW k \in 1 .. Len(chain), chain[k] = m
          PROVE  \E i \in 1 .. Len(c) : c[i] = m
      <4>1. k + 1 \in 1 .. Len(c) /\ c[k + 1] = m
        BY <1>1, <3>2, StateFacts
      <4>2. QED
        BY <4>1
    <3>3. ASSUME NEW i \in 1 .. Len(c), c[i] = m
          PROVE  \E k \in 1 .. Len(chain) : chain[k] = m
      BY <1>1, <1>2, <2>2, <3>3
    <3>4. QED
      BY <2>2, <3>1, <3>2, <3>3
  <2>3. QED
    BY <2>1, <2>2
<1>9. Chained(c, n, last, nx, live \cup {n})
  BY <1>1, <1>4, <1>5, <1>6, <1>7, <1>8 DEF Chained
<1>10. QED
  BY <1>1, <1>9 DEF c

(* Taking the front node away.  The next pointers of the rest stay.        *)
LEMMA DropChain ==
  ASSUME ListInv, chain # <<>>
  PROVE  /\ Tail(chain) \in Seq(Nodes)
         /\ Len(Tail(chain)) = Len(chain) - 1
         /\ \A k \in 1 .. Len(chain) - 1 : Tail(chain)[k] = chain[k + 1]
         /\ front \in Nodes /\ front = chain[1]
         /\ (next[front] = Null <=> Tail(chain) = <<>>)
         /\ Chained(Tail(chain), next[front], IF next[front] = Null THEN Null ELSE back,
                    next, live \ {front})
<1> DEFINE c == Tail(chain)
           last == IF next[front] = Null THEN Null ELSE back
<1>1. /\ c \in Seq(Nodes) /\ Len(c) = Len(chain) - 1 /\ Len(c) \in Nat
      /\ \A k \in 1 .. Len(c) : c[k] = chain[k + 1]
  BY StateFacts, HeadTailProperties
<1> HIDE DEF c
<1>2. Len(chain) \in Nat \ {0} /\ (c = <<>> <=> Len(c) = 0)
  BY <1>1, StateFacts, EmptySeq
<1>3. /\ front = chain[1] /\ back = chain[Len(chain)] /\ next[back] = Null
      /\ \A k \in 1 .. Len(chain) - 1 : next[chain[k]] = chain[k + 1]
      /\ \A j, k \in 1 .. Len(chain) : chain[j] = chain[k] => j = k
      /\ \A n \in Nodes : n \in live <=> \E k \in 1 .. Len(chain) : chain[k] = n
  BY StateFacts DEF Chained
<1>4. front \in Nodes /\ back \in Nodes
  BY <1>2, <1>3, StateFacts
<1>5. CASE c = <<>>
  <2>1. Len(chain) = 1
    BY <1>1, <1>2, <1>5
  <2>2. next[front] = Null
    BY <1>3, <2>1
  <2>3. \A n \in Nodes : n \notin live \ {front}
    BY <1>3, <2>1
  <2>4. Chained(c, next[front], last, next, live \ {front})
    <3>1. 1 .. Len(c) = {} /\ 1 .. Len(c) - 1 = {} /\ last = Null
      BY <1>2, <1>5, <2>2
    <3>2. QED
      BY <1>5, <2>2, <2>3, <3>1 DEF Chained
  <2>5. QED
    BY <1>1, <1>3, <1>4, <1>5, <2>2, <2>4 DEF c
<1>6. CASE c # <<>>
  <2>1. Len(c) \in Nat \ {0} /\ 1 \in 1 .. Len(chain) - 1
    BY <1>1, <1>2, <1>6
  <2>2. next[front] = chain[2] /\ chain[2] = c[1] /\ chain[2] # Null
    <3>1. next[chain[1]] = chain[1 + 1] /\ c[1] = chain[1 + 1]
      BY <1>1, <1>3, <2>1
    <3>2. 2 \in 1 .. Len(chain)
      BY <1>2, <2>1
    <3>3. QED
      BY <1>3, <3>1, <3>2, StateFacts
  <2>3. last = c[Len(c)] /\ next[c[Len(c)]] = Null
    <3>1. c[Len(c)] = chain[Len(chain)]
      BY <1>1, <1>2, <2>1
    <3>2. QED
      BY <1>3, <2>2, <3>1
  <2>4. ASSUME NEW k \in 1 .. Len(c) - 1 PROVE next[c[k]] = c[k + 1]
    <3>1. k \in 1 .. Len(c) /\ k + 1 \in 1 .. Len(c) /\ k + 1 \in 1 .. Len(chain) - 1
      BY <1>1, <1>2, <2>1
    <3>2. QED
      BY <1>1, <1>3, <3>1
  <2>5. ASSUME NEW j \in 1 .. Len(c), NEW k \in 1 .. Len(c), c[j] = c[k] PROVE j = k
    <3>1. j + 1 \in 1 .. Len(chain) /\ k + 1 \in 1 .. Len(chain)
      BY <1>1, <1>2
    <3>2. chain[j + 1] = chain[k + 1]
      BY <1>1, <2>5
    <3>3. j + 1 = k + 1
      BY <1>3, <3>1, <3>2
    <3>4. QED
      BY <3>3
  <2>6. ASSUME NEW n \in Nodes
        PROVE  n \in live \ {front} <=> \E k \in 1 .. Len(c) : c[k] = n
    <3>1. ASSUME n \in live \ {front} PROVE \E k \in 1 .. Len(c) : c[k] = n
      <4>1. PICK k \in 1 .. Len(chain) : chain[k] = n
        BY <1>3, <3>1
      <4>2. k # 1
        BY <1>3, <3>1, <4>1
      <4>3. k - 1 \in 1 .. Len(c) /\ (k - 1) + 1 = k
        BY <1>1, <1>2, <4>1, <4>2
      <4>4. c[k - 1] = n
        BY <1>1, <4>1, <4>3
      <4>5. QED
        BY <4>3, <4>4
    <3>2. ASSUME NEW k \in 1 .. Len(c), c[k] = n PROVE n \in live \ {front}
      <4>1. k + 1 \in 1 .. Len(chain) /\ chain[k + 1] = n /\ k + 1 # 1
        BY <1>1, <1>2, <3>2
      <4>2. 1 \in 1 .. Len(chain)
        BY <1>2
      <4>3. n # front
        BY <1>3, <4>1, <4>2
      <4>4. QED
        BY <1>3, <4>1, <4>3
    <3>3. QED
      BY <3>1, <3>2
  <2>7. Chained(c, next[front], last, next, live \ {front})
    BY <1>6, <2>2, <2>3, <2>4, <2>5, <2>6 DEF Chained
  <2>8. QED
    BY <1>1, <1>3, <1>4, <1>6, <2>2, <2>7 DEF c
<1>7. QED
  BY <1>5, <1>6

(* The front node becomes the back: the four assignments of steque_cycle,  *)
(* which also hold for a chain of one node.                                *)
LEMMA CycleChain ==
  ASSUME ListInv, chain # <<>>
  PROVE  LET linked == [next EXCEPT ![back] = front]
             nx == [linked EXCEPT ![front] = Null]
             c == Append(Tail(chain), Head(chain))
         IN  /\ c \in Seq(Nodes) /\ Len(c) = Len(chain)
             /\ Head(chain) = front /\ front \in Nodes /\ back \in Nodes
             /\ \A k \in 1 .. Len(chain) - 1 : c[k] = chain[k + 1]
             /\ c[Len(chain)] = front
             /\ nx \in [Nodes -> Pointers] /\ linked[front] \in Pointers
             /\ Chained(c, linked[front], front, nx, live)
<1> DEFINE linked == [next EXCEPT ![back] = front]
           nx == [linked EXCEPT ![front] = Null]
           c == Append(Tail(chain), Head(chain))
<1>1. Len(chain) \in Nat /\ Len(chain) >= 1
  BY StateFacts
<1>2. /\ front = chain[1] /\ back = chain[Len(chain)] /\ next[back] = Null
      /\ \A k \in 1 .. Len(chain) - 1 : next[chain[k]] = chain[k + 1]
      /\ \A j, k \in 1 .. Len(chain) : chain[j] = chain[k] => j = k
      /\ \A n \in Nodes : n \in live <=> \E k \in 1 .. Len(chain) : chain[k] = n
  BY StateFacts DEF Chained
<1>3. /\ front \in Nodes /\ back \in Nodes /\ Head(chain) = front
      /\ Tail(chain) \in Seq(Nodes) /\ Len(Tail(chain)) = Len(chain) - 1
      /\ \A k \in 1 .. Len(chain) - 1 : Tail(chain)[k] = chain[k + 1]
  BY <1>1, <1>2, StateFacts, HeadTailProperties
<1>4. /\ c \in Seq(Nodes) /\ Len(c) = Len(chain)
      /\ \A k \in 1 .. Len(chain) - 1 : c[k] = chain[k + 1]
      /\ c[Len(chain)] = front
  <2>1. /\ c \in Seq(Nodes) /\ Len(c) = Len(Tail(chain)) + 1
        /\ \A k \in 1 .. Len(Tail(chain)) : c[k] = Tail(chain)[k]
        /\ c[Len(Tail(chain)) + 1] = front
    BY <1>3, AppendProperties
  <2>2. QED
    BY <1>1, <1>3, <2>1
<1>5. nx \in [Nodes -> Pointers] /\ linked[front] \in Pointers
  BY <1>3, StateFacts DEF Pointers
<1> HIDE DEF c
<1>6. \A k \in 1 .. Len(chain) : chain[k] \in Nodes
  BY StateFacts
<1>7. c # <<>>
  BY <1>1, <1>4, EmptySeq
<1>8. linked[front] = c[1] /\ c[Len(c)] = front /\ nx[front] = Null
  <2>1. CASE Len(chain) = 1
    BY <1>2, <1>3, <1>4, <2>1, StateFacts
  <2>2. CASE Len(chain) # 1
    <3>1. 1 \in 1 .. Len(chain) - 1 /\ 1 \in 1 .. Len(chain) /\ Len(chain) \in 1 .. Len(chain)
      BY <1>1, <2>2
    <3>2. front # back
      BY <1>2, <2>2, <3>1
    <3>3. linked[front] = next[front]
      BY <1>3, <3>2, StateFacts
    <3>4. next[front] = c[1]
      BY <1>2, <1>4, <3>1
    <3>5. QED
      BY <1>3, <1>4, <3>3, <3>4, StateFacts
  <2>3. QED
    BY <2>1, <2>2
<1>9. ASSUME NEW k \in 1 .. Len(c) - 1 PROVE nx[c[k]] = c[k + 1]
  <2>1. /\ k + 1 \in 1 .. Len(chain) /\ k \in 1 .. Len(chain) - 1
        /\ c[k] = chain[k + 1] /\ 1 \in 1 .. Len(chain) /\ k + 1 # 1
    BY <1>1, <1>4
  <2>2. c[k] # front /\ c[k] \in Nodes
    BY <1>2, <1>6, <2>1
  <2>3. nx[c[k]] = linked[c[k]]
    BY <1>3, <2>2, StateFacts
  <2>4. CASE k + 1 = Len(chain)
    <3>1. linked[c[k]] = front
      BY <1>2, <1>3, <2>1, <2>4, StateFacts
    <3>2. c[k + 1] = front
      BY <1>4, <2>4
    <3>3. QED
      BY <2>3, <3>1, <3>2
  <2>5. CASE k + 1 # Len(chain)
    <3>1. k + 1 \in 1 .. Len(chain) - 1 /\ Len(chain) \in 1 .. Len(chain)
      BY <1>1, <2>1, <2>5
    <3>2. c[k] # back
      BY <1>2, <2>1, <2>5, <3>1
    <3>3. linked[c[k]] = next[c[k]]
      BY <1>3, <2>2, <3>2, StateFacts
    <3>4. next[chain[k + 1]] = chain[(k + 1) + 1] /\ c[k + 1] = chain[(k + 1) + 1]
      BY <1>2, <1>4, <3>1
    <3>5. QED
      BY <2>1, <2>3, <3>3, <3>4
  <2>6. QED
    BY <2>4, <2>5
<1>10. \A k \in 1 .. Len(c) :
          (k = Len(chain) /\ c[k] = chain[1]) \/ (k \in 1 .. Len(chain) - 1 /\ c[k] = chain[k + 1])
  BY <1>1, <1>2, <1>4
<1>11. ASSUME NEW j \in 1 .. Len(c), NEW k \in 1 .. Len(c), c[j] = c[k] PROVE j = k
  <2>1. j \in Nat /\ k \in Nat /\ 1 \in 1 .. Len(chain)
    BY <1>1, <1>4
  <2>2. CASE j = Len(chain) /\ k = Len(chain)
    BY <2>2
  <2>3. CASE j # Len(chain) /\ k = Len(chain)
    <3>1. j + 1 \in 1 .. Len(chain) /\ chain[j + 1] = chain[1] /\ j + 1 # 1
      BY <1>1, <1>2, <1>4, <1>10, <1>11, <2>1, <2>3
    <3>2. QED
      BY <1>2, <2>1, <3>1
  <2>4. CASE j = Len(chain) /\ k # Len(chain)
    <3>1. k + 1 \in 1 .. Len(chain) /\ chain[k + 1] = chain[1] /\ k + 1 # 1
      BY <1>1, <1>2, <1>4, <1>10, <1>11, <2>1, <2>4
    <3>2. QED
      BY <1>2, <2>1, <3>1
  <2>5. CASE j # Len(chain) /\ k # Len(chain)
    <3>1. j + 1 \in 1 .. Len(chain) /\ k + 1 \in 1 .. Len(chain) /\ chain[j + 1] = chain[k + 1]
      BY <1>1, <1>10, <1>11, <2>1, <2>5
    <3>2. j + 1 = k + 1
      BY <1>2, <3>1
    <3>3. QED
      BY <2>1, <3>2
  <2>6. QED
    BY <2>2, <2>3, <2>4, <2>5
<1>12. ASSUME NEW n \in Nodes PROVE n \in live <=> \E k \in 1 .. Len(c) : c[k] = n
  <2>1. ASSUME NEW i \in 1 .. Len(chain), chain[i] = n
        PROVE  \E k \in 1 .. Len(c) : c[k] = n
    <3>1. CASE i = 1
      <4>1. Len(chain) \in 1 .. Len(c) /\ c[Len(chain)] = n
        BY <1>1, <1>2, <1>4, <2>1, <3>1
      <4>2. QED
        BY <4>1
    <3>2. CASE i # 1
      <4>1. i - 1 \in 1 .. Len(chain) - 1 /\ i - 1 \in 1 .. Len(c) /\ (i - 1) + 1 = i
        BY <1>1, <1>4, <3>2
      <4>2. c[i - 1] = n
        BY <1>4, <2>1, <4>1
      <4>3. QED
        BY <4>1, <4>2
    <3>3. QED
      BY <3>1, <3>2
  <2>2. ASSUME NEW k \in 1 .. Len(c), c[k] = n
        PROVE  \E i \in 1 .. Len(chain) : chain[i] = n
    BY <1>1, <1>10, <2>2
  <2>3. QED
    BY <1>2, <2>1, <2>2
<1>13. Chained(c, linked[front], front, nx, live)
  BY <1>7, <1>8, <1>9, <1>11, <1>12 DEF Chained
<1>14. QED
  BY <1>3, <1>4, <1>5, <1>13 DEF c

(* The invariant after a step, from what the lemmas above say of it.       *)
LEMMA InvNext ==
  ASSUME TypeOK', N' = Len(chain'), Chained(chain', front', back', next', live')
  PROVE  ListInv'
<1>0. chain' \in Seq(Nodes) /\ live' \in SUBSET Nodes
  BY DEF TypeOK
<1>1. Len(chain') \in Nat /\ \A k \in 1 .. Len(chain') : chain'[k] \in Nodes
  BY <1>0, LenProperties, ElementOfSeq
<1>2. chain' = <<>> <=> Len(chain') = 0
  BY <1>0, EmptySeq
<1>3. live' = {chain'[k] : k \in 1 .. Len(chain')}
  BY <1>0, <1>1 DEF Chained
<1>4. Linked'
  BY <1>1, <1>2, <1>3 DEF Linked, Chained
<1>5. QED
  BY <1>4 DEF ListInv

LEMMA EnqueueInv ==
  ASSUME ListInv, NEW x \in Items, Enqueue(x)
  PROVE  /\ ListInv'
         /\ Len(chain') = Len(chain) + 1
         /\ \A k \in 1 .. Len(chain) : chain'[k] = chain[k] /\ item'[chain[k]] = item[chain[k]]
         /\ item'[chain'[Len(chain) + 1]] = x
<1>1. PICK n \in Nodes \ live :
        /\ live' = live \cup {n}
        /\ item' = [item EXCEPT ![n] = x]
        /\ next' = [m \in Nodes |-> IF m = n THEN Null ELSE IF m = back THEN n ELSE next[m]]
        /\ front' = IF back = Null THEN n ELSE front
        /\ back' = n
        /\ chain' = Append(chain, n)
  BY DEF Enqueue
<1>2. /\ chain' \in Seq(Nodes) /\ Len(chain') = Len(chain) + 1
      /\ Chained(chain', front', back', next', live')
  BY <1>1, AppendChain
<1>3. /\ \A k \in 1 .. Len(chain) : chain'[k] = chain[k]
      /\ chain'[Len(chain) + 1] = n
  BY <1>1, StateFacts, AppendProperties
<1>4. \A k \in 1 .. Len(chain) : item'[chain[k]] = item[chain[k]]
  BY <1>1, StateFacts DEF Chained
<1>5. item'[n] = x
  BY <1>1, StateFacts
<1>6. TypeOK'
  <2>1. TypeOK /\ N' = N + 1 /\ ret' = ret /\ mode' = mode
    BY DEF Enqueue, ListInv
  <2>2. next' \in [Nodes -> Pointers] /\ item' \in [Nodes -> Items \cup {Null}]
    BY <1>1, <2>1 DEF TypeOK, Pointers
  <2>3. QED
    BY <1>1, <1>2, <2>1, <2>2 DEF TypeOK, Pointers
<1>7. N' = Len(chain')
  BY <1>2, StateFacts DEF Enqueue
<1>8. QED
  BY <1>2, <1>3, <1>4, <1>5, <1>6, <1>7, InvNext

LEMMA PushInv ==
  ASSUME ListInv, NEW x \in Items, Push(x)
  PROVE  /\ ListInv'
         /\ Len(chain') = Len(chain) + 1
         /\ \A k \in 1 .. Len(chain) :
              chain'[k + 1] = chain[k] /\ item'[chain[k]] = item[chain[k]]
         /\ item'[chain'[1]] = x
<1>1. PICK n \in Nodes \ live :
        /\ live' = live \cup {n}
        /\ item' = [item EXCEPT ![n] = x]
        /\ next' = [next EXCEPT ![n] = front]
        /\ back' = IF back = Null THEN n ELSE back
        /\ front' = n
        /\ chain' = <<n>> \o chain
  BY DEF Push
<1>2. /\ chain' \in Seq(Nodes) /\ Len(chain') = Len(chain) + 1
      /\ \A k \in 1 .. Len(chain) : chain'[k + 1] = chain[k]
      /\ chain'[1] = n
      /\ Chained(chain', front', back', next', live')
  BY <1>1, PrependChain
<1>4. \A k \in 1 .. Len(chain) : item'[chain[k]] = item[chain[k]]
  BY <1>1, StateFacts DEF Chained
<1>5. item'[n] = x
  BY <1>1, StateFacts
<1>6. TypeOK'
  <2>1. TypeOK /\ N' = N + 1 /\ ret' = ret /\ mode' = mode
    BY DEF Push, ListInv
  <2>2. next' \in [Nodes -> Pointers] /\ item' \in [Nodes -> Items \cup {Null}]
    BY <1>1, <2>1 DEF TypeOK, Pointers
  <2>3. QED
    BY <1>1, <1>2, <2>1, <2>2 DEF TypeOK, Pointers
<1>7. N' = Len(chain')
  BY <1>2, StateFacts DEF Push
<1>8. QED
  BY <1>2, <1>4, <1>5, <1>6, <1>7, InvNext

LEMMA TakeFrontInv ==
  ASSUME ListInv, TakeFront
  PROVE  /\ ListInv'
         /\ chain # <<>>
         /\ Len(chain') = Len(chain) - 1
         /\ \A k \in 1 .. Len(chain) - 1 : chain'[k] = chain[k + 1]
         /\ item' = item
         /\ ret' = item[chain[1]]
<1>1. /\ front # Null
      /\ ret' = item[front]
      /\ front' = next[front]
      /\ back' = (IF next[front] = Null THEN Null ELSE back)
      /\ live' = live \ {front}
      /\ N' = N - 1
      /\ chain' = Tail(chain)
      /\ item' = item /\ next' = next /\ mode' = mode
  BY DEF TakeFront
<1>2. chain # <<>>
  BY <1>1, StateFacts
<1>3. /\ chain' \in Seq(Nodes) /\ Len(chain') = Len(chain) - 1
      /\ \A k \in 1 .. Len(chain) - 1 : chain'[k] = chain[k + 1]
      /\ front \in Nodes /\ front = chain[1]
      /\ Chained(chain', front', back', next', live')
  BY <1>1, <1>2, DropChain
<1>4. N' = Len(chain') /\ N' \in Nat
  BY <1>1, <1>2, <1>3, StateFacts
<1>5. TypeOK'
  <2>1. TypeOK
    BY DEF ListInv
  <2>2. ret' \in Items \cup {Null} /\ front' \in Pointers /\ back' \in Pointers
    BY <1>1, <1>3, <2>1 DEF TypeOK, Pointers
  <2>3. QED
    BY <1>1, <1>3, <1>4, <2>1, <2>2 DEF TypeOK
<1>6. QED
  BY <1>1, <1>2, <1>3, <1>4, <1>5, InvNext

LEMMA CycleInv ==
  ASSUME ListInv, Cycle
  PROVE  /\ ListInv'
         /\ chain # <<>>
         /\ Len(chain') = Len(chain)
         /\ \A k \in 1 .. Len(chain) - 1 : chain'[k] = chain[k + 1]
         /\ chain'[Len(chain)] = chain[1]
         /\ item' = item
<1> DEFINE linked == [next EXCEPT ![back] = front]
<1>1. /\ back # Null
      /\ back' = front
      /\ front' = linked[front]
      /\ next' = [linked EXCEPT ![front] = Null]
      /\ chain' = Append(Tail(chain), Head(chain))
      /\ N' = N /\ item' = item /\ live' = live /\ ret' = ret /\ mode' = mode
  BY DEF Cycle
<1>2. chain # <<>>
  BY <1>1, StateFacts
<1>3. front = chain[1]
  BY <1>2, StateFacts DEF Chained
<1>4. /\ chain' \in Seq(Nodes) /\ Len(chain') = Len(chain)
      /\ front \in Nodes
      /\ \A k \in 1 .. Len(chain) - 1 : chain'[k] = chain[k + 1]
      /\ chain'[Len(chain)] = front
      /\ next' \in [Nodes -> Pointers] /\ front' \in Pointers
      /\ Chained(chain', front', back', next', live')
  BY <1>1, <1>2, CycleChain
<1>5. TypeOK'
  <2>1. TypeOK
    BY DEF ListInv
  <2>2. QED
    BY <1>1, <1>4, <2>1 DEF TypeOK, Pointers
<1>6. QED
  BY <1>1, <1>2, <1>3, <1>4, <1>5, StateFacts, InvNext

(* Every other step leaves the list as it is.                              *)
LEMMA SameListInv ==
  ASSUME ListInv, UNCHANGED <<front, back, N, heap, chain>>,
         ret' \in Items \cup {Null}, mode' \in {"idle", "emptying", "exited"}
  PROVE  ListInv'
<1>1. TypeOK'
  BY DEF ListInv, TypeOK, heap
<1>2. N' = Len(chain') /\ Chained(chain', front', back', next', live')
  BY StateFacts DEF heap
<1>3. QED
  BY <1>1, <1>2, InvNext

LEMMA FrontItem == ListInv /\ front # Null => item[front] \in Items \cup {Null}
  BY StateFacts DEF Chained

LEMMA StepInv == ListInv /\ [Next]_vars => ListInv'
<1> SUFFICES ASSUME ListInv, [Next]_vars PROVE ListInv'
  OBVIOUS
<1>0. TypeOK
  BY DEF ListInv
<1>1. ASSUME NEW x \in Items, Enqueue(x) PROVE ListInv'
  BY <1>1, EnqueueInv
<1>2. ASSUME NEW x \in Items, Push(x) PROVE ListInv'
  BY <1>2, PushInv
<1>3. CASE TakeFront
  BY <1>3, TakeFrontInv
<1>4. CASE Cycle
  BY <1>4, CycleInv
<1>5. CASE OutOfMemory
  BY <1>0, <1>5, SameListInv DEF OutOfMemory, TypeOK
<1>6. CASE Underflow
  BY <1>0, <1>6, SameListInv DEF Underflow, TypeOK
<1>7. CASE StequeFront
  BY <1>0, <1>6, <1>7, FrontItem, SameListInv DEF StequeFront, TypeOK
<1>8. CASE Destroy
  BY <1>0, <1>8, SameListInv DEF Destroy, TypeOK
<1>9. CASE DestroyEnd
  BY <1>0, <1>9, SameListInv DEF DestroyEnd, TypeOK
<1>10. CASE UNCHANGED vars
  BY <1>0, <1>10, SameListInv DEF vars, heap, TypeOK
<1>11. CASE Pop
  BY <1>3, <1>6, <1>11 DEF Pop
<1>12. CASE DestroyStep
  BY <1>3, <1>6, <1>12 DEF DestroyStep
<1>13. QED
  BY <1>1, <1>2, <1>4, <1>5, <1>7, <1>8, <1>9, <1>10, <1>11, <1>12 DEF Next, Exited

THEOREM StequeInv == Spec => []ListInv
<1>1. Init => ListInv
  BY InitListInv
<1>2. ListInv /\ [Next]_vars => ListInv'
  BY StepInv
<1>3. QED
  BY <1>1, <1>2, PTL DEF Spec

(* The fields of a steque_t and of its nodes keep their types, whatever    *)
(* the number of nodes.                                                    *)
THEOREM StequeTypeCorrect == Spec => []TypeOK
<1>1. ListInv => TypeOK
  BY DEF ListInv
<1>2. QED
  BY <1>1, StequeInv, PTL

(* For any set of nodes: the list leads from front to back through every   *)
(* allocated node once, and N counts them.                                 *)
THEOREM StequeLinked == Spec => []Linked
<1>1. ListInv => Linked
  BY DEF ListInv
<1>2. QED
  BY <1>1, StequeInv, PTL

-----------------------------------------------------------------------------
(* The items along the list, which are the deque.                          *)
Along == [k \in 1 .. Len(chain) |-> item[chain[k]]]

LEMMA AlongIsSeq ==
  ASSUME ListInv
  PROVE  /\ Along \in Seq(Items \cup {Null}) /\ Len(Along) = Len(chain)
         /\ \A k \in 1 .. Len(chain) : Along[k] = item[chain[k]]
<1>1. Len(chain) \in Nat /\ \A k \in 1 .. Len(chain) : item[chain[k]] \in Items \cup {Null}
  BY StateFacts
<1>2. QED
  BY <1>1 DEF Along

LEMMA AlongNext ==
  ASSUME ListInv'
  PROVE  /\ Along' \in Seq(Items \cup {Null}) /\ Len(Along') = Len(chain')
         /\ \A k \in 1 .. Len(chain') : Along'[k] = item'[chain'[k]]
<1>1. chain' \in Seq(Nodes) /\ item' \in [Nodes -> Items \cup {Null}]
  BY DEF ListInv, TypeOK
<1>2. Len(chain') \in Nat /\ \A k \in 1 .. Len(chain') : item'[chain'[k]] \in Items \cup {Null}
  BY <1>1, LenProperties, ElementOfSeq
<1>3. QED
  BY <1>2 DEF Along

LEMMA EnqueueRefines ==
  ASSUME ListInv, NEW x \in Items, Enqueue(x)
  PROVE  D!Enqueued(x)
<1>1. Along' = Append(Along, x)
  <2>1. /\ Append(Along, x) \in Seq(Items \cup {Null})
        /\ Len(Append(Along, x)) = Len(chain) + 1
        /\ \A k \in 1 .. Len(chain) : Append(Along, x)[k] = item[chain[k]]
        /\ Append(Along, x)[Len(chain) + 1] = x
    BY AlongIsSeq, AppendProperties
  <2>2. /\ Along' \in Seq(Items \cup {Null}) /\ Len(Along') = Len(chain) + 1
        /\ \A k \in 1 .. Len(chain) + 1 : Along'[k] = item'[chain'[k]]
    BY AlongNext, EnqueueInv
  <2>3. ASSUME NEW k \in 1 .. Len(chain) + 1 PROVE Along'[k] = Append(Along, x)[k]
    <3>1. CASE k = Len(chain) + 1
      BY <2>1, <2>2, <3>1, EnqueueInv
    <3>2. CASE k # Len(chain) + 1
      <4>1. k \in 1 .. Len(chain)
        BY <3>2, StateFacts
      <4>2. QED
        BY <2>1, <2>2, <4>1, EnqueueInv
    <3>3. QED
      BY <3>1, <3>2
  <2>4. QED
    BY <2>1, <2>2, <2>3, SeqEqual
<1>2. QED
  BY <1>1 DEF Enqueue, Along, D!Enqueued, D!Add

LEMMA PushRefines ==
  ASSUME ListInv, NEW x \in Items, Push(x)
  PROVE  D!Pushed(x)
<1>1. Along' = <<x>> \o Along
  <2>0. <<x>> \in Seq(Items \cup {Null}) /\ Len(<<x>>) = 1 /\ <<x>>[1] = x
    OBVIOUS
  <2>1. /\ <<x>> \o Along \in Seq(Items \cup {Null})
        /\ Len(<<x>> \o Along) = 1 + Len(chain)
        /\ \A k \in 1 .. 1 + Len(chain) :
             (<<x>> \o Along)[k] = IF k <= 1 THEN <<x>>[k] ELSE Along[k - 1]
    BY <2>0, AlongIsSeq, ConcatProperties
  <2>2. /\ Along' \in Seq(Items \cup {Null}) /\ Len(Along') = Len(chain) + 1
        /\ \A k \in 1 .. Len(chain) + 1 : Along'[k] = item'[chain'[k]]
    BY AlongNext, PushInv
  <2>3. ASSUME NEW k \in 1 .. Len(chain) + 1 PROVE Along'[k] = (<<x>> \o Along)[k]
    <3>0. Len(chain) \in Nat
      BY StateFacts
    <3>1. CASE k = 1
      <4>1. (<<x>> \o Along)[1] = x
        BY <2>0, <2>1, <3>0
      <4>2. QED
        BY <2>2, <3>1, <4>1, PushInv
    <3>2. CASE k # 1
      <4>1. k - 1 \in 1 .. Len(chain) /\ (k - 1) + 1 = k /\ ~(k <= 1) /\ k \in 1 .. 1 + Len(chain)
        BY <3>0, <3>2
      <4>2. (<<x>> \o Along)[k] = item[chain[k - 1]]
        BY <2>1, <4>1, AlongIsSeq
      <4>3. chain'[k] = chain[k - 1] /\ item'[chain[k - 1]] = item[chain[k - 1]]
        BY <4>1, PushInv
      <4>4. QED
        BY <2>2, <4>2, <4>3
    <3>3. QED
      BY <3>1, <3>2
  <2>4. QED
    BY <2>1, <2>2, <2>3, StateFacts, SeqEqual
<1>2. QED
  BY <1>1 DEF Push, Along, D!Pushed, D!Add

(* The items lose their first, which is returned.                          *)
LEMMA TakeFrontRefines ==
  ASSUME ListInv, mode \in {"idle", "emptying"}, TakeFront
  PROVE  D!Popped
<1>0. Len(chain) \in Nat \ {0}
  BY TakeFrontInv, StateFacts
<1>1. Along # <<>> /\ Head(Along) = item[chain[1]]
  <2>1. Along # <<>>
    BY <1>0, AlongIsSeq, EmptySeq
  <2>2. Head(Along) = Along[1]
    BY <2>1, AlongIsSeq
  <2>3. QED
    BY <1>0, <2>1, <2>2, AlongIsSeq
<1>2. Along' = Tail(Along)
  <2>1. /\ Tail(Along) \in Seq(Items \cup {Null})
        /\ Len(Tail(Along)) = Len(chain) - 1
        /\ \A k \in 1 .. Len(chain) - 1 : Tail(Along)[k] = Along[k + 1]
    BY <1>1, AlongIsSeq, HeadTailProperties
  <2>2. /\ Along' \in Seq(Items \cup {Null}) /\ Len(Along') = Len(chain) - 1
        /\ \A k \in 1 .. Len(chain) - 1 : Along'[k] = item'[chain'[k]]
    BY AlongNext, TakeFrontInv
  <2>3. ASSUME NEW k \in 1 .. Len(chain) - 1 PROVE Along'[k] = Tail(Along)[k]
    <3>1. k + 1 \in 1 .. Len(chain)
      BY <1>0
    <3>2. QED
      BY <2>1, <2>2, <3>1, AlongIsSeq, TakeFrontInv
  <2>4. QED
    BY <2>1, <2>2, <2>3, SeqEqual
<1>3. QED
  BY <1>1, <1>2, TakeFrontInv DEF TakeFront, Along, D!Popped

LEMMA CycleRefines ==
  ASSUME ListInv, Cycle
  PROVE  D!Cycled
<1>0. Len(chain) \in Nat \ {0}
  BY CycleInv, StateFacts
<1>1. Along # <<>> /\ Head(Along) = item[chain[1]]
  <2>1. Along # <<>>
    BY <1>0, AlongIsSeq, EmptySeq
  <2>2. Head(Along) = Along[1]
    BY <2>1, AlongIsSeq
  <2>3. QED
    BY <1>0, <2>1, <2>2, AlongIsSeq
<1> DEFINE cycled == Append(Tail(Along), Head(Along))
<1>2. /\ cycled \in Seq(Items \cup {Null})
      /\ Len(cycled) = Len(chain)
      /\ \A k \in 1 .. Len(chain) - 1 : cycled[k] = Along[k + 1]
      /\ cycled[Len(chain)] = item[chain[1]]
  <2>1. /\ Tail(Along) \in Seq(Items \cup {Null})
        /\ Head(Along) \in Items \cup {Null}
        /\ Len(Tail(Along)) = Len(chain) - 1
        /\ \A k \in 1 .. Len(chain) - 1 : Tail(Along)[k] = Along[k + 1]
    BY <1>1, AlongIsSeq, HeadTailProperties
  <2>2. /\ cycled \in Seq(Items \cup {Null})
        /\ Len(cycled) = (Len(chain) - 1) + 1
        /\ \A k \in 1 .. Len(chain) - 1 : cycled[k] = Tail(Along)[k]
        /\ cycled[(Len(chain) - 1) + 1] = Head(Along)
    BY <2>1, AppendProperties
  <2>3. (Len(chain) - 1) + 1 = Len(chain)
    BY <1>0
  <2>4. QED
    BY <1>1, <2>1, <2>2, <2>3
<1> HIDE DEF cycled
<1>3. Along' = cycled
  <2>2. /\ Along' \in Seq(Items \cup {Null}) /\ Len(Along') = Len(chain)
        /\ \A k \in 1 .. Len(chain) : Along'[k] = item[chain'[k]]
    BY AlongNext, CycleInv
  <2>3. ASSUME NEW k \in 1 .. Len(chain) PROVE Along'[k] = cycled[k]
    <3>1. CASE k = Len(chain)
      BY <1>2, <2>2, <3>1, CycleInv
    <3>2. CASE k # Len(chain)
      <4>1. k \in 1 .. Len(chain) - 1 /\ k + 1 \in 1 .. Len(chain)
        BY <1>0, <3>2
      <4>2. QED
        BY <1>2, <2>2, <4>1, AlongIsSeq, CycleInv
    <3>3. QED
      BY <3>1, <3>2
  <2>4. QED
    BY <1>2, <2>2, <2>3, SeqEqual
<1>4. QED
  BY <1>1, <1>3 DEF Cycle, Along, cycled, D!Cycled, D!Add

(* The loop of steque_destroy finds a front whenever the count says so.    *)
LEMMA DestroyNeverUnderflows == ListInv /\ N # 0 => front # Null
  BY StateFacts

(* For any set of nodes, the linked list implements the deque of steque.h: *)
(* each operation takes effect on the items as described there, and        *)
(* steque_destroy never ends in an underflow.                              *)
THEOREM StequeImplementsDeque == Spec => RefinesDeque
<1>1. Init => D!DequeInit
  <2>1. ASSUME Init PROVE [k \in 1 .. Len(chain) |-> item[chain[k]]] = <<>>
    <3>1. Len(chain) = 0
      BY <2>1, EmptySeq DEF Init
    <3>2. QED
      BY <3>1
  <2>2. QED
    BY <2>1 DEF Init, D!DequeInit
<1>2. ASSUME ListInv, [Next]_vars PROVE [D!DequeNext]_(D!dequeVars)
  <2>1. ASSUME NEW x \in Items, Enqueue(x) PROVE D!DequeNext
    BY <1>2, <2>1, EnqueueRefines DEF D!DequeNext
  <2>2. ASSUME NEW x \in Items, Push(x) PROVE D!DequeNext
    BY <1>2, <2>2, PushRefines DEF D!DequeNext
  <2>3. CASE Cycle
    BY <1>2, <2>3, CycleRefines DEF D!DequeNext
  <2>4. ASSUME TakeFront, mode \in {"idle", "emptying"} PROVE D!DequeNext
    BY <1>2, <2>4, TakeFrontRefines DEF D!DequeNext
  <2>5. ASSUME Underflow, mode = "idle" PROVE D!DequeNext
    BY <2>5 DEF Underflow, heap, D!DequeNext, D!Ended
  <2>6. CASE OutOfMemory
    BY <2>6 DEF OutOfMemory, heap, D!DequeNext, D!Ended
  <2>7. CASE Destroy
    BY <2>7 DEF Destroy, heap, D!DequeNext, D!Emptying
  <2>8. CASE DestroyEnd
    <3>1. Along = <<>>
      <4>1. Len(chain) = 0
        BY <1>2, <2>8, StateFacts DEF DestroyEnd
      <4>2. QED
        BY <1>2, <4>1, AlongIsSeq, EmptySeq
    <3>2. QED
      BY <2>8, <3>1 DEF DestroyEnd, heap, Along, D!DequeNext, D!Emptied
  <2>9. CASE StequeFront
    <3>1. CASE front = Null
      BY <2>5, <2>9, <3>1 DEF StequeFront
    <3>2. CASE front # Null
      <4>1. chain # <<>> /\ front = chain[1] /\ Len(chain) \in Nat \ {0}
        BY <1>2, <3>2, StateFacts DEF Chained
      <4>2. Along # <<>> /\ Along[1] = item[front]
        BY <1>2, <4>1, AlongIsSeq, EmptySeq
      <4>3. Head(Along) = item[front]
        BY <1>2, <4>2, AlongIsSeq
      <4>4. QED
        BY <2>9, <3>2, <4>2, <4>3
        DEF StequeFront, Underflow, heap, Along, D!DequeNext, D!Peeked
    <3>3. QED
      BY <3>1, <3>2
  <2>10. CASE UNCHANGED vars
    BY <2>10 DEF vars, heap, D!dequeVars
  <2>11. CASE Pop
    BY <2>4, <2>5, <2>11 DEF Pop
  <2>12. CASE DestroyStep
    BY <1>2, <2>4, <2>12, DestroyNeverUnderflows DEF DestroyStep, Underflow
  <2>13. QED
    BY <1>2, <2>1, <2>2, <2>3, <2>6, <2>7, <2>8, <2>9, <2>10, <2>11, <2>12 DEF Next, Exited
<1>3. QED
  BY <1>1, <1>2, StequeInv, PTL DEF Spec, RefinesDeque, D!DequeSpec
=============================================================================
