----------------------------- MODULE WorkerPool -----------------------------
(***************************************************************************)
(* The boss and worker threads of the multithreaded GETFILE client,        *)
(* FUND-120/4_ClientServerLab/mtgf/gfclient_download.c: main() is the boss *)
(* and requestHandler() is the worker.  They share one steque of request   *)
(* paths, guarded by client.mutex and client.cond_worker.                  *)
(*                                                                         *)
(* A request is named by the order in which the boss obtains it from       *)
(* workload_get_path(), 1 .. Total: the path itself does not matter to the *)
(* synchronisation.  What a worker does with a request once it has         *)
(* released the mutex is one activity here ("busy"); DownloadClient        *)
(* details it.  The steque is a sequence; Steque shows that the linked     *)
(* list implements one.                                                    *)
(***************************************************************************)
EXTENDS Naturals, Sequences, FiniteSets

CONSTANTS
  Threads,      \* the worker threads, num_threads of them
  NumRequests,  \* client.num_requests, the requests each worker performs
  MaxSpurious   \* bound: spurious wakeups of pthread_cond_wait in a behavior

ASSUME ThreadsAssumption == IsFiniteSet(Threads)
ASSUME NumRequestsAssumption == NumRequests \in Nat
ASSUME MaxSpuriousAssumption == MaxSpurious \in Nat

(* Values of mutex that are no worker. *)
Free == "free"
Boss == "boss"
ASSUME HoldersAssumption == Free \notin Threads /\ Boss \notin Threads

Total == NumRequests * Cardinality(Threads)
Requests == 1 .. Total

VARIABLES
  mutex,     \* who holds client.mutex
  sleeping,  \* the workers blocked on client.cond_worker
  queue,     \* client.queue, the front first
  bpc,       \* where the boss is
  enq,       \* the boss's loop counter: requests put in the queue so far
  wpc,       \* where each worker is
  iter,      \* each worker's loop counter i
  req,       \* the request each worker holds in req_path
  alive,     \* FALSE once some thread has called exit()
  spurious   \* spurious wakeups so far, for MaxSpurious

poolVars == <<mutex, sleeping, queue, bpc, enq, wpc, iter, req, alive, spurious>>

BossStates == {"create", "lock", "enqueue", "signal", "unlock", "join", "stuck", "exited"}
WorkerStates == {"unborn", "missing", "lock", "check", "wait", "unlock", "busy", "done"}

(* A worker that returned, or that pthread_create could not start.         *)
Ended(t) == wpc[t] \in {"done", "missing"}

PoolInit ==
  /\ mutex = Free
  /\ sleeping = {}
  /\ queue = <<>>
  /\ bpc = "create"
  /\ enq = 0
  /\ wpc = [t \in Threads |-> "unborn"]
  /\ iter = [t \in Threads |-> 0]
  /\ req = [t \in Threads |-> 0]
  /\ alive = TRUE
  /\ spurious = 0

-----------------------------------------------------------------------------
(* The boss. *)

(* Mutant: the loop over the requests runs once too often.                 *)
WorkerLoopOnceMore(i) == IF i <= NumRequests THEN "lock" ELSE "done"

(* Where the for loop over the requests goes when n of them are enqueued. *)
BossLoop(n) == IF n < Total THEN "lock" ELSE "join"

(* The head of the worker's for loop. *)
WorkerLoop(i) == IF i < NumRequests THEN "lock" ELSE "done"

(* pthread_create of one more worker, which starts running requestHandler. *)
Create(t) ==
  /\ alive
  /\ bpc = "create"
  /\ wpc[t] = "unborn"
  /\ wpc' = [wpc EXCEPT ![t] = WorkerLoop(0)]
  /\ UNCHANGED <<mutex, sleeping, queue, bpc, enq, iter, req, alive, spurious>>

(* pthread_create fails.  Its result is not looked at: the worker's        *)
(* pthread_t stays as malloc left it, and its requests are enqueued all    *)
(* the same.                                                               *)
CreateFails(t) ==
  /\ alive
  /\ bpc = "create"
  /\ wpc[t] = "unborn"
  /\ wpc' = [wpc EXCEPT ![t] = "missing"]
  /\ UNCHANGED <<mutex, sleeping, queue, bpc, enq, iter, req, alive, spurious>>

(* Every worker was tried: the boss turns to the requests. *)
AllCreated ==
  /\ alive
  /\ bpc = "create"
  /\ \A t \in Threads : wpc[t] # "unborn"
  /\ bpc' = BossLoop(0)
  /\ UNCHANGED <<mutex, sleeping, queue, enq, wpc, iter, req, alive, spurious>>

(* exit(): the path from workload_get_path() has over 256 characters.      *)
PathTooLong ==
  /\ alive
  /\ bpc = "lock"
  /\ alive' = FALSE
  /\ UNCHANGED <<mutex, sleeping, queue, bpc, enq, wpc, iter, req, spurious>>

(* workload_get_path() and pthread_mutex_lock. *)
BossLock ==
  /\ alive
  /\ bpc = "lock"
  /\ mutex = Free
  /\ mutex' = Boss
  /\ bpc' = "enqueue"
  /\ UNCHANGED <<sleeping, queue, enq, wpc, iter, req, alive, spurious>>

(* Mutant: steque_push instead of steque_enqueue. *)
BossPush ==
  /\ alive
  /\ bpc = "enqueue"
  /\ queue' = <<enq + 1>> \o queue
  /\ enq' = enq + 1
  /\ bpc' = "signal"
  /\ UNCHANGED <<mutex, sleeping, wpc, iter, req, alive, spurious>>

BossEnqueue ==
  /\ alive
  /\ bpc = "enqueue"
  /\ queue' = Append(queue, enq + 1)
  /\ enq' = enq + 1
  /\ bpc' = "signal"
  /\ UNCHANGED <<mutex, sleeping, wpc, iter, req, alive, spurious>>

(* Mutant: signal only when the queue was empty, the usual "optimisation". *)
BossSignalFirst ==
  /\ alive
  /\ bpc = "signal"
  /\ \/ (sleeping = {} \/ Len(queue) > 1) /\ UNCHANGED sleeping
     \/ Len(queue) = 1 /\ \E t \in sleeping : sleeping' = sleeping \ {t}
  /\ bpc' = "unlock"
  /\ UNCHANGED <<mutex, queue, enq, wpc, iter, req, alive, spurious>>

(* pthread_cond_signal wakes one of the sleeping workers, if there is any. *)
BossSignal ==
  /\ alive
  /\ bpc = "signal"
  /\ \/ sleeping = {} /\ UNCHANGED sleeping
     \/ \E t \in sleeping : sleeping' = sleeping \ {t}
  /\ bpc' = "unlock"
  /\ UNCHANGED <<mutex, queue, enq, wpc, iter, req, alive, spurious>>

BossUnlock ==
  /\ alive
  /\ bpc = "unlock"
  /\ mutex' = Free
  /\ bpc' = BossLoop(enq)
  /\ UNCHANGED <<sleeping, queue, enq, wpc, iter, req, alive, spurious>>

(* pthread_join of every worker, steque_destroy, and the return from main. *)
(* For a missing worker pthread_join has returned an error here.           *)
BossJoin ==
  /\ alive
  /\ bpc = "join"
  /\ \A t \in Threads : Ended(t)
  /\ queue' = <<>>
  /\ bpc' = "exited"
  /\ UNCHANGED <<mutex, sleeping, enq, wpc, iter, req, alive, spurious>>

(* pthread_join of the uninitialised pthread_t of a missing worker: the    *)
(* process crashes, or main() waits for ever.                              *)
BossJoinMissing(t) ==
  /\ alive
  /\ bpc = "join"
  /\ wpc[t] = "missing"
  /\ \/ alive' = FALSE /\ UNCHANGED bpc
     \/ bpc' = "stuck" /\ UNCHANGED alive
  /\ UNCHANGED <<mutex, sleeping, queue, enq, wpc, iter, req, spurious>>

BossStep ==
  \/ \E t \in Threads : Create(t) \/ CreateFails(t) \/ BossJoinMissing(t)
  \/ AllCreated
  \/ BossLock
  \/ BossEnqueue
  \/ BossSignal
  \/ BossUnlock
  \/ BossJoin

-----------------------------------------------------------------------------
(* A worker. *)

Lock(t) ==
  /\ alive
  /\ wpc[t] = "lock"
  /\ mutex = Free
  /\ mutex' = t
  /\ wpc' = [wpc EXCEPT ![t] = "check"]
  /\ UNCHANGED <<sleeping, queue, bpc, enq, iter, req, alive, spurious>>

(* The steque is empty: pthread_cond_wait releases the mutex and sleeps. *)
Wait(t) ==
  /\ alive
  /\ wpc[t] = "check"
  /\ queue = <<>>
  /\ sleeping' = sleeping \cup {t}
  /\ mutex' = Free
  /\ wpc' = [wpc EXCEPT ![t] = "wait"]
  /\ UNCHANGED <<queue, bpc, enq, iter, req, alive, spurious>>

(* pthread_cond_wait may return although nobody signalled. *)
SpuriousWakeup(t) ==
  /\ alive
  /\ t \in sleeping
  /\ spurious < MaxSpurious
  /\ sleeping' = sleeping \ {t}
  /\ spurious' = spurious + 1
  /\ UNCHANGED <<mutex, queue, bpc, enq, wpc, iter, req, alive>>

(* A woken worker takes the mutex again and re-evaluates the while loop. *)
Reacquire(t) ==
  /\ alive
  /\ wpc[t] = "wait"
  /\ t \notin sleeping
  /\ mutex = Free
  /\ mutex' = t
  /\ wpc' = [wpc EXCEPT ![t] = "check"]
  /\ UNCHANGED <<sleeping, queue, bpc, enq, iter, req, alive, spurious>>

(* Mutant: steque_front instead of steque_pop. *)
PopFront(t) ==
  /\ alive
  /\ wpc[t] = "check"
  /\ queue # <<>>
  /\ req' = [req EXCEPT ![t] = Head(queue)]
  /\ wpc' = [wpc EXCEPT ![t] = "unlock"]
  /\ UNCHANGED <<mutex, sleeping, queue, bpc, enq, iter, alive, spurious>>

TakeRequest(t) ==
  /\ alive
  /\ wpc[t] = "check"
  /\ queue # <<>>
  /\ req' = [req EXCEPT ![t] = Head(queue)]
  /\ queue' = Tail(queue)
  /\ wpc' = [wpc EXCEPT ![t] = "unlock"]
  /\ UNCHANGED <<mutex, sleeping, bpc, enq, iter, alive, spurious>>

Unlock(t) ==
  /\ alive
  /\ wpc[t] = "unlock"
  /\ mutex' = Free
  /\ wpc' = [wpc EXCEPT ![t] = "busy"]
  /\ UNCHANGED <<sleeping, queue, bpc, enq, iter, req, alive, spurious>>

(* The request has been performed, well or badly: i++ and around. *)
Finish(t) ==
  /\ alive
  /\ wpc[t] = "busy"
  /\ iter' = [iter EXCEPT ![t] = @ + 1]
  /\ wpc' = [wpc EXCEPT ![t] = WorkerLoop(iter[t] + 1)]
  /\ UNCHANGED <<mutex, sleeping, queue, bpc, enq, req, alive, spurious>>

(* exit() from openFile (no directory, no file) or from gfc_perform (no    *)
(* such host): every thread of the process stops.                          *)
ExitProcess(t) ==
  /\ alive
  /\ wpc[t] = "busy"
  /\ alive' = FALSE
  /\ UNCHANGED <<mutex, sleeping, queue, bpc, enq, wpc, iter, req, spurious>>

(* The synchronisation steps of worker t, all but the body of the loop. *)
WorkerSync(t) ==
  \/ Lock(t)
  \/ Wait(t)
  \/ Reacquire(t)
  \/ TakeRequest(t)
  \/ Unlock(t)

(* The process is gone: main returned or a thread called exit(). *)
Terminated == bpc = "exited" \/ ~alive

(* Nothing need happen any more: main() is gone, or waits for a thread     *)
(* that was never created.                                                 *)
PoolStutter == (Terminated \/ bpc = "stuck") /\ UNCHANGED poolVars

PoolNext ==
  \/ BossStep
  \/ PathTooLong
  \/ \E t \in Threads : WorkerSync(t) \/ Finish(t) \/ SpuriousWakeup(t) \/ ExitProcess(t)
  \/ PoolStutter

PoolSpec == PoolInit /\ [][PoolNext]_poolVars

(* Every thread that can run is eventually run.  Finish is included: a     *)
(* call of gfc_perform returns (GetFile says when it does).  No fairness   *)
(* is assumed of the mutex beyond that, nor any wakeup but the signals.    *)
PoolFairness ==
  /\ WF_poolVars(BossStep)
  /\ \A t \in Threads : WF_poolVars(WorkerSync(t) \/ Finish(t))

FairPoolSpec == PoolSpec /\ PoolFairness
-----------------------------------------------------------------------------
(* What the pool promises. *)

(* Requests worker t has popped, and requests it is still going to pop.    *)
Taken(t) == iter[t] + (IF wpc[t] \in {"unlock", "busy"} THEN 1 ELSE 0)
Wanting == {t \in Threads : wpc[t] # "missing" /\ Taken(t) < NumRequests}

(* Types; the loop counters stay within the bounds of their loops.         *)
PoolTypeOK ==
  /\ mutex \in Threads \cup {Free, Boss}
  /\ sleeping \in SUBSET Threads
  /\ queue \in Seq(Nat)
  /\ bpc \in BossStates
  /\ enq \in 0 .. Total
  /\ wpc \in [Threads -> WorkerStates]
  /\ iter \in [Threads -> 0 .. NumRequests]
  /\ req \in [Threads -> Nat]
  /\ alive \in BOOLEAN
  /\ spurious \in 0 .. MaxSpurious

(* The mutex belongs to exactly the thread that is between lock and        *)
(* unlock: steque_enqueue, steque_isempty and steque_pop never overlap.    *)
MutualExclusion ==
  /\ (mutex = Boss) <=> (bpc \in {"enqueue", "signal", "unlock"})
  /\ \A t \in Threads : (mutex = t) <=> (wpc[t] \in {"check", "unlock"})
  /\ \A t \in sleeping : wpc[t] = "wait"

(* While a worker sleeps on cond_worker, every queued request has a worker *)
(* of its own that is awake and still wants one, or the signal for it is   *)
(* about to be sent: pthread_cond_signal after each enqueue loses no       *)
(* wakeup, although it wakes one worker and may find it overtaken.         *)
NoLostWakeup ==
  sleeping # {} =>
    Len(queue) <= Cardinality(Wanting \ sleeping) + (IF bpc = "signal" THEN 1 ELSE 0)

(* The steque holds the latest requests, in the order they were enqueued,  *)
(* and the workers hold earlier ones: none is skipped or dispatched twice. *)
FifoQueue ==
  /\ Len(queue) <= enq
  /\ \A k \in DOMAIN queue : queue[k] = enq - Len(queue) + k
  /\ \A t \in Threads : req[t] <= enq - Len(queue)

(* Every request enqueued is in the steque or was taken by one iteration   *)
(* of one worker: <<t, i>> is the i-th request of worker t.                *)
Slots == {s \in Threads \X (1 .. NumRequests) : s[2] <= Taken(s[1])}
Accounting == bpc # "exited" => enq = Cardinality(Slots) + Len(queue)

(* When main() waits in pthread_join, some worker can still run or all     *)
(* have ended: num_requests * num_threads requests are no fewer than what  *)
(* the workers' loops consume, so none sleeps for a request that never     *)
(* comes, also when some workers could not be created.                     *)
JoinNeverStuck ==
  bpc = "join" =>
    \/ \A t \in Threads : Ended(t)
    \/ \E t \in Threads \ sleeping : ~Ended(t)

(* A worker that takes a request takes one later than any taken before, by *)
(* itself or by another worker: no download is performed twice.            *)
DispatchInOrder ==
  [][\A t, u \in Threads : req'[t] # req[t] => req'[t] > req[u]]_poolVars

(* Under fair scheduling the program ends: main() returns after all the    *)
(* downloads, or some thread has called exit().  The one exception: main() *)
(* joins a worker that pthread_create did not create, and is stuck there.  *)
ClientEnds == <>(Terminated \/ bpc = "stuck")

=============================================================================
