-------------------------------- MODULE QTest --------------------------------
(***************************************************************************)
(* The commands of qtest.c, which run the queue code under the harness.    *)
(*                                                                         *)
(* Each risky operation runs for at most a second.  When the alarm or a    *)
(* segmentation fault ends it, siglongjmp returns into the frame of        *)
(* exception_setup, which has gone: what stands in its place is the return *)
(* address of the handler's last call.  As the Makefile builds it (-O0),   *)
(* that call therefore returns a second time, with 0; Raise describes it   *)
(* for each place in the handlers.                                         *)
(***************************************************************************)
EXTENDS Queue

CONSTANTS
  MaxReps,    \* the most insertions of one command (a bound of the model)
  MaxRaised,  \* how often the alarm goes off (a bound of the model)
  fail_limit  \* how many operations may fail

ASSUME CommandsAssumption == MaxReps \in 1 .. 2 /\ MaxRaised \in Nat /\ fail_limit \in Nat

VARIABLES
  cmd,         \* the command in progress, or the last one
  reps,        \* the operations it has left, the one in progress included
  ok,          \* its result
  qcnt,        \* a size_t, like allocated_count
  fail_count,  \* up to fail_limit, beyond which it makes no difference
  verbose,     \* whether verblevel is at least 3
  raised,      \* history: "no", or an exception "inside" an operation or "outside"
  alarms       \* history: how often the alarm went off

vars == <<memory, flags, queueVars, pc, cmd, reps, ok, qcnt, fail_count, verbose, raised, alarms>>
history == <<raised, alarms>>
session == <<cmd, reps, ok, qcnt, fail_count, verbose, history>>

Inserts == {"ih", "it"}
Start(c) ==
  CASE c = "new" -> "q_new"
    [] c = "free" -> "q_free"
    [] c = "ih" -> "q_insert_head"
    [] c = "it" -> "q_insert_tail"
    [] c \in {"rh", "rh str", "rhq"} -> "q_remove_head"
    [] c = "reverse" -> "q_reverse"
    [] c = "size" -> "q_size"

Init ==
  /\ HarnessInit
  /\ QueueInit
  /\ pc = "prompt"
  /\ cmd = "quit" /\ reps = 0 /\ ok = TRUE
  /\ qcnt = 0 /\ fail_count = 0
  /\ verbose \in BOOLEAN
  /\ raised = "no" /\ alarms = 0

-----------------------------------------------------------------------------
(* From the prompt to the operation.  A new queue first frees the old one. *)
Command(c, n) ==
  /\ pc = "prompt"
  /\ cmd' = c
  /\ reps' = n
  /\ ok' = TRUE
  /\ raised' = "no"
  /\ error_occurred' = FALSE
  /\ SetUp
  /\ Goto(IF c = "new" /\ q # Null THEN "q_free" ELSE Start(c))
  /\ UNCHANGED <<memory, queueVars, qcnt, fail_count, verbose, alarms>>

(* do_show, which checks for no error first.                               *)
ShowCommand ==
  /\ pc = "prompt"
  /\ cmd' = "show"
  /\ ok' = TRUE
  /\ raised' = "no"
  /\ Goto("show")
  /\ UNCHANGED <<memory, flags, queueVars, reps, qcnt, fail_count, verbose, alarms>>

Operation ==
  \/ NewMalloc \/ NewFields
  \/ FreeStart \/ FreeNext \/ FreeValue \/ FreeElement \/ FreeQueue \/ FreeDone
  \/ InsertElement("q_insert_head", "head_value")
  \/ InsertValue("head_value", "head_link", "undo")
  \/ LinkAtHead \/ HeadTail
  \/ InsertElement("q_insert_tail", "tail_value")
  \/ InsertValue("tail_value", "tail_link", "undo")
  \/ LinkAtTail \/ TailTail
  \/ InsertSize \/ InsertUndo \/ InsertUndone
  \/ RemoveNothing(cmd # "rhq") \/ RemoveHead(cmd # "rhq")
  \/ RemoveValue \/ RemoveElement \/ RemoveSize
  \/ Size(qcnt)
  \/ ReverseStart \/ ReverseNext \/ ReverseEnd

Operate == Operation /\ UNCHANGED session
CountBlocks == Count /\ UNCHANGED <<flags, queueVars, pc, session>>

-----------------------------------------------------------------------------
(* The count of failures, and whether they are still allowed.              *)
Failures == IF fail_count < fail_limit THEN fail_count + 1 ELSE fail_limit
Allowed == fail_count + 1 < fail_limit

(* The end of a turn of the loops of the insertions and of size: the       *)
(* operation's result is counted, and the error check decides whether to   *)
(* go on ("again").                                                        *)
EndOfBody(good) ==
  LET fine == ok /\ good /\ ~error_occurred IN
    /\ ok' = fine
    /\ error_occurred' = FALSE
    /\ Goto(IF fine /\ reps > 1 THEN "again" ELSE "cancel")
    /\ UNCHANGED reps

(* r++, and the next turn.                                                 *)
NextTurn ==
  /\ pc = "again"
  /\ reps' = reps - 1
  /\ Goto(Start(cmd))
  /\ UNCHANGED <<memory, flags, queueVars, cmd, ok, qcnt, fail_count, verbose, history>>

Inserted ==
  /\ pc = "returned"
  /\ cmd \in Inserts
  /\ rval
  /\ head # Null
  /\ qcnt' = qcnt + 1
  /\ EndOfBody(TRUE)
  /\ UNCHANGED <<memory, jmp_ready, queueVars, cmd, fail_count, verbose, history>>

InsertFailed ==
  /\ pc = "returned"
  /\ cmd \in Inserts
  /\ ~rval
  /\ fail_count' = Failures
  /\ EndOfBody(Allowed)
  /\ UNCHANGED <<memory, jmp_ready, queueVars, cmd, qcnt, verbose, history>>

(* An element was inserted and there is no head to look at: the handler    *)
(* itself faults, after it has counted the element.                        *)
InsertFaults ==
  /\ pc = "returned"
  /\ cmd \in Inserts
  /\ rval
  /\ head = Null
  /\ qcnt' = qcnt + 1
  /\ raised' = "inside"
  /\ Jump
  /\ rval' = FALSE
  /\ UNCHANGED <<q, struct, elements, locals, lost, pc, cmd, reps, ok, fail_count, verbose, alarms>>

(* The same in a turn after the alarm: with nowhere to jump to, exit(1).   *)
InsertExits ==
  /\ pc = "returned"
  /\ cmd \in Inserts
  /\ rval
  /\ head = Null
  /\ ~jmp_ready
  /\ Goto("exited")
  /\ UNCHANGED <<memory, flags, queueVars, session>>

Exited == pc = "exited" /\ UNCHANGED vars

Sized ==
  /\ pc = "returned"
  /\ cmd = "size"
  /\ EndOfBody(TRUE)
  /\ UNCHANGED <<memory, jmp_ready, queueVars, cmd, qcnt, fail_count, verbose, history>>

(* exception_cancel and what follows it up to the queue's being shown,     *)
(* which happens at verbosity 3 only.                                      *)
Finish(good) ==
  /\ ok' = good
  /\ jmp_ready' = FALSE
  /\ Goto(IF verbose THEN "show" ELSE "check")
  /\ reps' = 0 /\ rval' = FALSE
  /\ UNCHANGED <<memory, error_occurred, q, struct, elements, locals, lost, cmd, verbose, history>>

FinishInsert ==
  /\ pc = "cancel"
  /\ cmd \in Inserts
  /\ Finish(ok)
  /\ UNCHANGED <<qcnt, fail_count>>

FinishSize ==
  /\ pc = "cancel"
  /\ cmd = "size"
  /\ Finish(ok /\ rval)
  /\ UNCHANGED <<qcnt, fail_count>>

FinishReverse ==
  /\ pc = "returned"
  /\ cmd = "reverse"
  /\ Finish(ok)
  /\ UNCHANGED <<qcnt, fail_count>>

(* With an expected value, it may be another; a failure is then an error.  *)
FinishRemove ==
  /\ pc = "returned"
  /\ cmd \in {"rh", "rh str", "rhq"}
  /\ IF rval
     THEN /\ qcnt' = qcnt - 1
          /\ \E equal \in BOOLEAN : (cmd = "rh" => equal) /\ Finish(ok /\ equal)
          /\ UNCHANGED fail_count
     ELSE /\ fail_count' = Failures
          /\ Finish(ok /\ cmd # "rh str" /\ Allowed)
          /\ UNCHANGED qcnt

(* The fields of a queue that is gone are as good as reset.                *)
Forget ==
  /\ q' = Null
  /\ head' = Null /\ tail' = Null /\ size' = 0
  /\ qcnt' = 0
  /\ rval' = FALSE
  /\ UNCHANGED <<elements, locals, lost>>

(* do_free, on its own or called by do_new, which goes on to the new queue.*)
FinishFree ==
  LET good == ok /\ allocated_count = 0 /\ ~error_occurred IN
    /\ pc = "returned"
    /\ cmd = "free" \/ (cmd = "new" /\ reps = 2)
    /\ ok' = good
    /\ error_occurred' = FALSE
    /\ Forget
    /\ IF cmd = "new"
       THEN reps' = 1 /\ SetUp /\ Goto("q_new")
       ELSE reps' = 0 /\ jmp_ready' = FALSE /\ Goto("prompt")
    /\ UNCHANGED <<memory, cmd, fail_count, verbose, history>>

FinishNew ==
  /\ pc = "returned"
  /\ cmd = "new"
  /\ reps = 1
  /\ qcnt' = 0
  /\ Finish(ok)
  /\ UNCHANGED fail_count

(* Mutant: only the handler's own checks count.                            *)
FinalCheckLeftOut ==
  /\ pc = "check"
  /\ Goto("prompt")
  /\ UNCHANGED <<memory, flags, queueVars, session>>

FinalCheck ==
  /\ pc = "check"
  /\ ok' = (ok /\ (cmd \in Inserts \/ ~error_occurred))
  /\ error_occurred' = (error_occurred /\ cmd \in Inserts)
  /\ Goto("prompt")
  /\ UNCHANGED <<memory, jmp_ready, queueVars, cmd, reps, qcnt, fail_count, verbose, history>>

-----------------------------------------------------------------------------
(* show_queue walks up to qcnt elements and checks for errors at each one, *)
(* whoever made them.                                                      *)
Walks == q # Null /\ head # Null /\ qcnt # 0

Length == Cardinality(Listed)

ShowOk == q = Null \/ (~(Walks /\ error_occurred) /\ (qcnt < 0 \/ Length <= qcnt))

AfterShow == Goto(IF cmd = "show" THEN "prompt" ELSE "check")

Show ==
  /\ pc = "show"
  /\ error_occurred' = (error_occurred /\ ~Walks)
  /\ ok' = IF cmd = "show" THEN ShowOk ELSE ok
  /\ AfterShow
  /\ UNCHANGED <<memory, jmp_ready, queueVars, cmd, reps, qcnt, fail_count, verbose, history>>

Alarm == alarms < MaxRaised /\ alarms' = alarms + 1

(* The alarm goes off meanwhile; the loop may see the error or have ended. *)
ShowTimesOut ==
  /\ pc = "show"
  /\ q # Null
  /\ \E seen \in BOOLEAN :
       /\ seen => Walks
       /\ error_occurred' = ~seen
       /\ ok' = IF cmd = "show" /\ seen THEN FALSE ELSE ok
  /\ raised' = IF raised = "no" THEN "outside" ELSE raised
  /\ Alarm
  /\ AfterShow
  /\ UNCHANGED <<memory, jmp_ready, queueVars, cmd, reps, qcnt, fail_count, verbose>>

-----------------------------------------------------------------------------
(* The alarm, during or just after an operation: it returns 0.             *)
Raise ==
  /\ pc \in Inside \cup {"returned"}
  /\ Jump
  /\ q' = IF cmd = "new" /\ reps = 1 THEN Null ELSE q
  /\ Return(FALSE)
  /\ raised' = "inside"
  /\ Alarm
  /\ UNCHANGED <<struct, elements, lost, cmd, reps, ok, qcnt, fail_count, verbose>>

(* The alarm, before an operation of a loop is called or after a check:    *)
(* the first turn is left out with the whole loop, a later one alone; of   *)
(* two turns, nothing then remains.  Between the check and r++ the check   *)
(* returns again, and the next turn runs without an alarm.                 *)
RaiseInLoop ==
  /\ cmd \in Inserts \cup {"size"}
  /\ pc \in Starts \cup {"again", "cancel"}
  /\ Jump
  /\ Goto(IF pc = "again" THEN "again" ELSE "cancel")
  /\ raised' = "outside"
  /\ Alarm
  /\ UNCHANGED <<queueVars, cmd, reps, ok, qcnt, fail_count, verbose>>

Progress ==
  \/ Operate \/ CountBlocks
  \/ Inserted \/ InsertFailed \/ InsertFaults \/ InsertExits \/ Sized \/ NextTurn
  \/ FinishInsert \/ FinishSize \/ FinishReverse \/ FinishRemove \/ FinishFree \/ FinishNew
  \/ FinalCheck \/ Show

Interruption == Raise \/ RaiseInLoop \/ ShowTimesOut

Commands ==
  \/ \E c \in Inserts, n \in 1 .. MaxReps : Command(c, n)
  \/ \E c \in {"free", "rh", "rh str", "rhq", "reverse", "size"} : Command(c, 1)
  \/ Command("new", IF q = Null THEN 1 ELSE 2)
  \/ ShowCommand

Next == Commands \/ Progress \/ Interruption \/ Exited

Spec == Init /\ [][Next]_vars

-----------------------------------------------------------------------------
TypeOK ==
  /\ allocated \subseteq Blocks /\ allocated_count \in Int /\ owed \in {-1, 0, 1}
  /\ {error_occurred, jmp_ready, rval, lost, ok, verbose} \subseteq BOOLEAN
  /\ {q, head, tail, elt, curr, prev} \subseteq Pointers /\ size \in Int
  /\ value \in [Blocks -> Pointers] /\ next \in [Blocks -> Pointers]
  /\ corrupt \subseteq Blocks
  /\ pc \in Inside \cup {"prompt", "returned", "again", "cancel", "show", "check", "exited"}
  /\ cmd \in Inserts \cup {"quit", "new", "free", "rh", "rh str", "rhq", "reverse", "size", "show"}
  /\ reps \in 0 .. 2 /\ qcnt \in Int /\ fail_count \in 0 .. fail_limit
  /\ raised \in {"no", "inside", "outside"} /\ alarms \in 0 .. MaxRaised

(* Between commands, and wherever the alarm cut an operation short: the    *)
(* list from head comes to an end, and all of it is allocated, strings     *)
(* included.  No later command can run into freed memory or into a cycle.  *)
HeadSound ==
  pc \in {"prompt", "show", "check"} =>
    /\ \E k \in 0 .. Cardinality(Blocks) : Follow[k] = Null
    /\ \A b \in Listed : {b, value[b]} \subseteq allocated

(* The operations free only what is allocated, and follow no pointer of    *)
(* memory they have freed.                                                 *)
FreesAllocated ==
  /\ pc \in {"free_value", "remove_value"} => value[elt] \in allocated
  /\ pc \in {"free_element", "remove_element", "undo"} => elt \in allocated
  /\ pc = "free_loop" => q \in allocated /\ curr \in allocated \cup {Null}
  /\ pc = "reverse_loop" => curr \in allocated \cup {Null}

(* As long as nothing was interrupted and no insertion missed the list:    *)
(* the queue's size, the handlers' count and the list's length agree, the  *)
(* queue, its elements and their strings are all that is allocated, and    *)
(* the harness has counted them right.                                     *)
Consistent ==
  pc = "prompt" /\ alarms = 0 /\ ~lost =>
    /\ qcnt = Length /\ size = Length
    /\ allocated = ({q} \ {Null}) \cup Listed \cup {value[b] : b \in Listed}
    /\ allocated_count = Cardinality(allocated)
    /\ q # Null => allocated_count = 1 + 2 * Length

(* Without interruptions, free reports a leak exactly when there is one.   *)
FreeIsHonest ==
  pc = "prompt" /\ cmd = "free" /\ alarms = 0 =>
    /\ ok => allocated = {}
    /\ ~lost => ok

(* A command in which an exception was raised fails: new and free in any   *)
(* case, the insertions and size when it came during an operation, the     *)
(* others when the queue is not shown, for showing it forgets the error.   *)
FailuresSurface ==
  pc = "prompt" /\ raised # "no" =>
    \/ ~ok
    \/ cmd \in Inserts \cup {"size"} /\ raised = "outside"
    \/ cmd \in {"rh", "rh str", "rhq", "reverse"} /\ verbose
    \/ cmd = "show"

=============================================================================
