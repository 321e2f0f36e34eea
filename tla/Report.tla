------------------------------- MODULE Report --------------------------------
(***************************************************************************)
(* report.c: the messages with their log file, and the counters of the     *)
(* memory its callers take.  A size_t is a number modulo SizeMod.  Streams *)
(* are numbered in the order fopen() gave them; a line put to a stream     *)
(* that was closed is undefined behaviour, after which nothing is said.    *)
(***************************************************************************)
EXTENDS Integers

CONSTANTS
  SizeMod,   \* 2^w
  Levels,    \* the values the verbosity is set to
  Limits     \* the values of mblimit, in bytes; nothing in this build sets it

ASSUME ReportAssumption ==
  SizeMod \in Nat \ {0} /\ Levels \subseteq Int /\ Limits \subseteq 0..SizeMod - 1

VARIABLES
  verblevel,
  mblimit,
  logfile,       \* the stream logfile points to, or 0
  streams,       \* how many were opened
  open,          \* those that are open
  status,        \* "running", "exited" or "undefined"
  allocate_cnt,
  allocate_bytes,
  free_cnt,
  free_bytes,
  peak_bytes,
  last_peak_bytes,
  current_bytes

log == <<logfile, streams, open>>
counters == <<allocate_cnt, allocate_bytes, free_cnt, free_bytes,
              peak_bytes, last_peak_bytes, current_bytes>>
settings == <<verblevel, mblimit>>
reportVars == <<settings, log, status, counters>>

ReportInit ==
  /\ verblevel = 0 /\ mblimit \in Limits
  /\ logfile = 0 /\ streams = 0 /\ open = {}
  /\ status = "running"
  /\ allocate_cnt = 0 /\ allocate_bytes = 0 /\ free_cnt = 0 /\ free_bytes = 0
  /\ peak_bytes = 0 /\ last_peak_bytes = 0 /\ current_bytes = 0

(***************************************************************************)
(* Messages.                                                               *)
(***************************************************************************)
Dangling == logfile # 0 /\ logfile \notin open

report(level) ==
  /\ status' = IF level <= verblevel /\ Dangling THEN "undefined" ELSE status
  /\ UNCHANGED log

(* A warning or an error closes the log and leaves logfile as it is.       *)
LevelOf(msg) == IF msg = "MSG_WARN" THEN 2 ELSE IF msg = "MSG_ERROR" THEN 1 ELSE 0

report_event(msg) ==
  IF verblevel < LevelOf(msg) THEN UNCHANGED <<log, status>>
  ELSE
    /\ open' = open \ {logfile}
    /\ status' = IF Dangling \/ (msg = "MSG_FATAL" /\ logfile # 0) THEN "undefined"
                 ELSE IF msg = "MSG_FATAL" THEN "exited" ELSE status
    /\ UNCHANGED <<logfile, streams>>

(* The message, the default fatal_fun's, and then the log is closed.       *)
fail_fun ==
  /\ status' = IF Dangling THEN "undefined" ELSE "exited"
  /\ open' = open \ {logfile}
  /\ UNCHANGED <<logfile, streams>>

(* The stream that was open before stays open.                             *)
set_logfile(opens) ==
  /\ streams' = IF opens THEN streams + 1 ELSE streams
  /\ logfile' = IF opens THEN streams + 1 ELSE 0
  /\ open' = IF opens THEN open \cup {streams + 1} ELSE open

set_verblevel(level) == verblevel' = level

(***************************************************************************)
(* Memory.                                                                 *)
(***************************************************************************)
Larger(a, b) == IF a < b THEN b ELSE a

CountAllocated(bytes, more) ==
  /\ allocate_cnt' = (allocate_cnt + 1) % SizeMod
  /\ allocate_bytes' = (allocate_bytes + bytes) % SizeMod
  /\ current_bytes' = (current_bytes + more) % SizeMod
  /\ peak_bytes' = Larger(peak_bytes, current_bytes')
  /\ last_peak_bytes' = Larger(last_peak_bytes, current_bytes')

CountFreed(bytes) ==
  /\ free_cnt' = (free_cnt + 1) % SizeMod
  /\ free_bytes' = (free_bytes + bytes) % SizeMod
  /\ current_bytes' = (current_bytes - bytes) % SizeMod
  /\ UNCHANGED <<allocate_cnt, allocate_bytes, peak_bytes, last_peak_bytes>>

(* Mutant: the block to come is not in the sum.                            *)
check_exceed_late(new_bytes) == mblimit > 0 /\ current_bytes % SizeMod > mblimit

check_exceed(new_bytes) == mblimit > 0 /\ (new_bytes + current_bytes) % SizeMod > mblimit

(* A block is refused by a fatal event if the limit is exceeded, which     *)
(* only a negative verbosity lets return, or if there is no memory.        *)
Refused(bytes) ==
  /\ \/ check_exceed(bytes) /\ verblevel >= 0 /\ report_event("MSG_FATAL")
     \/ ~(check_exceed(bytes) /\ verblevel >= 0) /\ fail_fun
  /\ UNCHANGED counters

malloc_or_fail(bytes) ==
  /\ ~(check_exceed(bytes) /\ verblevel >= 0)
  /\ CountAllocated(bytes, bytes)
  /\ UNCHANGED <<free_cnt, free_bytes, log, status>>

strsave_or_fail(length) == malloc_or_fail(length + 1)

(* The limit is looked at for the growth only.                             *)
realloc_or_fail(old_bytes, new_bytes) ==
  /\ new_bytes > old_bytes => ~(check_exceed(new_bytes - old_bytes) /\ verblevel >= 0)
  /\ CountAllocated(new_bytes, new_bytes - old_bytes)
  /\ free_cnt' = (free_cnt + 1) % SizeMod
  /\ free_bytes' = (free_bytes + old_bytes) % SizeMod
  /\ UNCHANGED <<log, status>>

free_block(bytes) == CountFreed(bytes) /\ UNCHANGED <<log, status>>

free_string(length) == free_block(length + 1)

(* An error is reported and the block that is not there is counted.        *)
free_null(bytes) == CountFreed(bytes) /\ report_event("MSG_ERROR")

reset_peak_bytes ==
  /\ last_peak_bytes' = current_bytes
  /\ UNCHANGED <<allocate_cnt, allocate_bytes, free_cnt, free_bytes, peak_bytes, current_bytes>>
=============================================================================
