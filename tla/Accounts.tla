------------------------------ MODULE Accounts -------------------------------
(***************************************************************************)
(* The users of report.c: console.c, which takes memory for its commands,  *)
(* parameters, files and the words of each line, and gives it back with    *)
(* the sizes it computes anew; and another caller that keeps to what       *)
(* report.h says, for the operations that console.c does not use.          *)
(***************************************************************************)
EXTENDS Report, SequencesExt

CONSTANTS
  CmdSize, ParamSize, RioSize, PtrSize,  \* sizeof
  Commands, Parameters,  \* how many init_cmd and the program add
  Lines,       \* command lines: length, lengths of words, and what they do
  ErrorLimit,  \* err_limit
  BlockSizes,  \* what the other caller asks for
  MaxLines, MaxFiles, MaxCalls  \* bounds

ASSUME AccountsAssumption ==
  /\ {CmdSize, ParamSize, RioSize, PtrSize, Commands, Parameters} \subseteq Nat \ {0}
  /\ {ErrorLimit, MaxLines, MaxCalls} \subseteq Nat
  /\ MaxFiles \in Nat \ {0} /\ BlockSizes \subseteq Nat
  /\ \A l \in Lines : l.length \in Nat /\ l.words \in Seq(Nat)

VARIABLES
  pc,
  line, lines,         \* the line in hand, how many were read
  cmd_list, param_list, buf_stack,   \* their lengths
  buf, argv, saved,    \* the blocks of parse_args: argv by its argc or None, the words by their lengths
  err_cnt, quit_flag,
  blocks, calls,       \* of the other caller
  nulls, null_bytes    \* what was freed that was not there

None == -1
lists == <<cmd_list, param_list, buf_stack>>
parsed == <<buf, argv, saved>>
other == <<blocks, calls, nulls, null_bytes>>
console == <<line, lines, err_cnt, quit_flag>>
vars == <<reportVars, pc, console, lists, parsed, other>>

Init ==
  /\ ReportInit
  /\ pc = "init"
  /\ line = [length |-> 0, words |-> <<>>, what |-> "none"] /\ lines = 0
  /\ cmd_list = 0 /\ param_list = 0 /\ buf_stack = 0
  /\ buf = None /\ argv = None /\ saved = <<>>
  /\ err_cnt = 0 /\ quit_flag = FALSE
  /\ blocks = <<>> /\ calls = 0 /\ nulls = 0 /\ null_bytes = 0

At(place) == pc = place /\ status = "running"
Goto(place) == pc' = place
StopsAt(place) == At(place) /\ UNCHANGED <<pc, console, lists, parsed, other>>

(***************************************************************************)
(* What there is to give back.                                             *)
(***************************************************************************)
Total(s) ==
  LET sum[k \in 0..Len(s)] == IF k = 0 THEN 0 ELSE sum[k-1] + s[k]
  IN  sum[Len(s)]
Present(n) == IF n = None THEN 0 ELSE 1
ConsoleBytes ==
  cmd_list * CmdSize + param_list * ParamSize + buf_stack * RioSize
  + Present(buf) * buf + Present(argv) * argv * PtrSize + Total(saved) + Len(saved)
ConsoleBlocks ==
  cmd_list + param_list + buf_stack + Present(buf) + Present(argv) + Len(saved)

(* A size_t counts all the memory a process has, by bytes and by blocks:   *)
(* what would be more is refused.                                          *)
Addressable ==
  ConsoleBytes + Total(blocks) < SizeMod /\ ConsoleBlocks + Len(blocks) < SizeMod

(***************************************************************************)
(* init_cmd, console_init and the first push_file.                         *)
(***************************************************************************)
add_cmd ==
  /\ At("init") /\ cmd_list < Commands
  /\ malloc_or_fail(CmdSize)
  /\ cmd_list' = cmd_list + 1
  /\ UNCHANGED <<settings, pc, console, param_list, buf_stack, parsed, other>>
  /\ Addressable'

add_param ==
  /\ At("init") /\ cmd_list = Commands /\ param_list < Parameters
  /\ malloc_or_fail(ParamSize)
  /\ param_list' = param_list + 1
  /\ UNCHANGED <<settings, pc, console, cmd_list, buf_stack, parsed, other>>
  /\ Addressable'

Added == cmd_list = Commands /\ param_list = Parameters

(* add_cmd, add_param or push_file, when the memory is refused.            *)
GivesUp ==
  /\ \/ StopsAt("init") /\ ~Added /\ Refused(IF cmd_list < Commands THEN CmdSize ELSE ParamSize)
     \/ StopsAt("push") /\ Refused(RioSize)
  /\ UNCHANGED settings

(* main sets the verbosity and, with -l, the log; run_console returns      *)
(* false without its input, and the line it reports meets no closed log.   *)
run_console ==
  /\ At("init") /\ Added
  /\ \E level \in Levels : set_verblevel(level)
  /\ UNCHANGED log \/ \E opens \in BOOLEAN : set_logfile(opens)
  /\ Goto("push") \/ Goto("end")
  /\ UNCHANGED <<mblimit, status, counters, console, lists, parsed, other>>

push_file ==
  /\ At("push")
  /\ malloc_or_fail(RioSize)
  /\ buf_stack' = buf_stack + 1
  /\ Goto(IF argv = None THEN "next" ELSE "release")
  /\ UNCHANGED <<settings, console, cmd_list, param_list, parsed, other>>
  /\ Addressable'

pop_file ==
  /\ CountFreed(RioSize)
  /\ buf_stack' = buf_stack - 1

(***************************************************************************)
(* The loop of run_console; a last line without a newline pops its file    *)
(* before it is executed.  The line is echoed if echo is set.              *)
(***************************************************************************)
Running == At("next") /\ buf_stack > 0 /\ ~quit_flag

readline(l) ==
  /\ Running /\ lines < MaxLines
  /\ lines' = lines + 1
  /\ line' = l
  /\ Goto("parse")
  /\ UNCHANGED <<counters, buf_stack>> \/ pop_file
  /\ UNCHANGED <<log, status>> \/ report(1)
  /\ UNCHANGED <<settings, err_cnt, quit_flag, cmd_list, param_list, parsed, other>>

EndOfFile ==
  /\ Running
  /\ pop_file
  /\ UNCHANGED <<settings, log, status, pc, console, cmd_list, param_list, parsed, other>>

(* run_console is true without errors, and only then finish_cmd is called. *)
Return ==
  /\ At("next") /\ (buf_stack = 0 \/ quit_flag)
  /\ Goto(IF err_cnt = 0 /\ ~quit_flag THEN "quit" ELSE "end")
  /\ UNCHANGED <<reportVars, console, lists, parsed, other>>

(***************************************************************************)
(* parse_args and interpret_cmd.                                           *)
(***************************************************************************)
argc == Len(line.words)
Wanted ==
  IF buf = None THEN line.length + 1
  ELSE IF argv = None THEN argc * PtrSize
  ELSE line.words[Len(saved) + 1] + 1

Parsing == At("parse") /\ (argv = None \/ Len(saved) < argc)

parse_args ==
  /\ Parsing
  /\ IF buf = None
       THEN malloc_or_fail(Wanted) /\ buf' = Wanted /\ UNCHANGED <<argv, saved>>
     ELSE IF argv = None
       THEN malloc_or_fail(Wanted) /\ argv' = argc /\ UNCHANGED <<buf, saved>>
     ELSE LET word == line.words[Len(saved) + 1]
          IN  strsave_or_fail(word) /\ saved' = Append(saved, word) /\ UNCHANGED <<buf, argv>>
  /\ UNCHANGED <<settings, pc, console, lists, other>>
  /\ Addressable'

parse_fails ==
  /\ Parsing /\ Refused(Wanted)
  /\ UNCHANGED <<settings, pc, console, lists, parsed, other>>

(* Mutant: the terminator is not counted.                                  *)
parsed_short ==
  /\ At("parse") /\ argv # None /\ Len(saved) = argc
  /\ free_block(line.length)
  /\ buf' = None
  /\ Goto("execute")
  /\ UNCHANGED <<settings, console, lists, argv, saved, other>>

parsed_args ==
  /\ At("parse") /\ argv # None /\ Len(saved) = argc
  /\ free_block(line.length + 1)
  /\ buf' = None
  /\ Goto("execute")
  /\ UNCHANGED <<settings, console, lists, argv, saved, other>>

(* The words and then argv are given back, whatever the command returned.  *)
(* Mutant: not when the command was the last.                              *)
interpret_cmd_keeping ==
  /\ At("release")
  /\ IF saved # <<>> /\ ~quit_flag
       THEN /\ free_string(Head(saved))
            /\ saved' = Tail(saved) /\ UNCHANGED <<pc, argv>>
       ELSE /\ free_block(argc * PtrSize)
            /\ argv' = None /\ saved' = saved /\ Goto("next")
  /\ UNCHANGED <<settings, console, lists, buf, other>>

interpret_cmd ==
  /\ At("release")
  /\ IF saved # <<>>
       THEN /\ free_string(Head(saved))
            /\ saved' = Tail(saved) /\ UNCHANGED <<pc, argv>>
       ELSE /\ free_block(argc * PtrSize)
            /\ argv' = None /\ saved' = saved /\ Goto("next")
  /\ UNCHANGED <<settings, console, lists, buf, other>>

(***************************************************************************)
(* The commands, by what they do with report.c.                            *)
(***************************************************************************)
Executing(what) ==
  /\ At("execute") /\ line.what = what
  /\ UNCHANGED <<line, lines, lists, parsed, other, counters, mblimit>>

(* record_error.  Where the command reported its error, the line about the *)
(* limit follows one of the same level.                                    *)
Returns(ok) ==
  /\ err_cnt' = IF ok THEN err_cnt ELSE err_cnt + 1
  /\ quit_flag' = (quit_flag \/ (~ok /\ err_cnt' >= ErrorLimit))

Limited == IF err_cnt' > err_cnt /\ err_cnt' >= ErrorLimit THEN report(1) ELSE UNCHANGED <<log, status>>

Nothing == Executing("none") /\ Goto("release") /\ Returns(TRUE) /\ UNCHANGED <<verblevel, log, status>>
Unknown == Executing("unknown") /\ Goto("release") /\ Returns(FALSE) /\ report(1) /\ UNCHANGED verblevel

do_option_cmd ==
  /\ Executing("option") /\ Goto("release") /\ Returns(TRUE)
  /\ \E level \in Levels : set_verblevel(level)
  /\ UNCHANGED <<log, status>>

do_log_cmd ==
  /\ Executing("log") /\ Goto("release")
  /\ \E opens \in BOOLEAN : set_logfile(opens) /\ Returns(opens)
  /\ UNCHANGED <<verblevel, status>>

do_source_cmd ==
  /\ Executing("source")
  /\ \/ buf_stack < MaxFiles /\ Goto("push") /\ Returns(TRUE) /\ UNCHANGED <<log, status>>
     \/ Goto("release") /\ Returns(FALSE) /\ report(1)
  /\ UNCHANGED verblevel

(* A command of qtest, or its queue_quit, says any number of things: the   *)
(* harness warns, finds an error or has no memory left, or it prints.      *)
Prints ==
  /\ \/ At("execute") /\ line.what = "queue"
     \/ At("quit") /\ cmd_list = 0 /\ param_list = 0 /\ buf_stack = 0
  /\ \/ \E msg \in {"MSG_WARN", "MSG_ERROR", "MSG_FATAL"} : report_event(msg)
     \/ \E level \in 1..3 : report(level)
  /\ UNCHANGED <<settings, counters, pc, console, lists, parsed, other>>

queue_cmd ==
  /\ Executing("queue") /\ Goto("release")
  /\ \E ok \in BOOLEAN : Returns(ok)
  /\ Limited
  /\ UNCHANGED verblevel

Quits ==
  /\ Executing("quit") /\ Goto("quit")
  /\ UNCHANGED <<verblevel, log, status, err_cnt, quit_flag>>

(* The helper may return false: an error, when quit was a command.         *)
do_quit_cmd ==
  /\ At("quit")
  /\ \/ /\ cmd_list > 0 /\ free_block(CmdSize)
        /\ cmd_list' = cmd_list - 1
        /\ UNCHANGED <<pc, err_cnt, quit_flag, param_list, buf_stack>>
     \/ /\ cmd_list = 0 /\ param_list > 0 /\ free_block(ParamSize)
        /\ param_list' = param_list - 1
        /\ UNCHANGED <<pc, err_cnt, quit_flag, cmd_list, buf_stack>>
     \/ /\ cmd_list = 0 /\ param_list = 0 /\ buf_stack > 0 /\ pop_file
        /\ UNCHANGED <<pc, err_cnt, quit_flag, cmd_list, param_list, log, status>>
     \/ /\ cmd_list = 0 /\ param_list = 0 /\ buf_stack = 0
        /\ \E ok \in BOOLEAN : err_cnt' = IF ok \/ argv = None THEN err_cnt ELSE err_cnt + 1
        /\ Limited
        /\ quit_flag' = TRUE /\ Goto(IF argv = None THEN "end" ELSE "release")
        /\ UNCHANGED <<lists, counters>>
  /\ UNCHANGED <<settings, line, lines, parsed, other>>

(***************************************************************************)
(* The other caller.                                                       *)
(***************************************************************************)
Calling ==
  /\ Running /\ calls < MaxCalls
  /\ calls' = calls + 1
  /\ UNCHANGED <<settings, pc, console, lists, parsed>>

Take(bytes) ==
  /\ Calling
  /\ \/ malloc_or_fail(bytes) /\ blocks' = Append(blocks, bytes)
     \/ Refused(bytes) /\ blocks' = blocks
  /\ UNCHANGED <<nulls, null_bytes>>
  /\ Addressable'

Resize(k, bytes) ==
  /\ Calling
  /\ \/ realloc_or_fail(blocks[k], bytes) /\ blocks' = [blocks EXCEPT ![k] = bytes]
     \/ /\ IF bytes > blocks[k] THEN Refused(bytes - blocks[k])
             ELSE fail_fun /\ UNCHANGED counters
        /\ blocks' = blocks
  /\ UNCHANGED <<nulls, null_bytes>>
  /\ Addressable'

(* realloc() of a null pointer counts as a free, too.                      *)
ResizeNull(bytes) ==
  /\ Calling
  /\ realloc_or_fail(0, bytes)
  /\ blocks' = Append(blocks, bytes)
  /\ nulls' = nulls + 1 /\ null_bytes' = null_bytes
  /\ Addressable'

GiveBack(k) ==
  /\ Calling
  /\ free_block(blocks[k])
  /\ blocks' = RemoveAt(blocks, k)
  /\ UNCHANGED <<nulls, null_bytes>>

GiveBackNull(bytes) ==
  /\ Calling
  /\ free_null(bytes)
  /\ nulls' = nulls + 1 /\ null_bytes' = null_bytes + bytes
  /\ UNCHANGED blocks

ForgetPeak ==
  /\ Calling
  /\ reset_peak_bytes
  /\ UNCHANGED <<log, status, blocks, nulls, null_bytes>>

Ended == (pc = "end" \/ status # "running" \/ (Running /\ lines = MaxLines)) /\ UNCHANGED vars

Next ==
  \/ add_cmd \/ add_param \/ GivesUp \/ run_console \/ push_file
  \/ (\E l \in Lines : readline(l)) \/ EndOfFile \/ Return
  \/ parse_args \/ parse_fails \/ parsed_args \/ interpret_cmd
  \/ Nothing \/ Unknown \/ do_option_cmd \/ do_log_cmd \/ do_source_cmd
  \/ Prints \/ queue_cmd \/ Quits \/ do_quit_cmd
  \/ (\E n \in BlockSizes : Take(n) \/ ResizeNull(n) \/ GiveBackNull(n))
  \/ (\E k \in DOMAIN blocks : GiveBack(k) \/ \E n \in BlockSizes : Resize(k, n))
  \/ ForgetPeak \/ Ended

Spec == Init /\ [][Next]_vars

(***************************************************************************)
(* Properties.                                                             *)
(***************************************************************************)
TypeOK ==
  /\ verblevel \in Levels \cup {0} /\ mblimit \in Limits
  /\ streams \in Nat /\ logfile \in 0..streams /\ open \subseteq 1..streams
  /\ status \in {"running", "exited", "undefined"}
  /\ pc \in {"init", "push", "next", "parse", "execute", "release", "quit", "end"}
  /\ \A n \in {allocate_cnt, allocate_bytes, free_cnt, free_bytes, peak_bytes,
             last_peak_bytes, current_bytes} : n \in 0..SizeMod - 1
  /\ line.words \in Seq(Nat) /\ lines \in 0..MaxLines
  /\ cmd_list \in 0..Commands /\ param_list \in 0..Parameters /\ buf_stack \in 0..MaxFiles
  /\ buf \in Nat \cup {None} /\ argv \in Nat \cup {None} /\ saved \in Seq(Nat)
  /\ err_cnt \in 0..MaxLines /\ quit_flag \in BOOLEAN
  /\ blocks \in Seq(BlockSizes) /\ calls \in 0..MaxCalls /\ nulls \in Nat /\ null_bytes \in Nat

(* What is counted is what there is, through every command, with the sizes *)
(* that are computed anew for each free, and apart from null pointers that *)
(* were freed; and until one was the peaks are at least what there is.     *)
Balanced ==
  /\ (current_bytes + null_bytes) % SizeMod = ConsoleBytes + Total(blocks)
  /\ (allocate_bytes - free_bytes) % SizeMod = current_bytes
  /\ (allocate_cnt - free_cnt + nulls) % SizeMod = ConsoleBlocks + Len(blocks)
  /\ null_bytes = 0 => current_bytes <= last_peak_bytes /\ last_peak_bytes <= peak_bytes

(* No call takes memory beyond the limit, but for one: a fatal event that  *)
(* is not reported, at a negative verbosity, does not end the program.     *)
LimitKept ==
  [][(mblimit > 0 /\ null_bytes' = 0 /\ current_bytes' > current_bytes) =>
       (current_bytes' <= mblimit \/ verblevel < 0)]_vars

(* A program that quits, by the command or at the end of its input, has    *)
(* given back what the console took, in every order of files and lines.    *)
NothingLeft ==
  (pc = "end" /\ status = "running" /\ quit_flag /\ err_cnt < ErrorLimit) =>
    ConsoleBlocks = 0 /\ ConsoleBytes = 0
=============================================================================
