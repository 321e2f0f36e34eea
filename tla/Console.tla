------------------------------ MODULE Console ------------------------------
(***************************************************************************)
(* The command interpreter of console.c, as main() of qtest.c runs it: a   *)
(* stack of buffered input files, the main loop of run_console and         *)
(* cmd_select, the built-in commands, and how the process ends.            *)
(*                                                                         *)
(* A file is a sequence of units: the word that is a command, with its     *)
(* arguments in its record, any unit after it on the line, which no        *)
(* command looks at, and the newline.  BufSize and LineMax count units     *)
(* where RIO_BUFSIZE counts bytes.                                         *)
(***************************************************************************)
EXTENDS Integers, Sequences, SequencesExt, FiniteSetsExt

CONSTANTS
  Texts,    \* what the files may hold: a set of functions from file names
  Infile,   \* the console's own input, a pipe or a terminal or a file
  Newline,  \* the unit that ends a line
  Bad,      \* a setting of option that cannot be read, or of no parameter
  BufSize,  \* RIO_BUFSIZE
  LineMax,  \* RIO_BUFSIZE - 2, the most units readline() takes for a line
  MaxOpen,  \* how many files the process can have open as input
  ErrLimit  \* err_limit at first

(* A unit that is a command: its name, how many times "time" stands in     *)
(* front of it, and the settings of option.                                *)
IsCommand(c) ==
  /\ c.times \in Nat
  /\ c.op = "option" =>
       c.values \in Seq({c.values[k] : k \in DOMAIN c.values})
         /\ \A k \in DOMAIN c.values : c.values[k] = Bad \/ c.values[k] \in Int

ASSUME ConsoleAssumption ==
  /\ \A t \in Texts :
       /\ Infile \in DOMAIN t
       /\ \A f \in DOMAIN t :
            /\ t[f] \in Seq({t[f][k] : k \in DOMAIN t[f]})
            /\ \A k \in DOMAIN t[f] : t[f][k] # Newline => IsCommand(t[f][k])
  /\ BufSize \in Nat \ {0} /\ LineMax \in Nat \ {0} /\ MaxOpen \in Nat \ {0}
  /\ ErrLimit \in Int

VARIABLES
  text,       \* what each file holds
  arrived,    \* how many units Infile has got, one more when it has ended
  buf_stack,  \* the open files, the current first: what read() has taken of
              \* each (pos) and how much of that is unread (cnt)
  linebuf,    \* the line as far as readline() has got
  err_cnt,    \* how many errors were recorded
  err_limit,  \* and how many may be
  quit_flag,  \* nothing more is executed
  pc,         \* "start", "main" (in run_console), "loop" (in the first loop of
              \* cmd_select), "reading" (in readline), "command" (in
              \* interpret_cmd) or "exited"
  after,      \* where readline's caller goes on: "main" or "loop"
  status,     \* the exit status
  ran,        \* history: how many commands have been interpreted
  failed,     \* history: some command failed
  quits,      \* history: how often do_quit_cmd has freed the lists
  helped      \* history: what the quit helper answered, or "none"

input == <<text, arrived>>
errors == <<err_cnt, err_limit, quit_flag, ran, failed>>
ending == <<status, quits, helped>>
vars == <<input, buf_stack, linebuf, errors, pc, after, ending>>

Top == Head(buf_stack)
Size(f) == Len(text[f])
Consumed(e) == e.pos - e.cnt

(* What read() can take of a file now: Infile may wait for its writer.     *)
Available(e) ==
  LET there == IF e.file = Infile /\ arrived <= Size(Infile) THEN arrived ELSE Size(e.file)
  IN  there - e.pos
AtEof(e) == Available(e) = 0 /\ (e.file = Infile => arrived > Size(Infile))
Readable(e) == Available(e) > 0 \/ AtEof(e)

Opened(f) == [file |-> f, pos |-> 0, cnt |-> 0]

Init ==
  /\ text \in Texts
  /\ arrived \in {0, Size(Infile) + 1}
  /\ buf_stack = <<>>
  /\ linebuf = <<>>
  /\ err_cnt = 0
  /\ err_limit = ErrLimit
  /\ quit_flag = FALSE
  /\ pc = "start"
  /\ after = "main"
  /\ status = -1
  /\ ran = 0
  /\ failed = FALSE
  /\ quits = 0
  /\ helped = "none"

(* The writer of Infile adds a unit, or closes it.                         *)
Arrive ==
  /\ arrived <= Size(Infile)
  /\ arrived' = arrived + 1
  /\ UNCHANGED <<text, buf_stack, linebuf, errors, pc, after, ending>>

(* run_console's push_file, which may find no such file.                   *)
Start ==
  /\ pc = "start"
  /\ \/ pc' = "main" /\ buf_stack' = <<Opened(Infile)>> /\ UNCHANGED status
     \/ pc' = "exited" /\ status' = 1 /\ UNCHANGED buf_stack
  /\ UNCHANGED <<input, linebuf, errors, after, quits, helped>>

cmd_done == buf_stack = <<>> \/ quit_flag

(* read_ready: the buffer of the current file holds a whole line.          *)
ReadReady ==
  /\ buf_stack # <<>>
  /\ \E k \in Consumed(Top) + 1 .. Top.pos : text[Top.file][k] = Newline

(* Mutant: cmd_select asks select() even with a line in the buffer.        *)
BufferedLineSelected ==
  /\ pc = "loop" \/ (pc = "main" /\ ~cmd_done)
  /\ ReadReady
  /\ Readable(Top)
  /\ pc' = "reading"
  /\ after' = "loop"
  /\ UNCHANGED <<input, buf_stack, linebuf, errors, ending>>

(* cmd_select's loop over the lines in the buffer, which does not ask      *)
(* whether the last of them was one error too many.                        *)
BufferedLine ==
  /\ pc = "loop" \/ (pc = "main" /\ ~cmd_done)
  /\ ReadReady
  /\ pc' = "reading"
  /\ after' = "loop"
  /\ UNCHANGED <<input, buf_stack, linebuf, errors, ending>>

(* Then cmd_select waits until select() finds the file readable.  The set  *)
(* it gives select() is not cleared, so select() may also return for       *)
(* another file or fail; run_console calls cmd_select again.               *)
SelectedLine ==
  /\ pc \in {"main", "loop"}
  /\ ~cmd_done
  /\ ~ReadReady
  /\ Readable(Top)
  /\ pc' = "reading"
  /\ after' = "main"
  /\ UNCHANGED <<input, buf_stack, linebuf, errors, ending>>

(* readline: the buffer is empty, and read() takes what there is.          *)
Fill ==
  /\ pc = "reading"
  /\ Top.cnt = 0
  /\ \E n \in 1 .. BufSize :
       /\ n <= Available(Top)
       /\ buf_stack' = [buf_stack EXCEPT ![1].pos = @ + n, ![1].cnt = n]
  /\ UNCHANGED <<input, linebuf, errors, pc, after, ending>>

(* Mutant: a last line without a newline is dropped.                       *)
EndOfFileDropping ==
  /\ pc = "reading"
  /\ Top.cnt = 0
  /\ AtEof(Top)
  /\ buf_stack' = Tail(buf_stack)
  /\ pc' = after
  /\ linebuf' = <<>>
  /\ UNCHANGED <<input, errors, after, ending>>

(* readline: read() is at the end of the file, which is closed; a last     *)
(* line without a newline is a command still.                              *)
EndOfFile ==
  /\ pc = "reading"
  /\ Top.cnt = 0
  /\ AtEof(Top)
  /\ buf_stack' = Tail(buf_stack)
  /\ pc' = IF linebuf = <<>> THEN after ELSE "command"
  /\ UNCHANGED <<input, linebuf, errors, after, ending>>

(* readline: the next unit goes to the line, which ends with a newline or  *)
(* when it is too long: what is left of it is taken for a line of its own. *)
TakeUnit ==
  /\ pc = "reading"
  /\ Top.cnt > 0
  /\ LET u == text[Top.file][Consumed(Top) + 1] IN
       /\ linebuf' = IF u = Newline THEN linebuf ELSE Append(linebuf, u)
       /\ pc' = IF u = Newline \/ Len(linebuf') = LineMax THEN "command" ELSE "reading"
       /\ buf_stack' = [buf_stack EXCEPT ![1].cnt = @ - 1]
  /\ UNCHANGED <<input, errors, after, ending>>

-----------------------------------------------------------------------------
(* Mutant: an error under time is not recorded.                            *)
ReturnedTimed(c, ok, limit) ==
  LET n == IF ok \/ c.times > 0 THEN err_cnt ELSE err_cnt + 1 IN
    /\ err_limit' = limit
    /\ err_cnt' = n
    /\ quit_flag' = (c.op = "quit" \/ (~ok /\ n >= limit))
    /\ ran' = ran + 1
    /\ failed' = (failed \/ ~ok)
    /\ pc' = after
    /\ linebuf' = <<>>

(* How often an error of a command is recorded: each time in front of it   *)
(* is a command that fails with it, and do_time_cmd calls interpret_cmda.  *)
Records(c) == 1 + c.times

(* The command returns to interpret_cmda, which records an error.          *)
Returned(c, ok, limit) ==
  LET n == IF ok THEN err_cnt ELSE err_cnt + Records(c) IN
    /\ err_limit' = limit
    /\ err_cnt' = n
    /\ quit_flag' = (c.op = "quit" \/ (~ok /\ n >= limit))
    /\ ran' = ran + 1
    /\ failed' = (failed \/ ~ok)
    /\ pc' = after
    /\ linebuf' = <<>>

(* do_quit_cmd: the lists are freed, the files closed, the helper called.  *)
Quit(ok) ==
  /\ quits' = quits + 1
  /\ helped' = IF ok THEN "ok" ELSE "failed"
  /\ buf_stack' = <<>>

(* An operation of qtest.c or a built-in command that only prints, and a   *)
(* name no command has.                                                    *)
Call(c, ok) ==
  /\ c.op = "call" \/ (c.op = "unknown" /\ ~ok)
  /\ Returned(c, ok, err_limit)
  /\ UNCHANGED <<buf_stack, ending>>

(* do_source_cmd: push_file fails for want of the file or a descriptor.    *)
Source(c) ==
  LET opens == c.file \in DOMAIN text /\ Len(buf_stack) < MaxOpen IN
    /\ c.op = "source"
    /\ buf_stack' = IF opens THEN <<Opened(c.file)>> \o buf_stack ELSE buf_stack
    /\ Returned(c, opens, err_limit)
    /\ UNCHANGED ending

(* do_option_cmd on settings of error: they take effect one by one, up to  *)
(* the first that is bad.                                                  *)
Option(c) ==
  LET bad == {k \in DOMAIN c.values : c.values[k] = Bad}
      set == {k \in DOMAIN c.values : \A b \in bad : k < b}
  IN  /\ c.op = "option"
      /\ Returned(c, bad = {}, IF set = {} THEN err_limit ELSE c.values[Max(set)])
      /\ UNCHANGED <<buf_stack, ending>>

QuitCommand(c, ok) ==
  /\ c.op = "quit"
  /\ Quit(ok)
  /\ Returned(c, ok, err_limit)
  /\ UNCHANGED status

(* parse_args: what the line's units are to interpret_cmda.                *)
FirstWord(line) == line[1]

(* interpret_cmd: a blank line is no command, and after the last error no  *)
(* line is.                                                                *)
Interpret ==
  /\ pc = "command"
  /\ \/ /\ quit_flag \/ linebuf = <<>>
        /\ pc' = after
        /\ linebuf' = <<>>
        /\ UNCHANGED <<buf_stack, errors, ending>>
     \/ /\ ~quit_flag
        /\ linebuf # <<>>
        /\ LET c == FirstWord(linebuf) IN
             \/ \E ok \in BOOLEAN : Call(c, ok) \/ QuitCommand(c, ok)
             \/ Source(c)
             \/ Option(c)
  /\ UNCHANGED <<input, after>>

(* Mutant: finish_cmd calls do_quit_cmd whatever quit_flag says.           *)
FinishAgain ==
  /\ pc = "main" \/ (pc = "loop" /\ ~ReadReady)
  /\ cmd_done
  /\ pc' = "exited"
  /\ \/ /\ err_cnt # 0
        /\ status' = 1
        /\ UNCHANGED <<buf_stack, quits, helped>>
     \/ /\ err_cnt = 0
        /\ \E ok \in BOOLEAN : Quit(ok) /\ status' = IF ok THEN 0 ELSE 1
  /\ UNCHANGED <<input, linebuf, errors, after>>

(* run_console returns whether there was no error, and main() calls        *)
(* finish_cmd only then.                                                   *)
Finish ==
  /\ pc = "main" \/ (pc = "loop" /\ ~ReadReady)
  /\ cmd_done
  /\ pc' = "exited"
  /\ \/ /\ err_cnt # 0
        /\ status' = 1
        /\ UNCHANGED <<buf_stack, quits, helped>>
     \/ /\ err_cnt = 0
        /\ ~quit_flag
        /\ \E ok \in BOOLEAN : Quit(ok) /\ status' = IF ok THEN 0 ELSE 1
     \/ /\ err_cnt = 0
        /\ quit_flag
        /\ status' = 0
        /\ UNCHANGED <<buf_stack, quits, helped>>
  /\ UNCHANGED <<input, linebuf, errors, after>>

Exited == pc = "exited" /\ UNCHANGED vars

ConsoleStep ==
  \/ Start
  \/ BufferedLine
  \/ SelectedLine
  \/ Fill
  \/ EndOfFile
  \/ TakeUnit
  \/ Interpret
  \/ Finish

Next == ConsoleStep \/ Arrive \/ Exited

Spec == Init /\ [][Next]_vars

(* The process runs; whoever writes its input may stop at any point.       *)
FairSpec == Spec /\ WF_vars(ConsoleStep)

-----------------------------------------------------------------------------
TypeOK ==
  /\ text \in Texts
  /\ arrived \in 0 .. Size(Infile) + 1
  /\ Len(buf_stack) <= MaxOpen
  /\ \A k \in DOMAIN buf_stack :
       LET e == buf_stack[k] IN
         /\ e.file \in DOMAIN text
         /\ e.pos \in 0 .. Size(e.file)
         /\ e.cnt \in 0 .. e.pos /\ e.cnt <= BufSize
  /\ Len(linebuf) <= LineMax
  /\ err_cnt \in Nat /\ ran \in Nat /\ err_limit \in Int
  /\ quit_flag \in BOOLEAN /\ failed \in BOOLEAN
  /\ pc \in {"start", "main", "loop", "reading", "command", "exited"}
  /\ after \in {"main", "loop"}
  /\ status \in {-1, 0, 1}
  /\ quits \in Nat
  /\ helped \in {"none", "ok", "failed"}

(* The commands in the last n of a sequence of units, of which readline()  *)
(* has c already of the line they go on with: the first unit of a line is  *)
(* one, and so is each that readline() is too full to take.                *)
Commands(units) ==
  LET last[n \in 0 .. Len(units)] ==
        [c \in 0 .. LineMax - 1 |->
           IF n = 0 THEN <<>>
           ELSE IF units[Len(units) - n + 1] = Newline THEN last[n - 1][0]
           ELSE (IF c = 0 THEN <<units[Len(units) - n + 1]>> ELSE <<>>)
                \o last[n - 1][IF c + 1 = LineMax THEN 0 ELSE c + 1]]
  IN  last

(* What an open file still holds, and what a whole one does.               *)
Rest(e, c) == Commands(text[e.file])[Size(e.file) - Consumed(e)][c]
Whole(f) == Commands(text[f])[Size(f)][0]

Todo ==
  LET begun(k) == IF pc = "reading" /\ k = 1 THEN Len(linebuf) ELSE 0
      open == [k \in DOMAIN buf_stack |-> Rest(buf_stack[k], begun(k))]
      read == IF pc \in {"reading", "command"} /\ linebuf # <<>>
              THEN <<FirstWord(linebuf)>> ELSE <<>>
  IN  IF pc = "start" THEN Whole(Infile) ELSE read \o FlattenSeq(open)

(* However read() cuts the files into buffers and lines across them,       *)
(* however source nests and wherever a file ends, the commands executed    *)
(* are those of the files in their order, none lost and none twice, and    *)
(* none after quit or the last error.                                      *)
S == INSTANCE Script WITH
       Input <- Infile,
       lines <- [f \in DOMAIN text |-> Whole(f)],
       todo <- Todo,
       ran <- ran,
       stopped <- quit_flag \/ pc = "exited"

RefinesScript == S!ScriptSpec

(* The process ends with status 0 if and only if no command failed, every  *)
(* one was executed or quit was, and the queue was freed without a leak.   *)
HonestExit ==
  pc = "exited" =>
    /\ status = 0 <=> ~failed /\ helped = "ok"
    /\ status = 0 => Todo = <<>>

(* The lists of commands and parameters are freed once at most, whether by *)
(* a quit command or by finish_cmd, and so is the queue; they are if all   *)
(* went well.                                                              *)
QuitsOnce == quits <= 1 /\ (status = 0 => quits = 1)

(* A line that has arrived on the console's input is taken without waiting *)
(* for what comes after it, from the buffer or from read(), and the        *)
(* program ends when its input does.                                       *)
Answered(k) ==
  (arrived = k /\ (k <= Size(Infile) => text[Infile][k] = Newline))
    ~> \/ pc = "exited"
       \/ arrived > k
       \/ \E e \in DOMAIN buf_stack :
            buf_stack[e].file = Infile /\ Consumed(buf_stack[e]) >= k

EveryLineAnswered == \A k \in 1 .. Max({Len(t[Infile]) + 1 : t \in Texts}) : Answered(k)
=============================================================================
