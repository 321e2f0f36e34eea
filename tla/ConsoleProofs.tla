---------------------------- MODULE ConsoleProofs ----------------------------
(***************************************************************************)
(* Proofs about Console, for any files, any bounds and however read() cuts *)
(* its input: the exit status is honest, quitting happens once, and the    *)
(* commands executed are those that Script says, in its order.             *)
(***************************************************************************)
EXTENDS Console, SequenceTheorems, WellFoundedInduction, TLAPS

(* The units of the files that are commands.                               *)
Units == {c \in UNION {UNION {{t[f][k] : k \in DOMAIN t[f]} : f \in DOMAIN t} : t \in Texts} :
            c # Newline}

(* An open file and how far read() and readline() are in it.               *)
Buffer(e) ==
  /\ e \in [file : DOMAIN text, pos : Nat, cnt : Nat]
  /\ e.pos <= Size(e.file)
  /\ e.cnt <= e.pos
  /\ e.cnt <= BufSize

Buffers == {e \in [file : DOMAIN text, pos : Nat, cnt : Nat] : Buffer(e)}

Typed ==
  /\ text \in Texts
  /\ buf_stack \in Seq(Buffers) /\ Len(buf_stack) <= MaxOpen
  /\ linebuf \in Seq(Units) /\ Len(linebuf) <= LineMax
  /\ arrived \in 0 .. Size(Infile) + 1
  /\ err_cnt \in Nat /\ ran \in Nat /\ err_limit \in Int
  /\ quit_flag \in BOOLEAN /\ failed \in BOOLEAN
  /\ pc \in {"start", "main", "loop", "reading", "command", "exited"}
  /\ after \in {"main", "loop"}
  /\ status \in {-1, 0, 1}
  /\ helped \in {"none", "ok", "failed"}

(* readline() has room for the next unit, and its caller no line left.     *)
Line ==
  /\ pc = "reading" => Len(linebuf) < LineMax /\ buf_stack # <<>>
  /\ pc \in {"start", "main", "loop"} => linebuf = <<>>

(* What the flags say of what happened: an error was recorded if and only  *)
(* if a command failed, nothing is executed after do_quit_cmd, and only it *)
(* or an error sets quit_flag.                                             *)
Outcome ==
  /\ failed <=> err_cnt # 0
  /\ quits \in 0 .. 1
  /\ quits = 0 <=> helped = "none"
  /\ pc = "start" => quits = 0 /\ ran = 0 /\ ~quit_flag /\ buf_stack = <<>>
  /\ quits = 1 => buf_stack = <<>>
  /\ pc # "exited" =>
       /\ status = -1
       /\ quits = 1 => quit_flag
       /\ quits = 1 /\ err_cnt = 0 => helped = "ok"
       /\ quit_flag /\ err_cnt = 0 => quits = 1
  /\ pc = "exited" =>
       /\ status \in {0, 1}
       /\ status = 0 <=> err_cnt = 0 /\ helped = "ok"

Inv == Typed /\ Line /\ Outcome

-----------------------------------------------------------------------------
(* The least of a set of numbers, and the greatest of a bounded one.       *)
LEMMA LeastOf ==
  ASSUME NEW A, A \subseteq Nat, A # {}
  PROVE  \E m \in A : \A k \in A : m <= k
<1> DEFINE less == OpToRel(<, Nat)
<1>1. \E m \in A : \A k \in A : <<k, m>> \notin less
  BY NatLessThanWellFounded, WFMin
<1>2. ASSUME NEW k \in A, NEW m \in A, k < m PROVE <<k, m>> \in less
  BY <1>2, Zenon DEF OpToRel
<1>3. \A k \in A, m \in A : (k < m) => <<k, m>> \in less
  BY <1>2
<1> HIDE DEF less
<1>4. PICK m \in A : \A k \in A : <<k, m>> \notin less
  BY <1>1
<1>5. \A k \in A : ~(k < m)
  BY <1>3, <1>4
<1>6. QED
  BY <1>5

LEMMA GreatestOf ==
  ASSUME NEW A, NEW n \in Nat, A \subseteq 0 .. n, A # {}
  PROVE  Max(A) \in A /\ \A k \in A : k <= Max(A)
<1> DEFINE below == {n - k : k \in A}
<1>1. below \subseteq Nat /\ below # {}
  <2>1. \A k \in A : k \in 0 .. n /\ n - k \in Nat
    OBVIOUS
  <2>2. QED
    BY <2>1
<1> HIDE DEF below
<1>2. PICK d \in below : \A e \in below : d <= e
  BY <1>1, LeastOf
<1>3. PICK m \in A : d = n - m
  BY <1>2 DEF below
<1>4. \A k \in A : m >= k
  BY <1>2, <1>3 DEF below
<1>5. \E x \in A : \A y \in A : x >= y
  BY <1>4
<1>6. Max(A) \in A /\ \A y \in A : Max(A) >= y
  BY <1>5 DEF Max
<1>7. QED
  BY <1>6

(* The files are sequences of newlines and commands.                       *)
LEMMA TextFacts ==
  ASSUME NEW t \in Texts, NEW f \in DOMAIN t
  PROVE  /\ Len(t[f]) \in Nat /\ DOMAIN t[f] = 1 .. Len(t[f])
         /\ \A k \in 1 .. Len(t[f]) : t[f][k] # Newline => t[f][k] \in Units
<1>1. t[f] \in Seq({t[f][k] : k \in DOMAIN t[f]})
  BY ConsoleAssumption
<1>2. Len(t[f]) \in Nat /\ DOMAIN t[f] = 1 .. Len(t[f])
  BY <1>1, LenProperties
<1>3. QED
  BY <1>2 DEF Units

LEMMA UnitFacts ==
  ASSUME NEW c \in Units
  PROVE  IsCommand(c)
<1>1. PICK t \in Texts : \E f \in DOMAIN t : \E k \in DOMAIN t[f] : c = t[f][k]
  BY DEF Units
<1>2. PICK f \in DOMAIN t : \E k \in DOMAIN t[f] : c = t[f][k]
  BY <1>1
<1>3. QED
  BY <1>2, ConsoleAssumption DEF Units

LEMMA TopFacts ==
  ASSUME Typed, buf_stack # <<>>
  PROVE  /\ Top = buf_stack[1] /\ Top \in Buffers /\ 1 \in DOMAIN buf_stack
         /\ Len(buf_stack) \in Nat /\ DOMAIN buf_stack = 1 .. Len(buf_stack)
         /\ Top.file \in DOMAIN text /\ Top.pos \in 0 .. Size(Top.file) /\ Top.cnt \in 0 .. Top.pos
         /\ Top.cnt <= BufSize /\ Size(Top.file) \in Nat
         /\ Tail(buf_stack) \in Seq(Buffers) /\ Len(Tail(buf_stack)) = Len(buf_stack) - 1
<1>1. buf_stack \in Seq(Buffers) /\ text \in Texts
  BY DEF Typed
<1>2. Len(buf_stack) \in Nat /\ DOMAIN buf_stack = 1 .. Len(buf_stack) /\ Len(buf_stack) # 0
  BY <1>1, LenProperties, EmptySeq
<1>3. Top = buf_stack[1] /\ Top \in Buffers /\ 1 \in DOMAIN buf_stack
  BY <1>1, <1>2, ElementOfSeq DEF Top
<1>4. Tail(buf_stack) \in Seq(Buffers) /\ Len(Tail(buf_stack)) = Len(buf_stack) - 1
  BY <1>1, HeadTailProperties
<1>5. Top.file \in DOMAIN text /\ Top.pos \in Nat /\ Top.cnt \in Nat /\ Top.pos <= Size(Top.file)
      /\ Top.cnt <= Top.pos /\ Top.cnt <= BufSize
  BY <1>3 DEF Buffers, Buffer
<1>6. Size(Top.file) \in Nat
  BY <1>1, <1>5, TextFacts DEF Size
<1>7. QED
  BY <1>2, <1>3, <1>4, <1>5, <1>6

(* The same files are as long, and can hold the same buffers.              *)
LEMMA SameBuffers ==
  ASSUME UNCHANGED text
  PROVE  Buffers' = Buffers /\ \A f : Size(f)' = Size(f)
  BY DEF Buffers, Buffer, Size

LEMMA InitInv == Init => Inv
<1> SUFFICES ASSUME Init PROVE Inv
  OBVIOUS
<1>1. text \in Texts /\ buf_stack = <<>> /\ linebuf = <<>>
  BY DEF Init
<1>2. Size(Infile) \in Nat
  BY <1>1, TextFacts, ConsoleAssumption DEF Size
<1>3. arrived \in 0 .. Size(Infile) + 1
  BY <1>2 DEF Init
<1>4. buf_stack \in Seq(Buffers) /\ linebuf \in Seq(Units) /\ Len(buf_stack) = 0 /\ Len(linebuf) = 0
  BY <1>1, EmptySeq
<1>5. Typed
  <2>1. MaxOpen \in Nat /\ LineMax \in Nat /\ ErrLimit \in Int
    BY ConsoleAssumption
  <2>2. Len(buf_stack) <= MaxOpen /\ Len(linebuf) <= LineMax
    BY <1>4, <2>1
  <2>3. QED
    BY <1>1, <1>3, <1>4, <2>1, <2>2 DEF Init, Typed
<1>6. Line /\ Outcome
  BY DEF Init, Line, Outcome
<1>7. QED
  BY <1>5, <1>6 DEF Inv

LEMMA ArriveKeeps == Inv /\ Arrive => Inv'
<1> SUFFICES ASSUME Inv, Arrive PROVE Inv'
  OBVIOUS
<1>1. /\ arrived <= Size(Infile) /\ arrived' = arrived + 1
      /\ UNCHANGED <<text, buf_stack, linebuf, errors, pc, after, ending>>
  BY DEF Arrive
<1>2. Buffers' = Buffers /\ Size(Infile)' = Size(Infile)
  BY <1>1, SameBuffers
<1>3. Size(Infile) \in Nat
  BY TextFacts, ConsoleAssumption DEF Inv, Typed, Size
<1>4. arrived' \in 0 .. Size(Infile)' + 1
  BY <1>1, <1>2, <1>3 DEF Inv, Typed
<1>5. Typed'
  BY <1>1, <1>2, <1>4 DEF Inv, Typed, errors, ending
<1>6. Line' /\ Outcome'
  BY <1>1 DEF Inv, Line, Outcome, errors, ending
<1>7. QED
  BY <1>5, <1>6 DEF Inv

LEMMA StartKeeps == Inv /\ Start => Inv'
<1> SUFFICES ASSUME Inv, Start PROVE Inv'
  OBVIOUS
<1>1. pc = "start" /\ UNCHANGED <<text, arrived, linebuf, errors, after, quits, helped>>
  BY DEF Start, input
<1>2. Buffers' = Buffers /\ Size(Infile)' = Size(Infile)
  BY <1>1, SameBuffers
<1>3. \/ pc' = "main" /\ buf_stack' = <<Opened(Infile)>> /\ UNCHANGED status
      \/ pc' = "exited" /\ status' = 1 /\ UNCHANGED buf_stack
  BY DEF Start
<1>4. Opened(Infile) \in Buffers
  BY TextFacts, ConsoleAssumption DEF Inv, Typed, Opened, Buffers, Buffer, Size
<1>5. buf_stack' \in Seq(Buffers) /\ Len(buf_stack') <= MaxOpen
  BY <1>3, <1>4, ConsoleAssumption DEF Inv, Typed
<1>6. Typed'
  BY <1>1, <1>2, <1>3, <1>5 DEF Inv, Typed, errors
<1>7. Line'
  BY <1>1, <1>3 DEF Inv, Line
<1>8. Outcome'
  BY <1>1, <1>3 DEF Inv, Outcome, errors
<1>9. QED
  BY <1>6, <1>7, <1>8 DEF Inv

LEMMA LineKeeps == Inv /\ (BufferedLine \/ SelectedLine) => Inv'
<1> SUFFICES ASSUME Inv, BufferedLine \/ SelectedLine PROVE Inv'
  OBVIOUS
<1>1. /\ pc \in {"main", "loop"} /\ buf_stack # <<>> /\ pc' = "reading" /\ after' \in {"main", "loop"}
      /\ UNCHANGED <<text, arrived, buf_stack, linebuf, errors, ending>>
  BY DEF BufferedLine, SelectedLine, ReadReady, cmd_done, input
<1>2. Buffers' = Buffers /\ Size(Infile)' = Size(Infile)
  BY <1>1, SameBuffers
<1>3. Typed'
  BY <1>1, <1>2 DEF Inv, Typed, errors, ending
<1>4. linebuf' = <<>> /\ Len(linebuf') = 0 /\ LineMax > 0
  BY <1>1, ConsoleAssumption, EmptySeq DEF Inv, Line
<1>5. Line'
  BY <1>1, <1>4 DEF Line
<1>6. Outcome'
  BY <1>1 DEF Inv, Outcome, errors, ending
<1>7. QED
  BY <1>3, <1>5, <1>6 DEF Inv

LEMMA FillKeeps == Inv /\ Fill => Inv'
<1> SUFFICES ASSUME Inv, Fill PROVE Inv'
  OBVIOUS
<1>1. /\ pc = "reading" /\ Top.cnt = 0
      /\ UNCHANGED <<text, arrived, linebuf, errors, pc, after, ending>>
  BY DEF Fill, input
<1>2. PICK n \in 1 .. BufSize :
        n <= Available(Top) /\ buf_stack' = [buf_stack EXCEPT ![1].pos = @ + n, ![1].cnt = n]
  BY DEF Fill
<1>3. Buffers' = Buffers /\ Size(Infile)' = Size(Infile)
  BY <1>1, SameBuffers
<1>4. buf_stack # <<>>
  BY <1>1 DEF Inv, Line
<1> DEFINE e == [Top EXCEPT !.pos = @ + n, !.cnt = n]
<1>5. Size(Infile) \in Nat /\ arrived \in Nat
  BY TextFacts, ConsoleAssumption DEF Inv, Typed, Size
<1>6. Available(Top) <= Size(Top.file) - Top.pos
  BY <1>4, <1>5, TopFacts DEF Inv, Available
<1>7. e \in Buffers
  <2>1. /\ Top \in [file : DOMAIN text, pos : Nat, cnt : Nat] /\ n \in Nat /\ n <= BufSize
        /\ Top.pos + n <= Size(Top.file) /\ BufSize \in Nat
    <3>1. Top \in [file : DOMAIN text, pos : Nat, cnt : Nat]
      BY <1>4, TopFacts DEF Inv, Buffers
    <3>2. Top.pos \in Nat /\ Size(Top.file) \in Nat /\ BufSize \in Nat
      BY <1>4, TopFacts, ConsoleAssumption DEF Inv
    <3>3. Available(Top) \in Int
      BY <1>4, <1>5, TopFacts DEF Inv, Available
    <3>4. QED
      BY <1>2, <1>6, <3>1, <3>2, <3>3
  <2>2. /\ e \in [file : DOMAIN text, pos : Nat, cnt : Nat]
        /\ e.file = Top.file /\ e.pos = Top.pos + n /\ e.cnt = n
    <3>1. Top.pos + n \in Nat /\ n \in Nat /\ Top \in [file : DOMAIN text, pos : Nat, cnt : Nat]
      BY <2>1
    <3>2. e.file = Top.file /\ e.cnt = n
      BY <3>1
    <3>3. e.pos = Top.pos + n
      BY <3>1
    <3>4. e \in [file : DOMAIN text, pos : Nat, cnt : Nat]
      <4> DEFINE d == [Top EXCEPT !.pos = @ + n]
      <4>1. d \in [file : DOMAIN text, pos : Nat, cnt : Nat]
        BY <3>1
      <4>2. e = [d EXCEPT !.cnt = n]
        BY <3>1
      <4> HIDE DEF d, e
      <4>3. QED
        BY <3>1, <4>1, <4>2
    <3>5. QED
      BY <3>2, <3>3, <3>4
  <2>3. n <= Top.pos + n
    BY <2>1
  <2>4. QED
    BY <2>1, <2>2, <2>3 DEF Buffers, Buffer
<1>8. buf_stack' = [buf_stack EXCEPT ![1] = e]
  BY <1>2, <1>4, TopFacts DEF Inv
<1> HIDE DEF e
<1>9. buf_stack' \in Seq(Buffers) /\ Len(buf_stack') = Len(buf_stack) /\ buf_stack' # <<>>
  BY <1>4, <1>7, <1>8, TopFacts, ExceptSeq, EmptySeq DEF Inv, Typed
<1>10. Typed'
  BY <1>1, <1>3, <1>9 DEF Inv, Typed, errors, ending
<1>11. Line'
  BY <1>1, <1>9 DEF Inv, Line
<1>12. Outcome'
  BY <1>1, <1>4, <1>9 DEF Inv, Outcome, errors, ending
<1>13. QED
  BY <1>10, <1>11, <1>12 DEF Inv

LEMMA EndOfFileKeeps == Inv /\ EndOfFile => Inv'
<1> SUFFICES ASSUME Inv, EndOfFile PROVE Inv'
  OBVIOUS
<1>1. /\ pc = "reading" /\ buf_stack' = Tail(buf_stack)
      /\ pc' = IF linebuf = <<>> THEN after ELSE "command"
      /\ UNCHANGED <<text, arrived, linebuf, errors, after, ending>>
  BY DEF EndOfFile, input
<1>2. Buffers' = Buffers /\ Size(Infile)' = Size(Infile)
  BY <1>1, SameBuffers
<1>3. buf_stack # <<>>
  BY <1>1 DEF Inv, Line
<1>4. buf_stack' \in Seq(Buffers) /\ Len(buf_stack') <= MaxOpen
  BY <1>1, <1>3, TopFacts, ConsoleAssumption DEF Inv, Typed
<1>5. Typed'
  BY <1>1, <1>2, <1>4 DEF Inv, Typed, errors, ending
<1>6. Line'
  BY <1>1 DEF Inv, Line, Typed
<1>7. Outcome'
  BY <1>1, <1>3 DEF Inv, Outcome, Typed, errors, ending
<1>8. QED
  BY <1>5, <1>6, <1>7 DEF Inv

LEMMA TakeUnitKeeps == Inv /\ TakeUnit => Inv'
<1> SUFFICES ASSUME Inv, TakeUnit PROVE Inv'
  OBVIOUS
<1> DEFINE u == text[Top.file][Consumed(Top) + 1]
<1>1. /\ pc = "reading" /\ Top.cnt > 0
      /\ linebuf' = IF u = Newline THEN linebuf ELSE Append(linebuf, u)
      /\ pc' = IF u = Newline \/ Len(linebuf') = LineMax THEN "command" ELSE "reading"
      /\ buf_stack' = [buf_stack EXCEPT ![1].cnt = @ - 1]
      /\ UNCHANGED <<text, arrived, errors, after, ending>>
  BY DEF TakeUnit, input
<1>2. Buffers' = Buffers /\ Size(Infile)' = Size(Infile)
  BY <1>1, SameBuffers
<1>3. buf_stack # <<>> /\ Len(linebuf) < LineMax
  BY <1>1 DEF Inv, Line
<1>4. u # Newline => u \in Units
  <2>1. Consumed(Top) + 1 \in 1 .. Len(text[Top.file])
    BY <1>1, <1>3, TopFacts DEF Inv, Consumed, Size
  <2>2. QED
    BY <1>3, <2>1, TopFacts, TextFacts DEF Inv, Typed
<1> HIDE DEF u
<1>5. linebuf' \in Seq(Units) /\ Len(linebuf') \in Nat /\ Len(linebuf') <= LineMax
      /\ (Len(linebuf') # LineMax => Len(linebuf') < LineMax)
  <2>1. LineMax \in Nat /\ Len(linebuf) \in Nat /\ linebuf \in Seq(Units)
    BY ConsoleAssumption, LenProperties DEF Inv, Typed
  <2>2. CASE u = Newline
    BY <1>1, <1>3, <2>1, <2>2
  <2>3. CASE u # Newline
    <3>1. linebuf' \in Seq(Units) /\ Len(linebuf') = Len(linebuf) + 1
      BY <1>1, <1>4, <2>1, <2>3, AppendProperties
    <3>2. QED
      BY <1>3, <2>1, <3>1
  <2>4. QED
    BY <2>2, <2>3
<1> DEFINE e == [Top EXCEPT !.cnt = @ - 1]
<1>6. e \in Buffers
  <2>1. Top \in [file : DOMAIN text, pos : Nat, cnt : Nat] /\ Top.cnt - 1 \in Nat
    BY <1>1, <1>3, TopFacts DEF Inv, Buffers
  <2>2. /\ e \in [file : DOMAIN text, pos : Nat, cnt : Nat]
        /\ e.file = Top.file /\ e.pos = Top.pos /\ e.cnt = Top.cnt - 1
    BY <2>1
  <2>3. BufSize \in Nat /\ Top.pos \in Nat /\ Top.cnt <= Top.pos /\ Top.cnt <= BufSize /\ Top.pos <= Size(Top.file)
    BY <1>3, TopFacts, ConsoleAssumption DEF Inv
  <2>4. e.cnt <= e.pos /\ e.cnt <= BufSize
    BY <2>1, <2>2, <2>3
  <2>5. QED
    BY <2>2, <2>3, <2>4 DEF Buffers, Buffer
<1>7. buf_stack' = [buf_stack EXCEPT ![1] = e]
  BY <1>1, <1>3, TopFacts DEF Inv
<1> HIDE DEF e
<1>8. buf_stack' \in Seq(Buffers) /\ Len(buf_stack') = Len(buf_stack) /\ buf_stack' # <<>>
  BY <1>3, <1>6, <1>7, TopFacts, ExceptSeq, EmptySeq DEF Inv, Typed
<1>9. Typed'
  BY <1>1, <1>2, <1>5, <1>8 DEF Inv, Typed, errors, ending
<1>10. Line'
  BY <1>1, <1>5, <1>8 DEF Inv, Line
<1>11. Outcome'
  BY <1>1, <1>3, <1>8 DEF Inv, Outcome, errors, ending
<1>12. QED
  BY <1>9, <1>10, <1>11 DEF Inv

-----------------------------------------------------------------------------
(* Interpret: what a command leaves behind.                                *)
LEMMA ReturnedKeeps ==
  ASSUME Inv, NEW c \in Units, NEW ok \in BOOLEAN, NEW limit \in Int,
         Returned(c, ok, limit), UNCHANGED after
  PROVE  /\ err_cnt' \in Nat /\ ran' \in Nat /\ err_limit' \in Int
         /\ quit_flag' \in BOOLEAN /\ failed' \in BOOLEAN
         /\ pc' \in {"main", "loop"} /\ linebuf' = <<>>
         /\ failed' <=> err_cnt' # 0
         /\ (ok => err_cnt' = err_cnt) /\ (~ok => err_cnt' # 0)
         /\ (c.op = "quit" => quit_flag')
         /\ quit_flag' => c.op = "quit" \/ err_cnt' # 0
<1>1. c.times \in Nat
  BY UnitFacts DEF IsCommand
<1>2. err_cnt \in Nat /\ ran \in Nat /\ failed \in BOOLEAN /\ after \in {"main", "loop"} /\ (failed <=> err_cnt # 0)
  BY DEF Inv, Typed, Outcome
<1> DEFINE n == IF ok THEN err_cnt ELSE err_cnt + Records(c)
<1>3. n \in Nat /\ (ok => n = err_cnt) /\ (~ok => n # 0)
  BY <1>1, <1>2 DEF Records
<1>4. /\ err_limit' = limit /\ err_cnt' = n
      /\ quit_flag' = (c.op = "quit" \/ (~ok /\ n >= limit))
      /\ ran' = ran + 1
      /\ failed' = (failed \/ ~ok)
      /\ pc' = after /\ linebuf' = <<>>
  BY DEF Returned
<1> HIDE DEF n
<1>5. quit_flag' \in BOOLEAN /\ failed' \in BOOLEAN
  BY <1>4, Zenon
<1>6. failed' <=> err_cnt' # 0
  BY <1>2, <1>3, <1>4
<1>7. /\ c.op = "quit" => quit_flag'
      /\ quit_flag' => c.op = "quit" \/ err_cnt' # 0
  BY <1>3, <1>4
<1>8. QED
  BY <1>2, <1>3, <1>4, <1>5, <1>6, <1>7

LEMMA CommandKeeps ==
  ASSUME Inv, pc = "command", ~quit_flag, linebuf # <<>>, UNCHANGED <<input, after>>,
         NEW c \in Units, NEW ok \in BOOLEAN, NEW limit \in Int, Returned(c, ok, limit),
         buf_stack' \in Seq(Buffers), Len(buf_stack') <= MaxOpen,
         \/ c.op # "quit" /\ UNCHANGED ending
         \/ c.op = "quit" /\ Quit(ok) /\ UNCHANGED status
  PROVE  Inv'
<1>1. text' = text /\ arrived' = arrived /\ after' = after
  BY DEF input
<1>2. Buffers' = Buffers /\ Size(Infile)' = Size(Infile)
  BY <1>1, SameBuffers
<1>3. /\ err_cnt' \in Nat /\ ran' \in Nat /\ err_limit' \in Int
      /\ quit_flag' \in BOOLEAN /\ failed' \in BOOLEAN
      /\ pc' \in {"main", "loop"} /\ linebuf' = <<>>
      /\ failed' <=> err_cnt' # 0
      /\ (ok => err_cnt' = err_cnt) /\ (~ok => err_cnt' # 0)
      /\ (c.op = "quit" => quit_flag')
      /\ quit_flag' => c.op = "quit" \/ err_cnt' # 0
  BY <1>1, ReturnedKeeps
<1>4. linebuf' \in Seq(Units) /\ Len(linebuf') <= LineMax
  BY <1>3, EmptySeq, ConsoleAssumption
<1>5. quits = 0 /\ helped = "none" /\ status = -1
  BY DEF Inv, Outcome
<1>6. /\ helped' \in {"none", "ok", "failed"} /\ status' = -1 /\ quits' \in 0 .. 1
      /\ quits' = 0 <=> helped' = "none"
      /\ quits' = 1 => c.op = "quit" /\ buf_stack' = <<>> /\ helped' = IF ok THEN "ok" ELSE "failed"
      /\ c.op = "quit" => quits' = 1
  <2>1. CASE c.op # "quit" /\ UNCHANGED ending
    BY <1>5, <2>1 DEF ending
  <2>2. CASE c.op = "quit" /\ Quit(ok) /\ UNCHANGED status
    BY <1>5, <2>2 DEF Quit
  <2>3. QED
    BY <2>1, <2>2
<1>7. Typed'
  BY <1>1, <1>2, <1>3, <1>4, <1>6 DEF Inv, Typed
<1>8. Line'
  BY <1>3 DEF Line
<1>9. Outcome'
  BY <1>3, <1>6 DEF Outcome
<1>10. QED
  BY <1>7, <1>8, <1>9 DEF Inv

LEMMA OptionLimit ==
  ASSUME Inv, NEW c \in Units, c.op = "option"
  PROVE  LET bad == {k \in DOMAIN c.values : c.values[k] = Bad}
             set == {k \in DOMAIN c.values : \A b \in bad : k < b}
         IN  (IF set = {} THEN err_limit ELSE c.values[Max(set)]) \in Int
<1> DEFINE bad == {k \in DOMAIN c.values : c.values[k] = Bad}
           set == {k \in DOMAIN c.values : \A b \in bad : k < b}
<1>1. /\ c.values \in Seq({c.values[k] : k \in DOMAIN c.values})
      /\ \A k \in DOMAIN c.values : c.values[k] = Bad \/ c.values[k] \in Int
  BY UnitFacts DEF IsCommand
<1>2. DOMAIN c.values = 1 .. Len(c.values) /\ Len(c.values) \in Nat
  BY <1>1, LenProperties
<1>3. \A k \in set : c.values[k] \in Int
  BY <1>1, <1>2
<1>4. set \subseteq 0 .. Len(c.values)
  BY <1>2
<1> HIDE DEF set
<1>5. set # {} => Max(set) \in set
  BY <1>2, <1>4, GreatestOf
<1>6. (IF set = {} THEN err_limit ELSE c.values[Max(set)]) \in Int
  BY <1>3, <1>5 DEF Inv, Typed
<1>7. QED
  BY <1>6 DEF set

LEMMA InterpretKeeps == Inv /\ Interpret => Inv'
<1> SUFFICES ASSUME Inv, Interpret PROVE Inv'
  OBVIOUS
<1>1. pc = "command" /\ UNCHANGED <<input, after>>
  BY DEF Interpret
<1>2. CASE /\ pc' = after /\ linebuf' = <<>>
           /\ UNCHANGED <<buf_stack, errors, ending>>
  <2>1. text' = text /\ arrived' = arrived /\ after' = after
    BY <1>1 DEF input
  <2>2. Buffers' = Buffers /\ Size(Infile)' = Size(Infile)
    BY <2>1, SameBuffers
  <2>3. linebuf' \in Seq(Units) /\ Len(linebuf') <= LineMax
    BY <1>2, EmptySeq, ConsoleAssumption
  <2>4. Typed'
    BY <1>2, <2>1, <2>2, <2>3 DEF Inv, Typed, errors, ending
  <2>5. Line' /\ Outcome'
    BY <1>1, <1>2 DEF Inv, Typed, Line, Outcome, errors, ending
  <2>6. QED
    BY <2>4, <2>5 DEF Inv
<1>3. CASE /\ ~quit_flag /\ linebuf # <<>>
           /\ LET c == FirstWord(linebuf) IN
                \/ \E ok \in BOOLEAN : Call(c, ok) \/ QuitCommand(c, ok)
                \/ Source(c)
                \/ Option(c)
  <2> DEFINE c == FirstWord(linebuf)
  <2>1. c \in Units
    BY <1>3, EmptySeq, LenProperties, ElementOfSeq DEF Inv, Typed, FirstWord
  <2>2. /\ \/ \E ok \in BOOLEAN : Call(c, ok) \/ QuitCommand(c, ok)
           \/ Source(c)
           \/ Option(c)
        /\ err_limit \in Int /\ buf_stack \in Seq(Buffers) /\ Len(buf_stack) <= MaxOpen
        /\ Len(buf_stack) \in Nat /\ MaxOpen \in Nat
    BY <1>3, LenProperties, ConsoleAssumption DEF Inv, Typed
  <2> HIDE DEF c
  <2>3. ASSUME NEW ok \in BOOLEAN, Call(c, ok) PROVE Inv'
    BY <1>1, <1>3, <2>1, <2>2, <2>3, CommandKeeps DEF Call
  <2>4. ASSUME NEW ok \in BOOLEAN, QuitCommand(c, ok) PROVE Inv'
    <3>1. buf_stack' \in Seq(Buffers) /\ Len(buf_stack') <= MaxOpen
      BY <2>2, <2>4, EmptySeq DEF QuitCommand, Quit
    <3>2. QED
      BY <1>1, <1>3, <2>1, <2>2, <2>4, <3>1, CommandKeeps DEF QuitCommand
  <2>5. CASE Source(c)
    <3> DEFINE opens == c.file \in DOMAIN text /\ Len(buf_stack) < MaxOpen
    <3>1. /\ c.op = "source" /\ Returned(c, opens, err_limit) /\ UNCHANGED ending
          /\ buf_stack' = IF opens THEN <<Opened(c.file)>> \o buf_stack ELSE buf_stack
      BY <2>5 DEF Source
    <3>2. CASE opens
      <4>1. Opened(c.file) \in Buffers
        BY <3>2, TextFacts, ConsoleAssumption DEF Inv, Typed, Opened, Buffers, Buffer, Size
      <4>2. <<Opened(c.file)>> \in Seq(Buffers) /\ Len(<<Opened(c.file)>>) = 1
        BY <4>1
      <4>3. buf_stack' \in Seq(Buffers) /\ Len(buf_stack') = 1 + Len(buf_stack)
        BY <2>2, <3>1, <3>2, <4>2, ConcatProperties
      <4>4. Len(buf_stack') <= MaxOpen
        BY <2>2, <3>2, <4>3
      <4>5. QED
        BY <1>1, <1>3, <2>1, <2>2, <3>1, <3>2, <4>3, <4>4, CommandKeeps
    <3>3. CASE ~opens
      BY <1>1, <1>3, <2>1, <2>2, <3>1, <3>3, CommandKeeps
    <3>4. QED
      BY <3>2, <3>3
  <2>6. CASE Option(c)
    <3> DEFINE bad == {k \in DOMAIN c.values : c.values[k] = Bad}
               set == {k \in DOMAIN c.values : \A b \in bad : k < b}
               limit == IF set = {} THEN err_limit ELSE c.values[Max(set)]
    <3>1. c.op = "option" /\ Returned(c, bad = {}, limit) /\ UNCHANGED <<buf_stack, ending>>
      BY <2>6 DEF Option
    <3>2. limit \in Int
      BY <2>1, <3>1, OptionLimit
    <3>3. (bad = {}) \in BOOLEAN
      OBVIOUS
    <3> HIDE DEF limit, bad
    <3>4. QED
      BY <1>1, <1>3, <2>1, <2>2, <3>1, <3>2, <3>3, CommandKeeps
  <2>7. QED
    BY <2>2, <2>3, <2>4, <2>5, <2>6
<1>4. QED
  BY <1>2, <1>3 DEF Interpret

LEMMA FinishKeeps == Inv /\ Finish => Inv'
<1> SUFFICES ASSUME Inv, Finish PROVE Inv'
  OBVIOUS
<1>1. /\ pc \in {"main", "loop"} /\ pc' = "exited" /\ cmd_done
      /\ UNCHANGED <<text, arrived, linebuf, errors, after>>
  BY DEF Finish, input
<1>2. Buffers' = Buffers /\ Size(Infile)' = Size(Infile)
  BY <1>1, SameBuffers
<1>3. \/ err_cnt # 0 /\ status' = 1 /\ UNCHANGED <<buf_stack, quits, helped>>
      \/ /\ err_cnt = 0 /\ ~quit_flag
         /\ \E ok \in BOOLEAN : Quit(ok) /\ status' = IF ok THEN 0 ELSE 1
      \/ err_cnt = 0 /\ quit_flag /\ status' = 0 /\ UNCHANGED <<buf_stack, quits, helped>>
  BY DEF Finish
<1>4. failed' = failed /\ err_cnt' = err_cnt /\ quit_flag' = quit_flag /\ (failed <=> err_cnt # 0)
  BY <1>1 DEF Inv, Outcome, errors
<1>5. /\ status = -1 /\ helped \in {"none", "ok", "failed"} /\ quits \in 0 .. 1
      /\ quits = 0 <=> helped = "none"
      /\ quits = 1 => quit_flag /\ buf_stack = <<>>
      /\ quits = 1 /\ err_cnt = 0 => helped = "ok"
      /\ quit_flag /\ err_cnt = 0 => quits = 1
      /\ buf_stack \in Seq(Buffers) /\ Len(buf_stack) <= MaxOpen /\ Len(<<>>) <= MaxOpen
  BY <1>1, EmptySeq, ConsoleAssumption DEF Inv, Typed, Outcome
<1>6. /\ buf_stack' \in Seq(Buffers) /\ Len(buf_stack') <= MaxOpen
      /\ status' \in {0, 1} /\ helped' \in {"none", "ok", "failed"} /\ quits' \in 0 .. 1
      /\ quits' = 0 <=> helped' = "none"
      /\ quits' = 1 => buf_stack' = <<>>
      /\ status' = 0 <=> err_cnt = 0 /\ helped' = "ok"
  <2>1. CASE err_cnt # 0 /\ status' = 1 /\ UNCHANGED <<buf_stack, quits, helped>>
    BY <1>5, <2>1
  <2>2. ASSUME err_cnt = 0, ~quit_flag, NEW ok \in BOOLEAN, Quit(ok), status' = IF ok THEN 0 ELSE 1
        PROVE  /\ buf_stack' \in Seq(Buffers) /\ Len(buf_stack') <= MaxOpen
               /\ status' \in {0, 1} /\ helped' \in {"none", "ok", "failed"} /\ quits' \in 0 .. 1
               /\ quits' = 0 <=> helped' = "none"
               /\ quits' = 1 => buf_stack' = <<>>
               /\ status' = 0 <=> err_cnt = 0 /\ helped' = "ok"
    BY <1>5, <2>2, EmptySeq DEF Quit
  <2>3. CASE err_cnt = 0 /\ quit_flag /\ status' = 0 /\ UNCHANGED <<buf_stack, quits, helped>>
    BY <1>5, <2>3
  <2>4. QED
    BY <1>3, <2>1, <2>2, <2>3
<1>7. Typed'
  BY <1>1, <1>2, <1>6 DEF Inv, Typed, errors
<1>8. Line'
  BY <1>1 DEF Line
<1>9. Outcome'
  BY <1>1, <1>4, <1>6 DEF Outcome
<1>10. QED
  BY <1>7, <1>8, <1>9 DEF Inv

LEMMA StutterKeeps == Inv /\ UNCHANGED vars => Inv'
<1> SUFFICES ASSUME Inv, UNCHANGED vars PROVE Inv'
  OBVIOUS
<1>1. UNCHANGED <<text, arrived, buf_stack, linebuf, errors, pc, after, ending>>
  BY DEF vars, input
<1>2. Buffers' = Buffers /\ Size(Infile)' = Size(Infile)
  BY <1>1, SameBuffers
<1>3. Typed' /\ Line' /\ Outcome'
  BY <1>1, <1>2 DEF Inv, Typed, Line, Outcome, errors, ending
<1>4. QED
  BY <1>3 DEF Inv

(* The console keeps what Inv says of its files, its line and its flags.   *)
THEOREM ConsoleInvariant == Spec => []Inv
<1>1. Inv /\ [Next]_vars => Inv'
  BY ArriveKeeps, StartKeeps, LineKeeps, FillKeeps, EndOfFileKeeps, TakeUnitKeeps,
     InterpretKeeps,
     FinishKeeps, StutterKeeps DEF Next, ConsoleStep, Exited
<1>2. QED
  BY <1>1, InitInv, PTL DEF Spec

-----------------------------------------------------------------------------
(* What is still to be executed, as a function of the files and how far    *)
(* they are read: the command begun, what the current file still holds,    *)
(* and what the files under it do.                                         *)
RestOf(t, e, c) == Commands(t[e.file])[Len(t[e.file]) - (e.pos - e.cnt)][c]
Deeper(t, stack) == FlattenSeq([k \in DOMAIN stack |-> RestOf(t, stack[k], 0)])
Begun(at, line) ==
  IF at \in {"reading", "command"} /\ line # <<>> THEN <<FirstWord(line)>> ELSE <<>>

(* A file and a place in it, whether or not read() stops there.            *)
Places(t) ==
  {e \in [file : DOMAIN t, pos : Nat, cnt : Nat] : e.pos <= Len(t[e.file]) /\ e.cnt <= e.pos}

(* The unit u before what g tells of the rest of a file, c units of whose  *)
(* line have been read.                                                    *)
Before(u, g, c) ==
  IF u = Newline THEN g[0]
  ELSE (IF c = 0 THEN <<u>> ELSE <<>>) \o g[IF c + 1 = LineMax THEN 0 ELSE c + 1]

(* f tells the commands in each of the last n units, as Commands defines.  *)
Reads(units, n, f) ==
  /\ f \in [0 .. n -> [0 .. LineMax - 1 -> Seq(Units)]]
  /\ \A c \in 0 .. LineMax - 1 : f[0][c] = <<>>
  /\ \A k \in 1 .. n, c \in 0 .. LineMax - 1 :
       f[k][c] = Before(units[Len(units) - k + 1], f[k - 1], c)

LEMMA BeforeTyped ==
  ASSUME NEW u, u # Newline => u \in Units,
         NEW g \in [0 .. LineMax - 1 -> Seq(Units)], NEW c \in 0 .. LineMax - 1
  PROVE  Before(u, g, c) \in Seq(Units)
<1>1. LineMax \in Nat \ {0}
  BY ConsoleAssumption
<1>2. 0 \in 0 .. LineMax - 1 /\ (IF c + 1 = LineMax THEN 0 ELSE c + 1) \in 0 .. LineMax - 1
  BY <1>1
<1>3. CASE u = Newline
  BY <1>2, <1>3 DEF Before
<1>4. CASE u # Newline
  <2> DEFINE d == IF c + 1 = LineMax THEN 0 ELSE c + 1
             head == IF c = 0 THEN <<u>> ELSE <<>>
  <2>1. head \in Seq(Units)
    BY <1>4, EmptySeq
  <2>2. g[d] \in Seq(Units)
    BY <1>2
  <2>3. Before(u, g, c) = head \o g[d]
    BY <1>4 DEF Before
  <2> HIDE DEF d, head
  <2>4. QED
    BY <2>1, <2>2, <2>3, ConcatProperties
<1>5. QED
  BY <1>3, <1>4

LEMMA ReadsExist ==
  ASSUME NEW t \in Texts, NEW f \in DOMAIN t
  PROVE  \E g : Reads(t[f], Len(t[f]), g)
<1> DEFINE units == t[f]
           n == Len(units)
           Upto(m) == \E g : Reads(units, m, g)
           bad == {m \in 0 .. n : ~Upto(m)}
<1>1. n \in Nat /\ \A k \in 1 .. n : units[k] # Newline => units[k] \in Units
  BY TextFacts
<1> HIDE DEF units, n
<1>2. LineMax \in Nat \ {0}
  BY ConsoleAssumption
<1>3. Upto(0)
  <2> DEFINE g == [k \in 0 .. 0 |-> [c \in 0 .. LineMax - 1 |-> <<>>]]
  <2>1. <<>> \in Seq(Units)
    BY EmptySeq
  <2>2. g \in [0 .. 0 -> [0 .. LineMax - 1 -> Seq(Units)]]
    BY <2>1
  <2>3. \A c \in 0 .. LineMax - 1 : g[0][c] = <<>>
    OBVIOUS
  <2> HIDE DEF g
  <2>4. 1 .. 0 = {}
    OBVIOUS
  <2>5. Reads(units, 0, g)
    BY <2>2, <2>3, <2>4 DEF Reads
  <2>6. QED
    BY <2>5
<1>4. ASSUME NEW m \in 1 .. n, Upto(m - 1) PROVE Upto(m)
  <2>1. PICK h : Reads(units, m - 1, h)
    BY <1>4
  <2> DEFINE u == units[n - m + 1]
             last == [c \in 0 .. LineMax - 1 |-> Before(u, h[m - 1], c)]
             g == [k \in 0 .. m |-> IF k = m THEN last ELSE h[k]]
  <2>2. h \in [0 .. m - 1 -> [0 .. LineMax - 1 -> Seq(Units)]] /\ m - 1 \in 0 .. m - 1
    BY <1>1, <2>1 DEF Reads
  <2>3. u # Newline => u \in Units
    <3>1. n - m + 1 \in 1 .. n
      BY <1>1
    <3>2. QED
      BY <1>1, <3>1
  <2> HIDE DEF u
  <2>4. last \in [0 .. LineMax - 1 -> Seq(Units)] /\ \A c \in 0 .. LineMax - 1 : last[c] = Before(u, h[m - 1], c)
    <3>1. h[m - 1] \in [0 .. LineMax - 1 -> Seq(Units)]
      BY <2>2
    <3>2. \A c \in 0 .. LineMax - 1 : Before(u, h[m - 1], c) \in Seq(Units)
      BY <2>3, <3>1, BeforeTyped
    <3>3. QED
      BY <3>2
  <2> HIDE DEF last
  <2>5. /\ g \in [0 .. m -> [0 .. LineMax - 1 -> Seq(Units)]] /\ g[m] = last
        /\ \A k \in 0 .. m - 1 : g[k] = h[k]
    <3>1. \A k \in 0 .. m : (k # m) => k \in 0 .. m - 1
      OBVIOUS
    <3>2. \A k \in 0 .. m : (IF k = m THEN last ELSE h[k]) \in [0 .. LineMax - 1 -> Seq(Units)]
      BY <2>2, <2>4, <3>1
    <3>3. \A k \in 0 .. m - 1 : k \in 0 .. m /\ k # m
      OBVIOUS
    <3>4. QED
      BY <3>2, <3>3
  <2> HIDE DEF g
  <2>6. \A c \in 0 .. LineMax - 1 : g[0][c] = <<>>
    BY <2>1, <2>5 DEF Reads
  <2>7. ASSUME NEW k \in 1 .. m, NEW c \in 0 .. LineMax - 1
        PROVE  g[k][c] = Before(units[n - k + 1], g[k - 1], c)
    <3>1. CASE k = m
      <4>1. g[k - 1] = h[m - 1]
        BY <2>5, <3>1
      <4>2. QED
        BY <2>4, <2>5, <3>1, <4>1 DEF u
    <3>2. CASE k # m
      <4>1. k \in 1 .. m - 1 /\ k \in 0 .. m - 1 /\ k - 1 \in 0 .. m - 1
        BY <3>2
      <4>2. g[k] = h[k] /\ g[k - 1] = h[k - 1]
        BY <2>5, <4>1
      <4>3. h[k][c] = Before(units[n - k + 1], h[k - 1], c)
        BY <2>1, <4>1 DEF Reads, n
      <4>4. QED
        BY <4>2, <4>3
    <3>3. QED
      BY <3>1, <3>2
  <2>8. Reads(units, m, g)
    BY <2>5, <2>6, <2>7 DEF Reads, n
  <2>9. QED
    BY <2>8
<1> HIDE DEF Upto
<1>5. bad = {}
  <2>1. SUFFICES ASSUME bad # {} PROVE FALSE
    OBVIOUS
  <2>2. PICK m \in bad : \A k \in bad : m <= k
    <3>1. bad \subseteq Nat
      OBVIOUS
    <3> HIDE DEF bad
    <3>2. QED
      BY <2>1, <3>1, LeastOf
  <2>3. m \in 1 .. n /\ m - 1 \in 0 .. n /\ m - 1 \notin bad
    BY <1>1, <1>3, <2>2
  <2>4. QED
    BY <1>4, <2>2, <2>3
<1>6. Upto(n)
  BY <1>1, <1>5
<1>7. QED
  BY <1>6 DEF Upto, units, n

(* Commands tells what it says it does.                                    *)
LEMMA CommandsRead ==
  ASSUME NEW t \in Texts, NEW f \in DOMAIN t
  PROVE  Reads(t[f], Len(t[f]), Commands(t[f]))
<1> DEFINE units == t[f]
           Read(g) == [n \in 0 .. Len(units) |->
             [c \in 0 .. LineMax - 1 |->
               IF n = 0 THEN <<>>
               ELSE IF units[Len(units) - n + 1] = Newline THEN g[n - 1][0]
               ELSE (IF c = 0 THEN <<units[Len(units) - n + 1]>> ELSE <<>>)
                    \o g[n - 1][IF c + 1 = LineMax THEN 0 ELSE c + 1]]]
           last == CHOOSE g : g = Read(g)
<1>1. Commands(units) = last
  BY DEF Commands
<1> HIDE DEF units
<1>2. ASSUME NEW g
      PROVE  /\ DOMAIN Read(g) = 0 .. Len(units)
             /\ \A n \in 0 .. Len(units) :
                  Read(g)[n] = [c \in 0 .. LineMax - 1 |->
                                  IF n = 0 THEN <<>> ELSE Before(units[Len(units) - n + 1], g[n - 1], c)]
  BY DEF Before
<1>3. PICK h : Reads(units, Len(units), h)
  BY ReadsExist DEF units
<1>4. Len(units) \in Nat
  BY TextFacts DEF units
<1> HIDE DEF Read
<1>5. h = Read(h)
  <2>1. \A n \in 0 .. Len(units) : h[n] = Read(h)[n]
    <3>1. SUFFICES ASSUME NEW n \in 0 .. Len(units) PROVE h[n] = Read(h)[n]
      OBVIOUS
    <3>2. h[n] \in [0 .. LineMax - 1 -> Seq(Units)]
      BY <1>3 DEF Reads
    <3>3. \A c \in 0 .. LineMax - 1 :
            h[n][c] = IF n = 0 THEN <<>> ELSE Before(units[Len(units) - n + 1], h[n - 1], c)
      BY <1>3, <1>4 DEF Reads
    <3> DEFINE B(c) == IF n = 0 THEN <<>> ELSE Before(units[Len(units) - n + 1], h[n - 1], c)
    <3>4. Read(h)[n] = [c \in 0 .. LineMax - 1 |-> B(c)]
      BY <1>2
    <3>5. h[n] = [c \in 0 .. LineMax - 1 |-> h[n][c]] /\ \A c \in 0 .. LineMax - 1 : h[n][c] = B(c)
      BY <3>2, <3>3
    <3> HIDE DEF B
    <3>6. QED
      BY <3>4, <3>5
  <2>2. h \in [0 .. Len(units) -> [0 .. LineMax - 1 -> Seq(Units)]]
    BY <1>3 DEF Reads
  <2>3. Read(h) = [n \in 0 .. Len(units) |-> Read(h)[n]]
    BY DEF Read
  <2>4. QED
    BY <2>1, <2>2, <2>3
<1>6. last = Read(last)
  BY <1>5
<1> HIDE DEF last
<1>7. \A n \in 0 .. Len(units) :
        last[n] = [c \in 0 .. LineMax - 1 |->
                     IF n = 0 THEN <<>> ELSE Before(units[Len(units) - n + 1], last[n - 1], c)]
  BY <1>2, <1>6
<1> DEFINE bad == {n \in 0 .. Len(units) : last[n] # h[n]}
<1>8. bad = {}
  <2>1. SUFFICES ASSUME bad # {} PROVE FALSE
    OBVIOUS
  <2>2. PICK n \in bad : \A k \in bad : n <= k
    <3>1. bad \subseteq Nat
      OBVIOUS
    <3> HIDE DEF bad
    <3>2. QED
      BY <2>1, <3>1, LeastOf
  <2>3. n \in 0 .. Len(units)
    BY <2>2
  <2>4. n # 0 => last[n - 1] = h[n - 1]
    BY <1>4, <2>2
  <2>5. h[n] = [c \in 0 .. LineMax - 1 |->
                  IF n = 0 THEN <<>> ELSE Before(units[Len(units) - n + 1], h[n - 1], c)]
    BY <1>2, <1>5, <2>3
  <2>6. last[n] = h[n]
    BY <1>7, <2>3, <2>4, <2>5
  <2>7. QED
    BY <2>2, <2>6
<1>9. last = h
  <2>1. DOMAIN last = 0 .. Len(units) /\ last = [n \in DOMAIN last |-> last[n]]
    BY <1>6 DEF Read
  <2>2. h = [n \in 0 .. Len(units) |-> h[n]]
    BY <1>3 DEF Reads
  <2>3. QED
    BY <1>8, <2>1, <2>2
<1>10. QED
  BY <1>1, <1>3, <1>9 DEF units

(* f puts together the first so many of a sequence of sequences.           *)
Flattens(s, f) ==
  /\ f \in [1 .. Len(s) -> Seq(Units)]
  /\ f[1] = s[1]
  /\ \A i \in 2 .. Len(s) : f[i] = f[i - 1] \o s[i]

LEMMA FlattensExist ==
  ASSUME NEW s \in Seq(Seq(Units)), s # <<>>
  PROVE  \E f : Flattens(s, f)
<1> DEFINE n == Len(s)
           Upto(m) == \E f \in [1 .. m -> Seq(Units)] :
                        f[1] = s[1] /\ \A i \in 2 .. m : f[i] = f[i - 1] \o s[i]
           bad == {m \in 1 .. n : ~Upto(m)}
<1>1. n \in Nat \ {0} /\ \A i \in 1 .. n : s[i] \in Seq(Units)
  BY EmptySeq, LenProperties, ElementOfSeq
<1> HIDE DEF n
<1>2. Upto(1)
  <2> DEFINE f == [i \in 1 .. 1 |-> s[1]]
  <2>1. s[1] \in Seq(Units) /\ 2 .. 1 = {}
    BY <1>1
  <2>2. f \in [1 .. 1 -> Seq(Units)] /\ f[1] = s[1]
    BY <2>1
  <2> HIDE DEF f
  <2>3. QED
    BY <2>1, <2>2
<1>3. ASSUME NEW m \in 2 .. n, Upto(m - 1) PROVE Upto(m)
  <2>1. PICK h \in [1 .. m - 1 -> Seq(Units)] :
          h[1] = s[1] /\ \A i \in 2 .. m - 1 : h[i] = h[i - 1] \o s[i]
    BY <1>3
  <2> DEFINE last == h[m - 1] \o s[m]
             f == [i \in 1 .. m |-> IF i = m THEN last ELSE h[i]]
  <2>2. last \in Seq(Units)
    <3>1. h[m - 1] \in Seq(Units) /\ s[m] \in Seq(Units)
      BY <1>1, <2>1
    <3>2. QED
      BY <3>1, ConcatProperties
  <2>3. last = h[m - 1] \o s[m]
    OBVIOUS
  <2> HIDE DEF last
  <2>4. f \in [1 .. m -> Seq(Units)] /\ f[m] = last /\ \A i \in 1 .. m - 1 : f[i] = h[i]
    <3>1. \A i \in 1 .. m : (i # m) => i \in 1 .. m - 1
      OBVIOUS
    <3>2. \A i \in 1 .. m - 1 : i \in 1 .. m /\ i # m
      OBVIOUS
    <3>3. m \in 1 .. m
      OBVIOUS
    <3>4. QED
      BY <2>1, <2>2, <3>1, <3>2, <3>3
  <2> HIDE DEF f
  <2>5. f[1] = s[1]
    <3>1. 1 \in 1 .. m - 1
      OBVIOUS
    <3>2. QED
      BY <2>1, <2>4, <3>1
  <2>6. ASSUME NEW i \in 2 .. m PROVE f[i] = f[i - 1] \o s[i]
    <3>1. i - 1 \in 1 .. m - 1
      OBVIOUS
    <3>2. CASE i = m
      BY <2>3, <2>4, <3>1, <3>2
    <3>3. CASE i # m
      <4>1. i \in 1 .. m - 1 /\ i \in 2 .. m - 1
        BY <3>3
      <4>2. QED
        BY <2>1, <2>4, <3>1, <4>1
    <3>4. QED
      BY <3>2, <3>3
  <2>7. QED
    BY <2>4, <2>5, <2>6
<1> HIDE DEF Upto
<1>4. bad = {}
  <2>1. SUFFICES ASSUME bad # {} PROVE FALSE
    OBVIOUS
  <2>2. PICK m \in bad : \A k \in bad : m <= k
    <3>1. bad \subseteq Nat
      OBVIOUS
    <3> HIDE DEF bad
    <3>2. QED
      BY <2>1, <3>1, LeastOf
  <2>3. m \in 2 .. n /\ m - 1 \in 1 .. n /\ m - 1 \notin bad
    BY <1>1, <1>2, <2>2
  <2>4. QED
    BY <1>3, <2>2, <2>3
<1>5. Upto(n)
  BY <1>1, <1>4
<1>6. QED
  BY <1>5 DEF Upto, Flattens, n

LEMMA FlattenIs ==
  ASSUME NEW s \in Seq(Seq(Units)), s # <<>>, NEW f, Flattens(s, f)
  PROVE  FlattenSeq(s) = f[Len(s)]
<1> DEFINE n == Len(s)
           Next1(g) == [i \in 1 .. n |-> IF i = 1 THEN s[i] ELSE g[i - 1] \o s[i]]
           flatten == CHOOSE g : g = Next1(g)
<1>1. n \in Nat \ {0}
  BY EmptySeq
<1>2. FlattenSeq(s) = flatten[n]
  BY <1>1 DEF FlattenSeq
<1> HIDE DEF n
<1>3. f \in [1 .. n -> Seq(Units)] /\ f[1] = s[1] /\ \A i \in 2 .. n : f[i] = f[i - 1] \o s[i]
  BY DEF Flattens, n
<1>4. f = Next1(f)
  <2>1. \A i \in 1 .. n : (i # 1) => i \in 2 .. n
    BY <1>1
  <2>2. \A i \in 1 .. n : f[i] = IF i = 1 THEN s[i] ELSE f[i - 1] \o s[i]
    BY <1>3, <2>1
  <2>3. f = [i \in 1 .. n |-> f[i]]
    BY <1>3
  <2>4. QED
    BY <2>2, <2>3
<1>5. flatten = Next1(flatten)
  BY <1>4
<1> HIDE DEF flatten
<1>6. flatten[1] = s[1] /\ \A i \in 2 .. n : flatten[i] = flatten[i - 1] \o s[i]
  <2>1. 1 \in 1 .. n /\ \A i \in 2 .. n : i \in 1 .. n /\ i # 1
    BY <1>1
  <2>2. QED
    BY <1>5, <2>1
<1> DEFINE bad == {i \in 1 .. n : flatten[i] # f[i]}
<1>7. bad = {}
  <2>1. SUFFICES ASSUME bad # {} PROVE FALSE
    OBVIOUS
  <2>2. PICK i \in bad : \A k \in bad : i <= k
    <3>1. bad \subseteq Nat
      OBVIOUS
    <3> HIDE DEF bad
    <3>2. QED
      BY <2>1, <3>1, LeastOf
  <2>3. i \in 2 .. n /\ i - 1 \in 1 .. n /\ i - 1 \notin bad
    BY <1>1, <1>3, <1>6, <2>2
  <2>4. flatten[i - 1] = f[i - 1] /\ flatten[i] # f[i]
    BY <2>2, <2>3
  <2>5. QED
    BY <1>3, <1>6, <2>3, <2>4
<1>8. QED
  BY <1>1, <1>2, <1>7 DEF n

(* Flattening puts the first sequence before what the others flatten to.   *)
LEMMA FlattenCons ==
  ASSUME NEW x \in Seq(Units), NEW s \in Seq(Seq(Units))
  PROVE  /\ FlattenSeq(<<x>> \o s) = x \o FlattenSeq(s)
         /\ FlattenSeq(s) \in Seq(Units)
<1> DEFINE r == <<x>> \o s
           n == Len(s)
<1>1. /\ n \in Nat /\ s \in [1 .. n -> Seq(Units)]
      /\ r \in Seq(Seq(Units)) /\ Len(r) = n + 1 /\ r # <<>> /\ r[1] = x
      /\ \A i \in 1 .. n : r[i + 1] = s[i]
  <2>1. <<x>> \in Seq(Seq(Units)) /\ Len(<<x>>) = 1 /\ <<x>>[1] = x /\ n \in Nat
    BY LenProperties
  <2>2. s \in [1 .. n -> Seq(Units)]
    BY LenProperties
  <2>3. /\ r \in Seq(Seq(Units)) /\ Len(r) = 1 + n
        /\ \A i \in 1 .. 1 + n : r[i] = IF i <= 1 THEN <<x>>[i] ELSE s[i - 1]
    BY <2>1, ConcatProperties
  <2> HIDE DEF r, n
  <2>4. r[1] = x /\ \A i \in 1 .. n : r[i + 1] = s[i]
    <3>1. 1 \in 1 .. 1 + n /\ 1 <= 1
      BY <2>1
    <3>2. \A i \in 1 .. n : i + 1 \in 1 .. 1 + n /\ ~(i + 1 <= 1) /\ (i + 1) - 1 = i
      BY <2>1
    <3>3. r[1] = <<x>>[1]
      BY <2>3, <3>1
    <3>4. ASSUME NEW i \in 1 .. n PROVE r[i + 1] = s[i]
      <4> DEFINE j == i + 1
      <4>1. j \in 1 .. 1 + n /\ ~(j <= 1) /\ j - 1 = i
        BY <3>2
      <4> HIDE DEF j
      <4>2. r[j] = s[j - 1]
        BY <2>3, <4>1
      <4>3. QED
        BY <4>1, <4>2 DEF j
    <3>5. QED
      BY <3>3, <3>4
  <2>5. QED
    BY <2>1, <2>2, <2>3, <2>4, EmptySeq
<1> HIDE DEF r
<1>2. CASE s = <<>>
  <2>1. n = 0 /\ FlattenSeq(s) = <<>>
    BY <1>2, EmptySeq DEF FlattenSeq
  <2> DEFINE f == [i \in 1 .. 1 |-> x]
  <2>2. Flattens(r, f)
    BY <1>1, <2>1 DEF Flattens
  <2>3. FlattenSeq(r) = x
    BY <1>1, <2>1, <2>2, FlattenIs
  <2>4. x \o <<>> = x /\ <<>> \in Seq(Units)
    BY ConcatEmptySeq, EmptySeq
  <2>5. QED
    BY <2>1, <2>3, <2>4 DEF r
<1>3. CASE s # <<>>
  <2>1. PICK g : Flattens(s, g)
    BY <1>3, FlattensExist
  <2>2. FlattenSeq(s) = g[n]
    BY <1>3, <2>1, FlattenIs
  <2>3. /\ g \in [1 .. n -> Seq(Units)] /\ g[1] = s[1] /\ n \in Nat \ {0}
        /\ \A i \in 2 .. n : g[i] = g[i - 1] \o s[i]
    BY <1>3, <2>1, EmptySeq DEF Flattens
  <2> HIDE DEF n
  <2> DEFINE f == [i \in 1 .. n + 1 |-> IF i = 1 THEN x ELSE x \o g[i - 1]]
  <2>4. \A i \in 1 .. n : x \o g[i] \in Seq(Units)
    <3>1. \A i \in 1 .. n : g[i] \in Seq(Units)
      BY <2>3
    <3>2. QED
      BY <3>1, ConcatProperties
  <2>5. f \in [1 .. n + 1 -> Seq(Units)] /\ f[1] = x /\ \A i \in 1 .. n : f[i + 1] = x \o g[i]
    <3>1. \A i \in 1 .. n + 1 : (i # 1) => i - 1 \in 1 .. n
      BY <2>3
    <3>2. f \in [1 .. n + 1 -> Seq(Units)]
      BY <2>4, <3>1
    <3>3. 1 \in 1 .. n + 1 /\ \A i \in 1 .. n : i + 1 \in 1 .. n + 1 /\ i + 1 # 1 /\ (i + 1) - 1 = i
      BY <2>3
    <3>4. QED
      BY <3>2, <3>3
  <2> HIDE DEF f
  <2>6. \A i \in 1 .. n : f[i + 1] = f[i] \o r[i + 1]
    <3>1. SUFFICES ASSUME NEW i \in 1 .. n PROVE f[i + 1] = f[i] \o r[i + 1]
      OBVIOUS
    <3>2. r[i + 1] = s[i] /\ f[i + 1] = x \o g[i]
      BY <1>1, <2>5
    <3>3. CASE i = 1
      BY <2>3, <2>5, <3>2, <3>3
    <3>4. CASE i # 1
      <4>1. i \in 2 .. n /\ i - 1 \in 1 .. n /\ (i - 1) + 1 = i
        BY <2>3, <3>4
      <4>2. f[i] = x \o g[i - 1]
        BY <2>5, <4>1
      <4>3. g[i] = g[i - 1] \o s[i] /\ g[i - 1] \in Seq(Units) /\ s[i] \in Seq(Units)
        BY <1>1, <2>3, <4>1
      <4>4. (x \o g[i - 1]) \o s[i] = x \o (g[i - 1] \o s[i])
        <5> DEFINE a == g[i - 1]
                   b == s[i]
        <5>1. a \in Seq(Units) /\ b \in Seq(Units)
          BY <4>3
        <5> HIDE DEF a, b
        <5>2. (x \o a) \o b = x \o (a \o b)
          BY <5>1, ConcatAssociative
        <5>3. QED
          BY <5>2 DEF a, b
      <4>5. QED
        BY <3>2, <4>2, <4>3, <4>4
    <3>5. QED
      BY <3>3, <3>4
  <2>7. \A i \in 2 .. n + 1 : f[i] = f[i - 1] \o r[i]
    <3>1. \A i \in 2 .. n + 1 : i - 1 \in 1 .. n /\ (i - 1) + 1 = i
      BY <2>3
    <3>2. QED
      BY <2>6, <3>1
  <2>8. Flattens(r, f)
    BY <1>1, <2>5, <2>7 DEF Flattens
  <2>9. FlattenSeq(r) = f[n + 1]
    BY <1>1, <2>8, FlattenIs
  <2>10. f[n + 1] = x \o g[n] /\ g[n] \in Seq(Units)
    <3>1. n \in 1 .. n
      BY <2>3
    <3>2. QED
      BY <2>3, <2>5, <3>1
  <2>11. QED
    BY <2>2, <2>9, <2>10 DEF r
<1>4. QED
  BY <1>2, <1>3

-----------------------------------------------------------------------------
(* What a file holds from a place in it on.                                *)
LEMMA RestFacts ==
  ASSUME NEW t \in Texts, NEW e \in Places(t), NEW c \in 0 .. LineMax - 1
  PROVE  /\ RestOf(t, e, c) \in Seq(Units)
         /\ e.pos - e.cnt = Len(t[e.file]) => RestOf(t, e, c) = <<>>
<1> DEFINE n == Len(t[e.file])
           m == n - (e.pos - e.cnt)
<1>1. e.file \in DOMAIN t /\ e.pos \in Nat /\ e.cnt \in Nat /\ e.pos <= n /\ e.cnt <= e.pos
  BY DEF Places
<1>2. n \in Nat
  BY <1>1, TextFacts
<1>3. Reads(t[e.file], n, Commands(t[e.file]))
  BY <1>1, CommandsRead
<1>4. RestOf(t, e, c) = Commands(t[e.file])[m][c]
  BY DEF RestOf
<1>5. m \in 0 .. n /\ (e.pos - e.cnt = n => m = 0)
  <2> HIDE DEF n
  <2>1. QED
    BY <1>1, <1>2
<1> HIDE DEF n, m
<1> DEFINE f == Commands(t[e.file])
<1>6. f \in [0 .. n -> [0 .. LineMax - 1 -> Seq(Units)]] /\ f[0][c] = <<>>
  BY <1>3 DEF Reads
<1> HIDE DEF f
<1>7. f[m][c] \in Seq(Units)
  BY <1>5, <1>6
<1>8. RestOf(t, e, c) \in Seq(Units) /\ (e.pos - e.cnt = n => RestOf(t, e, c) = <<>>)
  BY <1>4, <1>5, <1>6, <1>7 DEF f
<1>9. QED
  BY <1>8 DEF n

(* One unit further.                                                       *)
LEMMA RestTaken ==
  ASSUME NEW t \in Texts, NEW e \in Places(t), NEW d \in Places(t), NEW c \in 0 .. LineMax - 1,
         e.cnt > 0, d.file = e.file, d.pos = e.pos, d.cnt = e.cnt - 1
  PROVE  LET u == t[e.file][e.pos - e.cnt + 1] IN
           /\ u = Newline => RestOf(t, e, c) = RestOf(t, d, 0)
           /\ u # Newline =>
                RestOf(t, e, c) = (IF c = 0 THEN <<u>> ELSE <<>>)
                                    \o RestOf(t, d, IF c + 1 = LineMax THEN 0 ELSE c + 1)
<1> DEFINE units == t[e.file]
           n == Len(units)
           m == n - (e.pos - e.cnt)
           u == units[e.pos - e.cnt + 1]
           f == Commands(units)
<1>1. e.file \in DOMAIN t /\ e.pos \in Nat /\ e.cnt \in Nat /\ e.pos <= n /\ e.cnt <= e.pos
  BY DEF Places
<1>2. n \in Nat
  BY <1>1, TextFacts
<1>3. Reads(units, n, f)
  BY <1>1, CommandsRead
<1>4. RestOf(t, e, c) = f[m][c]
  BY DEF RestOf
<1>5. \A b : RestOf(t, d, b) = f[n - (d.pos - d.cnt)][b]
  BY DEF RestOf
<1> HIDE DEF f, n
<1>6. m \in 1 .. n /\ n - m + 1 = e.pos - e.cnt + 1 /\ n - (d.pos - d.cnt) = m - 1
  BY <1>1, <1>2
<1> HIDE DEF m
<1>7. f[m][c] = Before(units[n - m + 1], f[m - 1], c)
  BY <1>3, <1>6 DEF Reads, n
<1>8. f[m][c] = Before(u, f[m - 1], c)
  BY <1>6, <1>7
<1> HIDE DEF u
<1>9. /\ u = Newline => f[m][c] = f[m - 1][0]
      /\ u # Newline => f[m][c] = (IF c = 0 THEN <<u>> ELSE <<>>) \o f[m - 1][IF c + 1 = LineMax THEN 0 ELSE c + 1]
  BY <1>8 DEF Before
<1>10. QED
  BY <1>4, <1>5, <1>6, <1>9 DEF u, units

(* What a stack of files holds, file by file.                              *)
LEMMA DeeperFacts ==
  ASSUME NEW t \in Texts, NEW stack \in Seq(Places(t))
  PROVE  /\ Deeper(t, stack) \in Seq(Units)
         /\ stack = <<>> => Deeper(t, stack) = <<>>
<1> DEFINE open == [k \in DOMAIN stack |-> RestOf(t, stack[k], 0)]
<1>1. Len(stack) \in Nat /\ DOMAIN stack = 1 .. Len(stack) /\ \A k \in 1 .. Len(stack) : stack[k] \in Places(t)
  BY LenProperties, ElementOfSeq
<1>2. 0 \in 0 .. LineMax - 1
  BY ConsoleAssumption
<1>3. \A k \in 1 .. Len(stack) : RestOf(t, stack[k], 0) \in Seq(Units)
  BY <1>1, <1>2, RestFacts
<1>4. open \in [1 .. Len(stack) -> Seq(Units)]
  BY <1>1, <1>3
<1>5. open \in Seq(Seq(Units)) /\ Deeper(t, stack) = FlattenSeq(open)
  BY <1>1, <1>4, SeqDef DEF Deeper
<1> HIDE DEF open
<1>6. stack = <<>> => open = <<>>
  <2>1. SUFFICES ASSUME stack = <<>> PROVE open = <<>>
    OBVIOUS
  <2>2. Len(stack) = 0
    BY <2>1, EmptySeq
  <2>3. open \in [1 .. 0 -> Seq(Units)]
    BY <1>4, <2>2
  <2>4. Len(open) = 0
    BY <1>5, <2>3, LenProperties
  <2>5. QED
    BY <1>5, <2>4, EmptySeq
<1>7. FlattenSeq(open) \in Seq(Units)
  <2>1. <<>> \in Seq(Units)
    BY EmptySeq
  <2>2. QED
    BY <1>5, <2>1, FlattenCons
<1>8. FlattenSeq(<<>>) = <<>>
  BY EmptySeq DEF FlattenSeq
<1>9. QED
  BY <1>5, <1>6, <1>7, <1>8

(* A stack is its first file, c units of whose line have been read, and    *)
(* the files under it.                                                     *)
LEMMA OpenIs ==
  ASSUME NEW t \in Texts, NEW stack \in Seq(Places(t)), stack # <<>>, NEW c \in 0 .. LineMax - 1
  PROVE  /\ FlattenSeq([k \in DOMAIN stack |-> RestOf(t, stack[k], IF k = 1 THEN c ELSE 0)])
              = RestOf(t, stack[1], c) \o Deeper(t, Tail(stack))
         /\ RestOf(t, stack[1], c) \in Seq(Units)
         /\ Deeper(t, Tail(stack)) \in Seq(Units)
<1> DEFINE n == Len(stack)
           open == [k \in DOMAIN stack |-> RestOf(t, stack[k], IF k = 1 THEN c ELSE 0)]
           first == RestOf(t, stack[1], c)
           under == [k \in DOMAIN Tail(stack) |-> RestOf(t, Tail(stack)[k], 0)]
<1>1. /\ n \in Nat \ {0} /\ DOMAIN stack = 1 .. n /\ \A k \in 1 .. n : stack[k] \in Places(t)
      /\ Tail(stack) \in Seq(Places(t)) /\ DOMAIN Tail(stack) = 1 .. n - 1
      /\ \A k \in 1 .. n - 1 : Tail(stack)[k] = stack[k + 1]
  <2>1. n \in Nat \ {0} /\ DOMAIN stack = 1 .. n /\ \A k \in 1 .. n : stack[k] \in Places(t)
    BY EmptySeq, LenProperties, ElementOfSeq
  <2>2. /\ Tail(stack) \in Seq(Places(t)) /\ Len(Tail(stack)) = n - 1
        /\ \A k \in 1 .. Len(Tail(stack)) : Tail(stack)[k] = stack[k + 1]
    BY HeadTailProperties
  <2>3. QED
    BY <2>1, <2>2, LenProperties
<1> HIDE DEF n
<1>2. 0 \in 0 .. LineMax - 1
  BY ConsoleAssumption
<1>3. first \in Seq(Units)
  BY <1>1, RestFacts
<1>4. under \in [1 .. n - 1 -> Seq(Units)] /\ \A k \in 1 .. n - 1 : under[k] = RestOf(t, stack[k + 1], 0)
  <2>1. \A k \in 1 .. n - 1 : k + 1 \in 1 .. n
    BY <1>1
  <2>2. \A k \in 1 .. n - 1 : RestOf(t, stack[k + 1], 0) \in Seq(Units)
    BY <1>1, <1>2, <2>1, RestFacts
  <2>3. \A k \in 1 .. n - 1 : RestOf(t, Tail(stack)[k], 0) = RestOf(t, stack[k + 1], 0)
    BY <1>1
  <2>4. QED
    BY <1>1, <2>2, <2>3
<1>5. Deeper(t, Tail(stack)) = FlattenSeq(under)
  BY DEF Deeper
<1>6. open \in [1 .. n -> Seq(Units)] /\ open[1] = first /\ \A k \in 1 .. n - 1 : open[k + 1] = RestOf(t, stack[k + 1], 0)
  <2>1. \A k \in 1 .. n : RestOf(t, stack[k], IF k = 1 THEN c ELSE 0) \in Seq(Units)
    BY <1>1, <1>2, RestFacts
  <2>2. 1 \in 1 .. n /\ \A k \in 1 .. n - 1 : k + 1 \in 1 .. n /\ k + 1 # 1
    BY <1>1
  <2>3. QED
    BY <1>1, <2>1, <2>2
<1> HIDE DEF open, under, first
<1>7. under \in Seq(Seq(Units)) /\ Len(under) = n - 1
  <2>1. n - 1 \in Nat
    BY <1>1
  <2>2. QED
    BY <1>4, <2>1, SeqDef, LenProperties
<1>8. open = <<first>> \o under
  <2>1. open \in Seq(Seq(Units)) /\ Len(open) = n
    BY <1>1, <1>6, SeqDef, LenProperties
  <2>2. <<first>> \in Seq(Seq(Units)) /\ Len(<<first>>) = 1 /\ <<first>>[1] = first
    BY <1>3
  <2> DEFINE r == <<first>> \o under
  <2>3. /\ r \in Seq(Seq(Units)) /\ Len(r) = 1 + (n - 1)
        /\ \A i \in 1 .. 1 + (n - 1) : r[i] = IF i <= 1 THEN <<first>>[i] ELSE under[i - 1]
    BY <1>7, <2>2, ConcatProperties
  <2> HIDE DEF r
  <2>4. Len(r) = n /\ 1 + (n - 1) = n
    BY <1>1, <2>3
  <2>5. ASSUME NEW k \in 1 .. n PROVE open[k] = r[k]
    <3>1. CASE k = 1
      BY <1>1, <1>6, <2>2, <2>3, <3>1
    <3>2. CASE k # 1
      <4>1. PICK j \in 1 .. n - 1 : k = j + 1 /\ j = k - 1
        <5>1. k - 1 \in 1 .. n - 1 /\ k = (k - 1) + 1
          BY <1>1, <3>2
        <5>2. QED
          BY <5>1
      <4>2. open[k] = RestOf(t, stack[k], 0) /\ under[j] = RestOf(t, stack[k], 0)
        BY <1>4, <1>6, <4>1
      <4>3. k \in 1 .. 1 + (n - 1) /\ ~(k <= 1)
        BY <1>1, <3>2
      <4>4. r[k] = under[j]
        BY <2>3, <4>1, <4>3
      <4>5. QED
        BY <4>2, <4>4
    <3>3. QED
      BY <3>1, <3>2
  <2>6. open \in [1 .. n -> Seq(Units)] /\ r \in [1 .. n -> Seq(Units)]
    BY <1>6, <2>3, <2>4, LenProperties
  <2>7. open = r
    <3>1. open = [k \in 1 .. n |-> open[k]]
      BY <2>6
    <3>2. r = [k \in 1 .. n |-> r[k]]
      BY <2>6
    <3>3. QED
      BY <2>5, <3>1, <3>2
  <2>8. QED
    BY <2>7 DEF r
<1>9. FlattenSeq(open) = first \o FlattenSeq(under) /\ FlattenSeq(under) \in Seq(Units)
  BY <1>3, <1>7, <1>8, FlattenCons
<1>10. QED
  BY <1>3, <1>5, <1>9 DEF open, first

LEMMA DeeperCons ==
  ASSUME NEW t \in Texts, NEW stack \in Seq(Places(t)), stack # <<>>
  PROVE  /\ Deeper(t, stack) = RestOf(t, stack[1], 0) \o Deeper(t, Tail(stack))
         /\ RestOf(t, stack[1], 0) \in Seq(Units)
         /\ Deeper(t, Tail(stack)) \in Seq(Units)
<1>1. 0 \in 0 .. LineMax - 1
  BY ConsoleAssumption
<1>2. Deeper(t, stack) = FlattenSeq([k \in DOMAIN stack |-> RestOf(t, stack[k], IF k = 1 THEN 0 ELSE 0)])
  BY DEF Deeper
<1>3. QED
  BY <1>1, <1>2, OpenIs

(* Todo, of the variables it depends on.                                   *)
TodoAt(t, at, line, stack) ==
  IF at = "start" THEN Commands(t[Infile])[Len(t[Infile])][0]
  ELSE Begun(at, line)
         \o FlattenSeq([k \in DOMAIN stack |->
                          RestOf(t, stack[k], IF at = "reading" /\ k = 1 THEN Len(line) ELSE 0)])

LEMMA TodoIs ==
  /\ Todo = TodoAt(text, pc, linebuf, buf_stack)
  /\ Todo' = TodoAt(text', pc', linebuf', buf_stack')
  BY DEF Todo, TodoAt, Begun, RestOf, Rest, Whole, Size, Consumed

LEMMA TodoAtFacts ==
  ASSUME NEW t \in Texts, NEW at, NEW line \in Seq(Units), NEW stack \in Seq(Places(t)), at # "start"
  PROVE  /\ Begun(at, line) \in Seq(Units)
         /\ at # "reading" => TodoAt(t, at, line, stack) = Begun(at, line) \o Deeper(t, stack)
         /\ (at = "reading" /\ stack # <<>> /\ Len(line) < LineMax) =>
              TodoAt(t, at, line, stack)
                = Begun(at, line) \o (RestOf(t, stack[1], Len(line)) \o Deeper(t, Tail(stack)))
<1>1. Begun(at, line) \in Seq(Units)
  BY EmptySeq, LenProperties, ElementOfSeq DEF Begun, FirstWord
<1>2. CASE at # "reading"
  BY <1>1, <1>2 DEF TodoAt, Deeper
<1>3. CASE at = "reading" /\ stack # <<>> /\ Len(line) < LineMax
  <2>1. Len(line) \in 0 .. LineMax - 1
    BY <1>3, LenProperties, ConsoleAssumption
  <2>2. TodoAt(t, at, line, stack) = Begun(at, line)
          \o FlattenSeq([k \in DOMAIN stack |-> RestOf(t, stack[k], IF k = 1 THEN Len(line) ELSE 0)])
    BY <1>3 DEF TodoAt
  <2>3. QED
    BY <1>1, <1>3, <2>1, <2>2, OpenIs
<1>4. QED
  BY <1>1, <1>2, <1>3

LEMMA StackFacts ==
  ASSUME Inv
  PROVE  text \in Texts /\ linebuf \in Seq(Units) /\ buf_stack \in Seq(Places(text))
<1>1. text \in Texts /\ linebuf \in Seq(Units) /\ buf_stack \in Seq(Buffers)
  BY DEF Inv, Typed
<1>2. \A e \in Buffers : e \in Places(text)
  BY DEF Buffers, Buffer, Places, Size
<1>3. Len(buf_stack) \in Nat /\ buf_stack \in [1 .. Len(buf_stack) -> Buffers]
  BY <1>1, LenProperties
<1>4. buf_stack \in [1 .. Len(buf_stack) -> Places(text)]
  BY <1>2, <1>3
<1>5. QED
  BY <1>1, <1>3, <1>4, SeqDef

(* Where no file is open, nothing is left to be executed.                  *)
LEMMA NothingToDo ==
  ASSUME Inv, buf_stack = <<>>, pc # "start", pc # "reading", linebuf = <<>> \/ pc # "command"
  PROVE  Todo = <<>>
<1>1. Todo = Begun(pc, linebuf) \o Deeper(text, buf_stack)
  BY StackFacts, TodoIs, TodoAtFacts
<1>2. Begun(pc, linebuf) = <<>>
  BY DEF Begun
<1>3. Deeper(text, buf_stack) = <<>>
  BY StackFacts, DeeperFacts
<1>4. QED
  BY <1>1, <1>2, <1>3, EmptySeq, ConcatEmptySeq

LEMMA InvIsHonest == Inv => HonestExit
<1> SUFFICES ASSUME Inv, pc = "exited"
             PROVE  /\ status = 0 <=> ~failed /\ helped = "ok"
                    /\ status = 0 => Todo = <<>>
  BY DEF HonestExit
<1>1. status = 0 <=> ~failed /\ helped = "ok"
  BY DEF Inv, Outcome
<1>2. status = 0 => buf_stack = <<>>
  BY DEF Inv, Outcome
<1>3. QED
  BY <1>1, <1>2, NothingToDo

(* The process exits with 0 if and only if no command failed and the queue *)
(* was freed without a leak, and then it has executed every command or     *)
(* quit (qtest.c:538-540, console.c:590-607).                              *)
THEOREM ExitIsHonest == Spec => []HonestExit
  BY ConsoleInvariant, InvIsHonest, PTL

LEMMA InvQuitsOnce == Inv => QuitsOnce
  BY DEF Inv, Typed, Outcome, QuitsOnce

(* do_quit_cmd runs once at most, and once if the process exits with 0     *)
(* (console.c:257-278, 590-596).                                           *)
THEOREM QuitsOnlyOnce == Spec => []QuitsOnce
  BY ConsoleInvariant, InvQuitsOnce, PTL
-----------------------------------------------------------------------------
(* The steps of Script, as steps of the console.                           *)
LEMMA QuietStep ==
  ASSUME text' = text, ran' = ran, Todo' = Todo,
         (quit_flag' \/ pc' = "exited") <=> (quit_flag \/ pc = "exited")
  PROVE  UNCHANGED S!scriptVars
<1>1. [f \in DOMAIN text |-> Whole(f)]' = [f \in DOMAIN text |-> Whole(f)]
  BY DEF Whole, Size
<1>2. (quit_flag \/ pc = "exited")' = (quit_flag \/ pc = "exited")
  BY Zenon
<1>3. QED
  BY <1>1, <1>2 DEF S!scriptVars

LEMMA CommandStep ==
  ASSUME text' = text, ran' = ran + 1, ~quit_flag, pc # "exited", pc' # "exited", Todo # <<>>,
         \/ Todo' = Tail(Todo)
         \/ quit_flag' /\ Todo' = <<>>
         \/ /\ ~quit_flag'
            /\ \E f \in DOMAIN text :
                 Head(Todo).op = "source" /\ Head(Todo).file = f /\ Todo' = Whole(f) \o Tail(Todo)
  PROVE  S!ScriptNext
<1> DEFINE lines == [f \in DOMAIN text |-> Whole(f)]
<1>1. lines' = lines
  BY DEF Whole, Size
<1>2. ~(quit_flag \/ pc = "exited")
  OBVIOUS
<1>3. /\ quit_flag' => (quit_flag \/ pc = "exited")' = TRUE
      /\ ~quit_flag' => (quit_flag \/ pc = "exited")' = (quit_flag \/ pc = "exited")
  BY Zenon
<1>4. CASE quit_flag'
  <2>1. Todo' \in {<<>>, Tail(Todo)}
    BY <1>4
  <2>2. S!Stopped
    BY <1>3, <1>4, <2>1 DEF S!Stopped
  <2>3. QED
    BY <1>1, <1>2, <2>2 DEF S!ScriptNext, S!Command
<1>5. CASE ~quit_flag' /\ Todo' = Tail(Todo)
  <2>1. S!Ran
    BY <1>3, <1>5 DEF S!Ran
  <2>2. QED
    BY <1>1, <1>2, <2>1 DEF S!ScriptNext, S!Command
<1>6. ASSUME ~quit_flag', NEW f \in DOMAIN text, Head(Todo).op = "source", Head(Todo).file = f,
             Todo' = Whole(f) \o Tail(Todo)
      PROVE  S!ScriptNext
  <2>1. S!Sourced(f)
    BY <1>3, <1>6 DEF S!Sourced
  <2>2. f \in S!Files
    BY DEF S!Files
  <2>3. QED
    BY <1>1, <1>2, <1>6, <2>1, <2>2 DEF S!ScriptNext, S!Command
<1>7. QED
  BY <1>4, <1>5, <1>6

LEMMA NextStackFacts ==
  ASSUME Inv'
  PROVE  text' \in Texts /\ linebuf' \in Seq(Units) /\ buf_stack' \in Seq(Places(text'))
<1>1. text' \in Texts /\ linebuf' \in Seq(Units) /\ buf_stack' \in Seq(Buffers')
  BY DEF Inv, Typed
<1>2. \A e \in Buffers' : e \in Places(text')
  BY DEF Buffers, Buffer, Places, Size
<1>3. Len(buf_stack') \in Nat /\ buf_stack' \in [1 .. Len(buf_stack') -> Buffers']
  BY <1>1, LenProperties
<1>4. buf_stack' \in [1 .. Len(buf_stack') -> Places(text')]
  BY <1>2, <1>3
<1>5. QED
  BY <1>1, <1>3, <1>4, SeqDef

(* Between two commands Todo is what the open files hold.                  *)
LEMMA TodoBetween ==
  ASSUME Inv, pc \in {"main", "loop", "exited"} \/ (pc = "command" /\ linebuf = <<>>)
  PROVE  Todo = Deeper(text, buf_stack) /\ Todo \in Seq(Units)
<1>1. Todo = Begun(pc, linebuf) \o Deeper(text, buf_stack)
  BY StackFacts, TodoIs, TodoAtFacts
<1>2. Begun(pc, linebuf) = <<>>
  BY DEF Begun
<1>3. QED
  BY <1>1, <1>2, StackFacts, DeeperFacts, ConcatEmptySeq

LEMMA TodoOutsideNext ==
  ASSUME Inv', pc' # "start", pc' # "reading"
  PROVE  Todo' = Begun(pc', linebuf') \o Deeper(text', buf_stack')
<1>1. text' \in Texts /\ linebuf' \in Seq(Units) /\ buf_stack' \in Seq(Places(text'))
  BY NextStackFacts
<1>2. TodoAt(text', pc', linebuf', buf_stack') = Begun(pc', linebuf') \o Deeper(text', buf_stack')
  BY <1>1, TodoAtFacts
<1>3. QED
  BY <1>2, TodoIs

LEMMA TodoBetweenNext ==
  ASSUME Inv', pc' \in {"main", "loop", "exited"}
  PROVE  Todo' = Deeper(text', buf_stack')
<1>1. Todo' = Begun(pc', linebuf') \o Deeper(text', buf_stack')
  BY TodoOutsideNext
<1>2. Begun(pc', linebuf') = <<>>
  BY DEF Begun
<1>3. QED
  BY <1>1, <1>2, NextStackFacts, DeeperFacts, ConcatEmptySeq

(* Within readline() it is what has been read of a line before that.       *)
LEMMA TodoReading ==
  ASSUME Inv, pc = "reading"
  PROVE  /\ Todo = Begun("reading", linebuf)
                     \o (RestOf(text, buf_stack[1], Len(linebuf)) \o Deeper(text, Tail(buf_stack)))
         /\ Begun("reading", linebuf) \in Seq(Units)
         /\ Len(linebuf) \in 0 .. LineMax - 1 /\ buf_stack # <<>>
<1>1. Len(linebuf) < LineMax /\ buf_stack # <<>>
  BY DEF Inv, Line
<1>2. text \in Texts /\ linebuf \in Seq(Units) /\ buf_stack \in Seq(Places(text))
  BY StackFacts
<1>3. "reading" # "start"
  OBVIOUS
<1>4. TodoAt(text, "reading", linebuf, buf_stack)
        = Begun("reading", linebuf)
            \o (RestOf(text, buf_stack[1], Len(linebuf)) \o Deeper(text, Tail(buf_stack)))
      /\ Begun("reading", linebuf) \in Seq(Units)
  BY <1>1, <1>2, <1>3, TodoAtFacts
<1>5. Len(linebuf) \in 0 .. LineMax - 1
  BY <1>1, <1>2, LenProperties, ConsoleAssumption
<1>6. QED
  BY <1>1, <1>4, <1>5, TodoIs

LEMMA TodoReadingNext ==
  ASSUME Inv', pc' = "reading"
  PROVE  Todo' = Begun("reading", linebuf')
                   \o (RestOf(text', buf_stack'[1], Len(linebuf')) \o Deeper(text', Tail(buf_stack')))
<1>1. Len(linebuf') < LineMax /\ buf_stack' # <<>>
  BY DEF Inv, Line
<1>2. text' \in Texts /\ linebuf' \in Seq(Units) /\ buf_stack' \in Seq(Places(text'))
  BY NextStackFacts
<1>3. "reading" # "start"
  OBVIOUS
<1>4. TodoAt(text', "reading", linebuf', buf_stack')
        = Begun("reading", linebuf')
            \o (RestOf(text', buf_stack'[1], Len(linebuf')) \o Deeper(text', Tail(buf_stack')))
  BY <1>1, <1>2, <1>3, TodoAtFacts
<1>5. QED
  BY <1>4, TodoIs

LEMMA StartRefines ==
  ASSUME Inv, Inv', Start
  PROVE  S!ScriptNext \/ UNCHANGED S!scriptVars
<1>1. pc = "start" /\ text' = text /\ linebuf' = linebuf /\ ran' = ran /\ quit_flag' = quit_flag
  BY DEF Start, input, errors
<1>2. ran = 0 /\ ~quit_flag /\ buf_stack = <<>>
  BY <1>1 DEF Inv, Outcome
<1>3. CASE pc' = "main" /\ buf_stack' = <<Opened(Infile)>>
  <2> DEFINE e == Opened(Infile)
             n == Len(text[Infile])
  <2>1. Todo' = Deeper(text, <<e>>)
    BY <1>1, <1>3, TodoBetweenNext
  <2>2. <<e>> \in Seq(Places(text)) /\ text \in Texts
    BY <1>1, <1>3, NextStackFacts
  <2>3. Todo = Commands(text[Infile])[n][0]
    BY <1>1, TodoIs DEF TodoAt
  <2>4. e.file = Infile /\ e.pos = 0 /\ e.cnt = 0
    BY DEF Opened
  <2>5. n \in Nat
    BY <2>2, TextFacts, ConsoleAssumption
  <2> HIDE DEF e, n
  <2>6. <<e>> # <<>> /\ <<e>>[1] = e /\ Tail(<<e>>) = <<>>
    OBVIOUS
  <2>7. Deeper(text, <<e>>) = RestOf(text, e, 0) \o Deeper(text, <<>>) /\ RestOf(text, e, 0) \in Seq(Units)
    BY <2>2, <2>6, DeeperCons
  <2>8. Deeper(text, <<>>) = <<>>
    BY <2>2, DeeperFacts, EmptySeq
  <2>9. RestOf(text, e, 0) = Commands(text[Infile])[n][0]
    <3>1. n - (0 - 0) = n
      BY <2>5
    <3>2. QED
      BY <2>4, <3>1 DEF RestOf, n
  <2>10. Todo' = Todo
    BY <2>1, <2>3, <2>7, <2>8, <2>9, ConcatEmptySeq
  <2>11. QED
    BY <1>1, <1>3, <2>10, QuietStep
<1>4. CASE pc' = "exited" /\ buf_stack' = buf_stack
  <2>1. Todo' = Deeper(text, <<>>)
    BY <1>1, <1>2, <1>4, TodoBetweenNext
  <2>2. Todo' = <<>>
    BY <2>1, StackFacts, DeeperFacts, EmptySeq
  <2>3. [f \in DOMAIN text |-> Whole(f)]' = [f \in DOMAIN text |-> Whole(f)]
    BY <1>1 DEF Whole, Size
  <2>4. ~(quit_flag \/ pc = "exited") /\ (quit_flag \/ pc = "exited")' = TRUE
    BY <1>1, <1>2, <1>4
  <2>5. S!NotOpened
    BY <1>1, <1>2, <2>2, <2>3, <2>4 DEF S!NotOpened
  <2>6. QED
    BY <2>5 DEF S!ScriptNext
<1>5. QED
  BY <1>3, <1>4 DEF Start

LEMMA LineRefines ==
  ASSUME Inv, Inv', BufferedLine \/ SelectedLine
  PROVE  UNCHANGED S!scriptVars
<1>1. /\ pc \in {"main", "loop"} /\ buf_stack # <<>> /\ pc' = "reading"
      /\ UNCHANGED <<text, buf_stack, linebuf, quit_flag, ran>>
  BY DEF BufferedLine, SelectedLine, ReadReady, cmd_done, input, errors
<1>2. linebuf = <<>> /\ Len(linebuf) = 0 /\ Len(linebuf) < LineMax
  BY <1>1, EmptySeq, ConsoleAssumption DEF Inv, Line
<1>3. Todo' = Begun("reading", linebuf) \o (RestOf(text, buf_stack[1], 0) \o Deeper(text, Tail(buf_stack)))
  BY <1>1, <1>2, TodoReadingNext
<1>4. Begun("reading", linebuf) = <<>>
  BY <1>2 DEF Begun
<1>5. Todo = RestOf(text, buf_stack[1], 0) \o Deeper(text, Tail(buf_stack)) /\ Todo \in Seq(Units)
  BY <1>1, StackFacts, DeeperCons, TodoBetween
<1>6. Todo' = Todo
  BY <1>3, <1>4, <1>5, ConcatEmptySeq
<1>7. QED
  BY <1>1, <1>6, QuietStep

LEMMA TailExcept ==
  ASSUME NEW A, NEW s \in Seq(A), s # <<>>, NEW e \in A
  PROVE  LET r == [s EXCEPT ![1] = e] IN
           r \in Seq(A) /\ r # <<>> /\ r[1] = e /\ Tail(r) = Tail(s)
<1> DEFINE r == [s EXCEPT ![1] = e]
           n == Len(s)
<1>1. n \in Nat \ {0} /\ 1 \in 1 .. n
  BY EmptySeq
<1>2. r \in Seq(A) /\ Len(r) = n /\ \A j \in 1 .. n : r[j] = IF j = 1 THEN e ELSE s[j]
  BY <1>1, ExceptSeq
<1> HIDE DEF r, n
<1>3. r # <<>> /\ r[1] = e
  BY <1>1, <1>2, EmptySeq
<1>4. /\ Tail(r) \in Seq(A) /\ Len(Tail(r)) = n - 1
      /\ \A i \in 1 .. n - 1 : Tail(r)[i] = r[i + 1]
  BY <1>2, <1>3, HeadTailProperties
<1>5. /\ Tail(s) \in Seq(A) /\ Len(Tail(s)) = n - 1
      /\ \A i \in 1 .. n - 1 : Tail(s)[i] = s[i + 1]
  BY HeadTailProperties DEF n
<1>6. ASSUME NEW i \in 1 .. n - 1 PROVE Tail(r)[i] = Tail(s)[i]
  <2>1. i + 1 \in 1 .. n /\ i + 1 # 1
    BY <1>1
  <2>2. r[i + 1] = s[i + 1]
    BY <1>2, <2>1
  <2>3. QED
    BY <1>4, <1>5, <2>2
<1>7. Tail(r) = Tail(s)
  <2>1. Tail(r) \in [1 .. n - 1 -> A] /\ Tail(s) \in [1 .. n - 1 -> A]
    BY <1>4, <1>5, LenProperties
  <2>2. Tail(r) = [i \in 1 .. n - 1 |-> Tail(r)[i]]
    BY <2>1
  <2>3. Tail(s) = [i \in 1 .. n - 1 |-> Tail(s)[i]]
    BY <2>1
  <2>4. QED
    BY <1>6, <2>2, <2>3
<1>8. QED
  BY <1>2, <1>3, <1>7 DEF r

LEMMA FillRefines ==
  ASSUME Inv, Inv', Fill
  PROVE  UNCHANGED S!scriptVars
<1>1. /\ pc = "reading" /\ Top.cnt = 0
      /\ UNCHANGED <<text, linebuf, quit_flag, ran, pc>>
  BY DEF Fill, input, errors
<1>2. PICK n \in 1 .. BufSize :
        buf_stack' = [buf_stack EXCEPT ![1].pos = @ + n, ![1].cnt = n]
  BY DEF Fill
<1>3. buf_stack # <<>> /\ buf_stack \in Seq(Buffers)
  BY <1>1 DEF Inv, Line, Typed
<1> DEFINE e == [Top EXCEPT !.pos = @ + n, !.cnt = n]
<1>4. Top = buf_stack[1] /\ Top \in [file : DOMAIN text, pos : Nat, cnt : Nat]
  BY <1>3, TopFacts DEF Inv, Buffers
<1>5. e.file = Top.file /\ e.pos - e.cnt = Top.pos - Top.cnt
  <2>1. Top.pos \in Nat /\ n \in Nat /\ BufSize \in Nat
    BY <1>4, ConsoleAssumption
  <2>2. e.file = Top.file /\ e.cnt = n
    BY <1>4
  <2>3. e.pos = Top.pos + n
    BY <1>4
  <2> HIDE DEF e
  <2>4. QED
    BY <1>1, <2>1, <2>2, <2>3
<1>6. buf_stack' = [buf_stack EXCEPT ![1] = e]
  BY <1>2, <1>3, TopFacts DEF Inv
<1> HIDE DEF e
<1>7. buf_stack'[1] = e /\ Tail(buf_stack') = Tail(buf_stack)
  <2>1. buf_stack \in Seq(Buffers \cup {e}) /\ e \in Buffers \cup {e}
    <3>1. Len(buf_stack) \in Nat /\ buf_stack \in [1 .. Len(buf_stack) -> Buffers]
      BY <1>3, LenProperties
    <3>2. buf_stack \in [1 .. Len(buf_stack) -> Buffers \cup {e}]
      BY <3>1
    <3>3. QED
      BY <3>1, <3>2, SeqDef
  <2>2. QED
    BY <1>3, <1>6, <2>1, TailExcept
<1>8. RestOf(text, e, Len(linebuf)) = RestOf(text, buf_stack[1], Len(linebuf))
  BY <1>4, <1>5 DEF RestOf
<1>9. Todo' = Todo
  BY <1>1, <1>7, <1>8, TodoReading, TodoReadingNext
<1>10. QED
  BY <1>1, <1>9, QuietStep

LEMMA EndOfFileRefines ==
  ASSUME Inv, Inv', EndOfFile
  PROVE  UNCHANGED S!scriptVars
<1>1. /\ pc = "reading" /\ Top.cnt = 0 /\ AtEof(Top)
      /\ buf_stack' = Tail(buf_stack)
      /\ pc' = IF linebuf = <<>> THEN after ELSE "command"
      /\ UNCHANGED <<text, linebuf, quit_flag, ran>>
  BY DEF EndOfFile, input, errors
<1>2. buf_stack # <<>> /\ Len(linebuf) \in 0 .. LineMax - 1
  BY <1>1, TodoReading
<1>3. /\ Top = buf_stack[1] /\ Top.file \in DOMAIN text /\ Top.pos \in Nat /\ Size(Top.file) \in Nat
      /\ Top \in Places(text)
  <2>1. Top = buf_stack[1] /\ Top.file \in DOMAIN text /\ Top.pos \in Nat /\ Size(Top.file) \in Nat
    BY <1>2, TopFacts DEF Inv
  <2>2. 1 \in 1 .. Len(buf_stack)
    BY <1>2, EmptySeq, StackFacts
  <2>3. QED
    BY <2>1, <2>2, StackFacts, ElementOfSeq
<1>4. Top.pos - Top.cnt = Len(text[Top.file])
  <2>1. Size(Infile) \in Nat /\ arrived \in Nat
    BY TextFacts, ConsoleAssumption DEF Inv, Typed, Size
  <2>2. Size(Top.file) - Top.pos = 0
    BY <1>1, <1>3, <2>1 DEF AtEof, Available
  <2>3. QED
    BY <1>1, <1>3, <2>2 DEF Size
<1>5. RestOf(text, buf_stack[1], Len(linebuf)) = <<>>
  BY <1>2, <1>3, <1>4, StackFacts, RestFacts
<1> DEFINE D == Deeper(text, Tail(buf_stack))
           B == Begun("reading", linebuf)
<1>6. D \in Seq(Units)
  BY <1>1, NextStackFacts, DeeperFacts
<1>7. Todo = B \o (<<>> \o D)
  BY <1>1, <1>5, TodoReading
<1>8. after \in {"main", "loop"}
  BY DEF Inv, Typed
<1>9. Todo' = Begun(pc', linebuf') \o D
  BY <1>1, <1>8, TodoOutsideNext
<1>10. Begun(pc', linebuf') = B
  BY <1>1, <1>8 DEF Begun
<1> HIDE DEF B, D
<1>11. Todo' = Todo
  BY <1>6, <1>7, <1>9, <1>10, ConcatEmptySeq
<1>12. QED
  BY <1>1, <1>8, <1>11, QuietStep

LEMMA TakeUnitRefines ==
  ASSUME Inv, Inv', TakeUnit
  PROVE  UNCHANGED S!scriptVars
<1> DEFINE u == text[Top.file][Consumed(Top) + 1]
<1>1. /\ pc = "reading" /\ Top.cnt > 0
      /\ linebuf' = IF u = Newline THEN linebuf ELSE Append(linebuf, u)
      /\ pc' = IF u = Newline \/ Len(linebuf') = LineMax THEN "command" ELSE "reading"
      /\ buf_stack' = [buf_stack EXCEPT ![1].cnt = @ - 1]
      /\ UNCHANGED <<text, quit_flag, ran>>
  BY DEF TakeUnit, input, errors
<1>2. buf_stack # <<>> /\ Len(linebuf) \in 0 .. LineMax - 1
  BY <1>1, TodoReading
<1> DEFINE e == [Top EXCEPT !.cnt = @ - 1]
<1>3. Top = buf_stack[1] /\ Top \in Places(text)
  <2>1. 1 \in 1 .. Len(buf_stack)
    BY <1>2, EmptySeq, StackFacts
  <2>2. QED
    BY <1>2, <2>1, TopFacts, StackFacts, ElementOfSeq DEF Inv
<1>4. e \in Places(text) /\ e.file = Top.file /\ e.pos = Top.pos /\ e.cnt = Top.cnt - 1
  <2>1. Top \in [file : DOMAIN text, pos : Nat, cnt : Nat] /\ Top.cnt - 1 \in Nat /\ Top.cnt <= Top.pos
        /\ Top.pos <= Len(text[Top.file])
    BY <1>1, <1>3 DEF Places
  <2>2. /\ e \in [file : DOMAIN text, pos : Nat, cnt : Nat]
        /\ e.file = Top.file /\ e.pos = Top.pos /\ e.cnt = Top.cnt - 1
    BY <2>1
  <2> HIDE DEF e
  <2>3. e.cnt <= e.pos
    BY <2>1, <2>2
  <2>4. QED
    BY <2>1, <2>2, <2>3 DEF Places
<1>5. buf_stack' = [buf_stack EXCEPT ![1] = e]
  BY <1>1, <1>2, TopFacts DEF Inv
<1> HIDE DEF e
<1>6. buf_stack'[1] = e /\ Tail(buf_stack') = Tail(buf_stack) /\ buf_stack' # <<>>
  BY <1>2, <1>4, <1>5, StackFacts, TailExcept
<1> DEFINE c == Len(linebuf)
           next == IF c + 1 = LineMax THEN 0 ELSE c + 1
           B == Begun("reading", linebuf)
           D == Deeper(text, Tail(buf_stack))
           head == IF c = 0 THEN <<u>> ELSE <<>>
<1>7. Todo = B \o (RestOf(text, Top, c) \o D) /\ B \in Seq(Units)
  BY <1>1, <1>3, TodoReading
<1>8. /\ u = Newline => RestOf(text, Top, c) = RestOf(text, e, 0)
      /\ u # Newline => RestOf(text, Top, c) = head \o RestOf(text, e, next)
  BY <1>1, <1>2, <1>3, <1>4, StackFacts, RestTaken DEF Consumed
<1>9. 0 \in 0 .. LineMax - 1 /\ next \in 0 .. LineMax - 1 /\ LineMax \in Nat \ {0}
  BY <1>2, ConsoleAssumption
<1>10. /\ RestOf(text, e, 0) \in Seq(Units) /\ RestOf(text, e, next) \in Seq(Units)
       /\ Deeper(text, buf_stack') = RestOf(text, e, 0) \o D
       /\ D \in Seq(Units)
  <2>1. text' = text /\ text \in Texts /\ buf_stack' \in Seq(Places(text))
    BY <1>1, NextStackFacts
  <2>2. Deeper(text, buf_stack') = RestOf(text, e, 0) \o D /\ D \in Seq(Units)
    BY <1>6, <2>1, DeeperCons
  <2> HIDE DEF next
  <2>3. RestOf(text, e, 0) \in Seq(Units) /\ RestOf(text, e, next) \in Seq(Units)
    BY <1>4, <1>9, <2>1, RestFacts
  <2>4. QED
    BY <2>2, <2>3
<1>11. u # Newline => u \in Units
  <2>1. Top.file \in DOMAIN text /\ Consumed(Top) + 1 \in 1 .. Len(text[Top.file])
    <3>1. Top.file \in DOMAIN text /\ Top.pos \in Nat /\ Top.cnt \in Nat /\ Top.cnt <= Top.pos
          /\ Top.pos <= Len(text[Top.file])
      BY <1>3 DEF Places
    <3>2. Len(text[Top.file]) \in Nat
      BY <3>1, StackFacts, TextFacts
    <3>3. QED
      BY <1>1, <3>1, <3>2 DEF Consumed
  <2>2. QED
    BY <2>1, StackFacts, TextFacts
<1> HIDE DEF u
<1>12. CASE u = Newline
  <2>1. Todo' = Begun("command", linebuf) \o Deeper(text, buf_stack')
    BY <1>1, <1>12, TodoOutsideNext
  <2>2. Begun("command", linebuf) = B
    BY DEF Begun
  <2> HIDE DEF B, D
  <2>3. Todo' = Todo
    BY <1>7, <1>8, <1>10, <1>12, <2>1, <2>2
  <2>4. QED
    BY <1>1, <2>3, QuietStep
<1>13. CASE u # Newline
  <2>1. linebuf' = Append(linebuf, u) /\ Len(linebuf') = c + 1 /\ linebuf' # <<>>
    BY <1>1, <1>11, <1>13, StackFacts, AppendProperties
  <2>2. pc' \in {"reading", "command"} /\ (pc' = "command" <=> c + 1 = LineMax)
    BY <1>1, <1>13, <2>1
  <2>3. Todo' = Begun(pc', linebuf') \o (RestOf(text, e, next) \o D)
    <3>1. CASE c + 1 = LineMax
      <4>1. Todo' = Begun(pc', linebuf') \o Deeper(text, buf_stack')
        BY <1>1, <2>2, <3>1, TodoOutsideNext
      <4>2. next = 0
        BY <3>1
      <4>3. QED
        BY <1>10, <4>1, <4>2
    <3>2. CASE c + 1 # LineMax
      <4>1. pc' = "reading" /\ next = Len(linebuf')
        BY <2>1, <2>2, <3>2
      <4> HIDE DEF next
      <4>2. QED
        BY <1>1, <1>6, <4>1, TodoReadingNext
    <3>3. QED
      BY <3>1, <3>2
  <2>4. Begun(pc', linebuf') = <<linebuf'[1]>>
    BY <2>1, <2>2 DEF Begun, FirstWord
  <2>5. Begun(pc', linebuf') = B \o head /\ head \in Seq(Units)
    <3>1. CASE c = 0
      <4>1. linebuf = <<>>
        BY <3>1, StackFacts, EmptySeq
      <4>2. B = <<>> /\ head = <<u>> /\ head \in Seq(Units)
        BY <1>11, <1>13, <3>1, <4>1 DEF Begun
      <4>3. linebuf'[1] = u
        BY <2>1, <4>1
      <4> HIDE DEF B, head
      <4>4. QED
        BY <2>4, <4>2, <4>3, ConcatEmptySeq
    <3>2. CASE c # 0
      <4>1. linebuf # <<>> /\ 1 \in 1 .. c
        BY <1>2, <3>2, EmptySeq
      <4>2. B = <<linebuf[1]>> /\ head = <<>> /\ head \in Seq(Units)
        BY <3>2, <4>1, EmptySeq DEF Begun, FirstWord
      <4>3. linebuf'[1] = linebuf[1]
        BY <1>11, <1>13, <2>1, <4>1, StackFacts, AppendProperties
      <4> HIDE DEF B, head
      <4>4. QED
        BY <1>7, <2>4, <4>2, <4>3, ConcatEmptySeq
    <3>3. QED
      BY <3>1, <3>2
  <2> DEFINE R == RestOf(text, e, next)
  <2>6. R \in Seq(Units) /\ D \in Seq(Units) /\ B \in Seq(Units) /\ head \in Seq(Units)
    BY <1>7, <1>10, <2>5
  <2>7. Todo = B \o ((head \o R) \o D) /\ Todo' = (B \o head) \o (R \o D)
    BY <1>7, <1>8, <1>13, <2>3, <2>5
  <2> HIDE DEF R, D, B, head
  <2>8. (head \o R) \o D = head \o (R \o D) /\ R \o D \in Seq(Units)
    BY <2>6, ConcatAssociative, ConcatProperties
  <2>9. (B \o head) \o (R \o D) = B \o (head \o (R \o D))
    BY <2>6, <2>8, ConcatAssociative
  <2>10. Todo' = Todo
    BY <2>7, <2>8, <2>9
  <2>11. QED
    BY <1>1, <2>2, <2>10, QuietStep
<1>14. QED
  BY <1>12, <1>13

LEMMA ConsIs ==
  ASSUME NEW A, NEW c \in A, NEW D \in Seq(A)
  PROVE  /\ <<c>> \o D # <<>> /\ (<<c>> \o D)[1] = c
         /\ Head(<<c>> \o D) = c /\ Tail(<<c>> \o D) = D
<1> DEFINE r == <<c>> \o D
           n == Len(D)
<1>1. <<c>> \in Seq(A) /\ Len(<<c>>) = 1 /\ <<c>>[1] = c /\ n \in Nat
  BY LenProperties
<1>2. /\ r \in Seq(A) /\ Len(r) = 1 + n
      /\ \A i \in 1 .. 1 + n : r[i] = IF i <= 1 THEN <<c>>[i] ELSE D[i - 1]
  BY <1>1, ConcatProperties
<1> HIDE DEF r, n
<1>3. r # <<>> /\ r[1] = c
  <2>1. 1 \in 1 .. 1 + n /\ 1 <= 1 /\ 1 + n # 0
    BY <1>1
  <2>2. QED
    BY <1>1, <1>2, <2>1, EmptySeq
<1>4. /\ Tail(r) \in Seq(A) /\ Len(Tail(r)) = n
      /\ \A i \in 1 .. n : Tail(r)[i] = r[i + 1]
  <2>1. (1 + n) - 1 = n
    BY <1>1
  <2>2. QED
    BY <1>2, <1>3, <2>1, HeadTailProperties
<1>5. ASSUME NEW i \in 1 .. n PROVE Tail(r)[i] = D[i]
  <2> DEFINE j == i + 1
  <2>1. j \in 1 .. 1 + n /\ ~(j <= 1) /\ j - 1 = i
    BY <1>1
  <2> HIDE DEF j
  <2>2. r[j] = D[j - 1]
    BY <1>2, <2>1
  <2>3. QED
    BY <1>4, <2>1, <2>2 DEF j
<1>6. Tail(r) = D
  <2>1. Tail(r) = [i \in 1 .. n |-> Tail(r)[i]]
    BY <1>4, LenProperties
  <2>2. D = [i \in 1 .. n |-> D[i]]
    BY LenProperties DEF n
  <2>3. QED
    BY <1>5, <2>1, <2>2
<1>7. QED
  BY <1>3, <1>6 DEF r

(* At a command Todo begins with it.                                       *)
LEMMA TodoCommand ==
  ASSUME Inv, pc = "command", linebuf # <<>>
  PROVE  /\ FirstWord(linebuf) \in Units
         /\ Deeper(text, buf_stack) \in Seq(Units)
         /\ Todo # <<>> /\ Head(Todo) = FirstWord(linebuf) /\ Tail(Todo) = Deeper(text, buf_stack)
<1> DEFINE c == FirstWord(linebuf)
           D == Deeper(text, buf_stack)
<1>1. c \in Units
  BY StackFacts, EmptySeq, LenProperties, ElementOfSeq DEF FirstWord
<1>2. D \in Seq(Units)
  BY StackFacts, DeeperFacts
<1>3. Todo = Begun(pc, linebuf) \o D
  BY StackFacts, TodoIs, TodoAtFacts
<1>4. Begun(pc, linebuf) = <<c>>
  BY DEF Begun
<1> HIDE DEF c, D
<1>5. <<c>> \o D # <<>> /\ Head(<<c>> \o D) = c /\ Tail(<<c>> \o D) = D
  BY <1>1, <1>2, ConsIs
<1>6. QED
  BY <1>1, <1>2, <1>3, <1>4, <1>5 DEF c, D

LEMMA BlankRefines ==
  ASSUME Inv, Inv', pc = "command", quit_flag \/ linebuf = <<>>, pc' = after, UNCHANGED text,
         UNCHANGED <<buf_stack, errors, ending>>
  PROVE  S!ScriptNext \/ UNCHANGED S!scriptVars
<1>1. pc' \in {"main", "loop"} /\ text' = text /\ buf_stack' = buf_stack /\ ran' = ran /\ quit_flag' = quit_flag
  BY DEF Inv, Typed, errors
<1>2. Todo' = Deeper(text, buf_stack)
  BY <1>1, TodoBetweenNext
<1>3. CASE linebuf = <<>>
  <2>1. Todo' = Todo
    BY <1>2, <1>3, TodoBetween
  <2>2. QED
    BY <1>1, <2>1, QuietStep
<1>4. CASE quit_flag /\ linebuf # <<>>
  <2>1. Todo # <<>> /\ Todo' = Tail(Todo)
    BY <1>2, <1>4, TodoCommand
  <2>2. [f \in DOMAIN text |-> Whole(f)]' = [f \in DOMAIN text |-> Whole(f)]
    BY <1>1 DEF Whole, Size
  <2>3. (quit_flag \/ pc = "exited") /\ (quit_flag \/ pc = "exited")' = (quit_flag \/ pc = "exited")
    BY <1>1, <1>4
  <2>4. S!Discarded
    BY <1>1, <2>1, <2>2, <2>3 DEF S!Discarded
  <2>5. QED
    BY <2>4 DEF S!ScriptNext
<1>5. QED
  BY <1>3, <1>4

LEMMA InterpretRefines ==
  ASSUME Inv, Inv', Interpret
  PROVE  S!ScriptNext \/ UNCHANGED S!scriptVars
<1>1. pc = "command" /\ text' = text /\ after' = after /\ after \in {"main", "loop"}
  BY DEF Interpret, input, Inv, Typed
<1>2. CASE /\ quit_flag \/ linebuf = <<>>
           /\ pc' = after
           /\ UNCHANGED <<buf_stack, errors, ending>>
  BY <1>1, <1>2, BlankRefines
<1>3. CASE /\ ~quit_flag /\ linebuf # <<>>
           /\ LET c == FirstWord(linebuf) IN
                \/ \E ok \in BOOLEAN : Call(c, ok) \/ QuitCommand(c, ok)
                \/ Source(c)
                \/ Option(c)
  <2> DEFINE c == FirstWord(linebuf)
             D == Deeper(text, buf_stack)
  <2>1. c \in Units /\ D \in Seq(Units) /\ Todo # <<>> /\ Head(Todo) = c /\ Tail(Todo) = D
    BY <1>1, <1>3, TodoCommand
  <2>2. \/ \E ok \in BOOLEAN : Call(c, ok) \/ QuitCommand(c, ok)
        \/ Source(c)
        \/ Option(c)
    BY <1>3
  <2> HIDE DEF c
  <2>3. ASSUME NEW ok, NEW limit, Returned(c, ok, limit)
        PROVE  /\ ran' = ran + 1 /\ pc' \in {"main", "loop"} /\ Todo' = Deeper(text, buf_stack')
               /\ (c.op = "quit" => quit_flag')
               /\ (c.op # "quit" /\ ok => ~quit_flag')
    <3>1. ran' = ran + 1 /\ pc' \in {"main", "loop"}
      BY <1>1, <2>3 DEF Returned
    <3>2. Todo' = Deeper(text, buf_stack')
      BY <1>1, <3>1, TodoBetweenNext
    <3>3. /\ c.op = "quit" => quit_flag'
          /\ c.op # "quit" /\ ok => ~quit_flag'
      BY <2>3, Zenon DEF Returned
    <3>4. QED
      BY <3>1, <3>2, <3>3
  <2>4. ASSUME NEW ok, NEW limit, Returned(c, ok, limit), buf_stack' = buf_stack PROVE S!ScriptNext
    <3>1. ran' = ran + 1 /\ pc' # "exited" /\ Todo' = Tail(Todo)
      BY <2>1, <2>3, <2>4
    <3>2. QED
      BY <1>1, <1>3, <2>1, <3>1, CommandStep
  <2>5. ASSUME NEW ok \in BOOLEAN, Call(c, ok) PROVE S!ScriptNext
    BY <2>4, <2>5 DEF Call
  <2>6. ASSUME NEW ok \in BOOLEAN, QuitCommand(c, ok) PROVE S!ScriptNext
    <3>1. c.op = "quit" /\ buf_stack' = <<>> /\ Returned(c, ok, err_limit)
      BY <2>6 DEF QuitCommand, Quit
    <3>2. ran' = ran + 1 /\ pc' # "exited" /\ quit_flag' /\ Todo' = Deeper(text, <<>>)
      BY <2>3, <3>1
    <3>3. Deeper(text, <<>>) = <<>>
      BY StackFacts, DeeperFacts, EmptySeq
    <3>4. QED
      BY <1>1, <1>3, <2>1, <3>2, <3>3, CommandStep
  <2>7. CASE Option(c)
    <3>1. PICK ok, limit : Returned(c, ok, limit) /\ buf_stack' = buf_stack
      BY <2>7 DEF Option
    <3>2. QED
      BY <2>4, <3>1
  <2>8. CASE Source(c)
    <3> DEFINE opens == c.file \in DOMAIN text /\ Len(buf_stack) < MaxOpen
    <3>1. /\ c.op = "source" /\ Returned(c, opens, err_limit)
          /\ buf_stack' = IF opens THEN <<Opened(c.file)>> \o buf_stack ELSE buf_stack
      BY <2>8 DEF Source
    <3>2. CASE ~opens
      BY <2>4, <3>1, <3>2
    <3>3. CASE opens
      <4> DEFINE e == Opened(c.file)
      <4>1. ran' = ran + 1 /\ pc' # "exited" /\ Todo' = Deeper(text, buf_stack') /\ ~quit_flag'
        BY <2>3, <3>1, <3>3
      <4>2. buf_stack' = <<e>> \o buf_stack /\ c.file \in DOMAIN text
        BY <3>1, <3>3
      <4>3. e \in Places(text)
        BY <4>2, StackFacts, TextFacts DEF Opened, Places
      <4>4. e.file = c.file /\ e.pos = 0 /\ e.cnt = 0
        BY DEF Opened
      <4>5. buf_stack' \in Seq(Places(text)) /\ buf_stack' # <<>>
        <5>1. <<e>> \in Seq(Places(text)) /\ <<e>> # <<>>
          BY <4>3
        <5> HIDE DEF e
        <5>2. QED
          BY <4>2, <5>1, StackFacts, ConcatProperties, ConcatEqualIffEmpty
      <4>6. buf_stack'[1] = e /\ Tail(buf_stack') = buf_stack
        BY <4>2, <4>3, StackFacts, ConsIs
      <4> HIDE DEF e
      <4>7. Todo' = RestOf(text, e, 0) \o D
        BY <4>1, <4>5, <4>6, StackFacts, DeeperCons
      <4>8. RestOf(text, e, 0) = Whole(c.file)
        <5>1. Len(text[c.file]) - (0 - 0) = Len(text[c.file])
          BY <4>2, StackFacts, TextFacts
        <5>2. QED
          BY <4>4, <5>1 DEF RestOf, Whole, Size
      <4>9. \E f \in DOMAIN text :
              Head(Todo).op = "source" /\ Head(Todo).file = f /\ Todo' = Whole(f) \o Tail(Todo)
        BY <2>1, <3>1, <4>2, <4>7, <4>8
      <4>10. QED
        BY <1>1, <1>3, <2>1, <4>1, <4>9, CommandStep
    <3>4. QED
      BY <3>2, <3>3
  <2>9. QED
    BY <2>2, <2>5, <2>6, <2>7, <2>8
<1>4. QED
  BY <1>2, <1>3 DEF Interpret

LEMMA FinishRefines ==
  ASSUME Inv, Inv', Finish
  PROVE  S!ScriptNext \/ UNCHANGED S!scriptVars
<1>1. /\ pc \in {"main", "loop"} /\ pc' = "exited" /\ cmd_done
      /\ text' = text /\ ran' = ran /\ quit_flag' = quit_flag
  BY DEF Finish, input, errors
<1>2. Todo = Deeper(text, buf_stack) /\ Todo' = Deeper(text, buf_stack')
  BY <1>1, TodoBetween, TodoBetweenNext
<1>3. buf_stack' = buf_stack \/ (buf_stack' = <<>> /\ ~quit_flag)
  BY DEF Finish, Quit
<1>4. CASE quit_flag
  BY <1>1, <1>2, <1>3, <1>4, QuietStep
<1>5. CASE ~quit_flag
  <2>1. buf_stack = <<>> /\ buf_stack' = <<>>
    BY <1>1, <1>3, <1>5 DEF cmd_done
  <2>2. Todo = <<>> /\ Todo' = <<>>
    BY <1>2, <2>1, StackFacts, DeeperFacts
  <2>3. [f \in DOMAIN text |-> Whole(f)]' = [f \in DOMAIN text |-> Whole(f)]
    BY <1>1 DEF Whole, Size
  <2>4. ~(quit_flag \/ pc = "exited") /\ (quit_flag \/ pc = "exited")' = TRUE
    BY <1>1, <1>5
  <2>5. S!Ended
    BY <1>1, <2>2, <2>3, <2>4 DEF S!Ended
  <2>6. QED
    BY <2>5 DEF S!ScriptNext
<1>6. QED
  BY <1>4, <1>5

LEMMA OthersRefine ==
  ASSUME Arrive \/ UNCHANGED vars
  PROVE  UNCHANGED S!scriptVars
<1>1. UNCHANGED <<text, buf_stack, linebuf, pc, quit_flag, ran>>
  BY DEF Arrive, vars, input, errors
<1>2. Todo' = Todo
  BY <1>1, TodoIs
<1>3. QED
  BY <1>1, <1>2, QuietStep

(* However read() cuts the files into buffers, the lines of any files are  *)
(* executed in their order, those of a sourced file where it is named, and *)
(* none after quit or the last error: each step of the console is one of   *)
(* Script's or changes nothing of it (console.c:315-446, 470-510).         *)
THEOREM ConsoleImplementsScript == Spec => RefinesScript
<1>1. Init => S!ScriptInit
  <2> SUFFICES ASSUME Init PROVE S!ScriptInit
    OBVIOUS
  <2>1. text \in Texts /\ pc = "start" /\ ran = 0 /\ ~quit_flag
    BY DEF Init
  <2>2. Todo = Whole(Infile)
    BY <2>1 DEF Todo
  <2>3. [f \in DOMAIN text |-> Whole(f)][Infile] = Whole(Infile)
    BY <2>1, ConsoleAssumption
  <2>4. (quit_flag \/ pc = "exited") = FALSE
    BY <2>1
  <2>5. QED
    BY <2>1, <2>2, <2>3, <2>4 DEF S!ScriptInit
<1>2. Inv /\ Inv' /\ [Next]_vars => [S!ScriptNext]_(S!scriptVars)
  <2> SUFFICES ASSUME Inv, Inv', [Next]_vars PROVE S!ScriptNext \/ UNCHANGED S!scriptVars
    OBVIOUS
  <2>1. QED
    BY StartRefines, LineRefines, FillRefines, EndOfFileRefines, TakeUnitRefines, InterpretRefines,
       FinishRefines, OthersRefine DEF Next, ConsoleStep, Exited
<1>3. QED
  BY <1>1, <1>2, ConsoleInvariant, PTL DEF Spec, RefinesScript, S!ScriptSpec

=============================================================================
