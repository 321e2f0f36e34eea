-------------------------------- MODULE BTest --------------------------------
(***************************************************************************)
(* btest.c: the options, and run_tests, which calls each puzzle of decl.c  *)
(* and its reference on generated values and stops at the first difference *)
(* or when the alarm goes off.  The alarm jumps to where test_function set *)
(* it, and nothing turns it off when test_function returns: it may go off  *)
(* while the values of the next puzzle are generated, or in the caller.    *)
(*                                                                         *)
(* What a text after -1, -2 or -3 holds is a record: the number at its     *)
(* front, whether it is spelt as a float, and whether that is all of it.   *)
(***************************************************************************)
EXTENDS Bits, SequencesExt, FiniteSetsExt

CONSTANTS
  TestRange,    \* TEST_RANGE
  Root,         \* TEST_RANGE to the powers 1, 0.5 and 0.333, at least 1
  RandomWords,  \* what random_val may return here
  Texts,        \* the arguments of -1, -2 and -3
  Ratings, Limits,         \* the arguments of -r and -T
  MaxOptions, MaxAlarms,   \* bounds
  Sample        \* where a puzzle of three arguments is compared for Right

ASSUME BTestAssumption ==
  /\ TestRange \in Nat \ {0} /\ MaxOptions \in Nat /\ MaxAlarms \in Nat
  /\ Root \in [1..3 -> 1..TestRange] /\ Root[1] = TestRange
  /\ Texts \subseteq [value : Int, float : BOOLEAN, clean : BOOLEAN]
  /\ RandomWords \subseteq Word /\ RandomWords # {} /\ Sample \subseteq Word
  /\ Ratings \subseteq Int /\ Limits \subseteq Int

(***************************************************************************)
(* The table of puzzles.                                                   *)
(***************************************************************************)
Puzzle(name, args, rating, min, max) ==
  [name |-> name, args |-> args, rating |-> rating, min |-> min, max |-> max]

test_set == <<
  Puzzle("bitXor", 2, 1, TMin, TMax),
  Puzzle("tmin", 0, 1, TMin, TMax),
  Puzzle("isTmax", 1, 2, TMin, TMax),
  Puzzle("allOddBits", 1, 2, TMin, TMax),
  Puzzle("negate", 1, 2, TMin, TMax),
  Puzzle("isAsciiDigit", 1, 3, TMin, TMax),
  Puzzle("conditional", 3, 3, TMin, TMax),
  Puzzle("isLessOrEqual", 2, 3, TMin, TMax),
  Puzzle("logicalNeg", 1, 4, TMin, TMax),
  Puzzle("howManyBits", 1, 4, TMin, TMax),
  Puzzle("float_twice", 1, 4, 1, 1),
  Puzzle("float_i2f", 1, 4, 1, 1),
  Puzzle("float_f2i", 1, 4, 1, 1) >>

Names == {test_set[j].name : j \in DOMAIN test_set}
Floats == {"float_twice", "float_i2f", "float_f2i"}

solution(name, a, wraps) ==
  CASE name = "bitXor" -> bitXor(a[1], a[2])
    [] name = "tmin" -> tmin
    [] name = "isTmax" -> isTmax(a[1])
    [] name = "allOddBits" -> allOddBits(a[1])
    [] name = "negate" -> negate(a[1])
    [] name = "isAsciiDigit" -> isAsciiDigit(a[1])
    [] name = "conditional" -> conditional(a[1], a[2], a[3])
    [] name = "isLessOrEqual" -> isLessOrEqual(a[1], a[2], wraps)
    [] name = "logicalNeg" -> logicalNeg(a[1])
    [] name = "howManyBits" -> howManyBits(a[1])
    [] name \in Floats -> floatStub

reference(name, a) ==
  CASE name = "bitXor" -> test_bitXor(a[1], a[2])
    [] name = "tmin" -> test_tmin
    [] name = "isTmax" -> test_isTmax(a[1])
    [] name = "allOddBits" -> test_allOddBits(a[1])
    [] name = "negate" -> test_negate(a[1])
    [] name = "isAsciiDigit" -> test_isAsciiDigit(a[1])
    [] name = "conditional" -> test_conditional(a[1], a[2], a[3])
    [] name = "isLessOrEqual" -> test_isLessOrEqual(a[1], a[2])
    [] name = "logicalNeg" -> test_logicalNeg(a[1])
    [] name = "howManyBits" -> test_howManyBits(a[1])
    [] name = "float_twice" -> test_float_twice(a[1])
    [] name = "float_i2f" -> test_float_i2f(a[1])
    [] name = "float_f2i" -> test_float_f2i(a[1])

Inputs(args) ==
  CASE args = 0 -> {<<>>}
    [] args = 1 -> {<<x>> : x \in Word}
    [] args = 2 -> Word \X Word
    [] args = 3 -> Word \X Sample \X Sample

(* The puzzles that equal their reference everywhere.                      *)
Right(w) ==
  {p \in ToSet(test_set) :
     \A a \in Inputs(p.args) : solution(p.name, a, w) = reference(p.name, a)}

VARIABLES
  wraps,          \* whether this build lets a signed sum wrap around
  right,          \* the puzzles that are right in this build
  pc,             \* "options", "loop", "gen", "test", "score" or an end
  options,        \* how many options there were
  has_arg,        \* the options' settings
  argval,
  test_fname,
  global_rating,
  timeout_limit,
  i,              \* the puzzle,
  vals,           \* its test values,
  at,             \* and the position in the loops over them
  terrors, points, max_points,
  armed, alarms,  \* whether an alarm is due, and how many went off
  refuted, failed \* what tests showed, and which puzzles got no points

command == <<options, has_arg, argval, test_fname, global_rating, timeout_limit>>
loops == <<i, vals, at>>
score == <<terrors, points, max_points>>
clock == <<armed, alarms>>
seen == <<refuted, failed>>
build == <<wraps, right>>
vars == <<build, pc, command, loops, score, clock, seen>>

Init ==
  /\ wraps \in BOOLEAN
  /\ right = Right(wraps)
  /\ pc = "options"
  /\ options = 0
  /\ has_arg = [k \in 1..3 |-> FALSE]
  /\ argval = [k \in 1..3 |-> 0]
  /\ test_fname = "all"
  /\ global_rating = 0
  /\ timeout_limit = 30
  /\ i = 1 /\ vals = <<>> /\ at = <<>>
  /\ terrors = 0 /\ points = 0 /\ max_points = 0
  /\ armed = FALSE /\ alarms = 0
  /\ refuted = {} /\ failed = {}

(***************************************************************************)
(* main: the options.  An integer is accepted while *valp is 0, where the  *)
(* end of the text was meant: a second value for an argument that is not 0 *)
(* is refused, and what follows the number is not looked at.               *)
(***************************************************************************)
get_num_val(text, old) ==
  IF text.float THEN text.clean
  ELSE old = 0 /\ text.value \in TMin..(2^W - 1)

Option ==
  /\ pc = "options" /\ options < MaxOptions
  /\ options' = options + 1
  /\ UNCHANGED <<build, loops, score, clock, seen>>

ArgOption(k, text) ==
  /\ Option
  /\ has_arg' = [has_arg EXCEPT ![k] = get_num_val(text, argval[k])]
  /\ argval' = [argval EXCEPT ![k] =
       IF get_num_val(text, @) THEN Wrap(text.value) ELSE @]
  /\ pc' = IF has_arg'[k] THEN pc ELSE "exited"
  /\ UNCHANGED <<test_fname, global_rating, timeout_limit>>

NameOption(name) ==
  /\ Option
  /\ test_fname' = name
  /\ UNCHANGED <<pc, has_arg, argval, global_rating, timeout_limit>>

RatingOption(rating) ==
  /\ Option
  /\ global_rating' = rating
  /\ pc' = IF rating < 0 THEN "exited" ELSE pc
  /\ UNCHANGED <<has_arg, argval, test_fname, timeout_limit>>

LimitOption(limit) ==
  /\ Option
  /\ timeout_limit' = limit
  /\ UNCHANGED <<pc, has_arg, argval, test_fname, global_rating>>

Start ==
  /\ pc = "options"
  /\ pc' = "loop"
  /\ UNCHANGED <<build, command, loops, score, clock, seen>>

(***************************************************************************)
(* run_tests.                                                              *)
(***************************************************************************)
(* Mutant: the number of errors is not set back.                           *)
CallAgain ==
  /\ pc = "loop" /\ i <= Len(test_set)
  /\ IF test_fname \in {"all", test_set[i].name}
       THEN pc' = "gen" /\ i' = i
       ELSE pc' = pc /\ i' = i + 1
  /\ vals' = <<>> /\ at' = <<>>
  /\ UNCHANGED <<build, command, score, clock, seen>>

Call ==
  /\ pc = "loop" /\ i <= Len(test_set)
  /\ \/ /\ test_fname \in {"all", test_set[i].name}
        /\ pc' = "gen"
        /\ i' = i
     \/ /\ test_fname \notin {"all", test_set[i].name}
        /\ pc' = pc
        /\ i' = i + 1
  /\ vals' = <<>> /\ at' = <<>> /\ terrors' = 0
  /\ UNCHANGED <<build, command, points, max_points, clock, seen>>

Finish ==
  /\ pc = "loop" /\ i > Len(test_set)
  /\ pc' = "done"
  /\ UNCHANGED <<build, command, loops, score, clock, seen>>

rating(p) == IF global_rating # 0 THEN global_rating ELSE p.rating

Score ==
  /\ pc = "score"
  /\ points' = points + (IF terrors = 0 THEN rating(test_set[i]) ELSE 0)
  /\ max_points' = max_points + rating(test_set[i])
  /\ failed' = IF terrors = 0 THEN failed ELSE failed \cup {test_set[i].name}
  /\ i' = i + 1
  /\ pc' = "loop"
  /\ UNCHANGED <<build, command, vals, at, terrors, clock, refuted>>

(***************************************************************************)
(* gen_vals: the values a puzzle is tested with, per argument.             *)
(***************************************************************************)
arg_test_range(args) == Root[IF args \in {1, 2} THEN args ELSE 3]

MAX_TEST_VALS == 13 * TestRange

FloatValues(test_range) ==
  LET smallest_norm == 2^F
      one == Bias * 2^F
      largest_norm == Inf - 1
      both(u) == <<u, TMin + u>>
      around(u, n) == <<u + n, u - n, TMin + (u + n), TMin + (u - n)>>
      range == IF test_range > 2^F THEN 2^F ELSE test_range
      round(n) == both(n) \o around(smallest_norm, n) \o around(one, n) \o both(largest_norm - n)
  IN  FlattenSeq([n \in 1..range |-> round(n - 1)]) \o both(Inf) \o both(Inf + 2^(F-1))

(* Mutant: the ends of the range are left out.                             *)
SampledAroundZero(min, max, test_range, random) ==
  FlattenSeq([n \in 1..test_range |-> <<n - 1, 1 - n, random[n - 1]>>])

SampledValues(min, max, test_range, random) ==
  LET if_inside(n) == IF min <= n /\ n <= max THEN <<n>> ELSE <<>>
      round(n) == <<min + n, max - n>> \o if_inside(n) \o if_inside(-n) \o <<random[n]>>
  IN  FlattenSeq([n \in 1..test_range |-> round(n - 1)])

gen_vals(p, arg, random) ==
  IF has_arg[arg] THEN <<argval[arg]>>
  ELSE IF p.min = 1 /\ p.max = 1 THEN FloatValues(arg_test_range(p.args))
  ELSE IF p.max - MAX_TEST_VALS <= p.min THEN [n \in 1..(p.max - p.min + 1) |-> p.min + n - 1]
  ELSE SampledValues(p.min, p.max, arg_test_range(p.args), random)

(***************************************************************************)
(* test_function.                                                          *)
(***************************************************************************)
GenerateValues ==
  /\ pc = "gen" /\ Len(vals) < test_set[i].args
  /\ \E random \in [0..arg_test_range(test_set[i].args) - 1 -> RandomWords] :
       vals' = Append(vals, gen_vals(test_set[i], Len(vals) + 1, random))
  /\ UNCHANGED <<build, pc, command, i, at, score, clock, seen>>

SetAlarm ==
  /\ pc = "gen" /\ Len(vals) = test_set[i].args
  /\ armed' = (armed \/ timeout_limit > 0)
  /\ at' = [k \in 1..Len(vals) |-> 1]
  /\ pc' = "test"
  /\ UNCHANGED <<build, command, i, vals, score, alarms, seen>>

arguments == [k \in 1..Len(vals) |-> vals[k][at[k]]]

(* The innermost of the three loops that has values left goes on, and the  *)
(* loops inside it begin again.                                            *)
Unfinished == {k \in 1..Len(vals) : at[k] < Len(vals[k])}
Advanced ==
  LET k == Max(Unfinished)
  IN  [n \in 1..Len(vals) |-> IF n < k THEN at[n] ELSE IF n = k THEN at[n] + 1 ELSE 1]

Test ==
  /\ pc = "test"
  /\ LET name == test_set[i].name
         error == solution(name, arguments, wraps) # reference(name, arguments)
     IN  /\ terrors' = IF error THEN terrors + 1 ELSE terrors
         /\ refuted' = IF error THEN refuted \cup {<<name, arguments>>} ELSE refuted
         /\ pc' = IF error \/ Unfinished = {} THEN "score" ELSE pc
         /\ at' = IF error \/ Unfinished = {} THEN at ELSE Advanced
  /\ UNCHANGED <<build, command, i, vals, points, max_points, clock, failed>>

(* The jump into test_function, which returns 1.  While its frame is in    *)
(* use that is the puzzle in hand, tested or not.  In the caller the frame *)
(* has gone: what it returned may be returned again as 1, or anything may  *)
(* happen, of which nothing more is said.                                  *)
AlarmGoesOff ==
  /\ armed /\ alarms < MaxAlarms
  /\ armed' = FALSE
  /\ alarms' = alarms + 1
  /\ \/ /\ pc \in {"gen", "test", "score"}
        /\ terrors' = 1
        /\ pc' = "score"
     \/ /\ pc \in {"score", "loop"}
        /\ pc' = "crashed"
        /\ terrors' = terrors
  /\ UNCHANGED <<build, command, loops, points, max_points, seen>>

Ended == pc \in {"done", "exited", "crashed"} /\ UNCHANGED vars

Next ==
  \/ \E k \in 1..3, text \in Texts : ArgOption(k, text)
  \/ \E name \in Names : NameOption(name)
  \/ \E r \in Ratings : RatingOption(r)
  \/ \E limit \in Limits : LimitOption(limit)
  \/ Start \/ Call \/ GenerateValues \/ SetAlarm \/ Test \/ Score \/ Finish
  \/ AlarmGoesOff \/ Ended

Spec == Init /\ [][Next]_vars

(***************************************************************************)
(* Properties.                                                             *)
(***************************************************************************)
(* What the puzzles in ps are worth, point by point.                       *)
Worth(ps) == Cardinality(UNION {{p} \X (1..rating(p)) : p \in ps})
Asked == {p \in ToSet(test_set) : test_fname \in {"all", p.name}}
FixedArguments == \E k \in 1..3 : has_arg[k]

TypeOK ==
  /\ wraps \in BOOLEAN /\ armed \in BOOLEAN
  /\ pc \in {"options", "loop", "gen", "test", "score", "done", "exited", "crashed"}
  /\ options \in 0..MaxOptions /\ alarms \in 0..MaxAlarms
  /\ has_arg \in [1..3 -> BOOLEAN] /\ argval \in [1..3 -> Word]
  /\ test_fname \in Names \cup {"all"}
  /\ global_rating \in Ratings \cup {0} /\ timeout_limit \in Limits \cup {30}
  /\ i \in 1..Len(test_set) + 1
  /\ Len(vals) <= 3 /\ \A k \in DOMAIN vals : vals[k] \in Seq(Word)
  /\ terrors \in 0..1 /\ points \in Nat /\ max_points \in Nat
  /\ failed \subseteq Names

(* The total a run ends with, when no argument was fixed, is what the      *)
(* puzzles are worth that equal their references for every word, not only  *)
(* for the values tried: the values and the order of the loops miss no     *)
(* wrong puzzle, in either build.  Alarms can only take points away.       *)
ScoreIsRight ==
  (pc = "done" /\ ~FixedArguments) =>
    /\ points <= Worth(Asked \cap right)
    /\ alarms = 0 => points = Worth(Asked \cap right)

(* What a test refutes is one of the three floats, which are stubs, or     *)
(* isLessOrEqual in the build that wraps, where y - x overflows.           *)
WrongOnlyWhereKnown ==
  \A r \in refuted :
    \/ r[1] \in Floats
    \/ r[1] = "isLessOrEqual" /\ wraps /\ r[2][2] - r[2][1] \notin Word

(* A puzzle fails only for a difference that was seen or for an alarm, and *)
(* an alarm fails one puzzle: although it may be the alarm of another.     *)
FailuresExplained ==
  Cardinality(failed \ {r[1] : r \in refuted}) <= alarms
=============================================================================
