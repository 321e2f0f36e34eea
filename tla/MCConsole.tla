----------------------------- MODULE MCConsole -----------------------------
(* Instances of Console for TLC.                                           *)
EXTENDS Console, TLC

CONSTANTS Stdin, Inner, Missing

Word(op) == [op |-> op, times |-> 0]
Sourcing(f) == [op |-> "source", times |-> 0, file |-> f]
Setting(s) == [op |-> "option", times |-> 0, values |-> s]
Timed(c) == [c EXCEPT !.times = 1]
NL == Newline

(* The console's own input: up to three commands, on lines of one unit, of *)
(* two, of none, of one too many, with and without a newline at the end.   *)
Inputs == {
  <<Word("call"), NL, Sourcing(Inner), NL, Word("call")>>,
  <<Sourcing(Inner), Word("call"), Word("quit"), NL, NL, Word("call"), NL>>,
  <<Timed(Sourcing(Missing)), NL, Word("quit"), NL, Word("call"), NL>>,
  <<NL, Setting(<<1, Bad, 9>>), NL, Word("call"), NL>>,
  <<Setting(<<3, 2>>), NL, Timed(Word("unknown")), NL, Word("quit"), NL>>,
  <<Sourcing(Inner), NL, Sourcing(Inner)>>,
  <<Word("call"), Word("call"), Word("quit"), NL, Word("call"), NL>>,
  <<>> }

(* The file it sources: nested in itself, ending the program, cut short.   *)
Inners == {
  <<Word("call"), NL, Sourcing(Inner), NL, Word("unknown"), NL>>,
  <<Word("call"), Word("call"), NL, Word("quit")>>,
  <<Sourcing(Inner), NL>>,
  <<Timed(Word("call"))>> }

MCTexts == {Stdin :> i @@ Inner :> s : i \in Inputs, s \in Inners}
=============================================================================
