----------------------------- MODULE MCAccounts ------------------------------
EXTENDS Accounts

Line(words, length, what) == [words |-> words, length |-> length, what |-> what]

(* A blank line, then lines of one and two words.                          *)
SomeLines == {Line(<<>>, 1, "none"), Line(<<1>>, 1, "unknown"), Line(<<2, 1>>, 4, "option"),
              Line(<<1, 2>>, 4, "log"), Line(<<2, 2>>, 5, "source"),
              Line(<<1>>, 2, "queue"), Line(<<1>>, 1, "quit")}
Verbosities == {-1, 1, 3}
=============================================================================
