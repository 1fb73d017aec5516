---------------------------- MODULE CommandText ----------------------------
(* The characters of a command, and the texts senders make of arguments.   *)
EXTENDS Integers, Sequences

Dq == "\""
Sq == "'"
Backslash == "\\"
Space == " "
Numerals == <<"0", "1", "2", "3", "4", "5", "6", "7", "8", "9">>
Digits   == {Numerals[k] : k \in 1 .. 10}
Digit(c) == CHOOSE n \in 0 .. 9 : Numerals[n + 1] = c

(* The last n of some texts, one behind the other.                         *)
Joined(texts) ==
  LET last[n \in 0 .. Len(texts)] ==
        IF n = 0 THEN <<>> ELSE texts[Len(texts) - n + 1] \o last[n - 1]
  IN  last

(* What a sender writes.  An argument is put in quotes, and in it the quote*)
(* and the backslash are escaped; a plain word may stand as it is.         *)
Escaped(a, q) ==
  Joined([k \in DOMAIN a |-> IF a[k] \in {q, Backslash} THEN <<Backslash, a[k]>> ELSE <<a[k]>>])
Bare(a) == a # <<>> /\ \A k \in DOMAIN a : a[k] \notin {Dq, Sq, Space}
Written(a, style) ==
  IF style = "bare" /\ Bare(a) THEN a
  ELSE LET q == IF style = "bare" THEN Dq ELSE style IN <<q>> \o (Escaped(a, q)[Len(a)] \o <<q>>)
Line(args, style) ==
  Joined([k \in DOMAIN args |->
            Written(args[k], style) \o IF k < Len(args) THEN <<Space>> ELSE <<>>])
Render(args, style) == [sent |-> args, meant |-> TRUE, text |-> Line(args, style)[Len(args)]]

(* A text that nobody meant as arguments.                                  *)
AnyText(s) == [text |-> s, sent |-> <<>>, meant |-> FALSE]
=============================================================================
