------------------------------ MODULE MCIntake ------------------------------
(* Intake for TLC.                                                         *)
EXTENDS Intake, SequencesExt

(* Scaled-down types: int and long of 3 bits, long long of 4.  A long that *)
(* is no wider than an int is the harder case: on the others ToLong is the *)
(* identity.                                                               *)
Boundaries == {0, LongMax, LongMax + 1, UIntMax, UIntMax + 1, ULLongMax, ULLongMax + 1}
Defaults   == [n \in Names |-> 2]

-----------------------------------------------------------------------------
Special == {"x", Dq, Sq, Backslash, Space}
Styles  == {"bare", Dq, Sq}

(* Arguments of every kind of character, in every style of quoting.        *)
Words == UNION {[1 .. n -> Special] : n \in 1 .. 2}
QuotedInputs == {Render(<<a, b>>, q) : a \in Words, b \in Words, q \in Styles}

(* Any short text, whoever wrote it.                                       *)
FreeInputs == {AnyText(s) : s \in BoundedSeq(Special, 5)}

(* Commands that follow the grammar, and near misses.                      *)
Ids    == {<<"x">>, <<"x", "1">>}
Urls   == {<<"h">>, <<"h", Space>>, <<"x">>}
Files  == {<<"x">>, <<"x", Dq>>, <<"e", "x">>}
Sizes  == {<<>>, <<"-">>, <<"0">>, <<"1", "0">>, <<"1", "0", "0">>, <<"-", "1">>, <<"1", "x">>, <<"x">>,
           <<"+", "1">>, <<Space, "1">>, <<"-", Space, "1">>, <<"+", "-", "1">>}
Sums   == {<<>>, <<"-">>, <<"c">>, <<"x">>}
Ops    == {<<"D">>, <<"U">>, <<"S">>, <<"x">>}
Args   == {<<o>> : o \in Ops} \cup {<<>>}
          \cup {<<o, d, u, p>> : o \in Ops, d \in Ids, u \in Urls, p \in Files}
          \cup {<<o, d, u, p, s, c>> : o \in {<<"D">>, <<"U">>}, d \in Ids, u \in Urls,
                                       p \in Files, s \in Sizes, c \in Sums}
CommandInputs == QuotedInputs \cup FreeInputs \cup {Render(a, "bare") : a \in Args}

(* A download and an upload, of a good path and of a refused one.          *)
ProbeInputs ==
  {Render(<<<<"D">>, <<"x">>, <<"h">>, p, <<"-">>, <<"-">>>>, "bare") : p \in {<<"x">>, <<"e", "x">>}}
    \cup {Render(<<<<"U">>, <<"x">>, <<"h">>, p>>, "bare") : p \in {<<"x">>, <<"e", "x">>}}

-----------------------------------------------------------------------------
(* /r (local_root) and /o, with links at /r/a and /r/a/b, also to a file.  *)
AllPaths == [absolute : BOOLEAN, parts : BoundedSeq({"a", "b", ".", ".."}, 3)]
TheRoot  == <<"r">>
Places   == {<<"r", "a">>, <<"r", "a", "b">>}
Targets  == {<<>>, <<"o">>, <<"r", "b">>, <<"r">>, <<"o", "f">>}
AFile    == {<<"o", "f">>}
=============================================================================
