------------------------------ MODULE MCSpanApi ------------------------------
(* SpanApi on two threads and three spans, with ids two digits wide: the     *)
(* first one minted at each width is all zero, the headers are a sound one   *)
(* in capitals and one whose parent is all zero.                             *)
EXTENDS SpanApi

CONSTANTS t1, t2, k1

Whole == << <<"0", "0">>, <<"A", "1">>, <<"0", "B">>, <<"0", "0">> >>
Orphan == << <<"0", "0">>, <<"a", "1">>, <<"0", "0">>, <<"0", "1">> >>

MCEnvironments ==
  {<<Whole, "frame">>, <<Orphan, "frames">>, <<Absent, "off">>}
MCAdoptions == {<< <<"D", "1">>, Session>>, << <<"0", "0">>, Frames>>}
\* The first fits in a record, the second does not.
MCTexts == {<<"%", "2", "0", " ">>, <<"a", " ", "b", "=", "\n", "c">>}

MCChars == Digits \cup Capitals \cup Structural \cup {"s", "n", "t", "p", "k"}

MCMint == [n \in 0..5 |-> IF n = 0 THEN <<"0", "0">> ELSE <<"1", ToString(n)>>]

ThreadSymmetry == Permutations({t1, t2})
=============================================================================
