---------------------------- MODULE MCSpanLayer -----------------------------
(* SpanLayer with two threads, admitted spans and one filtered span.       *)
EXTENDS SpanLayer, TLC

CONSTANTS t1, t2, root, leaf, other, s1, s2, s3

\* other is written in a module whose name begins like the admitted one's.
MCTarget == [s \in Spans |-> IF s = other THEN <<"vigilant">>
                             ELSE <<"vigil", "lock">>]
MCLevel == [s \in Spans |-> Info]
Vigil == {<<"vigil">>}
Both == {<<"vigil">>, <<"vigilant">>}

MCFirstHooks == <<"layer", "registrar">>
LayerOnly == <<"layer">>
NestedSymmetry == Permutations({t1, t2}) \cup Permutations({root, leaf, other})
                  \cup Permutations({s1, s2, s3})
ReuseSymmetry == Permutations({t1, t2}) \cup Permutations({root, leaf})
                 \cup Permutations({s1, s2})
=============================================================================
