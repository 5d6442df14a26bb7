---------------------------- MODULE TraceContext -----------------------------
(***************************************************************************)
(* span-lines' W3C trace context: the header one process hands to another, *)
(* as parse_traceparent reads it and Span::traceparent writes it, and the  *)
(* guard that keeps minted ids away from all zeros.                        *)
(*                                                                         *)
(* A header is the sequence of its fields (it is split at "-"), a field    *)
(* the sequence of its characters; blanks around it are trimmed already.   *)
(***************************************************************************)
EXTENDS Naturals, Sequences

CONSTANTS
  TraceWidth,  \* hex digits of a trace id: 32
  SpanWidth    \* hex digits of a span id: 16

ASSUME WidthAssumption ==
  TraceWidth \in Nat \ {0} /\ SpanWidth \in Nat \ {0}

Digits == {"0", "1", "2", "3", "4", "5", "6", "7", "8", "9",
           "a", "b", "c", "d", "e", "f"}
Capitals == {"A", "B", "C", "D", "E", "F"}

ToLower(c) ==
  CASE c = "A" -> "a" [] c = "B" -> "b" [] c = "C" -> "c" [] c = "D" -> "d"
    [] c = "E" -> "e" [] c = "F" -> "f" [] OTHER -> c

\* to_ascii_lowercase.
Lowercase(s) == [i \in 1..Len(s) |-> ToLower(s[i])]

Hexy(s) == \A i \in 1..Len(s) : s[i] \in Digits \cup Capitals
AllZero(s) == \A i \in 1..Len(s) : s[i] = "0"

\* Ids as this crate writes them.
Ids(width) == {s \in [1..width -> Digits] : ~AllZero(s)}
Flags == [1..2 -> Digits]

Version00 == <<"0", "0">>
VersionFF == <<"f", "f">>
Sampled == <<"0", "1">>

\* What the W3C calls a valid header, as far as this crate asks for it.
WellFormed(header) ==
  /\ Len(header) >= 4
  /\ Len(header[1]) = 2 /\ Len(header[2]) = TraceWidth
  /\ Len(header[3]) = SpanWidth /\ Len(header[4]) = 2
  /\ \A i \in 1..4 : Hexy(header[i])
  /\ Lowercase(header[1]) # VersionFF
  /\ header[1] = Version00 => Len(header) = 4
  /\ ~AllZero(header[2]) /\ ~AllZero(header[3])

\* parse_traceparent of a well-formed header.
Parsed(header) == [trace |-> Lowercase(header[2]),
                   parent |-> Lowercase(header[3]),
                   flags |-> Lowercase(header[4])]

\* Span::traceparent.
Traceparent(trace, id, flags) == <<Version00, trace, id, flags>>

\* Faulty variant: a minted id is taken as it comes.
AnyId(id) == id

\* nonzero: the last digit of an all-zero id becomes 1.
Nonzero(id) ==
  IF id # <<>> /\ AllZero(id) THEN [id EXCEPT ![Len(id)] = "1"] ELSE id

\* Trace::adopt takes an id only if it is one.
Adoptable(id) == Len(id) = TraceWidth /\ Hexy(id) /\ ~AllZero(id)
=============================================================================
