---------------------------- MODULE RecordFormat -----------------------------
(***************************************************************************)
(* The line format of span-lines' records: how encode, push_attr and frame *)
(* write one, and what the reader the crate documents ("splitting on       *)
(* whitespace, then each token on its first =, then percent-decoding the   *)
(* value") gets back.                                                      *)
(*                                                                         *)
(* A field is a pair of texts, a text a sequence of characters.  One blank *)
(* and one newline stand for all whitespace, = and % for the other bytes   *)
(* outside the inert set; of the inert ones, a record here needs few.      *)
(***************************************************************************)
EXTENDS Naturals, Sequences, SequencesExt

CONSTANT MaxRecord  \* MAX_RECORD: 2048

Code == [c \in {" ", "\n", "=", "%"} |->
           CASE c = " " -> <<"2", "0">> [] c = "\n" -> <<"0", "A">>
             [] c = "=" -> <<"3", "D">> [] c = "%" -> <<"2", "5">>]
Structural == DOMAIN Code
Blank == {" ", "\n"}

\* Faulty variant: a list of the bytes that split a record, to be escaped.
EncodeSplitters(text) ==
  FlattenSeq([i \in 1..Len(text) |-> IF text[i] \in {" ", "=", "\n"}
                                     THEN <<"%">> \o Code[text[i]]
                                     ELSE <<text[i]>>])

\* Everything is escaped unless it is known to be inert.
Encode(text) ==
  FlattenSeq([i \in 1..Len(text) |-> IF text[i] \in Structural
                                     THEN <<"%">> \o Code[text[i]]
                                     ELSE <<text[i]>>])

\* A record: its fields in order, a blank between them.
Line(fields) ==
  Tail(FlattenSeq([i \in 1..Len(fields) |->
         <<" ">> \o Encode(fields[i][1]) \o <<"=">> \o Encode(fields[i][2])]))

TruncMark == <<" ", "t", "r", "u", "n", "c", "=", "1">>
Trunc == << <<"t", "r", "u", "n", "c">>, <<"1">> >>

\* frame: an oversized record is cut and says so; one newline ends it.
Frame(fields) ==
  LET line == Line(fields) IN
    (IF Len(line) > MaxRecord THEN SubSeq(line, 1, MaxRecord) \o TruncMark
     ELSE line) \o <<"\n">>

(***************************************************************************)
(* The naive reader of the crate's tests.                                  *)
(***************************************************************************)

\* Percent-decode; an escape that is cut short stays as it is.
Decode(text) ==
  LET from[i \in 1..Len(text) + 1] ==
        IF i > Len(text) THEN <<>>
        ELSE IF /\ text[i] = "%"
                /\ i + 2 <= Len(text)
                /\ \E c \in Structural : Code[c] = SubSeq(text, i + 1, i + 2)
        THEN <<CHOOSE c \in Structural :
                  Code[c] = SubSeq(text, i + 1, i + 2)>> \o from[i + 3]
        ELSE <<text[i]>> \o from[i + 1]
  IN from[1]

\* split_whitespace: the maximal runs without whitespace, in order.
Tokens(bytes) ==
  LET inside == {i \in 1..Len(bytes) : bytes[i] \notin Blank}
      starts == SetToSortSeq({i \in inside : i - 1 \notin inside}, <)
      ends == SetToSortSeq({i \in inside : i + 1 \notin inside}, <)
  IN [n \in 1..Len(starts) |-> SubSeq(bytes, starts[n], ends[n])]

\* split_once('='), a token without one is passed over.
Split(token) ==
  LET at == Min({i \in 1..Len(token) : token[i] = "="}) IN
    <<SubSeq(token, 1, at - 1), SubSeq(token, at + 1, Len(token))>>

NaiveRead(bytes) ==
  LET pairs == SelectSeq(Tokens(bytes), LAMBDA t : Contains(t, "=")) IN
    [n \in 1..Len(pairs) |-> <<Split(pairs[n])[1], Decode(Split(pairs[n])[2])>>]

\* What a reader is to find in a record: its keys as the line spells them, its
\* values as they were given.
Meant(fields) ==
  [i \in 1..Len(fields) |-> <<Encode(fields[i][1]), fields[i][2]>>]

\* What a reader is promised: one line, and from it what was meant; of a cut
\* record the first fields, perhaps a part of the next one, and the mark.
ReadsBack(fields) ==
  LET bytes == Frame(fields)
      read == NaiveRead(bytes)
      meant == Meant(fields)
      kept == Len(read) - 1
  IN /\ \A i \in 1..Len(bytes) : bytes[i] = "\n" <=> i = Len(bytes)
     /\ IF Len(Line(fields)) <= MaxRecord THEN read = meant
        ELSE /\ Last(read) = Trunc
             /\ kept <= Len(meant)
             /\ \A i \in 1..kept : read[i][1] = meant[i][1]
             /\ SubSeq(read, 1, kept - 1) = SubSeq(meant, 1, kept - 1)
=============================================================================
