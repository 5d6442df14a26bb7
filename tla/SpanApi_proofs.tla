---------------------------- MODULE SpanApi_proofs ----------------------------
(***************************************************************************)
(* Proofs about span-lines' trace context and its span API.                *)
(***************************************************************************)
EXTENDS SpanApi, TLAPS

(***************************************************************************)
(* The header and the ids in it.                                           *)
(***************************************************************************)

\* Lowercase leaves an id of this crate alone.
LEMMA LowerIsKept ==
  ASSUME NEW width \in Nat, NEW s \in [1..width -> Digits]
  PROVE  Lowercase(s) = s /\ Len(s) = width /\ Hexy(s)
<1>1. Len(s) = width
  OBVIOUS
<1>2. \A c \in Digits : ToLower(c) = c
  BY DEF Digits, ToLower
<1>3. Lowercase(s) = s
  BY <1>1, <1>2 DEF Lowercase
<1> QED BY <1>1, <1>3 DEF Hexy

\* Lowercasing a text of hex digits gives one this crate could have written.
LEMMA LowerIsTyped ==
  ASSUME NEW width \in Nat, NEW s \in Seq(Chars), Len(s) = width, Hexy(s)
  PROVE  Lowercase(s) \in [1..width -> Digits]
<1>1. \A c \in Digits \cup Capitals : ToLower(c) \in Digits
  BY DEF Digits, Capitals, ToLower
<1> QED BY <1>1 DEF Lowercase, Hexy

\* An all-zero text stays one and no other becomes one.
LEMMA LowerKeepsZero ==
  ASSUME NEW s \in Seq(Chars), Hexy(s)
  PROVE  AllZero(Lowercase(s)) <=> AllZero(s)
<1>1. \A c \in Digits \cup Capitals : ToLower(c) = "0" <=> c = "0"
  BY DEF Digits, Capitals, ToLower
<1>2. Len(Lowercase(s)) = Len(s)
  BY DEF Lowercase
<1> QED BY <1>1, <1>2 DEF Lowercase, Hexy, AllZero

\* What nonzero lets through is an id no W3C reader takes for "no parent".
LEMMA NonzeroIsId ==
  ASSUME NEW width \in Nat \ {0}, NEW s \in [1..width -> Digits]
  PROVE  Nonzero(s) \in Ids(width)
<1>1. Len(s) = width
  OBVIOUS
<1>2. CASE AllZero(s)
  <2>1. Nonzero(s) = [s EXCEPT ![width] = "1"]
    BY <1>1, <1>2 DEF Nonzero
  <2>2. Nonzero(s) \in [1..width -> Digits] /\ Nonzero(s)[width] = "1"
    BY <2>1 DEF Digits
  <2> QED BY <2>2 DEF Ids, AllZero
<1>3. CASE ~AllZero(s)
  BY <1>3 DEF Nonzero, Ids
<1> QED BY <1>2, <1>3

\* For every trace id, span id and flags this process can hold, the header
\* traceparent() writes is accepted by parse_traceparent and yields them.
THEOREM HeaderRoundTrip ==
  ASSUME NEW trace \in Ids(TraceWidth), NEW id \in Ids(SpanWidth),
         NEW flags \in Flags
  PROVE  /\ WellFormed(Traceparent(trace, id, flags))
         /\ Parsed(Traceparent(trace, id, flags)) =
              [trace |-> trace, parent |-> id, flags |-> flags]
<1> DEFINE h == Traceparent(trace, id, flags)
<1>1. Len(h) = 4 /\ h[1] = Version00 /\ h[2] = trace /\ h[3] = id /\ h[4] = flags
  BY DEF Traceparent
<1>2. /\ Lowercase(trace) = trace /\ Len(trace) = TraceWidth /\ Hexy(trace)
      /\ ~AllZero(trace)
  BY LowerIsKept, WidthAssumption DEF Ids
<1>3. Lowercase(id) = id /\ Len(id) = SpanWidth /\ Hexy(id) /\ ~AllZero(id)
  BY LowerIsKept, WidthAssumption DEF Ids
<1>4. Lowercase(flags) = flags /\ Len(flags) = 2 /\ Hexy(flags)
  BY LowerIsKept DEF Flags
<1>5. Version00 \in [1..2 -> Digits] /\ Version00 # VersionFF
  BY DEF Version00, VersionFF, Digits
<1>6. Lowercase(Version00) = Version00 /\ Len(Version00) = 2 /\ Hexy(Version00)
  BY <1>5, LowerIsKept
<1>7. WellFormed(h)
  <2>1. \A i \in 1..4 : Hexy(h[i])
    BY <1>1, <1>2, <1>3, <1>4, <1>6
  <2> HIDE DEF h
  <2> QED BY <2>1, <1>1, <1>2, <1>3, <1>4, <1>5, <1>6 DEF WellFormed
<1>8. Parsed(h) = [trace |-> trace, parent |-> id, flags |-> flags]
  <2> HIDE DEF h
  <2> QED BY <1>1, <1>2, <1>3, <1>4 DEF Parsed
<1> QED BY <1>7, <1>8

\* What a well-formed header yields, this crate can hand on: the ids are ids,
\* the flags are flags.
THEOREM ParsedIsUsable ==
  ASSUME NEW h \in Seq(Seq(Chars)), WellFormed(h)
  PROVE  /\ Parsed(h).trace \in Ids(TraceWidth)
         /\ Parsed(h).parent \in Ids(SpanWidth)
         /\ Parsed(h).flags \in Flags
<1>1. /\ h[2] \in Seq(Chars) /\ h[3] \in Seq(Chars) /\ h[4] \in Seq(Chars)
      /\ Len(h[2]) = TraceWidth /\ Len(h[3]) = SpanWidth /\ Len(h[4]) = 2
      /\ Hexy(h[2]) /\ Hexy(h[3]) /\ Hexy(h[4])
      /\ ~AllZero(h[2]) /\ ~AllZero(h[3])
  BY DEF WellFormed
<1>2. Lowercase(h[2]) \in Ids(TraceWidth)
  BY <1>1, LowerIsTyped, LowerKeepsZero, WidthAssumption DEF Ids
<1>3. Lowercase(h[3]) \in Ids(SpanWidth)
  BY <1>1, LowerIsTyped, LowerKeepsZero, WidthAssumption DEF Ids
<1>4. Lowercase(h[4]) \in Flags
  BY <1>1, LowerIsTyped DEF Flags
<1> QED BY <1>2, <1>3, <1>4 DEF Parsed

(***************************************************************************)
(* Types.                                                                  *)
(***************************************************************************)
LEMMA Typed ==
  /\ \A n \in 0..MaxIds : TraceId(n) \in Ids(TraceWidth)
                          /\ SpanId(n) \in Ids(SpanWidth)
  /\ Ids(TraceWidth) \subseteq TraceIds /\ Ids(SpanWidth) \subseteq SpanIds
  /\ Sampled \in Flags
  /\ NameField \in Field /\ StatusPanic \in Field
  /\ \A text \in Texts : << <<"k">>, text>> \in Field
<1>1. \A n \in 0..MaxIds : TraceId(n) \in Ids(TraceWidth)
                           /\ SpanId(n) \in Ids(SpanWidth)
  BY NonzeroIsId, ApiAssumption, WidthAssumption DEF TraceId, SpanId
<1>2. Ids(TraceWidth) \subseteq TraceIds /\ Ids(SpanWidth) \subseteq SpanIds
  BY DEF Ids, TraceIds, SpanIds
<1>3. Sampled \in Flags
  BY DEF Sampled, Flags, Digits
<1>4. /\ <<"s">> \in Seq(Chars) /\ <<"n">> \in Seq(Chars)
      /\ <<"s", "t">> \in Seq(Chars) /\ <<"p">> \in Seq(Chars)
      /\ <<"k">> \in Seq(Chars)
  BY ApiAssumption
<1>5. NameField \in Field /\ StatusPanic \in Field
  BY <1>4, Zenon DEF NameField, StatusPanic, Field
<1>6. \A text \in Texts : << <<"k">>, text>> \in Field
  BY <1>4, ApiAssumption, Zenon DEF Field
<1> QED BY <1>1, <1>2, <1>3, <1>5, <1>6

LEMMA DetailTyped == \A value : ParseDetail(value) \in Detail
BY DEF ParseDetail, Detail, Off, Session, Frames

LEMMA TraceTyped ==
  ASSUME TypeOK, NEW n \in 0..MaxIds
  PROVE  ReadEnv(n) \in Trace
<1>1. CASE header # Absent /\ WellFormed(header)
  BY <1>1, ParsedIsUsable, DetailTyped, Typed DEF ReadEnv, TypeOK, Trace
<1>2. CASE ~(header # Absent /\ WellFormed(header))
  BY <1>2, DetailTyped, Typed DEF ReadEnv, Trace
<1> QED BY <1>1, <1>2

LEMMA AdoptTyped ==
  ASSUME NEW adoption \in Adoptions, Adoptable(adoption[1])
  PROVE  /\ Adopt(adoption[1], adoption[2]) \in Trace
         /\ Lowercase(adoption[1]) \in Ids(TraceWidth)
<1>1. Lowercase(adoption[1]) \in Ids(TraceWidth)
  BY LowerIsTyped, LowerKeepsZero, ApiAssumption, WidthAssumption
  DEF Adoptable, Ids
<1> QED BY <1>1, ApiAssumption, Typed
        DEF Adopt, Trace, Detail, Off, Frames

\* What is rendered is a record.
LEMMA RecordTyped ==
  ASSUME TypeOK, NEW s \in Created
  PROVE  /\ \A text \in Texts :
              [kind |-> "event", span |-> s, trace |-> span[s].trace.id,
               parent |-> span[s].id, seq |-> nextSeq,
               fields |-> <<NameField, << <<"k">>, text>> >>] \in RecordType
         /\ \A panicking \in BOOLEAN :
              /\ Finished(s, panicking) \in SpanType
              /\ [kind |-> "span", span |-> s, trace |-> span[s].trace.id,
                  parent |-> span[s].parent, seq |-> nextSeq,
                  fields |-> <<NameField>> \o Finished(s, panicking).attrs]
                   \in RecordType
<1>1. /\ span[s] \in SpanType /\ span[s].trace.id \in TraceIds /\ s \in Spans
      /\ nextSeq \in Nat
  BY DEF TypeOK, SpanType, Trace, Created
<1>2. ASSUME NEW text \in Texts
      PROVE  [kind |-> "event", span |-> s, trace |-> span[s].trace.id,
              parent |-> span[s].id, seq |-> nextSeq,
              fields |-> <<NameField, << <<"k">>, text>> >>] \in RecordType
  <2>1. <<NameField, << <<"k">>, text>> >> \in Seq(Field)
    BY Typed
  <2> QED BY <1>1, <2>1 DEF RecordType, SpanType
<1>3. ASSUME NEW panicking \in BOOLEAN
      PROVE  /\ Finished(s, panicking) \in SpanType
             /\ [kind |-> "span", span |-> s, trace |-> span[s].trace.id,
                 parent |-> span[s].parent, seq |-> nextSeq,
                 fields |-> <<NameField>> \o Finished(s, panicking).attrs]
                  \in RecordType
  <2>1. Append(span[s].attrs, StatusPanic) \in Seq(Field)
    BY <1>1, Typed DEF SpanType
  <2>2. Finished(s, panicking) \in SpanType
    BY <1>1, <2>1 DEF Finished, Marked, SpanType
  <2>3. <<NameField>> \o Finished(s, panicking).attrs \in Seq(Field)
    BY <2>2, Typed DEF SpanType
  <2> QED BY <1>1, <2>2, <2>3 DEF RecordType, SpanType
<1> QED BY <1>2, <1>3

\* A thread holds a record exactly while it writes one, and writes to a sink
\* that is there; between end and drop it is with a span.
Control ==
  \A t \in Threads :
    /\ line[t] # Absent <=> pc[t] \in {"sink", "write"}
    /\ pc[t] = "write" => sink # Absent
    /\ pc[t] = "drop" \/ (pc[t] \in {"sink", "write"} /\ after[t] = "drop") =>
         subject[t] \in Created

LEMMA InitTyped == Init => TypeOK /\ Control
BY ApiAssumption DEF Init, TypeOK, Control, Created

\* What opening a span with a typed trace and parent leaves of the types.
LEMMA OpenTyped ==
  ASSUME TypeOK, NEW s \in Spans, NEW trace \in Trace,
         NEW parent \in SpanIds \cup {Absent}, NEW needs \in {Session, Frames},
         NEW n \in Nat, Open(s, trace, parent, needs, n)
  PROVE  /\ NewSpan(trace, parent, needs, n) \in SpanType
         /\ span' \in [Spans -> SpanType \cup {Absent}]
         /\ stage' \in [Spans -> {"unborn", "open", "ending", "gone"}]
         /\ \A r \in Created' : span'[r] \in SpanType
         /\ counter' \in Nat
<1>1. NewSpan(trace, parent, needs, n) \in SpanType
  BY Typed, ApiAssumption DEF Open, NewSpan, SpanType
<1> QED BY <1>1 DEF Open, TypeOK, Created

LEMMA TypeStep ==
  ASSUME TypeOK, Control, [Next]_vars
  PROVE  TypeOK' /\ Control'
<1> USE DEF Goto, Idle
<1>1. ASSUME NEW t \in Threads, NEW s \in Spans, OpenRoot(t, s)
      PROVE  TypeOK' /\ Control'
  <2> DEFINE n == IF processTrace = Absent THEN counter + IdsForTrace
                  ELSE counter
             trace == ProcessTrace(counter)
  <2>1. Open(s, trace, trace.inherited, Session, n)
    BY <1>1 DEF OpenRoot
  <2>2. n \in Nat /\ n <= MaxIds
    BY <2>1 DEF Open, TypeOK, IdsForTrace
  <2>3. trace \in Trace
    <3>1. CASE processTrace = Absent
      <4>1. CASE header # Absent /\ WellFormed(header)
        BY <3>1, <4>1, ParsedIsUsable, DetailTyped, Typed
        DEF ProcessTrace, ReadEnv, TypeOK, Trace
      <4>2. CASE ~(header # Absent /\ WellFormed(header))
        <5>1. counter \in 0..MaxIds
          BY <3>1, <4>2, <2>2, ApiAssumption DEF IdsForTrace, TypeOK
        <5> QED BY <3>1, <5>1, TraceTyped DEF ProcessTrace
      <4> QED BY <4>1, <4>2
    <3> QED BY <3>1 DEF ProcessTrace, TypeOK
  <2>4. trace.inherited \in SpanIds \cup {Absent}
    BY <2>3 DEF Trace
  <2>5. processTrace' \in Trace \cup {Absent}
    BY <1>1, <2>3 DEF OpenRoot, TypeOK
  <2>6. Created \subseteq Created'
    BY <2>1 DEF Open, Created, TypeOK
  <2> HIDE DEF n, trace
  <2> QED BY <1>1, <2>1, <2>2, <2>3, <2>4, <2>5, <2>6, OpenTyped
          DEF OpenRoot, TypeOK, Control, envVars, sinkVars, threadVars
<1>2. ASSUME NEW t \in Threads, NEW s \in Spans, OpenAdopted(t, s)
      PROVE  TypeOK' /\ Control'
  <2>1. PICK adoption \in Adoptions :
          /\ Adoptable(adoption[1])
          /\ Open(s, Adopt(adoption[1], adoption[2]), Absent, Session, counter)
    BY <1>2 DEF OpenAdopted
  <2>2. Adopt(adoption[1], adoption[2]) \in Trace
    BY <2>1, AdoptTyped
  <2>3. counter \in Nat
    BY DEF TypeOK
  <2>4. calls' \in 0..MaxCalls
    BY <1>2, ApiAssumption DEF OpenAdopted, Call, TypeOK
  <2>5. Created \subseteq Created'
    BY <2>1 DEF Open, Created, TypeOK
  <2>6. TypeOK'
    BY <1>2, <2>1, <2>2, <2>3, <2>4, OpenTyped
    DEF OpenAdopted, TypeOK, envVars, sinkVars, threadVars
  <2> QED BY <1>2, <2>5, <2>6 DEF OpenAdopted, Control, sinkVars, threadVars
<1>3. ASSUME NEW t \in Threads, NEW s \in Spans, NEW p \in Spans,
             NEW needs \in {Session, Frames}, OpenChild(t, s, p, needs)
      PROVE  TypeOK' /\ Control'
  <2>1. span[p] \in SpanType /\ counter \in Nat
    BY <1>3 DEF OpenChild, TypeOK, Created
  <2>2. span[p].trace \in Trace /\ span[p].id \in SpanIds
    BY <2>1 DEF SpanType
  <2>3. Created \subseteq Created'
    BY <1>3 DEF OpenChild, Open, Created, TypeOK
  <2> QED BY <1>3, <2>1, <2>2, <2>3, OpenTyped
          DEF OpenChild, TypeOK, Control, envVars, sinkVars, threadVars
<1>4. ASSUME NEW t \in Threads, NEW s \in Spans, SetAttr(t, s)
      PROVE  TypeOK' /\ Control'
  <2>1. PICK text \in Texts :
          span' = [span EXCEPT ![s].attrs = Append(@, << <<"k">>, text>>)]
    BY <1>4 DEF SetAttr
  <2>2. s \in Created /\ span[s] \in SpanType
    BY <1>4 DEF SetAttr, Exclusive, Created, TypeOK
  <2>3. Append(span[s].attrs, << <<"k">>, text>>) \in Seq(Field)
    BY <2>2, Typed DEF SpanType
  <2>4. span'[s] \in SpanType
    BY <2>1, <2>2, <2>3 DEF SpanType, TypeOK
  <2>5. calls' \in 0..MaxCalls
    BY <1>4, ApiAssumption DEF SetAttr, Call, TypeOK
  <2>6. Created' = Created
    BY <1>4 DEF SetAttr, Created
  <2>7. /\ span' \in [Spans -> SpanType \cup {Absent}]
        /\ \A r \in Created : span'[r] \in SpanType
    BY <2>1, <2>4 DEF TypeOK, Created
  <2>8. TypeOK'
    BY <1>4, <2>5, <2>6, <2>7
    DEF SetAttr, TypeOK, envVars, idVars, sinkVars, threadVars
  <2> QED BY <1>4, <2>6, <2>8 DEF SetAttr, Control, sinkVars, threadVars
<1>5. ASSUME NEW t \in Threads, NEW s \in Spans, Event(t, s)
      PROVE  TypeOK' /\ Control'
  <2>1. s \in Created
    BY <1>5 DEF Event, Created
  <2>2. PICK record \in RecordType :
          Render(t, record, "idle")
    BY <1>5, <2>1, RecordTyped DEF Event
  <2>3. calls' \in 0..MaxCalls
    BY <1>5, ApiAssumption DEF Event, Call, TypeOK
  <2>4. /\ line' \in [Threads -> RecordType \cup {Absent}]
        /\ nextSeq' \in Nat
        /\ after' \in [Threads -> {"idle", "drop"}]
        /\ pc' \in [Threads -> {"idle", "sink", "write", "drop"}]
    BY <2>2 DEF Render, TypeOK
  <2>5. subject' \in [Threads -> Spans \cup {Absent}]
    BY <1>5 DEF Event, TypeOK
  <2>6. Created' = Created
    BY <1>5 DEF Event, Created
  <2>7. TypeOK'
    BY <1>5, <2>3, <2>4, <2>5, <2>6
    DEF Event, TypeOK, envVars, idVars, sinkVars
  <2>8. Control'
    BY <1>5, <2>2, AbsentAssumption
    DEF Event, Render, TypeOK, Control, Created, sinkVars
  <2> QED BY <2>7, <2>8
<1>6. ASSUME NEW t \in Threads, NEW s \in Created, NEW next \in {"drop", "idle"},
             Finish(t, s, next), pc[t] \in {"idle", "drop"}
      PROVE  /\ span' \in [Spans -> SpanType \cup {Absent}]
             /\ \A r \in Created : span'[r] \in SpanType
             /\ calls' \in 0..MaxCalls
             /\ nextSeq' \in Nat
             /\ line' \in [Threads -> RecordType \cup {Absent}]
             /\ after' \in [Threads -> {"idle", "drop"}]
             /\ pc' \in [Threads -> {"idle", "sink", "write", "drop"}]
             /\ \A u \in Threads :
                  /\ line'[u] # Absent <=> pc'[u] \in {"sink", "write"}
                  /\ pc'[u] = "write" => u # t /\ pc[u] = "write"
                  /\ u # t => pc'[u] = pc[u] /\ after'[u] = after[u]
             /\ next = "idle" => pc'[t] # "drop" /\ (pc'[t] = "idle" \/ after'[t] = "idle")
  <2>1. PICK panicking \in BOOLEAN :
          /\ IF panicking /\ ~span[s].emitted THEN Call ELSE UNCHANGED calls
          /\ span' = [span EXCEPT ![s] = Finished(s, panicking)]
          /\ IF ~span[s].emitted /\ Enabled(s)
             THEN Render(t, [kind |-> "span", span |-> s,
                             trace |-> span[s].trace.id,
                             parent |-> span[s].parent, seq |-> nextSeq,
                             fields |-> <<NameField>> \o
                                          Finished(s, panicking).attrs], next)
             ELSE Goto(t, next) /\ UNCHANGED <<line, nextSeq, after>>
    BY <1>6 DEF Finish
  <2>2. Finished(s, panicking) \in SpanType
    BY RecordTyped
  <2>3. span' \in [Spans -> SpanType \cup {Absent}]
        /\ \A r \in Created : span'[r] \in SpanType
    BY <2>1, <2>2 DEF TypeOK, Created
  <2>4. calls' \in 0..MaxCalls
    BY <2>1, ApiAssumption DEF Call, TypeOK
  <2>5. CASE ~span[s].emitted /\ Enabled(s)
    <3>1. PICK record \in RecordType : Render(t, record, next)
      BY <2>1, <2>5, RecordTyped
    <3> QED BY <1>6, <2>3, <2>4, <3>1, AbsentAssumption
            DEF Render, TypeOK, Control
  <2>6. CASE ~(~span[s].emitted /\ Enabled(s))
    BY <1>6, <2>1, <2>3, <2>4, <2>6 DEF TypeOK, Control
  <2> QED BY <2>5, <2>6
<1>7. ASSUME NEW t \in Threads, NEW s \in Spans, End(t, s)
      PROVE  TypeOK' /\ Control'
  <2>1. s \in Created /\ Created' = Created
    BY <1>7 DEF End, Exclusive, Created, TypeOK
  <2>2. TypeOK'
    BY <1>6, <1>7, <2>1 DEF End, TypeOK, envVars, idVars, sinkVars, Created
  <2>3. Control'
    BY <1>6, <1>7, <2>1 DEF End, Control, TypeOK, sinkVars
  <2> QED BY <2>2, <2>3
<1>8. ASSUME NEW t \in Threads, NEW s \in Spans, Drop(t, s)
      PROVE  TypeOK' /\ Control'
  <2>1. s \in Created
    BY <1>8 DEF Drop, Control, Exclusive, Created
  <2>2. Created' = Created
    BY <1>8, <2>1 DEF Drop, Created, TypeOK
  <2>3. Finish(t, s, "idle") /\ pc[t] \in {"idle", "drop"}
    BY <1>8 DEF Drop
  <2>4. TypeOK'
    BY <1>6, <1>8, <2>1, <2>2, <2>3
    DEF Drop, TypeOK, envVars, idVars, sinkVars
  <2>5. Control'
    BY <1>6, <1>8, <2>1, <2>2, <2>3 DEF Drop, Control, TypeOK, sinkVars
  <2> QED BY <2>4, <2>5
<1>9. ASSUME NEW t \in Threads, ResolveSink(t)
      PROVE  TypeOK' /\ Control'
  BY <1>9, ApiAssumption
  DEF ResolveSink, TypeOK, Control, Created, envVars, idVars
<1>10. ASSUME NEW t \in Threads, Write(t)
       PROVE  TypeOK' /\ Control'
  <2>1. [record |-> line[t], to |-> sink]
          \in [record : RecordType, to : Sinks \cup {"stderr"}]
    BY <1>10 DEF Write, Control, TypeOK
  <2>2. journal' \in Seq([record : RecordType, to : Sinks \cup {"stderr"}])
    BY <1>10, <2>1 DEF Write, TypeOK
  <2> QED BY <1>10, <2>2
          DEF Write, TypeOK, Control, Created, envVars, idVars, sinkVars
<1>11. ASSUME NEW t \in Threads, NEW k \in Sinks, SetSink(t, k)
       PROVE  TypeOK' /\ Control'
  BY <1>11, ApiAssumption
  DEF SetSink, SetOnce, TypeOK, Control, Created, envVars, idVars, threadVars,
      Call
<1>12. CASE UNCHANGED vars
  BY <1>12 DEF vars, envVars, idVars, sinkVars, threadVars, TypeOK, Control,
               Created
<1>13. ASSUME NEW t \in Threads, NEW s \in Spans, NEW p \in Spans,
              Child(t, s, p) \/ FrameChild(t, s, p)
       PROVE  TypeOK' /\ Control'
  <2>1. CASE FrameChild(t, s, p)
    BY <1>3, <2>1 DEF FrameChild
  <2>2. CASE Child(t, s, p)
    <3>1. span[p] \in SpanType
      BY <2>2 DEF Child, OpenChild, TypeOK, Created
    <3>2. ChildNeeds(p) \in {Session, Frames}
      BY <3>1 DEF ChildNeeds, SpanType
    <3> QED BY <1>3, <2>2, <3>2 DEF Child
  <2> QED BY <1>13, <2>1, <2>2
<1> QED
  BY <1>1, <1>2, <1>4, <1>5, <1>7, <1>8, <1>9, <1>10, <1>11, <1>12, <1>13
  DEF Next

\* TypeOK and Control hold in every reachable state.
THEOREM ApiTyped == Spec => [](TypeOK /\ Control)
BY InitTyped, TypeStep, PTL DEF Spec

(***************************************************************************)
(* The sink.                                                               *)
(***************************************************************************)

\* An answer was given only once a sink was there.
Answered == \A k \in Sinks : claims[k] # Absent => sink # Absent

\* Before there is a sink nothing was written.
LEMMA NothingBefore ==
  ASSUME TypeOK, OneDestination, sink = Absent, NEW i \in 1..Len(journal)
  PROVE  FALSE
<1> DEFINE Entry == [record : RecordType, to : Sinks \cup {"stderr"}]
<1>1. journal \in Seq(Entry)
  BY DEF TypeOK
<1>2. journal[i] \in Entry
  <2> HIDE DEF Entry
  <2> QED BY <1>1
<1>3. journal[i].to \in Sinks \cup {"stderr"}
  BY <1>2
<1>4. journal[i].to = Absent
  BY DEF OneDestination
<1> QED BY <1>3, <1>4, ApiAssumption

LEMMA DestinationStep ==
  ASSUME TypeOK, Control, OneDestination, Answered, [Next]_vars
  PROVE  OneDestination' /\ Answered'
<1>1. ASSUME NEW t \in Threads, ResolveSink(t)
      PROVE  OneDestination' /\ Answered'
  <2>1. CASE sink = Absent
    <3>1. \A i \in 1..Len(journal) : FALSE
      BY <2>1, NothingBefore
    <3> QED BY <1>1, <2>1, <3>1, ApiAssumption
            DEF ResolveSink, OneDestination, Answered, TypeOK
  <2> QED BY <1>1, <2>1 DEF ResolveSink, OneDestination, Answered
<1>2. ASSUME NEW t \in Threads, Write(t)
      PROVE  OneDestination' /\ Answered'
  BY <1>2 DEF Write, OneDestination, Answered, TypeOK, sinkVars
<1>3. ASSUME NEW t \in Threads, NEW k \in Sinks, SetSink(t, k)
      PROVE  OneDestination' /\ Answered'
  <2>1. CASE sink = Absent
    <3>1. \A i \in 1..Len(journal) : FALSE
      BY <2>1, NothingBefore
    <3>2. sink' = k /\ k # Absent /\ claims' = [claims EXCEPT ![k] = TRUE]
          /\ journal' = journal
      BY <1>3, <2>1, ApiAssumption DEF SetSink, SetOnce
    <3>3. \A l \in Sinks : claims[l] = Absent
      BY <2>1 DEF Answered
    <3> QED BY <3>1, <3>2, <3>3 DEF OneDestination, Answered, TypeOK
  <2>2. CASE sink # Absent
    <3>1. sink' = sink /\ claims' = [claims EXCEPT ![k] = (sink = k)]
          /\ journal' = journal
      BY <1>3, <2>2 DEF SetSink, SetOnce
    <3> QED BY <2>2, <3>1 DEF OneDestination, Answered, TypeOK
  <2> QED BY <2>1, <2>2
<1>4. CASE UNCHANGED <<sink, claims, journal>>
  BY <1>4 DEF OneDestination, Answered
<1> QED
  BY <1>1, <1>2, <1>3, <1>4
  DEF Next, vars, sinkVars, OpenRoot, OpenAdopted, Child, FrameChild, OpenChild,
      SetAttr, Event, End, Drop

\* Every record goes one way, and set_sink's answer is true of all of them.
THEOREM OneSink == Spec => []OneDestination
<1>1. Init => OneDestination /\ Answered
  BY DEF Init, OneDestination, Answered
<1> QED BY <1>1, DestinationStep, ApiTyped, PTL DEF Spec

(***************************************************************************)
(* Traces and parents.                                                     *)
(***************************************************************************)
Inherits == header # Absent /\ WellFormed(header)

\* What read_env made of the environment.
EnvRead ==
  processTrace # Absent =>
    /\ processTrace.id \in Ids(TraceWidth)
    /\ Inherits => /\ processTrace.id = Parsed(header).trace
                   /\ processTrace.inherited = Parsed(header).parent
                   /\ processTrace.flags = Parsed(header).flags
    /\ ~Inherits => processTrace.inherited = Absent

\* Every span has ids and belongs to the process's trace or an adopted one.
Belongs ==
  \A s \in Created :
    /\ span[s].trace.id \in Ids(TraceWidth) /\ span[s].id \in Ids(SpanWidth)
    /\ \/ processTrace # Absent /\ span[s].trace = processTrace
       \/ \E adoption \in Adoptions : span[s].trace.id = Lowercase(adoption[1])

\* A span's parent is none, the header's, or a span of its trace that asks for
\* no more detail than it does.
ParentKnown ==
  \A s \in Created :
    \/ span[s].parent = Absent
    \/ /\ Inherits
       /\ span[s].parent = Parsed(header).parent
       /\ span[s].trace.id = Parsed(header).trace
    \/ \E p \in Created : /\ span[p].id = span[s].parent
                          /\ span[p].trace = span[s].trace
                          /\ span[p].needs <= span[s].needs

\* No step changes what a span was opened with.
Fixed(s) ==
  /\ span'[s].trace = span[s].trace /\ span'[s].id = span[s].id
  /\ span'[s].parent = span[s].parent /\ span'[s].needs = span[s].needs

\* A step opens one span, as a root, in an adopted trace or as a child, or
\* leaves the set of spans and what they were opened with as it was.
Opens(s, trace, parent, needs, n) ==
  /\ s \notin Created /\ Created' = Created \cup {s}
  /\ span' = [span EXCEPT ![s] = NewSpan(trace, parent, needs, n)]
  /\ n \in 0..MaxIds
  /\ UNCHANGED <<header, journal, line>>

OpensRoot(s) ==
  \E n \in 0..MaxIds : \E m \in Nat :
    /\ Opens(s, processTrace', processTrace'.inherited, Session, n)
    /\ m <= n
    /\ IF processTrace = Absent THEN processTrace' = ReadEnv(m)
                                     /\ (~Inherits => m < n)
       ELSE processTrace' = processTrace

OpensAdopted(s) ==
  \E n \in 0..MaxIds : \E adoption \in Adoptions :
    /\ Adoptable(adoption[1])
    /\ Opens(s, Adopt(adoption[1], adoption[2]), Absent, Session, n)
    /\ processTrace' = processTrace

OpensChild(s) ==
  \E n \in 0..MaxIds : \E p \in Created : \E needs \in {Session, Frames} :
    /\ span[p].needs <= needs
    /\ Opens(s, span[p].trace, span[p].id, needs, n)
    /\ processTrace' = processTrace

KeepsSpans ==
  /\ Created' = Created
  /\ UNCHANGED <<header, processTrace>>
  /\ \A s \in Created : Fixed(s)

LEMMA StepShape ==
  ASSUME TypeOK, Control, [Next]_vars
  PROVE  \/ KeepsSpans
         \/ \E s \in Spans : OpensRoot(s) \/ OpensAdopted(s) \/ OpensChild(s)
<1> USE DEF Idle, Goto
<1>1. ASSUME NEW t \in Threads, NEW s \in Spans, OpenRoot(t, s)
      PROVE  OpensRoot(s)
  <2> DEFINE n == IF processTrace = Absent THEN counter + IdsForTrace
                  ELSE counter
  <2>1. /\ Open(s, ProcessTrace(counter), ProcessTrace(counter).inherited,
                Session, n)
        /\ UNCHANGED <<header, journal, line>>
        /\ processTrace' = ProcessTrace(counter)
    BY <1>1 DEF OpenRoot, ProcessTrace, envVars, threadVars
  <2>2. n \in 0..MaxIds /\ counter \in Nat /\ counter <= n
        /\ (processTrace = Absent /\ ~Inherits => counter < n)
    BY <2>1, ApiAssumption DEF Open, IdsForTrace, Inherits, TypeOK
  <2>3. Opens(s, processTrace', processTrace'.inherited, Session, n)
    BY <2>1, <2>2 DEF Open, Opens, Created, TypeOK
  <2> HIDE DEF n
  <2> QED BY <2>1, <2>2, <2>3 DEF OpensRoot, ProcessTrace
<1>2. ASSUME NEW t \in Threads, NEW s \in Spans, OpenAdopted(t, s)
      PROVE  OpensAdopted(s)
  <2>1. PICK adoption \in Adoptions :
          /\ Adoptable(adoption[1])
          /\ Open(s, Adopt(adoption[1], adoption[2]), Absent, Session, counter)
    BY <1>2 DEF OpenAdopted
  <2>2. counter \in 0..MaxIds
    BY <2>1, ApiAssumption DEF Open, TypeOK
  <2>3. Opens(s, Adopt(adoption[1], adoption[2]), Absent, Session, counter)
    BY <1>2, <2>1, <2>2
    DEF OpenAdopted, Open, Opens, Created, TypeOK, envVars, threadVars
  <2> QED BY <1>2, <2>1, <2>2, <2>3 DEF OpenAdopted, OpensAdopted
<1>3. ASSUME NEW t \in Threads, NEW s \in Spans, NEW p \in Spans,
             Child(t, s, p) \/ FrameChild(t, s, p)
      PROVE  OpensChild(s)
  <2>1. p \in Created /\ span[p].needs \in {Session, Frames}
    BY <1>3 DEF Child, FrameChild, OpenChild, Created, TypeOK, SpanType
  <2>2. PICK needs \in {Session, Frames} :
          OpenChild(t, s, p, needs) /\ span[p].needs <= needs
    BY <1>3, <2>1 DEF Child, FrameChild, ChildNeeds, Session, Frames
  <2>3. counter \in 0..MaxIds
    BY <2>2, ApiAssumption DEF OpenChild, Open, TypeOK
  <2>4. Opens(s, span[p].trace, span[p].id, needs, counter)
    BY <2>2, <2>3
    DEF OpenChild, Open, Opens, Created, TypeOK, envVars, threadVars
  <2> QED BY <2>1, <2>2, <2>3, <2>4 DEF OpenChild, OpensChild
<1>4. ASSUME NEW t \in Threads, NEW s \in Spans, SetAttr(t, s)
      PROVE  KeepsSpans
  BY <1>4 DEF SetAttr, KeepsSpans, Fixed, Created, TypeOK, SpanType, envVars, idVars
<1>5. ASSUME NEW t \in Threads, NEW s \in Spans, NEW next, s \in Created,
             Finish(t, s, next)
      PROVE  \A r \in Created : Fixed(r)
  BY <1>5 DEF Finish, Finished, Marked, Fixed, Created, TypeOK, SpanType
<1>6. ASSUME NEW t \in Threads, NEW s \in Spans, End(t, s)
      PROVE  KeepsSpans
  BY <1>5, <1>6 DEF End, Exclusive, KeepsSpans, Created, TypeOK, envVars, idVars
<1>7. ASSUME NEW t \in Threads, NEW s \in Spans, Drop(t, s)
      PROVE  KeepsSpans
  <2>1. s \in Created
    BY <1>7 DEF Drop, Control, Exclusive, Created
  <2> QED BY <1>5, <1>7, <2>1
          DEF Drop, KeepsSpans, Created, TypeOK, envVars, idVars
<1>8. CASE UNCHANGED <<header, processTrace, stage, span>>
  BY <1>8 DEF KeepsSpans, Fixed, Created
<1> QED
  BY <1>1, <1>2, <1>3, <1>4, <1>6, <1>7, <1>8
  DEF Next, vars, envVars, idVars, Event, ResolveSink, Write, SetSink

LEMMA EnvReadStep ==
  ASSUME TypeOK, Control, EnvRead, [Next]_vars
  PROVE  EnvRead'
<1>1. CASE KeepsSpans
  BY <1>1 DEF KeepsSpans, EnvRead, Inherits
<1>2. ASSUME NEW s \in Spans, OpensRoot(s)
      PROVE  EnvRead'
  <2>1. PICK n \in 0..MaxIds : \E m \in Nat :
          /\ Opens(s, processTrace', processTrace'.inherited, Session, n)
          /\ m <= n
          /\ IF processTrace = Absent THEN processTrace' = ReadEnv(m)
                                           /\ (~Inherits => m < n)
             ELSE processTrace' = processTrace
    BY <1>2 DEF OpensRoot
  <2>2. header' = header
    BY <2>1 DEF Opens
  <2>3. CASE processTrace # Absent
    BY <2>1, <2>2, <2>3 DEF EnvRead, Inherits
  <2>4. CASE processTrace = Absent /\ Inherits
    <3>1. processTrace' = [id |-> Parsed(header).trace,
                           detail |-> ParseDetail(setting),
                           inherited |-> Parsed(header).parent,
                           flags |-> Parsed(header).flags]
      BY <2>1, <2>4 DEF ReadEnv, Inherits
    <3> QED BY <2>2, <2>4, <3>1, ParsedIsUsable DEF EnvRead, Inherits, TypeOK
  <2>5. CASE processTrace = Absent /\ ~Inherits
    <3>1. PICK m \in 0..MaxIds : processTrace' = ReadEnv(m)
      BY <2>1, <2>5, ApiAssumption
    <3>2. processTrace'.id = TraceId(m) /\ processTrace'.inherited = Absent
      BY <2>5, <3>1 DEF ReadEnv, Inherits
    <3> QED BY <2>2, <2>5, <3>2, Typed DEF EnvRead, Inherits
  <2> QED BY <2>3, <2>4, <2>5
<1>3. ASSUME NEW s \in Spans, OpensAdopted(s) \/ OpensChild(s)
      PROVE  EnvRead'
  BY <1>3 DEF OpensAdopted, OpensChild, Opens, EnvRead, Inherits
<1> QED BY <1>1, <1>2, <1>3, StepShape

\* A root span's trace is there.
LEMMA RootTrace ==
  ASSUME TypeOK, Control, NEW s \in Spans, OpensRoot(s)
  PROVE  processTrace' # Absent
<1>1. PICK m \in Nat : /\ processTrace = Absent =>
                            processTrace' = ReadEnv(m) /\ (~Inherits => m \in 0..MaxIds)
                       /\ processTrace # Absent => processTrace' = processTrace
  BY ApiAssumption DEF OpensRoot
<1>2. CASE processTrace = Absent /\ Inherits
  <2>1. processTrace' \in Trace
    BY <1>1, <1>2, ParsedIsUsable, DetailTyped, Typed
    DEF ReadEnv, Inherits, TypeOK, Trace
  <2> QED BY <2>1, AbsentAssumption
<1>3. CASE processTrace = Absent /\ ~Inherits
  BY <1>1, <1>3, TraceTyped, AbsentAssumption
<1> QED BY <1>1, <1>2, <1>3

LEMMA BelongsStep ==
  ASSUME TypeOK, Control, EnvRead, Belongs, [Next]_vars
  PROVE  Belongs'
<1>1. CASE KeepsSpans
  BY <1>1 DEF KeepsSpans, Fixed, Belongs
<1>2. ASSUME NEW s \in Spans, NEW trace, NEW parent, NEW needs,
             NEW n \in 0..MaxIds, Opens(s, trace, parent, needs, n),
             processTrace # Absent => processTrace' = processTrace,
             trace.id \in Ids(TraceWidth),
             \/ processTrace' # Absent /\ trace = processTrace'
             \/ \E adoption \in Adoptions : trace.id = Lowercase(adoption[1])
      PROVE  Belongs'
  <2>1. /\ span'[s].trace = trace /\ span'[s].id = SpanId(n)
        /\ \A r \in Created : span'[r] = span[r]
    BY <1>2 DEF Opens, NewSpan, TypeOK, Created
  <2> QED BY <1>2, <2>1, Typed DEF Opens, Belongs
<1>3. ASSUME NEW s \in Spans, OpensRoot(s)
      PROVE  Belongs'
  <2>1. processTrace' # Absent /\ processTrace'.id \in Ids(TraceWidth)
    BY <1>3, RootTrace, EnvReadStep DEF EnvRead
  <2> QED BY <1>2, <1>3, <2>1 DEF OpensRoot
<1>4. ASSUME NEW s \in Spans, OpensAdopted(s)
      PROVE  Belongs'
  <2>1. PICK n \in 0..MaxIds, adoption \in Adoptions :
          /\ Adoptable(adoption[1])
          /\ Opens(s, Adopt(adoption[1], adoption[2]), Absent, Session, n)
          /\ processTrace' = processTrace
    BY <1>4 DEF OpensAdopted
  <2>2. Adopt(adoption[1], adoption[2]).id = Lowercase(adoption[1])
    BY DEF Adopt
  <2> QED BY <1>2, <2>1, <2>2, AdoptTyped
<1>5. ASSUME NEW s \in Spans, OpensChild(s)
      PROVE  Belongs'
  <2>1. PICK n \in 0..MaxIds, p \in Created, needs \in {Session, Frames} :
          /\ Opens(s, span[p].trace, span[p].id, needs, n)
          /\ processTrace' = processTrace
    BY <1>5 DEF OpensChild
  <2> QED BY <1>2, <2>1 DEF Belongs
<1> QED BY <1>1, <1>3, <1>4, <1>5, StepShape

LEMMA ParentStep ==
  ASSUME TypeOK, Control, EnvRead, ParentKnown, [Next]_vars
  PROVE  ParentKnown'
<1>1. CASE KeepsSpans
  BY <1>1 DEF KeepsSpans, Fixed, ParentKnown, Inherits
<1>2. ASSUME NEW s \in Spans, NEW trace, NEW parent, NEW needs,
             NEW n \in 0..MaxIds, Opens(s, trace, parent, needs, n),
             \/ parent = Absent
             \/ /\ Inherits /\ parent = Parsed(header).parent
                /\ trace.id = Parsed(header).trace
             \/ \E p \in Created : /\ span[p].id = parent
                                   /\ span[p].trace = trace
                                   /\ span[p].needs <= needs
      PROVE  ParentKnown'
  <2>1. /\ span'[s].trace = trace /\ span'[s].parent = parent
        /\ span'[s].needs = needs /\ header' = header
        /\ \A r \in Created : span'[r] = span[r]
        /\ Created' = Created \cup {s}
    BY <1>2 DEF Opens, NewSpan, TypeOK, Created
  <2> QED BY <1>2, <2>1 DEF ParentKnown, Inherits
<1>3. ASSUME NEW s \in Spans, OpensRoot(s)
      PROVE  ParentKnown'
  <2>1. PICK n \in 0..MaxIds :
          Opens(s, processTrace', processTrace'.inherited, Session, n)
    BY <1>3 DEF OpensRoot
  <2>2. processTrace' # Absent /\ header' = header
    BY <1>3, <2>1, RootTrace DEF Opens
  <2>3. CASE Inherits
    <3>1. /\ processTrace'.id = Parsed(header).trace
          /\ processTrace'.inherited = Parsed(header).parent
      BY <2>2, <2>3, EnvReadStep DEF EnvRead, Inherits
    <3> QED BY <1>2, <2>1, <2>3, <3>1
  <2>4. CASE ~Inherits
    <3>1. processTrace'.inherited = Absent
      BY <2>2, <2>4, EnvReadStep DEF EnvRead, Inherits
    <3> QED BY <1>2, <2>1, <3>1
  <2> QED BY <2>3, <2>4
<1>4. ASSUME NEW s \in Spans, OpensAdopted(s)
      PROVE  ParentKnown'
  BY <1>2, <1>4 DEF OpensAdopted
<1>5. ASSUME NEW s \in Spans, OpensChild(s)
      PROVE  ParentKnown'
  BY <1>2, <1>5 DEF OpensChild
<1> QED BY <1>1, <1>3, <1>4, <1>5, StepShape

LEMMA InitSpans == Init => EnvRead /\ Belongs /\ ParentKnown
BY DEF Init, EnvRead, Belongs, ParentKnown, Created

LEMMA SpansKnown == Spec => [](EnvRead /\ Belongs /\ ParentKnown)
BY InitSpans, EnvReadStep, BelongsStep, ParentStep, ApiTyped, PTL DEF Spec

\* However many threads ask for the process's trace, and whoever asks first,
\* all spans opened from it share it.
THEOREM OneTracePerProcess == Spec => []OneTrace
<1>1. Belongs => OneTrace
  BY DEF Belongs, OneTrace
<1> QED BY <1>1, SpansKnown, PTL

\* Whatever header a span hands on is accepted by a child process's parser and
\* names the span, its trace and the flags the trace came with.
THEOREM ContextReachesChild == Spec => []ContextHandedOn
<1>1. ASSUME TypeOK, EnvRead, Belongs
      PROVE  ContextHandedOn
  <2>1. SUFFICES ASSUME NEW s \in Created
                 PROVE  LET trace == span[s].trace
                            handed == Traceparent(trace.id, span[s].id,
                                                  trace.flags)
                        IN /\ WellFormed(handed)
                           /\ Parsed(handed) =
                                [trace |-> trace.id, parent |-> span[s].id,
                                 flags |-> trace.flags]
                           /\ trace = processTrace /\ header # Absent
                                /\ WellFormed(header) =>
                                trace.flags = Lowercase(header[4])
    BY DEF ContextHandedOn
  <2>2. span[s].trace.flags \in Flags /\ span[s].trace \in Trace
    BY <1>1 DEF TypeOK, SpanType, Trace
  <2>3. span[s].trace.id \in Ids(TraceWidth) /\ span[s].id \in Ids(SpanWidth)
    BY <1>1 DEF Belongs
  <2>4. ASSUME span[s].trace = processTrace, header # Absent, WellFormed(header)
        PROVE  span[s].trace.flags = Lowercase(header[4])
    BY <1>1, <2>2, <2>4, AbsentAssumption DEF EnvRead, Inherits, Parsed
  <2> QED BY <2>2, <2>3, <2>4, HeaderRoundTrip
<1> QED BY <1>1, SpansKnown, ApiTyped, PTL

(***************************************************************************)
(* Records.                                                                *)
(***************************************************************************)

\* A record is about a span that speaks, and says of it what is true.
Truthful(r) ==
  /\ r.span \in Created /\ Enabled(r.span)
  /\ r.trace = span[r.span].trace.id
  /\ r.kind = "span" => r.parent = span[r.span].parent
  /\ r.kind = "event" => r.parent = span[r.span].id

AllTruthful ==
  /\ \A i \in 1..Len(journal) : Truthful(journal[i].record)
  /\ \A t \in Threads : line[t] # Absent => Truthful(line[t])

\* A step leaves alone the spans other than s and what is written or about to
\* be, ...
Leaves(s) ==
  /\ Created' = Created
  /\ \A r \in Created : Fixed(r)
  /\ \A r \in Created \ {s} : /\ span'[r].emitted = span[r].emitted
                              /\ stage'[r] = "gone" <=> stage[r] = "gone"
  /\ journal' = journal

\* ... or finishes s, which renders its record if there is none yet, ...
Finishes(t, s) ==
  /\ s \in Created /\ Leaves(s)
  /\ span'[s].emitted
  /\ line[t] = Absent
  /\ \/ /\ ~span[s].emitted /\ Enabled(s)
        /\ \E r \in RecordType :
             /\ line' = [line EXCEPT ![t] = r]
             /\ r.kind = "span" /\ r.span = s /\ r.trace = span[s].trace.id
             /\ r.parent = span[s].parent
     \/ /\ span[s].emitted \/ ~Enabled(s)
        /\ line' = line

\* ... or renders an event of s, ...
Logs(t, s) ==
  /\ s \in Created /\ Leaves(s) /\ Enabled(s)
  /\ span'[s].emitted = span[s].emitted
  /\ stage'[s] = stage[s]
  /\ line[t] = Absent
  /\ \E r \in RecordType :
       /\ line' = [line EXCEPT ![t] = r]
       /\ r.kind = "event" /\ r.span = s /\ r.trace = span[s].trace.id
       /\ r.parent = span[s].id

\* ... or writes what a thread carries, ...
Writes(t) ==
  /\ UNCHANGED <<stage, span>>
  /\ line[t] \in RecordType
  /\ line' = [line EXCEPT ![t] = Absent]
  /\ \E k \in Sinks \cup {"stderr"} :
       journal' = Append(journal, [record |-> line[t], to |-> k])

\* ... or does nothing to records, perhaps opening a span.
NoRecord ==
  /\ UNCHANGED <<journal, line>>
  /\ Created \subseteq Created'
  /\ \A s \in Created : /\ Fixed(s) /\ span'[s].emitted = span[s].emitted
                        /\ stage'[s] = stage[s]
  /\ \A s \in Created' \ Created : ~span'[s].emitted /\ stage'[s] # "gone"

LEMMA OpenNoRecord ==
  ASSUME TypeOK, NEW s \in Spans, NEW trace, NEW parent, NEW needs, NEW n,
         Open(s, trace, parent, needs, n), UNCHANGED <<journal, line>>
  PROVE  NoRecord
<1>1. span'[s].emitted = FALSE /\ \A r \in Created : span'[r] = span[r]
  BY DEF Open, NewSpan, TypeOK, Created
<1>2. stage'[s] = "open" /\ Created' = Created \cup {s}
      /\ \A r \in Created : stage'[r] = stage[r]
  BY DEF Open, TypeOK, Created
<1> QED BY <1>1, <1>2 DEF NoRecord, Fixed

LEMMA FinishShape ==
  ASSUME TypeOK, NEW t \in Threads, NEW s \in Created, NEW next,
         Finish(t, s, next), line[t] = Absent, journal' = journal,
         NEW new \in {"ending", "gone"}, stage' = [stage EXCEPT ![s] = new]
  PROVE  Finishes(t, s)
<1> s \in Spans /\ span[s] \in SpanType
  BY DEF Created, TypeOK
<1>1. PICK panicking \in BOOLEAN :
        /\ span' = [span EXCEPT ![s] = Finished(s, panicking)]
        /\ IF ~span[s].emitted /\ Enabled(s)
           THEN Render(t, [kind |-> "span", span |-> s,
                           trace |-> span[s].trace.id,
                           parent |-> span[s].parent, seq |-> nextSeq,
                           fields |-> <<NameField>> \o
                                        Finished(s, panicking).attrs], next)
           ELSE line' = line
  BY DEF Finish
<1>2. span'[s] = Finished(s, panicking) /\ \A r \in Spans \ {s} : span'[r] = span[r]
  BY <1>1 DEF TypeOK
<1>3. /\ Finished(s, panicking).trace = span[s].trace
      /\ Finished(s, panicking).id = span[s].id
      /\ Finished(s, panicking).parent = span[s].parent
      /\ Finished(s, panicking).needs = span[s].needs
      /\ Finished(s, panicking).emitted = TRUE
  BY DEF Finished, Marked, SpanType
<1>4. Created' = Created /\ \A r \in Spans \ {s} : stage'[r] = stage[r]
  BY DEF Created, TypeOK
<1>5. Leaves(s) /\ span'[s].emitted
  BY <1>2, <1>3, <1>4 DEF Leaves, Fixed, Created
<1> DEFINE rec == [kind |-> "span", span |-> s, trace |-> span[s].trace.id,
                   parent |-> span[s].parent, seq |-> nextSeq,
                   fields |-> <<NameField>> \o Finished(s, panicking).attrs]
<1>6. rec \in RecordType /\ rec.kind = "span" /\ rec.span = s
      /\ rec.trace = span[s].trace.id /\ rec.parent = span[s].parent
  BY RecordTyped
<1>7. IF ~span[s].emitted /\ Enabled(s) THEN line' = [line EXCEPT ![t] = rec]
      ELSE line' = line
  BY <1>1 DEF Render
<1> HIDE DEF rec
<1> QED BY <1>5, <1>6, <1>7 DEF Finishes

LEMMA RecordShape ==
  ASSUME TypeOK, Control, [Next]_vars
  PROVE  \/ NoRecord
         \/ \E t \in Threads : Writes(t)
         \/ \E t \in Threads, s \in Spans : Finishes(t, s) \/ Logs(t, s)
<1> USE DEF Idle
<1>1. ASSUME NEW t \in Threads, NEW s \in Spans,
             OpenRoot(t, s) \/ OpenAdopted(t, s)
             \/ \E p \in Spans : Child(t, s, p) \/ FrameChild(t, s, p)
      PROVE  NoRecord
  BY <1>1, OpenNoRecord
  DEF OpenRoot, OpenAdopted, Child, FrameChild, OpenChild, threadVars
<1>2. ASSUME NEW t \in Threads, NEW s \in Spans, SetAttr(t, s)
      PROVE  NoRecord
  <2>1. PICK text \in Texts :
          span' = [span EXCEPT ![s].attrs = Append(@, << <<"k">>, text>>)]
    BY <1>2 DEF SetAttr
  <2>2. s \in Created /\ span[s] \in SpanType
    BY <1>2 DEF SetAttr, Exclusive, Created, TypeOK
  <2> QED BY <1>2, <2>1, <2>2
          DEF SetAttr, NoRecord, Fixed, Created, SpanType, TypeOK, threadVars
<1>3. ASSUME NEW t \in Threads, NEW s \in Spans, Event(t, s)
      PROVE  Logs(t, s)
  <2>1. s \in Created
    BY <1>3 DEF Event, Created
  <2>2. PICK text \in Texts :
          line' = [line EXCEPT ![t] =
            [kind |-> "event", span |-> s, trace |-> span[s].trace.id,
             parent |-> span[s].id, seq |-> nextSeq,
             fields |-> <<NameField, << <<"k">>, text>> >>]]
    BY <1>3 DEF Event, Render
  <2> DEFINE rec == [kind |-> "event", span |-> s, trace |-> span[s].trace.id,
                     parent |-> span[s].id, seq |-> nextSeq,
                     fields |-> <<NameField, << <<"k">>, text>> >>]
  <2>3. rec \in RecordType /\ rec.kind = "event" /\ rec.span = s
        /\ rec.trace = span[s].trace.id /\ rec.parent = span[s].id
    BY <2>1, RecordTyped
  <2>4. line' = [line EXCEPT ![t] = rec]
    BY <2>2
  <2>5. Leaves(s) /\ span' = span /\ stage' = stage /\ line[t] = Absent
        /\ Enabled(s)
    BY <1>3 DEF Event, Leaves, Fixed, Created, Control
  <2> HIDE DEF rec
  <2> QED BY <2>1, <2>3, <2>4, <2>5 DEF Logs
<1>4. ASSUME NEW t \in Threads, NEW s \in Spans, End(t, s)
      PROVE  Finishes(t, s)
  <2>1. s \in Created /\ line[t] = Absent
    BY <1>4 DEF End, Exclusive, Created, Control
  <2> QED BY <1>4, <2>1, FinishShape DEF End
<1>5. ASSUME NEW t \in Threads, NEW s \in Spans, Drop(t, s)
      PROVE  Finishes(t, s)
  <2>1. s \in Created /\ line[t] = Absent
    BY <1>5 DEF Drop, Exclusive, Created, Control
  <2> QED BY <1>5, <2>1, FinishShape DEF Drop
<1>6. ASSUME NEW t \in Threads, Write(t)
      PROVE  Writes(t)
  <2>1. line[t] \in RecordType /\ sink \in Sinks \cup {"stderr"}
    BY <1>6 DEF Write, Control, TypeOK
  <2> QED BY <1>6, <2>1 DEF Write, Writes
<1>7. CASE UNCHANGED <<stage, span, journal, line>>
  BY <1>7 DEF NoRecord, Fixed, Created
<1> QED
  BY <1>1, <1>2, <1>3, <1>4, <1>5, <1>6, <1>7
  DEF Next, vars, threadVars, ResolveSink, SetSink

\* What SpansWrittenOnce asks of one span.
WrittenOnce(s) ==
  /\ span[s].emitted /\ Enabled(s) <=> InJournal(s) # {} \/ Carriers(s) # {}
  /\ InJournal(s) = {} \/ Carriers(s) = {}
  /\ \A i, j \in InJournal(s) : i = j
  /\ \A t, u \in Carriers(s) : t = u
  /\ stage[s] = "gone" => span[s].emitted

\* The sets a step leaves as they were.
LEMMA SameRecords ==
  ASSUME journal' = journal, line' = line, NEW s \in Spans
  PROVE  InJournal(s)' = InJournal(s) /\ Carriers(s)' = Carriers(s)
BY DEF InJournal, Carriers

LEMMA KeptOnce ==
  ASSUME NEW s \in Spans, WrittenOnce(s), Fixed(s),
         span'[s].emitted = span[s].emitted,
         stage'[s] = "gone" <=> stage[s] = "gone",
         InJournal(s)' = InJournal(s), Carriers(s)' = Carriers(s)
  PROVE  WrittenOnce(s)'
BY DEF WrittenOnce, Fixed, Enabled

\* A span's record appears as a thread renders it, ...
LEMMA CarriersRender ==
  ASSUME TypeOK, NEW t \in Threads, NEW r \in RecordType, line[t] = Absent,
         line' = [line EXCEPT ![t] = r], NEW s \in Spans
  PROVE  Carriers(s)' = IF r.kind = "span" /\ r.span = s
                        THEN Carriers(s) \cup {t} ELSE Carriers(s)
BY AbsentAssumption DEF Carriers, TypeOK

\* ... and moves to the journal as it writes it.
LEMMA RecordMoves ==
  ASSUME TypeOK, NEW t \in Threads, Writes(t), NEW s \in Spans
  PROVE  IF t \in Carriers(s)
         THEN /\ InJournal(s)' = InJournal(s) \cup {Len(journal) + 1}
              /\ Carriers(s)' = Carriers(s) \ {t}
         ELSE InJournal(s)' = InJournal(s) /\ Carriers(s)' = Carriers(s)
<1> DEFINE Entry == [record : RecordType, to : Sinks \cup {"stderr"}]
<1>1. PICK k \in Sinks \cup {"stderr"} :
        journal' = Append(journal, [record |-> line[t], to |-> k])
  BY DEF Writes
<1> DEFINE e == [record |-> line[t], to |-> k]
<1>2. line[t] # Absent /\ journal \in Seq(Entry) /\ e \in Entry
      /\ e.record = line[t]
  BY AbsentAssumption DEF Writes, TypeOK
<1>3. journal' = Append(journal, e)
  BY <1>1
<1>4. /\ Len(journal') = Len(journal) + 1 /\ Len(journal) \in Nat
      /\ journal'[Len(journal) + 1] = e
      /\ \A i \in 1..Len(journal) : journal'[i] = journal[i]
  <2> HIDE DEF e, Entry
  <2> QED BY <1>2, <1>3
<1>5. t \in Carriers(s) <=> e.record.kind = "span" /\ e.record.span = s
  BY <1>2 DEF Carriers
<1>6. InJournal(s)' = IF t \in Carriers(s)
                      THEN InJournal(s) \cup {Len(journal) + 1}
                      ELSE InJournal(s)
  <2> HIDE DEF e
  <2> QED BY <1>4, <1>5 DEF InJournal
<1>7. Carriers(s)' = Carriers(s) \ {t}
  BY DEF Writes, Carriers, TypeOK
<1> QED BY <1>6, <1>7

LEMMA WrittenStep ==
  ASSUME TypeOK, Control, AllTruthful, SpansWrittenOnce, [Next]_vars
  PROVE  SpansWrittenOnce'
<1> USE DEF Leaves
<1>1. \A s \in Created : WrittenOnce(s)
  BY DEF SpansWrittenOnce, WrittenOnce
<1>2. SUFFICES \A s \in Created' : WrittenOnce(s)'
  BY DEF SpansWrittenOnce, WrittenOnce
<1>3. \A s \in Spans : s \in Created => s \in Spans
  OBVIOUS
<1>4. ASSUME NEW s \in Spans, s \notin Created
      PROVE  InJournal(s) = {} /\ Carriers(s) = {}
  BY <1>4 DEF InJournal, Carriers, AllTruthful, Truthful
<1>5. CASE NoRecord
  <2>1. SUFFICES ASSUME NEW s \in Created' PROVE WrittenOnce(s)'
    OBVIOUS
  <2>2. s \in Spans
    BY DEF Created
  <2>3. InJournal(s)' = InJournal(s) /\ Carriers(s)' = Carriers(s)
    BY <1>5, <2>2, SameRecords DEF NoRecord
  <2>4. CASE s \in Created
    BY <1>1, <1>5, <2>2, <2>3, <2>4, KeptOnce DEF NoRecord
  <2>5. CASE s \notin Created
    <3>1. InJournal(s)' = {} /\ Carriers(s)' = {}
      BY <1>4, <2>2, <2>3, <2>5
    <3>2. ~span'[s].emitted /\ stage'[s] # "gone"
      BY <1>5, <2>5 DEF NoRecord
    <3> QED BY <3>1, <3>2 DEF WrittenOnce
  <2> QED BY <2>4, <2>5
<1>6. ASSUME NEW t \in Threads, NEW f \in Spans, Finishes(t, f)
      PROVE  \A s \in Created' : WrittenOnce(s)'
  <2>1. SUFFICES ASSUME NEW s \in Created PROVE WrittenOnce(s)'
    BY <1>6 DEF Finishes
  <2>2. s \in Spans /\ Fixed(s)
    BY <1>6 DEF Created, Finishes
  <2>3. InJournal(s)' = InJournal(s)
    BY <1>6, <2>2 DEF InJournal, Finishes
  <2>4. CASE ~span[f].emitted /\ Enabled(f)
    <3>1. PICK r \in RecordType :
            line' = [line EXCEPT ![t] = r] /\ r.kind = "span" /\ r.span = f
      BY <1>6, <2>4 DEF Finishes
    <3>2. Carriers(s)' = IF s = f THEN Carriers(s) \cup {t} ELSE Carriers(s)
      BY <1>6, <2>2, <3>1, CarriersRender DEF Finishes
    <3>3. CASE s = f
      <4>1. InJournal(s) = {} /\ Carriers(s) = {}
        BY <1>1, <2>4, <3>3 DEF WrittenOnce
      <4>2. Enabled(s)' /\ span'[s].emitted
        BY <1>6, <2>2, <2>4, <3>3 DEF Enabled, Fixed, Finishes
      <4> QED BY <2>3, <3>2, <3>3, <4>1, <4>2 DEF WrittenOnce
    <3>4. CASE s # f
      BY <1>1, <1>6, <2>2, <2>3, <3>2, <3>4, KeptOnce DEF Finishes
    <3> QED BY <3>3, <3>4
  <2>5. CASE span[f].emitted \/ ~Enabled(f)
    <3>1. line' = line
      BY <1>6, <2>5 DEF Finishes
    <3>2. Carriers(s)' = Carriers(s)
      BY <2>2, <3>1 DEF Carriers
    <3>3. CASE s = f
      <4>1. span'[s].emitted /\ (Enabled(s)' <=> Enabled(s))
        BY <1>6, <2>2, <3>3 DEF Enabled, Fixed, Finishes
      <4>2. WrittenOnce(s)
        BY <1>1
      <4> QED BY <2>3, <2>5, <3>2, <3>3, <4>1, <4>2 DEF WrittenOnce
    <3>4. CASE s # f
      BY <1>1, <1>6, <2>2, <2>3, <3>2, <3>4, KeptOnce DEF Finishes
    <3> QED BY <3>3, <3>4
  <2> QED BY <2>4, <2>5
<1>7. ASSUME NEW t \in Threads, NEW f \in Spans, Logs(t, f)
      PROVE  \A s \in Created' : WrittenOnce(s)'
  <2>1. SUFFICES ASSUME NEW s \in Created PROVE WrittenOnce(s)'
    BY <1>7 DEF Logs
  <2>2. s \in Spans /\ Fixed(s) /\ span'[s].emitted = span[s].emitted
        /\ (stage'[s] = "gone" <=> stage[s] = "gone")
    BY <1>7 DEF Created, Logs
  <2>3. PICK r \in RecordType : line' = [line EXCEPT ![t] = r] /\ r.kind = "event"
    BY <1>7 DEF Logs
  <2>4. Carriers(s)' = Carriers(s)
    BY <1>7, <2>2, <2>3, CarriersRender DEF Logs
  <2>5. InJournal(s)' = InJournal(s)
    BY <1>7, <2>2 DEF InJournal, Logs
  <2> QED BY <1>1, <2>2, <2>4, <2>5, KeptOnce
<1>8. ASSUME NEW t \in Threads, Writes(t)
      PROVE  \A s \in Created' : WrittenOnce(s)'
  <2>1. Created' = Created
    BY <1>8 DEF Writes, Created
  <2>2. SUFFICES ASSUME NEW s \in Created PROVE WrittenOnce(s)'
    BY <2>1
  <2>3. s \in Spans /\ Fixed(s) /\ span'[s] = span[s] /\ stage'[s] = stage[s]
    BY <1>8 DEF Writes, Created, Fixed
  <2>4. CASE t \in Carriers(s)
    <3>1. InJournal(s)' = InJournal(s) \cup {Len(journal) + 1}
          /\ Carriers(s)' = Carriers(s) \ {t}
      BY <1>8, <2>3, <2>4, RecordMoves
    <3>2. InJournal(s) = {} /\ Carriers(s) = {t}
      BY <1>1, <2>4 DEF WrittenOnce
    <3>3. span[s].emitted /\ Enabled(s)
      BY <1>1, <2>4 DEF WrittenOnce
    <3>4. span'[s].emitted /\ Enabled(s)'
      BY <2>3, <3>3 DEF Enabled
    <3> QED BY <3>1, <3>2, <3>4 DEF WrittenOnce
  <2>5. CASE t \notin Carriers(s)
    BY <1>1, <1>8, <2>3, <2>5, RecordMoves, KeptOnce
  <2> QED BY <2>4, <2>5
<1> QED BY <1>5, <1>6, <1>7, <1>8, RecordShape

\* A truthful record stays one.
LEMMA StaysTruthful ==
  ASSUME NEW r, Truthful(r), Created \subseteq Created', \A s \in Created : Fixed(s)
  PROVE  Truthful(r)'
BY DEF Truthful, Fixed, Enabled

LEMMA TruthStep ==
  ASSUME TypeOK, Control, AllTruthful, [Next]_vars
  PROVE  AllTruthful'
<1>1. Created \subseteq Created' /\ \A s \in Created : Fixed(s)
  BY RecordShape DEF NoRecord, Writes, Finishes, Logs, Leaves, Fixed, Created
<1>2. \A r : Truthful(r) => Truthful(r)'
  BY <1>1, StaysTruthful
<1>3. CASE UNCHANGED <<journal, line>>
  BY <1>2, <1>3 DEF AllTruthful
<1>4. ASSUME NEW t \in Threads, NEW r \in RecordType, Truthful(r)',
             line' = [line EXCEPT ![t] = r], journal' = journal
      PROVE  AllTruthful'
  BY <1>2, <1>4 DEF AllTruthful, TypeOK
<1>5. ASSUME NEW t \in Threads, NEW s \in Spans, Finishes(t, s)
      PROVE  AllTruthful'
  <2>1. CASE ~span[s].emitted /\ Enabled(s)
    <3>1. PICK r \in RecordType :
            /\ line' = [line EXCEPT ![t] = r]
            /\ r.kind = "span" /\ r.span = s /\ r.trace = span[s].trace.id
            /\ r.parent = span[s].parent
      BY <1>5, <2>1 DEF Finishes
    <3>2. Truthful(r)
      BY <1>5, <2>1, <3>1 DEF Truthful, Finishes
    <3> QED BY <1>2, <1>4, <1>5, <3>1, <3>2 DEF Finishes, Leaves
  <2> QED BY <1>3, <1>5, <2>1 DEF Finishes, Leaves
<1>6. ASSUME NEW t \in Threads, NEW s \in Spans, Logs(t, s)
      PROVE  AllTruthful'
  <2>1. PICK r \in RecordType :
          /\ line' = [line EXCEPT ![t] = r]
          /\ r.kind = "event" /\ r.span = s /\ r.trace = span[s].trace.id
          /\ r.parent = span[s].id
    BY <1>6 DEF Logs
  <2>2. Truthful(r)
    BY <1>6, <2>1 DEF Truthful, Logs
  <2> QED BY <1>2, <1>4, <1>6, <2>1, <2>2 DEF Logs, Leaves
<1>7. ASSUME NEW t \in Threads, Writes(t)
      PROVE  AllTruthful'
  <2> DEFINE Entry == [record : RecordType, to : Sinks \cup {"stderr"}]
  <2>1. PICK k \in Sinks \cup {"stderr"} :
          journal' = Append(journal, [record |-> line[t], to |-> k])
    BY <1>7 DEF Writes
  <2> DEFINE e == [record |-> line[t], to |-> k]
  <2>2. line[t] # Absent /\ journal \in Seq(Entry) /\ e \in Entry
        /\ e.record = line[t] /\ journal' = Append(journal, e)
    BY <1>7, <2>1, AbsentAssumption DEF Writes, TypeOK
  <2>3. \A i \in 1..Len(journal') : \/ journal'[i] = e
                                    \/ i \in 1..Len(journal)
                                       /\ journal'[i] = journal[i]
    <3> HIDE DEF e, Entry
    <3> QED BY <2>2
  <2>4. Truthful(e.record)
    BY <2>2 DEF AllTruthful
  <2>5. \A u \in Threads : line'[u] # Absent => line'[u] = line[u]
    BY <1>7 DEF Writes, TypeOK
  <2> HIDE DEF e
  <2> QED BY <1>2, <2>3, <2>4, <2>5 DEF AllTruthful
<1>8. CASE NoRecord
  BY <1>3, <1>8 DEF NoRecord
<1> QED BY <1>5, <1>6, <1>7, <1>8, RecordShape

\* Every span that ends and is allowed to speak is written once, whether it is
\* ended, dropped, or ended and dropped, by whichever threads.
THEOREM EachSpanOnce == Spec => [](SpansWrittenOnce /\ AllTruthful)
<1>1. Init => SpansWrittenOnce /\ AllTruthful
  BY DEF Init, SpansWrittenOnce, AllTruthful, Created
<1> QED BY <1>1, WrittenStep, TruthStep, ApiTyped, PTL DEF Spec

\* No record in the journal names a parent nobody ever prints, whatever the
\* details of the traces and however spans are nested.
THEOREM ParentsPrinted == Spec => []NoDanglingParent
<1>1. ASSUME TypeOK, ParentKnown, SpansWrittenOnce, AllTruthful
      PROVE  NoDanglingParent
  <2>1. ASSUME NEW p \in Created, Enabled(p)
        PROVE  \/ InJournal(p) # {} \/ Carriers(p) # {}
               \/ stage[p] # "gone" /\ Enabled(p)
    BY <1>1, <2>1 DEF SpansWrittenOnce
  <2>2. SUFFICES ASSUME NEW i \in 1..Len(journal)
                 PROVE  LET r == journal[i].record IN
                   \/ r.parent = Absent
                   \/ /\ header # Absent /\ WellFormed(header)
                      /\ r.parent = Parsed(header).parent
                      /\ r.trace = Parsed(header).trace
                   \/ \E s \in Created :
                        /\ span[s].id = r.parent /\ span[s].trace.id = r.trace
                        /\ \/ InJournal(s) # {} \/ Carriers(s) # {}
                           \/ stage[s] # "gone" /\ Enabled(s)
    BY DEF NoDanglingParent
  <2> DEFINE r == journal[i].record
  <2>3. Truthful(r)
    BY <1>1 DEF AllTruthful
  <2>4. r.kind \in {"span", "event"}
    <3> DEFINE Entry == [record : RecordType, to : Sinks \cup {"stderr"}]
    <3>1. journal \in Seq(Entry)
      BY <1>1 DEF TypeOK
    <3>2. journal[i] \in Entry
      <4> HIDE DEF Entry
      <4> QED BY <3>1
    <3> QED BY <3>2 DEF RecordType
  <2>5. CASE r.kind = "event"
    BY <2>1, <2>3, <2>5 DEF Truthful
  <2>6. CASE r.kind = "span"
    <3>1. /\ r.span \in Created /\ Enabled(r.span)
          /\ r.trace = span[r.span].trace.id
          /\ r.parent = span[r.span].parent
      BY <2>3, <2>6 DEF Truthful
    <3>2. ASSUME NEW p \in Created, span[p].id = r.parent,
                 span[p].trace = span[r.span].trace,
                 span[p].needs <= span[r.span].needs
          PROVE  Enabled(p) /\ span[p].trace.id = r.trace
      <4>1. /\ span[p] \in SpanType /\ span[r.span] \in SpanType
        BY <1>1, <3>1 DEF TypeOK
      <4>2. /\ span[p].needs \in Nat /\ span[r.span].needs \in Nat
            /\ span[p].trace.detail \in Nat
        BY <4>1 DEF SpanType, Trace, Detail, Off, Session, Frames
      <4> QED BY <3>1, <3>2, <4>2 DEF Enabled
    <3> QED BY <1>1, <2>1, <3>1, <3>2 DEF ParentKnown, Inherits
  <2> QED BY <2>4, <2>5, <2>6
<1> QED BY <1>1, EachSpanOnce, SpansKnown, ApiTyped, PTL
=============================================================================
