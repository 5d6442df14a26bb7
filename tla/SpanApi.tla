------------------------------- MODULE SpanApi -------------------------------
(***************************************************************************)
(* span-lines' own API in one process: threads take the process's trace or *)
(* adopt one, open spans and children, attach attributes, log events, end  *)
(* and drop spans, and install a sink, while records go through the sink   *)
(* to the journal.                                                         *)
(*                                                                         *)
(* Each get_or_init or set of a OnceLock, each render (with its next_seq)  *)
(* and each sink write is one step.  What Rust's borrows exclude is        *)
(* excluded: a call that takes a span by value or mutably starts when no   *)
(* other call is inside it.  Clocks are left out; of the process's exit,   *)
(* see SpanLayer.                                                          *)
(***************************************************************************)
EXTENDS TraceContext, RecordFormat

CONSTANTS
  Threads,
  Spans,        \* spans opened in a run, numbered in that order
  Sinks,        \* what set_sink may be called with, each once
  Environments, \* pairs of a TRACEPARENT (its fields, or Absent) and a SPAN_LINES
  Adoptions,    \* trace ids and details a caller hands to Trace::adopt
  Chars,        \* what a header or an attribute is written with
  Texts,        \* attribute values
  MaxCalls,     \* in a run: attributes attached (status=panic included), events
                \* logged, traces adopted and sinks offered, together
  MaxIds,       \* ids minted in a run
  MintTrace,    \* the digits the seed and a count of IDS yield for a trace
  MintSpan,     \* and those they yield for a span
  Absent        \* no header, parent, trace, sink, span or record

ASSUME ApiAssumption ==
  /\ Spans \subseteq Nat
  /\ {"s", "n", "t", "p", "k"} \subseteq Chars
  /\ Absent \notin Spans /\ Absent \notin Sinks \cup {"stderr"}
  /\ "stderr" \notin Sinks
  /\ \A e \in Environments : e[1] # Absent => e[1] \in Seq(Seq(Chars))
  /\ \A adoption \in Adoptions :
       adoption[1] \in Seq(Chars) /\ adoption[2] \in 0..2
  /\ \A text \in Texts : text \in Seq(Chars)
  /\ MaxCalls \in Nat /\ MaxIds \in Nat
  /\ MintTrace \in [0..MaxIds -> [1..TraceWidth -> Digits]]
  /\ MintSpan \in [0..MaxIds -> [1..SpanWidth -> Digits]]

VARIABLES
  header,     \* TRACEPARENT, or Absent
  setting,    \* SPAN_LINES
  processTrace, \* TRACE in process_trace: a trace, or Absent
  counter,    \* IDS
  nextSeq,    \* SEQ
  stage,      \* span -> unborn, open, ending or gone
  span,       \* span -> its fields
  sink,       \* SINK: stderr, one of Sinks, or Absent
  claims,     \* what set_sink answered: TRUE, FALSE, or Absent
  journal,    \* what was written, in order, and where to
  calls,      \* calls that count towards MaxCalls
  pc,
  subject,    \* the span a thread's call works on
  line,       \* the record the thread has rendered and not yet written
  after       \* where the thread goes on once it is written

envVars == <<header, setting>>
idVars == <<processTrace, counter>>
sinkVars == <<sink, claims>>
threadVars == <<pc, subject, line, after>>
vars == <<envVars, idVars, nextSeq, stage, span, sinkVars, journal, calls,
          threadVars>>

(***************************************************************************)
(* Detail, traces and spans.                                               *)
(***************************************************************************)
Off == 0
Session == 1
Frames == 2
Detail == Off..Frames

\* Detail::parse: anything but off and frames, a typo included, is session.
ParseDetail(value) ==
  CASE value = "off" -> Off [] value = "frames" -> Frames
    [] OTHER -> Session

TraceIds == [1..TraceWidth -> Digits]
SpanIds == [1..SpanWidth -> Digits]
Trace == [id : TraceIds, detail : Detail, inherited : SpanIds \cup {Absent},
          flags : Flags]
Field == Seq(Chars) \X Seq(Chars)

RecordType ==
  [kind : {"span", "event"}, span : Spans, trace : TraceIds,
   parent : SpanIds \cup {Absent}, seq : Nat, fields : Seq(Field)]
SpanType ==
  [trace : Trace, id : SpanIds, parent : SpanIds \cup {Absent},
   needs : {Session, Frames}, attrs : Seq(Field), emitted : BOOLEAN]

ASSUME AbsentAssumption ==
  Absent \notin Trace \cup RecordType /\ Absent \notin SpanIds

\* hex(16) and hex(8): the id a count of IDS yields.
TraceId(n) == Nonzero(MintTrace[n])
SpanId(n) == Nonzero(MintSpan[n])

\* Trace::read_env, when the counter stands at n.
ReadEnv(n) ==
  IF header # Absent /\ WellFormed(header)
  THEN [id |-> Parsed(header).trace, detail |-> ParseDetail(setting),
        inherited |-> Parsed(header).parent, flags |-> Parsed(header).flags]
  ELSE [id |-> TraceId(n), detail |-> ParseDetail(setting),
        inherited |-> Absent, flags |-> Sampled]

\* The counts of IDS it takes.
IdsForTrace == IF header # Absent /\ WellFormed(header) THEN 0 ELSE 1

Adopt(id, detail) ==
  [id |-> Lowercase(id), detail |-> detail, inherited |-> Absent,
   flags |-> Sampled]

\* Span::new, when the counter stands at n.
NewSpan(trace, parent, needs, n) ==
  [trace |-> trace, id |-> SpanId(n), parent |-> parent,
   needs |-> needs, attrs |-> <<>>, emitted |-> FALSE]

Created == {s \in Spans : stage[s] # "unborn"}
Enabled(s) == span[s].trace.detail >= span[s].needs

Init ==
  /\ \E e \in Environments : header = e[1] /\ setting = e[2]
  /\ processTrace = Absent /\ counter = 0 /\ nextSeq = 0
  /\ stage = [s \in Spans |-> "unborn"]
  /\ span = [s \in Spans |-> Absent]
  /\ sink = Absent /\ claims = [k \in Sinks |-> Absent]
  /\ journal = <<>>
  /\ calls = 0
  /\ pc = [t \in Threads |-> "idle"]
  /\ subject = [t \in Threads |-> Absent]
  /\ line = [t \in Threads |-> Absent]
  /\ after = [t \in Threads |-> "idle"]

Goto(t, label) == pc' = [pc EXCEPT ![t] = label]
Idle(t) == pc[t] = "idle"

\* No call is inside s: it may be moved or borrowed mutably.
Exclusive(s) == stage[s] = "open" /\ \A t \in Threads : subject[t] # s

(***************************************************************************)
(* Opening spans.                                                          *)
(***************************************************************************)
Call == calls < MaxCalls /\ calls' = calls + 1

Open(s, trace, parent, needs, n) ==
  /\ stage[s] = "unborn"
  /\ \A r \in Spans : r < s => stage[r] # "unborn"
  /\ n <= MaxIds
  /\ stage' = [stage EXCEPT ![s] = "open"]
  /\ span' = [span EXCEPT ![s] = NewSpan(trace, parent, needs, n)]
  /\ counter' = n + 1

\* Faulty variant: from_env reads the environment anew for each caller.
UncachedTrace(n) == ReadEnv(n)

\* process_trace, which Trace::from_env clones: the first caller reads the
\* environment, the others get its answer.
ProcessTrace(n) == IF processTrace = Absent THEN ReadEnv(n) ELSE processTrace

OpenRoot(t, s) ==
  /\ Idle(t)
  /\ LET trace == ProcessTrace(counter)
         n == IF processTrace = Absent THEN counter + IdsForTrace ELSE counter
     IN /\ processTrace' = IF processTrace = Absent THEN trace ELSE processTrace
        /\ Open(s, trace, trace.inherited, Session, n)
  /\ UNCHANGED <<envVars, nextSeq, sinkVars, journal, calls, threadVars>>

\* Trace::adopt, then span; nothing comes of an id it refuses.
OpenAdopted(t, s) ==
  /\ Idle(t)
  /\ \E adoption \in Adoptions :
       /\ Adoptable(adoption[1])
       /\ Open(s, Adopt(adoption[1], adoption[2]), Absent, Session, counter)
  /\ Call
  /\ UNCHANGED <<envVars, processTrace, nextSeq, sinkVars, journal, threadVars>>

\* Faulty variant: a child is worth a session record whatever its parent is.
NeedsSession(p) == Session

\* A child is not chattier than its parent.
ChildNeeds(p) == IF span[p].needs > Session THEN span[p].needs ELSE Session

OpenChild(t, s, p, needs) ==
  /\ Idle(t)
  /\ stage[p] = "open"
  /\ Open(s, span[p].trace, span[p].id, needs, counter)
  /\ UNCHANGED <<envVars, processTrace, nextSeq, sinkVars, journal, calls,
                 threadVars>>

Child(t, s, p) == OpenChild(t, s, p, ChildNeeds(p))
FrameChild(t, s, p) == OpenChild(t, s, p, Frames)

\* attr and set.
SetAttr(t, s) ==
  /\ Idle(t)
  /\ Exclusive(s)
  /\ Call
  /\ \E text \in Texts :
       span' = [span EXCEPT ![s].attrs = Append(@, << <<"k">>, text>>)]
  /\ UNCHANGED <<envVars, idVars, nextSeq, stage, sinkVars, journal, threadVars>>

(***************************************************************************)
(* Events, end and drop.                                                   *)
(***************************************************************************)
NameField == << <<"s">>, <<"n">> >>
StatusPanic == << <<"s", "t">>, <<"p">> >>

\* Rendering takes a sequence number; what is rendered is then written.
Render(t, record, next) ==
  /\ line' = [line EXCEPT ![t] = record]
  /\ nextSeq' = nextSeq + 1
  /\ after' = [after EXCEPT ![t] = next]
  /\ Goto(t, "sink")

\* event in a span that records: render_event is not None.
Event(t, s) ==
  /\ Idle(t)
  /\ stage[s] = "open"
  /\ Enabled(s)
  /\ Call
  /\ subject' = [subject EXCEPT ![t] = s]
  /\ \E text \in Texts :
       Render(t, [kind |-> "event", span |-> s, trace |-> span[s].trace.id,
                  parent |-> span[s].id, seq |-> nextSeq,
                  fields |-> <<NameField, << <<"k">>, text>> >>], "idle")
  /\ UNCHANGED <<envVars, idVars, stage, span, sinkVars, journal>>

\* Faulty variant: end writes the record and leaves emitted as it was.
NotMarked(fields) == [fields EXCEPT !.emitted = FALSE]

Marked(fields) == [fields EXCEPT !.emitted = TRUE]

\* What finish makes of the span: once emitted it stays as it is, otherwise a
\* panicking thread adds its status.
Finished(s, panicking) ==
  LET fields == IF panicking /\ ~span[s].emitted
                THEN [span[s] EXCEPT !.attrs = Append(@, StatusPanic)]
                ELSE span[s]
  IN Marked(fields)

Finish(t, s, next) ==
  /\ \E panicking \in BOOLEAN :
       /\ IF panicking /\ ~span[s].emitted THEN Call ELSE UNCHANGED calls
       /\ span' = [span EXCEPT ![s] = Finished(s, panicking)]
       /\ IF ~span[s].emitted /\ Enabled(s)
          THEN Render(t, [kind |-> "span", span |-> s,
                          trace |-> span[s].trace.id,
                          parent |-> span[s].parent, seq |-> nextSeq,
                          fields |-> <<NameField>> \o
                                       Finished(s, panicking).attrs], next)
          ELSE Goto(t, next) /\ UNCHANGED <<line, nextSeq, after>>

\* end(self): finish; self is dropped when it returns.
End(t, s) ==
  /\ Idle(t)
  /\ Exclusive(s)
  /\ stage' = [stage EXCEPT ![s] = "ending"]
  /\ subject' = [subject EXCEPT ![t] = s]
  /\ Finish(t, s, "drop")
  /\ UNCHANGED <<envVars, idVars, sinkVars, journal>>

\* Drop, of a span that leaves its scope or one that end has moved into its
\* call.
Drop(t, s) ==
  /\ \/ Idle(t) /\ Exclusive(s)
     \/ pc[t] = "drop" /\ subject[t] = s
  /\ stage' = [stage EXCEPT ![s] = "gone"]
  /\ subject' = [subject EXCEPT ![t] = Absent]
  /\ Finish(t, s, "idle")
  /\ UNCHANGED <<envVars, idVars, sinkVars, journal>>

(***************************************************************************)
(* The sink.                                                               *)
(***************************************************************************)

\* emit's sink(): the first record installs stderr if nobody installed
\* another one.
ResolveSink(t) ==
  /\ pc[t] = "sink"
  /\ sink' = IF sink = Absent THEN "stderr" ELSE sink
  /\ Goto(t, "write")
  /\ UNCHANGED <<envVars, idVars, nextSeq, stage, span, claims, journal,
                 calls, subject, line, after>>

\* The frame of the record goes to the sink in one write.  An event's borrow
\* of its span ends with it.
Write(t) ==
  /\ pc[t] = "write"
  /\ journal' = Append(journal, [record |-> line[t], to |-> sink])
  /\ line' = [line EXCEPT ![t] = Absent]
  /\ subject' = [subject EXCEPT ![t] = IF after[t] = "drop" THEN @ ELSE Absent]
  /\ Goto(t, after[t])
  /\ after' = [after EXCEPT ![t] = "idle"]
  /\ UNCHANGED <<envVars, idVars, nextSeq, stage, span, sinkVars, calls>>

\* Faulty variant: the last call wins.
Replace(k) == k

\* OnceLock::set: the first value stays.
SetOnce(k) == IF sink = Absent THEN k ELSE sink

SetSink(t, k) ==
  /\ Idle(t)
  /\ claims[k] = Absent
  /\ Call
  /\ sink' = SetOnce(k)
  /\ claims' = [claims EXCEPT ![k] = (sink' = k)]
  /\ UNCHANGED <<envVars, idVars, nextSeq, stage, span, journal, threadVars>>

Next ==
  \E t \in Threads :
    \/ \E s \in Spans :
         \/ OpenRoot(t, s) \/ OpenAdopted(t, s)
         \/ \E p \in Spans : Child(t, s, p) \/ FrameChild(t, s, p)
         \/ SetAttr(t, s) \/ Event(t, s) \/ End(t, s) \/ Drop(t, s)
    \/ ResolveSink(t) \/ Write(t)
    \/ \E k \in Sinks : SetSink(t, k)

Spec == Init /\ [][Next]_vars

(***************************************************************************)
(* Safety.                                                                 *)
(***************************************************************************)
TypeOK ==
  /\ header # Absent => header \in Seq(Seq(Chars))
  /\ processTrace \in Trace \cup {Absent}
  /\ counter \in Nat /\ nextSeq \in Nat
  /\ stage \in [Spans -> {"unborn", "open", "ending", "gone"}]
  /\ span \in [Spans -> SpanType \cup {Absent}]
  /\ \A s \in Created : span[s] \in SpanType
  /\ sink \in Sinks \cup {"stderr", Absent}
  /\ claims \in [Sinks -> BOOLEAN \cup {Absent}]
  /\ journal \in Seq([record : RecordType, to : Sinks \cup {"stderr"}])
  /\ calls \in 0..MaxCalls
  /\ pc \in [Threads -> {"idle", "sink", "write", "drop"}]
  /\ subject \in [Threads -> Spans \cup {Absent}]
  /\ line \in [Threads -> RecordType \cup {Absent}]
  /\ after \in [Threads -> {"idle", "drop"}]

InJournal(s) == {i \in 1..Len(journal) : /\ journal[i].record.kind = "span"
                                        /\ journal[i].record.span = s}
Carriers(s) == {t \in Threads : /\ line[t] # Absent
                                /\ line[t].kind = "span" /\ line[t].span = s}

\* A span has its record exactly when it was finished and its detail level
\* lets it speak - and then one, with the thread that rendered it or in the
\* journal - whether it was ended, dropped, or ended and then dropped.
SpansWrittenOnce ==
  \A s \in Created :
    /\ span[s].emitted /\ Enabled(s) <=> InJournal(s) # {} \/ Carriers(s) # {}
    /\ InJournal(s) = {} \/ Carriers(s) = {}
    /\ \A i, j \in InJournal(s) : i = j
    /\ \A t, u \in Carriers(s) : t = u
    /\ stage[s] = "gone" => span[s].emitted

\* No record names a parent that is never printed: the parent is the one the
\* environment gave, or a span of the same trace that is in the journal or
\* will be when it ends.
NoDanglingParent ==
  \A i \in 1..Len(journal) :
    LET r == journal[i].record IN
      \/ r.parent = Absent
      \/ /\ header # Absent /\ WellFormed(header)
         /\ r.parent = Parsed(header).parent /\ r.trace = Parsed(header).trace
      \/ \E s \in Created :
           /\ span[s].id = r.parent /\ span[s].trace.id = r.trace
           /\ \/ InJournal(s) # {} \/ Carriers(s) # {}
              \/ stage[s] # "gone" /\ Enabled(s)

\* All records of the process go one way, and set_sink tells the truth about
\* it: TRUE to the caller whose sink gets every record, the ones before its
\* call included, FALSE to one whose sink gets none.
OneDestination ==
  /\ \A i \in 1..Len(journal) : journal[i].to = sink
  /\ \A k \in Sinks : claims[k] # Absent => (claims[k] <=> sink = k)

\* Whoever asks first and however many threads ask, from_env gives one trace:
\* a span belongs to it, or to a trace some caller adopted.
OneTrace ==
  \A s \in Created :
    \/ span[s].trace = processTrace
    \/ \E adoption \in Adoptions : span[s].trace.id = Lowercase(adoption[1])

\* The header a span hands to a child process is one the child's parser
\* accepts, and joins the child to this span; flags received are passed on.
ContextHandedOn ==
  \A s \in Created :
    LET trace == span[s].trace
        handed == Traceparent(trace.id, span[s].id, trace.flags)
    IN /\ WellFormed(handed)
       /\ Parsed(handed) = [trace |-> trace.id, parent |-> span[s].id,
                            flags |-> trace.flags]
       /\ trace = processTrace /\ header # Absent /\ WellFormed(header) =>
            trace.flags = Lowercase(header[4])

\* The reader the crate documents gets every field of a record back, whatever
\* the values hold, and cannot mistake a cut record for a whole one.
RecordsReadBack ==
  [][journal' # journal => ReadsBack(Last(journal').record.fields)]_vars
=============================================================================
