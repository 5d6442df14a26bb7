----------------------------- MODULE SpanLayer ------------------------------
(***************************************************************************)
(* span-lines' tracing layer, its at-exit registry and record emission:    *)
(* threads open and close tracing spans and log events, any of them may    *)
(* flush the registry or exit the process, and every record goes to the    *)
(* journal through one sink.                                               *)
(*                                                                         *)
(* Each critical section of Inner::open and of AT_EXIT, each next_seq and  *)
(* each sink write is one step.  A span is identified with the id hex(8)   *)
(* mints for it; the ids tracing-subscriber's registry hands the layer     *)
(* are slots it reuses, and are modelled as such.  Names and clocks are    *)
(* left out; of the attributes, the fields recorded late are counted.      *)
(***************************************************************************)
EXTENDS Naturals, Sequences, SequencesExt

CONSTANTS
  Threads,
  Spans,      \* tracing spans opened in a run
  Target,     \* span -> the module path it is written in
  Level,      \* span -> its level, ERROR being 1 and TRACE 5
  TargetPrefixes, \* the target prefixes the layer was built with
  Setting,    \* the layer's detail
  Slots,      \* ids of the registry, free again when their span is gone
  MaxCalls,   \* admitted events logged and fields recorded late in a run,
              \* together
  MaxFlushes, \* calls of flush in a run, exit's own not counted
  FirstHooks, \* what is registered with at_exit to begin with
  None        \* no span, no parent, no thread

\* Detail.
Off == 0
Session == 1
Frames == 2

Info == 3
Levels == 1..5

ASSUME SpanAssumption ==
  /\ Level \in [Spans -> Levels]
  /\ Setting \in {Off, Session, Frames}
  /\ None \notin Spans \cup Threads
  /\ MaxCalls \in Nat /\ MaxFlushes \in Nat
  /\ FirstHooks \in Seq({"layer", "registrar", "plain"})

(***************************************************************************)
(* The layer's gate.                                                       *)
(***************************************************************************)
Tier(level) == IF level <= Info THEN Session ELSE Frames

Enabled(level) == Setting # Off /\ Setting >= Tier(level)

\* A prefix admits the module it names and what is inside it.
Admits(target) == \E prefix \in TargetPrefixes : IsPrefix(prefix, target)

Admitted == {s \in Spans : Enabled(Level[s]) /\ Admits(Target[s])}

VARIABLES
  \* the registry of tracing-subscriber
  phase,      \* span -> unborn, creating, live, closing or gone
  slot,       \* span -> the registry id it has while it is not gone
  ancestors,  \* span -> its scope without itself, nearest first
  \* the layer and the record stream
  open,       \* Inner::open, oldest first
  nextSeq,    \* SEQ
  journal,    \* records written, in order
  events,     \* admitted events begun
  late,       \* span -> fields recorded on it after it was opened
  \* the at-exit registry and the process
  hooks,      \* AT_EXIT
  hooksLock,  \* the thread inside AT_EXIT's mutex
  flushes,    \* calls of flush begun
  exiting,    \* threads that called exit
  owed,       \* thread -> spans open in the layer when it called exit
  exited,     \* the thread whose exit ended the process, or None
  \* where each thread is
  pc,
  subject,    \* the span a thread is opening or closing
  scope,      \* ancestors id_of has still to be asked about
  queue,      \* records a thread has taken on and not written, with no lock
  drawn,      \* the sequence number of the record at the queue's head
  back,       \* where the thread goes on after writing its queue
  running     \* the hooks flush cloned and has still to run

registryVars == <<phase, slot, ancestors>>
layerVars == <<open, nextSeq, journal, events, late>>
exitVars == <<hooks, hooksLock, flushes, exiting, owed, exited>>
threadVars == <<pc, subject, scope, queue, drawn, back, running>>
vars == <<registryVars, layerVars, exitVars, threadVars>>

\* Open, and the record written from it: the parent is the id the record names.
Entry(s, parent) == [kind |-> "span", span |-> s, slot |-> slot[s],
                     parent |-> parent, fields |-> 0]
EventRecord(parent) == [kind |-> "event", span |-> None, slot |-> None,
                        parent |-> parent, fields |-> 0]
Closed(status, entry) == [entry |-> entry, status |-> status]

Parent == Admitted \cup {None}
EntryType == [kind : {"span"}, span : Admitted, slot : Slots, parent : Parent,
              fields : Nat]
EventType == [kind : {"event"}, span : {None}, slot : {None}, parent : Parent,
              fields : {0}]
RecordType == [entry : EntryType, status : {"open", "close", "exit"}]
                \cup [entry : EventType, status : {"event"}]
Phases == {"unborn", "creating", "live", "closing", "gone"}
Hook == {"layer", "registrar", "plain"}
Labels == {"idle", "lookup", "push", "draw", "write", "clone", "flush"}

RegistryOK ==
  /\ phase \in [Spans -> Phases]
  /\ slot \in [Spans -> Slots]
  /\ ancestors \in [Spans -> Seq(Spans)]

LayerOK ==
  /\ open \in Seq(EntryType)
  /\ nextSeq \in Nat
  /\ journal \in Seq([record : RecordType, seq : Nat])
  /\ events \in Nat
  /\ late \in [Spans -> Nat]

ExitOK ==
  /\ hooks \in Seq(Hook)
  /\ hooksLock \in Threads \cup {None}
  /\ flushes \in 0..MaxFlushes
  /\ exiting \in SUBSET Threads
  /\ owed \in [Threads -> SUBSET Admitted]
  /\ exited \in exiting \cup {None}

ThreadsOK ==
  /\ pc \in [Threads -> Labels]
  /\ subject \in [Threads -> Spans \cup {None}]
  /\ scope \in [Threads -> Seq(Spans)]
  /\ queue \in [Threads -> Seq(RecordType)]
  /\ drawn \in [Threads -> Nat]
  /\ back \in [Threads -> {"idle", "flush"}]
  /\ running \in [Threads -> Seq(Hook)]

TypeOK == RegistryOK /\ LayerOK /\ ExitOK /\ ThreadsOK

Existing == {s \in Spans : phase[s] \in {"creating", "live", "closing"}}
Parents(s) == {p \in Spans : ancestors[s] # <<>> /\ Head(ancestors[s]) = p}
HasChildren(s) == \E c \in Existing : s \in Parents(c)

Goto(t, label) == pc' = [pc EXCEPT ![t] = label]
MayCall == events + FoldFunction(+, 0, late) < MaxCalls
Running(t) == exited = None /\ pc[t] = "idle"

Init ==
  /\ phase = [s \in Spans |-> "unborn"]
  /\ slot \in {[s \in Spans |-> i] : i \in Slots}
  /\ ancestors = [s \in Spans |-> <<>>]
  /\ open = <<>> /\ nextSeq = 0 /\ journal = <<>> /\ events = 0
  /\ late = [s \in Spans |-> 0]
  /\ hooks = FirstHooks /\ hooksLock = None /\ flushes = 0
  /\ exiting = {} /\ owed = [t \in Threads |-> {}] /\ exited = None
  /\ pc = [t \in Threads |-> "idle"]
  /\ subject = [t \in Threads |-> None]
  /\ scope = [t \in Threads |-> <<>>]
  /\ queue = [t \in Threads |-> <<>>]
  /\ drawn = [t \in Threads |-> 0]
  /\ back = [t \in Threads |-> "idle"]
  /\ running = [t \in Threads |-> <<>>]

\* The entry of the registry's id, if the layer has one: find and position take
\* the first.
Index(s) == {i \in 1..Len(open) : open[i].slot = slot[s]}
FirstIndex(s) == CHOOSE i \in Index(s) : \A j \in Index(s) : i <= j

(***************************************************************************)
(* on_new_span.                                                            *)
(***************************************************************************)

\* Faulty variant: scope().from_root().
FromRoot(line) == Reverse(line)

\* A scope is walked from the innermost span outward.
FromInner(line) == line

\* The registry creates the span under a live parent, or as a root, in a free
\* slot.  The layer ignores it unless its gate admits it.
NewSpan(t, s) ==
  /\ Running(t)
  /\ phase[s] = "unborn"
  /\ \E i \in Slots :
       /\ \A other \in Existing : slot[other] # i
       /\ slot' = [slot EXCEPT ![s] = i]
  /\ \E line \in {<<>>} \cup {<<p>> \o ancestors[p] :
                              p \in {q \in Spans : phase[q] = "live"}} :
       /\ ancestors' = [ancestors EXCEPT ![s] = line]
       /\ scope' = [scope EXCEPT ![t] = IF s \in Admitted THEN FromInner(line)
                                    ELSE <<>>]
  /\ IF s \in Admitted
     THEN /\ phase' = [phase EXCEPT ![s] = "creating"]
          /\ subject' = [subject EXCEPT ![t] = s]
          /\ Goto(t, "lookup")
     ELSE /\ phase' = [phase EXCEPT ![s] = "live"]
          /\ UNCHANGED <<subject, pc>>
  /\ UNCHANGED <<layerVars, exitVars, queue, drawn, back, running>>

\* Faulty variant: whatever the scope says is taken for recorded.
IdOfAny(s) == s

\* id_of under the lock: the span of the first open entry in that slot.
IdOf(s) == IF Index(s) = {} THEN None ELSE open[FirstIndex(s)].span

\* on_new_span pushes its entry in a critical section of its own, on_event
\* goes on to write.
Conclude(t, parent) ==
  IF subject[t] # None
  THEN /\ queue' = [queue EXCEPT ![t] = <<Closed("open",
                                            Entry(subject[t], parent))>>]
       /\ Goto(t, "push")
  ELSE /\ queue' = [queue EXCEPT ![t] = <<Closed("event",
                                            EventRecord(parent))>>]
       /\ Goto(t, "draw")

\* find_map over the scope, nearest first; each id_of takes the lock anew.
Lookup(t) ==
  /\ exited = None
  /\ pc[t] = "lookup"
  /\ \/ /\ scope[t] = <<>>
        /\ Conclude(t, None)
        /\ UNCHANGED scope
     \/ /\ scope[t] # <<>>
        /\ IdOf(Head(scope[t])) # None
        /\ Conclude(t, IdOf(Head(scope[t])))
        /\ scope' = [scope EXCEPT ![t] = <<>>]
     \/ /\ scope[t] # <<>>
        /\ IdOf(Head(scope[t])) = None
        /\ scope' = [scope EXCEPT ![t] = Tail(@)]
        /\ UNCHANGED <<queue, pc>>
  /\ UNCHANGED <<registryVars, layerVars, exitVars, subject, drawn, back,
                 running>>

Push(t) ==
  /\ exited = None
  /\ pc[t] = "push"
  /\ open' = Append(open, Head(queue[t]).entry)
  /\ phase' = [phase EXCEPT ![subject[t]] = "live"]
  /\ subject' = [subject EXCEPT ![t] = None]
  /\ queue' = [queue EXCEPT ![t] = <<>>]
  /\ Goto(t, "idle")
  /\ UNCHANGED <<slot, ancestors, nextSeq, journal, events, late, exitVars, scope,
                 drawn, back, running>>

(***************************************************************************)
(* on_record, on_event, on_close.                                           *)
(***************************************************************************)

\* Faulty variant: a late field goes to the span opened last.
Newest(s) == Len(open)

\* The entry a late field goes to.
OwnEntry(s) == FirstIndex(s)

\* on_record: the gate first, then the field is added if the entry is there.
RecordField(t, s) ==
  /\ Running(t)
  /\ phase[s] = "live"
  /\ MayCall
  /\ late' = [late EXCEPT ![s] = @ + 1]
  /\ open' = IF s \in Admitted /\ Index(s) # {}
             THEN [open EXCEPT ![OwnEntry(s)].fields = @ + 1] ELSE open
  /\ UNCHANGED <<registryVars, nextSeq, journal, events, exitVars, threadVars>>

\* The event's scope starts at the thread's current span, which the thread
\* keeps alive while it is inside.
LogEvent(t) ==
  /\ Running(t)
  /\ MayCall
  /\ events' = events + 1
  /\ \E line \in {<<>>} \cup {<<s>> \o ancestors[s] :
                              s \in {q \in Spans : phase[q] = "live"}} :
       scope' = [scope EXCEPT ![t] = FromInner(line)]
  /\ back' = [back EXCEPT ![t] = "idle"]
  /\ Goto(t, "lookup")
  /\ UNCHANGED <<registryVars, open, nextSeq, journal, late, exitVars, subject,
                 queue, drawn, running>>

\* The last reference to the span goes: no child holds one and no event is
\* being logged inside it.
Closable(s) ==
  /\ phase[s] = "live"
  /\ ~HasChildren(s)
  /\ \A t \in Threads : \A i \in 1..Len(scope[t]) : scope[t][i] # s

\* Faulty variant: swap_remove, constant-time and not order-preserving.
SwappedOut(i) == Front([open EXCEPT ![i] = Last(open)])

\* Faulty variant: the record is written from a copy, the entry stays.
Copied(i) == open

\* What on_close's removal leaves open.
TakenOut(i) == RemoveAt(open, i)

\* on_close for a span the layer does not have: filtered, or flushed already.
CloseUnrecorded(t, s) ==
  /\ Running(t)
  /\ Closable(s)
  /\ Index(s) = {}
  /\ phase' = [phase EXCEPT ![s] = "gone"]
  /\ UNCHANGED <<slot, ancestors, layerVars, exitVars, threadVars>>

\* on_close removes the entry under the lock and writes it after unlocking:
\* the tier it asks for passed at on_new_span and never changes.
CloseRecorded(t, s) ==
  /\ Running(t)
  /\ Closable(s)
  /\ Index(s) # {}
  /\ LET i == FirstIndex(s) IN
       /\ queue' = [queue EXCEPT ![t] = <<Closed("close", open[i])>>]
       /\ open' = TakenOut(i)
  /\ phase' = [phase EXCEPT ![s] = "closing"]
  /\ subject' = [subject EXCEPT ![t] = s]
  /\ back' = [back EXCEPT ![t] = "idle"]
  /\ Goto(t, "draw")
  /\ UNCHANGED <<slot, ancestors, nextSeq, journal, events, late, exitVars, scope,
                 drawn, running>>

(***************************************************************************)
(* write_span and emit: a sequence number, then one write to the sink.     *)
(***************************************************************************)

\* Faulty variant: the counter follows the journal instead of fetch_add.
CountFromJournal == Len(journal) + 1

AfterFetchAdd == nextSeq + 1

Draw(t) ==
  /\ exited = None
  /\ pc[t] = "draw"
  /\ drawn' = [drawn EXCEPT ![t] = nextSeq]
  /\ nextSeq' = AfterFetchAdd
  /\ Goto(t, "write")
  /\ UNCHANGED <<registryVars, open, journal, events, late, exitVars, subject,
                 scope, queue, back, running>>

\* When the queue is empty, on_close returns to the registry, which frees the
\* slot; close_open returns to flush.
Write(t) ==
  /\ exited = None
  /\ pc[t] = "write"
  /\ journal' = Append(journal, [record |-> Head(queue[t]), seq |-> drawn[t]])
  /\ queue' = [queue EXCEPT ![t] = Tail(@)]
  /\ drawn' = [drawn EXCEPT ![t] = 0]
  /\ IF Len(queue[t]) > 1 THEN Goto(t, "draw") /\ UNCHANGED back
     ELSE Goto(t, back[t]) /\ back' = [back EXCEPT ![t] = "idle"]
  /\ phase' = [s \in Spans |-> IF s = subject[t] THEN "gone" ELSE phase[s]]
  /\ subject' = [subject EXCEPT ![t] = None]
  /\ UNCHANGED <<slot, ancestors, open, nextSeq, events, late, exitVars, scope,
                 running>>

(***************************************************************************)
(* at_exit, flush and exit.                                                *)
(***************************************************************************)
Register(hook) == hooks' = Append(hooks, hook)

\* flush, called on its own or by exit, enters AT_EXIT's mutex.
LockHooks(t) ==
  /\ hooksLock = None
  /\ hooksLock' = t
  /\ Goto(t, "clone")

CallFlush(t) ==
  /\ Running(t)
  /\ flushes < MaxFlushes
  /\ flushes' = flushes + 1
  /\ LockHooks(t)
  /\ UNCHANGED <<registryVars, layerVars, hooks, exiting, owed, exited,
                 subject, scope, queue, drawn, back, running>>

CallExit(t) ==
  /\ Running(t)
  /\ LockHooks(t)
  /\ exiting' = exiting \cup {t}
  /\ owed' = [owed EXCEPT ![t] = {open[i].span : i \in 1..Len(open)}]
  /\ UNCHANGED <<registryVars, layerVars, hooks, flushes, exited, subject, scope,
                 queue, drawn, back, running>>

\* Faulty variant: the hooks are taken out of the registry.
HooksTaken == <<>>

\* The vector is cloned, the registry keeps it.
HooksKept == hooks

\* Faulty variant: the guard lives on while the hooks run.
GuardHeld(t) == t

\* The lock is released before the hooks run.
GuardDropped(t) == None

CloneHooks(t) ==
  /\ exited = None
  /\ pc[t] = "clone"
  /\ running' = [running EXCEPT ![t] = hooks]
  /\ hooks' = HooksKept
  /\ hooksLock' = GuardDropped(t)
  /\ Goto(t, "flush")
  /\ UNCHANGED <<registryVars, layerVars, flushes, exiting, owed, exited,
                 subject, scope, queue, drawn, back>>

NextHook(t, hook) ==
  /\ exited = None
  /\ pc[t] = "flush"
  /\ running[t] # <<>>
  /\ Last(running[t]) = hook
  /\ running' = [running EXCEPT ![t] = Front(@)]

\* Faulty variant: what is written is not taken.
OpenCopied == open

\* mem::take leaves nothing open.
OpenTaken == <<>>

\* close_open takes all open entries in one critical section, then writes
\* them newest first, marked status=exit.
CloseOpen(t) ==
  /\ NextHook(t, "layer")
  /\ queue' = [queue EXCEPT ![t] =
                 [i \in 1..Len(open) |-> Closed("exit", Reverse(open)[i])]]
  /\ open' = OpenTaken
  /\ back' = [back EXCEPT ![t] = "flush"]
  /\ IF open = <<>> THEN UNCHANGED pc ELSE Goto(t, "draw")
  /\ UNCHANGED <<registryVars, nextSeq, journal, events, late, exitVars, subject,
                 scope, drawn>>

\* A consumer's hook that registers another one, and one that does not.
RunRegistrar(t) ==
  /\ NextHook(t, "registrar")
  /\ hooksLock = None
  /\ Register("plain")
  /\ UNCHANGED <<registryVars, layerVars, hooksLock, flushes, exiting, owed, exited,
                 pc, subject, scope, queue, drawn, back>>

RunPlain(t) ==
  /\ NextHook(t, "plain")
  /\ UNCHANGED <<registryVars, layerVars, exitVars, pc, subject, scope, queue,
                 drawn, back>>

\* The last hook has run: flush returns, or std::process::exit stops every
\* thread where it stands.
EndFlush(t) ==
  /\ exited = None
  /\ pc[t] = "flush"
  /\ running[t] = <<>>
  /\ exited' = IF t \in exiting THEN t ELSE None
  /\ Goto(t, "idle")
  /\ UNCHANGED <<registryVars, layerVars, hooks, hooksLock, flushes, exiting, owed,
                 subject, scope, queue, drawn, back, running>>

\* What a thread does once it has begun an operation.
Proceed(t) ==
  \/ Lookup(t) \/ Push(t) \/ Draw(t) \/ Write(t)
  \/ CloneHooks(t) \/ CloseOpen(t) \/ RunRegistrar(t) \/ RunPlain(t)
  \/ EndFlush(t)

Begin(t) ==
  \/ \E s \in Spans : \/ NewSpan(t, s) \/ RecordField(t, s)
                      \/ CloseUnrecorded(t, s) \/ CloseRecorded(t, s)
  \/ LogEvent(t) \/ CallFlush(t) \/ CallExit(t)

Next == \E t \in Threads : Begin(t) \/ Proceed(t)

\* A thread inside an operation runs on; none has to begin one.
Fairness == \A t \in Threads : WF_vars(Proceed(t))

SafeSpec == Init /\ [][Next]_vars
Spec == SafeSpec /\ Fairness

(***************************************************************************)
(* Safety.                                                                 *)
(***************************************************************************)
Records == {journal[i].record : i \in 1..Len(journal)}
Printed == {r.entry.span : r \in Records} \ {None}
Carried(t) == {queue[t][i].entry.span : i \in 1..Len(queue[t])} \ {None}

\* What SpanLedger calls begun, open, in hand, being logged and written.
Begun == {s \in Admitted : phase[s] \in {"live", "closing", "gone"}}
OpenSpans == {open[i].span : i \in 1..Len(open)}
Taken == [t \in Threads |-> IF pc[t] = "push" THEN {} ELSE Carried(t)]
Logging == {t \in Threads :
              \/ pc[t] = "lookup" /\ subject[t] = None
              \/ \E i \in 1..Len(queue[t]) : queue[t][i].entry.kind = "event"}
Stream == [i \in 1..Len(journal) |-> journal[i].record.entry.span]

Ledger == INSTANCE SpanLedger
            WITH Spans <- Admitted, begun <- Begun, open <- OpenSpans,
                 hands <- Taken, logging <- Logging, stream <- Stream

\* No span and no event is lost or doubled between the layer, the threads and
\* the journal, whatever closes and flushes race: every step of the layer is
\* one of the ledger's or none, so an admitted span is open from the moment it
\* is live until one thread takes it, and that thread writes it once; an event
\* is written once; a filtered span leaves no trace.
ImplementsLedger == Ledger!Spec

\* A slot of the layer belongs to a span the registry still has: an entry
\* never outlives its span and so never answers for the slot's next owner.
OpenIsCurrent ==
  \A i \in 1..Len(open) :
    LET e == open[i] IN
      phase[e.span] = "live" /\ slot[e.span] = e.slot

\* What a record names as its parent is an ancestor of the span, and one the
\* layer recorded: never a filtered span, never the next owner of a slot.
ParentTruthful ==
  \A e \in {open[i] : i \in 1..Len(open)} \cup {r.entry : r \in Records} :
    e.parent # None =>
      /\ e.parent \in Admitted
      /\ e.kind = "span" =>
           \E i \in 1..Len(ancestors[e.span]) : ancestors[e.span][i] = e.parent

\* parent is the first admitted span of a scope, or None where there is none.
Nearest(line, parent) ==
  \/ parent = None /\ \A k \in 1..Len(line) : line[k] \notin Admitted
  \/ /\ parent \in Admitted
     /\ \E k \in 1..Len(line) :
          line[k] = parent /\ \A j \in 1..(k - 1) : line[j] \notin Admitted

\* on_new_span: "Parent is the nearest ancestor this layer actually recorded".
\* An admitted ancestor, which its children keep alive, was recorded, so until
\* a flush takes it away it is found, past any filtered ones and whatever other
\* threads open and close between two calls of id_of.
NearestUntilFlush ==
  flushes = 0 /\ exiting = {} =>
    \A i \in 1..Len(open) : Nearest(ancestors[open[i].span], open[i].parent)

\* close_open relies on the order of Inner::open: an entry stands after the
\* entry it names as its parent, so a flush writes children first.
OpenIsNested ==
  \A i, j \in 1..Len(open) : open[i].parent = open[j].span => j < i

\* seq is a total order without gaps: every number drawn is on one record,
\* written or about to be.
SeqAccounted ==
  LET written == {journal[i].seq : i \in 1..Len(journal)}
      held == {drawn[t] : t \in {u \in Threads : pc[u] = "write"}}
  IN /\ written \cup held = 0..(nextSeq - 1)
     /\ \A i, j \in 1..Len(journal) : journal[i].seq = journal[j].seq => i = j
     /\ \A t, u \in Threads : pc[t] = "write" /\ pc[u] = "write"
                              /\ drawn[t] = drawn[u] => t = u
     /\ written \cap held = {}

\* A span's record has the fields recorded on the span while it was open, all
\* of them and no others: only a flush, which writes the record before the span
\* ends, can leave later ones out.
FieldsKept ==
  /\ \A i \in 1..Len(open) : open[i].fields = late[open[i].span]
  /\ \A r \in Records \cup UNION {{queue[t][i] : i \in 1..Len(queue[t])} :
                                   t \in Threads} :
       /\ r.status = "close" => r.entry.fields = late[r.entry.span]
       /\ r.status = "exit" => r.entry.fields <= late[r.entry.span]

\* exit rescues what was open when it was called: when the process ends,
\* such a span is in the journal unless another thread had taken it out of
\* the layer and was stopped on the way to the sink.  Flushing earlier, or
\* from several threads, never disarms it.
ExitRescues ==
  exited # None =>
    owed[exited] \subseteq
      Printed \cup UNION {Carried(u) : u \in Threads \ {exited}}

(***************************************************************************)
(* Liveness.                                                               *)
(***************************************************************************)

\* exit ends the process, even with hooks that register hooks and other
\* threads flushing at the same time.
ExitEnds == \A t \in Threads : (t \in exiting) ~> (exited # None)

(***************************************************************************)
(* What the documentation says and the code does not do.                   *)
(***************************************************************************)

\* "The tracing layer registers one, so its open spans are closed and marked
\* status=exit" (doc of exit).
ExitClosesOpenSpans == exited # None => owed[exited] \subseteq Printed
=============================================================================
