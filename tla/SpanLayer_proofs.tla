--------------------------- MODULE SpanLayer_proofs ---------------------------
(***************************************************************************)
(* Proofs about the tracing layer of span-lines.                           *)
(***************************************************************************)
EXTENDS SpanLayer, WellFoundedInduction, TLAPS

(***************************************************************************)
(* Sequences.                                                              *)
(***************************************************************************)

LEMMA Concatenated ==
  ASSUME NEW S, NEW a \in Seq(S), NEW b \in Seq(S)
  PROVE  /\ a \o b \in Seq(S) /\ Len(a \o b) = Len(a) + Len(b)
         /\ \A j \in 1..Len(a) + Len(b) :
              (a \o b)[j] = IF j <= Len(a) THEN a[j] ELSE b[j - Len(a)]
OBVIOUS

LEMMA Started ==
  ASSUME NEW S, NEW s \in Seq(S), NEW i \in 1..Len(s)
  PROVE  /\ SubSeq(s, 1, i - 1) \in Seq(S) /\ Len(SubSeq(s, 1, i - 1)) = i - 1
         /\ \A j \in 1..i - 1 : SubSeq(s, 1, i - 1)[j] = s[j]
OBVIOUS

\* What remove leaves: the entries before i, then those after it.
LEMMA Removed ==
  ASSUME NEW S, NEW s \in Seq(S), NEW i \in 1..Len(s)
  PROVE  /\ RemoveAt(s, i) \in Seq(S)
         /\ Len(RemoveAt(s, i)) = Len(s) - 1
         /\ \A j \in 1..Len(s) - 1 :
              RemoveAt(s, i)[j] = IF j < i THEN s[j] ELSE s[j + 1]
<1>1. /\ SubSeq(s, 1, i - 1) \in Seq(S) /\ Len(SubSeq(s, 1, i - 1)) = i - 1
      /\ \A j \in 1..i - 1 : SubSeq(s, 1, i - 1)[j] = s[j]
  BY Started
<1>2. /\ SubSeq(s, i + 1, Len(s)) \in Seq(S)
      /\ Len(SubSeq(s, i + 1, Len(s))) = Len(s) - i
      /\ \A j \in 1..Len(s) - i : SubSeq(s, i + 1, Len(s))[j] = s[i + j]
  OBVIOUS
<1> DEFINE before == SubSeq(s, 1, i - 1)
           after == SubSeq(s, i + 1, Len(s))
<1>3. RemoveAt(s, i) = before \o after
  BY DEF RemoveAt
<1>4. /\ before \in Seq(S) /\ Len(before) = i - 1
      /\ \A j \in 1..i - 1 : before[j] = s[j]
  BY <1>1
<1>5. /\ after \in Seq(S) /\ Len(after) = Len(s) - i
      /\ \A j \in 1..Len(s) - i : after[j] = s[i + j]
  BY <1>2
<1> HIDE DEF before, after
<1>6. /\ before \o after \in Seq(S)
      /\ Len(before \o after) = Len(s) - 1
      /\ \A j \in 1..Len(s) - 1 :
           (before \o after)[j] = IF j <= i - 1 THEN before[j]
                                  ELSE after[j - (i - 1)]
  BY <1>4, <1>5, Concatenated
<1>7. ASSUME NEW j \in 1..Len(s) - 1
      PROVE  (before \o after)[j] = IF j < i THEN s[j] ELSE s[j + 1]
  <2>1. CASE j < i
    BY <1>4, <1>6, <2>1
  <2>2. CASE ~(j < i)
    <3>1. j - (i - 1) \in 1..Len(s) - i /\ i + (j - (i - 1)) = j + 1
      BY <2>2
    <3> QED BY <1>5, <1>6, <2>2, <3>1
  <2> QED BY <2>1, <2>2
<1> QED BY <1>3, <1>6, <1>7

LEMMA Reversed ==
  ASSUME NEW S, NEW s \in Seq(S)
  PROVE  /\ Reverse(s) \in Seq(S) /\ Len(Reverse(s)) = Len(s)
         /\ \A j \in 1..Len(s) : Reverse(s)[j] = s[Len(s) - j + 1]
BY DEF Reverse

LEMMA Fronted ==
  ASSUME NEW S, NEW s \in Seq(S), s # <<>>
  PROVE  /\ Front(s) \in Seq(S) /\ Len(Front(s)) = Len(s) - 1
         /\ \A j \in 1..Len(s) - 1 : Front(s)[j] = s[j]
         /\ Last(s) = s[Len(s)] /\ Last(s) \in S
<1>1. Len(s) \in Nat /\ Len(s) > 0 /\ s[Len(s)] \in S
  OBVIOUS
<1>2. Len(s) \in 1..Len(s)
  BY <1>1
<1>3. /\ SubSeq(s, 1, Len(s) - 1) \in Seq(S)
      /\ Len(SubSeq(s, 1, Len(s) - 1)) = Len(s) - 1
      /\ \A j \in 1..Len(s) - 1 : SubSeq(s, 1, Len(s) - 1)[j] = s[j]
  BY <1>2, Started
<1> QED BY <1>1, <1>3 DEF Front, Last

(***************************************************************************)
(* Types.                                                                  *)
(***************************************************************************)
LEMMA EntryTyped ==
  ASSUME TypeOK, NEW parent \in Parent
  PROVE  /\ \A s \in Admitted : Entry(s, parent) \in EntryType
         /\ EventRecord(parent) \in EventType
BY DEF TypeOK, RegistryOK, Entry, EntryType, EventRecord, EventType, Admitted

LEMMA ClosedTyped ==
  /\ \A e \in EntryType : \A status \in {"open", "close", "exit"} :
       Closed(status, e) \in RecordType
  /\ \A e \in EventType : Closed("event", e) \in RecordType
BY DEF Closed, RecordType

\* find and position give an index of the entry's.
LEMMA FirstIndexFound ==
  ASSUME NEW s, Index(s) # {}
  PROVE  FirstIndex(s) \in Index(s)
<1>1. Index(s) \in SUBSET Nat
  BY DEF Index
<1> DEFINE R == OpToRel(<, Nat)
<1>2. \A i, j \in Nat : j < i => <<j, i>> \in R
  BY DEF OpToRel
<1>3. IsWellFoundedOn(R, Nat)
  BY NatLessThanWellFounded
<1> HIDE DEF R
<1>4. PICK i \in Index(s) : \A j \in Index(s) : ~(<<j, i>> \in R)
  BY <1>1, <1>3, WFMin
<1>5. \A j \in Index(s) : i <= j
  <2> SUFFICES ASSUME NEW j \in Index(s) PROVE i <= j
    OBVIOUS
  <2>1. i \in Nat /\ j \in Nat /\ ~(j < i)
    BY <1>1, <1>2, <1>4
  <2> QED BY <2>1
<1> QED BY <1>5 DEF FirstIndex

LEMMA IdOfTyped ==
  ASSUME TypeOK, NEW s
  PROVE  IdOf(s) \in Parent
<1>1. CASE Index(s) = {}
  BY <1>1 DEF IdOf, Parent
<1>2. CASE Index(s) # {}
  <2>1. FirstIndex(s) \in 1..Len(open)
    BY <1>2, FirstIndexFound DEF Index
  <2>2. open[FirstIndex(s)] \in EntryType
    BY <2>1 DEF TypeOK, LayerOK
  <2> QED BY <1>2, <2>2 DEF IdOf, EntryType, Parent
<1> QED BY <1>1, <1>2


\* What writing the head of a queue leaves.
LEMMA Tailed ==
  ASSUME NEW S, NEW s \in Seq(S), s # <<>>
  PROVE  /\ Head(s) \in S /\ Tail(s) \in Seq(S)
         /\ \/ Len(s) > 1 /\ Tail(s) # <<>>
            \/ Len(s) = 1 /\ Tail(s) = <<>>
<1>1. Head(s) \in S /\ Tail(s) \in Seq(S) /\ Len(Tail(s)) = Len(s) - 1
  OBVIOUS
<1>2. \A q \in Seq(S) : Len(q) \in Nat /\ (q = <<>> <=> Len(q) = 0)
  OBVIOUS
<1> DEFINE n == Len(s)
           m == Len(Tail(s))
<1>3. n \in Nat /\ n # 0 /\ m = n - 1 /\ (Tail(s) = <<>> <=> m = 0)
  BY <1>1, <1>2
<1> HIDE DEF n, m
<1>4. (n > 1 /\ Tail(s) # <<>>) \/ (n = 1 /\ Tail(s) = <<>>)
  BY <1>3
<1> QED BY <1>1, <1>4 DEF n

\* What a thread has in its hands, by where it is.
Standing(t) ==
  /\ hooksLock = t => pc[t] = "clone"
  /\ pc[t] \in {"idle", "lookup", "clone", "flush"} => queue[t] = <<>>
  /\ pc[t] \in {"idle", "clone", "flush"} => subject[t] = None
  /\ pc[t] \in {"lookup", "push"} => subject[t] \in Parent
  /\ pc[t] # "lookup" => scope[t] = <<>>
  /\ pc[t] \in {"draw", "write"} => queue[t] # <<>>
  /\ pc[t] = "push" =>
       /\ subject[t] # None
       /\ Len(queue[t]) = 1
       /\ queue[t][1].status = "open"
       /\ queue[t][1].entry.kind = "span"
       /\ queue[t][1].entry.span = subject[t]

Control == \A t \in Threads : Standing(t)

\* The scope of a new span, and of an event.
LEMMA LineTyped ==
  ASSUME TypeOK
  PROVE  \A line \in {<<>>} \cup {<<p>> \o ancestors[p] :
                                p \in {q \in Spans : phase[q] = "live"}} :
           line \in Seq(Spans)
<1>1. \A p \in Spans : <<p>> \in Seq(Spans) /\ ancestors[p] \in Seq(Spans)
  BY DEF TypeOK, RegistryOK
<1>2. \A p \in Spans : <<p>> \o ancestors[p] \in Seq(Spans)
  BY <1>1, Concatenated
<1> TAKE line \in {<<>>} \cup {<<p>> \o ancestors[p] :
                             p \in {q \in Spans : phase[q] = "live"}}
<1>3. CASE line = <<>>
  BY <1>3
<1>4. CASE line # <<>>
  <2>1. PICK p \in Spans : line = <<p>> \o ancestors[p]
    BY <1>4
  <2> QED BY <1>2, <2>1
<1> QED BY <1>3, <1>4

LEMMA InitTyped == Init => TypeOK /\ Control
<1> SUFFICES ASSUME Init PROVE TypeOK /\ Control
  OBVIOUS
<1>1. RegistryOK
  BY DEF Init, RegistryOK, Phases
<1>2. LayerOK
  BY DEF Init, LayerOK
<1>3. ExitOK
  BY SpanAssumption DEF Init, ExitOK, Hook
<1>4. ThreadsOK
  BY DEF Init, ThreadsOK, Labels
<1>5. Control
  BY SpanAssumption DEF Init, Control, Standing, Parent
<1> QED BY <1>1, <1>2, <1>3, <1>4, <1>5 DEF TypeOK

\* A step that leaves the other threads where they are.
LEMMA OthersStand ==
  ASSUME Control, NEW t \in Threads, Standing(t)',
         \A u \in Threads : u # t =>
           /\ pc'[u] = pc[u] /\ queue'[u] = queue[u]
           /\ subject'[u] = subject[u] /\ scope'[u] = scope[u],
         hooksLock' \in {hooksLock, t, None}
  PROVE  Control'
<1> SUFFICES ASSUME NEW u \in Threads, u # t PROVE Standing(u)'
  BY DEF Control
<1>1. Standing(u)
  BY DEF Control
<1>2. hooksLock' = u => hooksLock = u
  BY SpanAssumption
<1> QED BY <1>1, <1>2 DEF Standing

LEMMA NewSpanTyped ==
  ASSUME TypeOK, Control, NEW t \in Threads, NEW s \in Spans, NewSpan(t, s)
  PROVE  TypeOK' /\ Control'
<1>1. PICK line \in {<<>>} \cup {<<p>> \o ancestors[p] :
                            p \in {q \in Spans : phase[q] = "live"}} :
        /\ ancestors' = [ancestors EXCEPT ![s] = line]
        /\ scope' = [scope EXCEPT ![t] = IF s \in Admitted
                                         THEN FromInner(line) ELSE <<>>]
  BY DEF NewSpan
<1>2. line \in Seq(Spans)
  BY <1>1, LineTyped
<1>3. IF s \in Admitted
      THEN /\ phase' = [phase EXCEPT ![s] = "creating"]
           /\ subject' = [subject EXCEPT ![t] = s]
           /\ pc' = [pc EXCEPT ![t] = "lookup"]
      ELSE phase' = [phase EXCEPT ![s] = "live"] /\ UNCHANGED <<subject, pc>>
  BY DEF NewSpan, Goto
<1>4. PICK i \in Slots : slot' = [slot EXCEPT ![s] = i]
  BY DEF NewSpan
<1>5. UNCHANGED <<layerVars, exitVars, queue, drawn, back, running>>
      /\ pc[t] = "idle"
  BY DEF NewSpan, Running
<1>6. (IF s \in Admitted THEN FromInner(line) ELSE <<>>) \in Seq(Spans)
  BY <1>2 DEF FromInner
<1>7. RegistryOK'
  <2>1. ancestors' \in [Spans -> Seq(Spans)]
    BY <1>1, <1>2 DEF TypeOK, RegistryOK
  <2> QED BY <2>1, <1>3, <1>4 DEF TypeOK, RegistryOK, Phases
<1>8. ThreadsOK'
  <2>1. scope' \in [Threads -> Seq(Spans)]
    BY <1>1, <1>6 DEF TypeOK, ThreadsOK
  <2>2. subject' \in [Threads -> Spans \cup {None}] /\ pc' \in [Threads -> Labels]
    BY <1>3 DEF TypeOK, ThreadsOK, Labels
  <2> QED BY <2>1, <2>2, <1>5 DEF TypeOK, ThreadsOK
<1>9. TypeOK'
  BY <1>5, <1>7, <1>8 DEF TypeOK, LayerOK, ExitOK, layerVars, exitVars
<1>10. Standing(t)'
  <2>1. CASE s \in Admitted
    BY <1>3, <1>5, <2>1 DEF Standing, Control, TypeOK, ThreadsOK, exitVars, Parent
  <2>2. CASE s \notin Admitted
    BY <1>1, <1>3, <1>5, <2>2
    DEF Standing, Control, TypeOK, ThreadsOK, exitVars
  <2> QED BY <2>1, <2>2
<1>11. Control'
  <2>1. hooksLock' = hooksLock
    BY <1>5 DEF exitVars
  <2>2. \A u \in Threads : u # t =>
           /\ pc'[u] = pc[u] /\ queue'[u] = queue[u]
           /\ subject'[u] = subject[u] /\ scope'[u] = scope[u]
    BY <1>1, <1>3, <1>5 DEF TypeOK, ThreadsOK
  <2> QED BY <1>10, <2>1, <2>2, OthersStand
<1> QED BY <1>9, <1>11


LEMMA LookupTyped ==
  ASSUME TypeOK, Control, NEW t \in Threads, Lookup(t)
  PROVE  TypeOK' /\ Control'
<1>1. UNCHANGED <<registryVars, layerVars, exitVars, subject, drawn, back, running>>
      /\ pc[t] = "lookup"
  BY DEF Lookup
<1>2. RegistryOK' /\ LayerOK' /\ ExitOK'
  BY <1>1 DEF TypeOK, RegistryOK, LayerOK, ExitOK, registryVars, layerVars,
              exitVars
<1>3. ASSUME NEW parent \in Parent, Conclude(t, parent), scope' = [scope EXCEPT ![t] = <<>>]
      PROVE  ThreadsOK' /\ Control'
  <2>1. /\ Closed("open", Entry(subject[t], parent)) \in RecordType
           \/ subject[t] = None
        /\ Closed("event", EventRecord(parent)) \in RecordType
    BY <1>1, EntryTyped, ClosedTyped DEF Control, Standing, Parent
  <2>2. PICK r \in RecordType, label \in {"push", "draw"} :
          /\ queue' = [queue EXCEPT ![t] = <<r>>]
          /\ pc' = [pc EXCEPT ![t] = label]
          /\ label = "push" => /\ subject[t] # None /\ r.status = "open"
                               /\ r.entry.kind = "span"
                               /\ r.entry.span = subject[t]
    <3>1. CASE subject[t] # None
      <4>1. Closed("open", Entry(subject[t], parent)).status = "open"
            /\ Closed("open", Entry(subject[t], parent)).entry.kind = "span"
            /\ Closed("open", Entry(subject[t], parent)).entry.span = subject[t]
        BY DEF Closed, Entry
      <4> QED BY <1>3, <2>1, <3>1, <4>1 DEF Conclude, Goto
    <3>2. CASE subject[t] = None
      BY <1>3, <2>1, <3>2 DEF Conclude, Goto
    <3> QED BY <3>1, <3>2
  <2>3. ThreadsOK'
    BY <1>1, <1>3, <2>2 DEF TypeOK, ThreadsOK, Labels
  <2>4. Standing(t)'
    BY <1>1, <1>3, <2>2 DEF TypeOK, ThreadsOK, Standing, Control, exitVars
  <2>5. hooksLock' = hooksLock
    BY <1>1 DEF exitVars
  <2>6. \A u \in Threads : u # t =>
           /\ pc'[u] = pc[u] /\ queue'[u] = queue[u]
           /\ subject'[u] = subject[u] /\ scope'[u] = scope[u]
    BY <1>1, <1>3, <2>2 DEF TypeOK, ThreadsOK
  <2> QED BY <2>3, <2>4, <2>5, <2>6, OthersStand
<1>4. CASE /\ scope[t] # <<>> /\ UNCHANGED <<queue, pc>>
           /\ scope' = [scope EXCEPT ![t] = Tail(@)]
  <2>1. scope' \in [Threads -> Seq(Spans)]
    BY <1>4 DEF TypeOK, ThreadsOK
  <2>2. ThreadsOK'
    BY <1>1, <1>4, <2>1 DEF TypeOK, ThreadsOK
  <2>3. Standing(t)'
    BY <1>1, <1>4 DEF Standing, Control, exitVars
  <2>4. hooksLock' = hooksLock
    BY <1>1 DEF exitVars
  <2>5. \A u \in Threads : u # t =>
           /\ pc'[u] = pc[u] /\ queue'[u] = queue[u]
           /\ subject'[u] = subject[u] /\ scope'[u] = scope[u]
    BY <1>1, <1>4 DEF TypeOK, ThreadsOK
  <2> QED BY <1>2, <2>2, <2>3, <2>4, <2>5, OthersStand DEF TypeOK
<1>5. CASE scope[t] = <<>> /\ Conclude(t, None) /\ UNCHANGED scope
  <2>1. scope' = [scope EXCEPT ![t] = <<>>]
    BY <1>5 DEF TypeOK, ThreadsOK
  <2>2. None \in Parent
    BY DEF Parent
  <2> QED BY <1>2, <1>3, <1>5, <2>1, <2>2 DEF TypeOK
<1>6. CASE /\ Conclude(t, IdOf(Head(scope[t])))
           /\ scope' = [scope EXCEPT ![t] = <<>>]
  BY <1>2, <1>3, <1>6, IdOfTyped DEF TypeOK
<1> QED BY <1>4, <1>5, <1>6 DEF Lookup


LEMMA PushTyped ==
  ASSUME TypeOK, Control, NEW t \in Threads, Push(t)
  PROVE  TypeOK' /\ Control'
<1>1. Head(queue[t]).entry \in EntryType
  <2>1. Head(queue[t]) \in RecordType /\ Head(queue[t]).entry.kind = "span"
    BY DEF Push, Control, Standing, TypeOK, ThreadsOK
  <2> QED BY <2>1 DEF RecordType, EventType
<1>2. LayerOK'
  BY <1>1 DEF Push, TypeOK, LayerOK
<1>3. subject[t] \in Spans
  BY DEF Push, Control, Standing, TypeOK, ThreadsOK
<1>4. RegistryOK'
  BY <1>3 DEF Push, TypeOK, RegistryOK, Phases
<1>5. ExitOK'
  BY DEF Push, TypeOK, ExitOK, exitVars
<1>6. ThreadsOK'
  BY DEF Push, Goto, TypeOK, ThreadsOK, Labels
<1>7. Standing(t)'
  BY DEF Push, Goto, TypeOK, ThreadsOK, Control, Standing, exitVars
<1>8. hooksLock' = hooksLock
  BY DEF Push, exitVars
<1>9. \A u \in Threads : u # t =>
        /\ pc'[u] = pc[u] /\ queue'[u] = queue[u]
        /\ subject'[u] = subject[u] /\ scope'[u] = scope[u]
  BY DEF Push, Goto, TypeOK, ThreadsOK
<1> QED BY <1>2, <1>4, <1>5, <1>6, <1>7, <1>8, <1>9, OthersStand DEF TypeOK


LEMMA RecordFieldTyped ==
  ASSUME TypeOK, Control, NEW t \in Threads, NEW s \in Spans, RecordField(t, s)
  PROVE  TypeOK' /\ Control'
<1>1. open' \in Seq(EntryType)
  <2>1. CASE s \in Admitted /\ Index(s) # {}
    <3>1. FirstIndex(s) \in 1..Len(open)
      BY <2>1, FirstIndexFound DEF Index
    <3>2. open[FirstIndex(s)] \in EntryType
      BY <3>1 DEF TypeOK, LayerOK
    <3>3. [open[FirstIndex(s)] EXCEPT !.fields = @ + 1] \in EntryType
      BY <3>2 DEF EntryType
    <3> QED BY <2>1, <3>1, <3>3 DEF RecordField, OwnEntry, TypeOK, LayerOK
  <2> QED BY <2>1 DEF RecordField, TypeOK, LayerOK
<1>2. UNCHANGED <<registryVars, nextSeq, journal, events, exitVars, threadVars>>
      /\ late' = [late EXCEPT ![s] = @ + 1]
  BY DEF RecordField
<1>3. LayerOK'
  BY <1>1, <1>2 DEF TypeOK, LayerOK
<1>4. RegistryOK' /\ ExitOK' /\ ThreadsOK'
  BY <1>2 DEF TypeOK, RegistryOK, ExitOK, ThreadsOK, registryVars, exitVars,
              threadVars
<1>5. Control'
  BY <1>2 DEF Control, Standing, exitVars, threadVars
<1> QED BY <1>3, <1>4, <1>5 DEF TypeOK


LEMMA LogEventTyped ==
  ASSUME TypeOK, Control, NEW t \in Threads, LogEvent(t)
  PROVE  TypeOK' /\ Control'
<1>1. PICK line \in {<<>>} \cup {<<s>> \o ancestors[s] :
                            s \in {q \in Spans : phase[q] = "live"}} :
        scope' = [scope EXCEPT ![t] = FromInner(line)]
  BY DEF LogEvent
<1>2. line \in Seq(Spans)
  BY <1>1, LineTyped
<1>3. /\ UNCHANGED <<registryVars, open, nextSeq, journal, late, exitVars, subject,
                     queue, drawn, running>>
      /\ pc[t] = "idle" /\ pc' = [pc EXCEPT ![t] = "lookup"]
      /\ back' = [back EXCEPT ![t] = "idle"] /\ events' = events + 1
  BY DEF LogEvent, Running, Goto
<1>4. RegistryOK' /\ LayerOK' /\ ExitOK'
  BY <1>3 DEF TypeOK, RegistryOK, LayerOK, ExitOK, registryVars, exitVars
<1>5. scope' \in [Threads -> Seq(Spans)]
  BY <1>1, <1>2 DEF FromInner, TypeOK, ThreadsOK
<1>6. ThreadsOK'
  BY <1>3, <1>5 DEF TypeOK, ThreadsOK, Labels
<1>7. Standing(t)'
  BY <1>3 DEF TypeOK, ThreadsOK, Control, Standing, exitVars, Parent
<1>8. hooksLock' = hooksLock
  BY <1>3 DEF exitVars
<1>9. \A u \in Threads : u # t =>
        /\ pc'[u] = pc[u] /\ queue'[u] = queue[u]
        /\ subject'[u] = subject[u] /\ scope'[u] = scope[u]
  BY <1>1, <1>3 DEF TypeOK, ThreadsOK
<1> QED BY <1>4, <1>6, <1>7, <1>8, <1>9, OthersStand DEF TypeOK


LEMMA CloseUnrecordedTyped ==
  ASSUME TypeOK, Control, NEW t \in Threads, NEW s \in Spans, CloseUnrecorded(t, s)
  PROVE  TypeOK' /\ Control'
<1>1. UNCHANGED <<slot, ancestors, layerVars, exitVars, threadVars>>
      /\ phase' = [phase EXCEPT ![s] = "gone"]
  BY DEF CloseUnrecorded
<1>2. RegistryOK'
  BY <1>1 DEF TypeOK, RegistryOK, Phases
<1>3. LayerOK' /\ ExitOK' /\ ThreadsOK'
  BY <1>1 DEF TypeOK, LayerOK, ExitOK, ThreadsOK, layerVars, exitVars, threadVars
<1>4. Control'
  BY <1>1 DEF Control, Standing, exitVars, threadVars
<1> QED BY <1>2, <1>3, <1>4 DEF TypeOK


LEMMA CloseRecordedTyped ==
  ASSUME TypeOK, Control, NEW t \in Threads, NEW s \in Spans, CloseRecorded(t, s)
  PROVE  TypeOK' /\ Control'
<1> DEFINE i == FirstIndex(s)
<1>1. i \in 1..Len(open)
  BY FirstIndexFound DEF CloseRecorded, Index
<1>2. open[i] \in EntryType
  BY <1>1 DEF TypeOK, LayerOK
<1>3. Closed("close", open[i]) \in RecordType
  BY <1>2, ClosedTyped
<1>4. open' \in Seq(EntryType)
  BY <1>1, Removed DEF CloseRecorded, TakenOut, TypeOK, LayerOK
<1>5. /\ queue' = [queue EXCEPT ![t] = <<Closed("close", open[i])>>]
      /\ phase' = [phase EXCEPT ![s] = "closing"]
      /\ subject' = [subject EXCEPT ![t] = s]
      /\ back' = [back EXCEPT ![t] = "idle"]
      /\ pc[t] = "idle" /\ pc' = [pc EXCEPT ![t] = "draw"]
      /\ UNCHANGED <<slot, ancestors, nextSeq, journal, events, late, exitVars,
                     scope, drawn, running>>
  BY DEF CloseRecorded, Running, Goto
<1> HIDE DEF i
<1>7. RegistryOK' /\ LayerOK' /\ ExitOK'
  BY <1>4, <1>5 DEF TypeOK, RegistryOK, LayerOK, ExitOK, Phases, exitVars
<1>9. ThreadsOK'
  BY <1>3, <1>5 DEF TypeOK, ThreadsOK, Labels
<1>10. Standing(t)'
  BY <1>5 DEF TypeOK, ThreadsOK, Control, Standing, exitVars
<1>11. hooksLock' = hooksLock
  BY <1>5 DEF exitVars
<1>12. \A u \in Threads : u # t =>
        /\ pc'[u] = pc[u] /\ queue'[u] = queue[u]
        /\ subject'[u] = subject[u] /\ scope'[u] = scope[u]
  BY <1>5 DEF TypeOK, ThreadsOK
<1> QED BY <1>7, <1>9, <1>10, <1>11, <1>12, OthersStand DEF TypeOK


LEMMA DrawTyped ==
  ASSUME TypeOK, Control, NEW t \in Threads, Draw(t)
  PROVE  TypeOK' /\ Control'
<1>1. RegistryOK' /\ LayerOK' /\ ExitOK'
  BY DEF Draw, AfterFetchAdd, TypeOK, RegistryOK, LayerOK, ExitOK, registryVars,
         exitVars
<1>2. ThreadsOK'
  BY DEF Draw, Goto, TypeOK, LayerOK, ThreadsOK, Labels
<1>3. Standing(t)'
  BY DEF Draw, Goto, TypeOK, ThreadsOK, Control, Standing, exitVars
<1>4. hooksLock' = hooksLock
  BY DEF Draw, exitVars
<1>5. \A u \in Threads : u # t =>
        /\ pc'[u] = pc[u] /\ queue'[u] = queue[u]
        /\ subject'[u] = subject[u] /\ scope'[u] = scope[u]
  BY DEF Draw, Goto, TypeOK, ThreadsOK
<1> QED BY <1>1, <1>2, <1>3, <1>4, <1>5, OthersStand DEF TypeOK


LEMMA WriteTyped ==
  ASSUME TypeOK, Control, NEW t \in Threads, Write(t)
  PROVE  TypeOK' /\ Control'
<1>1. queue[t] # <<>> /\ queue[t] \in Seq(RecordType)
  BY DEF Write, Control, Standing, TypeOK, ThreadsOK
<1>2. /\ Head(queue[t]) \in RecordType
      /\ Tail(queue[t]) \in Seq(RecordType)
      /\ \/ Len(queue[t]) > 1 /\ Tail(queue[t]) # <<>>
         \/ Len(queue[t]) = 1 /\ Tail(queue[t]) = <<>>
  <2> DEFINE q == queue[t]
  <2>1. q \in Seq(RecordType) /\ q # <<>>
    BY <1>1
  <2> HIDE DEF q
  <2>2. /\ Head(q) \in RecordType /\ Tail(q) \in Seq(RecordType)
        /\ \/ Len(q) > 1 /\ Tail(q) # <<>>
           \/ Len(q) = 1 /\ Tail(q) = <<>>
    BY <2>1, Tailed, Zenon
  <2> QED BY <2>2 DEF q
<1>3. journal' \in Seq([record : RecordType, seq : Nat])
  BY <1>2 DEF Write, TypeOK, LayerOK, ThreadsOK
<1>4. /\ queue' = [queue EXCEPT ![t] = Tail(@)]
      /\ drawn' = [drawn EXCEPT ![t] = 0]
      /\ phase' = [s \in Spans |-> IF s = subject[t] THEN "gone" ELSE phase[s]]
      /\ subject' = [subject EXCEPT ![t] = None]
      /\ UNCHANGED <<slot, ancestors, open, nextSeq, events, late, exitVars, scope,
                     running>>
      /\ pc[t] = "write"
  BY DEF Write
<1>5. \/ /\ pc' = [pc EXCEPT ![t] = "draw"] /\ back' = back /\ Tail(queue[t]) # <<>>
      \/ /\ pc' = [pc EXCEPT ![t] = back[t]] /\ Tail(queue[t]) = <<>>
         /\ back' = [back EXCEPT ![t] = "idle"]
  <2>1. IF Len(queue[t]) > 1
        THEN pc' = [pc EXCEPT ![t] = "draw"] /\ back' = back
        ELSE pc' = [pc EXCEPT ![t] = back[t]]
             /\ back' = [back EXCEPT ![t] = "idle"]
    BY DEF Write, Goto
  <2>2. CASE Len(queue[t]) > 1 /\ Tail(queue[t]) # <<>>
    BY <2>1, <2>2
  <2>3. CASE Len(queue[t]) = 1 /\ Tail(queue[t]) = <<>>
    <3>1. ~(Len(queue[t]) > 1)
      BY <2>3
    <3> QED BY <2>1, <2>3, <3>1
  <2> QED BY <1>2, <2>2, <2>3
<1>6. RegistryOK' /\ LayerOK' /\ ExitOK'
  BY <1>3, <1>4 DEF TypeOK, RegistryOK, LayerOK, ExitOK, Phases, exitVars
<1>7. ThreadsOK'
  <2>1. /\ queue' \in [Threads -> Seq(RecordType)] /\ drawn' \in [Threads -> Nat]
        /\ subject' \in [Threads -> Spans \cup {None}]
    BY <1>2, <1>4 DEF TypeOK, ThreadsOK
  <2>2. pc' \in [Threads -> Labels] /\ back' \in [Threads -> {"idle", "flush"}]
    BY <1>5 DEF TypeOK, ThreadsOK, Labels
  <2> QED BY <1>4, <2>1, <2>2 DEF TypeOK, ThreadsOK
<1>8. Standing(t)'
  <2>1. /\ queue'[t] = Tail(queue[t]) /\ subject'[t] = None /\ scope'[t] = <<>>
        /\ hooksLock' # t
    BY <1>4 DEF TypeOK, ThreadsOK, Control, Standing, exitVars
  <2>2. \/ pc'[t] = "draw" /\ queue'[t] # <<>>
        \/ pc'[t] \in {"idle", "flush"} /\ queue'[t] = <<>>
    <3>1. CASE pc' = [pc EXCEPT ![t] = "draw"] /\ Tail(queue[t]) # <<>>
      <4>1. queue'[t] # <<>>
        BY <2>1, <3>1
      <4> QED BY <3>1, <4>1 DEF TypeOK, ThreadsOK
    <3>2. CASE pc' = [pc EXCEPT ![t] = back[t]] /\ Tail(queue[t]) = <<>>
      <4>1. queue'[t] = <<>>
        BY <2>1, <3>2
      <4> QED BY <3>2, <4>1 DEF TypeOK, ThreadsOK
    <3> QED BY <1>5, <3>1, <3>2
  <2> QED BY <2>1, <2>2 DEF Standing
<1>9. hooksLock' = hooksLock
  BY <1>4 DEF exitVars
<1>10. \A u \in Threads : u # t =>
        /\ pc'[u] = pc[u] /\ queue'[u] = queue[u]
        /\ subject'[u] = subject[u] /\ scope'[u] = scope[u]
  BY <1>4, <1>5 DEF TypeOK, ThreadsOK
<1> QED BY <1>6, <1>7, <1>8, <1>9, <1>10, OthersStand DEF TypeOK


LEMMA CallTyped ==
  ASSUME TypeOK, Control, NEW t \in Threads, CallFlush(t) \/ CallExit(t)
  PROVE  TypeOK' /\ Control'
<1>1. {open[i].span : i \in 1..Len(open)} \subseteq Admitted
  <2> SUFFICES ASSUME NEW i \in 1..Len(open) PROVE open[i].span \in Admitted
    OBVIOUS
  <2>1. open[i] \in EntryType
    BY DEF TypeOK, LayerOK
  <2> QED BY <2>1 DEF EntryType
<1>2. /\ UNCHANGED <<registryVars, layerVars, hooks, exited, subject, scope, queue,
                     drawn, back, running>>
      /\ pc[t] = "idle" /\ pc' = [pc EXCEPT ![t] = "clone"] /\ hooksLock' = t
  BY DEF CallFlush, CallExit, LockHooks, Running, Goto
<1>3. RegistryOK' /\ LayerOK'
  BY <1>2 DEF TypeOK, RegistryOK, LayerOK, registryVars, layerVars
<1>4. /\ exiting' \in SUBSET Threads /\ exiting \subseteq exiting'
      /\ flushes' \in 0..MaxFlushes
      /\ owed' \in [Threads -> SUBSET Admitted]
  <2>1. CASE CallFlush(t)
    BY <2>1, SpanAssumption DEF CallFlush, TypeOK, ExitOK
  <2>2. CASE CallExit(t)
    BY <1>1, <2>2 DEF CallExit, TypeOK, ExitOK
  <2> QED BY <2>1, <2>2
<1>5. ExitOK'
  BY <1>2, <1>4 DEF TypeOK, ExitOK
<1>6. ThreadsOK'
  BY <1>2 DEF TypeOK, ThreadsOK, Labels
<1>7. Standing(t)'
  BY <1>2 DEF TypeOK, ThreadsOK, Control, Standing
<1>8. \A u \in Threads : u # t =>
        /\ pc'[u] = pc[u] /\ queue'[u] = queue[u]
        /\ subject'[u] = subject[u] /\ scope'[u] = scope[u]
  BY <1>2 DEF TypeOK, ThreadsOK
<1> QED BY <1>2, <1>3, <1>5, <1>6, <1>7, <1>8, OthersStand DEF TypeOK


LEMMA CloneHooksTyped ==
  ASSUME TypeOK, Control, NEW t \in Threads, CloneHooks(t)
  PROVE  TypeOK' /\ Control'
<1>1. RegistryOK' /\ LayerOK'
  BY DEF CloneHooks, TypeOK, RegistryOK, LayerOK, registryVars, layerVars
<1>2. ExitOK'
  BY DEF CloneHooks, HooksKept, GuardDropped, TypeOK, ExitOK
<1>3. ThreadsOK'
  BY DEF CloneHooks, Goto, TypeOK, ExitOK, ThreadsOK, Labels
<1>4. Standing(t)' /\ hooksLock' = None
  BY SpanAssumption
  DEF CloneHooks, GuardDropped, Goto, TypeOK, ThreadsOK, Control, Standing
<1>5. \A u \in Threads : u # t =>
        /\ pc'[u] = pc[u] /\ queue'[u] = queue[u]
        /\ subject'[u] = subject[u] /\ scope'[u] = scope[u]
  BY DEF CloneHooks, Goto, TypeOK, ThreadsOK
<1> QED BY <1>1, <1>2, <1>3, <1>4, <1>5, OthersStand DEF TypeOK


LEMMA NextHookTyped ==
  ASSUME TypeOK, NEW t \in Threads, NEW hook, NextHook(t, hook)
  PROVE  running' \in [Threads -> Seq(Hook)] /\ pc[t] = "flush"
<1>1. running[t] \in Seq(Hook) /\ running[t] # <<>>
  BY DEF NextHook, TypeOK, ThreadsOK
<1>2. Front(running[t]) \in Seq(Hook)
  BY <1>1, Fronted
<1> QED BY <1>2 DEF NextHook, TypeOK, ThreadsOK

LEMMA CloseOpenTyped ==
  ASSUME TypeOK, Control, NEW t \in Threads, CloseOpen(t)
  PROVE  TypeOK' /\ Control'
<1> DEFINE taken == [i \in 1..Len(open) |-> Closed("exit", Reverse(open)[i])]
<1>1. taken \in Seq(RecordType) /\ Len(taken) = Len(open)
  <2>1. ASSUME NEW i \in 1..Len(open)
        PROVE  Closed("exit", Reverse(open)[i]) \in RecordType
    <3>1. Reverse(open)[i] \in EntryType
      BY Reversed DEF TypeOK, LayerOK
    <3> QED BY <3>1, ClosedTyped
  <2>2. Len(open) \in Nat
    BY DEF TypeOK, LayerOK
  <2> QED BY <2>1, <2>2
<1>2. /\ queue' = [queue EXCEPT ![t] = taken]
      /\ open' = <<>>
      /\ back' = [back EXCEPT ![t] = "flush"]
      /\ UNCHANGED <<registryVars, nextSeq, journal, events, late, exitVars,
                     subject, scope, drawn>>
      /\ IF open = <<>> THEN UNCHANGED pc ELSE pc' = [pc EXCEPT ![t] = "draw"]
  BY DEF CloseOpen, OpenTaken, Goto
<1> HIDE DEF taken
<1>3. running' \in [Threads -> Seq(Hook)] /\ pc[t] = "flush"
  BY NextHookTyped DEF CloseOpen
<1>4. open = <<>> => taken = <<>>
  BY <1>1
<1>5. open # <<>> => taken # <<>>
  BY <1>1 DEF TypeOK, LayerOK
<1>6. RegistryOK' /\ LayerOK' /\ ExitOK'
  BY <1>2 DEF TypeOK, RegistryOK, LayerOK, ExitOK, registryVars, exitVars
<1>7. ThreadsOK'
  <2>1. queue' \in [Threads -> Seq(RecordType)]
    BY <1>1, <1>2 DEF TypeOK, ThreadsOK
  <2>2. pc' \in [Threads -> Labels]
    BY <1>2 DEF TypeOK, ThreadsOK, Labels
  <2> QED BY <1>2, <1>3, <2>1, <2>2 DEF TypeOK, ThreadsOK
<1>8. Standing(t)'
  <2>1. /\ queue'[t] = taken /\ subject'[t] = None /\ scope'[t] = <<>>
        /\ hooksLock' # t
    BY <1>2, <1>3 DEF TypeOK, ThreadsOK, Control, Standing, exitVars
  <2>2. \/ pc'[t] = "flush" /\ taken = <<>>
        \/ pc'[t] = "draw" /\ taken # <<>>
    BY <1>2, <1>3, <1>4, <1>5 DEF TypeOK, ThreadsOK
  <2> QED BY <2>1, <2>2 DEF Standing
<1>9. hooksLock' = hooksLock
  BY <1>2 DEF exitVars
<1>10. \A u \in Threads : u # t =>
        /\ pc'[u] = pc[u] /\ queue'[u] = queue[u]
        /\ subject'[u] = subject[u] /\ scope'[u] = scope[u]
  BY <1>2 DEF TypeOK, ThreadsOK
<1> QED BY <1>6, <1>7, <1>8, <1>9, <1>10, OthersStand DEF TypeOK


LEMMA RunTyped ==
  ASSUME TypeOK, Control, NEW t \in Threads, RunRegistrar(t) \/ RunPlain(t)
  PROVE  TypeOK' /\ Control'
<1>1. running' \in [Threads -> Seq(Hook)] /\ pc[t] = "flush"
  BY NextHookTyped DEF RunRegistrar, RunPlain
<1>2. UNCHANGED <<registryVars, layerVars, hooksLock, flushes, exiting, owed,
                  exited, pc, subject, scope, queue, drawn, back>>
  BY DEF RunRegistrar, RunPlain, exitVars
<1>3. hooks' \in Seq(Hook)
  BY DEF RunRegistrar, RunPlain, Register, Hook, TypeOK, ExitOK, exitVars
<1>4. RegistryOK' /\ LayerOK' /\ ExitOK'
  BY <1>2, <1>3 DEF TypeOK, RegistryOK, LayerOK, ExitOK, registryVars, layerVars
<1>5. ThreadsOK'
  BY <1>1, <1>2 DEF TypeOK, ThreadsOK
<1>6. Control'
  BY <1>2 DEF Control, Standing
<1> QED BY <1>4, <1>5, <1>6 DEF TypeOK


LEMMA EndFlushTyped ==
  ASSUME TypeOK, Control, NEW t \in Threads, EndFlush(t)
  PROVE  TypeOK' /\ Control'
<1>1. RegistryOK' /\ LayerOK' /\ ExitOK' /\ ThreadsOK'
  BY DEF EndFlush, Goto, TypeOK, RegistryOK, LayerOK, ExitOK, ThreadsOK, Labels,
         registryVars, layerVars
<1>2. Standing(t)'
  BY DEF EndFlush, Goto, TypeOK, ThreadsOK, Control, Standing
<1>3. hooksLock' = hooksLock
  BY DEF EndFlush
<1>4. \A u \in Threads : u # t =>
        /\ pc'[u] = pc[u] /\ queue'[u] = queue[u]
        /\ subject'[u] = subject[u] /\ scope'[u] = scope[u]
  BY DEF EndFlush, Goto, TypeOK, ThreadsOK
<1> QED BY <1>1, <1>2, <1>3, <1>4, OthersStand DEF TypeOK


LEMMA TypeStep ==
  ASSUME TypeOK, Control, [Next]_vars
  PROVE  TypeOK' /\ Control'
<1>1. ASSUME NEW t \in Threads, Begin(t) PROVE TypeOK' /\ Control'
  BY <1>1, NewSpanTyped, RecordFieldTyped, CloseUnrecordedTyped,
     CloseRecordedTyped, LogEventTyped, CallTyped DEF Begin
<1>2. ASSUME NEW t \in Threads, Proceed(t) PROVE TypeOK' /\ Control'
  BY <1>2, LookupTyped, PushTyped, DrawTyped, WriteTyped, CloneHooksTyped,
     CloseOpenTyped, RunTyped, EndFlushTyped DEF Proceed
<1>3. CASE UNCHANGED vars
  BY <1>3 DEF vars, registryVars, layerVars, exitVars, threadVars, TypeOK,
              RegistryOK, LayerOK, ExitOK, ThreadsOK, Control, Standing
<1> QED BY <1>1, <1>2, <1>3 DEF Next

\* TypeOK and Control hold in every reachable state.
THEOREM LayerTyped == SafeSpec => [](TypeOK /\ Control)
BY InitTyped, TypeStep, PTL DEF SafeSpec

(***************************************************************************)
(* Sequence numbers.                                                       *)
(***************************************************************************)
Typed == TypeOK /\ Control

Written(n) == \E i \in 1..Len(journal) : journal[i].seq = n
HeldBy(t, n) == pc[t] = "write" /\ drawn[t] = n

\* SeqAccounted, number by number.
NumberedOnce ==
  /\ \A n \in Nat : n < nextSeq <=> Written(n) \/ \E t \in Threads : HeldBy(t, n)
  /\ \A i, j \in 1..Len(journal) : journal[i].seq = journal[j].seq => i = j
  /\ \A t, u \in Threads, n \in Nat : HeldBy(t, n) /\ HeldBy(u, n) => t = u
  /\ \A n \in Nat : ~(Written(n) /\ \E t \in Threads : HeldBy(t, n))

LEMMA NumberedOnceGives ==
  ASSUME Typed, NumberedOnce
  PROVE  SeqAccounted
<1> DEFINE written == {journal[i].seq : i \in 1..Len(journal)}
           held == {drawn[t] : t \in {u \in Threads : pc[u] = "write"}}
<1>1. \A i \in 1..Len(journal) : journal[i].seq \in Nat
  <2> TAKE i \in 1..Len(journal)
  <2> DEFINE Line == [record : RecordType, seq : Nat]
  <2>1. journal \in Seq(Line)
    BY DEF Typed, TypeOK, LayerOK
  <2>2. \A line \in Line : line.seq \in Nat
    OBVIOUS
  <2> HIDE DEF Line
  <2>3. journal[i] \in Line
    BY <2>1
  <2> QED BY <2>2, <2>3
<1>2. \A t \in Threads : drawn[t] \in Nat
  BY DEF Typed, TypeOK, ThreadsOK
<1>3. nextSeq \in Nat
  BY DEF Typed, TypeOK, LayerOK
<1>4. \A n : n \in written <=> n \in Nat /\ Written(n)
  BY <1>1 DEF Written
<1>5. \A n : n \in held <=> n \in Nat /\ \E t \in Threads : HeldBy(t, n)
  BY <1>2 DEF HeldBy
<1> HIDE DEF written, held
<1>6. \A n : n \in 0..(nextSeq - 1) <=> n \in Nat /\ n < nextSeq
  BY <1>3
<1>7. written \cup held = 0..(nextSeq - 1)
  BY <1>4, <1>5, <1>6 DEF NumberedOnce
<1>8. written \cap held = {}
  BY <1>4, <1>5 DEF NumberedOnce
<1>9. \A t, u \in Threads : pc[t] = "write" /\ pc[u] = "write"
                            /\ drawn[t] = drawn[u] => t = u
  BY <1>2 DEF NumberedOnce, HeldBy
<1> QED BY <1>7, <1>8, <1>9 DEF SeqAccounted, NumberedOnce, written, held

\* Only Draw and Write touch a number.
LEMMA NumbersKept ==
  ASSUME NumberedOnce, UNCHANGED <<journal, nextSeq>>,
         \A t \in Threads : \/ pc'[t] = pc[t] /\ drawn'[t] = drawn[t]
                            \/ pc[t] # "write" /\ pc'[t] # "write"
  PROVE  NumberedOnce'
<1>1. \A n : Written(n)' <=> Written(n)
  BY DEF Written
<1>2. \A t \in Threads, n \in Nat : HeldBy(t, n)' <=> HeldBy(t, n)
  BY DEF HeldBy
<1> QED BY <1>1, <1>2 DEF NumberedOnce

LEMMA DrawNumbers ==
  ASSUME Typed, NumberedOnce, NEW t \in Threads, Draw(t)
  PROVE  NumberedOnce'
<1>1. /\ drawn' = [drawn EXCEPT ![t] = nextSeq] /\ nextSeq' = nextSeq + 1
      /\ pc' = [pc EXCEPT ![t] = "write"] /\ pc[t] = "draw" /\ journal' = journal
  BY DEF Draw, AfterFetchAdd, Goto
<1>2. nextSeq \in Nat
  BY DEF Typed, TypeOK, LayerOK
<1>3. \A n : Written(n)' <=> Written(n)
  BY <1>1 DEF Written
<1>4. \A u \in Threads, n \in Nat :
        HeldBy(u, n)' <=> HeldBy(u, n) \/ (u = t /\ n = nextSeq)
  <2> TAKE u \in Threads, n \in Nat
  <2>1. CASE u = t
    BY <1>1, <2>1 DEF HeldBy, Typed, TypeOK, ThreadsOK
  <2>2. CASE u # t
    <3>1. pc'[u] = pc[u] /\ drawn'[u] = drawn[u]
      BY <1>1, <2>2 DEF Typed, TypeOK, ThreadsOK
    <3> QED BY <2>2, <3>1 DEF HeldBy
  <2> QED BY <2>1, <2>2
<1>5. \A n \in Nat : n < nextSeq' <=> n < nextSeq \/ n = nextSeq
  BY <1>1, <1>2
<1>6. ~Written(nextSeq) /\ \A u \in Threads : ~HeldBy(u, nextSeq)
  BY <1>2 DEF NumberedOnce
<1>7. \A i, j \in 1..Len(journal') : journal'[i].seq = journal'[j].seq => i = j
  BY <1>1 DEF NumberedOnce
<1>8. \A n \in Nat :
        n < nextSeq' <=> Written(n)' \/ \E u \in Threads : HeldBy(u, n)'
  <2> SUFFICES ASSUME NEW n \in Nat
               PROVE n < nextSeq' <=> Written(n)' \/ \E u \in Threads : HeldBy(u, n)'
    OBVIOUS
  <2>1. n < nextSeq <=> Written(n) \/ \E u \in Threads : HeldBy(u, n)
    BY DEF NumberedOnce
  <2>2. (\E u \in Threads : HeldBy(u, n)')
          <=> (\E u \in Threads : HeldBy(u, n)) \/ n = nextSeq
    BY <1>4
  <2>3. n < nextSeq' <=> n < nextSeq \/ n = nextSeq
    BY <1>5
  <2> QED BY <1>3, <2>1, <2>2, <2>3
<1>9. \A u, v \in Threads, n \in Nat : HeldBy(u, n)' /\ HeldBy(v, n)' => u = v
  BY <1>4, <1>6, <1>2 DEF NumberedOnce
<1>10. \A n \in Nat : ~(Written(n)' /\ \E u \in Threads : HeldBy(u, n)')
  BY <1>3, <1>4, <1>6, <1>2 DEF NumberedOnce
<1> QED BY <1>7, <1>8, <1>9, <1>10 DEF NumberedOnce

LEMMA WriteNumbers ==
  ASSUME Typed, NumberedOnce, NEW t \in Threads, Write(t)
  PROVE  NumberedOnce'
<1>1. /\ journal' = Append(journal, [record |-> Head(queue[t]), seq |-> drawn[t]])
      /\ drawn' = [drawn EXCEPT ![t] = 0] /\ nextSeq' = nextSeq
      /\ pc[t] = "write"
  BY DEF Write
<1>2. pc'[t] # "write" /\ \A u \in Threads : u # t => pc'[u] = pc[u]
  BY DEF Write, Goto, Typed, TypeOK, ThreadsOK
<1>3. drawn[t] \in Nat /\ Len(journal) \in Nat
  BY DEF Typed, TypeOK, ThreadsOK, LayerOK
<1>4. /\ Len(journal') = Len(journal) + 1
      /\ \A i \in 1..Len(journal) : journal'[i] = journal[i]
      /\ journal'[Len(journal) + 1].seq = drawn[t]
  BY <1>1 DEF Typed, TypeOK, LayerOK
<1>5. \A n \in Nat : Written(n)' <=> Written(n) \/ n = drawn[t]
  BY <1>3, <1>4 DEF Written
<1>6. HeldBy(t, drawn[t])
  BY <1>1 DEF HeldBy
<1>7. \A u \in Threads, n \in Nat : HeldBy(u, n)' <=> HeldBy(u, n) /\ u # t
  BY <1>1, <1>2 DEF HeldBy, Typed, TypeOK, ThreadsOK
<1>8. \A u \in Threads : HeldBy(u, drawn[t]) => u = t
  BY <1>3, <1>6 DEF NumberedOnce
<1>9. \A n \in Nat :
        n < nextSeq' <=> Written(n)' \/ \E u \in Threads : HeldBy(u, n)'
  <2> SUFFICES ASSUME NEW n \in Nat
               PROVE n < nextSeq' <=> Written(n)' \/ \E u \in Threads : HeldBy(u, n)'
    OBVIOUS
  <2>1. HeldBy(t, n) => n = drawn[t]
    BY DEF HeldBy
  <2>2. n < nextSeq <=> Written(n) \/ \E u \in Threads : HeldBy(u, n)
    BY DEF NumberedOnce
  <2>3. nextSeq' = nextSeq
    BY <1>1
  <2> QED BY <1>5, <1>6, <1>7, <2>1, <2>2, <2>3
<1>10. ~Written(drawn[t])
  BY <1>3, <1>6 DEF NumberedOnce
<1>11. \A i, j \in 1..Len(journal') : journal'[i].seq = journal'[j].seq => i = j
  BY <1>3, <1>4, <1>10 DEF NumberedOnce, Written
<1>12. \A u, v \in Threads, n \in Nat : HeldBy(u, n)' /\ HeldBy(v, n)' => u = v
  BY <1>7 DEF NumberedOnce
<1>13. \A n \in Nat : ~(Written(n)' /\ \E u \in Threads : HeldBy(u, n)')
  BY <1>5, <1>7, <1>8 DEF NumberedOnce
<1> QED BY <1>9, <1>11, <1>12, <1>13 DEF NumberedOnce

LEMMA NumberStep ==
  ASSUME Typed, NumberedOnce, [Next]_vars
  PROVE  NumberedOnce'
<1> DEFINE Kept == /\ UNCHANGED <<journal, nextSeq>>
                   /\ \A t \in Threads :
                        \/ pc'[t] = pc[t] /\ drawn'[t] = drawn[t]
                        \/ pc[t] # "write" /\ pc'[t] # "write"
<1> USE DEF Goto, Typed, TypeOK, ThreadsOK
<1>1. ASSUME NEW t \in Threads, NEW s \in Spans, NewSpan(t, s) PROVE Kept
  <2>1. UNCHANGED <<layerVars, drawn>> /\ pc[t] = "idle"
    BY <1>1 DEF NewSpan, Running
  <2>2. pc' = [pc EXCEPT ![t] = "lookup"] \/ pc' = pc
    BY <1>1 DEF NewSpan
  <2> QED BY <2>1, <2>2 DEF layerVars
<1>2. ASSUME NEW t \in Threads, Lookup(t) PROVE Kept
  BY <1>2 DEF Lookup, Conclude, layerVars
<1>3. ASSUME NEW t \in Threads, Push(t) PROVE Kept
  BY <1>3 DEF Push
<1>4. ASSUME NEW t \in Threads, NEW s \in Spans,
             RecordField(t, s) \/ CloseUnrecorded(t, s)
      PROVE  Kept
  BY <1>4 DEF RecordField, CloseUnrecorded, threadVars, layerVars
<1>5. ASSUME NEW t \in Threads, LogEvent(t) PROVE Kept
  <2>1. /\ UNCHANGED <<journal, nextSeq, drawn>> /\ pc[t] = "idle"
        /\ pc' = [pc EXCEPT ![t] = "lookup"]
    BY <1>5 DEF LogEvent, Running
  <2> QED BY <2>1
<1>6. ASSUME NEW t \in Threads, NEW s \in Spans, CloseRecorded(t, s) PROVE Kept
  BY <1>6 DEF CloseRecorded, Running
<1>7. ASSUME NEW t \in Threads, CallFlush(t) \/ CallExit(t) PROVE Kept
  BY <1>7 DEF CallFlush, CallExit, LockHooks, Running, layerVars
<1>8. ASSUME NEW t \in Threads, CloneHooks(t) \/ EndFlush(t) PROVE Kept
  BY <1>8 DEF CloneHooks, EndFlush, layerVars
<1>9. ASSUME NEW t \in Threads, CloseOpen(t) PROVE Kept
  BY <1>9 DEF CloseOpen, NextHook
<1>10. ASSUME NEW t \in Threads, RunRegistrar(t) \/ RunPlain(t) PROVE Kept
  BY <1>10 DEF RunRegistrar, RunPlain, layerVars
<1>11. ASSUME UNCHANGED vars PROVE NumberedOnce'
  <2>1. UNCHANGED <<journal, nextSeq, pc, drawn>>
    BY <1>11 DEF vars, layerVars, threadVars
  <2> QED BY <2>1, NumbersKept
<1>12. ASSUME NEW t \in Threads, Begin(t) PROVE NumberedOnce'
  BY <1>12, <1>1, <1>4, <1>5, <1>6, <1>7, NumbersKept DEF Begin
<1>13. ASSUME NEW t \in Threads, Proceed(t) PROVE NumberedOnce'
  BY <1>13, <1>2, <1>3, <1>8, <1>9, <1>10, DrawNumbers, WriteNumbers,
     NumbersKept DEF Proceed
<1> QED BY <1>11, <1>12, <1>13, NumbersKept DEF Next

\* Every sequence number drawn is on exactly one record, written or about to
\* be: SeqAccounted, whatever the threads, spans and hooks are.
THEOREM SeqTotal == SafeSpec => []SeqAccounted
<1>1. Init => NumberedOnce
  BY DEF Init, NumberedOnce, Written, HeldBy
<1>2. Typed /\ NumberedOnce /\ [Next]_vars => NumberedOnce'
  BY NumberStep
<1>3. Typed /\ NumberedOnce => SeqAccounted
  BY NumberedOnceGives
<1> QED BY <1>1, <1>2, <1>3, LayerTyped, PTL DEF SafeSpec, Typed

(***************************************************************************)
(* Slots.                                                                  *)
(***************************************************************************)
Exists(s) == phase[s] \in {"creating", "live", "closing"}

SlotsDistinct ==
  \A s1, s2 \in Spans : Exists(s1) /\ Exists(s2) /\ slot[s1] = slot[s2] => s1 = s2

OpenOnce == \A i, j \in 1..Len(open) : open[i].span = open[j].span => i = j

\* The span a thread is opening or closing is nobody else's.
SubjectOwned(t) ==
  subject[t] # None =>
    /\ pc[t] \in {"lookup", "push"} => phase[subject[t]] = "creating"
    /\ pc[t] \in {"draw", "write"} => phase[subject[t]] = "closing"
    /\ pc[t] = "push" => queue[t][1].entry.slot = slot[subject[t]]

SubjectsApart ==
  \A t, u \in Threads : subject[t] # None /\ subject[t] = subject[u] => t = u

Occupancy ==
  /\ SlotsDistinct
  /\ OpenOnce
  /\ OpenIsCurrent
  /\ \A t \in Threads : SubjectOwned(t)
  /\ SubjectsApart

LEMMA SpanOfOpen ==
  ASSUME Typed, NEW i \in 1..Len(open)
  PROVE  /\ open[i].span \in Spans /\ open[i].span # None
         /\ open[i].slot \in Slots /\ open[i].kind = "span"
         /\ open[i] \in EntryType /\ open[i].span \in Admitted
<1>1. open[i] \in EntryType
  BY DEF Typed, TypeOK, LayerOK
<1>2. open[i].span \in Admitted /\ open[i].slot \in Slots /\ open[i].kind = "span"
  BY <1>1 DEF EntryType
<1> QED BY <1>1, <1>2, SpanAssumption DEF Admitted

\* A thread with a span in its hands is opening or closing it.
LEMMA SubjectPhase ==
  ASSUME Typed, Occupancy, NEW t \in Threads, subject[t] # None
  PROVE  /\ subject[t] \in Spans
         /\ phase[subject[t]] \in {"creating", "closing"}
         /\ pc[t] \in {"lookup", "push", "draw", "write"}
<1>1. subject[t] \in Spans /\ pc[t] \in Labels
  BY DEF Typed, TypeOK, ThreadsOK
<1>2. pc[t] \in {"lookup", "push", "draw", "write"}
  BY <1>1 DEF Typed, Control, Standing, Labels
<1> QED BY <1>1, <1>2 DEF Occupancy, SubjectOwned

\* The entry in a live span's slot is the span's own.
LEMMA EntryIsOwn ==
  ASSUME Typed, Occupancy, NEW s \in Spans, phase[s] = "live",
         NEW i \in Index(s)
  PROVE  i \in 1..Len(open) /\ open[i].span = s
<1>1. i \in 1..Len(open) /\ open[i].slot = slot[s]
  BY DEF Index
<1>2. /\ open[i].span \in Spans /\ phase[open[i].span] = "live"
      /\ slot[open[i].span] = slot[s]
  BY <1>1, SpanOfOpen DEF Occupancy, OpenIsCurrent
<1> QED BY <1>1, <1>2 DEF Occupancy, SlotsDistinct, Exists

LEMMA OccupancyKept ==
  ASSUME Typed, Occupancy, UNCHANGED <<phase, slot, subject>>,
         \A i \in 1..Len(open') :
           /\ i \in 1..Len(open)
           /\ open'[i].span = open[i].span /\ open'[i].slot = open[i].slot,
         \A t \in Threads :
           \/ subject[t] = None
           \/ pc'[t] = pc[t] /\ queue'[t] = queue[t]
           \/ pc[t] \in {"draw", "write"} /\ pc'[t] \in {"draw", "write"}
           \/ /\ pc[t] = "lookup" /\ pc'[t] = "push"
              /\ queue'[t][1].entry.slot = slot[subject[t]]
  PROVE  Occupancy'
<1>1. SlotsDistinct' /\ SubjectsApart'
  BY DEF Occupancy, SlotsDistinct, Exists, SubjectsApart
<1>2. OpenOnce'
  BY DEF Occupancy, OpenOnce
<1>3. OpenIsCurrent'
  BY DEF Occupancy, OpenIsCurrent
<1>4. ASSUME NEW t \in Threads PROVE SubjectOwned(t)'
  BY DEF Occupancy, SubjectOwned
<1> QED BY <1>1, <1>2, <1>3, <1>4 DEF Occupancy

LEMMA NewSpanOccupies ==
  ASSUME Typed, Occupancy, NEW t \in Threads, NEW s \in Spans, NewSpan(t, s)
  PROVE  Occupancy'
<1>1. PICK i \in Slots : /\ \A other \in Existing : slot[other] # i
                         /\ slot' = [slot EXCEPT ![s] = i]
  BY DEF NewSpan
<1>2. \A o \in Spans : Exists(o) => slot[o] # i
  BY <1>1 DEF Existing, Exists
<1>3. /\ slot'[s] = i
      /\ \A o \in Spans : o # s => slot'[o] = slot[o]
  BY <1>1 DEF Typed, TypeOK, RegistryOK
<1>4. /\ \/ /\ phase' = [phase EXCEPT ![s] = "creating"]
            /\ subject' = [subject EXCEPT ![t] = s]
            /\ pc' = [pc EXCEPT ![t] = "lookup"]
         \/ phase' = [phase EXCEPT ![s] = "live"] /\ UNCHANGED <<subject, pc>>
      /\ phase[s] = "unborn" /\ pc[t] = "idle" /\ UNCHANGED <<open, queue>>
  BY DEF NewSpan, Running, Goto, layerVars
<1>5. /\ \A o \in Spans : o # s => phase'[o] = phase[o]
      /\ ~Exists(s)
  BY <1>4 DEF Exists, Typed, TypeOK, RegistryOK
<1>6. SlotsDistinct'
  <2> SUFFICES ASSUME NEW s1 \in Spans, NEW s2 \in Spans, Exists(s1)', Exists(s2)',
                      slot'[s1] = slot'[s2]
               PROVE  s1 = s2
    BY DEF SlotsDistinct
  <2>1. \A o \in Spans : o # s /\ Exists(o)' => Exists(o)
    BY <1>5 DEF Exists
  <2> QED BY <1>2, <1>3, <2>1 DEF Occupancy, SlotsDistinct
<1>7. OpenOnce'
  BY <1>4 DEF Occupancy, OpenOnce
<1>8. OpenIsCurrent'
  <2> SUFFICES ASSUME NEW j \in 1..Len(open)
               PROVE  /\ phase'[open[j].span] = "live"
                      /\ slot'[open[j].span] = open[j].slot
    BY <1>4 DEF OpenIsCurrent
  <2>1. /\ open[j].span \in Spans /\ phase[open[j].span] = "live"
        /\ slot[open[j].span] = open[j].slot
    BY SpanOfOpen DEF Occupancy, OpenIsCurrent
  <2> QED BY <1>3, <1>4, <1>5, <2>1
<1>9. \A u \in Threads : subject[u] # None => subject[u] \in Spans /\ subject[u] # s
  BY <1>4, SubjectPhase
<1>10. subject[t] = None
  BY <1>4 DEF Typed, Control, Standing
<1>11. \A u \in Threads : u # t => /\ subject'[u] = subject[u] /\ pc'[u] = pc[u]
                                   /\ queue'[u] = queue[u]
  BY <1>4 DEF Typed, TypeOK, ThreadsOK
<1>12. \/ subject'[t] = s /\ pc'[t] = "lookup" /\ phase'[s] = "creating"
       \/ subject'[t] = None
  BY <1>4, <1>10 DEF Typed, TypeOK, ThreadsOK, RegistryOK
<1>13. SubjectsApart'
  BY <1>9, <1>11, <1>12 DEF SubjectsApart, Occupancy
<1>14. ASSUME NEW u \in Threads PROVE SubjectOwned(u)'
  <2>1. CASE u = t
    BY <1>12, <2>1 DEF SubjectOwned
  <2>2. CASE u # t
    BY <1>3, <1>5, <1>9, <1>11, <2>2 DEF SubjectOwned, Occupancy
  <2> QED BY <2>1, <2>2
<1> QED BY <1>6, <1>7, <1>8, <1>13, <1>14 DEF Occupancy

\* A span whose phase moves on among the phases of a span that exists, or out
\* of them.
LEMMA PhaseMoves ==
  ASSUME Typed, Occupancy, NEW s \in Spans, Exists(s),
         slot' = slot, \A o \in Spans : o # s => phase'[o] = phase[o]
  PROVE  SlotsDistinct'
<1>1. \A o \in Spans : Exists(o)' => Exists(o)
  BY DEF Exists
<1> QED BY <1>1 DEF SlotsDistinct, Occupancy

LEMMA PushOccupies ==
  ASSUME Typed, Occupancy, NEW t \in Threads, Push(t)
  PROVE  Occupancy'
<1> DEFINE s == subject[t]
           e == Head(queue[t]).entry
           n == Len(open)
<1>1. /\ open' = Append(open, e) /\ phase' = [phase EXCEPT ![s] = "live"]
      /\ subject' = [subject EXCEPT ![t] = None] /\ slot' = slot
      /\ pc' = [pc EXCEPT ![t] = "idle"] /\ queue' = [queue EXCEPT ![t] = <<>>]
      /\ pc[t] = "push"
  BY DEF Push, Goto
<1>2. s # None /\ queue[t] \in Seq(RecordType) /\ Len(queue[t]) = 1
      /\ queue[t][1].entry.span = s /\ queue[t][1].entry.slot = slot[s]
  BY <1>1 DEF Typed, Control, Standing, TypeOK, ThreadsOK, Occupancy, SubjectOwned
<1>3. e.span = s /\ e.slot = slot[s]
  BY <1>2
<1>4. s \in Spans /\ phase[s] = "creating"
  BY <1>1, <1>2, SubjectPhase DEF Occupancy, SubjectOwned
<1> HIDE DEF s, e
<1>5. n \in Nat
  BY DEF Typed, TypeOK, LayerOK
<1>6. /\ Len(open') = n + 1 /\ open'[n + 1] = e
      /\ \A i \in 1..n : open'[i] = open[i]
  BY <1>1 DEF Typed, TypeOK, LayerOK
<1>7. phase'[s] = "live" /\ \A o \in Spans : o # s => phase'[o] = phase[o]
  BY <1>1, <1>4 DEF Typed, TypeOK, RegistryOK
<1>8. \A i \in 1..n : /\ open[i].span \in Spans /\ open[i].span # s
                      /\ phase[open[i].span] = "live"
                      /\ slot[open[i].span] = open[i].slot
  BY <1>4, SpanOfOpen DEF Occupancy, OpenIsCurrent
<1>9. 1..Len(open') = 1..n \cup {n + 1}
  BY <1>5, <1>6
<1> HIDE DEF n
<1>10. OpenIsCurrent'
  <2> SUFFICES ASSUME NEW i \in 1..Len(open')
               PROVE  /\ phase'[open'[i].span] = "live"
                      /\ slot'[open'[i].span] = open'[i].slot
    BY DEF OpenIsCurrent
  <2>1. CASE i = n + 1
    BY <1>1, <1>3, <1>6, <1>7, <2>1
  <2>2. CASE i \in 1..n
    BY <1>1, <1>6, <1>7, <1>8, <2>2
  <2> QED BY <1>9, <2>1, <2>2
<1>11. OpenOnce'
  BY <1>3, <1>6, <1>8, <1>9 DEF OpenOnce, Occupancy, n
<1>12. SlotsDistinct'
  BY <1>1, <1>4, <1>7, PhaseMoves DEF Exists
<1>13. \A u \in Threads : u # t => /\ subject'[u] = subject[u] /\ pc'[u] = pc[u]
                                   /\ queue'[u] = queue[u]
  BY <1>1 DEF Typed, TypeOK, ThreadsOK
<1>14. subject'[t] = None
  BY <1>1 DEF Typed, TypeOK, ThreadsOK
<1>15. SubjectsApart'
  BY <1>13, <1>14 DEF SubjectsApart, Occupancy
<1>16. \A u \in Threads : u # t /\ subject[u] # None =>
                            subject[u] \in Spans /\ subject[u] # s
  BY <1>2, SubjectPhase DEF SubjectsApart, Occupancy, s
<1>17. ASSUME NEW u \in Threads PROVE SubjectOwned(u)'
  BY <1>1, <1>7, <1>13, <1>14, <1>16 DEF SubjectOwned, Occupancy
<1> QED BY <1>10, <1>11, <1>12, <1>15, <1>17 DEF Occupancy

LEMMA CloseUnrecordedOccupies ==
  ASSUME Typed, Occupancy, NEW t \in Threads, NEW s \in Spans,
         CloseUnrecorded(t, s)
  PROVE  Occupancy'
<1>1. /\ phase' = [phase EXCEPT ![s] = "gone"] /\ phase[s] = "live"
      /\ Index(s) = {} /\ UNCHANGED <<slot, open, pc, subject, queue>>
  BY DEF CloseUnrecorded, Closable, layerVars, threadVars
<1>2. \A o \in Spans : o # s => phase'[o] = phase[o]
  BY <1>1 DEF Typed, TypeOK, RegistryOK
<1>3. \A i \in 1..Len(open) : open[i].span \in Spans /\ open[i].span # s
  BY <1>1, SpanOfOpen DEF Index, Occupancy, OpenIsCurrent
<1>4. OpenIsCurrent' /\ OpenOnce'
  BY <1>1, <1>2, <1>3 DEF Occupancy, OpenIsCurrent, OpenOnce
<1>5. SlotsDistinct'
  BY <1>1, <1>2, PhaseMoves DEF Exists
<1>6. \A u \in Threads : subject[u] # None => subject[u] \in Spans /\ subject[u] # s
  BY <1>1, SubjectPhase
<1>7. SubjectsApart' /\ \A u \in Threads : SubjectOwned(u)'
  BY <1>1, <1>2, <1>6 DEF SubjectsApart, SubjectOwned, Occupancy
<1> QED BY <1>4, <1>5, <1>7 DEF Occupancy

\* What remove leaves of the entries.
LEMMA OpenWithout ==
  ASSUME Typed, NEW i \in 1..Len(open), open' = TakenOut(i)
  PROVE  \A j \in 1..Len(open') :
           \E k \in 1..Len(open) : /\ k # i /\ open'[j] = open[k]
                                   /\ k = IF j < i THEN j ELSE j + 1
<1>1. open \in Seq(EntryType) /\ Len(open) \in Nat
  BY DEF Typed, TypeOK, LayerOK
<1>2. /\ Len(open') = Len(open) - 1
      /\ \A j \in 1..Len(open) - 1 :
           open'[j] = IF j < i THEN open[j] ELSE open[j + 1]
  BY <1>1, Removed DEF TakenOut
<1> TAKE j \in 1..Len(open')
<1>3. j \in 1..Len(open) - 1
  BY <1>2
<1>4. CASE j < i
  <2>1. j \in 1..Len(open) /\ j # i
    BY <1>1, <1>3, <1>4
  <2> QED BY <1>2, <1>3, <1>4, <2>1
<1>5. CASE ~(j < i)
  <2>1. j + 1 \in 1..Len(open) /\ j + 1 # i
    BY <1>1, <1>3, <1>5
  <2> QED BY <1>2, <1>3, <1>5, <2>1
<1> QED BY <1>4, <1>5

LEMMA CloseRecordedOccupies ==
  ASSUME Typed, Occupancy, NEW t \in Threads, NEW s \in Spans,
         CloseRecorded(t, s)
  PROVE  Occupancy'
<1> DEFINE i == FirstIndex(s)
<1>1. /\ open' = TakenOut(i) /\ phase' = [phase EXCEPT ![s] = "closing"]
      /\ subject' = [subject EXCEPT ![t] = s] /\ slot' = slot
      /\ pc' = [pc EXCEPT ![t] = "draw"] /\ phase[s] = "live" /\ pc[t] = "idle"
      /\ queue' = [queue EXCEPT ![t] = <<Closed("close", open[i])>>]
      /\ Index(s) # {}
  BY DEF CloseRecorded, Closable, Goto, Running
<1>2. i \in 1..Len(open) /\ open[i].span = s
  BY <1>1, FirstIndexFound, EntryIsOwn
<1> HIDE DEF i
<1>3. \A j \in 1..Len(open') :
        \E k \in 1..Len(open) : /\ k # i /\ open'[j] = open[k]
                                /\ k = IF j < i THEN j ELSE j + 1
  BY <1>1, <1>2, OpenWithout
<1>4. phase'[s] = "closing" /\ \A o \in Spans : o # s => phase'[o] = phase[o]
  BY <1>1 DEF Typed, TypeOK, RegistryOK
<1>5. \A k \in 1..Len(open) : k # i =>
        /\ open[k].span \in Spans /\ open[k].span # s
        /\ phase[open[k].span] = "live" /\ slot[open[k].span] = open[k].slot
  BY <1>2, SpanOfOpen DEF Occupancy, OpenOnce, OpenIsCurrent
<1>6. OpenIsCurrent'
  BY <1>1, <1>3, <1>4, <1>5 DEF OpenIsCurrent
<1>7. OpenOnce'
  <2> SUFFICES ASSUME NEW a \in 1..Len(open'), NEW b \in 1..Len(open'),
                      open'[a].span = open'[b].span
               PROVE  a = b
    BY DEF OpenOnce
  <2>1. PICK k \in 1..Len(open) : open'[a] = open[k]
                                  /\ k = IF a < i THEN a ELSE a + 1
    BY <1>3
  <2>2. PICK l \in 1..Len(open) : open'[b] = open[l]
                                  /\ l = IF b < i THEN b ELSE b + 1
    BY <1>3
  <2>3. k = l
    BY <2>1, <2>2 DEF Occupancy, OpenOnce
  <2>4. a \in Nat /\ b \in Nat /\ i \in Nat
    BY <1>2
  <2> QED BY <2>1, <2>2, <2>3, <2>4
<1>8. SlotsDistinct'
  BY <1>1, <1>4, PhaseMoves DEF Exists
<1>9. \A u \in Threads : u # t => /\ subject'[u] = subject[u] /\ pc'[u] = pc[u]
                                  /\ queue'[u] = queue[u]
  BY <1>1 DEF Typed, TypeOK, ThreadsOK
<1>10. subject'[t] = s /\ pc'[t] = "draw"
  BY <1>1 DEF Typed, TypeOK, ThreadsOK
<1>11. \A u \in Threads : subject[u] # None => subject[u] \in Spans /\ subject[u] # s
  BY <1>1, SubjectPhase
<1>12. SubjectsApart'
  BY <1>9, <1>10, <1>11 DEF SubjectsApart, Occupancy
<1>13. ASSUME NEW u \in Threads PROVE SubjectOwned(u)'
  <2>1. CASE u = t
    BY <1>4, <1>10, <2>1 DEF SubjectOwned
  <2>2. CASE u # t
    BY <1>1, <1>4, <1>9, <1>11, <2>2 DEF SubjectOwned, Occupancy
  <2> QED BY <2>1, <2>2
<1> QED BY <1>6, <1>7, <1>8, <1>12, <1>13 DEF Occupancy

LEMMA WriteOccupies ==
  ASSUME Typed, Occupancy, NEW t \in Threads, Write(t)
  PROVE  Occupancy'
<1>1. /\ phase' = [s \in Spans |-> IF s = subject[t] THEN "gone" ELSE phase[s]]
      /\ subject' = [subject EXCEPT ![t] = None] /\ UNCHANGED <<slot, open>>
      /\ queue' = [queue EXCEPT ![t] = Tail(@)] /\ pc[t] = "write"
  BY DEF Write
<1>2. \A u \in Threads : u # t => /\ subject'[u] = subject[u] /\ pc'[u] = pc[u]
                                  /\ queue'[u] = queue[u]
  BY <1>1 DEF Write, Goto, Typed, TypeOK, ThreadsOK
<1>3. subject'[t] = None
  BY <1>1 DEF Typed, TypeOK, ThreadsOK
<1>4. \A o \in Spans : o # subject[t] => phase'[o] = phase[o]
  BY <1>1
<1>5. \A i \in 1..Len(open) : open[i].span \in Spans /\ open[i].span # subject[t]
  BY SpanOfOpen, SubjectPhase DEF Occupancy, OpenIsCurrent
<1>6. OpenIsCurrent' /\ OpenOnce'
  BY <1>1, <1>4, <1>5 DEF Occupancy, OpenIsCurrent, OpenOnce
<1>7. SlotsDistinct'
  <2>1. \A o \in Spans : Exists(o)' => Exists(o)
    BY <1>1 DEF Exists
  <2> QED BY <1>1, <2>1 DEF SlotsDistinct, Occupancy
<1>8. SubjectsApart'
  BY <1>2, <1>3 DEF SubjectsApart, Occupancy
<1>9. ASSUME NEW u \in Threads PROVE SubjectOwned(u)'
  <2>1. CASE u # t /\ subject[u] # None
    <3>1. subject[u] \in Spans /\ subject[u] # subject[t]
      BY <2>1, SubjectPhase DEF SubjectsApart, Occupancy
    <3> QED BY <1>1, <1>2, <1>4, <2>1, <3>1 DEF SubjectOwned, Occupancy
  <2>2. CASE subject'[u] = None
    BY <2>2 DEF SubjectOwned
  <2> QED BY <1>2, <1>3, <2>1, <2>2
<1> QED BY <1>6, <1>7, <1>8, <1>9 DEF Occupancy

LEMMA OccupancyStep ==
  ASSUME Typed, Occupancy, [Next]_vars
  PROVE  Occupancy'
<1>1. ASSUME NEW t \in Threads, Lookup(t) PROVE Occupancy'
  <2>1. UNCHANGED <<phase, slot, subject, open>> /\ pc[t] = "lookup"
    BY <1>1 DEF Lookup, registryVars, layerVars
  <2>2. \A u \in Threads : u # t => pc'[u] = pc[u] /\ queue'[u] = queue[u]
    BY <1>1 DEF Lookup, Conclude, Goto, Typed, TypeOK, ThreadsOK
  <2>3. ASSUME NEW parent, Conclude(t, parent), subject[t] # None
        PROVE  pc'[t] = "push" /\ queue'[t][1].entry.slot = slot[subject[t]]
    <3>1. /\ queue' = [queue EXCEPT ![t] = <<Closed("open", Entry(subject[t], parent))>>]
          /\ pc' = [pc EXCEPT ![t] = "push"]
      BY <2>3 DEF Conclude, Goto
    <3>2. Closed("open", Entry(subject[t], parent)).entry.slot = slot[subject[t]]
      BY DEF Closed, Entry
    <3> QED BY <3>1, <3>2 DEF Typed, TypeOK, ThreadsOK
  <2>4. \/ subject[t] = None
        \/ pc'[t] = "push" /\ queue'[t][1].entry.slot = slot[subject[t]]
        \/ pc'[t] = pc[t] /\ queue'[t] = queue[t]
    BY <1>1, <2>3 DEF Lookup
  <2> QED BY <2>1, <2>2, <2>4, OccupancyKept
<1>2. ASSUME NEW t \in Threads, Draw(t) PROVE Occupancy'
  <2>1. /\ UNCHANGED <<phase, slot, subject, open, queue>> /\ pc[t] = "draw"
        /\ pc' = [pc EXCEPT ![t] = "write"]
    BY <1>2 DEF Draw, registryVars, Goto
  <2>2. pc'[t] = "write" /\ \A u \in Threads : u # t => pc'[u] = pc[u]
    BY <2>1 DEF Typed, TypeOK, ThreadsOK
  <2> QED BY <2>1, <2>2, OccupancyKept
<1>3. ASSUME NEW t \in Threads, NEW s \in Spans, RecordField(t, s)
      PROVE  Occupancy'
  <2>1. UNCHANGED <<phase, slot, subject, pc, queue>>
    BY <1>3 DEF RecordField, registryVars, threadVars
  <2>2. \A i \in 1..Len(open') :
          /\ i \in 1..Len(open)
          /\ open'[i].span = open[i].span /\ open'[i].slot = open[i].slot
    <3>1. CASE open' = open
      BY <3>1
    <3>2. CASE Index(s) # {}
               /\ open' = [open EXCEPT ![OwnEntry(s)].fields = @ + 1]
      <4>1. OwnEntry(s) \in 1..Len(open)
        BY <3>2, FirstIndexFound DEF OwnEntry, Index
      <4>2. Len(open') = Len(open)
        BY <3>2, <4>1 DEF Typed, TypeOK, LayerOK
      <4>3. ASSUME NEW i \in 1..Len(open)
            PROVE  open'[i].span = open[i].span /\ open'[i].slot = open[i].slot
        <5>1. CASE i # OwnEntry(s)
          BY <3>2, <4>1, <5>1 DEF Typed, TypeOK, LayerOK
        <5>2. CASE i = OwnEntry(s)
          <6>1. open[i] \in EntryType
            BY SpanOfOpen
          <6>2. open'[i] = [open[i] EXCEPT !.fields = @ + 1]
            BY <3>2, <4>1, <5>2 DEF Typed, TypeOK, LayerOK
          <6> QED BY <6>1, <6>2 DEF EntryType
        <5> QED BY <5>1, <5>2
      <4> QED BY <4>2, <4>3
    <3> QED BY <1>3, <3>1, <3>2 DEF RecordField
  <2> QED BY <2>1, <2>2, OccupancyKept
<1>4. ASSUME NEW t \in Threads, subject[t] = None,
             UNCHANGED <<phase, slot, subject>>, open' \in {open, <<>>},
             \A u \in Threads : u # t => pc'[u] = pc[u] /\ queue'[u] = queue[u]
      PROVE  Occupancy'
  <2>1. \A i \in 1..Len(open') :
          /\ i \in 1..Len(open)
          /\ open'[i].span = open[i].span /\ open'[i].slot = open[i].slot
    BY <1>4
  <2> QED BY <1>4, <2>1, OccupancyKept
<1>5. ASSUME NEW t \in Threads, \/ LogEvent(t) \/ CallFlush(t) \/ CallExit(t)
                                \/ CloneHooks(t) \/ EndFlush(t)
      PROVE  Occupancy'
  <2>1. /\ UNCHANGED <<phase, slot, subject, open, queue>>
        /\ pc[t] \in {"idle", "clone", "flush"}
        /\ \E label \in Labels : pc' = [pc EXCEPT ![t] = label]
    <3>1. CASE LogEvent(t)
      BY <3>1 DEF LogEvent, registryVars, Running, Goto, Labels
    <3>2. CASE CallFlush(t) \/ CallExit(t)
      BY <3>2 DEF CallFlush, CallExit, LockHooks, registryVars, layerVars, Running,
                  Goto, Labels
    <3>3. CASE CloneHooks(t) \/ EndFlush(t)
      BY <3>3 DEF CloneHooks, EndFlush, registryVars, layerVars, Goto, Labels
    <3> QED BY <1>5, <3>1, <3>2, <3>3
  <2>2. subject[t] = None /\ \A u \in Threads : u # t => pc'[u] = pc[u]
    BY <2>1 DEF Typed, Control, Standing, TypeOK, ThreadsOK
  <2> QED BY <1>4, <2>1, <2>2
<1>6. ASSUME NEW t \in Threads, CloseOpen(t) \/ RunRegistrar(t) \/ RunPlain(t)
      PROVE  Occupancy'
  <2>1. /\ UNCHANGED <<phase, slot, subject>> /\ open' \in {open, <<>>}
        /\ pc[t] = "flush"
        /\ \A u \in Threads : u # t => pc'[u] = pc[u] /\ queue'[u] = queue[u]
    <3>1. CASE CloseOpen(t)
      BY <3>1 DEF CloseOpen, NextHook, OpenTaken, registryVars, Goto, Typed,
                  TypeOK, ThreadsOK
    <3>2. CASE RunRegistrar(t) \/ RunPlain(t)
      BY <3>2 DEF RunRegistrar, RunPlain, NextHook, registryVars, layerVars
    <3> QED BY <1>6, <3>1, <3>2
  <2>2. subject[t] = None
    BY <2>1 DEF Typed, Control, Standing
  <2> QED BY <1>4, <2>1, <2>2
<1>7. CASE UNCHANGED vars
  <2>1. UNCHANGED <<phase, slot, subject, open, pc, queue>>
    BY <1>7 DEF vars, registryVars, layerVars, threadVars
  <2> QED BY <2>1, OccupancyKept
<1>8. ASSUME NEW t \in Threads, Begin(t) PROVE Occupancy'
  BY <1>8, <1>3, <1>5, NewSpanOccupies, CloseUnrecordedOccupies,
     CloseRecordedOccupies DEF Begin
<1>9. ASSUME NEW t \in Threads, Proceed(t) PROVE Occupancy'
  BY <1>9, <1>1, <1>2, <1>5, <1>6, PushOccupies, WriteOccupies DEF Proceed
<1> QED BY <1>7, <1>8, <1>9 DEF Next

LEMMA OccupancyHolds == SafeSpec => [](Typed /\ Occupancy)
<1>1. Init => Occupancy
  <2> SUFFICES ASSUME Init PROVE Occupancy
    OBVIOUS
  <2>1. \A s \in Spans : ~Exists(s)
    BY DEF Init, Exists
  <2>2. open = <<>> /\ subject = [t \in Threads |-> None]
    BY DEF Init
  <2> QED BY <2>1, <2>2 DEF Occupancy, SlotsDistinct, OpenOnce, OpenIsCurrent,
                           SubjectOwned, SubjectsApart
<1>2. Typed /\ Occupancy /\ [Next]_vars => Occupancy'
  BY OccupancyStep
<1> QED BY <1>1, <1>2, LayerTyped, PTL DEF SafeSpec, Typed

\* An entry never outlives its span, so it never answers for the next owner of
\* the slot: OpenIsCurrent.
THEOREM EntriesCurrent == SafeSpec => []OpenIsCurrent
<1>1. Occupancy => OpenIsCurrent
  BY DEF Occupancy
<1> QED BY <1>1, OccupancyHolds, PTL

(***************************************************************************)
(* Ancestors.                                                              *)
(***************************************************************************)
Members(line) == {line[i] : i \in 1..Len(line)}

Family ==
  /\ \A s \in Spans : phase[s] = "unborn" => ancestors[s] = <<>>
  /\ \A s \in Spans : \A a \in Members(ancestors[s]) : phase[a] # "unborn"
  /\ \A s \in Spans : Exists(s) =>
       \A a \in Members(ancestors[s]) : phase[a] = "live"
  /\ \A s \in Spans : \A i \in 2..Len(ancestors[s]) :
       /\ ancestors[ancestors[s][i - 1]] # <<>>
       /\ Head(ancestors[ancestors[s][i - 1]]) = ancestors[s][i]

ScopesLive ==
  \A t \in Threads :
    /\ \A a \in Members(scope[t]) : phase[a] = "live"
    /\ pc[t] = "lookup" /\ subject[t] # None =>
         Members(scope[t]) \subseteq Members(ancestors[subject[t]])

Kinship == Family /\ ScopesLive

LEMMA MembersTyped ==
  ASSUME Typed, NEW s \in Spans
  PROVE  Members(ancestors[s]) \subseteq Spans
<1>1. ancestors[s] \in Seq(Spans)
  BY DEF Typed, TypeOK, RegistryOK
<1> QED BY <1>1 DEF Members

LEMMA ScopeTyped ==
  ASSUME Typed, NEW t \in Threads
  PROVE  scope[t] \in Seq(Spans) /\ Members(scope[t]) \subseteq Spans
<1>1. scope[t] \in Seq(Spans)
  BY DEF Typed, TypeOK, ThreadsOK
<1> QED BY <1>1 DEF Members

\* A live span with its ancestors.
LEMMA LineBelow ==
  ASSUME Typed, Kinship,
         NEW line \in {<<>>} \cup {<<p>> \o ancestors[p] :
                                   p \in {q \in Spans : phase[q] = "live"}}
  PROVE  /\ line \in Seq(Spans)
         /\ \A a \in Members(line) : phase[a] = "live"
         /\ \A i \in 2..Len(line) : /\ ancestors[line[i - 1]] # <<>>
                                    /\ Head(ancestors[line[i - 1]]) = line[i]
<1>1. CASE line = <<>>
  BY <1>1 DEF Members
<1>2. CASE line # <<>>
  <2>1. PICK p \in Spans : phase[p] = "live" /\ line = <<p>> \o ancestors[p]
    BY <1>2
  <2> DEFINE up == ancestors[p]
             n == Len(up)
  <2>2. up \in Seq(Spans) /\ <<p>> \in Seq(Spans) /\ n \in Nat
    BY DEF Typed, TypeOK, RegistryOK
  <2>3. \A a \in Members(up) : phase[a] = "live"
    BY <2>1 DEF Kinship, Family, Exists
  <2>4. \A i \in 2..n : ancestors[up[i - 1]] # <<>> /\ Head(ancestors[up[i - 1]]) = up[i]
    BY DEF Kinship, Family
  <2>5. \A i \in 1..n : up[i] \in Members(up)
    BY DEF Members
  <2>6. up # <<>> => Head(up) = up[1]
    BY <2>2
  <2>7. n >= 1 => up # <<>>
    BY <2>2
  <2> HIDE DEF n
  <2>8. /\ line \in Seq(Spans) /\ Len(line) = n + 1
        /\ \A j \in 1..n + 1 : line[j] = IF j <= 1 THEN <<p>>[j] ELSE up[j - 1]
    <3>1. Len(<<p>>) = 1 /\ line = <<p>> \o up
      BY <2>1
    <3>2. /\ <<p>> \o up \in Seq(Spans) /\ Len(<<p>> \o up) = 1 + n
          /\ \A j \in 1..1 + n : (<<p>> \o up)[j] = IF j <= 1 THEN <<p>>[j]
                                                   ELSE up[j - 1]
      BY <2>2, <3>1, Concatenated DEF n
    <3>3. 1 + n = n + 1
      BY <2>2
    <3> QED BY <3>1, <3>2, <3>3
  <2>9. line[1] = p /\ \A j \in 2..n + 1 : line[j] = up[j - 1]
    <3>1. line[1] = p
      BY <2>2, <2>8
    <3>2. ASSUME NEW j \in 2..n + 1 PROVE line[j] = up[j - 1]
      <4>1. j \in 1..n + 1 /\ ~(j <= 1)
        BY <2>2
      <4> QED BY <2>8, <4>1
    <3> QED BY <3>1, <3>2
  <2> HIDE DEF up
  <2>10. ASSUME NEW a \in Members(line) PROVE phase[a] = "live"
    <3>1. PICK j \in 1..n + 1 : a = line[j]
      BY <2>8 DEF Members
    <3>2. CASE j = 1
      BY <2>1, <2>9, <3>1, <3>2
    <3>3. CASE j # 1
      <4>1. j \in 2..n + 1 /\ j - 1 \in 1..n
        BY <2>2, <3>3
      <4> QED BY <2>3, <2>5, <2>9, <3>1, <4>1
    <3> QED BY <3>2, <3>3
  <2>11. ASSUME NEW i \in 2..Len(line)
         PROVE  /\ ancestors[line[i - 1]] # <<>>
                /\ Head(ancestors[line[i - 1]]) = line[i]
    <3>1. i \in 2..n + 1
      BY <2>8
    <3>2. line[i] = up[i - 1]
      BY <2>9, <3>1
    <3>3. CASE i = 2
      <4>1. n >= 1 /\ i - 1 = 1
        BY <2>2, <3>1, <3>3
      <4>2. up # <<>> /\ Head(up) = up[1] /\ line[i - 1] = p
        BY <2>6, <2>7, <2>9, <4>1
      <4> QED BY <3>2, <4>1, <4>2 DEF up
    <3>4. CASE i # 2
      <4>1. i - 1 \in 2..n /\ i - 1 \in 2..n + 1
        BY <2>2, <3>1, <3>4
      <4>2. line[i - 1] = up[i - 1 - 1]
        BY <2>9, <4>1
      <4> QED BY <2>4, <3>2, <4>1, <4>2
    <3> QED BY <3>3, <3>4
  <2> QED BY <2>8, <2>10, <2>11
<1> QED BY <1>1, <1>2

\* No span that can close is above one that exists.
LEMMA ClosableIsLeaf ==
  ASSUME Typed, Kinship, NEW s \in Spans, Closable(s), NEW c \in Spans, Exists(c)
  PROVE  s \notin Members(ancestors[c])
<1> SUFFICES ASSUME NEW i \in 1..Len(ancestors[c]), ancestors[c][i] = s
             PROVE  FALSE
  BY DEF Members
<1>1. ancestors[c] \in Seq(Spans)
  BY DEF Typed, TypeOK, RegistryOK
<1>2. \A d \in Spans : Exists(d) /\ ancestors[d] # <<>> => Head(ancestors[d]) # s
  BY DEF Closable, HasChildren, Existing, Parents, Exists
<1>3. CASE i = 1
  <2>1. ancestors[c] # <<>> /\ Head(ancestors[c]) = s
    BY <1>1, <1>3
  <2> QED BY <1>2, <2>1
<1>4. CASE i # 1
  <2>1. i \in 2..Len(ancestors[c]) /\ i - 1 \in 1..Len(ancestors[c])
    BY <1>1, <1>4
  <2> DEFINE d == ancestors[c][i - 1]
  <2>2. d \in Members(ancestors[c]) /\ d \in Spans
    BY <2>1, MembersTyped DEF Members
  <2>3. Exists(d)
    BY <2>2 DEF Kinship, Family, Exists
  <2>4. ancestors[d] # <<>> /\ Head(ancestors[d]) = s
    BY <2>1 DEF Kinship, Family
  <2> QED BY <1>2, <2>2, <2>3, <2>4
<1> QED BY <1>3, <1>4

LEMMA ClosableInNoScope ==
  ASSUME Typed, NEW s \in Spans, Closable(s), NEW t \in Threads
  PROVE  s \notin Members(scope[t])
BY DEF Closable, Members

LEMMA CloseKeepsKinship ==
  ASSUME Typed, Kinship, NEW s \in Spans, Closable(s),
         UNCHANGED <<ancestors, scope>>,
         \/ phase' = [phase EXCEPT ![s] = "gone"]
         \/ phase' = [phase EXCEPT ![s] = "closing"],
         \A t \in Threads : pc'[t] = "lookup" /\ subject'[t] # None =>
           pc[t] = "lookup" /\ subject'[t] = subject[t]
  PROVE  Kinship'
<1>1. /\ \A o \in Spans : o # s => phase'[o] = phase[o]
      /\ phase'[s] # "unborn" /\ phase[s] = "live"
  BY DEF Typed, TypeOK, RegistryOK, Closable
<1>2. \A o \in Spans : Exists(o)' => Exists(o)
  BY <1>1 DEF Exists
<1>3. Family'
  <2>1. ASSUME NEW o \in Spans, Exists(o)', NEW a \in Members(ancestors[o])
        PROVE  phase'[a] = "live"
    BY <1>1, <1>2, <2>1, ClosableIsLeaf, MembersTyped DEF Kinship, Family
  <2>2. ASSUME NEW o \in Spans, NEW a \in Members(ancestors[o])
        PROVE  phase'[a] # "unborn"
    BY <1>1, <2>2, MembersTyped DEF Kinship, Family
  <2>3. \A o \in Spans : phase'[o] = "unborn" => ancestors[o] = <<>>
    BY <1>1 DEF Kinship, Family
  <2>4. Members(ancestors[s])' = Members(ancestors[s])
    BY DEF Members
  <2>5. \A o \in Spans : \A i \in 2..Len(ancestors[o]) :
          /\ ancestors[ancestors[o][i - 1]] # <<>>
          /\ Head(ancestors[ancestors[o][i - 1]]) = ancestors[o][i]
    BY DEF Kinship, Family
  <2> QED BY <2>1, <2>2, <2>3, <2>5 DEF Family
<1>4. ScopesLive'
  <2>1. ASSUME NEW t \in Threads, NEW a \in Members(scope[t])
        PROVE  phase'[a] = "live"
    <3>1. a \in Spans /\ a # s /\ phase[a] = "live"
      BY <2>1, ScopeTyped, ClosableInNoScope DEF Kinship, ScopesLive
    <3> QED BY <1>1, <3>1
  <2>2. \A t \in Threads : pc'[t] = "lookup" /\ subject'[t] # None =>
          Members(scope[t]) \subseteq Members(ancestors[subject'[t]])
    BY DEF Kinship, ScopesLive
  <2> QED BY <2>1, <2>2 DEF ScopesLive
<1> QED BY <1>3, <1>4 DEF Kinship

LEMMA KinshipKept ==
  ASSUME Typed, Kinship, ancestors' = ancestors,
         \A s \in Spans : \/ phase'[s] = phase[s]
                          \/ phase[s] = "creating" /\ phase'[s] = "live"
                          \/ phase[s] = "closing" /\ phase'[s] = "gone",
         \A t \in Threads : Members(scope'[t]) \subseteq Members(scope[t]),
         \A t \in Threads : pc'[t] = "lookup" /\ subject'[t] # None =>
           pc[t] = "lookup" /\ subject'[t] = subject[t]
  PROVE  Kinship'
<1>1. \A s \in Spans : /\ Exists(s)' => Exists(s)
                       /\ phase[s] = "live" => phase'[s] = "live"
                       /\ phase[s] # "unborn" <=> phase'[s] # "unborn"
  BY DEF Exists
<1>2. Family'
  <2>1. \A s \in Spans : phase'[s] = "unborn" => ancestors[s] = <<>>
    BY <1>1 DEF Kinship, Family
  <2>2. \A s \in Spans : \A a \in Members(ancestors[s]) : phase'[a] # "unborn"
    BY <1>1, MembersTyped DEF Kinship, Family
  <2>3. \A s \in Spans : Exists(s)' =>
          \A a \in Members(ancestors[s]) : phase'[a] = "live"
    BY <1>1, MembersTyped DEF Kinship, Family
  <2>4. \A s \in Spans : \A i \in 2..Len(ancestors[s]) :
          /\ ancestors[ancestors[s][i - 1]] # <<>>
          /\ Head(ancestors[ancestors[s][i - 1]]) = ancestors[s][i]
    BY DEF Kinship, Family
  <2> QED BY <2>1, <2>2, <2>3, <2>4 DEF Family
<1>3. ScopesLive'
  <2>1. \A t \in Threads : \A a \in Members(scope'[t]) : phase'[a] = "live"
    BY <1>1, ScopeTyped DEF Kinship, ScopesLive
  <2>2. \A t \in Threads : pc'[t] = "lookup" /\ subject'[t] # None =>
          Members(scope'[t]) \subseteq Members(ancestors[subject'[t]])
    BY DEF Kinship, ScopesLive
  <2> QED BY <2>1, <2>2 DEF ScopesLive
<1> QED BY <1>2, <1>3 DEF Kinship

LEMMA NewSpanKinship ==
  ASSUME Typed, Occupancy, Kinship, NEW t \in Threads, NEW s \in Spans,
         NewSpan(t, s)
  PROVE  Kinship'
<1>1. PICK line \in {<<>>} \cup {<<p>> \o ancestors[p] :
                            p \in {q \in Spans : phase[q] = "live"}} :
        /\ ancestors' = [ancestors EXCEPT ![s] = line]
        /\ scope' = [scope EXCEPT ![t] = IF s \in Admitted
                                         THEN FromInner(line) ELSE <<>>]
  BY DEF NewSpan
<1>2. /\ line \in Seq(Spans)
      /\ \A a \in Members(line) : phase[a] = "live"
      /\ \A i \in 2..Len(line) : /\ ancestors[line[i - 1]] # <<>>
                                 /\ Head(ancestors[line[i - 1]]) = line[i]
  BY LineBelow
<1>3. Members(line) \subseteq Spans
  BY <1>2 DEF Members
<1>4. /\ \/ /\ phase' = [phase EXCEPT ![s] = "creating"]
            /\ subject' = [subject EXCEPT ![t] = s]
         \/ /\ phase' = [phase EXCEPT ![s] = "live"]
            /\ UNCHANGED <<subject, pc>>
      /\ phase[s] = "unborn" /\ pc[t] = "idle"
  BY DEF NewSpan, Running
<1>5. /\ \A o \in Spans : o # s => phase'[o] = phase[o]
      /\ phase'[s] \in {"creating", "live"}
  BY <1>4 DEF Typed, TypeOK, RegistryOK
<1>6. /\ ancestors'[s] = line
      /\ \A o \in Spans : o # s => ancestors'[o] = ancestors[o]
  BY <1>1 DEF Typed, TypeOK, RegistryOK
<1>7. s \notin Members(line) /\ \A o \in Spans : s \notin Members(ancestors[o])
  BY <1>2, <1>4 DEF Kinship, Family
<1>8. Family'
  <2>1. ASSUME NEW o \in Spans
        PROVE  /\ phase'[o] = "unborn" => ancestors'[o] = <<>>
               /\ \A a \in Members(ancestors'[o]) : phase'[a] # "unborn"
               /\ Exists(o)' =>
                    \A a \in Members(ancestors'[o]) : phase'[a] = "live"
    <3>1. CASE o = s
      BY <1>2, <1>3, <1>5, <1>6, <1>7, <3>1
    <3>2. CASE o # s
      <4>1. ancestors'[o] = ancestors[o] /\ (Exists(o)' <=> Exists(o))
        BY <1>5, <1>6, <3>2 DEF Exists
      <4>2. \A a \in Members(ancestors[o]) : a \in Spans /\ a # s
        BY <1>7, MembersTyped
      <4> QED BY <1>5, <3>2, <4>1, <4>2 DEF Kinship, Family
    <3> QED BY <3>1, <3>2
  <2>2. ASSUME NEW o \in Spans, NEW i \in 2..Len(ancestors'[o])
        PROVE  /\ ancestors'[ancestors'[o][i - 1]] # <<>>
               /\ Head(ancestors'[ancestors'[o][i - 1]]) = ancestors'[o][i]
    <3> DEFINE l == ancestors'[o]
    <3>1. l \in Seq(Spans) /\ s \notin Members(l)
      <4>1. CASE o = s
        BY <1>2, <1>6, <1>7, <4>1
      <4>2. CASE o # s
        BY <1>6, <1>7, <4>2 DEF Typed, TypeOK, RegistryOK
      <4> QED BY <4>1, <4>2
    <3>2. ancestors[l[i - 1]] # <<>> /\ Head(ancestors[l[i - 1]]) = l[i]
      <4>1. CASE o = s
        BY <1>2, <1>6, <4>1
      <4>2. CASE o # s
        BY <1>6, <4>2 DEF Kinship, Family
      <4> QED BY <4>1, <4>2
    <3> HIDE DEF l
    <3>3. i \in 2..Len(l)
      BY DEF l
    <3>4. l[i - 1] \in Members(l) /\ l[i - 1] \in Spans
      BY <3>1, <3>3 DEF Members
    <3>5. ancestors'[l[i - 1]] = ancestors[l[i - 1]]
      BY <1>6, <3>1, <3>4
    <3> QED BY <3>2, <3>5 DEF l
  <2> QED BY <2>1, <2>2 DEF Family
<1>9. \A u \in Threads : u # t =>
        scope'[u] = scope[u] /\ subject'[u] = subject[u] /\ pc'[u] = pc[u]
  <2>1. pc' = [pc EXCEPT ![t] = "lookup"] \/ pc' = pc
    BY DEF NewSpan, Goto
  <2> QED BY <1>1, <1>4, <2>1 DEF Typed, TypeOK, ThreadsOK
<1>10. scope'[t] = line \/ scope'[t] = <<>>
  BY <1>1 DEF FromInner, Typed, TypeOK, ThreadsOK
<1>11. subject'[t] = s \/ subject'[t] = None
  BY <1>4 DEF Typed, Control, Standing, TypeOK, ThreadsOK
<1>12. Members(<<>>) = {}
  BY DEF Members
<1>13. ScopesLive'
  <2>1. ASSUME NEW u \in Threads, NEW a \in Members(scope'[u])
        PROVE  phase'[a] = "live"
    <3>1. CASE u = t
      BY <1>2, <1>3, <1>5, <1>7, <1>10, <1>12, <2>1, <3>1
    <3>2. CASE u # t
      <4>1. a \in Spans /\ phase[a] = "live"
        BY <1>9, <2>1, <3>2, ScopeTyped DEF Kinship, ScopesLive
      <4> QED BY <1>4, <1>5, <4>1
    <3> QED BY <3>1, <3>2
  <2>2. ASSUME NEW u \in Threads, pc'[u] = "lookup", subject'[u] # None
        PROVE  Members(scope'[u]) \subseteq Members(ancestors'[subject'[u]])
    <3>1. CASE u = t
      BY <1>6, <1>10, <1>11, <1>12, <2>2, <3>1
    <3>2. CASE u # t
      <4>1. subject[u] \in Spans /\ subject[u] # s
        BY <1>4, <1>9, <2>2, <3>2, SubjectPhase
      <4> QED BY <1>6, <1>9, <2>2, <3>2, <4>1 DEF Kinship, ScopesLive
    <3> QED BY <3>1, <3>2
  <2> QED BY <2>1, <2>2 DEF ScopesLive
<1> QED BY <1>8, <1>13 DEF Kinship

LEMMA LogEventKinship ==
  ASSUME Typed, Kinship, NEW t \in Threads, LogEvent(t)
  PROVE  Kinship'
<1>1. PICK line \in {<<>>} \cup {<<s>> \o ancestors[s] :
                            s \in {q \in Spans : phase[q] = "live"}} :
        scope' = [scope EXCEPT ![t] = FromInner(line)]
  BY DEF LogEvent
<1>2. \A a \in Members(line) : phase[a] = "live"
  BY LineBelow
<1>3. UNCHANGED <<phase, ancestors, subject>> /\ pc[t] = "idle"
      /\ pc' = [pc EXCEPT ![t] = "lookup"]
  BY DEF LogEvent, registryVars, Running, Goto
<1>4. subject[t] = None
  BY <1>3 DEF Typed, Control, Standing
<1>5. scope'[t] = line
      /\ \A u \in Threads : u # t => scope'[u] = scope[u] /\ pc'[u] = pc[u]
  BY <1>1, <1>3 DEF FromInner, Typed, TypeOK, ThreadsOK
<1>6. Family'
  BY <1>3 DEF Kinship, Family, Exists, Members
<1>7. ScopesLive'
  <2>1. ASSUME NEW u \in Threads
        PROVE  /\ \A a \in Members(scope'[u]) : phase[a] = "live"
               /\ pc'[u] = "lookup" /\ subject[u] # None =>
                    Members(scope'[u]) \subseteq Members(ancestors[subject[u]])
    <3>1. CASE u = t
      BY <1>2, <1>4, <1>5, <3>1
    <3>2. CASE u # t
      BY <1>5, <3>2 DEF Kinship, ScopesLive
    <3> QED BY <3>1, <3>2
  <2> QED BY <1>3, <2>1 DEF ScopesLive
<1> QED BY <1>6, <1>7 DEF Kinship

LEMMA KinshipStep ==
  ASSUME Typed, Occupancy, Kinship, [Next]_vars
  PROVE  Kinship'
<1> DEFINE Moves == \A s \in Spans :
                      \/ phase'[s] = phase[s]
                      \/ phase[s] = "creating" /\ phase'[s] = "live"
                      \/ phase[s] = "closing" /\ phase'[s] = "gone"
           Kept == \A t \in Threads : pc'[t] = "lookup" /\ subject'[t] # None =>
                     pc[t] = "lookup" /\ subject'[t] = subject[t]
<1>1. ASSUME UNCHANGED <<phase, ancestors, scope, subject>>, NEW t \in Threads,
             pc'[t] # "lookup",
             \A u \in Threads : u # t => pc'[u] = pc[u]
      PROVE  Kinship'
  <2>1. Moves /\ Kept /\ \A u \in Threads : Members(scope'[u]) \subseteq Members(scope[u])
    BY <1>1
  <2> QED BY <1>1, <2>1, KinshipKept
<1>2. ASSUME UNCHANGED <<phase, ancestors, scope, subject, pc>>
      PROVE  Kinship'
  <2>1. Moves /\ Kept /\ \A u \in Threads : Members(scope'[u]) \subseteq Members(scope[u])
    BY <1>2
  <2> QED BY <1>2, <2>1, KinshipKept
<1>3. ASSUME NEW t \in Threads, Lookup(t) PROVE Kinship'
  <2>1. UNCHANGED <<phase, ancestors, subject>> /\ pc[t] = "lookup"
    BY <1>3 DEF Lookup, registryVars
  <2>2. Kept
    BY <1>3, <2>1 DEF Lookup, Conclude, Goto, Typed, TypeOK, ThreadsOK
  <2>3. \/ scope' = scope
        \/ scope' = [scope EXCEPT ![t] = <<>>]
        \/ scope[t] # <<>> /\ scope' = [scope EXCEPT ![t] = Tail(scope[t])]
    BY <1>3 DEF Lookup
  <2>4. scope[t] # <<>> => Members(Tail(scope[t])) \subseteq Members(scope[t])
    <3>1. SUFFICES ASSUME scope[t] # <<>>, NEW i \in 1..Len(Tail(scope[t]))
                   PROVE  \E j \in 1..Len(scope[t]) : scope[t][j] = Tail(scope[t])[i]
      BY DEF Members
    <3>2. scope[t] \in Seq(Spans)
      BY ScopeTyped
    <3>3. i + 1 \in 1..Len(scope[t]) /\ Tail(scope[t])[i] = scope[t][i + 1]
      BY <3>1, <3>2
    <3> QED BY <3>3
  <2>5. Members(<<>>) = {}
    BY DEF Members
  <2>6. \A u \in Threads : Members(scope'[u]) \subseteq Members(scope[u])
    <3>1. \A u \in Threads : u # t => scope'[u] = scope[u]
      BY <2>3 DEF Typed, TypeOK, ThreadsOK
    <3>2. \/ scope'[t] = scope[t] \/ scope'[t] = <<>>
          \/ scope[t] # <<>> /\ scope'[t] = Tail(scope[t])
      BY <2>3 DEF Typed, TypeOK, ThreadsOK
    <3>3. Members(scope'[t]) \subseteq Members(scope[t])
      BY <2>4, <2>5, <3>2
    <3> QED BY <3>1, <3>3
  <2>7. Moves
    BY <2>1
  <2> QED BY <2>1, <2>2, <2>6, <2>7, KinshipKept
<1>4. ASSUME NEW t \in Threads, Push(t) PROVE Kinship'
  <2>1. /\ phase' = [phase EXCEPT ![subject[t]] = "live"]
        /\ subject' = [subject EXCEPT ![t] = None]
        /\ pc' = [pc EXCEPT ![t] = "idle"] /\ UNCHANGED <<ancestors, scope>>
        /\ pc[t] = "push"
    BY <1>4 DEF Push, Goto
  <2>2. subject[t] \in Spans /\ phase[subject[t]] = "creating"
    <3>1. subject[t] # None
      BY <2>1 DEF Typed, Control, Standing
    <3> QED BY <2>1, <3>1, SubjectPhase DEF Occupancy, SubjectOwned
  <2>3. Moves
    BY <2>1, <2>2 DEF Typed, TypeOK, RegistryOK
  <2>4. Kept
    BY <2>1 DEF Typed, TypeOK, ThreadsOK
  <2>5. \A u \in Threads : Members(scope'[u]) \subseteq Members(scope[u])
    BY <2>1
  <2> QED BY <2>1, <2>3, <2>4, <2>5, KinshipKept
<1>5. ASSUME NEW t \in Threads, Write(t) PROVE Kinship'
  <2>1. /\ phase' = [s \in Spans |-> IF s = subject[t] THEN "gone" ELSE phase[s]]
        /\ subject' = [subject EXCEPT ![t] = None]
        /\ UNCHANGED <<ancestors, scope>> /\ pc[t] = "write"
    BY <1>5 DEF Write
  <2>2. subject[t] # None => phase[subject[t]] = "closing"
    BY <2>1 DEF Occupancy, SubjectOwned
  <2>3. Moves
    BY <2>1, <2>2, SpanAssumption
  <2>4. Kept
    <3>1. \A u \in Threads : u # t => pc'[u] = pc[u] /\ subject'[u] = subject[u]
      BY <1>5, <2>1 DEF Write, Goto, Typed, TypeOK, ThreadsOK
    <3>2. subject'[t] = None
      BY <2>1 DEF Typed, TypeOK, ThreadsOK
    <3> QED BY <3>1, <3>2
  <2>5. \A u \in Threads : Members(scope'[u]) \subseteq Members(scope[u])
    BY <2>1
  <2> QED BY <2>1, <2>3, <2>4, <2>5, KinshipKept
<1>6. ASSUME NEW t \in Threads, NEW s \in Spans, RecordField(t, s)
      PROVE  Kinship'
  BY <1>2, <1>6 DEF RecordField, registryVars, threadVars
<1>7. ASSUME NEW t \in Threads, NEW s \in Spans, CloseUnrecorded(t, s)
      PROVE  Kinship'
  <2>1. UNCHANGED <<ancestors, scope, pc, subject>> /\ Closable(s)
        /\ phase' = [phase EXCEPT ![s] = "gone"]
    BY <1>7 DEF CloseUnrecorded, threadVars
  <2> QED BY <2>1, CloseKeepsKinship
<1>8. ASSUME NEW t \in Threads, NEW s \in Spans, CloseRecorded(t, s)
      PROVE  Kinship'
  <2>1. UNCHANGED <<ancestors, scope>> /\ Closable(s)
        /\ phase' = [phase EXCEPT ![s] = "closing"]
        /\ subject' = [subject EXCEPT ![t] = s] /\ pc' = [pc EXCEPT ![t] = "draw"]
    BY <1>8 DEF CloseRecorded, Goto
  <2>2. Kept
    BY <2>1 DEF Typed, TypeOK, ThreadsOK
  <2> QED BY <2>1, <2>2, CloseKeepsKinship
<1>9. ASSUME NEW t \in Threads, Draw(t) \/ CallFlush(t) \/ CallExit(t)
                                \/ CloneHooks(t) \/ EndFlush(t)
      PROVE  Kinship'
  <2>1. /\ UNCHANGED <<phase, ancestors, scope, subject>>
        /\ \E label \in Labels \ {"lookup"} : pc' = [pc EXCEPT ![t] = label]
    <3>1. CASE Draw(t)
      BY <3>1 DEF Draw, registryVars, Goto, Labels
    <3>2. CASE CallFlush(t) \/ CallExit(t)
      BY <3>2 DEF CallFlush, CallExit, LockHooks, registryVars, Goto, Labels
    <3>3. CASE CloneHooks(t) \/ EndFlush(t)
      BY <3>3 DEF CloneHooks, EndFlush, registryVars, Goto, Labels
    <3> QED BY <1>9, <3>1, <3>2, <3>3
  <2>2. pc'[t] # "lookup" /\ \A u \in Threads : u # t => pc'[u] = pc[u]
    BY <2>1 DEF Typed, TypeOK, ThreadsOK
  <2> QED BY <1>1, <2>1, <2>2
<1>10. ASSUME NEW t \in Threads, CloseOpen(t) PROVE Kinship'
  <2>1. UNCHANGED <<phase, ancestors, scope, subject>> /\ pc[t] = "flush"
        /\ (pc' = pc \/ pc' = [pc EXCEPT ![t] = "draw"])
    BY <1>10 DEF CloseOpen, NextHook, registryVars, Goto
  <2>2. pc'[t] # "lookup" /\ \A u \in Threads : u # t => pc'[u] = pc[u]
    BY <2>1 DEF Typed, TypeOK, ThreadsOK
  <2> QED BY <1>1, <2>1, <2>2
<1>11. ASSUME NEW t \in Threads, RunRegistrar(t) \/ RunPlain(t) PROVE Kinship'
  BY <1>2, <1>11 DEF RunRegistrar, RunPlain, registryVars
<1>12. CASE UNCHANGED vars
  <2>1. UNCHANGED <<phase, ancestors, scope, subject, pc>>
    BY <1>12 DEF vars, registryVars, threadVars
  <2> QED BY <1>2, <2>1
<1>13. ASSUME NEW t \in Threads, Begin(t) PROVE Kinship'
  BY <1>13, <1>6, <1>7, <1>8, <1>9, NewSpanKinship, LogEventKinship DEF Begin
<1>14. ASSUME NEW t \in Threads, Proceed(t) PROVE Kinship'
  BY <1>14, <1>3, <1>4, <1>5, <1>9, <1>10, <1>11 DEF Proceed
<1> QED BY <1>12, <1>13, <1>14 DEF Next

LEMMA KinshipHolds == SafeSpec => [](Typed /\ Occupancy /\ Kinship)
<1>1. Init => Kinship
  <2> SUFFICES ASSUME Init PROVE Kinship
    OBVIOUS
  <2>1. /\ ancestors = [s \in Spans |-> <<>>] /\ scope = [t \in Threads |-> <<>>]
        /\ pc = [t \in Threads |-> "idle"]
    BY DEF Init
  <2>2. Members(<<>>) = {} /\ Len(<<>>) = 0
    BY DEF Members
  <2> QED BY <2>1, <2>2 DEF Kinship, Family, ScopesLive
<1>2. Typed /\ Occupancy /\ Kinship /\ [Next]_vars => Kinship'
  BY KinshipStep
<1> QED BY <1>1, <1>2, OccupancyHolds, PTL DEF SafeSpec

(***************************************************************************)
(* What entries and records say.                                           *)
(***************************************************************************)
LineIn(e, ph, anc) ==
  e.kind = "span" =>
    /\ ph[e.span] # "unborn"
    /\ e.parent # None => e.parent \in Members(anc[e.span])

Line(e) == LineIn(e, phase, ancestors)
LineNext(e) == LineIn(e, phase', ancestors')

OpenTrue ==
  \A i \in 1..Len(open) : Line(open[i]) /\ open[i].fields = late[open[i].span]

RecordIn(r, ph, anc, lt) ==
  /\ LineIn(r.entry, ph, anc)
  /\ r.status = "open" => r.entry.fields = 0
  /\ r.status = "close" => /\ r.entry.fields = lt[r.entry.span]
                           /\ ph[r.entry.span] \in {"closing", "gone"}
  /\ r.status = "exit" => r.entry.fields <= lt[r.entry.span]

RecordTrue(r) == RecordIn(r, phase, ancestors, late)
RecordNext(r) == RecordIn(r, phase', ancestors', late')

JournalTrue == \A i \in 1..Len(journal) : RecordTrue(journal[i].record)

QueuesTrue == \A t \in Threads : \A i \in 1..Len(queue[t]) : RecordTrue(queue[t][i])

NothingLate == \A s \in Spans : phase[s] \in {"unborn", "creating"} => late[s] = 0

Telling == OpenTrue /\ JournalTrue /\ QueuesTrue /\ NothingLate /\ OpenIsNested

Placed == Typed /\ Occupancy /\ Kinship

\* What a step does to a span that was not in it.
Stays(s) ==
  phase'[s] = phase[s] /\ ancestors'[s] = ancestors[s] /\ late'[s] = late[s]

History(s) ==
  /\ phase[s] # "unborn" => phase'[s] # "unborn" /\ ancestors'[s] = ancestors[s]
  /\ phase[s] \in {"closing", "gone"} =>
       phase'[s] \in {"closing", "gone"} /\ late'[s] = late[s]
  /\ \/ late'[s] = late[s]
     \/ phase[s] = "live" /\ phase'[s] = "live" /\ late'[s] = late[s] + 1
  /\ phase'[s] \in {"unborn", "creating"} =>
       phase[s] \in {"unborn", "creating"} /\ late'[s] = late[s]

LEMMA StaysHistory == \A s : Stays(s) => History(s)
BY DEF Stays, History

LEMMA SpanHistory ==
  ASSUME Placed, [Next]_vars
  PROVE  \A s \in Spans : History(s)
<1> USE DEF Placed
<1>1. ASSUME UNCHANGED <<phase, ancestors, late>>
      PROVE  \A s \in Spans : History(s)
  BY <1>1, StaysHistory DEF Stays
<1>2. ASSUME NEW t \in Threads, NEW s \in Spans, NewSpan(t, s)
      PROVE  \A o \in Spans : History(o)
  <2>1. /\ late' = late /\ phase[s] = "unborn"
        /\ \E line : ancestors' = [ancestors EXCEPT ![s] = line]
        /\ \E p : phase' = [phase EXCEPT ![s] = p]
    BY <1>2 DEF NewSpan, layerVars
  <2>2. \A o \in Spans : o # s => Stays(o)
    BY <2>1 DEF Stays, Typed, TypeOK, RegistryOK
  <2>3. History(s)
    BY <2>1 DEF History
  <2> QED BY <2>2, <2>3, StaysHistory
<1>3. ASSUME NEW t \in Threads, NEW s \in Spans, RecordField(t, s)
      PROVE  \A o \in Spans : History(o)
  <2>1. /\ UNCHANGED <<phase, ancestors>> /\ phase[s] = "live"
        /\ late' = [late EXCEPT ![s] = @ + 1]
    BY <1>3 DEF RecordField, registryVars
  <2>2. \A o \in Spans : o # s => Stays(o)
    BY <2>1 DEF Stays, Typed, TypeOK, LayerOK
  <2>3. late'[s] = late[s] + 1
    BY <2>1 DEF Typed, TypeOK, LayerOK
  <2>4. History(s)
    BY <2>1, <2>3 DEF History
  <2> QED BY <2>2, <2>4, StaysHistory
<1>4. ASSUME UNCHANGED <<ancestors, late>>, NEW s \in Spans,
             \A o \in Spans : o # s => phase'[o] = phase[o],
             \/ phase[s] = "creating" /\ phase'[s] = "live"
             \/ phase[s] = "live" /\ phase'[s] \in {"closing", "gone"}
             \/ phase[s] = "closing" /\ phase'[s] = "gone"
      PROVE  \A o \in Spans : History(o)
  <2>1. \A o \in Spans : o # s => Stays(o)
    BY <1>4 DEF Stays
  <2>2. History(s)
    BY <1>4 DEF History
  <2> QED BY <2>1, <2>2, StaysHistory
<1>5. ASSUME NEW t \in Threads, NEW s \in Spans,
             CloseUnrecorded(t, s) \/ CloseRecorded(t, s)
      PROVE  \A o \in Spans : History(o)
  <2>1. /\ UNCHANGED <<ancestors, late>> /\ phase[s] = "live"
        /\ \E p \in {"closing", "gone"} : phase' = [phase EXCEPT ![s] = p]
    BY <1>5 DEF CloseUnrecorded, CloseRecorded, Closable, layerVars
  <2>2. phase'[s] \in {"closing", "gone"} /\ \A o \in Spans : o # s => phase'[o] = phase[o]
    BY <2>1 DEF Typed, TypeOK, RegistryOK
  <2> QED BY <1>4, <2>1, <2>2
<1>6. ASSUME NEW t \in Threads, Push(t) PROVE \A o \in Spans : History(o)
  <2>1. /\ UNCHANGED <<ancestors, late>> /\ pc[t] = "push"
        /\ phase' = [phase EXCEPT ![subject[t]] = "live"]
    BY <1>6 DEF Push
  <2>2. subject[t] \in Spans /\ phase[subject[t]] = "creating"
    <3>1. subject[t] # None
      BY <2>1 DEF Typed, Control, Standing
    <3> QED BY <2>1, <3>1, SubjectPhase DEF Occupancy, SubjectOwned
  <2>3. phase'[subject[t]] = "live"
        /\ \A o \in Spans : o # subject[t] => phase'[o] = phase[o]
    BY <2>1, <2>2 DEF Typed, TypeOK, RegistryOK
  <2> QED BY <1>4, <2>1, <2>2, <2>3
<1>7. ASSUME NEW t \in Threads, Write(t) PROVE \A o \in Spans : History(o)
  <2>1. /\ UNCHANGED <<ancestors, late>> /\ pc[t] = "write"
        /\ phase' = [s \in Spans |-> IF s = subject[t] THEN "gone" ELSE phase[s]]
    BY <1>7 DEF Write
  <2>2. CASE subject[t] = None
    <3>1. \A o \in Spans : Stays(o)
      BY <2>1, <2>2, SpanAssumption DEF Stays
    <3> QED BY <3>1, StaysHistory
  <2>3. CASE subject[t] # None
    <3>1. subject[t] \in Spans /\ phase[subject[t]] = "closing"
      BY <2>1, <2>3, SubjectPhase DEF Occupancy, SubjectOwned
    <3>2. phase'[subject[t]] = "gone"
          /\ \A o \in Spans : o # subject[t] => phase'[o] = phase[o]
      BY <2>1, <3>1
    <3> QED BY <1>4, <2>1, <3>1, <3>2
  <2> QED BY <2>2, <2>3
<1>8. ASSUME NEW t \in Threads, Begin(t) PROVE \A o \in Spans : History(o)
  <2>1. CASE LogEvent(t)
    BY <1>1, <2>1 DEF LogEvent, registryVars
  <2>2. CASE CallFlush(t) \/ CallExit(t)
    BY <1>1, <2>2 DEF CallFlush, CallExit, registryVars, layerVars
  <2> QED BY <1>2, <1>3, <1>5, <1>8, <2>1, <2>2 DEF Begin
<1>9. ASSUME NEW t \in Threads, Proceed(t) PROVE \A o \in Spans : History(o)
  <2>1. CASE Lookup(t) \/ Draw(t) \/ CloneHooks(t) \/ EndFlush(t)
    BY <1>1, <2>1 DEF Lookup, Draw, CloneHooks, EndFlush, registryVars, layerVars
  <2>2. CASE CloseOpen(t) \/ RunRegistrar(t) \/ RunPlain(t)
    BY <1>1, <2>2 DEF CloseOpen, RunRegistrar, RunPlain, registryVars, layerVars
  <2> QED BY <1>6, <1>7, <1>9, <2>1, <2>2 DEF Proceed
<1>10. CASE UNCHANGED vars
  BY <1>1, <1>10 DEF vars, registryVars, layerVars
<1> QED BY <1>8, <1>9, <1>10 DEF Next

LEMMA LineLasts ==
  ASSUME Placed, \A s \in Spans : History(s), NEW e \in EntryType \cup EventType,
         Line(e)
  PROVE  LineNext(e)
<1>1. CASE e.kind = "span"
  <2>1. e.span \in Spans
    BY <1>1 DEF EntryType, EventType, Admitted
  <2> QED BY <1>1, <2>1 DEF Line, LineNext, LineIn, History, Members
<1>2. CASE e.kind # "span"
  BY <1>2 DEF Line, LineNext, LineIn
<1> QED BY <1>1, <1>2

\* A record once taken on stays true.
LEMMA RecordLasts ==
  ASSUME Placed, \A s \in Spans : History(s), NEW r \in RecordType, RecordTrue(r)
  PROVE  RecordNext(r)
<1>1. r.entry \in EntryType \cup EventType
  BY DEF RecordType
<1>2. LineNext(r.entry)
  BY <1>1, LineLasts DEF RecordTrue, RecordIn, Line, LineNext
<1>3. r.status \in {"close", "exit"} => r.entry \in EntryType
  BY DEF RecordType
<1>4. r.entry \in EntryType => r.entry.span \in Spans /\ r.entry.fields \in Nat
  BY DEF EntryType, Admitted
<1>5. r.status = "close" => /\ r.entry.fields = late'[r.entry.span]
                            /\ phase'[r.entry.span] \in {"closing", "gone"}
  BY <1>3, <1>4 DEF RecordTrue, RecordNext, RecordIn, History
<1>6. r.status = "exit" => r.entry.fields <= late'[r.entry.span]
  <2> SUFFICES ASSUME r.status = "exit" PROVE r.entry.fields <= late'[r.entry.span]
    OBVIOUS
  <2>1. r.entry.span \in Spans /\ r.entry.fields \in Nat
    BY <1>3, <1>4
  <2>2. late[r.entry.span] \in Nat /\ r.entry.fields <= late[r.entry.span]
    BY <2>1 DEF RecordTrue, RecordNext, RecordIn, Placed, Typed, TypeOK, LayerOK
  <2>3. late'[r.entry.span] \in {late[r.entry.span], late[r.entry.span] + 1}
    BY <2>1 DEF History
  <2> QED BY <2>1, <2>2, <2>3
<1>7. r.status = "open" => r.entry.fields = 0
  BY DEF RecordTrue, RecordIn
<1> QED BY <1>2, <1>5, <1>6, <1>7 DEF RecordNext, RecordIn, LineNext

LEMMA QueueTyped ==
  ASSUME Typed, NEW t \in Threads
  PROVE  queue[t] \in Seq(RecordType)
         /\ \A i \in 1..Len(queue[t]) : queue[t][i] \in RecordType
<1>1. queue[t] \in Seq(RecordType)
  BY DEF Typed, TypeOK, ThreadsOK
<1> QED BY <1>1

LEMMA JournalTyped ==
  ASSUME Typed, NEW i \in 1..Len(journal)
  PROVE  journal[i].record \in RecordType
<1> DEFINE Written1 == [record : RecordType, seq : Nat]
<1>1. journal \in Seq(Written1)
  BY DEF Typed, TypeOK, LayerOK
<1>2. \A line \in Written1 : line.record \in RecordType
  OBVIOUS
<1> HIDE DEF Written1
<1>3. journal[i] \in Written1
  BY <1>1
<1> QED BY <1>2, <1>3

\* What a thread takes on and what the journal receives decide the rest.
LEMMA RecordsTell ==
  ASSUME Placed, Telling, \A s \in Spans : History(s),
         \A t \in Threads : \A i \in 1..Len(queue'[t]) :
           \/ \E j \in 1..Len(queue[t]) : queue'[t][i] = queue[t][j]
           \/ RecordNext(queue'[t][i]),
         \A i \in 1..Len(journal') :
           \/ i \in 1..Len(journal) /\ journal'[i] = journal[i]
           \/ \E t \in Threads : \E j \in 1..Len(queue[t]) :
                journal'[i].record = queue[t][j]
  PROVE  JournalTrue' /\ QueuesTrue' /\ NothingLate'
<1>1. \A t \in Threads : \A j \in 1..Len(queue[t]) : RecordNext(queue[t][j])
  BY QueueTyped, RecordLasts DEF Placed, Telling, QueuesTrue
<1>2. QueuesTrue'
  <2> SUFFICES ASSUME NEW t \in Threads, NEW i \in 1..Len(queue'[t])
               PROVE  RecordNext(queue'[t][i])
    BY DEF QueuesTrue, RecordTrue, RecordNext
  <2>1. CASE \E j \in 1..Len(queue[t]) : queue'[t][i] = queue[t][j]
    BY <1>1, <2>1 DEF RecordTrue, RecordNext, RecordIn, Line, LineNext, LineIn
  <2> QED BY <2>1
<1>3. JournalTrue'
  <2> SUFFICES ASSUME NEW i \in 1..Len(journal')
               PROVE  RecordNext(journal'[i].record)
    BY DEF JournalTrue, RecordTrue, RecordNext
  <2>1. CASE i \in 1..Len(journal) /\ journal'[i] = journal[i]
    <3>1. RecordNext(journal[i].record)
      BY <2>1, JournalTyped, RecordLasts DEF Placed, Telling, JournalTrue
    <3> QED BY <2>1, <3>1 DEF RecordTrue, RecordNext, RecordIn, Line, LineNext, LineIn
  <2>2. CASE \E t \in Threads : \E j \in 1..Len(queue[t]) :
               journal'[i].record = queue[t][j]
    BY <1>1, <2>2 DEF RecordTrue, RecordNext, RecordIn, Line, LineNext, LineIn
  <2> QED BY <2>1, <2>2
<1>4. NothingLate'
  BY DEF NothingLate, Telling, History
<1> QED BY <1>2, <1>3, <1>4

\* Entries that stay in the layer.
LEMMA EntriesTell ==
  ASSUME Placed, Telling, \A s \in Spans : History(s), late' = late,
         \A i \in 1..Len(open') : \E k \in 1..Len(open) : open'[i] = open[k]
  PROVE  OpenTrue'
<1> SUFFICES ASSUME NEW i \in 1..Len(open')
             PROVE  LineNext(open'[i]) /\ open'[i].fields = late'[open'[i].span]
  BY DEF OpenTrue, Line, LineNext
<1>1. PICK k \in 1..Len(open) : open'[i] = open[k]
  OBVIOUS
<1>2. open[k] \in EntryType
  BY SpanOfOpen DEF Placed
<1>3. LineNext(open[k])
  BY <1>2, LineLasts DEF Telling, OpenTrue
<1> QED BY <1>1, <1>3 DEF Telling, OpenTrue, Line, LineNext, LineIn

\* The id an ancestor's lookup finds is the ancestor's.
LEMMA IdOfLive ==
  ASSUME Typed, Occupancy, NEW s \in Spans, phase[s] = "live"
  PROVE  IdOf(s) \in {None, s}
<1>1. CASE Index(s) = {}
  BY <1>1 DEF IdOf
<1>2. CASE Index(s) # {}
  <2>1. FirstIndex(s) \in Index(s)
    BY <1>2, FirstIndexFound
  <2>2. open[FirstIndex(s)].span = s
    BY <2>1, EntryIsOwn
  <2> QED BY <1>2, <2>2 DEF IdOf
<1> QED BY <1>1, <1>2

LEMMA LookupTells ==
  ASSUME Placed, Telling, NEW t \in Threads, Lookup(t), \A s \in Spans : History(s)
  PROVE  Telling'
<1>1. UNCHANGED <<phase, ancestors, slot, open, journal, late, subject>>
      /\ pc[t] = "lookup"
  BY DEF Lookup, registryVars, layerVars
<1>2. \A u \in Threads : u # t => queue'[u] = queue[u]
  BY DEF Lookup, Conclude, Placed, Typed, TypeOK, ThreadsOK
<1>3. ASSUME NEW parent, Conclude(t, parent),
             subject[t] # None /\ parent # None =>
               parent \in Members(ancestors[subject[t]])
      PROVE  Len(queue'[t]) = 1 /\ RecordNext(queue'[t][1])
  <2>1. CASE subject[t] # None
    <3> DEFINE r == Closed("open", Entry(subject[t], parent))
    <3>1. queue' = [queue EXCEPT ![t] = <<r>>]
      BY <1>3, <2>1 DEF Conclude
    <3>2. /\ r.status = "open" /\ r.entry.kind = "span" /\ r.entry.fields = 0
          /\ r.entry.span = subject[t] /\ r.entry.parent = parent
      BY DEF Closed, Entry
    <3> HIDE DEF r
    <3>3. phase[subject[t]] = "creating"
      BY <1>1, <2>1 DEF Placed, Occupancy, SubjectOwned
    <3>4. queue'[t] = <<r>>
      BY <3>1 DEF Placed, Typed, TypeOK, ThreadsOK
    <3>5. Len(queue'[t]) = 1 /\ queue'[t][1] = r
      BY <3>4
    <3>6. RecordTrue(r)
      BY <1>3, <2>1, <3>2, <3>3 DEF RecordTrue, RecordNext, RecordIn, Line, LineNext, LineIn
    <3> QED BY <1>1, <3>5, <3>6 DEF RecordTrue, RecordNext, RecordIn, Line, LineNext, LineIn, Members
  <2>2. CASE subject[t] = None
    <3> DEFINE r == Closed("event", EventRecord(parent))
    <3>1. queue' = [queue EXCEPT ![t] = <<r>>]
      BY <1>3, <2>2 DEF Conclude
    <3>2. r.status = "event" /\ r.entry.kind = "event"
      BY DEF Closed, EventRecord
    <3> HIDE DEF r
    <3>3. queue'[t] = <<r>>
      BY <3>1 DEF Placed, Typed, TypeOK, ThreadsOK
    <3>4. Len(queue'[t]) = 1 /\ queue'[t][1] = r
      BY <3>3
    <3> QED BY <3>2, <3>4 DEF RecordTrue, RecordNext, RecordIn, Line, LineNext, LineIn
  <2> QED BY <2>1, <2>2
<1>4. ASSUME scope[t] # <<>>, IdOf(Head(scope[t])) # None
      PROVE  subject[t] # None =>
               IdOf(Head(scope[t])) \in Members(ancestors[subject[t]])
  <2>1. scope[t] \in Seq(Spans)
    BY ScopeTyped DEF Placed
  <2>2. Head(scope[t]) \in Members(scope[t]) /\ Head(scope[t]) \in Spans
    <3>1. 1 \in 1..Len(scope[t]) /\ Head(scope[t]) = scope[t][1]
      BY <1>4, <2>1
    <3> QED BY <2>1, <3>1 DEF Members
  <2>3. phase[Head(scope[t])] = "live"
    BY <2>2 DEF Placed, Kinship, ScopesLive
  <2>4. IdOf(Head(scope[t])) = Head(scope[t])
    BY <1>4, <2>2, <2>3, IdOfLive DEF Placed
  <2> QED BY <1>1, <2>2, <2>4 DEF Placed, Kinship, ScopesLive
<1>5. \/ queue'[t] = queue[t]
      \/ Len(queue'[t]) = 1 /\ RecordNext(queue'[t][1])
  <2>1. CASE Conclude(t, None)
    BY <1>3, <2>1
  <2>2. CASE /\ scope[t] # <<>> /\ IdOf(Head(scope[t])) # None
             /\ Conclude(t, IdOf(Head(scope[t])))
    BY <1>3, <1>4, <2>2
  <2>3. CASE queue' = queue
    BY <2>3
  <2> QED BY <2>1, <2>2, <2>3 DEF Lookup
<1>6. \A u \in Threads : \A i \in 1..Len(queue'[u]) :
        \/ \E j \in 1..Len(queue[u]) : queue'[u][i] = queue[u][j]
        \/ RecordNext(queue'[u][i])
  <2> SUFFICES ASSUME NEW u \in Threads, NEW i \in 1..Len(queue'[u])
               PROVE  \/ \E j \in 1..Len(queue[u]) : queue'[u][i] = queue[u][j]
                      \/ RecordNext(queue'[u][i])
    OBVIOUS
  <2>1. CASE queue'[u] = queue[u]
    BY <2>1
  <2>2. CASE u = t /\ Len(queue'[t]) = 1 /\ RecordNext(queue'[t][1])
    <3>1. i = 1
      BY <2>2
    <3> QED BY <2>2, <3>1
  <2> QED BY <1>2, <1>5, <2>1, <2>2
<1>7. JournalTrue' /\ QueuesTrue' /\ NothingLate'
  <2>1. \A i \in 1..Len(journal') : i \in 1..Len(journal) /\ journal'[i] = journal[i]
    BY <1>1
  <2> QED BY <1>6, <2>1, RecordsTell
<1>8. OpenTrue' /\ OpenIsNested'
  <2>1. OpenTrue'
    BY <1>1, EntriesTell
  <2>2. OpenIsNested'
    BY <1>1 DEF Telling, OpenIsNested
  <2> QED BY <2>1, <2>2
<1> QED BY <1>7, <1>8 DEF Telling

LEMMA PushTells ==
  ASSUME Placed, Telling, NEW t \in Threads, Push(t), \A s \in Spans : History(s)
  PROVE  Telling'
<1> DEFINE e == Head(queue[t]).entry
           n == Len(open)
<1>1. /\ open' = Append(open, e) /\ UNCHANGED <<ancestors, journal, late>>
      /\ queue' = [queue EXCEPT ![t] = <<>>] /\ pc[t] = "push"
  BY DEF Push
<1>2. /\ queue[t] \in Seq(RecordType) /\ Len(queue[t]) = 1
      /\ queue[t][1].status = "open" /\ queue[t][1].entry.span = subject[t]
      /\ queue[t][1].entry.kind = "span" /\ subject[t] # None
      /\ RecordTrue(queue[t][1])
  BY <1>1 DEF Placed, Typed, Control, Standing, TypeOK, ThreadsOK, Telling,
              QueuesTrue
<1>3. /\ e = queue[t][1].entry /\ queue[t][1] \in RecordType
      /\ e.fields = 0 /\ e.span = subject[t] /\ e.kind = "span"
  BY <1>2 DEF RecordTrue, RecordNext, RecordIn
<1>4. e \in EntryType
  BY <1>2, <1>3 DEF RecordType, EventType
<1>5. subject[t] \in Spans /\ phase[subject[t]] = "creating"
  BY <1>1, <1>2, SubjectPhase DEF Placed, Occupancy, SubjectOwned
<1>6. Line(e)
  BY <1>2, <1>3 DEF RecordTrue, RecordIn, Line
<1> HIDE DEF e
<1>7. LineNext(e)
  BY <1>4, <1>6, LineLasts
<1>8. n \in Nat /\ Len(open') = n + 1 /\ open'[n + 1] = e
      /\ \A i \in 1..n : open'[i] = open[i]
  BY <1>1 DEF Placed, Typed, TypeOK, LayerOK
<1>9. 1..Len(open') = 1..n \cup {n + 1}
  BY <1>8
<1>10. \A i \in 1..n : /\ open[i] \in EntryType /\ open[i].kind = "span"
                       /\ open[i].span \in Spans /\ phase[open[i].span] = "live"
  BY SpanOfOpen DEF Placed, Occupancy, OpenIsCurrent
<1>11. OpenTrue'
  <2> SUFFICES ASSUME NEW i \in 1..Len(open')
               PROVE  LineNext(open'[i]) /\ open'[i].fields = late'[open'[i].span]
    BY DEF OpenTrue, Line, LineNext
  <2>1. CASE i = n + 1
    <3>1. late[subject[t]] = 0
      BY <1>5 DEF Telling, NothingLate
    <3> QED BY <1>1, <1>3, <1>7, <1>8, <2>1, <3>1 DEF Line, LineNext, LineIn
  <2>2. CASE i \in 1..n
    <3>1. LineNext(open[i])
      BY <1>10, <2>2, LineLasts DEF Telling, OpenTrue
    <3> QED BY <1>1, <1>8, <2>2, <3>1 DEF Line, LineNext, LineIn, Telling, OpenTrue
  <2> QED BY <1>9, <2>1, <2>2
<1>12. OpenIsNested'
  <2> SUFFICES ASSUME NEW i \in 1..Len(open'), NEW j \in 1..Len(open'),
                      open'[i].parent = open'[j].span
               PROVE  j < i
    BY DEF OpenIsNested
  <2>1. CASE i \in 1..n /\ j \in 1..n
    BY <1>8, <2>1 DEF Telling, OpenIsNested
  <2>2. CASE i = n + 1 /\ j \in 1..n
    BY <1>8, <2>2
  <2>3. CASE j = n + 1
    <3>1. open'[i].parent = subject[t]
      BY <1>3, <1>8, <2>3
    <3>2. CASE i \in 1..n
      <4>1. subject[t] \in Members(ancestors[open[i].span])
        BY <1>2, <1>8, <1>10, <3>1, <3>2 DEF Telling, OpenTrue, Line, LineNext, LineIn
      <4>2. phase[subject[t]] = "live"
        BY <1>10, <3>2, <4>1 DEF Placed, Kinship, Family, Exists
      <4> QED BY <1>5, <4>2
    <3>3. CASE i = n + 1
      <4>1. subject[t] \in Members(ancestors[subject[t]])
        BY <1>2, <1>3, <1>6, <1>8, <3>1, <3>3 DEF Line, LineNext, LineIn
      <4>2. phase[subject[t]] = "live"
        BY <1>5, <4>1 DEF Placed, Kinship, Family, Exists
      <4> QED BY <1>5, <4>2
    <3> QED BY <1>9, <3>2, <3>3
  <2> QED BY <1>9, <2>1, <2>2, <2>3
<1>13. JournalTrue' /\ QueuesTrue' /\ NothingLate'
  <2>1. \A u \in Threads : \A i \in 1..Len(queue'[u]) :
          \E j \in 1..Len(queue[u]) : queue'[u][i] = queue[u][j]
    <3>1. queue'[t] = <<>> /\ \A u \in Threads : u # t => queue'[u] = queue[u]
      BY <1>1 DEF Placed, Typed, TypeOK, ThreadsOK
    <3>2. 1..Len(<<>>) = {}
      OBVIOUS
    <3> QED BY <3>1, <3>2
  <2>2. \A i \in 1..Len(journal') : i \in 1..Len(journal) /\ journal'[i] = journal[i]
    BY <1>1
  <2> QED BY <2>1, <2>2, RecordsTell
<1> QED BY <1>11, <1>12, <1>13 DEF Telling

LEMMA RecordFieldTells ==
  ASSUME Placed, Telling, NEW t \in Threads, NEW s \in Spans, RecordField(t, s),
         \A o \in Spans : History(o)
  PROVE  Telling'
<1>1. /\ UNCHANGED <<phase, ancestors, slot, journal, queue>> /\ phase[s] = "live"
      /\ late' = [late EXCEPT ![s] = @ + 1]
  BY DEF RecordField, registryVars, threadVars
<1>2. late'[s] = late[s] + 1 /\ \A o \in Spans : o # s => late'[o] = late[o]
  BY <1>1 DEF Placed, Typed, TypeOK, LayerOK
<1>3. /\ Len(open') = Len(open)
      /\ \A i \in 1..Len(open) :
           /\ open'[i].kind = open[i].kind /\ open'[i].span = open[i].span
           /\ open'[i].parent = open[i].parent
           /\ open'[i].fields = IF open[i].span = s THEN open[i].fields + 1
                                ELSE open[i].fields
  <2>1. CASE s \in Admitted /\ Index(s) # {}
    <3> DEFINE k == FirstIndex(s)
    <3>1. open' = [open EXCEPT ![k].fields = @ + 1]
      BY <2>1 DEF RecordField, OwnEntry
    <3>2. k \in 1..Len(open) /\ open[k].span = s
      BY <1>1, <2>1, FirstIndexFound, EntryIsOwn DEF Placed
    <3> HIDE DEF k
    <3>3. Len(open') = Len(open) /\ open'[k] = [open[k] EXCEPT !.fields = @ + 1]
          /\ \A i \in 1..Len(open) : i # k => open'[i] = open[i]
      <4>1. open \in Seq(EntryType)
        BY DEF Placed, Typed, TypeOK, LayerOK
      <4>2. Len(open') = Len(open)
        BY <3>1, <4>1
      <4>3. open'[k] = [open[k] EXCEPT !.fields = @ + 1]
        BY <3>1, <3>2, <4>1
      <4>4. \A i \in 1..Len(open) : i # k => open'[i] = open[i]
        BY <3>1, <4>1
      <4> QED BY <4>2, <4>3, <4>4
    <3>4. open[k] \in EntryType
      BY <3>2, SpanOfOpen DEF Placed
    <3>5. /\ open'[k].kind = open[k].kind /\ open'[k].span = open[k].span
          /\ open'[k].parent = open[k].parent
          /\ open'[k].fields = open[k].fields + 1
      BY <3>3, <3>4 DEF EntryType
    <3>6. \A i \in 1..Len(open) : i # k => open[i].span # s
      BY <3>2 DEF Placed, Occupancy, OpenOnce
    <3> QED BY <3>2, <3>3, <3>5, <3>6
  <2>2. CASE ~(s \in Admitted /\ Index(s) # {})
    <3>1. open' = open
      BY <2>2 DEF RecordField
    <3>2. \A i \in 1..Len(open) : open[i].span # s
      BY <2>2, SpanOfOpen DEF Placed, Occupancy, OpenIsCurrent, Index
    <3> QED BY <3>1, <3>2
  <2> QED BY <2>1, <2>2
<1>4. OpenTrue'
  <2> SUFFICES ASSUME NEW i \in 1..Len(open)
               PROVE  LineNext(open'[i]) /\ open'[i].fields = late'[open'[i].span]
    BY <1>3 DEF OpenTrue, Line, LineNext
  <2>1. open[i].span \in Spans
    BY SpanOfOpen DEF Placed
  <2>2. open'[i].fields = late'[open'[i].span]
    BY <1>2, <1>3, <2>1 DEF Telling, OpenTrue
  <2>3. LineNext(open'[i])
    BY <1>1, <1>3 DEF Telling, OpenTrue, Line, LineNext, LineIn
  <2> QED BY <2>2, <2>3
<1>5. OpenIsNested'
  BY <1>3 DEF Telling, OpenIsNested
<1>6. JournalTrue' /\ QueuesTrue' /\ NothingLate'
  <2>1. \A u \in Threads : \A i \in 1..Len(queue'[u]) :
          \E j \in 1..Len(queue[u]) : queue'[u][i] = queue[u][j]
    BY <1>1
  <2>2. \A i \in 1..Len(journal') : i \in 1..Len(journal) /\ journal'[i] = journal[i]
    BY <1>1
  <2> QED BY <2>1, <2>2, RecordsTell
<1> QED BY <1>4, <1>5, <1>6 DEF Telling

LEMMA CloseRecordedTells ==
  ASSUME Placed, Telling, NEW t \in Threads, NEW s \in Spans, CloseRecorded(t, s),
         \A o \in Spans : History(o)
  PROVE  Telling'
<1> DEFINE i == FirstIndex(s)
           r == Closed("close", open[i])
<1>1. /\ open' = TakenOut(i) /\ queue' = [queue EXCEPT ![t] = <<r>>]
      /\ UNCHANGED <<ancestors, journal, late>>
      /\ phase' = [phase EXCEPT ![s] = "closing"] /\ phase[s] = "live"
      /\ Index(s) # {}
  BY DEF CloseRecorded, Closable
<1>2. i \in 1..Len(open) /\ open[i].span = s
  BY <1>1, FirstIndexFound, EntryIsOwn DEF Placed
<1>3. r.status = "close" /\ r.entry = open[i]
  BY DEF Closed
<1> HIDE DEF i, r
<1>4. open[i] \in EntryType /\ LineNext(open[i])
  BY <1>2, SpanOfOpen, LineLasts DEF Placed, Telling, OpenTrue
<1>5. phase'[s] = "closing"
  BY <1>1 DEF Placed, Typed, TypeOK, RegistryOK
<1>6. RecordNext(r)
  BY <1>1, <1>2, <1>3, <1>4, <1>5
  DEF RecordNext, RecordIn, LineNext, Telling, OpenTrue
<1>7. queue'[t] = <<r>> /\ \A u \in Threads : u # t => queue'[u] = queue[u]
  BY <1>1 DEF Placed, Typed, TypeOK, ThreadsOK
<1>8. JournalTrue' /\ QueuesTrue' /\ NothingLate'
  <2>1. \A u \in Threads : \A j \in 1..Len(queue'[u]) :
          \/ \E k \in 1..Len(queue[u]) : queue'[u][j] = queue[u][k]
          \/ RecordNext(queue'[u][j])
    <3>1. \A j \in 1..Len(<<r>>) : <<r>>[j] = r
      OBVIOUS
    <3> QED BY <1>6, <1>7, <3>1
  <2>2. \A j \in 1..Len(journal') : j \in 1..Len(journal) /\ journal'[j] = journal[j]
    BY <1>1
  <2> QED BY <2>1, <2>2, RecordsTell
<1>9. \A j \in 1..Len(open') :
        \E k \in 1..Len(open) : /\ k # i /\ open'[j] = open[k]
                                /\ k = IF j < i THEN j ELSE j + 1
  BY <1>1, <1>2, OpenWithout DEF Placed
<1>10. OpenTrue'
  BY <1>1, <1>9, EntriesTell
<1>11. OpenIsNested'
  <2> SUFFICES ASSUME NEW a \in 1..Len(open'), NEW b \in 1..Len(open'),
                      open'[a].parent = open'[b].span
               PROVE  b < a
    BY DEF OpenIsNested
  <2>1. PICK k \in 1..Len(open) : open'[a] = open[k]
                                  /\ k = IF a < i THEN a ELSE a + 1
    BY <1>9
  <2>2. PICK l \in 1..Len(open) : open'[b] = open[l]
                                  /\ l = IF b < i THEN b ELSE b + 1
    BY <1>9
  <2>3. l < k
    BY <2>1, <2>2 DEF Telling, OpenIsNested
  <2>4. a \in Nat /\ b \in Nat /\ i \in Nat
    BY <1>2
  <2> QED BY <2>1, <2>2, <2>3, <2>4
<1> QED BY <1>8, <1>10, <1>11 DEF Telling

LEMMA WriteTells ==
  ASSUME Placed, Telling, NEW t \in Threads, Write(t), \A s \in Spans : History(s)
  PROVE  Telling'
<1> DEFINE line == [record |-> Head(queue[t]), seq |-> drawn[t]]
           n == Len(journal)
<1>1. /\ journal' = Append(journal, line)
      /\ queue' = [queue EXCEPT ![t] = Tail(@)]
      /\ UNCHANGED <<ancestors, open, late>> /\ pc[t] = "write"
  BY DEF Write
<1>2. queue[t] # <<>> /\ queue[t] \in Seq(RecordType)
  BY <1>1 DEF Placed, Typed, Control, Standing, TypeOK, ThreadsOK
<1>3. 1 \in 1..Len(queue[t]) /\ line.record = queue[t][1]
  BY <1>2
<1> HIDE DEF line
<1>4. n \in Nat /\ Len(journal') = n + 1 /\ journal'[n + 1] = line
      /\ \A i \in 1..n : journal'[i] = journal[i]
  BY <1>1 DEF Placed, Typed, TypeOK, LayerOK
<1>5. \A i \in 1..Len(journal') :
        \/ i \in 1..Len(journal) /\ journal'[i] = journal[i]
        \/ \E u \in Threads : \E j \in 1..Len(queue[u]) :
             journal'[i].record = queue[u][j]
  <2> SUFFICES ASSUME NEW i \in 1..Len(journal'), i \notin 1..n
               PROVE  \E u \in Threads : \E j \in 1..Len(queue[u]) :
                        journal'[i].record = queue[u][j]
    BY <1>4
  <2>1. i = n + 1
    BY <1>4
  <2> QED BY <1>3, <1>4, <2>1
<1>6. \A u \in Threads : \A i \in 1..Len(queue'[u]) :
        \E j \in 1..Len(queue[u]) : queue'[u][i] = queue[u][j]
  <2> SUFFICES ASSUME NEW u \in Threads, NEW i \in 1..Len(queue'[u])
               PROVE  \E j \in 1..Len(queue[u]) : queue'[u][i] = queue[u][j]
    OBVIOUS
  <2>1. CASE u = t
    <3>1. queue'[t] = Tail(queue[t])
      BY <1>1 DEF Placed, Typed, TypeOK, ThreadsOK
    <3>2. i \in 1..Len(Tail(queue[t]))
      BY <2>1, <3>1
    <3>3. i + 1 \in 1..Len(queue[t]) /\ Tail(queue[t])[i] = queue[t][i + 1]
      BY <1>2, <3>2
    <3> QED BY <2>1, <3>1, <3>3
  <2>2. CASE u # t
    <3>1. queue'[u] = queue[u]
      BY <1>1, <2>2 DEF Placed, Typed, TypeOK, ThreadsOK
    <3> QED BY <3>1
  <2> QED BY <2>1, <2>2
<1>7. JournalTrue' /\ QueuesTrue' /\ NothingLate'
  BY <1>5, <1>6, RecordsTell
<1>8. OpenTrue'
  BY <1>1, EntriesTell
<1>9. OpenIsNested'
  BY <1>1 DEF Telling, OpenIsNested
<1> QED BY <1>7, <1>8, <1>9 DEF Telling

LEMMA CloseOpenTells ==
  ASSUME Placed, Telling, NEW t \in Threads, CloseOpen(t), \A s \in Spans : History(s)
  PROVE  Telling'
<1> DEFINE taken == [i \in 1..Len(open) |-> Closed("exit", Reverse(open)[i])]
<1>1. /\ open' = <<>> /\ queue' = [queue EXCEPT ![t] = taken]
      /\ UNCHANGED <<phase, ancestors, journal, late>>
  BY DEF CloseOpen, OpenTaken, registryVars
<1>2. Len(open) \in Nat /\ open \in Seq(EntryType)
  BY DEF Placed, Typed, TypeOK, LayerOK
<1>3. Len(taken) = Len(open)
      /\ \A i \in 1..Len(open) : taken[i] = Closed("exit", Reverse(open)[i])
  BY <1>2
<1>4. ASSUME NEW i \in 1..Len(open) PROVE RecordNext(taken[i])
  <2> DEFINE k == Len(open) - i + 1
  <2>1. k \in 1..Len(open) /\ Reverse(open)[i] = open[k]
    BY <1>2, Reversed
  <2> HIDE DEF k
  <2>2. open[k] \in EntryType /\ LineNext(open[k])
    BY <2>1, SpanOfOpen, LineLasts DEF Placed, Telling, OpenTrue
  <2>3. open[k].fields \in Nat /\ open[k].fields = late'[open[k].span]
    BY <1>1, <2>1, <2>2 DEF EntryType, Telling, OpenTrue
  <2>4. open[k].fields <= late'[open[k].span]
    BY <2>3
  <2>5. taken[i].status = "exit" /\ taken[i].entry = open[k]
    BY <1>3, <2>1 DEF Closed
  <2> QED BY <2>2, <2>4, <2>5 DEF RecordNext, RecordIn, LineNext
<1> HIDE DEF taken
<1>5. queue'[t] = taken /\ \A u \in Threads : u # t => queue'[u] = queue[u]
  BY <1>1 DEF Placed, Typed, TypeOK, ThreadsOK
<1>6. JournalTrue' /\ QueuesTrue' /\ NothingLate'
  <2>1. \A u \in Threads : \A j \in 1..Len(queue'[u]) :
          \/ \E k \in 1..Len(queue[u]) : queue'[u][j] = queue[u][k]
          \/ RecordNext(queue'[u][j])
    BY <1>3, <1>4, <1>5
  <2>2. \A j \in 1..Len(journal') : j \in 1..Len(journal) /\ journal'[j] = journal[j]
    BY <1>1
  <2> QED BY <2>1, <2>2, RecordsTell
<1>7. OpenTrue' /\ OpenIsNested'
  <2>1. 1..Len(open') = {}
    BY <1>1
  <2> QED BY <2>1 DEF OpenTrue, OpenIsNested
<1> QED BY <1>6, <1>7 DEF Telling

LEMMA TellingStep ==
  ASSUME Placed, Telling, [Next]_vars
  PROVE  Telling'
<1>1. \A s \in Spans : History(s)
  BY SpanHistory
<1>2. ASSUME UNCHANGED <<open, journal, queue, late>> PROVE Telling'
  <2>1. OpenTrue'
    BY <1>1, <1>2, EntriesTell
  <2>2. OpenIsNested'
    BY <1>2 DEF Telling, OpenIsNested
  <2>3. \A u \in Threads : \A i \in 1..Len(queue'[u]) :
          \E j \in 1..Len(queue[u]) : queue'[u][i] = queue[u][j]
    BY <1>2
  <2>4. \A i \in 1..Len(journal') : i \in 1..Len(journal) /\ journal'[i] = journal[i]
    BY <1>2
  <2>5. JournalTrue' /\ QueuesTrue' /\ NothingLate'
    BY <1>1, <2>3, <2>4, RecordsTell
  <2> QED BY <2>1, <2>2, <2>5 DEF Telling
<1>3. ASSUME NEW t \in Threads, Begin(t) PROVE Telling'
  <2>1. CASE \E s \in Spans : NewSpan(t, s) \/ CloseUnrecorded(t, s)
    BY <1>2, <2>1 DEF NewSpan, CloseUnrecorded, layerVars, threadVars
  <2>2. CASE LogEvent(t)
    BY <1>2, <2>2 DEF LogEvent
  <2>3. CASE CallFlush(t) \/ CallExit(t)
    BY <1>2, <2>3 DEF CallFlush, CallExit, layerVars
  <2> QED BY <1>1, <1>3, <2>1, <2>2, <2>3, RecordFieldTells, CloseRecordedTells
          DEF Begin
<1>4. ASSUME NEW t \in Threads, Proceed(t) PROVE Telling'
  <2>1. CASE Draw(t) \/ CloneHooks(t) \/ EndFlush(t)
    BY <1>2, <2>1 DEF Draw, CloneHooks, EndFlush, layerVars
  <2>2. CASE RunRegistrar(t) \/ RunPlain(t)
    BY <1>2, <2>2 DEF RunRegistrar, RunPlain, layerVars
  <2> QED BY <1>1, <1>4, <2>1, <2>2, LookupTells, PushTells, WriteTells,
             CloseOpenTells DEF Proceed
<1>5. CASE UNCHANGED vars
  BY <1>2, <1>5 DEF vars, layerVars, threadVars
<1> QED BY <1>3, <1>4, <1>5 DEF Next

LEMMA TellingHolds == SafeSpec => [](Placed /\ Telling)
<1>1. Init => Telling
  <2> SUFFICES ASSUME Init PROVE Telling
    OBVIOUS
  <2>1. /\ open = <<>> /\ journal = <<>> /\ queue = [t \in Threads |-> <<>>]
        /\ late = [s \in Spans |-> 0]
    BY DEF Init
  <2>2. 1..Len(<<>>) = {}
    OBVIOUS
  <2> QED BY <2>1, <2>2 DEF Telling, OpenTrue, JournalTrue, QueuesTrue,
                           NothingLate, OpenIsNested
<1>2. Placed /\ Telling /\ [Next]_vars => Telling'
  BY TellingStep
<1> QED BY <1>1, <1>2, KinshipHolds, PTL DEF SafeSpec, Placed

\* A parent stands before its children in Inner::open, so a flush writes
\* children first: OpenIsNested.
THEOREM OpenNested == SafeSpec => []OpenIsNested
<1>1. Telling => OpenIsNested
  BY DEF Telling
<1> QED BY <1>1, TellingHolds, PTL

\* A record's parent is an ancestor of its span that the layer recorded:
\* ParentTruthful.
THEOREM ParentsTrue == SafeSpec => []ParentTruthful
<1>1. ASSUME Placed, Telling PROVE ParentTruthful
  <2>1. ASSUME NEW e \in EntryType \cup EventType, Line(e), e.parent # None
        PROVE  /\ e.parent \in Admitted
               /\ e.kind = "span" =>
                    \E i \in 1..Len(ancestors[e.span]) :
                      ancestors[e.span][i] = e.parent
    <3>1. e.parent \in Admitted
      BY <2>1 DEF EntryType, EventType, Parent
    <3>2. e.kind = "span" => e.parent \in Members(ancestors[e.span])
      BY <2>1 DEF Line, LineIn
    <3> QED BY <3>1, <3>2 DEF Members
  <2>2. \A i \in 1..Len(open) : open[i] \in EntryType /\ Line(open[i])
    BY <1>1, SpanOfOpen DEF Placed, Telling, OpenTrue
  <2>3. \A r \in Records : r.entry \in EntryType \cup EventType /\ Line(r.entry)
    <3> SUFFICES ASSUME NEW i \in 1..Len(journal)
                 PROVE  /\ journal[i].record.entry \in EntryType \cup EventType
                        /\ Line(journal[i].record.entry)
      BY DEF Records
    <3>1. journal[i].record \in RecordType
      BY <1>1, JournalTyped DEF Placed
    <3>2. Line(journal[i].record.entry)
      BY <1>1 DEF Telling, JournalTrue, RecordTrue, RecordIn, Line
    <3> QED BY <3>1, <3>2 DEF RecordType
  <2> QED BY <2>1, <2>2, <2>3 DEF ParentTruthful
<1> QED BY <1>1, TellingHolds, PTL

\* A record has the fields recorded on its span, neither lost nor another's:
\* FieldsKept.
THEOREM FieldsTrue == SafeSpec => []FieldsKept
<1>1. ASSUME Placed, Telling PROVE FieldsKept
  <2>1. \A i \in 1..Len(open) : open[i].fields = late[open[i].span]
    BY <1>1 DEF Telling, OpenTrue
  <2>2. \A r \in Records : RecordTrue(r)
    BY <1>1 DEF Records, Telling, JournalTrue
  <2>3. \A t \in Threads : \A i \in 1..Len(queue[t]) : RecordTrue(queue[t][i])
    BY <1>1 DEF Telling, QueuesTrue
  <2>4. \A r : RecordTrue(r) =>
          /\ r.status = "close" => r.entry.fields = late[r.entry.span]
          /\ r.status = "exit" => r.entry.fields <= late[r.entry.span]
    BY DEF RecordTrue, RecordIn
  <2> QED BY <2>1, <2>2, <2>3, <2>4 DEF FieldsKept
<1> QED BY <1>1, TellingHolds, PTL

(***************************************************************************)
(* What exit owes.                                                         *)
(***************************************************************************)
InOpen(s) == \E i \in 1..Len(open) : open[i].span = s
InQueue(t, s) == \E i \in 1..Len(queue[t]) : queue[t][i].entry.span = s
InJournal(s) == \E i \in 1..Len(journal) : journal[i].record.entry.span = s
Somewhere(s) == InOpen(s) \/ InJournal(s) \/ \E t \in Threads : InQueue(t, s)

LayerHooked(list) == \E i \in 1..Len(list) : list[i] = "layer"

\* The layer's hook is registered, a span once open is not lost, and the hook
\* leaves a thread that has run it no span it owes.
Owing ==
  /\ LayerHooked(hooks)
  /\ \A t \in Threads : \A s \in owed[t] :
       /\ Somewhere(s)
       /\ phase[s] \notin {"unborn", "creating"}
       /\ ~LayerHooked(running[t]) /\ pc[t] # "clone" => ~InOpen(s)

Rescued ==
  exited # None =>
    \A s \in owed[exited] :
      InJournal(s) \/ \E u \in Threads \ {exited} : InQueue(u, s)

\* Where a span goes in a step.
Flows(s) ==
  /\ Somewhere(s) => Somewhere(s)'
  /\ InOpen(s)' => InOpen(s) \/ phase[s] = "creating"

LEMMA LookupFlows ==
  ASSUME Placed, NEW t \in Threads, Lookup(t), NEW s \in Spans
  PROVE  Flows(s)
<1>1. UNCHANGED <<open, journal>> /\ pc[t] = "lookup"
      /\ \A u \in Threads : u # t => queue'[u] = queue[u]
  BY DEF Lookup, Conclude, layerVars, Placed, Typed, TypeOK, ThreadsOK
<1>2. queue[t] = <<>>
  BY <1>1 DEF Placed, Typed, Control, Standing
<1>3. ~InQueue(t, s)
  BY <1>2 DEF InQueue
<1>4. /\ InOpen(s)' <=> InOpen(s)
      /\ InJournal(s)' <=> InJournal(s)
      /\ \A u \in Threads : u # t => (InQueue(u, s)' <=> InQueue(u, s))
  BY <1>1 DEF InOpen, InJournal, InQueue
<1> QED BY <1>3, <1>4 DEF Flows, Somewhere

LEMMA PushFlows ==
  ASSUME Placed, NEW t \in Threads, Push(t), NEW s \in Spans
  PROVE  Flows(s)
<1> DEFINE e == Head(queue[t]).entry
           n == Len(open)
<1>1. /\ open' = Append(open, e) /\ journal' = journal /\ pc[t] = "push"
      /\ queue' = [queue EXCEPT ![t] = <<>>]
  BY DEF Push
<1>2. /\ queue[t] \in Seq(RecordType) /\ Len(queue[t]) = 1
      /\ queue[t][1].entry.span = subject[t] /\ subject[t] # None
  BY <1>1 DEF Placed, Typed, Control, Standing, TypeOK, ThreadsOK
<1>3. e = queue[t][1].entry
  BY <1>2
<1>4. phase[subject[t]] = "creating"
  BY <1>1, <1>2 DEF Placed, Occupancy, SubjectOwned
<1> HIDE DEF e
<1>5. n \in Nat /\ Len(open') = n + 1 /\ open'[n + 1] = e
      /\ \A i \in 1..n : open'[i] = open[i]
  BY <1>1 DEF Placed, Typed, TypeOK, LayerOK
<1>6. n + 1 \in 1..Len(open') /\ 1..Len(open') = 1..n \cup {n + 1}
  BY <1>5
<1>7. InOpen(s)' <=> InOpen(s) \/ s = subject[t]
  BY <1>2, <1>3, <1>5, <1>6 DEF InOpen
<1>8. InQueue(t, s) => s = subject[t]
  BY <1>2 DEF InQueue
<1>9. \A u \in Threads : u # t => queue'[u] = queue[u]
  BY <1>1 DEF Placed, Typed, TypeOK, ThreadsOK
<1>10. /\ InJournal(s)' <=> InJournal(s)
       /\ \A u \in Threads : u # t => (InQueue(u, s)' <=> InQueue(u, s))
  BY <1>1, <1>9 DEF InJournal, InQueue
<1>11. Somewhere(s) => Somewhere(s)'
  BY <1>7, <1>8, <1>10 DEF Somewhere
<1> QED BY <1>4, <1>7, <1>11 DEF Flows

\* on_record changes nothing of the entries but a count of fields.
LEMMA FieldsOnly ==
  ASSUME Placed, NEW t \in Threads, NEW o \in Spans, RecordField(t, o)
  PROVE  /\ Len(open') = Len(open)
         /\ \A i \in 1..Len(open) : /\ open'[i].span = open[i].span
                                    /\ open'[i].parent = open[i].parent
<1>1. CASE o \in Admitted /\ Index(o) # {}
  <2> DEFINE k == FirstIndex(o)
  <2>1. k \in 1..Len(open)
    BY <1>1, FirstIndexFound DEF Index
  <2>2. open' = [open EXCEPT ![k].fields = @ + 1]
    BY <1>1 DEF RecordField, OwnEntry
  <2> HIDE DEF k
  <2>3. open \in Seq(EntryType)
    BY DEF Placed, Typed, TypeOK, LayerOK
  <2>4. /\ Len(open') = Len(open)
        /\ open'[k] = [open[k] EXCEPT !.fields = @ + 1]
        /\ \A i \in 1..Len(open) : i # k => open'[i] = open[i]
    BY <2>1, <2>2, <2>3
  <2>5. open'[k].span = open[k].span /\ open'[k].parent = open[k].parent
    BY <2>1, <2>4, SpanOfOpen DEF Placed, EntryType
  <2> QED BY <2>4, <2>5
<1>2. CASE ~(o \in Admitted /\ Index(o) # {})
  BY <1>2 DEF RecordField
<1> QED BY <1>1, <1>2

LEMMA RecordFieldFlows ==
  ASSUME Placed, NEW t \in Threads, NEW o \in Spans, RecordField(t, o),
         NEW s \in Spans
  PROVE  Flows(s)
<1>1. UNCHANGED <<journal, queue>>
  BY DEF RecordField, threadVars
<1>2. Len(open') = Len(open) /\ \A i \in 1..Len(open) : open'[i].span = open[i].span
  BY FieldsOnly
<1>3. InOpen(s)' <=> InOpen(s)
  BY <1>2 DEF InOpen
<1>4. /\ InJournal(s)' <=> InJournal(s)
      /\ \A u \in Threads : InQueue(u, s)' <=> InQueue(u, s)
  BY <1>1 DEF InJournal, InQueue
<1> QED BY <1>3, <1>4 DEF Flows, Somewhere

LEMMA CloseRecordedFlows ==
  ASSUME Placed, NEW t \in Threads, NEW o \in Spans, CloseRecorded(t, o),
         NEW s \in Spans
  PROVE  Flows(s)
<1> DEFINE i == FirstIndex(o)
           r == Closed("close", open[i])
           n == Len(open)
<1>1. /\ open' = TakenOut(i) /\ queue' = [queue EXCEPT ![t] = <<r>>]
      /\ journal' = journal /\ pc[t] = "idle" /\ Index(o) # {}
  BY DEF CloseRecorded, Running
<1>2. i \in 1..n
  BY <1>1, FirstIndexFound DEF Index
<1>3. r.entry = open[i]
  BY DEF Closed
<1> HIDE DEF i, r
<1>4. \A j \in 1..Len(open') :
        \E k \in 1..n : /\ k # i /\ open'[j] = open[k]
                        /\ k = IF j < i THEN j ELSE j + 1
  BY <1>1, <1>2, OpenWithout DEF Placed
<1>5. InOpen(s)' => InOpen(s)
  BY <1>4 DEF InOpen
<1>6. /\ Len(open') = n - 1
      /\ \A j \in 1..n - 1 : open'[j] = IF j < i THEN open[j] ELSE open[j + 1]
  BY <1>1, <1>2, Removed DEF TakenOut, Placed, Typed, TypeOK, LayerOK
<1>7. n \in Nat
  BY DEF Placed, Typed, TypeOK, LayerOK
<1>8. queue[t] = <<>>
  BY <1>1 DEF Placed, Typed, Control, Standing
<1>9. queue'[t] = <<r>> /\ \A u \in Threads : u # t => queue'[u] = queue[u]
  BY <1>1 DEF Placed, Typed, TypeOK, ThreadsOK
<1>10. InOpen(s) => InOpen(s)' \/ InQueue(t, s)'
  <2> SUFFICES ASSUME NEW k \in 1..n, open[k].span = s
               PROVE  InOpen(s)' \/ InQueue(t, s)'
    BY DEF InOpen
  <2> HIDE DEF n
  <2>1. CASE k = i
    <3>1. 1 \in 1..Len(queue'[t]) /\ queue'[t][1] = r
      BY <1>9
    <3> QED BY <1>3, <2>1, <3>1 DEF InQueue
  <2>2. CASE k < i
    <3>1. k \in 1..n - 1
      BY <1>2, <1>7, <2>2
    <3> QED BY <1>6, <2>2, <3>1 DEF InOpen
  <2>3. CASE k > i
    <3>1. k - 1 \in 1..n - 1 /\ ~(k - 1 < i) /\ k - 1 + 1 = k
      BY <1>2, <1>7, <2>3
    <3>2. open'[k - 1] = open[k]
      BY <1>6, <3>1
    <3> QED BY <1>6, <3>1, <3>2 DEF InOpen
  <2>4. k = i \/ k < i \/ k > i
    BY <1>2, <1>7
  <2> QED BY <2>1, <2>2, <2>3, <2>4
<1>11. /\ InJournal(s)' <=> InJournal(s)
       /\ \A u \in Threads : u # t => (InQueue(u, s)' <=> InQueue(u, s))
       /\ ~InQueue(t, s)
  BY <1>1, <1>8, <1>9 DEF InJournal, InQueue
<1> QED BY <1>5, <1>10, <1>11 DEF Flows, Somewhere

LEMMA WriteFlows ==
  ASSUME Placed, NEW t \in Threads, Write(t), NEW s \in Spans
  PROVE  Flows(s)
<1> DEFINE line == [record |-> Head(queue[t]), seq |-> drawn[t]]
           n == Len(journal)
<1>1. /\ journal' = Append(journal, line) /\ open' = open /\ pc[t] = "write"
      /\ queue' = [queue EXCEPT ![t] = Tail(@)]
  BY DEF Write
<1>2. queue[t] # <<>> /\ queue[t] \in Seq(RecordType)
  BY <1>1 DEF Placed, Typed, Control, Standing, TypeOK, ThreadsOK
<1>3. line.record = queue[t][1]
  BY <1>2
<1> HIDE DEF line
<1>4. n \in Nat /\ Len(journal') = n + 1 /\ journal'[n + 1] = line
      /\ \A i \in 1..n : journal'[i] = journal[i]
  BY <1>1 DEF Placed, Typed, TypeOK, LayerOK
<1>5. InJournal(s) => InJournal(s)'
  <2>1. \A i \in 1..n : i \in 1..n + 1
    BY <1>4
  <2> QED BY <1>4, <2>1 DEF InJournal
<1>6. queue'[t] = Tail(queue[t]) /\ \A u \in Threads : u # t => queue'[u] = queue[u]
  BY <1>1 DEF Placed, Typed, TypeOK, ThreadsOK
<1>7. InQueue(t, s) => InJournal(s)' \/ InQueue(t, s)'
  <2> SUFFICES ASSUME NEW i \in 1..Len(queue[t]), queue[t][i].entry.span = s
               PROVE  InJournal(s)' \/ InQueue(t, s)'
    BY DEF InQueue
  <2>1. CASE i = 1
    <3>1. n + 1 \in 1..Len(journal')
      BY <1>4
    <3> QED BY <1>3, <1>4, <2>1, <3>1 DEF InJournal
  <2>2. CASE i # 1
    <3>1. i - 1 \in 1..Len(Tail(queue[t])) /\ Tail(queue[t])[i - 1] = queue[t][i]
      BY <1>2, <2>2
    <3> QED BY <1>6, <3>1 DEF InQueue
  <2> QED BY <2>1, <2>2
<1>8. /\ InOpen(s)' <=> InOpen(s)
      /\ \A u \in Threads : u # t => (InQueue(u, s)' <=> InQueue(u, s))
  BY <1>1, <1>6 DEF InOpen, InQueue
<1> QED BY <1>5, <1>7, <1>8 DEF Flows, Somewhere

LEMMA CloseOpenFlows ==
  ASSUME Placed, NEW t \in Threads, CloseOpen(t), NEW s \in Spans
  PROVE  Flows(s) /\ ~InOpen(s)'
<1> DEFINE taken == [i \in 1..Len(open) |-> Closed("exit", Reverse(open)[i])]
           n == Len(open)
<1>1. /\ open' = <<>> /\ queue' = [queue EXCEPT ![t] = taken]
      /\ journal' = journal /\ pc[t] = "flush"
  BY DEF CloseOpen, OpenTaken, NextHook
<1>2. n \in Nat /\ open \in Seq(EntryType)
  BY DEF Placed, Typed, TypeOK, LayerOK
<1>3. Len(taken) = n /\ \A i \in 1..n : taken[i] = Closed("exit", Reverse(open)[i])
  BY <1>2
<1>4. queue[t] = <<>>
  BY <1>1 DEF Placed, Typed, Control, Standing
<1> HIDE DEF taken
<1>5. queue'[t] = taken /\ \A u \in Threads : u # t => queue'[u] = queue[u]
  BY <1>1 DEF Placed, Typed, TypeOK, ThreadsOK
<1>6. InOpen(s) => InQueue(t, s)'
  <2> SUFFICES ASSUME NEW k \in 1..n, open[k].span = s PROVE InQueue(t, s)'
    BY DEF InOpen
  <2> DEFINE i == n - k + 1
  <2>1. i \in 1..n /\ n - i + 1 = k
    BY <1>2
  <2>2. Reverse(open)[i] = open[k]
    BY <1>2, <2>1, Reversed
  <2> HIDE DEF i
  <2>3. taken[i].entry = open[k]
    <3>1. taken[i] = Closed("exit", open[k])
      BY <1>3, <2>1, <2>2
    <3> QED BY <3>1 DEF Closed
  <2> QED BY <1>3, <1>5, <2>1, <2>3 DEF InQueue
<1>7. ~InOpen(s)'
  BY <1>1 DEF InOpen
<1>8. /\ InJournal(s)' <=> InJournal(s)
      /\ \A u \in Threads : u # t => (InQueue(u, s)' <=> InQueue(u, s))
      /\ ~InQueue(t, s)
  BY <1>1, <1>4, <1>5 DEF InJournal, InQueue
<1> QED BY <1>6, <1>7, <1>8 DEF Flows, Somewhere

LEMMA SpansFlow ==
  ASSUME Placed, [Next]_vars, NEW s \in Spans
  PROVE  Flows(s)
<1>1. ASSUME UNCHANGED <<open, journal, queue>> PROVE Flows(s)
  BY <1>1 DEF Flows, Somewhere, InOpen, InJournal, InQueue
<1>2. ASSUME NEW t \in Threads, Begin(t) PROVE Flows(s)
  <2>1. CASE \E o \in Spans : NewSpan(t, o) \/ CloseUnrecorded(t, o)
    BY <1>1, <2>1 DEF NewSpan, CloseUnrecorded, layerVars, threadVars
  <2>2. CASE LogEvent(t)
    BY <1>1, <2>2 DEF LogEvent
  <2>3. CASE CallFlush(t) \/ CallExit(t)
    BY <1>1, <2>3 DEF CallFlush, CallExit, layerVars
  <2> QED BY <1>2, <2>1, <2>2, <2>3, RecordFieldFlows, CloseRecordedFlows
          DEF Begin
<1>3. ASSUME NEW t \in Threads, Proceed(t) PROVE Flows(s)
  <2>1. CASE Draw(t) \/ CloneHooks(t) \/ EndFlush(t)
    BY <1>1, <2>1 DEF Draw, CloneHooks, EndFlush, layerVars
  <2>2. CASE RunRegistrar(t) \/ RunPlain(t)
    BY <1>1, <2>2 DEF RunRegistrar, RunPlain, layerVars
  <2> QED BY <1>3, <2>1, <2>2, LookupFlows, PushFlows, WriteFlows,
             CloseOpenFlows DEF Proceed
<1>4. CASE UNCHANGED vars
  BY <1>1, <1>4 DEF vars, layerVars, threadVars
<1> QED BY <1>2, <1>3, <1>4 DEF Next

\* A hook that has run leaves the others to run.
LEMMA HookRun ==
  ASSUME Placed, NEW t \in Threads, NEW hook, NextHook(t, hook), hook # "layer",
         LayerHooked(running[t])
  PROVE  LayerHooked(running'[t])
<1>1. running[t] \in Seq(Hook) /\ running[t] # <<>> /\ Last(running[t]) = hook
      /\ running'[t] = Front(running[t])
  BY DEF NextHook, Placed, Typed, TypeOK, ThreadsOK
<1> DEFINE n == Len(running[t])
<1>2. /\ Len(Front(running[t])) = n - 1 /\ n \in Nat
      /\ \A j \in 1..n - 1 : Front(running[t])[j] = running[t][j]
      /\ running[t][n] = hook
  BY <1>1, Fronted
<1>3. PICK i \in 1..n : running[t][i] = "layer"
  BY DEF LayerHooked
<1> HIDE DEF n
<1>4. i \in 1..n - 1
  BY <1>2, <1>3
<1> QED BY <1>1, <1>2, <1>3, <1>4 DEF LayerHooked

\* What a step changes of a thread's debts.
LEMMA OwedStep ==
  ASSUME Placed, Owing, [Next]_vars, NEW t \in Threads
  PROVE  \/ owed'[t] = {open[i].span : i \in 1..Len(open)} /\ pc'[t] = "clone"
         \/ /\ owed'[t] = owed[t]
            /\ \/ pc'[t] = "clone"
               \/ LayerHooked(running'[t])
               \/ pc[t] # "clone" /\ ~LayerHooked(running[t])
               \/ open' = <<>>
<1> DEFINE Owes == owed'[t] = owed[t]
           Runs == \/ pc'[t] = "clone"
                   \/ LayerHooked(running'[t])
                   \/ pc[t] # "clone" /\ ~LayerHooked(running[t])
                   \/ open' = <<>>
<1> USE DEF Placed, Typed, TypeOK, ThreadsOK, ExitOK
<1>1. ASSUME Owes, running'[t] = running[t],
             pc[t] = "clone" => pc'[t] = "clone"
      PROVE  Owes /\ Runs
  BY <1>1
<1>2. ASSUME NEW u \in Threads, u # t, Begin(u) \/ Proceed(u) PROVE Owes /\ Runs
  <2>1. CASE Begin(u)
    <3>1. CASE \E s \in Spans : \/ NewSpan(u, s) \/ RecordField(u, s)
                                \/ CloseUnrecorded(u, s) \/ CloseRecorded(u, s)
      BY <1>1, <1>2, <3>1 DEF NewSpan, RecordField, CloseUnrecorded,
         CloseRecorded, Goto, exitVars, threadVars
    <3>2. CASE LogEvent(u) \/ CallFlush(u) \/ CallExit(u)
      BY <1>1, <1>2, <3>2 DEF LogEvent, CallFlush, CallExit, LockHooks, Goto,
         exitVars
    <3> QED BY <2>1, <3>1, <3>2 DEF Begin
  <2>2. CASE Proceed(u)
    <3>1. CASE Lookup(u) \/ Push(u) \/ Draw(u)
      BY <1>1, <1>2, <3>1 DEF Lookup, Conclude, Push, Draw, Goto, exitVars
    <3>2. CASE Write(u)
      BY <1>1, <1>2, <3>2 DEF Write, Goto, exitVars
    <3>3. CASE CloneHooks(u) \/ EndFlush(u)
      BY <1>1, <1>2, <3>3 DEF CloneHooks, EndFlush, Goto
    <3>4. CASE CloseOpen(u) \/ RunRegistrar(u) \/ RunPlain(u)
      BY <1>1, <1>2, <3>4 DEF CloseOpen, RunRegistrar, RunPlain, NextHook, Goto,
         exitVars
    <3> QED BY <2>2, <3>1, <3>2, <3>3, <3>4 DEF Proceed
  <2> QED BY <1>2, <2>1, <2>2
<1>3. ASSUME CallExit(t)
      PROVE  owed'[t] = {open[i].span : i \in 1..Len(open)} /\ pc'[t] = "clone"
  BY <1>3 DEF CallExit, LockHooks, Goto
<1>4. ASSUME Begin(t), ~CallExit(t) PROVE Owes /\ Runs
  <2>1. CASE \E s \in Spans : \/ NewSpan(t, s) \/ RecordField(t, s)
                              \/ CloseUnrecorded(t, s) \/ CloseRecorded(t, s)
    <3>1. UNCHANGED <<exitVars, running>> /\ pc[t] = "idle"
      BY <2>1 DEF NewSpan, RecordField, CloseUnrecorded, CloseRecorded, Running,
                  threadVars
    <3> QED BY <1>1, <3>1 DEF exitVars
  <2>2. CASE LogEvent(t)
    <3>1. UNCHANGED <<exitVars, running>> /\ pc[t] = "idle"
      BY <2>2 DEF LogEvent, Running
    <3> QED BY <1>1, <3>1 DEF exitVars
  <2>3. CASE CallFlush(t)
    BY <2>3 DEF CallFlush, LockHooks, Goto
  <2> QED BY <1>4, <2>1, <2>2, <2>3 DEF Begin
<1>5. ASSUME Proceed(t) PROVE Owes /\ Runs
  <2>1. CASE Lookup(t) \/ Push(t) \/ Draw(t) \/ Write(t)
    <3>1. UNCHANGED <<exitVars, running>> /\ pc[t] # "clone"
      BY <2>1 DEF Lookup, Push, Draw, Write
    <3> QED BY <1>1, <3>1 DEF exitVars
  <2>2. CASE CloneHooks(t)
    <3>1. owed' = owed /\ running' = [running EXCEPT ![t] = hooks]
      BY <2>2 DEF CloneHooks
    <3>2. running'[t] = hooks
      BY <3>1
    <3> QED BY <3>1, <3>2 DEF Owing
  <2>3. CASE EndFlush(t)
    <3>1. UNCHANGED <<owed, running>> /\ pc[t] = "flush"
      BY <2>3 DEF EndFlush
    <3> QED BY <1>1, <3>1
  <2>4. CASE CloseOpen(t)
    BY <2>4 DEF CloseOpen, OpenTaken, exitVars
  <2>5. CASE RunRegistrar(t) \/ RunPlain(t)
    <3>1. owed' = owed /\ pc[t] = "flush"
          /\ (NextHook(t, "registrar") \/ NextHook(t, "plain"))
      BY <2>5 DEF RunRegistrar, RunPlain, NextHook, exitVars
    <3>2. LayerHooked(running[t]) => LayerHooked(running'[t])
      BY <3>1, HookRun
    <3> QED BY <3>1, <3>2
  <2> QED BY <1>5, <2>1, <2>2, <2>3, <2>4, <2>5 DEF Proceed
<1>6. CASE UNCHANGED vars
  <2>1. UNCHANGED <<owed, running, pc>>
    BY <1>6 DEF vars, exitVars, threadVars
  <2> QED BY <1>1, <2>1
<1>7. CASE \E u \in Threads : Begin(u) \/ Proceed(u)
  BY <1>2, <1>3, <1>4, <1>5, <1>7
<1> QED BY <1>6, <1>7 DEF Next

LEMMA HooksStep ==
  ASSUME Placed, Owing, [Next]_vars
  PROVE  LayerHooked(hooks)'
<1>1. hooks \in Seq(Hook)
  BY DEF Placed, Typed, TypeOK, ExitOK
<1>2. hooks' = hooks \/ hooks' = Append(hooks, "plain")
  <2>1. CASE UNCHANGED vars
    BY <2>1 DEF vars, exitVars
  <2>2. ASSUME NEW t \in Threads, Begin(t) PROVE hooks' = hooks
    <3>1. CASE \E s \in Spans : \/ NewSpan(t, s) \/ RecordField(t, s)
                                \/ CloseUnrecorded(t, s) \/ CloseRecorded(t, s)
      BY <3>1 DEF NewSpan, RecordField, CloseUnrecorded, CloseRecorded, exitVars
    <3>2. CASE LogEvent(t) \/ CallFlush(t) \/ CallExit(t)
      BY <3>2 DEF LogEvent, CallFlush, CallExit, exitVars
    <3> QED BY <2>2, <3>1, <3>2 DEF Begin
  <2>3. ASSUME NEW t \in Threads, Proceed(t), ~RunRegistrar(t) PROVE hooks' = hooks
    BY <2>3 DEF Proceed, Lookup, Push, Draw, Write, CloneHooks, HooksKept, CloseOpen,
                RunPlain, EndFlush, exitVars
  <2>4. ASSUME NEW t \in Threads, RunRegistrar(t)
        PROVE  hooks' = hooks \/ hooks' = Append(hooks, "plain")
    BY <2>4 DEF RunRegistrar, Register
  <2> QED BY <2>1, <2>2, <2>3, <2>4 DEF Next
<1>3. PICK i \in 1..Len(hooks) : hooks[i] = "layer"
  BY DEF Owing, LayerHooked
<1>4. i \in 1..Len(hooks') /\ hooks'[i] = "layer"
  <2>1. CASE hooks' = hooks
    BY <1>3, <2>1
  <2>2. CASE hooks' = Append(hooks, "plain")
    BY <1>1, <1>3, <2>2
  <2> QED BY <1>2, <2>1, <2>2
<1> QED BY <1>4 DEF LayerHooked

LEMMA OwingStep ==
  ASSUME Placed, Placed', Owing, [Next]_vars
  PROVE  Owing'
<1>1. LayerHooked(hooks)'
  BY HooksStep
<1>2. ASSUME NEW t \in Threads, NEW s \in owed'[t]
      PROVE  /\ Somewhere(s)'
             /\ phase'[s] \notin {"unborn", "creating"}
             /\ ~LayerHooked(running'[t]) /\ pc'[t] # "clone" => ~InOpen(s)'
  <2>1. CASE owed'[t] = {open[i].span : i \in 1..Len(open)} /\ pc'[t] = "clone"
    <3>1. PICK i \in 1..Len(open) : open[i].span = s
      BY <1>2, <2>1
    <3>2. s \in Spans /\ Somewhere(s) /\ phase[s] = "live"
      BY <3>1, SpanOfOpen
      DEF Somewhere, InOpen, Placed, Occupancy, OpenIsCurrent
    <3>3. Somewhere(s)' /\ phase'[s] \notin {"unborn", "creating"}
      BY <3>2, SpansFlow, SpanHistory DEF Flows, History
    <3> QED BY <2>1, <3>3
  <2>2. CASE /\ owed'[t] = owed[t]
             /\ \/ pc'[t] = "clone"
                \/ LayerHooked(running'[t])
                \/ pc[t] # "clone" /\ ~LayerHooked(running[t])
                \/ open' = <<>>
    <3>1. s \in owed[t] /\ s \in Spans
      BY <1>2, <2>2 DEF Placed, Typed, TypeOK, ExitOK, Admitted
    <3>2. Somewhere(s) /\ phase[s] \notin {"unborn", "creating"}
      BY <3>1 DEF Owing
    <3>3. Somewhere(s)' /\ phase'[s] \notin {"unborn", "creating"}
      BY <3>1, <3>2, SpansFlow, SpanHistory DEF Flows, History
    <3>4. InOpen(s)' => InOpen(s)
      BY <3>1, <3>2, SpansFlow DEF Flows
    <3>5. open' = <<>> => ~InOpen(s)'
      BY DEF InOpen
    <3> QED BY <2>2, <3>1, <3>3, <3>4, <3>5 DEF Owing
  <2> QED BY <2>1, <2>2, OwedStep
<1> QED BY <1>1, <1>2 DEF Owing

\* The process stops at exit; until then nothing is claimed.
LEMMA RescuedStep ==
  ASSUME Placed, Owing, Rescued, [Next]_vars
  PROVE  Rescued'
<1>1. CASE UNCHANGED vars
  BY <1>1 DEF vars, layerVars, exitVars, threadVars, Rescued, InJournal, InQueue
<1>2. ASSUME NEW t \in Threads, Begin(t) \/ Proceed(t), ~EndFlush(t)
      PROVE  exited' = None
  <2>1. CASE Begin(t)
    <3>1. CASE \E s \in Spans : \/ NewSpan(t, s) \/ RecordField(t, s)
                                \/ CloseUnrecorded(t, s) \/ CloseRecorded(t, s)
      BY <3>1 DEF NewSpan, RecordField, CloseUnrecorded, CloseRecorded, Running,
                  exitVars
    <3>2. CASE LogEvent(t) \/ CallFlush(t) \/ CallExit(t)
      BY <3>2 DEF LogEvent, CallFlush, CallExit, Running, exitVars
    <3> QED BY <2>1, <3>1, <3>2 DEF Begin
  <2>2. CASE Proceed(t)
    BY <1>2, <2>2 DEF Proceed, Lookup, Push, Draw, Write, CloneHooks, CloseOpen,
                      RunRegistrar, RunPlain, NextHook, exitVars
  <2> QED BY <1>2, <2>1, <2>2
<1>3. ASSUME NEW t \in Threads, EndFlush(t) PROVE Rescued'
  <2>1. /\ UNCHANGED <<open, journal, queue, owed, running>>
        /\ pc[t] = "flush" /\ running[t] = <<>> /\ exited' \in {t, None}
    BY <1>3 DEF EndFlush, layerVars
  <2>2. queue[t] = <<>> /\ ~LayerHooked(running[t])
    BY <2>1 DEF Placed, Typed, Control, Standing, LayerHooked
  <2>3. ASSUME exited' = t, NEW s \in owed[t]
        PROVE  InJournal(s) \/ \E u \in Threads \ {t} : InQueue(u, s)
    <3>1. Somewhere(s) /\ ~InOpen(s)
      BY <2>1, <2>2, <2>3 DEF Owing
    <3>2. ~InQueue(t, s)
      BY <2>2 DEF InQueue
    <3> QED BY <3>1, <3>2 DEF Somewhere
  <2>4. \A s : /\ InJournal(s)' <=> InJournal(s)
               /\ \A u \in Threads : InQueue(u, s)' <=> InQueue(u, s)
    BY <2>1 DEF InJournal, InQueue
  <2> QED BY <2>1, <2>3, <2>4 DEF Rescued
<1>4. ASSUME exited' = None PROVE Rescued'
  BY <1>4 DEF Rescued
<1> QED BY <1>1, <1>2, <1>3, <1>4 DEF Next

\* exit rescues what was open when it was called, unless another thread had
\* taken it out of the layer: ExitRescues, for every process in which the layer
\* has registered its hook, as building one does.
THEOREM SpansRescued ==
  ASSUME LayerHooked(FirstHooks)
  PROVE  SafeSpec => []ExitRescues
<1>1. Init => Owing /\ Rescued
  <2> SUFFICES ASSUME Init PROVE Owing /\ Rescued
    OBVIOUS
  <2>1. hooks = FirstHooks /\ owed = [t \in Threads |-> {}] /\ exited = None
    BY DEF Init
  <2> QED BY <2>1 DEF Owing, Rescued
<1>2. Placed /\ Placed' /\ Owing /\ Rescued /\ [Next]_vars => Owing' /\ Rescued'
  BY OwingStep, RescuedStep
<1>3. ASSUME Placed, Rescued PROVE ExitRescues
  <2> SUFFICES ASSUME exited # None, NEW s \in owed[exited]
               PROVE  s \in Printed \cup UNION {Carried(u) : u \in Threads \ {exited}}
    BY DEF ExitRescues
  <2>1. s # None
    BY <1>3, SpanAssumption DEF Placed, Typed, TypeOK, ExitOK, Admitted
  <2>2. CASE InJournal(s)
    BY <2>1, <2>2 DEF InJournal, Printed, Records
  <2>3. CASE \E u \in Threads \ {exited} : InQueue(u, s)
    <3>1. PICK u \in Threads \ {exited} : InQueue(u, s)
      BY <2>3
    <3>2. s \in Carried(u)
      BY <2>1, <3>1 DEF InQueue, Carried
    <3> QED BY <3>2
  <2> QED BY <1>3, <2>2, <2>3 DEF Rescued
<1> QED BY <1>1, <1>2, <1>3, KinshipHolds, PTL DEF SafeSpec, Placed

(***************************************************************************)
(* The parent a span gets, as long as nobody flushes.                      *)
(***************************************************************************)
Undisturbed == flushes = 0 /\ exiting = {}

\* A live span the layer records is in the layer; whatever a thread that opens
\* a span is left to ask, the nearest of it is the nearest of all; and what it
\* found it keeps until it pushes.
Calm(t) == pc[t] \notin {"clone", "flush"} /\ back[t] = "idle"

LiveOpen == \A s \in Admitted : phase[s] = "live" => InOpen(s)

Seeks(t) ==
  pc[t] = "lookup" /\ subject[t] # None =>
    \A p \in Parent :
      Nearest(scope[t], p) => Nearest(ancestors[subject[t]], p)

Names(t) ==
  pc[t] = "push" => Nearest(ancestors[subject[t]], queue[t][1].entry.parent)

OpenNear == \A i \in 1..Len(open) : Nearest(ancestors[open[i].span], open[i].parent)

Nears ==
  /\ \A t \in Threads : Calm(t) /\ Seeks(t) /\ Names(t)
  /\ LiveOpen
  /\ OpenNear

\* What is left when the nearest was not among the first.
LEMMA NearestBehind ==
  ASSUME NEW line \in Seq(Spans), line # <<>>, Head(line) \notin Admitted,
         NEW p, Nearest(Tail(line), p)
  PROVE  Nearest(line, p)
<1>1. /\ Len(line) \in Nat /\ Len(line) > 0 /\ Len(Tail(line)) = Len(line) - 1
      /\ \A k \in 1..Len(Tail(line)) : Tail(line)[k] = line[k + 1]
      /\ line[1] \notin Admitted
  OBVIOUS
<1> DEFINE n == Len(line)
           rest == Tail(line)
<1> HIDE DEF n, rest
<1>2. /\ n \in Nat /\ Len(rest) = n - 1 /\ line[1] \notin Admitted
      /\ \A k \in 1..n - 1 : rest[k] = line[k + 1]
  BY <1>1 DEF n, rest
<1>3. CASE p = None /\ \A k \in 1..n - 1 : rest[k] \notin Admitted
  <2>1. ASSUME NEW k \in 1..n PROVE line[k] \notin Admitted
    <3>1. CASE k = 1
      BY <1>2, <3>1
    <3>2. CASE k # 1
      <4>1. k - 1 \in 1..n - 1 /\ k - 1 + 1 = k
        BY <1>2, <3>2
      <4> QED BY <1>2, <1>3, <4>1
    <3> QED BY <3>1, <3>2
  <2> QED BY <1>3, <2>1 DEF Nearest, n
<1>4. CASE /\ p \in Admitted
           /\ \E k \in 1..n - 1 :
                rest[k] = p /\ \A j \in 1..(k - 1) : rest[j] \notin Admitted
  <2>1. PICK k \in 1..n - 1 :
          rest[k] = p /\ \A j \in 1..(k - 1) : rest[j] \notin Admitted
    BY <1>4
  <2>2. k + 1 \in 1..n /\ line[k + 1] = p
    BY <1>2, <2>1
  <2>3. ASSUME NEW j \in 1..(k + 1 - 1) PROVE line[j] \notin Admitted
    <3>1. CASE j = 1
      BY <1>2, <3>1
    <3>2. CASE j # 1
      <4>1. j - 1 \in 1..(k - 1) /\ j - 1 \in 1..n - 1 /\ j - 1 + 1 = j
        BY <1>2, <3>2
      <4>2. rest[j - 1] \notin Admitted /\ rest[j - 1] = line[j]
        BY <1>2, <2>1, <4>1
      <4> QED BY <4>2
    <3> QED BY <3>1, <3>2
  <2> QED BY <1>4, <2>2, <2>3 DEF Nearest, n
<1> QED BY <1>2, <1>3, <1>4 DEF Nearest, rest

LEMMA NearestFirst ==
  ASSUME NEW line \in Seq(Spans), line # <<>>, Head(line) \in Admitted
  PROVE  Nearest(line, Head(line))
<1>1. 1 \in 1..Len(line) /\ line[1] = Head(line) /\ \A j \in 1..(1 - 1) : FALSE
  OBVIOUS
<1> QED BY <1>1 DEF Nearest

\* The layer knows every live span it records.
LEMMA KnowsLive ==
  ASSUME Placed, LiveOpen, NEW s \in Admitted, phase[s] = "live"
  PROVE  IdOf(s) = s
<1>1. PICK i \in 1..Len(open) : open[i].span = s
  BY DEF LiveOpen, InOpen
<1>2. i \in Index(s) /\ s \in Spans
  BY <1>1 DEF Placed, Occupancy, OpenIsCurrent, Index, Admitted
<1>3. IdOf(s) = open[FirstIndex(s)].span /\ FirstIndex(s) \in Index(s)
  BY <1>2, FirstIndexFound DEF IdOf
<1>4. open[FirstIndex(s)].span = s
  BY <1>2, <1>3, EntryIsOwn DEF Placed
<1> QED BY <1>3, <1>4

\* A lookup that goes on leaves out a span the layer does not record; one that
\* ends names the nearest.
LEMMA LookupNears ==
  ASSUME Placed, Nears, NEW t \in Threads, Lookup(t)
  PROVE  Seeks(t)' /\ Names(t)'
<1>1. UNCHANGED <<phase, slot, ancestors, open, subject>> /\ pc[t] = "lookup"
  BY DEF Lookup, registryVars, layerVars
<1>2. /\ scope[t] \in Seq(Spans)
      /\ scope[t] # <<>> => /\ Head(scope[t]) \in Spans
                            /\ phase[Head(scope[t])] = "live"
  <2>1. scope[t] \in Seq(Spans)
    BY ScopeTyped DEF Placed
  <2>2. ASSUME scope[t] # <<>>
        PROVE  Head(scope[t]) \in Members(scope[t]) /\ Head(scope[t]) \in Spans
    <3>1. 1 \in 1..Len(scope[t]) /\ Head(scope[t]) = scope[t][1]
      BY <2>1, <2>2
    <3> QED BY <2>1, <3>1 DEF Members
  <2> QED BY <2>1, <2>2 DEF Placed, Kinship, ScopesLive
<1>3. ASSUME NEW parent \in Parent, Conclude(t, parent), Nearest(scope[t], parent)
      PROVE  Seeks(t)' /\ Names(t)'
  <2>1. CASE subject[t] # None
    <3> DEFINE r == Closed("open", Entry(subject[t], parent))
    <3>1. queue' = [queue EXCEPT ![t] = <<r>>] /\ pc' = [pc EXCEPT ![t] = "push"]
      BY <1>3, <2>1 DEF Conclude, Goto
    <3>2. r.entry.parent = parent
      BY DEF Closed, Entry
    <3> HIDE DEF r
    <3>3. queue'[t][1].entry.parent = parent /\ pc'[t] = "push"
      BY <3>1, <3>2 DEF Placed, Typed, TypeOK, ThreadsOK
    <3>4. Nearest(ancestors[subject[t]], parent)
      BY <1>1, <1>3, <2>1 DEF Nears, Seeks
    <3> QED BY <1>1, <3>3, <3>4 DEF Seeks, Names, Nearest, Admitted
  <2>2. CASE subject[t] = None
    <3>1. pc'[t] = "draw"
      BY <1>3, <2>2 DEF Conclude, Goto, Placed, Typed, TypeOK, ThreadsOK
    <3> QED BY <3>1 DEF Seeks, Names
  <2> QED BY <2>1, <2>2
<1>4. CASE scope[t] = <<>> /\ Conclude(t, None)
  <2>1. Nearest(scope[t], None)
    BY <1>4 DEF Nearest
  <2> QED BY <1>3, <1>4, <2>1 DEF Parent
<1>5. CASE /\ scope[t] # <<>> /\ IdOf(Head(scope[t])) # None
           /\ Conclude(t, IdOf(Head(scope[t])))
  <2>1. IdOf(Head(scope[t])) = Head(scope[t])
    BY <1>2, <1>5, IdOfLive DEF Placed
  <2>2. IdOf(Head(scope[t])) \in Admitted
    BY <1>5, IdOfTyped DEF Placed, Typed, Parent
  <2>3. Nearest(scope[t], IdOf(Head(scope[t])))
    BY <1>2, <1>5, <2>1, <2>2, NearestFirst
  <2> QED BY <1>3, <1>5, <2>2, <2>3 DEF Parent
<1>6. CASE /\ scope[t] # <<>> /\ IdOf(Head(scope[t])) = None
           /\ scope' = [scope EXCEPT ![t] = Tail(@)] /\ UNCHANGED <<queue, pc>>
  <2>1. Head(scope[t]) \notin Admitted
    <3>1. Head(scope[t]) # None
      BY <1>2, <1>6, SpanAssumption
    <3> QED BY <1>2, <1>6, <3>1, KnowsLive DEF Nears
  <2>2. scope'[t] = Tail(scope[t])
    BY <1>6 DEF Placed, Typed, TypeOK, ThreadsOK
  <2>3. ASSUME NEW p \in Parent, Nearest(scope'[t], p), subject[t] # None
        PROVE  Nearest(ancestors[subject[t]], p)
    <3>1. Nearest(scope[t], p)
      BY <1>2, <1>6, <2>1, <2>2, <2>3, NearestBehind
    <3> QED BY <1>1, <2>3, <3>1 DEF Nears, Seeks
  <2>4. Seeks(t)'
    BY <1>1, <2>3 DEF Seeks, Nearest, Parent, Admitted
  <2>5. Names(t)'
    BY <1>1, <1>6 DEF Names
  <2> QED BY <2>4, <2>5
<1> QED BY <1>4, <1>5, <1>6 DEF Lookup

\* Threads a step leaves alone go on seeking and naming what they did.
LEMMA OthersNear ==
  ASSUME Placed, Nears, [Next]_vars, NEW u \in Threads,
         pc'[u] = pc[u], subject'[u] = subject[u], scope'[u] = scope[u],
         queue'[u] = queue[u]
  PROVE  Seeks(u)' /\ Names(u)'
<1>1. ASSUME pc[u] \in {"lookup", "push"}, subject[u] # None
      PROVE  ancestors'[subject[u]] = ancestors[subject[u]]
  <2>1. subject[u] \in Spans /\ phase[subject[u]] = "creating"
    BY <1>1, SubjectPhase DEF Placed, Occupancy, SubjectOwned
  <2> QED BY <2>1, SpanHistory DEF History
<1>2. pc[u] = "push" => subject[u] # None
  BY DEF Placed, Typed, Control, Standing
<1>3. Seeks(u)'
  <2> SUFFICES ASSUME pc[u] = "lookup", subject[u] # None, NEW p \in Parent,
                      Nearest(scope[u], p)'
               PROVE  Nearest(ancestors[subject[u]], p)'
    BY DEF Seeks, Parent, Admitted
  <2>1. Nearest(scope[u], p)
    BY DEF Nearest, Admitted
  <2>2. Nearest(ancestors[subject[u]], p)
    BY <2>1 DEF Nears, Seeks
  <2> QED BY <1>1, <2>2 DEF Nearest, Admitted
<1>4. Names(u)'
  BY <1>1, <1>2 DEF Nears, Names, Nearest, Admitted
<1> QED BY <1>3, <1>4

\* Entries that stay keep their parents nearest.
LEMMA EntriesNear ==
  ASSUME Placed, Nears, [Next]_vars,
         \A i \in 1..Len(open') : \E k \in 1..Len(open) :
           open'[i].span = open[k].span /\ open'[i].parent = open[k].parent
  PROVE  OpenNear'
<1> SUFFICES ASSUME NEW i \in 1..Len(open')
             PROVE  Nearest(ancestors[open[i].span], open[i].parent)'
  BY DEF OpenNear
<1>1. PICK k \in 1..Len(open) :
        open'[i].span = open[k].span /\ open'[i].parent = open[k].parent
  OBVIOUS
<1>2. open[k].span \in Spans /\ phase[open[k].span] = "live"
  BY SpanOfOpen DEF Placed, Occupancy, OpenIsCurrent
<1>3. ancestors'[open[k].span] = ancestors[open[k].span]
  BY <1>2, SpanHistory DEF History
<1>4. Nearest(ancestors[open[k].span], open[k].parent)
  BY DEF Nears, OpenNear
<1> QED BY <1>1, <1>3, <1>4 DEF Nearest, Admitted

LEMMA NewSpanNears ==
  ASSUME Placed, Nears, NEW t \in Threads, NEW s \in Spans, NewSpan(t, s)
  PROVE  Nears'
<1>1. PICK line :
        /\ ancestors' = [ancestors EXCEPT ![s] = line]
        /\ scope' = [scope EXCEPT ![t] = IF s \in Admitted
                                         THEN FromInner(line) ELSE <<>>]
  BY DEF NewSpan
<1>2. /\ \/ /\ s \in Admitted /\ phase' = [phase EXCEPT ![s] = "creating"]
            /\ subject' = [subject EXCEPT ![t] = s]
            /\ pc' = [pc EXCEPT ![t] = "lookup"]
         \/ /\ s \notin Admitted /\ phase' = [phase EXCEPT ![s] = "live"]
            /\ UNCHANGED <<subject, pc>>
      /\ UNCHANGED <<open, queue, back>> /\ pc[t] = "idle"
  BY DEF NewSpan, Running, Goto, layerVars
<1>3. [Next]_vars
  BY DEF Next, Begin
<1>4. \A u \in Threads : u # t =>
        /\ pc'[u] = pc[u] /\ queue'[u] = queue[u]
        /\ subject'[u] = subject[u] /\ scope'[u] = scope[u]
  BY <1>1, <1>2 DEF Placed, Typed, TypeOK, ThreadsOK
<1>5. Calm(t)' /\ Names(t)'
  BY <1>2 DEF Nears, Calm, Names, Placed, Typed, TypeOK, ThreadsOK
<1>6. Seeks(t)'
  <2>1. CASE s \in Admitted
    <3>1. scope'[t] = line /\ subject'[t] = s /\ ancestors'[s] = line
      BY <1>1, <1>2, <2>1
      DEF FromInner, Placed, Typed, TypeOK, ThreadsOK, RegistryOK
    <3> QED BY <3>1 DEF Seeks
  <2>2. CASE s \notin Admitted
    BY <1>2, <2>2 DEF Seeks
  <2> QED BY <2>1, <2>2
<1>7. \A u \in Threads : Calm(u)' /\ Seeks(u)' /\ Names(u)'
  <2> SUFFICES ASSUME NEW u \in Threads, u # t PROVE Calm(u)' /\ Seeks(u)' /\ Names(u)'
    BY <1>5, <1>6
  <2>1. Calm(u)'
    BY <1>2, <1>4 DEF Nears, Calm
  <2> QED BY <1>3, <1>4, <2>1, OthersNear
<1>8. LiveOpen'
  <2>1. \A o \in Admitted : phase'[o] = "live" => phase[o] = "live"
    BY <1>2 DEF Admitted, Placed, Typed, TypeOK, RegistryOK
  <2> QED BY <1>2, <2>1 DEF Nears, LiveOpen, InOpen, Admitted
<1>9. OpenNear'
  BY <1>2, <1>3, EntriesNear
<1> QED BY <1>7, <1>8, <1>9 DEF Nears

\* A step of one thread that keeps live spans and their entries.
LEMMA StepNears ==
  ASSUME Placed, Nears, [Next]_vars, NEW t \in Threads,
         Calm(t)', Seeks(t)', Names(t)',
         \A u \in Threads : u # t =>
           /\ pc'[u] = pc[u] /\ queue'[u] = queue[u] /\ back'[u] = back[u]
           /\ subject'[u] = subject[u] /\ scope'[u] = scope[u],
         \A s \in Admitted : phase'[s] = "live" => phase[s] = "live",
         \A s \in Admitted : phase'[s] = "live" /\ InOpen(s) => InOpen(s)',
         \A i \in 1..Len(open') : \E k \in 1..Len(open) :
           open'[i].span = open[k].span /\ open'[i].parent = open[k].parent
  PROVE  Nears'
<1>1. \A u \in Threads : Calm(u)' /\ Seeks(u)' /\ Names(u)'
  <2> SUFFICES ASSUME NEW u \in Threads, u # t PROVE Calm(u)' /\ Seeks(u)' /\ Names(u)'
    OBVIOUS
  <2>1. Calm(u)'
    BY DEF Nears, Calm
  <2> QED BY <2>1, OthersNear
<1>2. LiveOpen'
  BY DEF Nears, LiveOpen, Admitted
<1>3. OpenNear'
  BY EntriesNear
<1> QED BY <1>1, <1>2, <1>3 DEF Nears

LEMMA RecordFieldNears ==
  ASSUME Placed, Nears, NEW t \in Threads, NEW o \in Spans, RecordField(t, o)
  PROVE  Nears'
<1>1. UNCHANGED <<phase, slot, ancestors, threadVars>> /\ pc[t] = "idle"
  BY DEF RecordField, registryVars, Running
<1>2. /\ Len(open') = Len(open)
      /\ \A i \in 1..Len(open) : /\ open'[i].span = open[i].span
                                 /\ open'[i].parent = open[i].parent
  BY FieldsOnly
<1>3. [Next]_vars
  BY DEF Next, Begin
<1>4. \A s : InOpen(s) => InOpen(s)'
  BY <1>2 DEF InOpen
<1>5. Calm(t)' /\ Seeks(t)' /\ Names(t)'
  BY <1>1 DEF Nears, Calm, Seeks, Names, threadVars
<1>6. \A u \in Threads :
        /\ pc'[u] = pc[u] /\ queue'[u] = queue[u] /\ back'[u] = back[u]
        /\ subject'[u] = subject[u] /\ scope'[u] = scope[u]
  BY <1>1 DEF threadVars
<1> QED BY <1>1, <1>2, <1>3, <1>4, <1>5, <1>6, StepNears

LEMMA CloseUnrecordedNears ==
  ASSUME Placed, Nears, NEW t \in Threads, NEW o \in Spans, CloseUnrecorded(t, o)
  PROVE  Nears'
<1>1. /\ UNCHANGED <<open, threadVars>> /\ pc[t] = "idle"
      /\ phase' = [phase EXCEPT ![o] = "gone"]
  BY DEF CloseUnrecorded, layerVars, Running
<1>2. [Next]_vars
  BY DEF Next, Begin
<1>3. \A s \in Spans : phase'[s] = "live" => phase[s] = "live"
  BY <1>1 DEF Placed, Typed, TypeOK, RegistryOK
<1>4. \A u \in Threads :
        /\ pc'[u] = pc[u] /\ queue'[u] = queue[u] /\ back'[u] = back[u]
        /\ subject'[u] = subject[u] /\ scope'[u] = scope[u]
  BY <1>1 DEF threadVars
<1>5. Calm(t)' /\ Seeks(t)' /\ Names(t)'
  BY <1>1, <1>4 DEF Nears, Calm, Seeks, Names
<1>6. \A s : InOpen(s) => InOpen(s)'
  BY <1>1 DEF InOpen
<1> QED BY <1>1, <1>2, <1>3, <1>4, <1>5, <1>6, StepNears DEF Admitted

\* Taking one entry out leaves every other.
LEMMA OthersLeft ==
  ASSUME Typed, NEW i \in 1..Len(open), open' = TakenOut(i),
         NEW k \in 1..Len(open), k # i
  PROVE  \E j \in 1..Len(open') : open'[j] = open[k]
<1> DEFINE n == Len(open)
<1>1. /\ Len(open') = n - 1 /\ n \in Nat
      /\ \A j \in 1..n - 1 : open'[j] = IF j < i THEN open[j] ELSE open[j + 1]
  BY Removed DEF TakenOut, Typed, TypeOK, LayerOK
<1> HIDE DEF n
<1>2. i \in 1..n /\ k \in 1..n
  BY DEF n
<1>3. CASE k < i
  <2>1. k \in 1..n - 1
    BY <1>1, <1>2, <1>3
  <2> QED BY <1>1, <1>3, <2>1
<1>4. CASE k > i
  <2>1. k - 1 \in 1..n - 1 /\ ~(k - 1 < i) /\ k - 1 + 1 = k
    BY <1>1, <1>2, <1>4
  <2> QED BY <1>1, <2>1
<1> QED BY <1>1, <1>2, <1>3, <1>4

LEMMA CloseRecordedNears ==
  ASSUME Placed, Nears, NEW t \in Threads, NEW o \in Spans, CloseRecorded(t, o)
  PROVE  Nears'
<1>1. PICK i : i = FirstIndex(o)
  OBVIOUS
<1>2. /\ open' = TakenOut(i) /\ pc[t] = "idle" /\ phase[o] = "live"
      /\ phase' = [phase EXCEPT ![o] = "closing"] /\ Index(o) # {}
      /\ pc' = [pc EXCEPT ![t] = "draw"]
      /\ subject' = [subject EXCEPT ![t] = o]
      /\ back' = [back EXCEPT ![t] = "idle"] /\ scope' = scope
      /\ \E q : queue' = [queue EXCEPT ![t] = q]
  BY <1>1 DEF CloseRecorded, Running, Closable, Goto
<1>3. i \in 1..Len(open) /\ open[i].span = o
  BY <1>1, <1>2, FirstIndexFound, EntryIsOwn DEF Placed
<1>4. [Next]_vars
  BY DEF Next, Begin
<1>5. \A s \in Spans : phase'[s] = "live" => phase[s] = "live" /\ s # o
  BY <1>2 DEF Placed, Typed, TypeOK, RegistryOK
<1>6. \A j \in 1..Len(open') : \E k \in 1..Len(open) : open'[j] = open[k]
  BY <1>2, <1>3, OpenWithout DEF Placed
<1>7. ASSUME NEW s \in Spans, s # o, InOpen(s) PROVE InOpen(s)'
  <2>1. PICK k \in 1..Len(open) : open[k].span = s
    BY <1>7 DEF InOpen
  <2>2. k # i
    BY <1>3, <1>7, <2>1
  <2>3. PICK j \in 1..Len(open') : open'[j] = open[k]
    BY <1>2, <1>3, <2>2, OthersLeft DEF Placed
  <2> QED BY <2>1, <2>3 DEF InOpen
<1>8. \A u \in Threads : u # t =>
        /\ pc'[u] = pc[u] /\ queue'[u] = queue[u] /\ back'[u] = back[u]
        /\ subject'[u] = subject[u] /\ scope'[u] = scope[u]
  BY <1>2 DEF Placed, Typed, TypeOK, ThreadsOK
<1>9. pc'[t] = "draw" /\ back'[t] = "idle"
  BY <1>2 DEF Placed, Typed, TypeOK, ThreadsOK
<1>10. Calm(t)' /\ Seeks(t)' /\ Names(t)'
  BY <1>9 DEF Calm, Seeks, Names
<1> QED BY <1>4, <1>5, <1>6, <1>7, <1>8, <1>10, StepNears DEF Admitted

LEMMA LogEventNears ==
  ASSUME Placed, Nears, NEW t \in Threads, LogEvent(t)
  PROVE  Nears'
<1>1. /\ UNCHANGED <<phase, open, queue, subject>> /\ pc[t] = "idle"
      /\ pc' = [pc EXCEPT ![t] = "lookup"] /\ back' = [back EXCEPT ![t] = "idle"]
      /\ \E line : scope' = [scope EXCEPT ![t] = line]
  BY DEF LogEvent, Running, Goto, registryVars
<1>2. [Next]_vars
  BY DEF Next, Begin
<1>3. \A u \in Threads : u # t =>
        /\ pc'[u] = pc[u] /\ queue'[u] = queue[u] /\ back'[u] = back[u]
        /\ subject'[u] = subject[u] /\ scope'[u] = scope[u]
  BY <1>1 DEF Placed, Typed, TypeOK, ThreadsOK
<1>4. pc'[t] = "lookup" /\ back'[t] = "idle" /\ subject'[t] = None
  BY <1>1 DEF Placed, Typed, TypeOK, ThreadsOK, Control, Standing
<1>5. Calm(t)' /\ Seeks(t)' /\ Names(t)'
  BY <1>4 DEF Calm, Seeks, Names
<1>6. \A s : InOpen(s) => InOpen(s)'
  BY <1>1 DEF InOpen
<1> QED BY <1>1, <1>2, <1>3, <1>5, <1>6, StepNears

LEMMA PushNears ==
  ASSUME Placed, Nears, NEW t \in Threads, Push(t)
  PROVE  Nears'
<1>1. PICK e, n : e = queue[t][1].entry /\ n = Len(open)
  OBVIOUS
<1>2. /\ open' = Append(open, Head(queue[t]).entry) /\ pc[t] = "push"
      /\ phase' = [phase EXCEPT ![subject[t]] = "live"]
      /\ subject' = [subject EXCEPT ![t] = None]
      /\ queue' = [queue EXCEPT ![t] = <<>>]
      /\ pc' = [pc EXCEPT ![t] = "idle"]
      /\ UNCHANGED <<ancestors, scope, back>>
  BY DEF Push, Goto
<1>3. /\ queue[t] \in Seq(RecordType) /\ Len(queue[t]) = 1
      /\ e.span = subject[t] /\ subject[t] # None
  BY <1>1, <1>2 DEF Placed, Typed, Control, Standing, TypeOK, ThreadsOK
<1>4. /\ n \in Nat /\ Len(open') = n + 1 /\ open'[n + 1] = e
      /\ \A i \in 1..n : open'[i] = open[i]
      /\ n + 1 \in 1..Len(open') /\ 1..Len(open') = 1..n \cup {n + 1}
  <2>1. Head(queue[t]).entry = e
    BY <1>1, <1>3
  <2>2. open \in Seq(EntryType)
    BY DEF Placed, Typed, TypeOK, LayerOK
  <2>3. open' = Append(open, e)
    BY <1>2, <2>1
  <2>4. Len(open') = n + 1 /\ open'[n + 1] = e
        /\ n \in Nat /\ \A i \in 1..n : open'[i] = open[i]
    BY <1>1, <2>2, <2>3
  <2> QED BY <2>4
<1>5. subject[t] \in Spans
  BY <1>3, SubjectPhase DEF Placed
<1>6. [Next]_vars
  BY DEF Next, Proceed
<1>7. \A u \in Threads : u # t =>
        /\ pc'[u] = pc[u] /\ queue'[u] = queue[u]
        /\ subject'[u] = subject[u] /\ scope'[u] = scope[u]
  BY <1>2 DEF Placed, Typed, TypeOK, ThreadsOK
<1>8. Calm(t)' /\ Seeks(t)' /\ Names(t)'
  <2>1. pc'[t] = "idle" /\ back'[t] = back[t]
    BY <1>2 DEF Placed, Typed, TypeOK, ThreadsOK
  <2> QED BY <2>1 DEF Nears, Calm, Seeks, Names
<1>9. \A u \in Threads : Calm(u)' /\ Seeks(u)' /\ Names(u)'
  <2> SUFFICES ASSUME NEW u \in Threads, u # t PROVE Calm(u)' /\ Seeks(u)' /\ Names(u)'
    BY <1>8
  <2>1. Calm(u)'
    BY <1>2, <1>7 DEF Nears, Calm
  <2> QED BY <1>6, <1>7, <2>1, OthersNear
<1>10. LiveOpen'
  <2> SUFFICES ASSUME NEW s \in Admitted, phase'[s] = "live" PROVE InOpen(s)'
    BY DEF LiveOpen, Admitted
  <2>1. CASE s = subject[t]
    BY <1>3, <1>4, <2>1 DEF InOpen
  <2>2. CASE s # subject[t]
    <3>1. phase[s] = "live"
      BY <1>2, <2>2 DEF Placed, Typed, TypeOK, RegistryOK, Admitted
    <3>2. InOpen(s)
      BY <3>1 DEF Nears, LiveOpen
    <3> QED BY <1>1, <1>4, <3>2 DEF InOpen
  <2> QED BY <2>1, <2>2
<1>11. OpenNear'
  <2> SUFFICES ASSUME NEW i \in 1..Len(open')
               PROVE  Nearest(ancestors[open[i].span], open[i].parent)'
    BY DEF OpenNear
  <2>1. PICK o : o = open'[i]
    OBVIOUS
  <2>2. Nearest(ancestors[o.span], o.parent)
    <3>1. CASE i = n + 1
      BY <1>1, <1>2, <1>3, <1>4, <2>1, <3>1 DEF Nears, Names
    <3>2. CASE i \in 1..n
      BY <1>1, <1>4, <2>1, <3>2 DEF Nears, OpenNear
    <3> QED BY <1>4, <3>1, <3>2
  <2> QED BY <1>2, <2>1, <2>2 DEF Nearest, Admitted
<1> QED BY <1>9, <1>10, <1>11 DEF Nears

LEMMA WriteNears ==
  ASSUME Placed, Nears, NEW t \in Threads, Write(t)
  PROVE  Nears'
<1>1. /\ open' = open /\ pc[t] = "write" /\ scope' = scope
      /\ phase' = [s \in Spans |-> IF s = subject[t] THEN "gone" ELSE phase[s]]
      /\ subject' = [subject EXCEPT ![t] = None]
      /\ queue' = [queue EXCEPT ![t] = Tail(@)]
      /\ \/ pc' = [pc EXCEPT ![t] = "draw"] /\ back' = back
         \/ pc' = [pc EXCEPT ![t] = back[t]] /\ back' = [back EXCEPT ![t] = "idle"]
  BY DEF Write, Goto
<1>2. [Next]_vars
  BY DEF Next, Proceed
<1>3. \A u \in Threads : u # t =>
        /\ pc'[u] = pc[u] /\ queue'[u] = queue[u] /\ back'[u] = back[u]
        /\ subject'[u] = subject[u] /\ scope'[u] = scope[u]
  BY <1>1 DEF Placed, Typed, TypeOK, ThreadsOK
<1>4. back'[t] = "idle" /\ pc'[t] \in {"draw", "idle"}
  BY <1>1 DEF Nears, Calm, Placed, Typed, TypeOK, ThreadsOK
<1>5. Calm(t)' /\ Seeks(t)' /\ Names(t)'
  BY <1>4 DEF Calm, Seeks, Names
<1>6. \A s \in Spans : phase'[s] = "live" => phase[s] = "live"
  BY <1>1
<1>7. \A s : InOpen(s) => InOpen(s)'
  BY <1>1 DEF InOpen
<1> QED BY <1>1, <1>2, <1>3, <1>5, <1>6, <1>7, StepNears DEF Admitted

LEMMA NearStep ==
  ASSUME Placed, Undisturbed => Nears, [Next]_vars, Undisturbed'
  PROVE  Nears'
<1>1. /\ flushes \in Nat /\ MaxFlushes \in Nat
  BY SpanAssumption DEF Placed, Typed, TypeOK, ExitOK
<1>2. ASSUME UNCHANGED <<flushes, exiting>> PROVE Nears
  BY <1>2 DEF Undisturbed
<1>3. ASSUME NEW t \in Threads, Begin(t) PROVE Nears'
  <2>1. CASE CallFlush(t)
    <3>1. flushes' = flushes + 1
      BY <2>1 DEF CallFlush
    <3> QED BY <1>1, <3>1 DEF Undisturbed
  <2>2. CASE CallExit(t)
    <3>1. t \in exiting'
      BY <2>2 DEF CallExit
    <3> QED BY <3>1 DEF Undisturbed
  <2>3. CASE LogEvent(t)
    BY <1>2, <2>3, LogEventNears DEF LogEvent, exitVars
  <2>4. ASSUME NEW s \in Spans, NewSpan(t, s) PROVE Nears'
    BY <1>2, <2>4, NewSpanNears DEF NewSpan, exitVars
  <2>5. ASSUME NEW s \in Spans, RecordField(t, s) PROVE Nears'
    BY <1>2, <2>5, RecordFieldNears DEF RecordField, exitVars
  <2>6. ASSUME NEW s \in Spans, CloseUnrecorded(t, s) PROVE Nears'
    BY <1>2, <2>6, CloseUnrecordedNears DEF CloseUnrecorded, exitVars
  <2>7. ASSUME NEW s \in Spans, CloseRecorded(t, s) PROVE Nears'
    BY <1>2, <2>7, CloseRecordedNears DEF CloseRecorded, exitVars
  <2> QED BY <1>3, <2>1, <2>2, <2>3, <2>4, <2>5, <2>6, <2>7 DEF Begin
<1>4. ASSUME NEW t \in Threads, Proceed(t) PROVE Nears'
  <2>1. CASE Lookup(t)
    <3>1. /\ UNCHANGED <<phase, open, subject, back, flushes, exiting>>
          /\ pc[t] = "lookup"
      BY <2>1 DEF Lookup, registryVars, layerVars, exitVars
    <3>2. /\ \A u \in Threads : u # t =>
               /\ pc'[u] = pc[u] /\ queue'[u] = queue[u] /\ back'[u] = back[u]
               /\ subject'[u] = subject[u] /\ scope'[u] = scope[u]
          /\ pc'[t] \in {"lookup", "push", "draw"}
      BY <2>1, <3>1 DEF Lookup, Conclude, Goto, Placed, Typed, TypeOK, ThreadsOK
    <3>3. Nears
      BY <1>2, <3>1
    <3>4. Calm(t)'
      BY <3>1, <3>2, <3>3 DEF Nears, Calm
    <3>5. Seeks(t)' /\ Names(t)'
      BY <2>1, <3>3, LookupNears
    <3>6. \A s : InOpen(s) => InOpen(s)'
      BY <3>1 DEF InOpen
    <3> QED BY <3>1, <3>2, <3>3, <3>4, <3>5, <3>6, StepNears
  <2>2. CASE Push(t)
    BY <1>2, <2>2, PushNears DEF Push, exitVars
  <2>3. CASE Write(t)
    BY <1>2, <2>3, WriteNears DEF Write, exitVars
  <2>4. CASE Draw(t)
    <3>1. /\ UNCHANGED <<phase, open, subject, scope, queue, back, flushes, exiting>>
          /\ pc[t] = "draw" /\ pc' = [pc EXCEPT ![t] = "write"]
      BY <2>4 DEF Draw, Goto, registryVars, exitVars
    <3>2. Nears
      BY <1>2, <3>1
    <3>3. pc'[t] = "write" /\ \A u \in Threads : u # t => pc'[u] = pc[u]
      BY <3>1 DEF Placed, Typed, TypeOK, ThreadsOK
    <3>4. Calm(t)' /\ Seeks(t)' /\ Names(t)'
      BY <3>1, <3>2, <3>3 DEF Nears, Calm, Seeks, Names
    <3>5. \A s : InOpen(s) => InOpen(s)'
      BY <3>1 DEF InOpen
    <3> QED BY <3>1, <3>2, <3>3, <3>4, <3>5, StepNears
  <2>5. CASE \/ CloneHooks(t) \/ CloseOpen(t) \/ RunRegistrar(t) \/ RunPlain(t)
             \/ EndFlush(t)
    <3>1. pc[t] \in {"clone", "flush"} /\ UNCHANGED <<flushes, exiting>>
      BY <2>5 DEF CloneHooks, CloseOpen, RunRegistrar, RunPlain, EndFlush,
                  NextHook, exitVars
    <3> QED BY <1>2, <3>1 DEF Nears, Calm
  <2> QED BY <1>4, <2>1, <2>2, <2>3, <2>4, <2>5 DEF Proceed
<1>5. CASE UNCHANGED vars
  <2>1. UNCHANGED <<phase, ancestors, open, pc, subject, scope, queue, back, flushes,
                    exiting>>
    BY <1>5 DEF vars, registryVars, layerVars, threadVars, exitVars
  <2>2. Nears
    BY <1>2, <2>1
  <2>3. \A u \in Threads : Calm(u)' /\ Seeks(u)' /\ Names(u)'
    BY <2>1, <2>2, OthersNear DEF Nears, Calm
  <2>4. LiveOpen' /\ OpenNear'
    BY <2>1, <2>2, EntriesNear DEF Nears, LiveOpen, InOpen, Admitted
  <2> QED BY <2>3, <2>4 DEF Nears
<1> QED BY <1>3, <1>4, <1>5 DEF Next

\* Until the first flush a record names the nearest ancestor the layer
\* records, whatever threads open and close while it is being looked for:
\* NearestUntilFlush.
THEOREM ParentsNearest == SafeSpec => []NearestUntilFlush
<1> DEFINE Inv == Undisturbed => Nears
<1>1. Init => Inv
  <2> SUFFICES ASSUME Init PROVE Nears
    OBVIOUS
  <2>1. /\ open = <<>> /\ phase = [s \in Spans |-> "unborn"]
        /\ pc = [t \in Threads |-> "idle"] /\ back = [t \in Threads |-> "idle"]
    BY DEF Init
  <2>2. \A t \in Threads : Calm(t) /\ Seeks(t) /\ Names(t)
    BY <2>1 DEF Calm, Seeks, Names
  <2>3. LiveOpen /\ OpenNear
    BY <2>1 DEF LiveOpen, OpenNear, Admitted
  <2> QED BY <2>2, <2>3 DEF Nears
<1>2. Placed /\ Inv /\ [Next]_vars => Inv'
  BY NearStep
<1>3. Inv => NearestUntilFlush
  BY DEF Undisturbed, Nears, OpenNear, NearestUntilFlush
<1> HIDE DEF Inv
<1> QED BY <1>1, <1>2, <1>3, KinshipHolds, PTL DEF SafeSpec, Placed

(***************************************************************************)
(* Where spans are.                                                        *)
(***************************************************************************)
Pushing(s) == \E t \in Threads : pc[t] = "push" /\ subject[t] = s

\* A span stands in one place of the layer, of one thread's queue or of the
\* journal, if anywhere.
OnceOpen(s) ==
  \A i, j \in 1..Len(open) : open[i].span = s /\ open[j].span = s => i = j

OnceWritten(s) ==
  \A i, j \in 1..Len(journal) :
    journal[i].record.entry.span = s /\ journal[j].record.entry.span = s => i = j

OnceQueued(s) ==
  \A t, u \in Threads : \A i \in 1..Len(queue[t]), j \in 1..Len(queue[u]) :
    queue[t][i].entry.span = s /\ queue[u][j].entry.span = s => t = u /\ i = j

Apart(s) ==
  /\ InOpen(s) => ~InJournal(s)
  /\ \A t \in Threads : InQueue(t, s) => ~InOpen(s) /\ ~InJournal(s)

Once(s) == OnceOpen(s) /\ OnceWritten(s) /\ OnceQueued(s) /\ Apart(s)

Conserved(s) == Once(s) /\ (Somewhere(s) <=> s \in Begun \/ Pushing(s))

\* No span is lost or doubled between the layer, the threads and the journal:
\* once its on_new_span has begun to hold it, a span the layer records is in
\* exactly one place; a filtered one is nowhere.
SpansConserved == \A s \in Spans : Conserved(s)

\* An event is written by itself.
EventAlone(t) ==
  \A i \in 1..Len(queue[t]) :
    queue[t][i].entry.kind = "event" => Len(queue[t]) = 1

EventsAlone == \A t \in Threads : EventAlone(t)

\* Where nothing moves, nothing is lost.
LEMMA UnmovedConserved ==
  ASSUME NEW s \in Spans, Conserved(s),
         Len(open') = Len(open),
         \A i \in 1..Len(open) : open'[i].span = open[i].span,
         UNCHANGED <<journal, queue>>,
         s \in Begun' <=> s \in Begun, Pushing(s)' <=> Pushing(s)
  PROVE  Conserved(s)'
<1>1. InOpen(s)' <=> InOpen(s)
  BY DEF InOpen
<1>2. (InJournal(s)' <=> InJournal(s)) /\ \A t \in Threads : InQueue(t, s)' <=> InQueue(t, s)
  BY DEF InJournal, InQueue
<1>3. OnceOpen(s)'
  BY DEF Conserved, Once, OnceOpen
<1>4. OnceWritten(s)' /\ OnceQueued(s)'
  BY DEF Conserved, Once, OnceWritten, OnceQueued
<1>5. Apart(s)'
  BY <1>1, <1>2 DEF Conserved, Once, Apart
<1>6. Somewhere(s)' <=> Somewhere(s)
  BY <1>1, <1>2 DEF Somewhere
<1> QED BY <1>3, <1>4, <1>5, <1>6 DEF Conserved, Once

\* A thread that is at no push, before and after its step.
LEMMA PushingKept ==
  ASSUME NEW s, NEW t \in Threads, pc[t] # "push", pc'[t] # "push",
         \A u \in Threads : u # t => pc'[u] = pc[u] /\ subject'[u] = subject[u]
  PROVE  Pushing(s)' <=> Pushing(s)
<1>1. ASSUME Pushing(s) PROVE Pushing(s)'
  <2>1. PICK u \in Threads : pc[u] = "push" /\ subject[u] = s
    BY <1>1 DEF Pushing
  <2> QED BY <2>1 DEF Pushing
<1>2. ASSUME Pushing(s)' PROVE Pushing(s)
  <2>1. PICK u \in Threads : pc'[u] = "push" /\ subject'[u] = s
    BY <1>2 DEF Pushing
  <2> QED BY <2>1 DEF Pushing
<1> QED BY <1>1, <1>2

\* What stands in a span's only open entry.
LEMMA CloseRecordedConserves ==
  ASSUME Placed, SpansConserved, NEW t \in Threads, NEW o \in Spans,
         CloseRecorded(t, o), NEW s \in Spans
  PROVE  Conserved(s)'
<1>1. PICK i, r, n : i = FirstIndex(o) /\ r = Closed("close", open[i]) /\ n = Len(open)
  OBVIOUS
<1>2. /\ open' = TakenOut(i) /\ queue' = [queue EXCEPT ![t] = <<r>>]
      /\ journal' = journal /\ pc[t] = "idle" /\ Index(o) # {}
      /\ phase[o] = "live" /\ phase' = [phase EXCEPT ![o] = "closing"]
      /\ pc' = [pc EXCEPT ![t] = "draw"] /\ subject' = [subject EXCEPT ![t] = o]
  BY <1>1 DEF CloseRecorded, Running, Closable, Goto
<1>3. i \in 1..n /\ open[i].span = o /\ n \in Nat /\ r.entry.span = o
  BY <1>1, <1>2, FirstIndexFound, EntryIsOwn
  DEF Closed, Placed, Typed, TypeOK, LayerOK
<1>4. /\ Len(open') = n - 1
      /\ \A j \in 1..n - 1 : open'[j] = IF j < i THEN open[j] ELSE open[j + 1]
  BY <1>1, <1>2, <1>3, Removed DEF TakenOut, Placed, Typed, TypeOK, LayerOK
<1>5. /\ queue'[t] = <<r>> /\ queue[t] = <<>>
      /\ \A u \in Threads : u # t => queue'[u] = queue[u]
  BY <1>2 DEF Placed, Typed, TypeOK, ThreadsOK, Control, Standing
<1>6. Len(queue'[t]) = 1 /\ queue'[t][1] = r /\ Len(queue[t]) = 0
  BY <1>5
<1>7. Conserved(s)
  BY DEF SpansConserved
<1>8. \A j \in 1..Len(open') :
        \E k \in 1..n : /\ k # i /\ open'[j] = open[k]
                        /\ k = IF j < i THEN j ELSE j + 1
  BY <1>1, <1>2, <1>3, OpenWithout DEF Placed
<1>9. OnceOpen(s)'
  <2> SUFFICES ASSUME NEW j \in 1..Len(open'), NEW l \in 1..Len(open'),
                      open'[j].span = s, open'[l].span = s
               PROVE  j = l
    BY DEF OnceOpen
  <2>1. PICK a \in 1..n : open'[j] = open[a] /\ a = IF j < i THEN j ELSE j + 1
    BY <1>8
  <2>2. PICK b \in 1..n : open'[l] = open[b] /\ b = IF l < i THEN l ELSE l + 1
    BY <1>8
  <2>3. a = b
    BY <1>1, <1>7, <2>1, <2>2 DEF Conserved, Once, OnceOpen
  <2> QED BY <1>3, <1>4, <2>1, <2>2, <2>3
<1>10. InOpen(s)' <=> InOpen(s) /\ s # o
  <2>1. ASSUME InOpen(s)' PROVE InOpen(s) /\ s # o
    <3>1. PICK j \in 1..Len(open') : open'[j].span = s
      BY <2>1 DEF InOpen
    <3>2. PICK k \in 1..n : k # i /\ open'[j] = open[k]
      BY <1>8
    <3>3. s = o => k = i
      BY <1>1, <1>3, <1>7, <3>1, <3>2 DEF Conserved, Once, OnceOpen
    <3> QED BY <1>1, <3>1, <3>2, <3>3 DEF InOpen
  <2>2. ASSUME InOpen(s), s # o PROVE InOpen(s)'
    <3>1. PICK k \in 1..Len(open) : open[k].span = s
      BY <2>2 DEF InOpen
    <3>2. PICK j \in 1..Len(open') : open'[j] = open[k]
      BY <1>1, <1>2, <1>3, <2>2, <3>1, OthersLeft DEF Placed
    <3> QED BY <3>1, <3>2 DEF InOpen
  <2> QED BY <2>1, <2>2
<1>11. /\ InJournal(s)' <=> InJournal(s)
       /\ \A u \in Threads : u # t => (InQueue(u, s)' <=> InQueue(u, s))
       /\ ~InQueue(t, s) /\ (InQueue(t, s)' <=> s = o)
  <2>1. InQueue(t, s)' <=> r.entry.span = s
    BY <1>6 DEF InQueue
  <2> QED BY <1>2, <1>3, <1>5, <1>6, <2>1 DEF InJournal, InQueue
<1>12. InOpen(o)
  BY <1>1, <1>3 DEF InOpen
<1>13. Apart(s)' /\ (Somewhere(s)' <=> Somewhere(s))
  BY <1>7, <1>10, <1>11, <1>12 DEF Conserved, Once, Apart, Somewhere
<1>14. OnceQueued(s)'
  <2> SUFFICES ASSUME NEW u \in Threads, NEW v \in Threads,
                      NEW j \in 1..Len(queue'[u]), NEW l \in 1..Len(queue'[v]),
                      queue'[u][j].entry.span = s, queue'[v][l].entry.span = s
               PROVE  u = v /\ j = l
    BY DEF OnceQueued
  <2>1. \A w \in Threads : w # t /\ s = o => ~InQueue(w, s)
    BY <1>7, <1>12 DEF Conserved, Once, Apart
  <2>2. u = t <=> s = o
    BY <1>3, <1>5, <1>6, <2>1 DEF InQueue
  <2>3. v = t <=> s = o
    BY <1>3, <1>5, <1>6, <2>1 DEF InQueue
  <2>4. CASE s = o
    BY <1>6, <2>2, <2>3, <2>4
  <2>5. CASE s # o
    BY <1>5, <1>7, <2>2, <2>3, <2>5 DEF Conserved, Once, OnceQueued
  <2> QED BY <2>4, <2>5
<1>15. OnceWritten(s)'
  BY <1>2, <1>7 DEF Conserved, Once, OnceWritten
<1>16. (s \in Begun' <=> s \in Begun) /\ (Pushing(s)' <=> Pushing(s))
  <2>1. s \in Begun' <=> s \in Begun
    BY <1>2 DEF Begun, Placed, Typed, TypeOK, RegistryOK, Admitted
  <2>2. /\ pc[t] # "push" /\ pc'[t] # "push"
        /\ \A u \in Threads : u # t => pc'[u] = pc[u] /\ subject'[u] = subject[u]
    BY <1>2 DEF Placed, Typed, TypeOK, ThreadsOK
  <2> QED BY <2>1, <2>2, PushingKept
<1> QED BY <1>7, <1>9, <1>13, <1>14, <1>15, <1>16 DEF Conserved, Once

\* A span that is being created is nowhere until its thread holds its entry.
LEMMA LookupConserves ==
  ASSUME Placed, SpansConserved, NEW t \in Threads, Lookup(t), NEW s \in Spans
  PROVE  Conserved(s)'
<1>1. UNCHANGED <<phase, open, journal, subject>> /\ pc[t] = "lookup"
      /\ \A u \in Threads : u # t => queue'[u] = queue[u] /\ pc'[u] = pc[u]
  BY DEF Lookup, Conclude, Goto, registryVars, layerVars,
         Placed, Typed, TypeOK, ThreadsOK
<1>2. queue[t] = <<>> /\ Conserved(s)
  BY <1>1 DEF Placed, Typed, Control, Standing, SpansConserved
<1>3. s \in Begun' <=> s \in Begun
  BY <1>1 DEF Begun, Admitted
<1>4. ASSUME NEW parent, Conclude(t, parent) PROVE Conserved(s)'
  <2>1. CASE subject[t] # None
    <3>1. PICK r : /\ queue' = [queue EXCEPT ![t] = <<r>>]
                   /\ r = Closed("open", Entry(subject[t], parent))
                   /\ pc' = [pc EXCEPT ![t] = "push"]
      BY <1>4, <2>1 DEF Conclude, Goto
    <3>2. queue'[t] = <<r>> /\ pc'[t] = "push" /\ r.entry.span = subject[t]
      BY <3>1 DEF Closed, Entry, Placed, Typed, TypeOK, ThreadsOK
    <3>3. Len(queue'[t]) = 1 /\ queue'[t][1] = r /\ Len(queue[t]) = 0
      BY <1>2, <3>2
    <3>4. InQueue(t, s)' <=> s = subject[t]
      BY <3>2, <3>3 DEF InQueue
    <3>5. /\ InOpen(s)' <=> InOpen(s)
          /\ InJournal(s)' <=> InJournal(s)
          /\ \A u \in Threads : u # t => (InQueue(u, s)' <=> InQueue(u, s))
          /\ ~InQueue(t, s)
      BY <1>1, <3>3 DEF InOpen, InJournal, InQueue
    <3>6. s = subject[t] => ~Somewhere(s)
      <4> SUFFICES ASSUME s = subject[t] PROVE ~(s \in Begun \/ Pushing(s))
        BY <1>2 DEF Conserved
      <4>1. phase[s] = "creating"
        BY <1>1, <2>1 DEF Placed, Occupancy, SubjectOwned
      <4>2. ~Pushing(s)
        BY <1>1, <2>1 DEF Pushing, Placed, Occupancy, SubjectsApart
      <4> QED BY <4>1, <4>2 DEF Begun
    <3>7. Pushing(s)' <=> Pushing(s) \/ s = subject[t]
      <4>1. Pushing(s)' => Pushing(s) \/ s = subject[t]
        BY <1>1 DEF Pushing
      <4>2. s = subject[t] => Pushing(s)'
        BY <1>1, <3>2 DEF Pushing
      <4>3. Pushing(s) => Pushing(s)'
        BY <1>1 DEF Pushing
      <4> QED BY <4>1, <4>2, <4>3
    <3>8. Somewhere(s)' <=> s \in Begun' \/ Pushing(s)'
      BY <1>2, <1>3, <3>4, <3>5, <3>7 DEF Conserved, Somewhere
    <3>9. Apart(s)'
      BY <1>2, <3>4, <3>5, <3>6 DEF Conserved, Once, Apart, Somewhere
    <3>10. OnceOpen(s)' /\ OnceWritten(s)'
      BY <1>1, <1>2 DEF Conserved, Once, OnceOpen, OnceWritten
    <3>11. OnceQueued(s)'
      <4> SUFFICES ASSUME NEW u \in Threads, NEW v \in Threads,
                          NEW j \in 1..Len(queue'[u]), NEW l \in 1..Len(queue'[v]),
                          queue'[u][j].entry.span = s, queue'[v][l].entry.span = s
                   PROVE  u = v /\ j = l
        BY DEF OnceQueued
      <4>1. CASE s = subject[t]
        <5>1. \A w \in Threads : ~InQueue(w, s)
          BY <3>6, <4>1 DEF Somewhere
        <5>2. u = t /\ v = t
          BY <1>1, <5>1 DEF InQueue
        <5> QED BY <3>3, <5>2
      <4>2. CASE s # subject[t]
        <5>1. u # t /\ v # t
          BY <3>2, <3>3, <4>2
        <5> QED BY <1>1, <1>2, <5>1 DEF Conserved, Once, OnceQueued
      <4> QED BY <4>1, <4>2
    <3> QED BY <3>8, <3>9, <3>10, <3>11 DEF Conserved, Once
  <2>2. CASE subject[t] = None
    <3>1. PICK r : /\ queue' = [queue EXCEPT ![t] = <<r>>]
                   /\ r = Closed("event", EventRecord(parent))
                   /\ pc' = [pc EXCEPT ![t] = "draw"]
      BY <1>4, <2>2 DEF Conclude, Goto
    <3>2. queue'[t] = <<r>> /\ pc'[t] = "draw" /\ r.entry.span # s
      BY <3>1, SpanAssumption DEF Closed, EventRecord, Placed, Typed, TypeOK, ThreadsOK
    <3>3. Len(queue'[t]) = 1 /\ queue'[t][1] = r /\ Len(queue[t]) = 0
      BY <1>2, <3>2
    <3>4. /\ InOpen(s)' <=> InOpen(s)
          /\ InJournal(s)' <=> InJournal(s)
          /\ \A u \in Threads : InQueue(u, s)' <=> InQueue(u, s)
      BY <1>1, <3>2, <3>3 DEF InOpen, InJournal, InQueue
    <3>5. Pushing(s)' <=> Pushing(s)
      BY <1>1, <3>2, PushingKept
    <3>6. OnceOpen(s)' /\ OnceWritten(s)'
      BY <1>1, <1>2 DEF Conserved, Once, OnceOpen, OnceWritten
    <3>7. OnceQueued(s)'
      BY <1>1, <1>2, <3>2, <3>3 DEF Conserved, Once, OnceQueued
    <3> QED BY <1>2, <1>3, <3>4, <3>5, <3>6, <3>7
            DEF Conserved, Once, Apart, Somewhere
  <2> QED BY <2>1, <2>2
<1>5. CASE UNCHANGED <<queue, pc>>
  <2>1. Pushing(s)' <=> Pushing(s)
    BY <1>1, <1>5 DEF Pushing
  <2> QED BY <1>1, <1>2, <1>3, <1>5, <2>1, UnmovedConserved
<1> QED BY <1>4, <1>5 DEF Lookup

LEMMA PushConserves ==
  ASSUME Placed, SpansConserved, NEW t \in Threads, Push(t), NEW s \in Spans
  PROVE  Conserved(s)'
<1>1. PICK e, n, o : e = queue[t][1].entry /\ n = Len(open) /\ o = subject[t]
  OBVIOUS
<1>2. /\ open' = Append(open, Head(queue[t]).entry) /\ pc[t] = "push"
      /\ phase' = [phase EXCEPT ![o] = "live"] /\ journal' = journal
      /\ subject' = [subject EXCEPT ![t] = None]
      /\ queue' = [queue EXCEPT ![t] = <<>>]
      /\ pc' = [pc EXCEPT ![t] = "idle"]
  BY <1>1 DEF Push, Goto
<1>3. /\ queue[t] \in Seq(RecordType) /\ Len(queue[t]) = 1
      /\ e.span = o /\ o \in Admitted
  BY <1>1, <1>2 DEF Placed, Typed, Control, Standing, TypeOK, ThreadsOK, Parent
<1>4. /\ n \in Nat /\ Len(open') = n + 1 /\ open'[n + 1] = e
      /\ \A i \in 1..n : open'[i] = open[i]
  <2>1. Head(queue[t]).entry = e /\ open \in Seq(EntryType)
    BY <1>1, <1>3 DEF Placed, Typed, TypeOK, LayerOK
  <2>2. open' = Append(open, e)
    BY <1>2, <2>1
  <2> QED BY <1>1, <2>1, <2>2
<1>5. /\ \A u \in Threads : u # t => /\ queue'[u] = queue[u] /\ pc'[u] = pc[u]
                                     /\ subject'[u] = subject[u]
      /\ Len(queue'[t]) = 0 /\ pc'[t] = "idle" /\ subject'[t] = None
  BY <1>2 DEF Placed, Typed, TypeOK, ThreadsOK
<1>6. Conserved(s)
  BY DEF SpansConserved
<1>7. InQueue(t, s) <=> s = o
  BY <1>1, <1>3 DEF InQueue
<1>8. s = o => /\ ~InOpen(s) /\ ~InJournal(s)
               /\ \A u \in Threads : u # t => ~InQueue(u, s)
  <2> SUFFICES ASSUME s = o
               PROVE  /\ ~InOpen(s) /\ ~InJournal(s)
                      /\ \A u \in Threads : u # t => ~InQueue(u, s)
    OBVIOUS
  <2>1. InQueue(t, s)
    BY <1>7
  <2>2. \A u \in Threads : InQueue(u, s) => u = t
    BY <1>6, <2>1 DEF InQueue, Conserved, Once, OnceQueued
  <2> QED BY <1>6, <2>1, <2>2 DEF Conserved, Once, Apart
<1>9. 1..Len(open') = 1..n \cup {n + 1} /\ n + 1 \notin 1..n
  BY <1>4
<1>10. InOpen(s)' <=> InOpen(s) \/ s = o
  BY <1>1, <1>3, <1>4, <1>9 DEF InOpen
<1>11. /\ InJournal(s)' <=> InJournal(s)
       /\ ~InQueue(t, s)'
       /\ \A u \in Threads : u # t => (InQueue(u, s)' <=> InQueue(u, s))
  <2>1. InJournal(s)' <=> InJournal(s)
    BY <1>2 DEF InJournal
  <2>2. ~InQueue(t, s)' /\ \A u \in Threads : u # t => (InQueue(u, s)' <=> InQueue(u, s))
    BY <1>5 DEF InQueue
  <2> QED BY <2>1, <2>2
<1>12. OnceOpen(s)'
  <2> SUFFICES ASSUME NEW i \in 1..Len(open'), NEW j \in 1..Len(open'),
                      open'[i].span = s, open'[j].span = s
               PROVE  i = j
    BY DEF OnceOpen
  <2>1. CASE s = o
    <3>1. \A k \in 1..n : open'[k].span # s
      BY <1>1, <1>4, <1>8, <2>1 DEF InOpen
    <3> QED BY <1>9, <3>1
  <2>2. CASE s # o
    <3>1. i \in 1..n /\ j \in 1..n
      BY <1>3, <1>4, <1>9, <2>2
    <3> QED BY <1>1, <1>4, <1>6, <3>1 DEF Conserved, Once, OnceOpen
  <2> QED BY <2>1, <2>2
<1>13. OnceWritten(s)'
  BY <1>2, <1>6 DEF Conserved, Once, OnceWritten
<1>14. OnceQueued(s)'
  <2>1. \A u \in Threads : \A j \in 1..Len(queue'[u]) :
          u # t /\ j \in 1..Len(queue[u]) /\ queue'[u][j] = queue[u][j]
    BY <1>5
  <2> SUFFICES ASSUME NEW u \in Threads, NEW v \in Threads,
                      NEW j \in 1..Len(queue'[u]), NEW l \in 1..Len(queue'[v]),
                      queue'[u][j].entry.span = s, queue'[v][l].entry.span = s
               PROVE  u = v /\ j = l
    BY DEF OnceQueued
  <2>2. /\ j \in 1..Len(queue[u]) /\ queue[u][j].entry.span = s
        /\ l \in 1..Len(queue[v]) /\ queue[v][l].entry.span = s
    BY <2>1
  <2> QED BY <1>6, <2>2 DEF Conserved, Once, OnceQueued
<1>15. Apart(s)'
  BY <1>6, <1>8, <1>10, <1>11 DEF Conserved, Once, Apart
<1>16. Somewhere(s)' <=> Somewhere(s)
  BY <1>7, <1>10, <1>11 DEF Somewhere
<1>17. s \in Begun' \/ Pushing(s)' <=> s \in Begun \/ Pushing(s)
  <2>1. CASE s = o
    <3>1. Pushing(s) /\ s \in Begun'
      BY <1>1, <1>2, <1>3, <2>1
      DEF Pushing, Begun, Placed, Typed, TypeOK, RegistryOK, Admitted
    <3> QED BY <3>1
  <2>2. CASE s # o
    <3>1. s \in Begun' <=> s \in Begun
      BY <1>2, <2>2 DEF Begun, Placed, Typed, TypeOK, RegistryOK, Admitted
    <3>2. Pushing(s)' => Pushing(s)
      BY <1>5 DEF Pushing
    <3>3. Pushing(s) => Pushing(s)'
      BY <1>1, <1>5, <2>2 DEF Pushing
    <3> QED BY <3>1, <3>2, <3>3
  <2> QED BY <2>1, <2>2
<1> QED BY <1>6, <1>12, <1>13, <1>14, <1>15, <1>16, <1>17 DEF Conserved, Once

LEMMA QueuedOnce ==
  ASSUME NEW s, OnceQueued(s), NEW t \in Threads, InQueue(t, s)
  PROVE  \A u \in Threads : u # t => ~InQueue(u, s)
BY DEF InQueue, OnceQueued

\* The span at the head of the queue is the one a write takes out of it.
LEMMA WrittenLeaves ==
  ASSUME Placed, SpansConserved, NEW t \in Threads, Write(t), NEW s \in Spans
  PROVE  InQueue(t, s)' <=> InQueue(t, s) /\ queue[t][1].entry.span # s
<1>1. PICK m : m = Len(queue[t])
  OBVIOUS
<1>2. pc[t] = "write" /\ queue' = [queue EXCEPT ![t] = Tail(@)]
  BY DEF Write
<1>3. queue[t] # <<>> /\ queue[t] \in Seq(RecordType) /\ queue'[t] = Tail(queue[t])
  BY <1>2 DEF Placed, Typed, Control, Standing, TypeOK, ThreadsOK
<1>4. /\ m \in Nat /\ 1 \in 1..m /\ Len(queue'[t]) = m - 1
      /\ \A i \in 1..m - 1 : queue'[t][i] = queue[t][i + 1] /\ i + 1 \in 1..m
  BY <1>1, <1>3
<1>5. InQueue(t, s)' => InQueue(t, s)
  BY <1>1, <1>4 DEF InQueue
<1>6. ASSUME InQueue(t, s), queue[t][1].entry.span # s PROVE InQueue(t, s)'
  <2>1. PICK i \in 1..m : queue[t][i].entry.span = s
    BY <1>1, <1>6 DEF InQueue
  <2>2. i - 1 \in 1..m - 1 /\ i - 1 + 1 = i
    BY <1>4, <1>6, <2>1
  <2> QED BY <1>4, <2>1, <2>2 DEF InQueue
<1>7. ASSUME InQueue(t, s)', queue[t][1].entry.span = s PROVE FALSE
  <2>1. PICK i \in 1..m - 1 : queue'[t][i].entry.span = s
    BY <1>4, <1>7 DEF InQueue
  <2>2. queue[t][i + 1].entry.span = s /\ i + 1 \in 1..m /\ i + 1 # 1
    BY <1>4, <2>1
  <2> QED BY <1>1, <1>4, <1>7, <2>2
          DEF SpansConserved, Conserved, Once, OnceQueued
<1> QED BY <1>5, <1>6, <1>7

LEMMA WriteConserves ==
  ASSUME Placed, SpansConserved, NEW t \in Threads, Write(t), NEW s \in Spans
  PROVE  Conserved(s)'
<1>1. PICK line, n, m : /\ line = [record |-> Head(queue[t]), seq |-> drawn[t]]
                        /\ n = Len(journal) /\ m = Len(queue[t])
  OBVIOUS
<1>2. /\ journal' = Append(journal, line) /\ open' = open /\ pc[t] = "write"
      /\ queue' = [queue EXCEPT ![t] = Tail(@)]
      /\ phase' = [o \in Spans |-> IF o = subject[t] THEN "gone" ELSE phase[o]]
      /\ subject' = [subject EXCEPT ![t] = None]
      /\ \E label \in {"draw", "idle", "flush"} : pc' = [pc EXCEPT ![t] = label]
  BY <1>1 DEF Write, Goto, Placed, Typed, TypeOK, ThreadsOK
<1>3. queue[t] # <<>> /\ queue[t] \in Seq(RecordType)
  BY <1>2 DEF Placed, Typed, Control, Standing, TypeOK, ThreadsOK
<1>4. line.record = queue[t][1] /\ m \in Nat /\ 1 \in 1..m
  BY <1>1, <1>3
<1>5. n \in Nat /\ Len(journal') = n + 1 /\ journal'[n + 1] = line
      /\ \A i \in 1..n : journal'[i] = journal[i]
  BY <1>1, <1>2 DEF Placed, Typed, TypeOK, LayerOK
<1>6. /\ queue'[t] = Tail(queue[t])
      /\ \A u \in Threads : u # t => /\ queue'[u] = queue[u] /\ pc'[u] = pc[u]
                                     /\ subject'[u] = subject[u]
      /\ pc'[t] # "push"
  BY <1>2 DEF Placed, Typed, TypeOK, ThreadsOK
<1>7. /\ Len(queue'[t]) = m - 1
      /\ \A i \in 1..m - 1 : queue'[t][i] = queue[t][i + 1] /\ i + 1 \in 1..m
  BY <1>1, <1>3, <1>4, <1>6
<1>8. Conserved(s)
  BY DEF SpansConserved
<1>9. 1..Len(journal') = 1..n \cup {n + 1} /\ n + 1 \notin 1..n
  BY <1>5
<1>10. InJournal(s)' <=> InJournal(s) \/ line.record.entry.span = s
  BY <1>1, <1>5, <1>9 DEF InJournal
<1>11. line.record.entry.span = s =>
         /\ InQueue(t, s) /\ ~InQueue(t, s)' /\ ~InJournal(s)
         /\ \A u \in Threads : u # t => ~InQueue(u, s)
  <2>1. line.record.entry.span = s => InQueue(t, s)
    BY <1>1, <1>4 DEF InQueue
  <2>2. InQueue(t, s) =>
          ~InJournal(s) /\ \A u \in Threads : u # t => ~InQueue(u, s)
    BY <1>8, QueuedOnce DEF Conserved, Once, Apart
  <2> QED BY <1>4, <2>1, <2>2, WrittenLeaves
<1>12. InQueue(t, s)' <=> InQueue(t, s) /\ line.record.entry.span # s
  BY <1>4, WrittenLeaves
<1>13. /\ InOpen(s)' <=> InOpen(s)
       /\ \A u \in Threads : u # t => (InQueue(u, s)' <=> InQueue(u, s))
  BY <1>2, <1>6 DEF InOpen, InQueue
<1>14. Somewhere(s)' <=> Somewhere(s)
  BY <1>10, <1>11, <1>12, <1>13 DEF Somewhere
<1>15. Apart(s)'
  BY <1>8, <1>10, <1>11, <1>12, <1>13 DEF Conserved, Once, Apart
<1>16. OnceOpen(s)'
  BY <1>2, <1>8 DEF Conserved, Once, OnceOpen
<1>17. OnceWritten(s)'
  <2> SUFFICES ASSUME NEW i \in 1..Len(journal'), NEW j \in 1..Len(journal'),
                      journal'[i].record.entry.span = s,
                      journal'[j].record.entry.span = s
               PROVE  i = j
    BY DEF OnceWritten
  <2>1. CASE line.record.entry.span = s
    <3>1. \A k \in 1..n : journal'[k].record.entry.span # s
      BY <1>1, <1>5, <1>11, <2>1 DEF InJournal
    <3> QED BY <1>9, <3>1
  <2>2. CASE line.record.entry.span # s
    <3>1. i \in 1..n /\ j \in 1..n
      BY <1>5, <1>9, <2>2
    <3> QED BY <1>1, <1>5, <1>8, <3>1 DEF Conserved, Once, OnceWritten
  <2> QED BY <2>1, <2>2
<1>18. OnceQueued(s)'
  <2> SUFFICES ASSUME NEW u \in Threads, NEW v \in Threads,
                      NEW j \in 1..Len(queue'[u]), NEW l \in 1..Len(queue'[v]),
                      queue'[u][j].entry.span = s, queue'[v][l].entry.span = s
               PROVE  u = v /\ j = l
    BY DEF OnceQueued
  <2>1. \A w \in Threads : \A k \in 1..Len(queue'[w]) :
          \E a \in 1..Len(queue[w]) :
            queue'[w][k] = queue[w][a] /\ a = IF w = t THEN k + 1 ELSE k
    <3> SUFFICES ASSUME NEW w \in Threads, NEW k \in 1..Len(queue'[w])
                 PROVE  \E a \in 1..Len(queue[w]) :
                          queue'[w][k] = queue[w][a]
                            /\ a = IF w = t THEN k + 1 ELSE k
      OBVIOUS
    <3>1. CASE w = t
      <4>1. k \in 1..m - 1
        BY <1>7, <3>1
      <4> QED BY <1>1, <1>7, <3>1, <4>1
    <3>2. CASE w # t
      BY <1>6, <3>2
    <3> QED BY <3>1, <3>2
  <2>2. PICK a \in 1..Len(queue[u]) :
          queue'[u][j] = queue[u][a] /\ a = IF u = t THEN j + 1 ELSE j
    BY <2>1
  <2>3. PICK b \in 1..Len(queue[v]) :
          queue'[v][l] = queue[v][b] /\ b = IF v = t THEN l + 1 ELSE l
    BY <2>1
  <2>4. u = v /\ a = b
    BY <1>8, <2>2, <2>3 DEF Conserved, Once, OnceQueued
  <2> QED BY <2>2, <2>3, <2>4
<1>19. (s \in Begun' <=> s \in Begun) /\ (Pushing(s)' <=> Pushing(s))
  <2>1. s = subject[t] => phase[s] = "closing"
    BY <1>2, SpanAssumption DEF Placed, Occupancy, SubjectOwned
  <2>2. s \in Begun' <=> s \in Begun
    BY <1>2, <2>1 DEF Begun, Admitted
  <2> QED BY <1>2, <1>6, <2>2, PushingKept
<1> QED BY <1>8, <1>14, <1>15, <1>16, <1>17, <1>18, <1>19 DEF Conserved, Once

LEMMA CloseOpenConserves ==
  ASSUME Placed, SpansConserved, NEW t \in Threads, CloseOpen(t), NEW s \in Spans
  PROVE  Conserved(s)'
<1>1. PICK taken, n :
        /\ taken = [i \in 1..Len(open) |-> Closed("exit", Reverse(open)[i])]
        /\ n = Len(open)
  OBVIOUS
<1>2. /\ open' = <<>> /\ queue' = [queue EXCEPT ![t] = taken]
      /\ UNCHANGED <<journal, phase, subject>> /\ pc[t] = "flush"
      /\ pc' = pc \/ pc' = [pc EXCEPT ![t] = "draw"]
  BY <1>1 DEF CloseOpen, OpenTaken, NextHook, Goto, registryVars
<1>3. n \in Nat /\ open \in Seq(EntryType)
  BY <1>1 DEF Placed, Typed, TypeOK, LayerOK
<1>4. /\ queue'[t] = taken /\ Len(queue[t]) = 0
      /\ \A u \in Threads : u # t => queue'[u] = queue[u] /\ pc'[u] = pc[u]
      /\ pc'[t] # "push"
  BY <1>2 DEF Placed, Typed, TypeOK, ThreadsOK, Control, Standing
<1>5. /\ Len(taken) = n
      /\ \A i \in 1..n : /\ n - i + 1 \in 1..n
                         /\ taken[i].entry = open[n - i + 1]
  <2>1. Len(taken) = n /\ \A i \in 1..n : taken[i] = Closed("exit", Reverse(open)[i])
    BY <1>1, <1>3
  <2> SUFFICES ASSUME NEW i \in 1..n
               PROVE  n - i + 1 \in 1..n /\ taken[i].entry = open[n - i + 1]
    BY <2>1
  <2>2. Reverse(open)[i] = open[n - i + 1]
    BY <1>1, <1>3, Reversed
  <2>3. taken[i] = Closed("exit", open[n - i + 1])
    BY <2>1, <2>2
  <2> QED BY <1>3, <2>3 DEF Closed
<1>6. Conserved(s)
  BY DEF SpansConserved
<1>7. InQueue(t, s)' <=> InOpen(s)
  <2>1. ASSUME InQueue(t, s)' PROVE InOpen(s)
    <3>1. PICK i \in 1..n : taken[i].entry.span = s
      BY <1>4, <1>5, <2>1 DEF InQueue
    <3> QED BY <1>1, <1>5, <3>1 DEF InOpen
  <2>2. ASSUME InOpen(s) PROVE InQueue(t, s)'
    <3>1. PICK k \in 1..n : open[k].span = s
      BY <1>1, <2>2 DEF InOpen
    <3>2. n - k + 1 \in 1..n /\ n - (n - k + 1) + 1 = k
      BY <1>3
    <3>3. taken[n - k + 1].entry = open[k]
      BY <1>5, <3>2
    <3> QED BY <1>4, <1>5, <3>1, <3>2, <3>3 DEF InQueue
  <2> QED BY <2>1, <2>2
<1>8. /\ ~InOpen(s)'
      /\ InJournal(s)' <=> InJournal(s)
      /\ ~InQueue(t, s)
      /\ \A u \in Threads : u # t => (InQueue(u, s)' <=> InQueue(u, s))
  <2>1. ~InOpen(s)' /\ ~InQueue(t, s)
    BY <1>2, <1>4 DEF InOpen, InQueue
  <2>2. InJournal(s)' <=> InJournal(s)
    BY <1>2 DEF InJournal
  <2> QED BY <1>4, <2>1, <2>2 DEF InQueue
<1>9. Somewhere(s)' <=> Somewhere(s)
  BY <1>7, <1>8 DEF Somewhere
<1>10. Apart(s)'
  BY <1>6, <1>7, <1>8 DEF Conserved, Once, Apart
<1>11. OnceOpen(s)' /\ OnceWritten(s)'
  BY <1>2, <1>6 DEF Conserved, Once, OnceOpen, OnceWritten
<1>12. OnceQueued(s)'
  <2> SUFFICES ASSUME NEW u \in Threads, NEW v \in Threads,
                      NEW j \in 1..Len(queue'[u]), NEW l \in 1..Len(queue'[v]),
                      queue'[u][j].entry.span = s, queue'[v][l].entry.span = s
               PROVE  u = v /\ j = l
    BY DEF OnceQueued
  <2>1. CASE InOpen(s)
    <3>1. \A w \in Threads : w # t => ~InQueue(w, s)'
      BY <1>6, <1>8, <2>1 DEF Conserved, Once, Apart
    <3>2. u = t /\ v = t
      BY <3>1 DEF InQueue
    <3>3. j \in 1..n /\ l \in 1..n /\ taken[j].entry.span = s /\ taken[l].entry.span = s
      BY <1>4, <1>5, <3>2
    <3>4. PICK a \in 1..n, b \in 1..n : a = n - j + 1 /\ b = n - l + 1
      BY <1>5, <3>3
    <3>5. open[a].span = s /\ open[b].span = s
      BY <1>5, <3>3, <3>4
    <3>6. a = b
      BY <1>1, <1>6, <3>5 DEF Conserved, Once, OnceOpen
    <3> QED BY <1>3, <3>2, <3>3, <3>4, <3>6
  <2>2. CASE ~InOpen(s)
    <3>1. u # t /\ v # t
      BY <1>7, <2>2 DEF InQueue
    <3> QED BY <1>4, <1>6, <3>1 DEF Conserved, Once, OnceQueued
  <2> QED BY <2>1, <2>2
<1>13. (s \in Begun' <=> s \in Begun) /\ (Pushing(s)' <=> Pushing(s))
  <2>1. s \in Begun' <=> s \in Begun
    BY <1>2 DEF Begun, Admitted
  <2> QED BY <1>2, <1>4, <2>1, PushingKept
<1> QED BY <1>6, <1>9, <1>10, <1>11, <1>12, <1>13 DEF Conserved, Once

LEMMA RecordFieldConserves ==
  ASSUME Placed, SpansConserved, NEW t \in Threads, NEW o \in Spans,
         RecordField(t, o), NEW s \in Spans
  PROVE  Conserved(s)'
<1>1. UNCHANGED <<phase, journal, queue, pc, subject>>
  BY DEF RecordField, registryVars, threadVars
<1>2. Len(open') = Len(open) /\ \A i \in 1..Len(open) : open'[i].span = open[i].span
  BY FieldsOnly
<1>3. (s \in Begun' <=> s \in Begun) /\ (Pushing(s)' <=> Pushing(s))
  BY <1>1 DEF Begun, Pushing, Admitted
<1> QED BY <1>1, <1>2, <1>3, UnmovedConserved DEF SpansConserved

LEMMA ConservedStep ==
  ASSUME Placed, SpansConserved, [Next]_vars
  PROVE  SpansConserved'
<1> SUFFICES ASSUME NEW s \in Spans PROVE Conserved(s)'
  BY DEF SpansConserved
<1>1. ASSUME UNCHANGED <<open, journal, queue>>, s \in Begun' <=> s \in Begun,
             Pushing(s)' <=> Pushing(s)
      PROVE  Conserved(s)'
  BY <1>1, UnmovedConserved DEF SpansConserved
<1>2. ASSUME NEW t \in Threads, UNCHANGED <<open, journal, queue, phase, subject>>,
             pc[t] # "push",
             \E label \in Labels \ {"push"} : pc' = [pc EXCEPT ![t] = label]
      PROVE  Conserved(s)'
  <2>1. s \in Begun' <=> s \in Begun
    BY <1>2 DEF Begun, Admitted
  <2>2. pc'[t] # "push" /\ \A u \in Threads : u # t => pc'[u] = pc[u]
    BY <1>2 DEF Placed, Typed, TypeOK, ThreadsOK
  <2>3. Pushing(s)' <=> Pushing(s)
    BY <1>2, <2>2, PushingKept
  <2> QED BY <1>1, <1>2, <2>1, <2>3
<1>3. ASSUME NEW t \in Threads, Begin(t) PROVE Conserved(s)'
  <2>1. ASSUME NEW o \in Spans, NewSpan(t, o) PROVE Conserved(s)'
    <3>1. /\ \/ /\ phase' = [phase EXCEPT ![o] = "creating"]
                /\ subject' = [subject EXCEPT ![t] = o]
                /\ pc' = [pc EXCEPT ![t] = "lookup"]
             \/ /\ o \notin Admitted /\ phase' = [phase EXCEPT ![o] = "live"]
                /\ UNCHANGED <<subject, pc>>
          /\ phase[o] = "unborn" /\ pc[t] = "idle"
          /\ UNCHANGED <<open, journal, queue>>
      BY <2>1 DEF NewSpan, Running, Goto, layerVars
    <3>2. s \in Begun' <=> s \in Begun
      BY <3>1 DEF Begun, Admitted, Placed, Typed, TypeOK, RegistryOK
    <3>3. /\ pc'[t] # "push"
          /\ \A u \in Threads : u # t => pc'[u] = pc[u] /\ subject'[u] = subject[u]
      BY <3>1 DEF Placed, Typed, TypeOK, ThreadsOK
    <3>4. Pushing(s)' <=> Pushing(s)
      BY <3>1, <3>3, PushingKept
    <3> QED BY <1>1, <3>1, <3>2, <3>4
  <2>2. ASSUME NEW o \in Spans, CloseUnrecorded(t, o) PROVE Conserved(s)'
    <3>1. /\ phase' = [phase EXCEPT ![o] = "gone"] /\ phase[o] = "live"
          /\ UNCHANGED <<open, journal, queue, pc, subject>>
      BY <2>2 DEF CloseUnrecorded, Closable, layerVars, threadVars
    <3>2. s \in Begun' <=> s \in Begun
      BY <3>1 DEF Begun, Admitted, Placed, Typed, TypeOK, RegistryOK
    <3>3. Pushing(s)' <=> Pushing(s)
      BY <3>1 DEF Pushing
    <3> QED BY <1>1, <3>1, <3>2, <3>3
  <2>3. CASE LogEvent(t)
    BY <1>2, <2>3 DEF LogEvent, Running, Goto, Labels, registryVars
  <2>4. CASE CallFlush(t) \/ CallExit(t)
    <3>1. /\ UNCHANGED <<open, journal, queue, phase, subject>> /\ pc[t] = "idle"
          /\ pc' = [pc EXCEPT ![t] = "clone"]
      BY <2>4 DEF CallFlush, CallExit, LockHooks, Running, Goto, registryVars,
                  layerVars
    <3> QED BY <1>2, <3>1 DEF Labels
  <2> QED BY <1>3, <2>1, <2>2, <2>3, <2>4, RecordFieldConserves,
             CloseRecordedConserves DEF Begin
<1>4. ASSUME NEW t \in Threads, Proceed(t) PROVE Conserved(s)'
  <2>1. CASE Draw(t)
    BY <1>2, <2>1 DEF Draw, Goto, Labels, registryVars
  <2>2. CASE CloneHooks(t)
    BY <1>2, <2>2 DEF CloneHooks, Goto, Labels, registryVars, layerVars
  <2>3. CASE EndFlush(t)
    BY <1>2, <2>3 DEF EndFlush, Goto, Labels, registryVars, layerVars
  <2>4. CASE RunRegistrar(t) \/ RunPlain(t)
    <3>1. UNCHANGED <<open, journal, queue, phase, subject, pc>>
      BY <2>4 DEF RunRegistrar, RunPlain, registryVars, layerVars
    <3> QED BY <1>1, <3>1 DEF Begun, Pushing, Admitted
  <2> QED BY <1>4, <2>1, <2>2, <2>3, <2>4, LookupConserves, PushConserves,
             WriteConserves, CloseOpenConserves DEF Proceed
<1>5. CASE UNCHANGED vars
  <2>1. UNCHANGED <<open, journal, queue, phase, subject, pc>>
    BY <1>5 DEF vars, registryVars, layerVars, threadVars
  <2> QED BY <1>1, <2>1 DEF Begun, Pushing, Admitted
<1> QED BY <1>3, <1>4, <1>5 DEF Next

LEMMA EventsAloneStep ==
  ASSUME Placed, EventsAlone, [Next]_vars
  PROVE  EventsAlone'
<1>1. ASSUME NEW t \in Threads,
             \A u \in Threads : u # t => queue'[u] = queue[u], EventAlone(t)'
      PROVE  EventsAlone'
  BY <1>1 DEF EventsAlone, EventAlone
<1>2. ASSUME UNCHANGED queue PROVE EventsAlone'
  BY <1>2 DEF EventsAlone, EventAlone
<1>3. ASSUME NEW t \in Threads, NEW q, queue' = [queue EXCEPT ![t] = q],
             \A i \in 1..Len(q) : q[i].entry.kind = "event" => Len(q) = 1
      PROVE  EventsAlone'
  <2>1. queue'[t] = q /\ \A u \in Threads : u # t => queue'[u] = queue[u]
    BY <1>3 DEF Placed, Typed, TypeOK, ThreadsOK
  <2> QED BY <1>1, <1>3, <2>1 DEF EventAlone
<1>4. ASSUME NEW t \in Threads, Begin(t) PROVE EventsAlone'
  <2>1. ASSUME NEW s \in Spans, CloseRecorded(t, s) PROVE EventsAlone'
    <3>1. PICK r : queue' = [queue EXCEPT ![t] = <<r>>]
      BY <2>1 DEF CloseRecorded
    <3>2. Len(<<r>>) = 1
      OBVIOUS
    <3> QED BY <1>3, <3>1, <3>2
  <2>2. ASSUME NEW s \in Spans,
               NewSpan(t, s) \/ RecordField(t, s) \/ CloseUnrecorded(t, s)
        PROVE  EventsAlone'
    BY <1>2, <2>2 DEF NewSpan, RecordField, CloseUnrecorded, threadVars
  <2>3. CASE LogEvent(t) \/ CallFlush(t) \/ CallExit(t)
    BY <1>2, <2>3 DEF LogEvent, CallFlush, CallExit
  <2> QED BY <1>4, <2>1, <2>2, <2>3 DEF Begin
<1>5. ASSUME NEW t \in Threads, Proceed(t) PROVE EventsAlone'
  <2>1. CASE Lookup(t)
    <3>1. CASE \E r : queue' = [queue EXCEPT ![t] = <<r>>]
      <4>1. PICK r : queue' = [queue EXCEPT ![t] = <<r>>]
        BY <3>1
      <4>2. Len(<<r>>) = 1
        OBVIOUS
      <4> QED BY <1>3, <4>1, <4>2
    <3>2. CASE UNCHANGED queue
      BY <1>2, <3>2
    <3> QED BY <2>1, <3>1, <3>2 DEF Lookup, Conclude
  <2>2. CASE Push(t)
    <3>1. queue' = [queue EXCEPT ![t] = <<>>] /\ 1..Len(<<>>) = {}
      BY <2>2 DEF Push
    <3> QED BY <1>3, <3>1
  <2>3. CASE Write(t)
    <3>1. queue[t] # <<>> /\ queue[t] \in Seq(RecordType)
          /\ queue' = [queue EXCEPT ![t] = Tail(@)]
      BY <2>3 DEF Write, Placed, Typed, Control, Standing, TypeOK, ThreadsOK
    <3>2. \A i \in 1..Len(Tail(queue[t])) :
            /\ i + 1 \in 1..Len(queue[t]) /\ Len(queue[t]) # 1
            /\ Tail(queue[t])[i] = queue[t][i + 1]
      BY <3>1
    <3>3. \A i \in 1..Len(Tail(queue[t])) : Tail(queue[t])[i].entry.kind # "event"
      BY <3>2 DEF EventsAlone, EventAlone
    <3> QED BY <1>3, <3>1, <3>3
  <2>4. CASE CloseOpen(t)
    <3>1. PICK taken :
            /\ taken = [i \in 1..Len(open) |-> Closed("exit", Reverse(open)[i])]
            /\ queue' = [queue EXCEPT ![t] = taken]
      BY <2>4 DEF CloseOpen
    <3>2. open \in Seq(EntryType)
      BY DEF Placed, Typed, TypeOK, LayerOK
    <3>3. Len(taken) = Len(open)
      BY <3>1, <3>2
    <3>4. \A i \in 1..Len(taken) : taken[i].entry.kind # "event"
      <4> SUFFICES ASSUME NEW i \in 1..Len(open) PROVE taken[i].entry.kind # "event"
        BY <3>3
      <4>1. taken[i].entry = Reverse(open)[i] /\ Reverse(open)[i] \in EntryType
        <5>1. Reverse(open) \in Seq(EntryType) /\ Len(Reverse(open)) = Len(open)
          BY <3>2, Reversed
        <5>2. Reverse(open)[i] \in EntryType
          BY <5>1
        <5>3. taken[i] = Closed("exit", Reverse(open)[i])
          BY <3>1
        <5> QED BY <5>2, <5>3 DEF Closed
      <4> QED BY <4>1 DEF EntryType
    <3> QED BY <1>3, <3>1, <3>4
  <2>5. CASE \/ Draw(t) \/ CloneHooks(t) \/ EndFlush(t) \/ RunRegistrar(t)
             \/ RunPlain(t)
    BY <1>2, <2>5 DEF Draw, CloneHooks, EndFlush, RunRegistrar, RunPlain
  <2> QED BY <1>5, <2>1, <2>2, <2>3, <2>4, <2>5 DEF Proceed
<1>6. CASE UNCHANGED vars
  BY <1>2, <1>6 DEF vars, threadVars
<1> QED BY <1>4, <1>5, <1>6 DEF Next

LEMMA ConservationHolds == SafeSpec => [](Placed /\ SpansConserved /\ EventsAlone)
<1>1. Init => SpansConserved /\ EventsAlone
  <2> SUFFICES ASSUME Init PROVE SpansConserved /\ EventsAlone
    OBVIOUS
  <2>1. /\ open = <<>> /\ journal = <<>> /\ queue = [t \in Threads |-> <<>>]
        /\ phase = [s \in Spans |-> "unborn"] /\ pc = [t \in Threads |-> "idle"]
    BY DEF Init
  <2>2. /\ 1..Len(open) = {} /\ 1..Len(journal) = {}
        /\ \A t \in Threads : 1..Len(queue[t]) = {}
    BY <2>1
  <2>3. ASSUME NEW s \in Spans PROVE Conserved(s)
    <3>1. ~InOpen(s) /\ ~InJournal(s) /\ \A t \in Threads : ~InQueue(t, s)
      BY <2>2 DEF InOpen, InJournal, InQueue
    <3>2. Once(s)
      BY <2>2, <3>1 DEF Once, OnceOpen, OnceWritten, OnceQueued, Apart
    <3>3. s \notin Begun /\ ~Pushing(s)
      BY <2>1 DEF Begun, Pushing
    <3> QED BY <3>1, <3>2, <3>3 DEF Conserved, Somewhere
  <2> QED BY <2>2, <2>3 DEF SpansConserved, EventsAlone, EventAlone
<1>2. Placed /\ SpansConserved /\ EventsAlone /\ [Next]_vars
        => SpansConserved' /\ EventsAlone'
  BY ConservedStep, EventsAloneStep
<1> QED BY <1>1, <1>2, KinshipHolds, PTL DEF SafeSpec, Placed

\* Whatever closes and flushes race, no span is lost or doubled:
\* SpansConserved.
THEOREM NothingLost == SafeSpec => []SpansConserved
<1> QED BY ConservationHolds, PTL

(***************************************************************************)
(* The layer implements the ledger.                                        *)
(***************************************************************************)

\* What a ledger step finds of a thread with nothing in its queue.
LEMMA FreeThread ==
  ASSUME NEW t \in Threads, Len(queue[t]) = 0, pc[t] # "lookup"
  PROVE  Ledger!Free(t) /\ Taken[t] = {} /\ t \notin Logging
<1>1. Carried(t) = {}
  BY DEF Carried
<1>2. Taken[t] = {}
  BY <1>1 DEF Taken
<1>3. t \notin Logging
  BY DEF Logging
<1> QED BY <1>2, <1>3 DEF Ledger!Free

\* A step the ledger does not see.
LEMMA LedgerStutters ==
  ASSUME Begun' = Begun, OpenSpans' = OpenSpans, UNCHANGED journal,
         \A t \in Threads : Taken'[t] = Taken[t] /\ (t \in Logging' <=> t \in Logging)
  PROVE  UNCHANGED Ledger!ledgerVars
<1>1. Taken' = Taken
  <2>1. /\ Taken = [t \in Threads |-> Taken[t]]
        /\ Taken' = [t \in Threads |-> Taken'[t]]
    BY DEF Taken
  <2> QED BY <2>1
<1>2. Logging' = Logging
  BY DEF Logging
<1>3. Stream' = Stream
  BY DEF Stream
<1> QED BY <1>1, <1>2, <1>3 DEF Ledger!ledgerVars

\* How the ledger sees a thread that a step leaves alone.
LEMMA SameThread ==
  ASSUME NEW u \in Threads, queue'[u] = queue[u], subject'[u] = subject[u],
         \/ pc'[u] = pc[u]
         \/ /\ pc[u] \notin {"push", "lookup"}
            /\ pc'[u] \notin {"push", "lookup"}
  PROVE  Taken'[u] = Taken[u] /\ (u \in Logging' <=> u \in Logging)
<1>1. Carried(u)' = Carried(u)
  BY DEF Carried
<1>2. /\ Taken[u] = IF pc[u] = "push" THEN {} ELSE Carried(u)
      /\ Taken'[u] = IF pc'[u] = "push" THEN {} ELSE Carried(u)'
  BY DEF Taken
<1>3. u \in Logging' <=> u \in Logging
  BY DEF Logging
<1> QED BY <1>1, <1>2, <1>3

\* How the ledger sees the other threads.
LEMMA OthersSame ==
  ASSUME NEW t \in Threads,
         \A u \in Threads : u # t => /\ queue'[u] = queue[u] /\ pc'[u] = pc[u]
                                     /\ subject'[u] = subject[u]
  PROVE  \A u \in Threads :
           u # t => Taken'[u] = Taken[u] /\ (u \in Logging' <=> u \in Logging)
<1> SUFFICES ASSUME NEW u \in Threads, u # t
             PROVE  Taken'[u] = Taken[u] /\ (u \in Logging' <=> u \in Logging)
  OBVIOUS
<1>1. queue'[u] = queue[u] /\ pc'[u] = pc[u] /\ subject'[u] = subject[u]
  OBVIOUS
<1> QED BY <1>1, SameThread

\* Steps that only move a thread, between places of which the ledger knows
\* nothing.
LEMMA MoveStutters ==
  ASSUME Placed, NEW t \in Threads, UNCHANGED <<phase, open, journal, queue, subject>>,
         pc[t] \notin {"push", "lookup"}, pc'[t] \notin {"push", "lookup"},
         \A u \in Threads : u # t => pc'[u] = pc[u]
  PROVE  UNCHANGED Ledger!ledgerVars
<1>1. Begun' = Begun /\ OpenSpans' = OpenSpans
  BY DEF Begun, OpenSpans, Admitted
<1>2. \A u \in Threads : Taken'[u] = Taken[u] /\ (u \in Logging' <=> u \in Logging)
  BY SameThread
<1> QED BY <1>1, <1>2, LedgerStutters

LEMMA NewSpanLedger ==
  ASSUME Placed, NEW t \in Threads, NEW s \in Spans, NewSpan(t, s)
  PROVE  UNCHANGED Ledger!ledgerVars
<1>1. /\ \/ /\ phase' = [phase EXCEPT ![s] = "creating"]
            /\ subject' = [subject EXCEPT ![t] = s]
            /\ pc' = [pc EXCEPT ![t] = "lookup"]
         \/ /\ s \notin Admitted /\ phase' = [phase EXCEPT ![s] = "live"]
            /\ UNCHANGED <<subject, pc>>
      /\ phase[s] = "unborn" /\ pc[t] = "idle"
      /\ UNCHANGED <<open, journal, queue>>
  BY DEF NewSpan, Running, Goto, layerVars
<1>2. Begun' = Begun /\ OpenSpans' = OpenSpans
  <2>1. Begun' = Begun
    BY <1>1 DEF Begun, Placed, Typed, TypeOK, RegistryOK, Admitted
  <2> QED BY <1>1, <2>1 DEF OpenSpans
<1>3. \A u \in Threads : u # t => pc'[u] = pc[u] /\ subject'[u] = subject[u]
  BY <1>1 DEF Placed, Typed, TypeOK, ThreadsOK
<1>4. Len(queue[t]) = 0
  BY <1>1 DEF Placed, Typed, Control, Standing
<1>5. pc'[t] # "push" /\ ~(pc'[t] = "lookup" /\ subject'[t] = None)
  BY <1>1, SpanAssumption DEF Placed, Typed, TypeOK, ThreadsOK
<1>6. Taken'[t] = Taken[t] /\ (t \in Logging' <=> t \in Logging)
  <2>1. Carried(t) = {} /\ Carried(t)' = {}
    BY <1>1, <1>4 DEF Carried
  <2>2. Taken'[t] = {} /\ Taken[t] = {}
    BY <2>1 DEF Taken
  <2>3. t \notin Logging' /\ t \notin Logging
    BY <1>1, <1>4, <1>5 DEF Logging
  <2> QED BY <2>2, <2>3
<1> QED BY <1>1, <1>2, <1>3, <1>6, SameThread, LedgerStutters

LEMMA LookupLedger ==
  ASSUME Placed, NEW t \in Threads, Lookup(t)
  PROVE  UNCHANGED Ledger!ledgerVars
<1>1. UNCHANGED <<phase, open, journal, subject>> /\ pc[t] = "lookup"
      /\ \A u \in Threads : u # t => queue'[u] = queue[u] /\ pc'[u] = pc[u]
  BY DEF Lookup, Conclude, Goto, registryVars, layerVars,
         Placed, Typed, TypeOK, ThreadsOK
<1>2. Len(queue[t]) = 0
  BY <1>1 DEF Placed, Typed, Control, Standing
<1>3. Begun' = Begun /\ OpenSpans' = OpenSpans
  BY <1>1 DEF Begun, OpenSpans, Admitted
<1>4. Taken[t] = {} /\ (t \in Logging <=> subject[t] = None)
  <2>1. Carried(t) = {}
    BY <1>2 DEF Carried
  <2>2. Taken[t] = {}
    BY <1>1, <2>1 DEF Taken
  <2> QED BY <1>1, <1>2, <2>2 DEF Logging
<1>5. ASSUME NEW parent, Conclude(t, parent)
      PROVE  Taken'[t] = {} /\ (t \in Logging' <=> subject[t] = None)
  <2>1. CASE subject[t] # None
    <3>1. PICK r : /\ queue' = [queue EXCEPT ![t] = <<r>>]
                   /\ r = Closed("open", Entry(subject[t], parent))
                   /\ pc' = [pc EXCEPT ![t] = "push"]
      BY <1>5, <2>1 DEF Conclude, Goto
    <3>2. queue'[t] = <<r>> /\ pc'[t] = "push" /\ r.entry.kind = "span"
      BY <3>1 DEF Closed, Entry, Placed, Typed, TypeOK, ThreadsOK
    <3>3. Len(queue'[t]) = 1 /\ queue'[t][1] = r
      BY <3>2
    <3>4. Taken'[t] = {}
      BY <3>2 DEF Taken
    <3>5. t \notin Logging'
      BY <3>2, <3>3 DEF Logging
    <3> QED BY <2>1, <3>4, <3>5
  <2>2. CASE subject[t] = None
    <3>1. PICK r : /\ queue' = [queue EXCEPT ![t] = <<r>>]
                   /\ r = Closed("event", EventRecord(parent))
                   /\ pc' = [pc EXCEPT ![t] = "draw"]
      BY <1>5, <2>2 DEF Conclude, Goto
    <3>2. /\ queue'[t] = <<r>> /\ pc'[t] = "draw"
          /\ r.entry.kind = "event" /\ r.entry.span = None
      BY <3>1 DEF Closed, EventRecord, Placed, Typed, TypeOK, ThreadsOK
    <3>3. Len(queue'[t]) = 1 /\ queue'[t][1] = r
      BY <3>2
    <3>4. Carried(t)' = {}
      BY <3>2, <3>3 DEF Carried
    <3>5. Taken'[t] = {}
      BY <3>4 DEF Taken
    <3>6. t \in Logging'
      BY <3>2, <3>3 DEF Logging
    <3> QED BY <2>2, <3>5, <3>6
  <2> QED BY <2>1, <2>2
<1>6. Taken'[t] = Taken[t] /\ (t \in Logging' <=> t \in Logging)
  <2>1. CASE UNCHANGED <<queue, pc>>
    BY <1>1, <2>1, SameThread
  <2>2. CASE \E parent : Conclude(t, parent)
    BY <1>4, <1>5, <2>2
  <2> QED BY <2>1, <2>2 DEF Lookup
<1> QED BY <1>1, <1>3, <1>6, SameThread, LedgerStutters

LEMMA PushLedger ==
  ASSUME Placed, NEW t \in Threads, Push(t)
  PROVE  \E s \in Admitted : Ledger!Begin(s)
<1>1. PICK e, n, s : e = queue[t][1].entry /\ n = Len(open) /\ s = subject[t]
  OBVIOUS
<1>2. /\ open' = Append(open, Head(queue[t]).entry) /\ pc[t] = "push"
      /\ phase' = [phase EXCEPT ![s] = "live"] /\ journal' = journal
      /\ subject' = [subject EXCEPT ![t] = None]
      /\ queue' = [queue EXCEPT ![t] = <<>>]
      /\ pc' = [pc EXCEPT ![t] = "idle"]
  BY <1>1 DEF Push, Goto
<1>3. /\ queue[t] \in Seq(RecordType) /\ Len(queue[t]) = 1
      /\ e.span = s /\ e.kind = "span" /\ s \in Admitted /\ s # None
  BY <1>1, <1>2 DEF Placed, Typed, Control, Standing, TypeOK, ThreadsOK, Parent
<1>4. /\ n \in Nat /\ Len(open') = n + 1 /\ open'[n + 1] = e
      /\ \A i \in 1..n : open'[i] = open[i]
  <2>1. Head(queue[t]).entry = e /\ open \in Seq(EntryType)
    BY <1>1, <1>3 DEF Placed, Typed, TypeOK, LayerOK
  <2>2. open' = Append(open, e)
    BY <1>2, <2>1
  <2> QED BY <1>1, <2>1, <2>2
<1>5. phase[s] = "creating"
  BY <1>1, <1>2, <1>3 DEF Placed, Occupancy, SubjectOwned
<1>6. s \notin Begun /\ Begun' = Begun \cup {s}
  BY <1>2, <1>3, <1>5 DEF Begun, Placed, Typed, TypeOK, RegistryOK, Admitted
<1>7. OpenSpans' = OpenSpans \cup {s}
  <2>1. 1..Len(open') = 1..n \cup {n + 1}
    BY <1>4
  <2> QED BY <1>1, <1>3, <1>4, <2>1 DEF OpenSpans
<1>8. /\ \A u \in Threads : u # t => /\ queue'[u] = queue[u] /\ pc'[u] = pc[u]
                                     /\ subject'[u] = subject[u]
      /\ Len(queue'[t]) = 0 /\ pc'[t] = "idle"
  BY <1>2 DEF Placed, Typed, TypeOK, ThreadsOK
<1>9. Taken'[t] = Taken[t] /\ (t \in Logging' <=> t \in Logging)
  <2>1. Carried(t)' = {}
    BY <1>8 DEF Carried
  <2>2. Taken'[t] = {} /\ Taken[t] = {}
    BY <1>2, <2>1 DEF Taken
  <2>3. t \notin Logging'
    BY <1>8 DEF Logging
  <2>4. t \notin Logging
    BY <1>1, <1>2, <1>3 DEF Logging
  <2> QED BY <2>2, <2>3, <2>4
<1>10. UNCHANGED <<Taken, Logging, Stream>>
  <2>1. /\ Taken = [u \in Threads |-> Taken[u]]
        /\ Taken' = [u \in Threads |-> Taken'[u]]
        /\ Logging \subseteq Threads /\ Logging' \subseteq Threads
    BY DEF Taken, Logging
  <2>2. \A u \in Threads : Taken'[u] = Taken[u] /\ (u \in Logging' <=> u \in Logging)
    BY <1>8, <1>9, SameThread
  <2>3. Stream' = Stream
    BY <1>2 DEF Stream
  <2> QED BY <2>1, <2>2, <2>3
<1> QED BY <1>3, <1>6, <1>7, <1>10 DEF Ledger!Begin

LEMMA RecordFieldLedger ==
  ASSUME Placed, NEW t \in Threads, NEW o \in Spans, RecordField(t, o)
  PROVE  UNCHANGED Ledger!ledgerVars
<1>1. UNCHANGED <<phase, journal, queue, pc, subject>>
  BY DEF RecordField, registryVars, threadVars
<1>2. Begun' = Begun
  BY <1>1 DEF Begun, Admitted
<1>3. OpenSpans' = OpenSpans
  BY FieldsOnly DEF OpenSpans
<1>4. \A u \in Threads : Taken'[u] = Taken[u] /\ (u \in Logging' <=> u \in Logging)
  <2> SUFFICES ASSUME NEW u \in Threads
               PROVE  Taken'[u] = Taken[u] /\ (u \in Logging' <=> u \in Logging)
    OBVIOUS
  <2> QED BY <1>1, SameThread
<1> QED BY <1>1, <1>2, <1>3, <1>4, LedgerStutters

LEMMA CloseUnrecordedLedger ==
  ASSUME Placed, NEW t \in Threads, NEW o \in Spans, CloseUnrecorded(t, o)
  PROVE  UNCHANGED Ledger!ledgerVars
<1>1. /\ UNCHANGED <<open, journal, queue, pc, subject>>
      /\ phase[o] = "live" /\ phase' = [phase EXCEPT ![o] = "gone"]
  BY DEF CloseUnrecorded, Closable, layerVars, threadVars
<1>2. Begun' = Begun
  BY <1>1 DEF Begun, Admitted, Placed, Typed, TypeOK, RegistryOK
<1>3. OpenSpans' = OpenSpans
  BY <1>1 DEF OpenSpans
<1>4. \A u \in Threads : Taken'[u] = Taken[u] /\ (u \in Logging' <=> u \in Logging)
  <2> SUFFICES ASSUME NEW u \in Threads
               PROVE  Taken'[u] = Taken[u] /\ (u \in Logging' <=> u \in Logging)
    OBVIOUS
  <2> QED BY <1>1, SameThread
<1> QED BY <1>1, <1>2, <1>3, <1>4, LedgerStutters

LEMMA LogEventLedger ==
  ASSUME Placed, NEW t \in Threads, LogEvent(t)
  PROVE  Ledger!LogEvent(t)
<1>1. /\ UNCHANGED <<phase, open, journal, queue, subject>> /\ pc[t] = "idle"
      /\ pc' = [pc EXCEPT ![t] = "lookup"]
  BY DEF LogEvent, Running, Goto, registryVars
<1>2. /\ pc'[t] = "lookup" /\ subject[t] = None /\ Len(queue[t]) = 0
      /\ \A u \in Threads : u # t => pc'[u] = pc[u]
  BY <1>1 DEF Placed, Typed, Control, Standing, TypeOK, ThreadsOK
<1>3. Ledger!Free(t)
  BY <1>1, <1>2, FreeThread
<1>4. Begun' = Begun /\ OpenSpans' = OpenSpans /\ Stream' = Stream
  BY <1>1 DEF Begun, OpenSpans, Stream, Admitted
<1>5. \A u \in Threads :
        u # t => Taken'[u] = Taken[u] /\ (u \in Logging' <=> u \in Logging)
  BY <1>1, <1>2, OthersSame
<1>6. Taken'[t] = Taken[t] /\ t \in Logging'
  <2>1. Carried(t) = {} /\ Carried(t)' = {}
    BY <1>1, <1>2 DEF Carried
  <2>2. Taken[t] = {} /\ Taken'[t] = {}
    BY <2>1 DEF Taken
  <2> QED BY <1>1, <1>2, <2>2 DEF Logging
<1>7. Taken' = Taken
  <2>1. /\ Taken = [u \in Threads |-> Taken[u]]
        /\ Taken' = [u \in Threads |-> Taken'[u]]
    BY DEF Taken
  <2> QED BY <1>5, <1>6, <2>1
<1>8. Logging' = Logging \cup {t}
  <2>1. Logging \subseteq Threads /\ Logging' \subseteq Threads
    BY DEF Logging
  <2> QED BY <1>5, <1>6, <2>1
<1> QED BY <1>3, <1>4, <1>7, <1>8 DEF Ledger!LogEvent

LEMMA CloseRecordedLedger ==
  ASSUME Placed, NEW t \in Threads, NEW o \in Spans, CloseRecorded(t, o)
  PROVE  o \in Admitted /\ Ledger!Take(t, o)
<1>1. PICK i, r, n : i = FirstIndex(o) /\ r = Closed("close", open[i]) /\ n = Len(open)
  OBVIOUS
<1>2. /\ open' = TakenOut(i) /\ queue' = [queue EXCEPT ![t] = <<r>>]
      /\ journal' = journal /\ pc[t] = "idle" /\ Index(o) # {}
      /\ phase[o] = "live" /\ phase' = [phase EXCEPT ![o] = "closing"]
      /\ pc' = [pc EXCEPT ![t] = "draw"] /\ subject' = [subject EXCEPT ![t] = o]
  BY <1>1 DEF CloseRecorded, Running, Closable, Goto
<1>3. /\ i \in 1..n /\ open[i].span = o /\ n \in Nat
      /\ r.entry.span = o /\ r.entry.kind = "span" /\ o \in Admitted /\ o # None
  <2>1. i \in 1..n /\ open[i].span = o /\ n \in Nat /\ r.entry = open[i]
    BY <1>1, <1>2, FirstIndexFound, EntryIsOwn
    DEF Closed, Placed, Typed, TypeOK, LayerOK
  <2>2. open[i] \in EntryType
    BY <1>1, <2>1 DEF Placed, Typed, TypeOK, LayerOK
  <2> QED BY <2>1, <2>2, SpanAssumption DEF EntryType
<1>4. /\ queue'[t] = <<r>> /\ queue[t] = <<>> /\ pc'[t] = "draw"
      /\ \A u \in Threads : u # t => /\ queue'[u] = queue[u] /\ pc'[u] = pc[u]
                                     /\ subject'[u] = subject[u]
  BY <1>2 DEF Placed, Typed, TypeOK, ThreadsOK, Control, Standing
<1>5. Len(queue'[t]) = 1 /\ queue'[t][1] = r /\ Len(queue[t]) = 0
  BY <1>4
<1>6. Ledger!Free(t) /\ t \notin Logging
  BY <1>2, <1>5, FreeThread
<1>7. o \in OpenSpans
  BY <1>1, <1>3 DEF OpenSpans
<1>8. OpenSpans' = OpenSpans \ {o}
  <2>1. ASSUME NEW x \in OpenSpans' PROVE x \in OpenSpans \ {o}
    <3>1. PICK j \in 1..Len(open') : open'[j].span = x
      BY DEF OpenSpans
    <3>2. PICK k \in 1..n : k # i /\ open'[j] = open[k]
      BY <1>1, <1>2, <1>3, OpenWithout DEF Placed
    <3>3. x # o
      BY <1>1, <1>3, <3>1, <3>2 DEF Placed, Occupancy, OpenOnce
    <3> QED BY <1>1, <3>1, <3>2, <3>3 DEF OpenSpans
  <2>2. ASSUME NEW x \in OpenSpans \ {o} PROVE x \in OpenSpans'
    <3>1. PICK k \in 1..Len(open) : open[k].span = x
      BY DEF OpenSpans
    <3>2. PICK j \in 1..Len(open') : open'[j] = open[k]
      BY <1>1, <1>2, <1>3, <3>1, OthersLeft DEF Placed
    <3> QED BY <3>1, <3>2 DEF OpenSpans
  <2> QED BY <2>1, <2>2
<1>9. Begun' = Begun /\ Stream' = Stream
  BY <1>2 DEF Begun, Stream, Placed, Typed, TypeOK, RegistryOK, Admitted
<1>10. \A u \in Threads :
         u # t => Taken'[u] = Taken[u] /\ (u \in Logging' <=> u \in Logging)
  BY <1>4, OthersSame
<1>11. Taken'[t] = {o} /\ t \notin Logging'
  <2>1. Carried(t)' = {o}
    BY <1>3, <1>5 DEF Carried
  <2>2. Taken'[t] = {o}
    BY <1>4, <2>1 DEF Taken
  <2>3. t \notin Logging'
    BY <1>3, <1>4, <1>5 DEF Logging
  <2> QED BY <2>2, <2>3
<1>12. Taken' = [Taken EXCEPT ![t] = {o}]
  <2>1. /\ Taken = [u \in Threads |-> Taken[u]]
        /\ Taken' = [u \in Threads |-> Taken'[u]]
    BY DEF Taken
  <2> QED BY <1>10, <1>11, <2>1
<1>13. Logging' = Logging
  <2>1. Logging \subseteq Threads /\ Logging' \subseteq Threads
    BY DEF Logging
  <2> QED BY <1>6, <1>10, <1>11, <2>1
<1> QED BY <1>3, <1>6, <1>7, <1>8, <1>9, <1>12, <1>13 DEF Ledger!Take

LEMMA CloseOpenLedger ==
  ASSUME Placed, NEW t \in Threads, CloseOpen(t)
  PROVE  Ledger!TakeAll(t)
<1>1. PICK taken, n :
        /\ taken = [i \in 1..Len(open) |-> Closed("exit", Reverse(open)[i])]
        /\ n = Len(open)
  OBVIOUS
<1>2. /\ open' = <<>> /\ queue' = [queue EXCEPT ![t] = taken]
      /\ UNCHANGED <<journal, phase, subject>> /\ pc[t] = "flush"
      /\ pc' = pc \/ pc' = [pc EXCEPT ![t] = "draw"]
  BY <1>1 DEF CloseOpen, OpenTaken, NextHook, Goto, registryVars
<1>3. n \in Nat /\ open \in Seq(EntryType)
  BY <1>1 DEF Placed, Typed, TypeOK, LayerOK
<1>4. /\ queue'[t] = taken /\ Len(queue[t]) = 0 /\ pc'[t] \in {"flush", "draw"}
      /\ \A u \in Threads : u # t => /\ queue'[u] = queue[u] /\ pc'[u] = pc[u]
                                     /\ subject'[u] = subject[u]
  BY <1>2 DEF Placed, Typed, TypeOK, ThreadsOK, Control, Standing
<1>5. /\ Len(taken) = n
      /\ \A i \in 1..n : /\ n - i + 1 \in 1..n
                         /\ taken[i].entry = open[n - i + 1]
                         /\ taken[i].entry.kind = "span"
                         /\ taken[i].entry.span # None
  <2>1. Len(taken) = n /\ \A i \in 1..n : taken[i] = Closed("exit", Reverse(open)[i])
    BY <1>1, <1>3
  <2> SUFFICES ASSUME NEW i \in 1..n
               PROVE  /\ n - i + 1 \in 1..n /\ taken[i].entry = open[n - i + 1]
                      /\ taken[i].entry.kind = "span" /\ taken[i].entry.span # None
    BY <2>1
  <2>2. Reverse(open)[i] = open[n - i + 1]
    BY <1>1, <1>3, Reversed
  <2>3. taken[i] = Closed("exit", open[n - i + 1])
    BY <2>1, <2>2
  <2>4. n - i + 1 \in 1..n /\ taken[i].entry = open[n - i + 1]
    BY <1>3, <2>3 DEF Closed
  <2>5. taken[i].entry \in EntryType
    BY <1>1, <1>3, <2>4
  <2> QED BY <2>4, <2>5, SpanAssumption DEF EntryType, Admitted
<1>6. Ledger!Free(t) /\ t \notin Logging
  BY <1>2, <1>4, FreeThread
<1>7. OpenSpans' = {}
  BY <1>2 DEF OpenSpans
<1>8. Begun' = Begun /\ Stream' = Stream
  BY <1>2 DEF Begun, Stream, Admitted
<1>9. \A u \in Threads :
        u # t => Taken'[u] = Taken[u] /\ (u \in Logging' <=> u \in Logging)
  BY <1>4, OthersSame
<1>10. Taken'[t] = OpenSpans
  <2>1. ASSUME NEW x \in Carried(t)' PROVE x \in OpenSpans
    <3>1. PICK i \in 1..n : taken[i].entry.span = x
      BY <1>4, <1>5 DEF Carried
    <3> QED BY <1>1, <1>5, <3>1 DEF OpenSpans
  <2>2. ASSUME NEW x \in OpenSpans PROVE x \in Carried(t)'
    <3>1. PICK k \in 1..n : open[k].span = x
      BY <1>1 DEF OpenSpans
    <3>2. PICK i \in 1..n : i = n - k + 1
      BY <1>3
    <3>3. taken[i].entry = open[k] /\ x # None
      <4>1. n - i + 1 = k
        BY <1>3, <3>2
      <4> QED BY <1>5, <3>1, <4>1
    <3>4. /\ i \in 1..n /\ Len(queue'[t]) = n
          /\ queue'[t][i].entry.span = x
      BY <1>3, <1>4, <1>5, <3>1, <3>2, <3>3
    <3> QED BY <3>3, <3>4 DEF Carried
  <2>3. Taken'[t] = Carried(t)'
    BY <1>4 DEF Taken
  <2> QED BY <2>1, <2>2, <2>3
<1>11. t \notin Logging'
  <2>1. \A i \in 1..Len(queue'[t]) : queue'[t][i].entry.kind # "event"
    BY <1>4, <1>5
  <2> QED BY <1>4, <2>1 DEF Logging
<1>12. Taken' = [Taken EXCEPT ![t] = OpenSpans]
  <2>1. /\ Taken = [u \in Threads |-> Taken[u]]
        /\ Taken' = [u \in Threads |-> Taken'[u]]
    BY DEF Taken
  <2> QED BY <1>9, <1>10, <2>1
<1>13. Logging' = Logging
  <2>1. Logging \subseteq Threads /\ Logging' \subseteq Threads
    BY DEF Logging
  <2> QED BY <1>6, <1>9, <1>11, <2>1
<1> QED BY <1>6, <1>7, <1>8, <1>12, <1>13 DEF Ledger!TakeAll

LEMMA Extended ==
  ASSUME NEW S, NEW s \in Seq(S), NEW longer \in Seq(S), NEW e \in S,
         Len(longer) = Len(s) + 1, longer[Len(s) + 1] = e,
         \A i \in 1..Len(s) : longer[i] = s[i]
  PROVE  longer = Append(s, e)
OBVIOUS

\* What the stream gains from a write.
LEMMA StreamGrows ==
  ASSUME Placed, NEW t \in Threads, Write(t)
  PROVE  Stream' = Append(Stream, queue[t][1].entry.span)
<1>1. PICK line, n : /\ line = [record |-> Head(queue[t]), seq |-> drawn[t]]
                     /\ n = Len(journal)
  OBVIOUS
<1>2. journal' = Append(journal, line) /\ pc[t] = "write"
  BY <1>1 DEF Write
<1>3. queue[t] # <<>> /\ queue[t] \in Seq(RecordType)
  BY <1>2 DEF Placed, Typed, Control, Standing, TypeOK, ThreadsOK
<1>4. line.record = queue[t][1] /\ queue[t][1] \in RecordType
  BY <1>1, <1>3
<1>5. /\ n \in Nat /\ Len(journal') = n + 1 /\ journal'[n + 1] = line
      /\ \A i \in 1..n : journal'[i] = journal[i] /\ journal[i].record \in RecordType
  <2>1. journal \in Seq([record : RecordType, seq : Nat])
    BY DEF Placed, Typed, TypeOK, LayerOK
  <2>2. \A i \in 1..n : journal[i].record \in RecordType
    BY <1>1, JournalTyped DEF Placed
  <2> QED BY <1>1, <1>2, <2>1, <2>2
<1>6. /\ Stream = [i \in 1..n |-> journal[i].record.entry.span]
      /\ Stream' = [i \in 1..n + 1 |-> journal'[i].record.entry.span]
  BY <1>1, <1>5 DEF Stream
<1>7. \A r \in RecordType : r.entry.span \in Parent
  BY DEF RecordType, EntryType, EventType, Parent
<1>8. 1..n + 1 = 1..n \cup {n + 1}
  BY <1>5
<1>9. /\ \A i \in 1..n : journal[i].record.entry.span \in Parent
      /\ \A i \in 1..n + 1 : journal'[i].record.entry.span \in Parent
  BY <1>4, <1>5, <1>7, <1>8
<1>10. Stream \in Seq(Parent) /\ Len(Stream) = n
  BY <1>5, <1>6, <1>9
<1>11. Stream' \in Seq(Parent) /\ Len(Stream') = n + 1
  BY <1>5, <1>6, <1>9
<1>12. \A i \in 1..n : Stream'[i] = Stream[i]
  BY <1>5, <1>6, <1>8
<1>13. Stream'[n + 1] = queue[t][1].entry.span
  BY <1>4, <1>5, <1>6, <1>8
<1> QED BY <1>4, <1>7, <1>10, <1>11, <1>12, <1>13, Extended

LEMMA WriteLedger ==
  ASSUME Placed, SpansConserved, EventsAlone, NEW t \in Threads, Write(t)
  PROVE  (\E s \in Admitted : Ledger!WriteSpan(t, s)) \/ Ledger!WriteEvent(t)
<1>1. PICK r, m, x : r = queue[t][1] /\ m = Len(queue[t]) /\ x = r.entry.span
  OBVIOUS
<1>2. /\ UNCHANGED open /\ pc[t] = "write"
      /\ queue' = [queue EXCEPT ![t] = Tail(@)]
      /\ phase' = [o \in Spans |-> IF o = subject[t] THEN "gone" ELSE phase[o]]
      /\ subject' = [subject EXCEPT ![t] = None]
      /\ \E label \in {"draw", "idle", "flush"} : pc' = [pc EXCEPT ![t] = label]
  BY <1>1 DEF Write, Goto, Placed, Typed, TypeOK, ThreadsOK
<1>3. queue[t] # <<>> /\ queue[t] \in Seq(RecordType)
  BY <1>2 DEF Placed, Typed, Control, Standing, TypeOK, ThreadsOK
<1>4. r \in RecordType /\ m \in Nat /\ 1 \in 1..m
  BY <1>1, <1>3
<1>5. /\ queue'[t] = Tail(queue[t])
      /\ \A u \in Threads : u # t => /\ queue'[u] = queue[u] /\ pc'[u] = pc[u]
                                     /\ subject'[u] = subject[u]
      /\ pc'[t] \in {"draw", "idle", "flush"}
  BY <1>2 DEF Placed, Typed, TypeOK, ThreadsOK
<1>6. /\ Len(queue'[t]) = m - 1
      /\ \A i \in 1..m - 1 : queue'[t][i] = queue[t][i + 1] /\ i + 1 \in 1..m
  BY <1>1, <1>3, <1>4, <1>5
<1>7. Begun' = Begun /\ OpenSpans' = OpenSpans
  <2>1. \A s \in Spans : s = subject[t] => phase[s] = "closing"
    BY <1>2, SpanAssumption DEF Placed, Occupancy, SubjectOwned
  <2>2. Begun' = Begun
    BY <1>2, <2>1 DEF Begun, Admitted
  <2> QED BY <1>2, <2>2 DEF OpenSpans
<1>8. Stream' = Append(Stream, x)
  BY <1>1, StreamGrows
<1>9. \A u \in Threads :
        u # t => Taken'[u] = Taken[u] /\ (u \in Logging' <=> u \in Logging)
  BY <1>5, OthersSame
<1>10. Taken[t] = Carried(t) /\ Taken'[t] = Carried(t)'
  BY <1>2, <1>5 DEF Taken
<1>11. /\ Taken = [u \in Threads |-> Taken[u]]
       /\ Taken' = [u \in Threads |-> Taken'[u]]
       /\ Logging \subseteq Threads /\ Logging' \subseteq Threads
  BY DEF Taken, Logging
<1>12. /\ t \in Logging <=> \E i \in 1..m : queue[t][i].entry.kind = "event"
       /\ t \in Logging' <=> \E i \in 1..m - 1 : queue'[t][i].entry.kind = "event"
  BY <1>1, <1>2, <1>5, <1>6 DEF Logging
<1>13. CASE r.entry.kind = "span"
  <2>1. x \in Admitted /\ x # None /\ x \in Spans
    BY <1>1, <1>4, <1>13, SpanAssumption DEF RecordType, EntryType, EventType, Admitted
  <2>2. \A i \in 1..m : queue[t][i].entry.kind # "event"
    <3> SUFFICES ASSUME NEW i \in 1..m, queue[t][i].entry.kind = "event"
                 PROVE  FALSE
      OBVIOUS
    <3>1. m = 1
      BY <1>1 DEF EventsAlone, EventAlone
    <3> QED BY <1>1, <1>13, <3>1
  <2>3. t \notin Logging /\ t \notin Logging'
    BY <1>6, <1>12, <2>2
  <2>4. Logging' = Logging
    BY <1>9, <1>11, <2>3
  <2>5. x \in Carried(t)
    BY <1>1, <1>4, <2>1 DEF Carried
  <2>6. Carried(t)' = Carried(t) \ {x}
    <3>1. \A i \in 1..m : queue[t][i].entry.span \in Spans \cup {None}
      <4>1. \A i \in 1..m : queue[t][i] \in RecordType
        BY <1>1, <1>3
      <4> QED BY <4>1 DEF RecordType, EntryType, EventType, Admitted
    <3>2. \A s \in Spans : InQueue(t, s)' <=> InQueue(t, s) /\ x # s
      BY <1>1, WrittenLeaves
    <3>3. \A s \in Spans : InQueue(t, s) <=> s \in Carried(t)
      BY SpanAssumption DEF InQueue, Carried
    <3>4. \A s \in Spans : InQueue(t, s)' <=> s \in Carried(t)'
      BY SpanAssumption DEF InQueue, Carried
    <3>5. Carried(t) \subseteq Spans /\ Carried(t)' \subseteq Spans
      BY <1>1, <1>6, <3>1 DEF Carried
    <3> QED BY <3>2, <3>3, <3>4, <3>5
  <2>7. Taken' = [Taken EXCEPT ![t] = Taken[t] \ {x}]
    BY <1>9, <1>10, <1>11, <2>6
  <2>8. Ledger!WriteSpan(t, x)
    BY <1>7, <1>8, <1>10, <2>4, <2>5, <2>7 DEF Ledger!WriteSpan
  <2> QED BY <2>1, <2>8
<1>14. CASE r.entry.kind = "event"
  <2>1. x = None
    BY <1>1, <1>4, <1>14 DEF RecordType, EntryType, EventType
  <2>2. m = 1
    BY <1>1, <1>4, <1>14 DEF EventsAlone, EventAlone
  <2>3. Carried(t) = {} /\ Carried(t)' = {}
    <3>1. 1..Len(queue[t]) = {1} /\ 1..Len(queue'[t]) = {}
      BY <1>1, <1>6, <2>2
    <3> QED BY <1>1, <2>1, <3>1 DEF Carried
  <2>4. Taken' = Taken
    BY <1>9, <1>10, <1>11, <2>3
  <2>5. t \in Logging /\ t \notin Logging'
    BY <1>1, <1>4, <1>12, <1>14, <2>2
  <2>6. Logging' = Logging \ {t}
    BY <1>9, <1>11, <2>5
  <2> QED BY <1>7, <1>8, <2>1, <2>4, <2>5, <2>6 DEF Ledger!WriteEvent
<1> QED BY <1>4, <1>13, <1>14 DEF RecordType, EntryType, EventType

\* Every step of the layer is one of the ledger's or leaves it alone.
LEMMA LedgerStep ==
  ASSUME Placed, SpansConserved, EventsAlone, [Next]_vars
  PROVE  [Ledger!Next]_(Ledger!ledgerVars)
<1>1. ASSUME NEW t \in Threads, Begin(t)
      PROVE  [Ledger!Next]_(Ledger!ledgerVars)
  <2>1. ASSUME NEW s \in Spans, NewSpan(t, s) PROVE UNCHANGED Ledger!ledgerVars
    BY <2>1, NewSpanLedger
  <2>2. ASSUME NEW s \in Spans, RecordField(t, s) PROVE UNCHANGED Ledger!ledgerVars
    BY <2>2, RecordFieldLedger
  <2>3. ASSUME NEW s \in Spans, CloseUnrecorded(t, s)
        PROVE  UNCHANGED Ledger!ledgerVars
    BY <2>3, CloseUnrecordedLedger
  <2>4. ASSUME NEW s \in Spans, CloseRecorded(t, s) PROVE Ledger!Next
    <3>1. s \in Admitted /\ Ledger!Take(t, s)
      BY <2>4, CloseRecordedLedger
    <3> QED BY <3>1 DEF Ledger!Next
  <2>5. CASE LogEvent(t)
    <3>1. Ledger!LogEvent(t)
      BY <2>5, LogEventLedger
    <3> QED BY <3>1 DEF Ledger!Next
  <2>6. CASE CallFlush(t) \/ CallExit(t)
    <3>1. /\ UNCHANGED <<phase, open, journal, queue, subject>> /\ pc[t] = "idle"
          /\ pc' = [pc EXCEPT ![t] = "clone"]
      BY <2>6 DEF CallFlush, CallExit, LockHooks, Running, Goto, registryVars,
                  layerVars
    <3>2. pc'[t] = "clone" /\ \A u \in Threads : u # t => pc'[u] = pc[u]
      BY <3>1 DEF Placed, Typed, TypeOK, ThreadsOK
    <3> QED BY <3>1, <3>2, MoveStutters
  <2> QED BY <1>1, <2>1, <2>2, <2>3, <2>4, <2>5, <2>6 DEF Begin
<1>2. ASSUME NEW t \in Threads, Proceed(t)
      PROVE  [Ledger!Next]_(Ledger!ledgerVars)
  <2>1. CASE Lookup(t)
    BY <2>1, LookupLedger
  <2>2. CASE Push(t)
    <3>1. \E s \in Admitted : Ledger!Begin(s)
      BY <2>2, PushLedger
    <3> QED BY <3>1 DEF Ledger!Next
  <2>3. CASE Write(t)
    <3>1. (\E s \in Admitted : Ledger!WriteSpan(t, s)) \/ Ledger!WriteEvent(t)
      BY <2>3, WriteLedger
    <3> QED BY <3>1 DEF Ledger!Next
  <2>4. CASE CloseOpen(t)
    <3>1. Ledger!TakeAll(t)
      BY <2>4, CloseOpenLedger
    <3> QED BY <3>1 DEF Ledger!Next
  <2>5. ASSUME NEW from \in {"draw", "clone", "flush"},
               NEW to \in {"write", "flush", "idle"}, pc[t] = from,
               UNCHANGED <<phase, open, journal, queue, subject>>,
               pc' = [pc EXCEPT ![t] = to]
        PROVE  UNCHANGED Ledger!ledgerVars
    <3>1. pc'[t] = to /\ \A u \in Threads : u # t => pc'[u] = pc[u]
      BY <2>5 DEF Placed, Typed, TypeOK, ThreadsOK
    <3> QED BY <2>5, <3>1, MoveStutters
  <2>6. CASE Draw(t)
    BY <2>5, <2>6 DEF Draw, Goto, registryVars
  <2>7. CASE CloneHooks(t)
    BY <2>5, <2>7 DEF CloneHooks, Goto, registryVars, layerVars
  <2>8. CASE EndFlush(t)
    BY <2>5, <2>8 DEF EndFlush, Goto, registryVars, layerVars
  <2>9. CASE RunRegistrar(t) \/ RunPlain(t)
    <3>1. UNCHANGED <<phase, open, journal, queue, subject, pc>> /\ pc[t] = "flush"
      BY <2>9 DEF RunRegistrar, RunPlain, NextHook, registryVars, layerVars
    <3> QED BY <3>1, MoveStutters
  <2> QED BY <1>2, <2>1, <2>2, <2>3, <2>4, <2>6, <2>7, <2>8, <2>9 DEF Proceed
<1>3. CASE UNCHANGED vars
  <2>1. UNCHANGED <<phase, open, journal, queue, subject, pc>>
    BY <1>3 DEF vars, registryVars, layerVars, threadVars
  <2>2. Begun' = Begun /\ OpenSpans' = OpenSpans
    BY <2>1 DEF Begun, OpenSpans, Admitted
  <2>3. \A u \in Threads : Taken'[u] = Taken[u] /\ (u \in Logging' <=> u \in Logging)
    <3> SUFFICES ASSUME NEW u \in Threads
                 PROVE  Taken'[u] = Taken[u] /\ (u \in Logging' <=> u \in Logging)
      OBVIOUS
    <3> QED BY <2>1, SameThread
  <2> QED BY <2>1, <2>2, <2>3, LedgerStutters
<1> QED BY <1>1, <1>2, <1>3 DEF Next

LEMMA LedgerBegins == Init => Ledger!Init
<1> SUFFICES ASSUME Init PROVE Ledger!Init
  OBVIOUS
<1>1. /\ open = <<>> /\ journal = <<>> /\ queue = [t \in Threads |-> <<>>]
      /\ phase = [s \in Spans |-> "unborn"] /\ pc = [t \in Threads |-> "idle"]
  BY DEF Init
<1>2. Begun = {} /\ OpenSpans = {}
  <2>1. \A s \in Admitted : phase[s] = "unborn"
    BY <1>1 DEF Admitted
  <2>2. 1..Len(open) = {}
    BY <1>1
  <2> QED BY <2>1, <2>2 DEF Begun, OpenSpans
<1>3. \A t \in Threads : pc[t] = "idle" /\ 1..Len(queue[t]) = {}
  BY <1>1
<1>4. Logging = {}
  BY <1>3 DEF Logging
<1>5. Taken = [t \in Threads |-> {}]
  BY <1>3 DEF Taken, Carried
<1>6. Stream = <<>>
  BY <1>1 DEF Stream
<1> QED BY <1>2, <1>4, <1>5, <1>6 DEF Ledger!Init

\* The layer, with its slots, locks and hooks, keeps the ledger step by step:
\* ImplementsLedger.
THEOREM RefinesLedger == SafeSpec => ImplementsLedger
<1>1. Init => Ledger!Init
  BY LedgerBegins
<1>2. Placed /\ SpansConserved /\ EventsAlone /\ [Next]_vars
        => [Ledger!Next]_(Ledger!ledgerVars)
  BY LedgerStep
<1> QED BY <1>1, <1>2, ConservationHolds, PTL
        DEF SafeSpec, ImplementsLedger, Ledger!Spec

(***************************************************************************)
(* What the end of a flush rests on.                                       *)
(***************************************************************************)

\* Whatever is registered while a flush runs its hooks, it gets none of it: its
\* list only loses the hook that has run.
HooksRunOut ==
  [][\A t \in Threads :
       pc[t] # "clone" /\ running'[t] # running[t] =>
         /\ pc[t] = "flush" /\ running[t] # <<>>
         /\ running'[t] = Front(running[t])]_vars

\* The registry is locked exactly while one thread clones the list: no hook runs
\* under the lock, so none waits for its own thread.
LockIsBrief == \A t \in Threads : hooksLock = t <=> pc[t] = "clone"

\* A hook that registers a hook cannot keep the flush that runs it going:
\* HooksRunOut.
THEOREM FlushRunsOut == SafeSpec => HooksRunOut
<1> DEFINE Kept == \A t \in Threads :
              pc[t] # "clone" /\ running'[t] # running[t] =>
                /\ pc[t] = "flush" /\ running[t] # <<>>
                /\ running'[t] = Front(running[t])
<1>1. TypeOK /\ [Next]_vars => [Kept]_vars
  <2> SUFFICES ASSUME TypeOK, Next PROVE Kept
    OBVIOUS
  <2>1. CASE UNCHANGED running
    BY <2>1
  <2>2. ASSUME NEW t \in Threads, CloneHooks(t) PROVE Kept
    BY <2>2 DEF CloneHooks, TypeOK, ThreadsOK
  <2>3. ASSUME NEW t \in Threads, NEW hook, NextHook(t, hook) PROVE Kept
    BY <2>3 DEF NextHook, TypeOK, ThreadsOK
  <2>4. ASSUME NEW t \in Threads, Begin(t) PROVE UNCHANGED running
    <3>1. ASSUME NEW s \in Spans,
                 \/ NewSpan(t, s) \/ RecordField(t, s)
                 \/ CloseUnrecorded(t, s) \/ CloseRecorded(t, s)
          PROVE  UNCHANGED running
      BY <3>1 DEF NewSpan, RecordField, CloseUnrecorded, CloseRecorded, threadVars
    <3>2. CASE LogEvent(t) \/ CallFlush(t) \/ CallExit(t)
      BY <3>2 DEF LogEvent, CallFlush, CallExit
    <3> QED BY <2>4, <3>1, <3>2 DEF Begin
  <2>5. ASSUME NEW t \in Threads, Proceed(t)
        PROVE  UNCHANGED running \/ CloneHooks(t) \/ \E hook : NextHook(t, hook)
    BY <2>5 DEF Proceed, Lookup, Push, Draw, Write, EndFlush, CloseOpen,
                RunRegistrar, RunPlain
  <2> QED BY <2>1, <2>2, <2>3, <2>4, <2>5 DEF Next
<1> QED BY <1>1, LayerTyped, PTL DEF SafeSpec, HooksRunOut

LEMMA BriefStep ==
  ASSUME TypeOK, LockIsBrief, [Next]_vars
  PROVE  LockIsBrief'
<1>1. ASSUME UNCHANGED <<hooksLock, pc>> PROVE LockIsBrief'
  BY <1>1 DEF LockIsBrief
<1>2. ASSUME NEW t \in Threads, UNCHANGED hooksLock, pc[t] # "clone",
             \E label \in Labels \ {"clone"} : pc' = [pc EXCEPT ![t] = label]
      PROVE  LockIsBrief'
  BY <1>2 DEF LockIsBrief, TypeOK, ThreadsOK
<1>3. ASSUME NEW t \in Threads, Begin(t) PROVE LockIsBrief'
  <2>1. ASSUME NEW s \in Spans, NewSpan(t, s) \/ CloseRecorded(t, s)
        PROVE  LockIsBrief'
    BY <1>1, <1>2, <2>1
    DEF NewSpan, CloseRecorded, Running, Goto, Labels, exitVars
  <2>2. ASSUME NEW s \in Spans, RecordField(t, s) \/ CloseUnrecorded(t, s)
        PROVE  LockIsBrief'
    BY <1>1, <2>2 DEF RecordField, CloseUnrecorded, exitVars, threadVars
  <2>3. CASE LogEvent(t)
    BY <1>2, <2>3 DEF LogEvent, Running, Goto, Labels, exitVars
  <2>4. CASE CallFlush(t) \/ CallExit(t)
    <3>1. hooksLock = None /\ hooksLock' = t /\ pc' = [pc EXCEPT ![t] = "clone"]
      BY <2>4 DEF CallFlush, CallExit, LockHooks, Goto
    <3>2. \A u \in Threads : pc[u] # "clone"
      BY <3>1, SpanAssumption DEF LockIsBrief
    <3> QED BY <3>1, <3>2 DEF LockIsBrief, TypeOK, ThreadsOK
  <2> QED BY <1>3, <2>1, <2>2, <2>3, <2>4 DEF Begin
<1>4. ASSUME NEW t \in Threads, Proceed(t) PROVE LockIsBrief'
  <2>1. CASE CloneHooks(t)
    <3>1. pc[t] = "clone" /\ hooksLock' = None /\ pc' = [pc EXCEPT ![t] = "flush"]
      BY <2>1 DEF CloneHooks, GuardDropped, Goto
    <3>2. \A u \in Threads : pc[u] = "clone" => u = t
      BY <3>1 DEF LockIsBrief
    <3> QED BY <3>1, <3>2, SpanAssumption DEF LockIsBrief, TypeOK, ThreadsOK
  <2>2. CASE Lookup(t)
    BY <1>1, <1>2, <2>2 DEF Lookup, Conclude, Goto, Labels, exitVars
  <2>3. CASE Push(t) \/ Draw(t) \/ EndFlush(t)
    BY <1>2, <2>3 DEF Push, Draw, EndFlush, Goto, Labels, exitVars
  <2>4. CASE Write(t)
    <3>1. back[t] \in Labels \ {"clone"}
      BY DEF TypeOK, ThreadsOK, Labels
    <3> QED BY <1>2, <2>4, <3>1 DEF Write, Goto, Labels, exitVars
  <2>5. CASE CloseOpen(t) \/ RunRegistrar(t) \/ RunPlain(t)
    BY <1>1, <1>2, <2>5
    DEF CloseOpen, RunRegistrar, RunPlain, NextHook, Goto, Labels, exitVars
  <2> QED BY <1>4, <2>1, <2>2, <2>3, <2>4, <2>5 DEF Proceed
<1>5. CASE UNCHANGED vars
  BY <1>1, <1>5 DEF vars, exitVars, threadVars
<1> QED BY <1>3, <1>4, <1>5 DEF Next

\* No hook runs under the lock of the registry, so none waits for a lock of its
\* own thread: LockIsBrief.
THEOREM HookLockBrief == SafeSpec => []LockIsBrief
<1>1. Init => LockIsBrief
  BY SpanAssumption DEF Init, LockIsBrief
<1>2. TypeOK /\ LockIsBrief /\ [Next]_vars => LockIsBrief'
  BY BriefStep
<1> QED BY <1>1, <1>2, LayerTyped, PTL DEF SafeSpec
=============================================================================
