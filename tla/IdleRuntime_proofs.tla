------------------------ MODULE IdleRuntime_proofs -------------------------
(***************************************************************************)
(* Theorems about IdleRuntime, for any set of workers and outputs, any     *)
(* delays and any number of requests.                                      *)
(***************************************************************************)
EXTENDS IdleRuntime, FiniteSetTheorems, TLAPS

\* The wait decision is always one of the three legal ones.
LEMMA DecideType ==
  ASSUME NEW s \in Scenes
  PROVE  Decide(s) \in Decisions
<1>1. CASE s.animation /\ s.timer # NoTimer
  <2>1. s.timer \in Nat
    BY <1>1, IdleAssumption DEF Scenes
  <2>2. Earlier(s.timer, FrameInterval) \in Nat
    BY <2>1, IdleAssumption DEF Earlier
  <2> QED BY <1>1, <2>2 DEF Decide, Decisions
<1>2. CASE s.animation /\ s.timer = NoTimer
  BY <1>2, IdleAssumption DEF Decide, Decisions
<1>3. CASE ~s.animation /\ s.timer # NoTimer
  BY <1>3, IdleAssumption DEF Decide, Decisions, Scenes
<1>4. CASE ~s.animation /\ s.timer = NoTimer
  BY <1>4 DEF Decide, Decisions
<1> QED BY <1>1, <1>2, <1>3, <1>4

\* Every reachable state has its type: in particular no producer begins more
\* calls than it may and the counters only hold naturals.
THEOREM TypeCorrect == SafeSpec => []TypeOK
<1>1. Init => TypeOK
  <2> SUFFICES ASSUME Init PROVE TypeOK
    OBVIOUS
  <2> USE DEF Init
  <2>1. metrics \in [Counters -> Nat] /\ made \in [Producers -> 0..MaxRequests]
    BY IdleAssumption
  <2>2. scene \in Scenes
    BY DEF Scenes
  <2>3. decision \in Decisions
    BY DEF Decisions
  <2>4. target \in [Producers -> Outputs] /\ current \in Outputs
    OBVIOUS
  <2> QED BY <2>1, <2>2, <2>3, <2>4 DEF TypeOK
<1>2. TypeOK /\ [Next]_vars => TypeOK'
  <2> SUFFICES ASSUME TypeOK, [Next]_vars PROVE TypeOK'
    OBVIOUS
  <2> USE DEF TypeOK
  <2>1. ASSUME NEW p \in Producers, NEW o \in Outputs, RecordRequest(p, o)
        PROVE  TypeOK'
    BY <2>1, IdleAssumption
       DEF RecordRequest, MayCall, Bump, Counters, wakeVars, sceneVars
  <2>2. ASSUME NEW p \in Producers, CallWake(p)
        PROVE  TypeOK'
    BY <2>2, IdleAssumption DEF CallWake, MayCall, wakeVars, sceneVars
  <2>3. ASSUME NEW p \in Producers, Mark(p)
        PROVE  TypeOK'
    BY <2>3 DEF Mark, wakeVars, sceneVars
  <2>4. ASSUME NEW p \in Producers, CompareExchange(p)
        PROVE  TypeOK'
    BY <2>4 DEF CompareExchange, sceneVars
  <2>5. ASSUME NEW p \in Producers, Notify(p)
        PROVE  TypeOK'
    BY <2>5 DEF Notify, sceneVars
  <2>6. CASE ConsumePing
    BY <2>6 DEF ConsumePing, Bump, Counters, producerVars, sceneVars
  <2>7. CASE DeadlinePasses
    BY <2>7 DEF DeadlinePasses, wakeVars, producerVars, sceneVars
  <2>8. CASE Acknowledge
    BY <2>8 DEF Acknowledge, producerVars, sceneVars
  <2>9. CASE Advance
    BY <2>9 DEF Advance, wakeVars, producerVars
  <2>10. CASE TakeAll
    BY <2>10 DEF TakeAll, wakeVars, producerVars, sceneVars
  <2>11. CASE AcquireBuffer
    BY <2>11
       DEF AcquireBuffer, Bump, Counters, wakeVars, producerVars, sceneVars
  <2>12. CASE RenderAndCommit
    BY <2>12 DEF RenderAndCommit, wakeVars, producerVars, sceneVars
  <2>13. CASE RecordRender
    BY <2>13
       DEF RecordRender, Bump, Counters, wakeVars, producerVars, sceneVars
  <2>14. CASE RecordCommit
    BY <2>14
       DEF RecordCommit, Bump, Counters, wakeVars, producerVars, sceneVars
  <2>15. CASE ChooseWait
    BY <2>15, DecideType DEF ChooseWait, wakeVars, producerVars
  <2>16. CASE UNCHANGED vars
    BY <2>16 DEF vars
  <2> QED
    BY <2>1, <2>2, <2>3, <2>4, <2>5, <2>6, <2>7, <2>8, <2>9, <2>10, <2>11,
       <2>12, <2>13, <2>14, <2>15, <2>16 DEF Next, ProducerStep, LoopStep
<1> QED BY <1>1, <1>2, PTL DEF SafeSpec

\* The wake edge is conserved whatever the producers and the loop interleave:
\* pending holds exactly while one party owns the edge.  By itself inductive
\* over well-typed states.
LEMMA EdgeStep ==
  TypeOK /\ EdgeConservation /\ [Next]_vars => EdgeConservation'
<1> SUFFICES ASSUME TypeOK, EdgeConservation, [Next]_vars
             PROVE  EdgeConservation'
  OBVIOUS
<1> USE DEF EdgeConservation, Announcing
<1>1. ASSUME NEW p \in Producers, NEW o \in Outputs, RecordRequest(p, o)
      PROVE  EdgeConservation'
  BY <1>1 DEF RecordRequest, MayCall, wakeVars, TypeOK
<1>2. ASSUME NEW p \in Producers, CallWake(p)
      PROVE  EdgeConservation'
  BY <1>2 DEF CallWake, MayCall, wakeVars, TypeOK
<1>3. ASSUME NEW p \in Producers, Mark(p)
      PROVE  EdgeConservation'
  BY <1>3 DEF Mark, wakeVars, TypeOK
<1>4. ASSUME NEW p \in Producers, CompareExchange(p)
      PROVE  EdgeConservation'
  <2>1. CASE pending
    <3>1. Announcing' = Announcing
      BY <1>4, <2>1 DEF CompareExchange, TypeOK
    <3> QED BY <1>4, <2>1, <3>1 DEF CompareExchange
  <2>2. CASE ~pending
    <3>1. Announcing' = {p}
      BY <1>4, <2>2 DEF CompareExchange, TypeOK
    <3> QED BY <1>4, <2>2, <3>1 DEF CompareExchange
  <2> QED BY <2>1, <2>2
<1>5. ASSUME NEW p \in Producers, Notify(p)
      PROVE  EdgeConservation'
  <2>1. Announcing = {p}
    BY <1>5 DEF Notify
  <2>2. Announcing' = {}
    BY <1>5, <2>1 DEF Notify, TypeOK
  <2>3. pings' = 1 /\ pending' /\ loop' # "ack"
    BY <1>5, <2>1 DEF Notify
  <2> QED BY <2>2, <2>3
<1>6. CASE ConsumePing
  BY <1>6 DEF ConsumePing, producerVars, TypeOK
<1>7. CASE DeadlinePasses
  BY <1>7 DEF DeadlinePasses, wakeVars, producerVars
<1>8. CASE Acknowledge
  BY <1>8 DEF Acknowledge, producerVars
<1>9. CASE Advance
  BY <1>9 DEF Advance, wakeVars, producerVars
<1>10. CASE TakeAll
  BY <1>10 DEF TakeAll, wakeVars, producerVars
<1>11. CASE AcquireBuffer
  BY <1>11 DEF AcquireBuffer, wakeVars, producerVars
<1>12. CASE RenderAndCommit
  BY <1>12 DEF RenderAndCommit, wakeVars, producerVars
<1>13. CASE RecordRender
  BY <1>13 DEF RecordRender, wakeVars, producerVars
<1>14. CASE RecordCommit
  BY <1>14 DEF RecordCommit, wakeVars, producerVars
<1>15. CASE ChooseWait
  BY <1>15 DEF ChooseWait, wakeVars, producerVars
<1>16. CASE UNCHANGED vars
  BY <1>16 DEF vars
<1> QED
  BY <1>1, <1>2, <1>3, <1>4, <1>5, <1>6, <1>7, <1>8, <1>9, <1>10, <1>11,
     <1>12, <1>13, <1>14, <1>15, <1>16 DEF Next, ProducerStep, LoopStep

\* A pending wake always has exactly one owner, and an owner means a pending
\* wake: the callback of WakeHandle::wake runs once per edge.
THEOREM EdgeConserved == SafeSpec => []EdgeConservation
<1>1. Init => EdgeConservation
  BY DEF Init, EdgeConservation, Announcing
<1> QED BY <1>1, EdgeStep, TypeCorrect, PTL DEF SafeSpec

\* One step keeps every marked output covered: this is where the order mark,
\* then wake and the order acknowledge, then drain are used.
LEMMA NoLostStep ==
  TypeOK /\ EdgeConservation /\ NoLostRedraw /\ [Next]_vars => NoLostRedraw'
<1> SUFFICES ASSUME TypeOK, EdgeConservation, NoLostRedraw, [Next]_vars
             PROVE  NoLostRedraw'
  OBVIOUS
<1> USE DEF NoLostRedraw
<1>1. ASSUME NEW p \in Producers, NEW o \in Outputs, RecordRequest(p, o)
      PROVE  NoLostRedraw'
  BY <1>1 DEF RecordRequest, MayCall, wakeVars, TypeOK
<1>2. ASSUME NEW p \in Producers, CallWake(p)
      PROVE  NoLostRedraw'
  BY <1>2 DEF CallWake, MayCall, wakeVars, TypeOK
<1>3. ASSUME NEW p \in Producers, Mark(p)
      PROVE  NoLostRedraw'
  <2>1. pc'[p] = "wake"
    BY <1>3 DEF Mark, TypeOK
  <2> QED BY <2>1
<1>4. ASSUME NEW p \in Producers, CompareExchange(p)
      PROVE  NoLostRedraw'
  <2>1. CASE ~pending
    <3>1. pc'[p] = "notify"
      BY <1>4, <2>1 DEF CompareExchange, TypeOK
    <3> QED BY <3>1
  <2>2. CASE pending
    <3>1. \/ \E q \in Producers : q # p /\ pc[q] = "notify"
          \/ pings # 0 \/ loop = "ack"
      BY <1>4, <2>2 DEF CompareExchange, EdgeConservation, Announcing
    <3> QED BY <1>4, <3>1 DEF CompareExchange, TypeOK
  <2> QED BY <2>1, <2>2
<1>5. ASSUME NEW p \in Producers, Notify(p)
      PROVE  NoLostRedraw'
  <2>1. pings' # 0
    BY <1>5 DEF Notify, TypeOK
  <2> QED BY <2>1
<1>6. CASE ConsumePing
  BY <1>6 DEF ConsumePing
<1>7. CASE DeadlinePasses
  BY <1>7 DEF DeadlinePasses
<1>8. CASE Acknowledge
  BY <1>8 DEF Acknowledge
<1>9. CASE Advance
  BY <1>9 DEF Advance
<1>10. CASE TakeAll
  BY <1>10 DEF TakeAll
<1>11. CASE AcquireBuffer
  BY <1>11 DEF AcquireBuffer, wakeVars, producerVars
<1>12. CASE RenderAndCommit
  BY <1>12 DEF RenderAndCommit, wakeVars, producerVars
<1>13. CASE RecordRender
  BY <1>13 DEF RecordRender, wakeVars, producerVars
<1>14. CASE RecordCommit
  BY <1>14 DEF RecordCommit, wakeVars, producerVars
<1>15. CASE ChooseWait
  BY <1>15 DEF ChooseWait, wakeVars, producerVars
<1>16. CASE UNCHANGED vars
  BY <1>16 DEF vars
<1> QED
  BY <1>1, <1>2, <1>3, <1>4, <1>5, <1>6, <1>7, <1>8, <1>9, <1>10, <1>11,
     <1>12, <1>13, <1>14, <1>15, <1>16 DEF Next, ProducerStep, LoopStep

\* No interleaving of requests with a drain strands a marked output.
THEOREM RedrawsNeverLost == SafeSpec => []NoLostRedraw
<1>1. Init => NoLostRedraw
  BY DEF Init, NoLostRedraw
<1> QED BY <1>1, NoLostStep, EdgeConserved, TypeCorrect, PTL DEF SafeSpec

(***************************************************************************)
(* Work bounded by intent.  Workers and Outputs may be infinite; what is   *)
(* finite is what a finite run touched, so finiteness is carried along.    *)
(***************************************************************************)
WorkInv ==
  /\ IsFiniteSet(dirty) /\ IsFiniteSet(batch) /\ IsFiniteSet(Marking)
  /\ loop \in {"rendered", "committed"} => current \notin batch
  /\ WorkBoundedByIntent

\* What a finite batch still has to draw is finite.
LEMMA UndrawnFinite ==
  ASSUME IsFiniteSet(batch) PROVE IsFiniteSet(Undrawn)
BY FS_RemoveElement DEF Undrawn

\* A step that leaves the counters, the sets and the drawing phase alone.
LEMMA WorkFrame ==
  ASSUME WorkInv,
         UNCHANGED <<dirty, batch, current>>,
         Undrawn' = Undrawn, Marking' = Marking,
         loop' \in {"rendered", "committed"} =>
           loop \in {"rendered", "committed"},
         metrics'["buffer_acquires"] = metrics["buffer_acquires"],
         metrics'["redraw_requests"] = metrics["redraw_requests"]
  PROVE  WorkInv'
BY DEF WorkInv, WorkBoundedByIntent

\* One step keeps the work bound: a request pays for the mark it is about to
\* make, a mark for the output it dirties, and a buffer for the output it draws.
LEMMA WorkStep == TypeOK /\ WorkInv /\ [Next]_vars => WorkInv'
<1> SUFFICES ASSUME TypeOK, WorkInv, [Next]_vars
             PROVE  WorkInv'
  OBVIOUS
<1>c. /\ Cardinality(dirty) \in Nat /\ Cardinality(Undrawn) \in Nat
      /\ Cardinality(Marking) \in Nat
      /\ metrics["buffer_acquires"] \in Nat
      /\ metrics["redraw_requests"] \in Nat
  BY UndrawnFinite, FS_CardinalityType DEF WorkInv, TypeOK, Counters
<1>1. ASSUME NEW p \in Producers, NEW o \in Outputs, RecordRequest(p, o)
      PROVE  WorkInv'
  <2>1. Marking' = Marking \cup {p} /\ p \notin Marking
    BY <1>1 DEF RecordRequest, MayCall, Marking, TypeOK
  <2>2. /\ IsFiniteSet(Marking')
        /\ Cardinality(Marking') = Cardinality(Marking) + 1
    BY <2>1, FS_AddElement DEF WorkInv
  <2>3. /\ metrics'["buffer_acquires"] = metrics["buffer_acquires"]
        /\ metrics'["redraw_requests"] = metrics["redraw_requests"] + 1
    BY <1>1 DEF RecordRequest, Bump, TypeOK, Counters
  <2>4. UNCHANGED <<dirty, batch, current, loop>> /\ Undrawn' = Undrawn
    BY <1>1 DEF RecordRequest, Undrawn
  <2> QED BY <1>c, <2>2, <2>3, <2>4 DEF WorkInv, WorkBoundedByIntent
<1>2. ASSUME NEW p \in Producers, CallWake(p)
      PROVE  WorkInv'
  <2>1. Marking' = Marking /\ Undrawn' = Undrawn
    BY <1>2 DEF CallWake, MayCall, Marking, Undrawn, TypeOK
  <2> QED BY <1>2, <2>1, WorkFrame DEF CallWake
<1>3. ASSUME NEW p \in Producers, Mark(p)
      PROVE  WorkInv'
  <2>1. Marking' = Marking \ {p} /\ p \in Marking
    BY <1>3 DEF Mark, Marking, TypeOK
  <2>2. /\ IsFiniteSet(Marking')
        /\ Cardinality(Marking') = Cardinality(Marking) - 1
    BY <2>1, FS_RemoveElement DEF WorkInv
  <2>3. /\ IsFiniteSet(dirty')
        /\ Cardinality(dirty') \in {Cardinality(dirty), Cardinality(dirty) + 1}
    BY <1>3, FS_AddElement DEF Mark, WorkInv
  <2>4. UNCHANGED <<batch, current, loop, metrics>> /\ Undrawn' = Undrawn
    BY <1>3 DEF Mark, Undrawn
  <2> QED BY <1>c, <2>2, <2>3, <2>4 DEF WorkInv, WorkBoundedByIntent
<1>4. ASSUME NEW p \in Producers, CompareExchange(p)
      PROVE  WorkInv'
  <2>1. Marking' = Marking /\ Undrawn' = Undrawn
    BY <1>4 DEF CompareExchange, Marking, Undrawn, TypeOK
  <2> QED BY <1>4, <2>1, WorkFrame DEF CompareExchange
<1>5. ASSUME NEW p \in Producers, Notify(p)
      PROVE  WorkInv'
  <2>1. Marking' = Marking /\ Undrawn' = Undrawn
    BY <1>5 DEF Notify, Marking, Undrawn, TypeOK
  <2> QED BY <1>5, <2>1, WorkFrame DEF Notify
<1>6. CASE ConsumePing
  <2>1. Marking' = Marking /\ Undrawn' = Undrawn
    BY <1>6 DEF ConsumePing, producerVars, Marking, Undrawn
  <2>2. /\ metrics'["buffer_acquires"] = metrics["buffer_acquires"]
        /\ metrics'["redraw_requests"] = metrics["redraw_requests"]
    BY <1>6 DEF ConsumePing, Bump, TypeOK, Counters
  <2> QED BY <1>6, <2>1, <2>2, WorkFrame DEF ConsumePing
<1>7. CASE DeadlinePasses
  <2>1. Marking' = Marking /\ Undrawn' = Undrawn
    BY <1>7 DEF DeadlinePasses, producerVars, Marking, Undrawn
  <2> QED BY <1>7, <2>1, WorkFrame DEF DeadlinePasses
<1>8. CASE Acknowledge
  <2>1. Marking' = Marking /\ Undrawn' = Undrawn
    BY <1>8 DEF Acknowledge, producerVars, Marking, Undrawn
  <2> QED BY <1>8, <2>1, WorkFrame DEF Acknowledge
<1>9. CASE Advance
  <2>1. Marking' = Marking /\ Undrawn' = Undrawn
    BY <1>9 DEF Advance, producerVars, Marking, Undrawn
  <2> QED BY <1>9, <2>1, WorkFrame DEF Advance
<1>10. CASE TakeAll
  <2>1. Marking' = Marking /\ Undrawn' = dirty /\ dirty' = {}
    BY <1>10 DEF TakeAll, producerVars, Marking, Undrawn
  <2>2. IsFiniteSet(dirty') /\ Cardinality(dirty') = 0
    BY <2>1, FS_EmptySet
  <2>3. /\ batch' = dirty /\ UNCHANGED metrics
        /\ loop' \notin {"rendered", "committed"}
    BY <1>10 DEF TakeAll
  <2> QED BY <1>c, <2>1, <2>2, <2>3 DEF WorkInv, WorkBoundedByIntent
<1>11. CASE AcquireBuffer
  <2>1. PICK o \in batch : current' = o
    BY <1>11 DEF AcquireBuffer
  <2>2. /\ Undrawn = batch /\ Undrawn' = batch \ {o} /\ Marking' = Marking
        /\ UNCHANGED <<dirty, batch>> /\ loop' = "present"
    BY <1>11, <2>1 DEF AcquireBuffer, producerVars, Marking, Undrawn
  <2>3. Cardinality(Undrawn') = Cardinality(Undrawn) - 1
    BY <2>1, <2>2, FS_RemoveElement DEF WorkInv
  <2>4. /\ metrics'["buffer_acquires"] = metrics["buffer_acquires"] + 1
        /\ metrics'["redraw_requests"] = metrics["redraw_requests"]
    BY <1>11 DEF AcquireBuffer, Bump, TypeOK, Counters
  <2> QED BY <1>c, <2>2, <2>3, <2>4 DEF WorkInv, WorkBoundedByIntent
<1>12. CASE RenderAndCommit
  <2>1. /\ Undrawn = batch \ {current} /\ Undrawn' = Undrawn
        /\ Marking' = Marking /\ batch' = batch \ {current}
        /\ UNCHANGED <<dirty, metrics, current>>
    BY <1>12 DEF RenderAndCommit, producerVars, Marking, Undrawn
  <2>2. IsFiniteSet(batch') /\ current' \notin batch'
    BY <2>1, FS_RemoveElement DEF WorkInv
  <2> QED BY <2>1, <2>2 DEF WorkInv, WorkBoundedByIntent
<1>13. CASE RecordRender
  <2>1. Marking' = Marking /\ Undrawn' = Undrawn
    BY <1>13 DEF RecordRender, producerVars, Marking, Undrawn
  <2>2. /\ metrics'["buffer_acquires"] = metrics["buffer_acquires"]
        /\ metrics'["redraw_requests"] = metrics["redraw_requests"]
    BY <1>13 DEF RecordRender, Bump, TypeOK, Counters
  <2> QED BY <1>13, <2>1, <2>2, WorkFrame DEF RecordRender
<1>14. CASE RecordCommit
  <2>1. Marking' = Marking /\ Undrawn' = Undrawn
    BY <1>14 DEF RecordCommit, producerVars, Marking, Undrawn, WorkInv
  <2>2. /\ metrics'["buffer_acquires"] = metrics["buffer_acquires"]
        /\ metrics'["redraw_requests"] = metrics["redraw_requests"]
    BY <1>14 DEF RecordCommit, Bump, TypeOK, Counters
  <2> QED BY <1>14, <2>1, <2>2, WorkFrame DEF RecordCommit
<1>15. CASE ChooseWait
  <2>1. Marking' = Marking /\ Undrawn' = Undrawn
    BY <1>15 DEF ChooseWait, producerVars, Marking, Undrawn
  <2> QED BY <1>15, <2>1, WorkFrame DEF ChooseWait
<1>16. CASE UNCHANGED vars
  <2>1. Marking' = Marking /\ Undrawn' = Undrawn
    BY <1>16 DEF vars, Marking, Undrawn
  <2> QED BY <1>16, <2>1, WorkFrame DEF vars
<1> QED
  BY <1>1, <1>2, <1>3, <1>4, <1>5, <1>6, <1>7, <1>8, <1>9, <1>10, <1>11,
     <1>12, <1>13, <1>14, <1>15, <1>16 DEF Next, ProducerStep, LoopStep

\* Buffers are acquired only for redraws somebody requested, at most one per
\* request, for any number of outputs and however requests coalesce.
THEOREM WorkIsBounded == SafeSpec => []WorkBoundedByIntent
<1>1. Init => WorkInv
  <2> SUFFICES ASSUME Init PROVE WorkInv
    OBVIOUS
  <2>1. dirty = {} /\ batch = {} /\ Marking = {} /\ Undrawn = {}
        /\ loop = "advance"
    BY DEF Init, Marking, Undrawn
  <2>2. metrics["buffer_acquires"] = 0 /\ metrics["redraw_requests"] = 0
    BY DEF Init, Counters
  <2> QED BY <2>1, <2>2, FS_EmptySet DEF WorkInv, WorkBoundedByIntent
<1>2. WorkInv => WorkBoundedByIntent
  BY DEF WorkInv
<1> QED BY <1>1, <1>2, WorkStep, TypeCorrect, PTL DEF SafeSpec

\* Between turns nothing is left over from a batch, and what is presented
\* belongs to it.
BatchInv ==
  /\ loop \notin {"acquire", "present", "rendered", "committed"} => batch = {}
  /\ loop = "present" => current \in batch

\* One step keeps the batch where the turn needs it: drained, presented, empty.
LEMMA BatchStep == BatchInv /\ [Next]_vars => BatchInv'
<1> SUFFICES ASSUME BatchInv, [Next]_vars PROVE BatchInv'
  OBVIOUS
<1> USE DEF BatchInv
<1>1. ASSUME NEW p \in Producers, NEW o \in Outputs, RecordRequest(p, o)
      PROVE  BatchInv'
  BY <1>1 DEF RecordRequest
<1>2. ASSUME NEW p \in Producers, CallWake(p) PROVE BatchInv'
  BY <1>2 DEF CallWake
<1>3. ASSUME NEW p \in Producers, ProducerStep(p) PROVE BatchInv'
  BY <1>3 DEF ProducerStep, Mark, CompareExchange, Notify
<1>4. CASE LoopStep
  BY <1>4 DEF LoopStep, ConsumePing, DeadlinePasses, Acknowledge, Advance,
     TakeAll, AcquireBuffer, RenderAndCommit, RecordRender, RecordCommit,
     ChooseWait
<1>5. CASE UNCHANGED vars
  BY <1>5 DEF vars
<1> QED BY <1>1, <1>2, <1>3, <1>4, <1>5 DEF Next

\* One step of the runtime is a step of RedrawIntent or leaves it alone.
LEMMA IntentStep ==
  TypeOK /\ BatchInv /\ [Next]_vars => [Intent!Next]_<<dirty, batch>>
<1> SUFFICES ASSUME TypeOK, BatchInv, [Next]_vars
             PROVE  [Intent!Next]_<<dirty, batch>>
  OBVIOUS
<1>1. ASSUME NEW p \in Producers, Mark(p)
      PROVE  Intent!Next
  <2>1. Intent!Request(target[p])
    BY <1>1 DEF Mark, Intent!Request
  <2>2. target[p] \in Outputs
    BY DEF TypeOK
  <2> QED BY <2>1, <2>2 DEF Intent!Next
<1>2. CASE TakeAll
  <2>1. batch = {}
    BY <1>2 DEF TakeAll, BatchInv
  <2>2. CASE dirty = {}
    BY <1>2, <2>1, <2>2 DEF TakeAll
  <2>3. CASE dirty # {}
    BY <1>2, <2>1, <2>3 DEF TakeAll, Intent!Next, Intent!Collect
  <2> QED BY <2>2, <2>3
<1>3. CASE RenderAndCommit
  <2>1. Intent!Present(current)
    BY <1>3 DEF RenderAndCommit, BatchInv, Intent!Present
  <2> QED BY <2>1 DEF TypeOK, Intent!Next
<1>4. ASSUME NEW p \in Producers, NEW o \in Outputs,
             RecordRequest(p, o) \/ CallWake(p)
      PROVE  UNCHANGED <<dirty, batch>>
  BY <1>4 DEF RecordRequest, CallWake
<1>5. ASSUME NEW p \in Producers, CallWake(p) \/ CompareExchange(p) \/ Notify(p)
      PROVE  UNCHANGED <<dirty, batch>>
  BY <1>5 DEF CallWake, CompareExchange, Notify
<1>6. CASE \/ ConsumePing \/ DeadlinePasses \/ Acknowledge \/ Advance
           \/ AcquireBuffer \/ RecordRender \/ RecordCommit \/ ChooseWait
  BY <1>6 DEF ConsumePing, DeadlinePasses, Acknowledge, Advance,
     AcquireBuffer, RecordRender, RecordCommit, ChooseWait
<1>7. CASE UNCHANGED vars
  BY <1>7 DEF vars
<1> QED
  BY <1>1, <1>2, <1>3, <1>4, <1>5, <1>6, <1>7
     DEF Next, ProducerStep, LoopStep

\* The runtime implements the redraw promise step by step: marks are requests,
\* take_all collects the whole intent, render_and_commit presents, and every
\* other step of the producers, the edge, the metrics and the loop stutters.
\* (The liveness half of the promise, ImplementsIntent, is checked by TLC.)
THEOREM RefinesIntent == SafeSpec => Intent!SafeSpec
<1>1. Init => BatchInv /\ Intent!Init
  BY DEF Init, BatchInv, Intent!Init
<1>2. TypeOK /\ BatchInv /\ [Next]_vars => [Intent!Next]_(Intent!intentVars)
  BY IntentStep DEF Intent!intentVars
<1> QED
  BY <1>1, <1>2, BatchStep, TypeCorrect, PTL DEF SafeSpec, Intent!SafeSpec

(***************************************************************************)
(* The wait.                                                               *)
(***************************************************************************)

\* What decide makes of a scene suits it.
LEMMA DecisionFits ==
  ASSUME NEW s \in Scenes
  PROVE  /\ Decide(s).kind = "Indefinite"
              <=> ~s.animation /\ s.timer = NoTimer
         /\ s.animation => /\ Decide(s).kind = "Frame"
                           /\ Decide(s).delay <= FrameInterval
         /\ s.timer # NoTimer => Decide(s).delay <= s.timer
<1>1. s.timer # NoTimer => s.timer \in Nat
  BY IdleAssumption DEF Scenes
<1>2. FrameInterval \in Nat
  BY IdleAssumption
<1>3. CASE s.animation /\ s.timer # NoTimer
  BY <1>1, <1>2, <1>3 DEF Decide, Earlier
<1>4. CASE s.animation /\ s.timer = NoTimer
  BY <1>2, <1>4 DEF Decide
<1>5. CASE ~s.animation /\ s.timer # NoTimer
  BY <1>1, <1>5 DEF Decide
<1>6. CASE ~s.animation /\ s.timer = NoTimer
  BY <1>6 DEF Decide
<1> QED BY <1>3, <1>4, <1>5, <1>6

LEMMA WaitStep ==
  TypeOK /\ WaitFitsScene /\ [Next]_vars => WaitFitsScene'
<1> SUFFICES ASSUME TypeOK, WaitFitsScene, [Next]_vars
             PROVE  WaitFitsScene'
  OBVIOUS
<1>1. CASE ChooseWait
  <2>1. scene \in Scenes
    BY DEF TypeOK
  <2>2. decision' = Decide(scene) /\ scene' = scene
    BY <1>1 DEF ChooseWait
  <2> QED BY <2>1, <2>2, DecisionFits DEF WaitFitsScene
<1>2. ASSUME NEW p \in Producers,
             \/ \E o \in Outputs : RecordRequest(p, o)
             \/ CallWake(p) \/ ProducerStep(p)
      PROVE  WaitFitsScene'
  <2>1. UNCHANGED <<loop, scene, decision>>
    BY <1>2 DEF RecordRequest, CallWake, ProducerStep, Mark, CompareExchange,
       Notify, sceneVars
  <2> QED BY <2>1 DEF WaitFitsScene
<1>3. CASE \/ ConsumePing \/ DeadlinePasses \/ Acknowledge \/ Advance \/ TakeAll
           \/ AcquireBuffer \/ RenderAndCommit \/ RecordRender \/ RecordCommit
  <2>1. loop' # "wait"
    BY <1>3 DEF ConsumePing, DeadlinePasses, Acknowledge, Advance, TakeAll,
       AcquireBuffer, RenderAndCommit, RecordRender, RecordCommit
  <2> QED BY <2>1 DEF WaitFitsScene
<1>4. CASE UNCHANGED vars
  BY <1>4 DEF vars, sceneVars, WaitFitsScene
<1> QED
  BY <1>1, <1>2, <1>3, <1>4 DEF Next, LoopStep

\* The loop never sleeps past the next timer or a frame of a visible animation,
\* and blocks without a deadline only when there is neither.
THEOREM WaitSuitsScene == SafeSpec => []WaitFitsScene
<1>1. Init => WaitFitsScene
  BY DEF Init, WaitFitsScene
<1> QED BY <1>1, WaitStep, TypeCorrect, PTL DEF SafeSpec
=============================================================================
