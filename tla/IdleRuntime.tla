---------------------------- MODULE IdleRuntime -----------------------------
(***************************************************************************)
(* slint-idle-runtime: producers that request redraws or wakes, the        *)
(* edge-coalescing WakeHandle, the DirtySet, the Metrics counters and the  *)
(* IdleScheduler, driven by the event loop the crate prescribes            *)
(* (crates/slint-idle-runtime/README.md): consume the wake edge,           *)
(* acknowledge it, advance timers and animations, drain the dirty set,     *)
(* present each drained output, decide how to wait, wait.                  *)
(*                                                                         *)
(* Every atomic operation or critical section of the crate is one step, so *)
(* a producer can be anywhere inside request_redraw while the loop runs.   *)
(* pending is accessed by AcqRel read-modify-writes only and the dirty set *)
(* under its mutex, which orders a mark that take_all missed after the     *)
(* acknowledge that preceded it: interleaving steps loses no behaviour of  *)
(* theirs.                                                                 *)
(***************************************************************************)
EXTENDS Naturals, FiniteSets

CONSTANTS
  Workers,        \* threads holding clones of the handles
  UI,             \* the event-loop thread, which may request redraws too
  Outputs,        \* output ids: they are Ord, so numbers
  FrameInterval,  \* IdleScheduler::frame_interval
  Delays,         \* delays a Slint timer may have left
  NoTimer,        \* duration_until_next_timer_update() == None
  MaxRequests     \* calls one producer makes in a run

Producers == Workers \cup {UI}

ASSUME IdleAssumption ==
  /\ UI \notin Workers
  /\ Outputs \subseteq Nat
  /\ FrameInterval \in Nat
  /\ Delays \subseteq Nat
  /\ NoTimer \notin Nat
  /\ MaxRequests \in Nat

VARIABLES
  pending,   \* WakeState::pending
  dirty,     \* the set in DirtySet's mutex
  metrics,   \* the five counters of Metrics
  pc,        \* where each producer is inside request_redraw or wake
  target,    \* the output of the RedrawHandle a producer is calling
  made,      \* calls each producer has begun
  pings,     \* notifications in the loop's wake source, not consumed yet
  loop,      \* where the event loop is
  batch,     \* outputs take_all returned that are not presented yet
  current,   \* the output being presented
  scene,     \* what Slint reports: a visible animation, the next timer
  decision   \* the WaitDecision of this wait

vars == <<pending, dirty, metrics, pc, target, made, pings, loop, batch,
          current, scene, decision>>
wakeVars == <<pending, pings>>
producerVars == <<pc, target, made>>
sceneVars == <<scene, decision>>

Counters == {"wake_requests", "redraw_requests", "buffer_acquires",
             "renders", "commits"}
Scenes == [animation : BOOLEAN, timer : Delays \cup {NoTimer}]
Decisions == [kind : {"Frame", "Timer"}, delay : Nat]
             \cup [kind : {"Indefinite"}]

Bump(counter) == metrics' = [metrics EXCEPT ![counter] = @ + 1]

(***************************************************************************)
(* IdleScheduler::decide, a pure function of what Slint reports.           *)
(***************************************************************************)
Earlier(d, e) == IF d <= e THEN d ELSE e

\* Faulty variant: the None arm is forgotten, an absent timer is forwarded.
DecideForwardsNone(s) ==
  IF s.animation THEN [kind |-> "Frame", delay |-> FrameInterval]
                 ELSE [kind |-> "Timer", delay |-> s.timer]

\* Faulty variant: a static scene still polls at the frame rate.
DecidePolls(s) ==
  IF s.timer # NoTimer
  THEN [kind |-> "Timer", delay |-> s.timer]
  ELSE [kind |-> "Frame", delay |-> FrameInterval]

\* Faulty variant: an animated frame ignores a timer that is due sooner.
DecideSkipsTimer(s) ==
  CASE s.animation -> [kind |-> "Frame", delay |-> FrameInterval]
    [] ~s.animation /\ s.timer # NoTimer ->
         [kind |-> "Timer", delay |-> s.timer]
    [] OTHER -> [kind |-> "Indefinite"]

Decide(s) ==
  CASE s.animation /\ s.timer # NoTimer ->
         [kind |-> "Frame", delay |-> Earlier(s.timer, FrameInterval)]
    [] s.animation /\ s.timer = NoTimer ->
         [kind |-> "Frame", delay |-> FrameInterval]
    [] ~s.animation /\ s.timer # NoTimer ->
         [kind |-> "Timer", delay |-> s.timer]
    [] OTHER -> [kind |-> "Indefinite"]

TypeOK ==
  /\ pending \in BOOLEAN
  /\ dirty \in SUBSET Outputs
  /\ metrics \in [Counters -> Nat]
  /\ pc \in [Producers -> {"idle", "mark", "wake", "notify"}]
  /\ target \in [Producers -> Outputs]
  /\ made \in [Producers -> 0..MaxRequests]
  /\ pings \in Nat
  /\ loop \in {"wait", "ack", "advance", "drain", "acquire", "present",
               "rendered", "committed", "decide"}
  /\ batch \in SUBSET Outputs
  /\ current \in Outputs
  /\ scene \in Scenes
  /\ decision \in Decisions

\* Before its first wait the loop has not run: nothing is marked, the wake
\* source is empty, and the first turn starts at the timer update.
Init ==
  /\ pending = FALSE
  /\ dirty = {}
  /\ metrics = [c \in Counters |-> 0]
  /\ pc = [p \in Producers |-> "idle"]
  /\ target \in {[p \in Producers |-> o] : o \in Outputs}
  /\ made = [p \in Producers |-> 0]
  /\ pings = 0
  /\ loop = "advance"
  /\ batch = {}
  /\ current \in Outputs
  /\ scene = [animation |-> FALSE, timer |-> NoTimer]
  /\ decision = [kind |-> "Indefinite"]

(***************************************************************************)
(* Producers.                                                              *)
(***************************************************************************)

\* The loop thread runs application code, and so calls the handles, only
\* while it dispatches events and timers.
MayCall(p) ==
  /\ pc[p] = "idle"
  /\ made[p] < MaxRequests
  /\ p = UI => loop = "advance"

\* RedrawHandle::request_redraw begins: the request is counted first.
RecordRequest(p, o) ==
  /\ MayCall(p)
  /\ Bump("redraw_requests")
  /\ pc' = [pc EXCEPT ![p] = "mark"]
  /\ target' = [target EXCEPT ![p] = o]
  /\ made' = [made EXCEPT ![p] = @ + 1]
  /\ UNCHANGED <<wakeVars, dirty, loop, batch, current, sceneVars>>

\* WakeHandle::wake called on its own, for an IPC message or a worker result.
CallWake(p) ==
  /\ MayCall(p)
  /\ pc' = [pc EXCEPT ![p] = "wake"]
  /\ made' = [made EXCEPT ![p] = @ + 1]
  /\ UNCHANGED <<wakeVars, dirty, metrics, target, loop, batch, current,
                 sceneVars>>

\* Faulty variant: request_redraw marks and forgets to wake.
MarkWithoutWake(p) ==
  /\ pc[p] = "mark"
  /\ dirty' = dirty \cup {target[p]}
  /\ pc' = [pc EXCEPT ![p] = "idle"]
  /\ UNCHANGED <<wakeVars, metrics, target, made, loop, batch, current,
                 sceneVars>>

\* DirtySet::mark, one critical section.
Mark(p) ==
  /\ pc[p] = "mark"
  /\ dirty' = dirty \cup {target[p]}
  /\ pc' = [pc EXCEPT ![p] = "wake"]
  /\ UNCHANGED <<wakeVars, metrics, target, made, loop, batch, current,
                 sceneVars>>

\* Faulty variant: a plain store, every caller believes it made the edge.
StoreAndNotify(p) ==
  /\ pc[p] = "wake"
  /\ pending' = TRUE
  /\ pc' = [pc EXCEPT ![p] = "notify"]
  /\ UNCHANGED <<pings, dirty, metrics, target, made, loop, batch, current,
                 sceneVars>>

\* The compare_exchange of wake: the one that turns pending on owes the
\* notification, any other returns false at once.
CompareExchange(p) ==
  /\ pc[p] = "wake"
  /\ pending' = TRUE
  /\ pc' = [pc EXCEPT ![p] = IF pending THEN "idle" ELSE "notify"]
  /\ UNCHANGED <<pings, dirty, metrics, target, made, loop, batch, current,
                 sceneVars>>

\* The notify callback puts one notification in the loop's wake source.
Notify(p) ==
  /\ pc[p] = "notify"
  /\ pings' = pings + 1
  /\ pc' = [pc EXCEPT ![p] = "idle"]
  /\ UNCHANGED <<pending, dirty, metrics, target, made, loop, batch, current,
                 sceneVars>>

(***************************************************************************)
(* The event loop.                                                         *)
(***************************************************************************)

\* The wake source is readable: the loop consumes it and counts the wake.
ConsumePing ==
  /\ loop = "wait"
  /\ pings > 0
  /\ pings' = 0
  /\ Bump("wake_requests")
  /\ loop' = "ack"
  /\ UNCHANGED <<pending, dirty, producerVars, batch, current, sceneVars>>

\* A frame or timer deadline ends the wait; no edge was consumed, so none is
\* acknowledged.
DeadlinePasses ==
  /\ loop = "wait"
  /\ decision.kind \in {"Frame", "Timer"}
  /\ loop' = "advance"
  /\ UNCHANGED <<wakeVars, dirty, metrics, producerVars, batch, current,
                 sceneVars>>

\* Faulty variant: acknowledge reads the flag and leaves it set.
AcknowledgeLoadsOnly ==
  /\ loop = "ack"
  /\ loop' = "advance"
  /\ UNCHANGED <<wakeVars, dirty, metrics, producerVars, batch, current,
                 sceneVars>>

\* WakeHandle::acknowledge, before the application work is drained.
Acknowledge ==
  /\ loop = "ack"
  /\ pending' = FALSE
  /\ loop' = "advance"
  /\ UNCHANGED <<pings, dirty, metrics, producerVars, batch, current,
                 sceneVars>>

\* update_timers_and_animations() and the dispatched events end: the calls
\* they made to the handles have returned, and the scene is what they left.
Advance ==
  /\ loop = "advance"
  /\ pc[UI] = "idle"
  /\ scene' \in Scenes
  /\ loop' = "drain"
  /\ UNCHANGED <<wakeVars, dirty, metrics, producerVars, batch, current,
                 decision>>

\* Faulty variant: the set is copied out and not emptied.
TakeAllCopies ==
  /\ loop = "drain"
  /\ batch' = dirty
  /\ loop' = IF dirty = {} THEN "decide" ELSE "acquire"
  /\ UNCHANGED <<wakeVars, dirty, metrics, producerVars, current, sceneVars>>

\* DirtySet::take_all, one critical section.
TakeAll ==
  /\ loop = "drain"
  /\ batch' = dirty
  /\ dirty' = {}
  /\ loop' = IF dirty = {} THEN "decide" ELSE "acquire"
  /\ UNCHANGED <<wakeVars, metrics, producerVars, current, sceneVars>>

\* The loop takes the next output of the batch, in the order of the BTreeSet,
\* and acquires a buffer for it.
AcquireBuffer ==
  /\ loop = "acquire"
  /\ \E o \in batch :
       /\ \A other \in batch : o <= other
       /\ current' = o
  /\ Bump("buffer_acquires")
  /\ loop' = "present"
  /\ UNCHANGED <<wakeVars, dirty, producerVars, batch, sceneVars>>

\* render_and_commit: the output shows what it was asked to show.
RenderAndCommit ==
  /\ loop = "present"
  /\ batch' = batch \ {current}
  /\ loop' = "rendered"
  /\ UNCHANGED <<wakeVars, dirty, metrics, producerVars, current, sceneVars>>

RecordRender ==
  /\ loop = "rendered"
  /\ Bump("renders")
  /\ loop' = "committed"
  /\ UNCHANGED <<wakeVars, dirty, producerVars, batch, current, sceneVars>>

RecordCommit ==
  /\ loop = "committed"
  /\ Bump("commits")
  /\ loop' = IF batch = {} THEN "decide" ELSE "acquire"
  /\ UNCHANGED <<wakeVars, dirty, producerVars, batch, current, sceneVars>>

\* IdleScheduler::from_slint on the visible windows, then the wait begins.
ChooseWait ==
  /\ loop = "decide"
  /\ decision' = Decide(scene)
  /\ loop' = "wait"
  /\ UNCHANGED <<wakeVars, dirty, metrics, producerVars, batch, current, scene>>

ProducerStep(p) == Mark(p) \/ CompareExchange(p) \/ Notify(p)

LoopStep ==
  \/ ConsumePing \/ DeadlinePasses \/ Acknowledge \/ Advance \/ TakeAll
  \/ AcquireBuffer \/ RenderAndCommit \/ RecordRender \/ RecordCommit
  \/ ChooseWait

Next ==
  \/ \E p \in Producers : \E o \in Outputs : RecordRequest(p, o)
  \/ \E p \in Producers : CallWake(p)
  \/ \E p \in Producers : ProducerStep(p)
  \/ LoopStep

\* A call that began runs on, and the loop thread runs whenever it can:
\* nothing obliges a producer to call again.
Fairness ==
  /\ \A p \in Producers : WF_vars(ProducerStep(p))
  /\ WF_vars(LoopStep)

SafeSpec == Init /\ [][Next]_vars
Spec == SafeSpec /\ Fairness

(***************************************************************************)
(* Safety.                                                                 *)
(***************************************************************************)
Announcing == {p \in Producers : pc[p] = "notify"}

\* A pending wake is owned by exactly one party at any time - a producer
\* between its compare_exchange and its callback, the wake source, or the
\* loop between consuming the edge and acknowledging it - and no wake is
\* owned when none is pending.  So the callback runs once per edge and the
\* wake source never holds two (lib.rs, WakeHandle).
EdgeConservation ==
  /\ pending <=> (Announcing # {} \/ pings # 0 \/ loop = "ack")
  /\ \A p, q \in Announcing : p = q
  /\ Announcing # {} => pings = 0 /\ loop # "ack"
  /\ pings # 0 => pings = 1 /\ loop # "ack"

\* A marked output is never stranded: while something is dirty, either a
\* producer that marked has still to raise or announce its wake, or a
\* notification waits for the loop, or the loop is on its way to take_all.  A
\* redraw requested during a drain therefore always gets a turn of its own.
NoLostRedraw ==
  dirty # {} =>
    \/ \E p \in Producers : pc[p] \in {"wake", "notify"}
    \/ pings # 0
    \/ loop \in {"ack", "advance", "drain"}

\* Outputs drained and not yet given a buffer.
Undrawn == IF loop \in {"present", "rendered", "committed"}
           THEN batch \ {current} ELSE batch

Marking == {p \in Producers : pc[p] = "mark"}

\* Expensive work follows intent: however requests coalesce and interleave
\* with drains, every buffer acquired, every output waiting to be drawn and
\* every mark about to be made is paid for by a request counted before it, so
\* buffers are acquired at most once per redraw request.
WorkBoundedByIntent ==
  metrics["buffer_acquires"] + Cardinality(Undrawn) + Cardinality(dirty)
    + Cardinality(Marking) <= metrics["redraw_requests"]

\* The loop never sleeps past what the scene it left behind needs: not past
\* the next timer, not past a frame of a visible animation, and it blocks
\* without a deadline only when there is neither.
WaitFitsScene ==
  loop = "wait" =>
    /\ decision.kind = "Indefinite"
         <=> ~scene.animation /\ scene.timer = NoTimer
    /\ scene.animation => decision.kind = "Frame"
                          /\ decision.delay <= FrameInterval
    /\ scene.timer # NoTimer => decision.delay <= scene.timer

(***************************************************************************)
(* Refinement and liveness.                                                *)
(***************************************************************************)
Intent == INSTANCE RedrawIntent WITH wanted <- dirty, rendering <- batch

\* The edge protocol keeps the promise of RedrawIntent, its liveness
\* included: every marked output is drained and presented, although the loop
\* may block with no deadline.
ImplementsIntent == Intent!Spec

\* Once the scene stays static and the (boundedly many) requests are over,
\* the loop ends up blocked for good, with nothing marked and no edge left
\* over: a spurious turn never breeds another.
StaticSceneSleeps ==
  <>[](~scene.animation /\ scene.timer = NoTimer)
    => <>[](loop = "wait" /\ dirty = {} /\ ~pending /\ pings = 0)
=============================================================================
