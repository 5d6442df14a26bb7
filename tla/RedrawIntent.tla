---------------------------- MODULE RedrawIntent ----------------------------
(***************************************************************************)
(* What slint-idle-runtime promises an application, with no wake edge, no  *)
(* metrics and no event loop in sight: an output somebody wants redrawn    *)
(* stays wanted until the presenter collects it, requests for one output   *)
(* coalesce, only collected outputs are presented, and every wanted output *)
(* is collected and presented in the end.  IdleRuntime implements it.      *)
(***************************************************************************)
CONSTANT Outputs

VARIABLES
  wanted,      \* outputs marked dirty and not collected yet
  rendering    \* outputs the presenter collected and has not presented yet

intentVars == <<wanted, rendering>>

Init ==
  /\ wanted = {}
  /\ rendering = {}

\* DirtySet::mark: intent accumulates, a second request for o adds nothing.
Request(o) ==
  /\ wanted' = wanted \cup {o}
  /\ UNCHANGED rendering

\* DirtySet::take_all: the whole intent moves to the presenter at once.
Collect ==
  /\ wanted # {}
  /\ rendering = {}
  /\ rendering' = wanted
  /\ wanted' = {}

\* The presenter renders and commits one collected output.
Present(o) ==
  /\ o \in rendering
  /\ rendering' = rendering \ {o}
  /\ UNCHANGED wanted

Next ==
  \/ \E o \in Outputs : Request(o)
  \/ Collect
  \/ \E o \in Outputs : Present(o)

Fairness ==
  /\ WF_intentVars(Collect)
  /\ \A o \in Outputs : WF_intentVars(Present(o))

SafeSpec == Init /\ [][Next]_intentVars
Spec == SafeSpec /\ Fairness
=============================================================================
