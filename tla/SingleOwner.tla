---------------------------- MODULE SingleOwner -----------------------------
(***************************************************************************)
(* What singleton-guard promises of a name, with no files, descriptors or  *)
(* inodes in sight: one guard at a time, given out only while nobody has   *)
(* the name; a refusal only while somebody has it; the name free again     *)
(* once the guard is gone, and with it the helpers that were being started *)
(* beside it.  SingletonGuard implements it.                               *)
(***************************************************************************)
CONSTANTS
  Processes,
  Guards     \* identities of guards

VARIABLES
  guards,    \* process -> the guards it has
  heirs,     \* processes a child of which keeps the name taken
  told       \* process -> what its last try_acquire returned

ownerVars == <<guards, heirs, told>>

Init ==
  /\ guards = [p \in Processes |-> {}]
  /\ heirs = {}
  /\ told = [p \in Processes |-> "none"]

IsTaken == heirs # {} \/ \E p \in Processes : guards[p] # {}

\* A child forked during the call inherits what the call acquires.
Acquire(p) ==
  /\ ~IsTaken
  /\ \E g \in Guards : guards' = [guards EXCEPT ![p] = {g}]
  /\ heirs' \in {{}, {p}}
  /\ told' = [told EXCEPT ![p] = "owner"]

Refuse(p) ==
  /\ IsTaken
  /\ told' = [told EXCEPT ![p] = "refused"]
  /\ UNCHANGED <<guards, heirs>>

Fail(p) ==
  /\ told' = [told EXCEPT ![p] = "error"]
  /\ UNCHANGED <<guards, heirs>>

\* The guard is dropped, or its process dies.
Release(p) ==
  /\ guards' = [guards EXCEPT ![p] = {}]
  /\ UNCHANGED <<heirs, told>>

\* A process that has the guard starts a helper, which keeps the name taken
\* until it execs.
Share(p) ==
  /\ guards[p] # {}
  /\ heirs' = heirs \cup {p}
  /\ UNCHANGED <<guards, told>>

Disinherit(p) ==
  /\ heirs' = heirs \ {p}
  /\ UNCHANGED <<guards, told>>

\* A process that died is started again.
Restart(p) ==
  /\ guards[p] = {}
  /\ told' = [told EXCEPT ![p] = "none"]
  /\ UNCHANGED <<guards, heirs>>

Next ==
  \E p \in Processes :
    \/ Acquire(p) \/ Refuse(p) \/ Fail(p) \/ Release(p)
    \/ Share(p) \/ Disinherit(p) \/ Restart(p)

Spec == Init /\ [][Next]_ownerVars
=============================================================================
