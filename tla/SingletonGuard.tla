--------------------------- MODULE SingletonGuard ---------------------------
(***************************************************************************)
(* singleton-guard: processes that compete for one name by opening         *)
(* $XDG_RUNTIME_DIR/<name>.lock and taking an exclusive, non-blocking      *)
(* flock(2) on it.  The kernel side is modelled as far as the crate uses   *)
(* it: a path names at most one inode, every open(2) makes its own open    *)
(* file description, flock belongs to the description and conflicts per    *)
(* inode, and a description ends - its lock with it - when no descriptor   *)
(* refers to it.  A child between fork and exec holds copies of its        *)
(* parent's descriptors (std opens files close-on-exec, so exec drops      *)
(* them).                                                                  *)
(***************************************************************************)
CONSTANTS
  Processes,  \* processes that use the guard; one that died may start again
  Files,      \* open file descriptions
  Inodes,     \* inodes of the runtime directory
  None        \* no inode, or no file

ASSUME SingletonAssumption == None \notin Inodes /\ None \notin Files

VARIABLES
  linked,    \* the inode under the lock path, None while there is none
  inodeOf,   \* description -> its inode, None when the description is free
  holders,   \* description -> the tasks with a descriptor of it
  locked,    \* descriptions that hold the flock
  alive,     \* live processes
  opened,    \* process -> the description its try_acquire has open, or None
  guards,    \* process -> descriptions inside its live SingletonGuards
  forked,    \* processes with a child between fork and exec
  outcome    \* process -> what its last finished try_acquire returned

vars == <<linked, inodeOf, holders, locked, alive, opened, guards, forked,
          outcome>>
kernelVars == <<linked, inodeOf, holders, locked>>

Tasks == Processes \X {"process", "child"}
Outcomes == {"none", "owner", "refused", "error"}

TypeOK ==
  /\ linked \in Inodes \cup {None}
  /\ inodeOf \in [Files -> Inodes \cup {None}]
  /\ holders \in [Files -> SUBSET Tasks]
  /\ locked \in SUBSET Files
  /\ alive \in SUBSET Processes
  /\ opened \in [Processes -> Files \cup {None}]
  /\ guards \in [Processes -> SUBSET Files]
  /\ forked \in SUBSET Processes
  /\ outcome \in [Processes -> Outcomes]
  /\ \A f \in Files : inodeOf[f] = None <=> holders[f] = {}
  /\ \A f \in locked : holders[f] # {}
  /\ \A p \in Processes : opened[p] \notin guards[p]

\* No process has started; a lock file of an earlier session may be there.
Init ==
  /\ linked \in Inodes \cup {None}
  /\ inodeOf = [f \in Files |-> None]
  /\ holders = [f \in Files |-> {}]
  /\ locked = {}
  /\ alive = {}
  /\ opened = [p \in Processes |-> None]
  /\ guards = [p \in Processes |-> {}]
  /\ forked = {}
  /\ outcome = [p \in Processes |-> "none"]

(***************************************************************************)
(* The kernel.                                                             *)
(***************************************************************************)

\* The tasks in gone close their descriptors of the files in fs: whatever is
\* left without a descriptor is freed and unlocked.
Close(fs, gone) ==
  LET kept == [f \in Files |-> IF f \in fs THEN holders[f] \ gone
                                           ELSE holders[f]]
  IN /\ holders' = kept
     /\ inodeOf' = [f \in Files |-> IF kept[f] = {} THEN None
                                                    ELSE inodeOf[f]]
     /\ locked' = {f \in locked : kept[f] # {}}

Conflict(f) == \E g \in locked : g # f /\ inodeOf[g] = inodeOf[f]

(***************************************************************************)
(* try_acquire_at, from open to its return.                                *)
(***************************************************************************)
Idle(p) == p \in alive /\ opened[p] = None

\* The runtime directory does not resolve, or the file does not open.
AcquireError(p) ==
  /\ Idle(p)
  /\ outcome' = [outcome EXCEPT ![p] = "error"]
  /\ UNCHANGED <<kernelVars, alive, opened, guards, forked>>

\* open(O_CREAT | O_WRONLY | O_CLOEXEC), without O_TRUNC and without O_EXCL:
\* the inode under the path, a new one when there is none.
Open(p) ==
  /\ Idle(p)
  /\ \E f \in Files, i \in Inodes :
       /\ inodeOf[f] = None
       /\ IF linked = None THEN \A g \in Files : inodeOf[g] # i
                           ELSE i = linked
       /\ linked' = i
       /\ inodeOf' = [inodeOf EXCEPT ![f] = i]
       /\ holders' = [holders EXCEPT ![f] = {<<p, "process">>}]
       /\ opened' = [opened EXCEPT ![p] = f]
  /\ UNCHANGED <<locked, alive, guards, forked, outcome>>

\* Faulty variant: LOCK_SH, which never conflicts with another guard.
FlockShared(p) ==
  /\ p \in alive
  /\ opened[p] # None
  /\ locked' = locked \cup {opened[p]}
  /\ guards' = [guards EXCEPT ![p] = @ \cup {opened[p]}]
  /\ opened' = [opened EXCEPT ![p] = None]
  /\ outcome' = [outcome EXCEPT ![p] = "owner"]
  /\ UNCHANGED <<linked, inodeOf, holders, alive, forked>>

\* Faulty variant: the guard is made from a clone, the call keeps the file.
FlockKeepsFile(p) ==
  /\ p \in alive
  /\ opened[p] # None
  /\ ~Conflict(opened[p])
  /\ locked' = locked \cup {opened[p]}
  /\ guards' = [guards EXCEPT ![p] = @ \cup {opened[p]}]
  /\ outcome' = [outcome EXCEPT ![p] = "owner"]
  /\ UNCHANGED <<linked, inodeOf, holders, alive, opened, forked>>

\* flock(LOCK_EX | LOCK_NB) succeeds: the file moves into a guard.
FlockSucceeds(p) ==
  /\ p \in alive
  /\ opened[p] # None
  /\ ~Conflict(opened[p])
  /\ locked' = locked \cup {opened[p]}
  /\ guards' = [guards EXCEPT ![p] = @ \cup {opened[p]}]
  /\ opened' = [opened EXCEPT ![p] = None]
  /\ outcome' = [outcome EXCEPT ![p] = "owner"]
  /\ UNCHANGED <<linked, inodeOf, holders, alive, forked>>

\* EWOULDBLOCK: Ok(None), and the file is dropped on return.
FlockRefused(p) ==
  /\ p \in alive
  /\ opened[p] # None
  /\ Conflict(opened[p])
  /\ Close({opened[p]}, {<<p, "process">>})
  /\ opened' = [opened EXCEPT ![p] = None]
  /\ outcome' = [outcome EXCEPT ![p] = "refused"]
  /\ UNCHANGED <<linked, alive, guards, forked>>

\* Faulty variant: every flock failure is reported as a live owner.
FlockErrorAsRefusal(p) ==
  /\ p \in alive
  /\ opened[p] # None
  /\ Close({opened[p]}, {<<p, "process">>})
  /\ opened' = [opened EXCEPT ![p] = None]
  /\ outcome' = [outcome EXCEPT ![p] = "refused"]
  /\ UNCHANGED <<linked, alive, guards, forked>>

\* Any other failure of flock (EINTR, ENOLCK): an error, the file is dropped.
FlockError(p) ==
  /\ p \in alive
  /\ opened[p] # None
  /\ Close({opened[p]}, {<<p, "process">>})
  /\ opened' = [opened EXCEPT ![p] = None]
  /\ outcome' = [outcome EXCEPT ![p] = "error"]
  /\ UNCHANGED <<linked, alive, guards, forked>>

\* Faulty variant: the lock file is removed with the guard.
DropGuardUnlinks(p, f) ==
  /\ p \in alive
  /\ f \in guards[p]
  /\ Close({f}, {<<p, "process">>})
  /\ linked' = None
  /\ guards' = [guards EXCEPT ![p] = @ \ {f}]
  /\ UNCHANGED <<alive, opened, forked, outcome>>

\* Faulty variant: the guard keeps a raw descriptor nobody closes.
DropGuardLeaks(p, f) ==
  /\ p \in alive
  /\ f \in guards[p]
  /\ guards' = [guards EXCEPT ![p] = @ \ {f}]
  /\ UNCHANGED <<kernelVars, alive, opened, forked, outcome>>

\* A guard is dropped: its file is closed, the path stays.
DropGuard(p, f) ==
  /\ p \in alive
  /\ f \in guards[p]
  /\ Close({f}, {<<p, "process">>})
  /\ guards' = [guards EXCEPT ![p] = @ \ {f}]
  /\ UNCHANGED <<linked, alive, opened, forked, outcome>>

(***************************************************************************)
(* Process life: start, fork and exec of a helper, death at any point.     *)
(***************************************************************************)
Start(p) ==
  /\ p \notin alive
  /\ alive' = alive \cup {p}
  /\ outcome' = [outcome EXCEPT ![p] = "none"]
  /\ UNCHANGED <<kernelVars, opened, guards, forked>>

\* SIGKILL, abort or process::exit: no destructor runs, the kernel closes
\* the process's descriptors.  A forked child lives on.
Die(p) ==
  /\ p \in alive
  /\ alive' = alive \ {p}
  /\ Close(Files, {<<p, "process">>})
  /\ opened' = [opened EXCEPT ![p] = None]
  /\ guards' = [guards EXCEPT ![p] = {}]
  /\ UNCHANGED <<linked, forked, outcome>>

Fork(p) ==
  /\ p \in alive
  /\ p \notin forked
  /\ forked' = forked \cup {p}
  /\ holders' = [f \in Files |->
                   IF <<p, "process">> \in holders[f]
                   THEN holders[f] \cup {<<p, "child">>} ELSE holders[f]]
  /\ UNCHANGED <<linked, inodeOf, locked, alive, opened, guards, outcome>>

\* The child reaches exec, or dies before it: its copies are closed.
ExecOrExit(p) ==
  /\ p \in forked
  /\ forked' = forked \ {p}
  /\ Close(Files, {<<p, "child">>})
  /\ UNCHANGED <<linked, alive, opened, guards, outcome>>

Next ==
  \E p \in Processes :
    \/ AcquireError(p) \/ Open(p)
    \/ FlockSucceeds(p) \/ FlockRefused(p) \/ FlockError(p)
    \/ \E f \in Files : DropGuard(p, f)
    \/ Start(p) \/ Die(p) \/ Fork(p) \/ ExecOrExit(p)

\* A child on its way to exec gets there; nobody is obliged to acquire, to
\* release or to die.
Fairness == \A p \in Processes : WF_vars(ExecOrExit(p))

SafeSpec == Init /\ [][Next]_vars
Spec == SafeSpec /\ Fairness

(***************************************************************************)
(* Properties.                                                             *)
(***************************************************************************)

\* One name has at most one guard, over all processes and inside one process,
\* whatever open, flock, drop, fork and death interleave.
MutualExclusion ==
  \A p, q \in Processes : \A f \in guards[p], g \in guards[q] :
    p = q /\ f = g

\* A guard that is alive really owns: its description is locked, on the inode
\* a newcomer would open.
GuardOwns ==
  \A p \in Processes : \A f \in guards[p] :
    f \in locked /\ inodeOf[f] = linked /\ <<p, "process">> \in holders[f]

\* Guards and locks account for each other: a guard that is alive owns the lock
\* a newcomer asks for, and no failed call and no death leaks one - a locked
\* description is in a guard, or is kept only by a child that has not reached
\* exec yet.
LocksAccountedFor ==
  /\ GuardOwns
  /\ \A f \in locked :
       \/ \E p \in Processes : f \in guards[p]
       \/ holders[f] # {} /\ \A t \in holders[f] : t[2] = "child"

\* What SingleOwner calls heirs.
Heirs == {p \in Processes : \E f \in locked : <<p, "child">> \in holders[f]}

Owner == INSTANCE SingleOwner
           WITH Guards <- Files, heirs <- Heirs, told <- outcome

\* With open, flock, fork, exec and death as they are, the crate gives out one
\* name as if by hand: every step of a process, its children or the kernel is
\* one of SingleOwner's or none.
ImplementsOwnership == Owner!Spec

\* Ok(None) is only ever said because another task holds the lock at that
\* moment: a stale file or a failing syscall is never reported as an owner.
RefusalIsJustified ==
  [][\A p \in Processes :
       outcome[p] # "refused" /\ outcome'[p] = "refused" =>
         \E f \in locked : holders[f] \ {<<p, "process">>} # {}
                           \/ f \in guards[p]]_vars

\* A dead owner never wedges the name: a lock without a guard goes away.
LockNeverWedged ==
  \A f \in Files :
    (f \in locked /\ \A p \in Processes : f \notin guards[p])
      ~> (f \notin locked)
=============================================================================
