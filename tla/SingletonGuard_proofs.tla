----------------------- MODULE SingletonGuard_proofs -----------------------
(***************************************************************************)
(* Theorems about SingletonGuard, for any sets of processes, descriptions  *)
(* and inodes.                                                             *)
(***************************************************************************)
EXTENDS SingletonGuard, TLAPS

\* The strengthening that makes MutualExclusion inductive: the path is never
\* unlinked, so every open description is on the linked inode and a lock
\* excludes every other; a descriptor of a process is in the call that opened
\* it or, once locked, in a guard.
OnePath == \A f \in Files : inodeOf[f] # None => inodeOf[f] = linked

OneLock == \A f, g \in locked : f = g

OneProcess ==
  \A f \in Files : \A p, q \in Processes :
    <<p, "process">> \in holders[f] /\ <<q, "process">> \in holders[f] => p = q

LockedInGuard ==
  \A f \in locked : \A p \in Processes :
    <<p, "process">> \in holders[f] => f \in guards[p]

OpenedUnlocked ==
  \A p \in Processes : opened[p] # None =>
    opened[p] \notin locked /\ <<p, "process">> \in holders[opened[p]]

\* The conjunction, inductive over well-typed states.
OwnershipInv ==
  OnePath /\ OneLock /\ GuardOwns /\ OneProcess /\ LockedInGuard
    /\ OpenedUnlocked

\* With no process started the invariant holds, stale lock file or not.
LEMMA InitInv == Init => TypeOK /\ OwnershipInv
BY SingletonAssumption
   DEF Init, TypeOK, OwnershipInv, OnePath, OneLock, GuardOwns, OneProcess,
       LockedInGuard, OpenedUnlocked, Outcomes

\* What closing descriptors leaves of the kernel's tables: no new descriptor,
\* no new lock, and only descriptions nobody refers to are freed.
LEMMA CloseFacts ==
  ASSUME TypeOK, NEW fs, NEW gone, Close(fs, gone)
  PROVE  /\ holders' \in [Files -> SUBSET Tasks]
         /\ inodeOf' \in [Files -> Inodes \cup {None}]
         /\ locked' \subseteq locked
         /\ \A f \in Files : f \in fs => holders'[f] = holders[f] \ gone
         /\ \A f \in Files : f \notin fs => holders'[f] = holders[f]
         /\ \A f \in Files : holders'[f] \subseteq holders[f]
         /\ \A f \in Files : holders'[f] = {} => inodeOf'[f] = None
         /\ \A f \in Files : holders'[f] # {} =>
              inodeOf'[f] = inodeOf[f] /\ inodeOf'[f] # None
         /\ \A f \in locked : holders'[f] # {} => f \in locked'
         /\ \A f \in locked' : holders'[f] # {}
<1> DEFINE kept == [f \in Files |-> IF f \in fs THEN holders[f] \ gone
                                               ELSE holders[f]]
<1>1. /\ holders' = kept
      /\ inodeOf' = [f \in Files |-> IF kept[f] = {} THEN None ELSE inodeOf[f]]
      /\ locked' = {f \in locked : kept[f] # {}}
  BY DEF Close
<1>2. \A f \in Files : f \in fs => kept[f] = holders[f] \ gone
  OBVIOUS
<1>3. \A f \in Files : f \notin fs => kept[f] = holders[f]
  OBVIOUS
<1>4. \A f \in Files : kept[f] \subseteq holders[f]
  BY <1>2, <1>3
<1>5. kept \in [Files -> SUBSET Tasks]
  BY <1>4 DEF TypeOK
<1> HIDE DEF kept
<1>6. inodeOf' \in [Files -> Inodes \cup {None}]
  BY <1>1 DEF TypeOK
<1>7. \A f \in Files : holders[f] # {} => inodeOf[f] # None
  BY DEF TypeOK
<1>8. \A f \in Files : kept[f] # {} => holders[f] # {}
  BY <1>4
<1>9. locked \subseteq Files
  BY DEF TypeOK
<1> QED BY <1>1, <1>2, <1>3, <1>4, <1>5, <1>6, <1>7, <1>8, <1>9

\* One step keeps the tables typed, and descriptions in use exactly while a
\* descriptor refers to them.
LEMMA TypeStep == TypeOK /\ OwnershipInv /\ [Next]_vars => TypeOK'
<1> SUFFICES ASSUME TypeOK, OwnershipInv, [Next]_vars PROVE TypeOK'
  OBVIOUS
<1>1. ASSUME NEW p \in Processes, AcquireError(p) PROVE TypeOK'
  BY <1>1 DEF AcquireError, kernelVars, TypeOK, Outcomes
<1>2. ASSUME NEW p \in Processes, Open(p) PROVE TypeOK'
  <2>1. PICK f \in Files, i \in Inodes :
          /\ linked' = i
          /\ inodeOf' = [inodeOf EXCEPT ![f] = i]
          /\ holders' = [holders EXCEPT ![f] = {<<p, "process">>}]
          /\ opened' = [opened EXCEPT ![p] = f]
    BY <1>2 DEF Open
  <2>2. UNCHANGED <<locked, alive, guards, forked, outcome>>
    BY <1>2 DEF Open
  <2>3. {<<p, "process">>} \in SUBSET Tasks /\ i # None
    BY SingletonAssumption DEF Tasks
  <2>4. /\ \A g \in Files : inodeOf'[g] = None <=> holders'[g] = {}
        /\ \A g \in locked' : holders'[g] # {}
    BY <2>1, <2>2, <2>3 DEF TypeOK
  <2>5. f \notin guards[p]
    <3>1. holders[f] = {}
      BY <1>2, <2>1, <2>3 DEF Open, TypeOK
    <3> QED BY <3>1 DEF OwnershipInv, GuardOwns
  <2> QED BY <2>1, <2>2, <2>3, <2>4, <2>5 DEF TypeOK
<1>3. ASSUME NEW p \in Processes, FlockSucceeds(p) PROVE TypeOK'
  <2>1. opened[p] \in Files /\ holders[opened[p]] # {}
    BY <1>3 DEF FlockSucceeds, TypeOK, OwnershipInv, OpenedUnlocked
  <2> QED BY <1>3, <2>1, SingletonAssumption DEF FlockSucceeds, TypeOK, Outcomes
<1>4. ASSUME NEW p \in Processes, FlockRefused(p) PROVE TypeOK'
  BY <1>4, CloseFacts, SingletonAssumption DEF FlockRefused, TypeOK, Outcomes
<1>5. ASSUME NEW p \in Processes, FlockError(p) PROVE TypeOK'
  BY <1>5, CloseFacts, SingletonAssumption DEF FlockError, TypeOK, Outcomes
<1>6. ASSUME NEW p \in Processes, NEW f \in Files, DropGuard(p, f)
      PROVE TypeOK'
  BY <1>6, CloseFacts DEF DropGuard, TypeOK
<1>7. ASSUME NEW p \in Processes, Start(p) PROVE TypeOK'
  BY <1>7 DEF Start, kernelVars, TypeOK, Outcomes
<1>8. ASSUME NEW p \in Processes, Die(p) PROVE TypeOK'
  BY <1>8, CloseFacts DEF Die, TypeOK
<1>9. ASSUME NEW p \in Processes, Fork(p) PROVE TypeOK'
  BY <1>9 DEF Fork, TypeOK, Tasks
<1>10. ASSUME NEW p \in Processes, ExecOrExit(p) PROVE TypeOK'
  BY <1>10, CloseFacts DEF ExecOrExit, TypeOK
<1>11. CASE UNCHANGED vars
  BY <1>11 DEF vars, TypeOK
<1> QED
  BY <1>1, <1>2, <1>3, <1>4, <1>5, <1>6, <1>7, <1>8, <1>9, <1>10, <1>11
     DEF Next

\* Closing descriptors while the path stays keeps the kernel's half of the
\* invariant.
LEMMA CloseKeeps ==
  ASSUME TypeOK, OwnershipInv, NEW fs, NEW gone, Close(fs, gone),
         UNCHANGED linked
  PROVE  OnePath' /\ OneLock' /\ OneProcess'
<1>1. /\ locked' \subseteq locked
      /\ \A f \in Files : holders'[f] \subseteq holders[f]
      /\ \A f \in Files : inodeOf'[f] \in {None, inodeOf[f]}
  BY CloseFacts
<1>2. OnePath'
  BY <1>1 DEF OwnershipInv, OnePath
<1>3. OneLock'
  BY <1>1 DEF OwnershipInv, OneLock
<1>4. OneProcess'
  BY <1>1 DEF OwnershipInv, OneProcess
<1> QED BY <1>2, <1>3, <1>4

\* A call that ends without the lock closes its own file only.
LEMMA CallEndsUnlocked ==
  ASSUME TypeOK, OwnershipInv, NEW p \in Processes, opened[p] # None,
         Close({opened[p]}, {<<p, "process">>}),
         opened' = [opened EXCEPT ![p] = None],
         UNCHANGED <<linked, guards>>
  PROVE  OwnershipInv'
<1>1. OnePath' /\ OneLock' /\ OneProcess'
  BY CloseKeeps
<1>2. opened[p] \in Files /\ opened[p] \notin locked
  BY DEF TypeOK, OwnershipInv, OpenedUnlocked
<1>3. \A f \in Files : f # opened[p] =>
        holders'[f] = holders[f] /\ inodeOf'[f] = inodeOf[f]
  BY CloseFacts DEF TypeOK
<1>4. locked' = locked
  <2>1. locked' \subseteq locked
    BY CloseFacts
  <2>2. \A f \in locked : holders'[f] # {}
    BY <1>2, <1>3 DEF TypeOK
  <2>3. locked \subseteq locked'
    BY <2>2, CloseFacts
  <2> QED BY <2>1, <2>3
<1>5. GuardOwns'
  <2> SUFFICES ASSUME NEW q \in Processes, NEW f \in guards'[q]
               PROVE  (f \in locked /\ inodeOf[f] = linked
                       /\ <<q, "process">> \in holders[f])'
    BY DEF GuardOwns
  <2>1. f \in guards[q] /\ f \in locked /\ f \in Files
    BY DEF OwnershipInv, GuardOwns, TypeOK
  <2> QED BY <1>2, <1>3, <1>4, <2>1 DEF OwnershipInv, GuardOwns
<1>6. LockedInGuard'
  BY <1>2, <1>3, <1>4 DEF OwnershipInv, LockedInGuard, TypeOK
<1>7. OpenedUnlocked'
  <2> SUFFICES ASSUME NEW q \in Processes, opened'[q] # None
               PROVE  (opened[q] \notin locked
                       /\ <<q, "process">> \in holders[opened[q]])'
    BY DEF OpenedUnlocked
  <2>1. q # p /\ opened'[q] = opened[q] /\ opened[q] \in Files
    BY DEF TypeOK
  <2>2. opened[q] # opened[p]
    BY <1>2, <2>1 DEF OwnershipInv, OpenedUnlocked, OneProcess
  <2> QED BY <1>3, <1>4, <2>1, <2>2 DEF OwnershipInv, OpenedUnlocked
<1> QED BY <1>1, <1>5, <1>6, <1>7 DEF OwnershipInv

\* With one inode behind the path, any lock is in the way of another.
LEMMA NobodyLocks ==
  ASSUME TypeOK, OwnershipInv, NEW p \in Processes, FlockSucceeds(p)
  PROVE  locked = {}
<1>1. /\ opened[p] \in Files /\ opened[p] \notin locked
      /\ <<p, "process">> \in holders[opened[p]] /\ ~Conflict(opened[p])
  BY DEF FlockSucceeds, OwnershipInv, OpenedUnlocked, TypeOK
<1>2. inodeOf[opened[p]] = linked
  BY <1>1 DEF OwnershipInv, OnePath, TypeOK
<1>3. \A g \in locked : inodeOf[g] = linked
  BY DEF OwnershipInv, OnePath, TypeOK
<1> QED BY <1>1, <1>2, <1>3 DEF Conflict

\* One step of any process, of its children or of the kernel keeps ownership.
LEMMA OwnershipStep == TypeOK /\ OwnershipInv /\ [Next]_vars => OwnershipInv'
<1> SUFFICES ASSUME TypeOK, OwnershipInv, [Next]_vars PROVE OwnershipInv'
  OBVIOUS
<1> USE DEF OwnershipInv
<1>1. ASSUME NEW p \in Processes, AcquireError(p) \/ Start(p)
      PROVE OwnershipInv'
  BY <1>1 DEF AcquireError, Start, kernelVars, OnePath, OneLock, GuardOwns,
              OneProcess, LockedInGuard, OpenedUnlocked
<1>2. ASSUME NEW p \in Processes, Open(p) PROVE OwnershipInv'
  <2>1. PICK f \in Files, i \in Inodes :
          /\ inodeOf[f] = None
          /\ IF linked = None THEN \A g \in Files : inodeOf[g] # i
                              ELSE i = linked
          /\ linked' = i
          /\ inodeOf' = [inodeOf EXCEPT ![f] = i]
          /\ holders' = [holders EXCEPT ![f] = {<<p, "process">>}]
          /\ opened' = [opened EXCEPT ![p] = f]
    BY <1>2 DEF Open
  <2>2. UNCHANGED <<locked, guards>> /\ opened[p] = None
    BY <1>2 DEF Open, Idle
  <2>3. holders[f] = {} /\ f \notin locked
    BY <2>1 DEF TypeOK
  <2>4. OnePath'
    BY <2>1 DEF OnePath, TypeOK
  <2>5. OneLock'
    BY <2>2 DEF OneLock
  <2>6. GuardOwns'
    <3> SUFFICES ASSUME NEW q \in Processes, NEW g \in guards[q]
                 PROVE  (g \in locked /\ inodeOf[g] = linked
                         /\ <<q, "process">> \in holders[g])'
      BY <2>2 DEF GuardOwns
    <3>1. /\ g \in locked /\ g \in Files /\ g # f
          /\ inodeOf[g] = linked /\ <<q, "process">> \in holders[g]
      BY <2>3 DEF GuardOwns, TypeOK
    <3>2. linked # None
      BY <3>1 DEF TypeOK
    <3> QED BY <2>1, <2>2, <3>1, <3>2 DEF TypeOK
  <2>7. OneProcess'
    BY <2>1 DEF OneProcess, TypeOK
  <2>8. LockedInGuard'
    BY <2>1, <2>2, <2>3 DEF LockedInGuard, TypeOK
  <2>9. OpenedUnlocked'
    <3> SUFFICES ASSUME NEW q \in Processes, opened'[q] # None
                 PROVE  (opened[q] \notin locked
                         /\ <<q, "process">> \in holders[opened[q]])'
      BY DEF OpenedUnlocked
    <3>1. CASE q = p
      BY <2>1, <2>2, <2>3, <3>1 DEF TypeOK
    <3>2. CASE q # p
      BY <2>1, <2>2, <2>3, <3>2 DEF OpenedUnlocked, TypeOK
    <3> QED BY <3>1, <3>2
  <2> QED BY <2>4, <2>5, <2>6, <2>7, <2>8, <2>9
<1>3. ASSUME NEW p \in Processes, FlockSucceeds(p) PROVE OwnershipInv'
  <2> DEFINE f == opened[p]
  <2>1. /\ f \in Files /\ f \notin locked /\ <<p, "process">> \in holders[f]
        /\ locked' = locked \cup {f}
        /\ guards' = [guards EXCEPT ![p] = @ \cup {f}]
        /\ opened' = [opened EXCEPT ![p] = None]
        /\ UNCHANGED <<linked, inodeOf, holders>>
    BY <1>3 DEF FlockSucceeds, OpenedUnlocked, TypeOK
  <2>2. inodeOf[f] = linked
    BY <2>1 DEF OnePath, TypeOK
  <2>4. locked = {}
    BY <1>3, NobodyLocks
  <2>5. OnePath' /\ OneLock' /\ OneProcess'
    BY <2>1, <2>4 DEF OnePath, OneLock, OneProcess
  <2>6. GuardOwns'
    BY <2>1, <2>2 DEF GuardOwns, TypeOK
  <2>7. LockedInGuard'
    BY <2>1, <2>4 DEF OneProcess, LockedInGuard, TypeOK
  <2>8. OpenedUnlocked'
    BY <2>1 DEF OneProcess, OpenedUnlocked, TypeOK
  <2> QED BY <2>5, <2>6, <2>7, <2>8
<1>4. ASSUME NEW p \in Processes, FlockRefused(p) \/ FlockError(p)
      PROVE OwnershipInv'
  BY <1>4, CallEndsUnlocked DEF FlockRefused, FlockError
<1>5. ASSUME NEW p \in Processes, NEW f \in Files, DropGuard(p, f)
      PROVE OwnershipInv'
  <2>1. /\ f \in guards[p] /\ Close({f}, {<<p, "process">>})
        /\ guards' = [guards EXCEPT ![p] = @ \ {f}]
        /\ UNCHANGED <<linked, opened>>
    BY <1>5 DEF DropGuard
  <2>2. OnePath' /\ OneLock' /\ OneProcess'
    BY <2>1, CloseKeeps
  <2>3. locked = {f}
    BY <2>1 DEF GuardOwns, OneLock
  <2>4. \A q \in Processes : guards'[q] = {}
    <3> SUFFICES ASSUME NEW q \in Processes PROVE guards'[q] = {}
      OBVIOUS
    <3>1. guards[q] \subseteq {f}
      BY <2>3 DEF GuardOwns
    <3>2. CASE q = p
      BY <2>1, <3>1, <3>2 DEF TypeOK
    <3>3. CASE q # p
      <4>1. <<p, "process">> \in holders[f]
        BY <2>1 DEF GuardOwns
      <4>2. f \notin guards[q]
        BY <3>3, <4>1 DEF GuardOwns, OneProcess
      <4>3. guards'[q] = guards[q]
        BY <2>1, <3>3 DEF TypeOK
      <4> QED BY <3>1, <4>2, <4>3
    <3> QED BY <3>2, <3>3
  <2>5. \A q \in Processes : <<q, "process">> \notin holders'[f]
    <3>1. <<p, "process">> \in holders[f]
      BY <2>1 DEF GuardOwns
    <3>2. holders'[f] = holders[f] \ {<<p, "process">>}
      BY <2>1, CloseFacts
    <3> QED BY <3>1, <3>2 DEF OneProcess
  <2>6. GuardOwns' /\ LockedInGuard'
    BY <2>1, <2>3, <2>4, <2>5, CloseFacts DEF GuardOwns, LockedInGuard
  <2>7. OpenedUnlocked'
    BY <2>1, <2>3, CloseFacts DEF OpenedUnlocked, TypeOK
  <2> QED BY <2>2, <2>6, <2>7
<1>6. ASSUME NEW p \in Processes, Die(p) PROVE OwnershipInv'
  <2>1. /\ Close(Files, {<<p, "process">>})
        /\ opened' = [opened EXCEPT ![p] = None]
        /\ guards' = [guards EXCEPT ![p] = {}]
        /\ UNCHANGED linked
    BY <1>6 DEF Die
  <2>2. OnePath' /\ OneLock' /\ OneProcess'
    BY <2>1, CloseKeeps
  <2>3. /\ \A f \in Files : holders'[f] = holders[f] \ {<<p, "process">>}
        /\ locked' \subseteq locked
    BY <2>1, CloseFacts
  <2>4. GuardOwns'
    <3> SUFFICES ASSUME NEW q \in Processes, NEW f \in guards'[q]
                 PROVE  (f \in locked /\ inodeOf[f] = linked
                         /\ <<q, "process">> \in holders[f])'
      BY DEF GuardOwns
    <3>1. q # p /\ f \in guards[q] /\ f \in Files
      BY <2>1 DEF TypeOK
    <3>2. <<q, "process">> \in holders'[f]
      BY <2>3, <3>1 DEF GuardOwns
    <3> QED BY <2>1, <3>1, <3>2, CloseFacts DEF GuardOwns
  <2>5. LockedInGuard'
    BY <2>1, <2>3 DEF LockedInGuard, TypeOK
  <2>6. OpenedUnlocked'
    BY <2>1, <2>3 DEF OpenedUnlocked, TypeOK
  <2> QED BY <2>2, <2>4, <2>5, <2>6
<1>7. ASSUME NEW p \in Processes, Fork(p) PROVE OwnershipInv'
  <2>1. \A f \in Files, q \in Processes :
          /\ <<q, "process">> \in holders'[f] <=> <<q, "process">> \in holders[f]
    BY <1>7 DEF Fork, TypeOK
  <2>2. UNCHANGED <<linked, inodeOf, locked, opened, guards>>
    BY <1>7 DEF Fork
  <2> QED BY <2>1, <2>2 DEF OnePath, OneLock, GuardOwns, OneProcess,
                            LockedInGuard, OpenedUnlocked, TypeOK
<1>8. ASSUME NEW p \in Processes, ExecOrExit(p) PROVE OwnershipInv'
  <2>1. Close(Files, {<<p, "child">>}) /\ UNCHANGED <<linked, opened, guards>>
    BY <1>8 DEF ExecOrExit
  <2>2. OnePath' /\ OneLock' /\ OneProcess'
    BY <2>1, CloseKeeps
  <2>3. /\ \A f \in Files, q \in Processes :
             <<q, "process">> \in holders'[f] <=> <<q, "process">> \in holders[f]
        /\ locked' \subseteq locked
    BY <2>1, CloseFacts
  <2>4. GuardOwns'
    <3> SUFFICES ASSUME NEW q \in Processes, NEW f \in guards[q]
                 PROVE  (f \in locked /\ inodeOf[f] = linked
                         /\ <<q, "process">> \in holders[f])'
      BY <2>1 DEF GuardOwns
    <3>1. f \in Files /\ <<q, "process">> \in holders'[f]
      BY <2>3 DEF GuardOwns, TypeOK
    <3> QED BY <2>1, <3>1, CloseFacts DEF GuardOwns
  <2>5. LockedInGuard' /\ OpenedUnlocked'
    BY <2>1, <2>3 DEF LockedInGuard, OpenedUnlocked, TypeOK
  <2> QED BY <2>2, <2>4, <2>5
<1>9. CASE UNCHANGED vars
  BY <1>9 DEF vars, OnePath, OneLock, GuardOwns, OneProcess, LockedInGuard,
              OpenedUnlocked
<1> QED
  BY <1>1, <1>2, <1>3, <1>4, <1>5, <1>6, <1>7, <1>8, <1>9 DEF Next

\* The invariant all results about the guard rest on.
LEMMA Ownership == SafeSpec => [](TypeOK /\ OwnershipInv)
BY InitInv, TypeStep, OwnershipStep, PTL DEF SafeSpec

\* At most one guard per name, for any number of processes.
THEOREM GuardIsExclusive == SafeSpec => []MutualExclusion
<1>1. TypeOK /\ OwnershipInv => MutualExclusion
  BY DEF TypeOK, OwnershipInv, OneLock, OneProcess, GuardOwns, MutualExclusion
<1> QED BY <1>1, Ownership, PTL

\* A live guard holds the lock of the inode every newcomer opens, and no error
\* path and no death leaks a lock.
THEOREM NoLeakedLock == SafeSpec => []LocksAccountedFor
<1>1. TypeOK /\ OwnershipInv => LocksAccountedFor
  <2> SUFFICES ASSUME TypeOK, OwnershipInv, NEW f \in locked,
                      \A p \in Processes : f \notin guards[p]
               PROVE  holders[f] # {} /\ \A t \in holders[f] : t[2] = "child"
    BY DEF LocksAccountedFor, OwnershipInv
  <2>1. holders[f] # {} /\ holders[f] \subseteq Tasks
    BY DEF TypeOK
  <2>2. \A p \in Processes : <<p, "process">> \notin holders[f]
    BY DEF OwnershipInv, LockedInGuard
  <2> QED BY <2>1, <2>2 DEF Tasks
<1> QED BY <1>1, Ownership, PTL

\* A refusal is only returned while another task, or a guard of the caller,
\* holds the lock.
THEOREM RefusalsJustified == SafeSpec => RefusalIsJustified
<1> DEFINE A == \A p \in Processes :
             outcome[p] # "refused" /\ outcome'[p] = "refused" =>
               \E f \in locked : holders[f] \ {<<p, "process">>} # {}
                                 \/ f \in guards[p]
<1>1. TypeOK /\ OwnershipInv /\ [Next]_vars => [A]_vars
  <2> SUFFICES ASSUME TypeOK, OwnershipInv, Next,
                      NEW p \in Processes,
                      outcome[p] # "refused", outcome'[p] = "refused"
               PROVE  \E f \in locked : holders[f] \ {<<p, "process">>} # {}
                                        \/ f \in guards[p]
    OBVIOUS
  <2>1. FlockRefused(p)
    <3>1. PICK q \in Processes :
            \/ AcquireError(q) \/ Open(q)
            \/ FlockSucceeds(q) \/ FlockRefused(q) \/ FlockError(q)
            \/ \E f \in Files : DropGuard(q, f)
            \/ Start(q) \/ Die(q) \/ Fork(q) \/ ExecOrExit(q)
      BY DEF Next
    <3>2. FlockRefused(q)
      BY <3>1 DEF AcquireError, Open, FlockSucceeds, FlockError, DropGuard,
                  Start, Die, Fork, ExecOrExit, TypeOK
    <3>3. q = p
      BY <3>2 DEF FlockRefused, TypeOK
    <3> QED BY <3>2, <3>3
  <2>2. PICK f \in locked : f # opened[p]
    BY <2>1 DEF FlockRefused, Conflict
  <2>3. holders[f] # {}
    BY DEF TypeOK
  <2> QED BY <2>2, <2>3 DEF OwnershipInv, LockedInGuard
<1> QED BY <1>1, Ownership, PTL DEF SafeSpec, RefusalIsJustified

(***************************************************************************)
(* The refinement of SingleOwner.                                          *)
(***************************************************************************)

\* The descriptors of one file are a process's and its child's, and a dead
\* process has no guard.
OneFamily == \A f \in Files : \A t, u \in holders[f] : t[1] = u[1]

DeadOwnNothing == \A p \in Processes \ alive : guards[p] = {}

Lineage == OneFamily /\ DeadOwnNothing

LEMMA LineageStep == TypeOK /\ Lineage /\ [Next]_vars => Lineage'
<1> SUFFICES ASSUME TypeOK, Lineage, [Next]_vars PROVE Lineage'
  OBVIOUS
<1>1. ASSUME NEW fs, NEW gone, Close(fs, gone) PROVE OneFamily'
  <2>1. \A f \in Files : holders'[f] \subseteq holders[f]
    BY <1>1, CloseFacts
  <2> QED BY <2>1 DEF Lineage, OneFamily
<1>2. ASSUME UNCHANGED holders PROVE OneFamily'
  BY <1>2 DEF Lineage, OneFamily
<1>3. ASSUME NEW p \in Processes,
             \/ AcquireError(p) \/ FlockRefused(p) \/ FlockError(p) \/ Start(p)
             \/ ExecOrExit(p) \/ UNCHANGED vars
      PROVE  Lineage'
  <2>1. OneFamily'
    BY <1>1, <1>2, <1>3
    DEF AcquireError, FlockRefused, FlockError, Start, ExecOrExit, vars, kernelVars
  <2>2. UNCHANGED guards /\ alive \subseteq alive'
    BY <1>3 DEF AcquireError, FlockRefused, FlockError, Start, ExecOrExit, vars
  <2> QED BY <2>1, <2>2 DEF Lineage, DeadOwnNothing
<1>4. ASSUME NEW p \in Processes, Open(p) PROVE Lineage'
  <2>1. \E f \in Files : holders' = [holders EXCEPT ![f] = {<<p, "process">>}]
    BY <1>4 DEF Open
  <2>2. OneFamily'
    BY <2>1 DEF Lineage, OneFamily, TypeOK
  <2>3. UNCHANGED <<guards, alive>>
    BY <1>4 DEF Open
  <2> QED BY <2>2, <2>3 DEF Lineage, DeadOwnNothing
<1>5. ASSUME NEW p \in Processes, FlockSucceeds(p) PROVE Lineage'
  <2>1. /\ UNCHANGED <<holders, alive>> /\ p \in alive
        /\ guards' = [guards EXCEPT ![p] = @ \cup {opened[p]}]
    BY <1>5 DEF FlockSucceeds
  <2> QED BY <1>2, <2>1 DEF Lineage, DeadOwnNothing, TypeOK
<1>6. ASSUME NEW p \in Processes, NEW f \in Files, DropGuard(p, f)
      PROVE  Lineage'
  <2>1. /\ Close({f}, {<<p, "process">>}) /\ UNCHANGED alive /\ p \in alive
        /\ guards' = [guards EXCEPT ![p] = @ \ {f}]
    BY <1>6 DEF DropGuard
  <2> QED BY <1>1, <2>1 DEF Lineage, DeadOwnNothing, TypeOK
<1>7. ASSUME NEW p \in Processes, Die(p) PROVE Lineage'
  <2>1. /\ Close(Files, {<<p, "process">>}) /\ alive' = alive \ {p}
        /\ guards' = [guards EXCEPT ![p] = {}]
    BY <1>7 DEF Die
  <2> QED BY <1>1, <2>1 DEF Lineage, DeadOwnNothing, TypeOK
<1>8. ASSUME NEW p \in Processes, Fork(p) PROVE Lineage'
  <2>1. /\ UNCHANGED <<guards, alive>>
        /\ \A f \in Files :
             holders'[f] = IF <<p, "process">> \in holders[f]
                           THEN holders[f] \cup {<<p, "child">>} ELSE holders[f]
    BY <1>8 DEF Fork
  <2>2. OneFamily'
    <3> SUFFICES ASSUME NEW f \in Files, NEW t \in holders'[f], NEW u \in holders'[f]
                 PROVE  t[1] = u[1]
      BY DEF OneFamily
    <3>1. \A x \in holders'[f] : \E y \in holders[f] : y[1] = x[1]
      <4> SUFFICES ASSUME NEW x \in holders'[f]
                   PROVE  \E y \in holders[f] : y[1] = x[1]
        OBVIOUS
      <4>1. CASE x \in holders[f]
        BY <4>1
      <4>2. CASE x \notin holders[f]
        <5>1. <<p, "process">> \in holders[f] /\ x = <<p, "child">>
          BY <2>1, <4>2
        <5> QED BY <5>1
      <4> QED BY <4>1, <4>2
    <3>2. PICK v \in holders[f], w \in holders[f] : v[1] = t[1] /\ w[1] = u[1]
      BY <3>1
    <3> QED BY <3>2 DEF Lineage, OneFamily
  <2> QED BY <2>1, <2>2 DEF Lineage, DeadOwnNothing
<1>9. CASE Next
  BY <1>3, <1>4, <1>5, <1>6, <1>7, <1>8, <1>9 DEF Next
<1>10. CASE UNCHANGED vars
  BY <1>2, <1>10 DEF vars, Lineage, DeadOwnNothing
<1> QED BY <1>9, <1>10

\* A process that closes descriptors takes nothing from the children.
LEMMA HeirsKept ==
  ASSUME TypeOK, NEW fs, NEW p \in Processes, Close(fs, {<<p, "process">>})
  PROVE  Heirs' = Heirs
<1>1. \A q \in Processes, f \in Files :
        <<q, "child">> \in holders'[f] <=> <<q, "child">> \in holders[f]
  BY CloseFacts
<1>2. locked \subseteq Files /\ locked' \subseteq locked
  BY CloseFacts DEF TypeOK
<1>3. \A q \in Processes, f \in locked : <<q, "child">> \in holders[f] => f \in locked'
  BY <1>1, <1>2, CloseFacts
<1> QED BY <1>1, <1>2, <1>3 DEF Heirs

\* A lock is in a guard or with an heir, so the name is taken.
LEMMA LockTakes ==
  ASSUME TypeOK, OwnershipInv, NEW f \in locked
  PROVE  Owner!IsTaken
<1>1. PICK t \in holders[f] : t \in Tasks
  BY DEF TypeOK
<1>2. PICK p \in Processes : t = <<p, "process">> \/ t = <<p, "child">>
  BY <1>1 DEF Tasks
<1>3. CASE t = <<p, "process">>
  BY <1>1, <1>3 DEF OwnershipInv, LockedInGuard, Owner!IsTaken
<1>4. CASE t = <<p, "child">>
  <2>1. p \in Heirs
    BY <1>1, <1>4 DEF Heirs
  <2> QED BY <2>1 DEF Owner!IsTaken
<1> QED BY <1>2, <1>3, <1>4

\* Every step is one of SingleOwner's or leaves guards, heirs and answers alone.
LEMMA OwnerStep ==
  TypeOK /\ OwnershipInv /\ Lineage /\ [Next]_vars
    => [Owner!Next]_(Owner!ownerVars)
<1> SUFFICES ASSUME TypeOK, OwnershipInv, Lineage, [Next]_vars
             PROVE  [Owner!Next]_(Owner!ownerVars)
  OBVIOUS
<1>1. ASSUME UNCHANGED <<holders, locked>> PROVE Heirs' = Heirs
  BY <1>1 DEF Heirs
<1>2. ASSUME NEW p \in Processes, AcquireError(p) PROVE Owner!Next
  <2>1. Owner!Fail(p)
    BY <1>1, <1>2 DEF AcquireError, kernelVars, Owner!Fail
  <2> QED BY <2>1 DEF Owner!Next
<1>3. ASSUME NEW p \in Processes, Open(p) PROVE UNCHANGED Owner!ownerVars
  <2>1. PICK f \in Files : /\ inodeOf[f] = None
                          /\ holders' = [holders EXCEPT ![f] = {<<p, "process">>}]
    BY <1>3 DEF Open
  <2>2. f \notin locked /\ \A g \in locked : holders'[g] = holders[g]
    BY <2>1 DEF TypeOK
  <2>3. UNCHANGED <<locked, guards, outcome>>
    BY <1>3 DEF Open
  <2> QED BY <2>2, <2>3 DEF Owner!ownerVars, Heirs
<1>4. ASSUME NEW p \in Processes, FlockSucceeds(p) PROVE Owner!Next
  <2>1. PICK f \in Files : f = opened[p]
    BY <1>4 DEF FlockSucceeds, TypeOK
  <2>2. /\ locked' = {f} /\ UNCHANGED holders
        /\ guards' = [guards EXCEPT ![p] = @ \cup {f}]
        /\ outcome' = [outcome EXCEPT ![p] = "owner"]
    BY <1>4, <2>1, NobodyLocks DEF FlockSucceeds
  <2>3. Heirs = {} /\ \A q \in Processes : guards[q] = {}
    BY <1>4, NobodyLocks DEF Heirs, OwnershipInv, GuardOwns
  <2>4. guards' = [guards EXCEPT ![p] = {f}]
    BY <2>2, <2>3 DEF TypeOK
  <2>5. Heirs' \in {{}, {p}}
    <3>1. <<p, "process">> \in holders[f]
      BY <1>4, <2>1 DEF FlockSucceeds, OwnershipInv, OpenedUnlocked
    <3>2. \A q \in Processes : <<q, "child">> \in holders[f] => q = p
      BY <3>1 DEF Lineage, OneFamily
    <3>3. Heirs' \subseteq {p}
      BY <2>2, <3>2 DEF Heirs
    <3> QED BY <3>3
  <2>6. Owner!Acquire(p)
    BY <2>2, <2>3, <2>4, <2>5 DEF Owner!Acquire, Owner!IsTaken
  <2> QED BY <2>6 DEF Owner!Next
<1>5. ASSUME NEW p \in Processes, FlockRefused(p) PROVE Owner!Next
  <2>1. /\ Close({opened[p]}, {<<p, "process">>}) /\ UNCHANGED guards
        /\ outcome' = [outcome EXCEPT ![p] = "refused"] /\ Conflict(opened[p])
    BY <1>5 DEF FlockRefused
  <2>2. Owner!IsTaken
    BY <2>1, LockTakes DEF Conflict
  <2>3. Owner!Refuse(p)
    BY <2>1, <2>2, HeirsKept DEF Owner!Refuse
  <2> QED BY <2>3 DEF Owner!Next
<1>6. ASSUME NEW p \in Processes, FlockError(p) PROVE Owner!Next
  <2>1. /\ Close({opened[p]}, {<<p, "process">>}) /\ UNCHANGED guards
        /\ outcome' = [outcome EXCEPT ![p] = "error"]
    BY <1>6 DEF FlockError
  <2>2. Owner!Fail(p)
    BY <2>1, HeirsKept DEF Owner!Fail
  <2> QED BY <2>2 DEF Owner!Next
<1>7. ASSUME NEW p \in Processes, NEW f \in Files, DropGuard(p, f)
      PROVE  Owner!Next
  <2>1. /\ Close({f}, {<<p, "process">>}) /\ f \in guards[p]
        /\ guards' = [guards EXCEPT ![p] = @ \ {f}] /\ UNCHANGED outcome
    BY <1>7 DEF DropGuard
  <2>2. guards[p] = {f}
    BY <2>1 DEF OwnershipInv, OneLock, GuardOwns
  <2>3. guards' = [guards EXCEPT ![p] = {}]
    BY <2>1, <2>2
  <2>4. Owner!Release(p)
    BY <2>1, <2>3, HeirsKept DEF Owner!Release
  <2> QED BY <2>4 DEF Owner!Next
<1>8. ASSUME NEW p \in Processes, Start(p) PROVE Owner!Next
  <2>1. Owner!Restart(p)
    BY <1>1, <1>8 DEF Start, kernelVars, Owner!Restart, Lineage, DeadOwnNothing
  <2> QED BY <2>1 DEF Owner!Next
<1>9. ASSUME NEW p \in Processes, Die(p) PROVE Owner!Next
  <2>1. /\ Close(Files, {<<p, "process">>}) /\ UNCHANGED outcome
        /\ guards' = [guards EXCEPT ![p] = {}]
    BY <1>9 DEF Die
  <2>2. Owner!Release(p)
    BY <2>1, HeirsKept DEF Owner!Release
  <2> QED BY <2>2 DEF Owner!Next
<1>10. ASSUME NEW p \in Processes, Fork(p) PROVE [Owner!Next]_(Owner!ownerVars)
  <2>1. /\ UNCHANGED <<locked, guards, outcome>>
        /\ \A f \in Files :
             holders'[f] = IF <<p, "process">> \in holders[f]
                           THEN holders[f] \cup {<<p, "child">>} ELSE holders[f]
    BY <1>10 DEF Fork
  <2>2. locked \subseteq Files
    BY DEF TypeOK
  <2>3. CASE \E f \in locked : <<p, "process">> \in holders[f]
    <3>1. guards[p] # {}
      BY <2>3 DEF OwnershipInv, LockedInGuard
    <3>2. Heirs' = Heirs \cup {p}
      <4>1. p \in Heirs'
        BY <2>1, <2>2, <2>3 DEF Heirs
      <4>2. \A q \in Processes \ {p}, f \in locked :
              <<q, "child">> \in holders'[f] <=> <<q, "child">> \in holders[f]
        <5> SUFFICES ASSUME NEW q \in Processes \ {p}, NEW f \in locked
                     PROVE  <<q, "child">> \in holders'[f]
                              <=> <<q, "child">> \in holders[f]
          OBVIOUS
        <5>1. f \in Files /\ <<q, "child">> # <<p, "child">>
          BY <2>2
        <5> QED BY <2>1, <5>1
      <4>3. \A q \in Processes \ {p} : q \in Heirs' <=> q \in Heirs
        BY <2>1, <4>2 DEF Heirs
      <4>4. Heirs \subseteq Processes /\ Heirs' \subseteq Processes
        BY DEF Heirs
      <4> QED BY <4>1, <4>3, <4>4
    <3>3. Owner!Share(p)
      BY <2>1, <3>1, <3>2 DEF Owner!Share
    <3> QED BY <3>3 DEF Owner!Next
  <2>4. CASE \A f \in locked : <<p, "process">> \notin holders[f]
    <3>1. \A f \in locked : holders'[f] = holders[f]
      BY <2>1, <2>2, <2>4
    <3>2. Heirs' = Heirs
      BY <2>1, <3>1 DEF Heirs
    <3> QED BY <2>1, <3>2 DEF Owner!ownerVars
  <2> QED BY <2>3, <2>4
<1>11. ASSUME NEW p \in Processes, ExecOrExit(p) PROVE Owner!Next
  <2>1. Close(Files, {<<p, "child">>}) /\ UNCHANGED <<guards, outcome>>
    BY <1>11 DEF ExecOrExit
  <2>2. /\ locked \subseteq Files /\ locked' \subseteq locked
        /\ \A f \in Files : holders'[f] = holders[f] \ {<<p, "child">>}
    BY <2>1, CloseFacts DEF TypeOK
  <2>3. p \notin Heirs'
    BY <2>2 DEF Heirs
  <2>4. \A q \in Processes \ {p} : q \in Heirs' <=> q \in Heirs
    <3>1. \A q \in Processes \ {p}, f \in locked :
            <<q, "child">> \in holders'[f] <=> <<q, "child">> \in holders[f]
      BY <2>2
    <3>2. \A f \in locked : holders'[f] # {} => f \in locked'
      BY <2>1, CloseFacts
    <3> QED BY <2>2, <3>1, <3>2 DEF Heirs
  <2>5. Heirs \subseteq Processes /\ Heirs' \subseteq Processes
    BY DEF Heirs
  <2>6. Heirs' = Heirs \ {p}
    BY <2>3, <2>4, <2>5
  <2>7. Owner!Disinherit(p)
    BY <2>1, <2>6 DEF Owner!Disinherit
  <2> QED BY <2>7 DEF Owner!Next
<1>12. CASE UNCHANGED vars
  BY <1>1, <1>12 DEF vars, Owner!ownerVars
<1> QED
  BY <1>2, <1>3, <1>4, <1>5, <1>6, <1>7, <1>8, <1>9, <1>10, <1>11, <1>12 DEF Next

\* With open, flock, fork, exec and death as they are, the crate gives out a
\* name as SingleOwner does: ImplementsOwnership.
THEOREM RefinesOwnership == SafeSpec => ImplementsOwnership
<1>1. Init => Lineage /\ Owner!Init
  BY DEF Init, Lineage, OneFamily, DeadOwnNothing, Owner!Init, Heirs
<1>2. TypeOK /\ Lineage /\ [Next]_vars => Lineage'
  BY LineageStep
<1>3. TypeOK /\ OwnershipInv /\ Lineage /\ [Next]_vars
        => [Owner!Next]_(Owner!ownerVars)
  BY OwnerStep
<1> QED BY <1>1, <1>2, <1>3, Ownership, PTL
        DEF SafeSpec, ImplementsOwnership, Owner!Spec
=============================================================================
