---------------------------- MODULE HyprDiscovery ---------------------------
(***************************************************************************)
(* hypr-ipc: instance_dir and connect_socket2, called again and again by a *)
(* consumer that reconnects, while compositors start, crash and exit.      *)
(* Discovery is a sequence of separate reads of the environment, the file  *)
(* system and /proc; each is a step, so anything may change between two    *)
(* of them.                                                                *)
(*                                                                         *)
(* Any of the reads may fail although what it reads is there (no file      *)
(* descriptor left, say); the code takes that for absence.                 *)
(*                                                                         *)
(* Compositors are modelled by what discovery reads of them: a directory,  *)
(* the pid in its hyprland.lock, a .socket2.sock.  An instance has one     *)
(* life (its signature is unique); a crash leaves its files behind.        *)
(***************************************************************************)
EXTENDS FiniteSets, XdgPaths

CONSTANTS
  Instances,   \* instance signatures
  Pids,        \* process ids
  Environments, \* what the consumer may be started with; an absolute
               \* XDG_RUNTIME_DIR is the one compositors run under
  His,         \* HYPRLAND_INSTANCE_SIGNATURE of the consumer, or None
  PidsRecycle, \* may the kernel reuse a pid that a stale lock still names?
  None         \* no instance, no pid

ASSUME DiscoveryAssumption ==
  /\ Environments \subseteq Environment
  /\ None \notin Instances \cup Pids
  /\ His \in Instances \cup {None}
  /\ PidsRecycle \in BOOLEAN

VARIABLES
  \* the compositors and their files
  born,      \* instances whose compositor has been started
  pidOf,     \* instance -> the pid of its living compositor, or None
  dirs,      \* directories under $XDG_RUNTIME_DIR/hypr
  lock,      \* instance -> the pid in its lock file, None if unreadable
  socket2,   \* instances whose .socket2.sock exists
  \* the consumer
  env,       \* its environment
  at,        \* where it is in resolving, connecting and reconnecting
  listed,    \* directory entries read_dir will return in any case
  visited,   \* those the scan has taken
  entry,     \* the instance under test, then the one resolved
  readPid,   \* the pid read from its lock file
  \* history of the resolution under way, for the properties only
  steady,    \* instances connectable ever since it began, none of whose reads
             \* has failed
  seenLive   \* instances that were alive at some moment of it

worldVars == <<born, pidOf, dirs, lock, socket2>>
clientVars == <<env, at, listed, visited, entry, readPid>>
history == <<steady, seenLive>>
vars == <<worldVars, clientVars, history>>

Alive == {i \in Instances : pidOf[i] # None}
Connectable == {i \in Alive : lock[i] = pidOf[i] /\ i \in socket2}

TypeOK ==
  /\ born \subseteq Instances
  /\ pidOf \in [Instances -> Pids \cup {None}]
  /\ dirs \subseteq born
  /\ lock \in [Instances -> Pids \cup {None}]
  /\ socket2 \subseteq dirs
  /\ env \in Environments
  /\ at \in {"env", "his", "list", "scan", "comm", "socket", "connect",
             "nopaths", "absent", "refused", "connected"}
  /\ listed \subseteq Instances
  /\ visited \subseteq Instances
  /\ entry \in Instances \cup {None}
  /\ at \in {"comm", "socket", "connect", "connected"} => entry # None
  /\ readPid \in Pids \cup {None}
  /\ at \in {"comm", "socket"} => readPid # None
  /\ steady \subseteq seenLive
  /\ seenLive \subseteq Instances

Init ==
  /\ born = {} /\ dirs = {} /\ socket2 = {}
  /\ pidOf = [i \in Instances |-> None]
  /\ lock = [i \in Instances |-> None]
  /\ env \in Environments
  /\ at = "env" /\ listed = {} /\ visited = {}
  /\ entry = None /\ readPid = None
  /\ steady = {} /\ seenLive = {}

(***************************************************************************)
(* Compositors.                                                            *)
(***************************************************************************)
Witness ==
  /\ steady' = steady \cap Connectable'
  /\ seenLive' = seenLive \cup Alive'

Start(i) ==
  /\ i \notin born
  /\ \E p \in Pids :
       /\ \A j \in Instances : pidOf[j] # p
       /\ PidsRecycle \/ \A j \in Instances : lock[j] # p
       /\ pidOf' = [pidOf EXCEPT ![i] = p]
  /\ born' = born \cup {i}
  /\ dirs' = dirs \cup {i}
  /\ UNCHANGED <<lock, socket2, clientVars>>
  /\ Witness

WriteLock(i) ==
  /\ i \in Alive
  /\ lock' = [lock EXCEPT ![i] = pidOf[i]]
  /\ UNCHANGED <<born, pidOf, dirs, socket2, clientVars>>
  /\ Witness

BindSocket(i) ==
  /\ i \in Alive
  /\ socket2' = socket2 \cup {i}
  /\ UNCHANGED <<born, pidOf, dirs, lock, clientVars>>
  /\ Witness

\* Killed: the files stay.
Crash(i) ==
  /\ i \in Alive
  /\ pidOf' = [pidOf EXCEPT ![i] = None]
  /\ UNCHANGED <<born, dirs, lock, socket2, clientVars>>
  /\ Witness

\* A clean exit removes them.
Exit(i) ==
  /\ i \in Alive
  /\ pidOf' = [pidOf EXCEPT ![i] = None]
  /\ dirs' = dirs \ {i}
  /\ lock' = [lock EXCEPT ![i] = None]
  /\ socket2' = socket2 \ {i}
  /\ UNCHANGED <<born, clientVars>>
  /\ Witness

(***************************************************************************)
(* instance_dir and instance_dir_from_with.                                *)
(***************************************************************************)
Quiet == UNCHANGED <<worldVars, history>>

\* BaseDirs::from_env: without all base directories there is no discovery.
ReadEnv ==
  /\ at = "env"
  /\ at' = IF BaseDirs(env) \in Error THEN "nopaths" ELSE "his"
  /\ UNCHANGED <<env, listed, visited, entry, readPid>>
  /\ Quiet

\* Faulty variant: the environment variable is not consulted.
IgnoreHis ==
  /\ at = "his"
  /\ at' = "list"
  /\ UNCHANGED <<env, listed, visited, entry, readPid>>
  /\ Quiet

\* HIS wins if its socket file exists; nothing is asked about its compositor.
CheckHis ==
  /\ at = "his"
  /\ IF His \in socket2 THEN at' = "connect" /\ entry' = His
                        ELSE at' = "list" /\ UNCHANGED entry
  /\ UNCHANGED <<env, listed, visited, readPid>>
  /\ Quiet

\* read_dir; a missing hypr directory lists nothing and ends in the same
\* NoInstance.
ReadDir ==
  /\ at = "list"
  /\ at' = "scan"
  /\ listed' = dirs
  /\ visited' = {}
  /\ UNCHANGED <<env, entry, readPid>>
  /\ Quiet

\* Faulty variant: an unreadable lock file counts as a pid.
ReadLockUnchecked ==
  /\ at = "scan"
  /\ \E i \in (listed \cup dirs) \ visited :
       /\ visited' = visited \cup {i}
       /\ entry' = i
       /\ readPid' = lock[i]
       /\ at' = "comm"
  /\ UNCHANGED <<env, listed>>
  /\ Quiet

\* The next entry, in the directory's own order; one created after read_dir
\* may or may not turn up.  Without a pid in its lock file it is passed over.
ReadLock ==
  /\ at = "scan"
  /\ \E i \in (listed \cup dirs) \ visited :
       /\ visited' = visited \cup {i}
       /\ entry' = i
       /\ readPid' = lock[i]
       /\ at' = IF lock[i] = None THEN "scan" ELSE "comm"
  /\ UNCHANGED <<env, listed>>
  /\ Quiet

\* Faulty variant: the pid is believed.
BelievePid ==
  /\ at = "comm"
  /\ at' = "socket"
  /\ UNCHANGED <<env, listed, visited, entry, readPid>>
  /\ Quiet

\* Faulty variant: the first dead pid ends the scan.
DeadPidEndsScan ==
  /\ at = "comm"
  /\ at' = IF \E i \in Alive : pidOf[i] = readPid THEN "socket" ELSE "absent"
  /\ UNCHANGED <<env, listed, visited, entry, readPid>>
  /\ Quiet

\* is_live: /proc/<pid>/comm is Hyprland.
CheckComm ==
  /\ at = "comm"
  /\ at' = IF \E i \in Alive : pidOf[i] = readPid THEN "socket" ELSE "scan"
  /\ UNCHANGED <<env, listed, visited, entry, readPid>>
  /\ Quiet

CheckSocket ==
  /\ at = "socket"
  /\ at' = IF entry \in socket2 THEN "connect" ELSE "scan"
  /\ UNCHANGED <<env, listed, visited, entry, readPid>>
  /\ Quiet

EndOfDir ==
  /\ at = "scan"
  /\ listed \subseteq visited
  /\ at' = "absent"
  /\ UNCHANGED <<env, listed, visited, entry, readPid>>
  /\ Quiet

(***************************************************************************)
(* connect_socket2 and the consumer around it.                             *)
(***************************************************************************)

\* A socket nobody listens on refuses, a removed one does not open.
Connect ==
  /\ at = "connect"
  /\ at' = IF entry \in socket2 \cap Alive THEN "connected" ELSE "refused"
  /\ UNCHANGED <<env, listed, visited, entry, readPid>>
  /\ Quiet

\* The stream ends with its compositor.
StreamEnds ==
  /\ at = "connected"
  /\ entry \notin Alive
  /\ at' = "refused"
  /\ UNCHANGED <<env, listed, visited, entry, readPid>>
  /\ Quiet

\* Faulty variant: a refused consumer tries the same path again.
RetrySamePath ==
  /\ at \in {"nopaths", "absent", "refused"}
  /\ at' = IF at = "refused" THEN "connect" ELSE "env"
  /\ UNCHANGED <<worldVars, env, listed, visited, entry, readPid>>
  /\ steady' = Connectable
  /\ seenLive' = Alive

\* After the backoff the consumer resolves anew.
Retry ==
  /\ at \in {"nopaths", "absent", "refused"}
  /\ at' = "env"
  /\ listed' = {} /\ visited' = {} /\ entry' = None /\ readPid' = None
  /\ UNCHANGED <<worldVars, env>>
  /\ steady' = Connectable
  /\ seenLive' = Alive

(***************************************************************************)
(* Reads that fail although what they read is there.  What is overlooked   *)
(* is one instance, or all of them when it is the directory's listing.     *)
(***************************************************************************)
Overlook(missed) ==
  /\ steady' = steady \ missed
  /\ UNCHANGED <<worldVars, env, listed, seenLive>>

HisFails ==
  /\ at = "his"
  /\ His \in socket2
  /\ at' = "list"
  /\ Overlook({His})
  /\ UNCHANGED <<visited, entry, readPid>>

ReadDirFails ==
  /\ at = "list"
  /\ at' = "absent"
  /\ Overlook(Instances)
  /\ UNCHANGED <<visited, entry, readPid>>

\* The directory entry, or its lock file.
LockFails ==
  /\ at = "scan"
  /\ \E i \in (listed \cup dirs) \ visited :
       /\ lock[i] # None
       /\ visited' = visited \cup {i}
       /\ entry' = i
       /\ Overlook({i})
  /\ readPid' = None
  /\ UNCHANGED at

CommFails ==
  /\ at = "comm"
  /\ \E i \in Alive : pidOf[i] = readPid
  /\ at' = "scan"
  /\ Overlook({entry})
  /\ UNCHANGED <<visited, entry, readPid>>

SocketFails ==
  /\ at = "socket"
  /\ entry \in socket2
  /\ at' = "scan"
  /\ Overlook({entry})
  /\ UNCHANGED <<visited, entry, readPid>>

ConnectFails ==
  /\ at = "connect"
  /\ entry \in socket2 \cap Alive
  /\ at' = "refused"
  /\ Overlook({entry})
  /\ UNCHANGED <<visited, entry, readPid>>

ReadFails ==
  \/ HisFails \/ ReadDirFails \/ LockFails \/ CommFails \/ SocketFails
  \/ ConnectFails

World ==
  \E i \in Instances :
    Start(i) \/ WriteLock(i) \/ BindSocket(i) \/ Crash(i) \/ Exit(i)

Client ==
  \/ ReadEnv \/ CheckHis \/ ReadDir \/ ReadLock \/ CheckComm \/ CheckSocket
  \/ EndOfDir \/ Connect \/ StreamEnds \/ Retry

Next == World \/ Client \/ ReadFails

\* The consumer runs on; no compositor has to start, to finish starting or
\* to die.
Fairness == WF_vars(Client)

SafeSpec == Init /\ [][Next]_vars
Spec == SafeSpec /\ Fairness

(***************************************************************************)
(* Properties.                                                             *)
(***************************************************************************)

\* NoInstance is never answered while an instance could have been connected
\* to ever since the resolution began, whatever came and went beside it, and
\* whichever reads of other instances failed.
NoFalseAbsence == at = "absent" => steady = {}

\* A path the scan resolved belongs to a compositor that lived at some moment
\* of the scan: a crashed instance's lock and socket files never lead there.
\* It needs the kernel not to give the crashed one's pid to another Hyprland.
ScanFindsLive ==
  at = "connect" /\ ~(entry = His /\ visited = {}) => entry \in seenLive

\* The consumer's own session wins: while the instance the environment names
\* is there and its socket file can be seen, no other one is resolved, however
\* many run.
HisWins == at = "connect" /\ His \in steady => entry = His

\* xdg-paths fails closed: discovery goes on exactly with directories that are
\* absolute and where the environment says, none of them made up; otherwise the
\* consumer is told a variable that is at fault.
FailsClosed ==
  LET base == BaseDirs(env) IN
    /\ at = "nopaths" => ~Sound(env) /\ AtFault(base, env)
    /\ at \notin {"env", "nopaths"} =>
         /\ Sound(env)
         /\ Justified(base.config, env.XDG_CONFIG_HOME, env.HOME, ".config")
         /\ Justified(base.data, env.XDG_DATA_HOME, env.HOME, ".local/share")
         /\ base.runtime = [base |-> env.XDG_RUNTIME_DIR, below |-> ""]

\* The consumer ends up connected and stays so as long as some compositor stays
\* connectable, whatever crashed instances left behind and whatever reads failed
\* before they stopped to - provided its environment is sound and the socket of
\* the instance it names, if there is one, is a live one's.
Reconnects ==
  /\ Sound(env)
  /\ <>[](Connectable # {})
  /\ <>[](His \in socket2 => His \in Alive)
  /\ <>[][~ReadFails]_vars
  => <>[](at = "connected")

\* "Don't retry a dead endpoint forever; re-resolve it" (docs/PRINCIPLES.md):
\* while a connectable compositor remains and can be read, the consumer stops
\* connecting to one that is dead for good.
DeadEndpointAbandoned ==
  <>[](Connectable # {}) /\ <>[][~ReadFails]_vars =>
    \A i \in Instances : <>[](i \notin Alive) => <>[](at = "connect" => entry # i)
=============================================================================
