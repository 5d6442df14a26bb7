------------------------ MODULE HyprDiscovery_proofs ------------------------
(***************************************************************************)
(* Theorems about the directories of xdg-paths, for every environment, and *)
(* about HyprDiscovery, for any number of instances and pids.              *)
(***************************************************************************)
EXTENDS HyprDiscovery, TLAPS

(***************************************************************************)
(* xdg-paths.                                                              *)
(***************************************************************************)

\* One directory: an absolute path where the user said, or an error about a
\* variable that is at fault.
LEMMA FallbackIsJustified ==
  ASSUME NEW given \in Environment, ~HomeRefused(given.HOME),
         NEW var \in {"XDG_CONFIG_HOME", "XDG_DATA_HOME", "XDG_CACHE_HOME"},
         NEW fallback \in {".config", ".local/share", ".cache"}
  PROVE  LET r == XdgOrFallback(var, given[var], given.HOME, fallback) IN
           \/ r \in Path /\ Justified(r, given[var], given.HOME, fallback)
              /\ r \notin Error
           \/ r \in Error /\ AtFault(r, given)
<1>1. given[var] \in Values /\ given.HOME \in Values
  BY DEF Environment
<1>2. \A r \in Path : r \notin Error
  BY DEF Path, Error
<1>3. CASE given[var] = "unset" /\ given.HOME = "unset"
  BY <1>3, AbsoluteAssumption
  DEF XdgOrFallback, MissingHome, Fail, Error, AtFault
<1>4. CASE given[var] = "unset" /\ given.HOME # "unset"
  <2>1. given.HOME \in Absolute
    BY <1>1, <1>4 DEF HomeRefused, Values
  <2> QED BY <1>2, <1>4, <2>1 DEF XdgOrFallback, Path, Justified
<1>5. CASE given[var] = "empty"
  BY <1>5 DEF XdgOrFallback, Fail, Error, AtFault
<1>6. CASE given[var] = "relative"
  BY <1>6 DEF XdgOrFallback, Fail, Error, AtFault
<1>7. CASE given[var] \in Absolute
  <2>1. given[var] \notin {"unset", "empty", "relative"}
    BY <1>7, AbsoluteAssumption
  <2> QED BY <1>2, <1>7, <2>1 DEF XdgOrFallback, Path, Justified
<1> QED BY <1>1, <1>3, <1>4, <1>5, <1>6, <1>7 DEF Values

\* ConfigDirs succeeds or fails as a whole.
LEMMA ConfigIsJustified ==
  ASSUME NEW given \in Environment
  PROVE  LET r == ConfigDirs(given) IN
           \/ /\ r \in Error /\ AtFault(r, given)
              /\ ~Sound(given)
           \/ /\ ~HomeRefused(given.HOME)
              /\ r \notin Error
              /\ Justified(r.config, given.XDG_CONFIG_HOME, given.HOME, ".config")
              /\ Justified(r.data, given.XDG_DATA_HOME, given.HOME, ".local/share")
<1> DEFINE config == XdgOrFallback("XDG_CONFIG_HOME", given.XDG_CONFIG_HOME,
                                   given.HOME, ".config")
           data == XdgOrFallback("XDG_DATA_HOME", given.XDG_DATA_HOME, given.HOME,
                                 ".local/share")
<1>1. CASE HomeRefused(given.HOME)
  <2>1. ConfigDirs(given) = MissingHome
    BY <1>1 DEF ConfigDirs
  <2>2. MissingHome \in Error
    BY DEF MissingHome, Fail, Error
  <2>3. AtFault(MissingHome, given) /\ ~Sound(given)
    BY <1>1, AbsoluteAssumption
    DEF HomeRefused, MissingHome, Fail, AtFault, Sound
  <2> QED BY <2>1, <2>2, <2>3
<1>2. CASE ~HomeRefused(given.HOME)
  <2>1. \/ config \in Path /\ config \notin Error
           /\ Justified(config, given.XDG_CONFIG_HOME, given.HOME, ".config")
        \/ config \in Error /\ AtFault(config, given)
    BY <1>2, FallbackIsJustified
  <2>2. \/ data \in Path /\ data \notin Error
           /\ Justified(data, given.XDG_DATA_HOME, given.HOME, ".local/share")
        \/ data \in Error /\ AtFault(data, given)
    BY <1>2, FallbackIsJustified
  <2>3. config \in Error \/ data \in Error => ~Sound(given)
    <3>1. ASSUME Sound(given) PROVE config \notin Error /\ data \notin Error
      <4>1. given.HOME \notin {"empty", "relative"}
        BY <1>2 DEF HomeRefused
      <4>2. /\ given.XDG_CONFIG_HOME \notin {"empty", "relative"}
            /\ given.XDG_DATA_HOME \notin {"empty", "relative"}
            /\ given.XDG_CONFIG_HOME = "unset" => given.HOME # "unset"
            /\ given.XDG_DATA_HOME = "unset" => given.HOME # "unset"
        BY <3>1, AbsoluteAssumption DEF Sound
      <4>3. /\ \E b, c : config = [base |-> b, below |-> c]
            /\ \E b, c : data = [base |-> b, below |-> c]
        BY <4>2 DEF XdgOrFallback
      <4> HIDE DEF config, data
      <4> QED BY <4>3 DEF Error
    <3> QED BY <3>1
  <2>4. CASE config \in Error
    BY <1>2, <2>1, <2>3, <2>4 DEF ConfigDirs
  <2>5. CASE config \notin Error /\ data \in Error
    BY <1>2, <2>2, <2>3, <2>5 DEF ConfigDirs
  <2>6. CASE config \notin Error /\ data \notin Error
    <3>1. ConfigDirs(given) = [config |-> config, data |-> data]
      BY <1>2, <2>6 DEF ConfigDirs
    <3> HIDE DEF config, data
    <3>2. [config |-> config, data |-> data] \notin Error
      BY DEF Error
    <3> QED BY <1>2, <2>1, <2>2, <2>6, <3>1, <3>2
  <2> QED BY <2>4, <2>5, <2>6
<1> QED BY <1>1, <1>2

\* Base directories are absolute and where the user said, never invented; an
\* error is about a variable at fault; and there is an error exactly if the
\* environment is not sound, an unusable HOME nobody needs included.
THEOREM DirsAreJustified ==
  ASSUME NEW given \in Environment
  PROVE  LET r == BaseDirs(given) IN
           \/ r \in Error /\ AtFault(r, given) /\ ~Sound(given)
           \/ /\ r \notin Error /\ Sound(given)
              /\ Justified(r.config, given.XDG_CONFIG_HOME, given.HOME, ".config")
              /\ Justified(r.data, given.XDG_DATA_HOME, given.HOME, ".local/share")
              /\ given.XDG_RUNTIME_DIR \in Absolute
              /\ r.runtime = [base |-> given.XDG_RUNTIME_DIR, below |-> ""]
<1> DEFINE answer == ConfigDirs(given)
           value == given.XDG_RUNTIME_DIR
           runtime == RequiredAbsolute("XDG_RUNTIME_DIR", value)
<1>1. given.HOME \in Values /\ value \in Values
  BY DEF Environment
<1>2. CASE answer \in Error
  BY <1>2, ConfigIsJustified DEF BaseDirs
<1>3. CASE answer \notin Error /\ value \notin Absolute
  <2>1. runtime \in Error /\ AtFault(runtime, given)
    BY <1>1, <1>3 DEF Values, RequiredAbsolute, Fail, Error, AtFault
  <2>2. ~Sound(given)
    BY <1>3 DEF Sound
  <2> QED BY <1>3, <2>1, <2>2 DEF BaseDirs
<1>4. CASE answer \notin Error /\ value \in Absolute
  <2>1. runtime = [base |-> value, below |-> ""]
    BY <1>4, AbsoluteAssumption DEF RequiredAbsolute
  <2>2. runtime \notin Error
    BY <2>1 DEF Error
  <2>3. BaseDirs(given) = [config |-> answer.config, data |-> answer.data,
                         runtime |-> runtime]
    BY <1>4, <2>2 DEF BaseDirs
  <2>4. ~HomeRefused(given.HOME)
        /\ Justified(answer.config, given.XDG_CONFIG_HOME, given.HOME, ".config")
        /\ Justified(answer.data, given.XDG_DATA_HOME, given.HOME, ".local/share")
    BY <1>4, ConfigIsJustified
  <2>5. Sound(given)
    <3>1. given.HOME \in Absolute \cup {"unset"}
      BY <1>1, <2>4 DEF HomeRefused, Values
    <3>2. given.HOME \in Absolute => given.HOME # "unset"
      BY AbsoluteAssumption
    <3>3. /\ \/ given.XDG_CONFIG_HOME \in Absolute
             \/ given.XDG_CONFIG_HOME = "unset" /\ given.HOME # "unset"
          /\ \/ given.XDG_DATA_HOME \in Absolute
             \/ given.XDG_DATA_HOME = "unset" /\ given.HOME # "unset"
      <4> HIDE DEF answer
      <4> QED BY <2>4, <3>2 DEF Justified
    <3> QED BY <1>4, <3>1, <3>3 DEF Sound
  <2> HIDE DEF answer, runtime
  <2>6. BaseDirs(given) \notin Error
    <3>1. "config" \in DOMAIN BaseDirs(given)
      BY <2>3
    <3>2. \A r \in Error : "config" \notin DOMAIN r
      BY DEF Error
    <3> QED BY <3>1, <3>2
  <2>7. /\ BaseDirs(given).config = answer.config /\ BaseDirs(given).data = answer.data
        /\ BaseDirs(given).runtime = runtime
    BY <2>3
  <2> QED BY <1>4, <2>1, <2>4, <2>5, <2>6, <2>7
<1> QED BY <1>2, <1>3, <1>4

\* The same of the cache directory.
THEOREM CacheIsJustified ==
  ASSUME NEW given \in Environment
  PROVE  LET r == CacheHome(given) IN
           \/ r \in Error /\ AtFault(r, given)
           \/ r \in Path /\ Justified(r, given.XDG_CACHE_HOME, given.HOME, ".cache")
<1>1. CASE HomeRefused(given.HOME)
  BY <1>1, AbsoluteAssumption
  DEF CacheHome, HomeRefused, MissingHome, Fail, Error, AtFault
<1>2. CASE ~HomeRefused(given.HOME)
  BY <1>2, FallbackIsJustified DEF CacheHome
<1> QED BY <1>1, <1>2

(***************************************************************************)
(* The scan.                                                               *)
(***************************************************************************)

\* What the properties need between the reads of a resolution: the history is
\* current, an entry that stays connectable passes every test to come, and
\* none that stays so is behind the scan.
Scanning == at \in {"scan", "comm", "socket"}

SteadyIsCurrent == steady \subseteq Connectable

SteadyIsAhead ==
  /\ Scanning \/ at = "absent" => steady \subseteq listed
  /\ at = "scan" => steady \cap visited = {}
  /\ at \in {"comm", "socket"} =>
       /\ steady \cap visited \subseteq {entry}
       /\ entry \in steady => readPid = lock[entry]
  /\ at = "absent" => steady = {}

\* A living compositor keeps its directory.
AliveHasDir == Alive \subseteq dirs

ScanInv == TypeOK /\ AliveHasDir /\ SteadyIsCurrent /\ SteadyIsAhead

\* Nothing is connectable before the first compositor starts.
LEMMA InitScan == Init => ScanInv
BY DEF Init, ScanInv, TypeOK, AliveHasDir, Alive, SteadyIsCurrent,
       SteadyIsAhead, Scanning

\* A step of a compositor only takes instances away from steady, and what it
\* does to the lock file of one that stays connectable is nothing.
LEMMA WorldStep == ScanInv /\ World => ScanInv'
<1> SUFFICES ASSUME ScanInv, NEW i \in Instances,
                    Start(i) \/ WriteLock(i) \/ BindSocket(i) \/ Crash(i)
                      \/ Exit(i)
             PROVE  ScanInv'
  BY DEF World
<1>1. Witness /\ UNCHANGED clientVars
  BY DEF Start, WriteLock, BindSocket, Crash, Exit
<1>2. /\ born' \subseteq Instances
      /\ pidOf' \in [Instances -> Pids \cup {None}]
      /\ dirs' \subseteq born'
      /\ lock' \in [Instances -> Pids \cup {None}]
      /\ socket2' \subseteq dirs'
  <2>1. CASE Start(i)
    BY <2>1 DEF Start, ScanInv, TypeOK
  <2>2. CASE WriteLock(i)
    BY <2>2 DEF WriteLock, ScanInv, TypeOK, Alive
  <2>3. CASE BindSocket(i)
    BY <2>3 DEF BindSocket, ScanInv, TypeOK, AliveHasDir
  <2>4. CASE Crash(i)
    BY <2>4 DEF Crash, ScanInv, TypeOK
  <2>5. CASE Exit(i)
    BY <2>5 DEF Exit, ScanInv, TypeOK
  <2> QED BY <2>1, <2>2, <2>3, <2>4, <2>5
<1>3. TypeOK'
  BY <1>1, <1>2 DEF Witness, clientVars, ScanInv, TypeOK, Alive, Connectable
<1>4. SteadyIsCurrent'
  BY <1>1 DEF Witness, SteadyIsCurrent
<1>5. \A j \in steady' : j \in steady /\ lock'[j] = lock[j]
  <2> SUFFICES ASSUME NEW j \in steady' PROVE j \in steady /\ lock'[j] = lock[j]
    OBVIOUS
  <2>1. j \in steady /\ j \in Connectable /\ j \in Connectable' /\ j \in Instances
    BY <1>1 DEF Witness, ScanInv, SteadyIsCurrent, Connectable, Alive
  <2> QED
    BY <2>1 DEF Start, WriteLock, BindSocket, Crash, Exit, Connectable, Alive,
                ScanInv, TypeOK
<1>6. SteadyIsAhead'
  BY <1>1, <1>5 DEF clientVars, ScanInv, SteadyIsAhead, Scanning
<1>7. AliveHasDir'
  BY DEF Start, WriteLock, BindSocket, Crash, Exit, ScanInv, TypeOK,
         AliveHasDir, Alive
<1> QED BY <1>3, <1>4, <1>6, <1>7 DEF ScanInv

\* A step of the consumer: each test lets a connectable entry through, and the
\* scan ends only behind the last entry.
LEMMA ClientStep == ScanInv /\ Client => ScanInv'
<1> SUFFICES ASSUME ScanInv, Client PROVE ScanInv'
  OBVIOUS
<1> USE DEF ScanInv, Quiet, worldVars, history
<1>0. AliveHasDir'
  BY DEF Client, ReadEnv, CheckHis, ReadDir, ReadLock, CheckComm, CheckSocket,
         EndOfDir, Connect, StreamEnds, Retry, AliveHasDir, Alive
<1>1. CASE CheckHis
  BY <1>0, <1>1, DiscoveryAssumption
  DEF CheckHis, TypeOK, SteadyIsCurrent, SteadyIsAhead, Scanning, Connectable,
      Alive
<1>2. CASE ReadDir
  <2>1. TypeOK' /\ SteadyIsCurrent'
    BY <1>2 DEF ReadDir, TypeOK, SteadyIsCurrent, Connectable, Alive
  <2>2. steady \subseteq dirs
    BY DEF TypeOK, SteadyIsCurrent, Connectable
  <2> QED
    BY <1>0, <1>2, <2>1, <2>2 DEF ReadDir, SteadyIsAhead, Scanning
<1>3. CASE ReadLock
  <2>0. listed \cup dirs \subseteq Instances
    BY DEF TypeOK
  <2>1. TypeOK'
    <3>1. PICK i \in (listed \cup dirs) \ visited :
            /\ visited' = visited \cup {i}
            /\ entry' = i
            /\ readPid' = lock[i]
            /\ at' = IF lock[i] = None THEN "scan" ELSE "comm"
      BY <1>3 DEF ReadLock
    <3>2. i \in Instances /\ lock[i] \in Pids \cup {None}
      BY <2>0, <3>1 DEF TypeOK
    <3>3. entry' # None
      BY <3>1, <3>2, DiscoveryAssumption
    <3> QED
      BY <1>3, <3>1, <3>2, <3>3 DEF ReadLock, TypeOK
  <2>3. SteadyIsCurrent'
    BY <1>3 DEF ReadLock, SteadyIsCurrent, Connectable, Alive
  <2>2. \A j \in steady : lock[j] # None
    BY DEF SteadyIsCurrent, Connectable, Alive
  <2> QED
    BY <1>0, <1>3, <2>1, <2>2, <2>3 DEF ReadLock, SteadyIsAhead, Scanning
<1>4. CASE CheckComm
  <2>1. TypeOK' /\ SteadyIsCurrent'
    BY <1>4 DEF CheckComm, TypeOK, SteadyIsCurrent, Connectable, Alive
  <2>2. entry \in steady =>
          \E j \in Alive : pidOf[j] = readPid
    BY <1>4 DEF CheckComm, SteadyIsAhead, SteadyIsCurrent, Connectable
  <2> QED
    BY <1>0, <1>4, <2>1, <2>2 DEF CheckComm, SteadyIsAhead, Scanning
<1>5. CASE CheckSocket
  <2>1. TypeOK' /\ SteadyIsCurrent'
    BY <1>5 DEF CheckSocket, TypeOK, SteadyIsCurrent, Connectable, Alive
  <2>2. entry \in steady => entry \in socket2
    BY DEF SteadyIsCurrent, Connectable
  <2> QED
    BY <1>0, <1>5, <2>1, <2>2 DEF CheckSocket, SteadyIsAhead, Scanning
<1>6. CASE EndOfDir
  BY <1>0, <1>6 DEF EndOfDir, TypeOK, SteadyIsCurrent, SteadyIsAhead, Scanning,
              Connectable, Alive
<1>7. CASE Connect
  BY <1>0, <1>7 DEF Connect, TypeOK, SteadyIsCurrent, SteadyIsAhead, Scanning,
              Connectable, Alive
<1>8. CASE StreamEnds
  BY <1>0, <1>8 DEF StreamEnds, TypeOK, SteadyIsCurrent, SteadyIsAhead, Scanning,
              Connectable, Alive
<1>9. CASE Retry
  BY <1>0, <1>9 DEF Retry, TypeOK, SteadyIsCurrent, SteadyIsAhead, Scanning,
              Connectable, Alive
<1>10. CASE ReadEnv
  BY <1>0, <1>10 DEF ReadEnv, TypeOK, SteadyIsCurrent, SteadyIsAhead, Scanning,
              Connectable, Alive
<1> QED
  BY <1>1, <1>2, <1>3, <1>4, <1>5, <1>6, <1>7, <1>8, <1>9, <1>10 DEF Client

\* A read that fails takes what it overlooks out of steady.
LEMMA FailStep == ScanInv /\ ReadFails => ScanInv'
<1> SUFFICES ASSUME ScanInv, ReadFails PROVE ScanInv'
  OBVIOUS
<1>1. /\ UNCHANGED <<worldVars, env, listed, seenLive>>
      /\ steady' \subseteq steady
  BY DEF ReadFails, HisFails, ReadDirFails, LockFails, CommFails, SocketFails,
         ConnectFails, Overlook
<1>2. AliveHasDir' /\ SteadyIsCurrent'
  BY <1>1 DEF worldVars, ScanInv, AliveHasDir, SteadyIsCurrent, Connectable, Alive
<1>3. entry' \in Instances \cup {None} /\ visited' \subseteq Instances
  BY DEF ReadFails, HisFails, ReadDirFails, LockFails, CommFails, SocketFails,
         ConnectFails, ScanInv, TypeOK
<1>4. readPid' \in Pids \cup {None} /\ at' \in {"list", "absent", "scan", "refused"}
  BY DEF ReadFails, HisFails, ReadDirFails, LockFails, CommFails, SocketFails,
         ConnectFails, ScanInv, TypeOK
<1>5. TypeOK'
  BY <1>1, <1>3, <1>4 DEF worldVars, ScanInv, TypeOK
<1>6. SteadyIsAhead'
  <2>1. CASE HisFails \/ ConnectFails
    BY <2>1 DEF HisFails, ConnectFails, SteadyIsAhead, Scanning
  <2>2. CASE ReadDirFails
    BY <2>2 DEF ReadDirFails, Overlook, ScanInv, TypeOK, SteadyIsCurrent,
                Connectable, Alive, SteadyIsAhead, Scanning
  <2>3. CASE LockFails
    BY <2>3 DEF LockFails, Overlook, ScanInv, SteadyIsAhead, Scanning
  <2>4. CASE CommFails \/ SocketFails
    BY <2>4 DEF CommFails, SocketFails, Overlook, ScanInv, SteadyIsAhead, Scanning
  <2> QED BY <2>1, <2>2, <2>3, <2>4 DEF ReadFails
<1> QED BY <1>2, <1>5, <1>6 DEF ScanInv

\* The invariant the results about discovery rest on.
LEMMA ScanInvariant == SafeSpec => []ScanInv
<1>1. ScanInv /\ UNCHANGED vars => ScanInv'
  BY DEF vars, worldVars, clientVars, history, ScanInv, TypeOK,
         AliveHasDir, SteadyIsCurrent, SteadyIsAhead, Scanning, Connectable, Alive
<1>2. ScanInv /\ [Next]_vars => ScanInv'
  BY <1>1, WorldStep, ClientStep, FailStep DEF Next
<1> QED BY <1>2, InitScan, PTL DEF SafeSpec

\* Every reachable state has its type: no test runs without an entry and a pid.
THEOREM TypeCorrect == SafeSpec => []TypeOK
<1>1. ScanInv => TypeOK
  BY DEF ScanInv
<1> QED BY <1>1, ScanInvariant, PTL

\* NoInstance is the truth about every instance that was there all along, for
\* any number of instances, however many of the others come and go.
THEOREM AbsenceIsReal == SafeSpec => []NoFalseAbsence
<1>1. ScanInv => NoFalseAbsence
  BY DEF ScanInv, SteadyIsAhead, NoFalseAbsence
<1> QED BY <1>1, ScanInvariant, PTL

(***************************************************************************)
(* The environment.                                                        *)
(***************************************************************************)

\* Past its first step the consumer knows whether it has base directories.
EnvAsked ==
  /\ at = "nopaths" => BaseDirs(env) \in Error
  /\ at \notin {"env", "nopaths"} => BaseDirs(env) \notin Error

\* For every environment: no discovery without sound directories, and no
\* refusal without a variable at fault.
THEOREM DiscoveryFailsClosed == SafeSpec => []FailsClosed
<1>1. Init => EnvAsked
  BY DEF Init, EnvAsked
<1>2. EnvAsked /\ [Next]_vars => EnvAsked'
  <2> SUFFICES ASSUME EnvAsked, [Next]_vars PROVE EnvAsked'
    OBVIOUS
  <2>1. CASE World
    BY <2>1 DEF World, Start, WriteLock, BindSocket, Crash, Exit, clientVars,
                EnvAsked
  <2>2. CASE Client
    BY <2>2 DEF Client, ReadEnv, CheckHis, ReadDir, ReadLock, CheckComm,
                CheckSocket, EndOfDir, Connect, StreamEnds, Retry, EnvAsked
  <2>3. CASE ReadFails
    BY <2>3 DEF ReadFails, HisFails, ReadDirFails, LockFails, CommFails,
                SocketFails, ConnectFails, Overlook, EnvAsked
  <2>4. CASE UNCHANGED vars
    BY <2>4 DEF vars, clientVars, EnvAsked
  <2> QED BY <2>1, <2>2, <2>3, <2>4 DEF Next
<1>3. TypeOK /\ EnvAsked => FailsClosed
  <2>1. TypeOK => env \in Environment
    BY DiscoveryAssumption DEF TypeOK
  <2> QED BY <2>1, DirsAreJustified DEF EnvAsked, FailsClosed
<1> QED BY <1>1, <1>2, <1>3, TypeCorrect, PTL DEF SafeSpec

(***************************************************************************)
(* Where a resolution may lead.                                            *)
(***************************************************************************)

\* Past its HIS test the resolution knows that the named instance was not
\* there.
HisAsked ==
  /\ at \in {"list", "scan", "comm", "socket"} => His \notin steady
  /\ at = "connect" /\ His \in steady => entry = His

\* The consumer's own session wins, for any number of sessions beside it.
THEOREM OwnSessionWins == SafeSpec => []HisWins
<1>1. Init => HisAsked
  BY DEF Init, HisAsked
<1>2. ScanInv /\ HisAsked /\ [Next]_vars => HisAsked'
  <2> SUFFICES ASSUME ScanInv, HisAsked, [Next]_vars PROVE HisAsked'
    OBVIOUS
  <2>1. CASE World
    BY <2>1 DEF World, Start, WriteLock, BindSocket, Crash, Exit, Witness,
                clientVars, HisAsked
  <2>2. CASE CheckHis
    <3>1. His \in steady => His \in socket2
      BY DEF ScanInv, SteadyIsCurrent, Connectable
    <3> QED BY <2>2, <3>1 DEF CheckHis, Quiet, history, HisAsked
  <2>3. CASE Client /\ ~CheckHis
    BY <2>3 DEF Client, ReadEnv, ReadDir, ReadLock, CheckComm, CheckSocket, EndOfDir,
                Connect, StreamEnds, Retry, Quiet, history, HisAsked
  <2>4. CASE ReadFails
    BY <2>4 DEF ReadFails, HisFails, ReadDirFails, LockFails, CommFails,
                SocketFails, ConnectFails, Overlook, HisAsked
  <2>5. CASE UNCHANGED vars
    BY <2>5 DEF vars, clientVars, history, HisAsked
  <2> QED BY <2>1, <2>2, <2>3, <2>4, <2>5 DEF Next
<1>3. HisAsked => HisWins
  BY DEF HisAsked, HisWins
<1> QED BY <1>1, <1>2, <1>3, ScanInvariant, PTL DEF SafeSpec

\* A pid belongs to one compositor, a lock file names its own instance's, and
\* as long as pids are not recycled nobody else's: so a pid read from a lock
\* file identifies the instance until its files are gone.
PidsAreOwn ==
  /\ \A i, j \in Alive : pidOf[i] = pidOf[j] => i = j
  /\ \A i \in Alive : lock[i] \in {None, pidOf[i]}
  /\ \A i \in Instances : i \notin born => lock[i] = None /\ i \notin Alive
  /\ \A i \in Instances : \A j \in Alive : lock[i] = pidOf[j] => i = j

Gone(i) == i \in born /\ i \notin Alive /\ i \notin socket2

PathIsLive ==
  /\ Alive \subseteq seenLive
  /\ at \in {"env", "his"} => visited = {}
  /\ at = "comm" => readPid = lock[entry] \/ Gone(entry)
  /\ at = "socket" => entry \in seenLive \/ Gone(entry)
  /\ at = "connect" => entry \in seenLive \/ (entry = His /\ visited = {})

\* Unless pids are recycled, the scan only resolves an instance that lived
\* while it ran, for any number of crashed ones before it in the directory.
THEOREM ScanIsSound ==
  ASSUME PidsRecycle = FALSE
  PROVE  SafeSpec => []ScanFindsLive
<1>1. Init => PidsAreOwn /\ PathIsLive
  BY DEF Init, PidsAreOwn, PathIsLive, Alive
<1>2. ScanInv /\ PidsAreOwn /\ PathIsLive /\ [Next]_vars
        => PidsAreOwn' /\ PathIsLive'
  <2> SUFFICES ASSUME ScanInv, PidsAreOwn, PathIsLive, [Next]_vars
               PROVE  PidsAreOwn' /\ PathIsLive'
    OBVIOUS
  <2>1. ASSUME NEW i \in Instances,
               Start(i) \/ WriteLock(i) \/ BindSocket(i) \/ Crash(i) \/ Exit(i)
        PROVE  PidsAreOwn' /\ PathIsLive'
    <3>1. PidsAreOwn'
      <4>1. CASE Start(i)
        <5>1. PICK p \in Pids :
                /\ \A j \in Instances : pidOf[j] # p
                /\ \A j \in Instances : lock[j] # p
                /\ pidOf' = [pidOf EXCEPT ![i] = p]
          BY <4>1 DEF Start
        <5>2. p # None /\ lock[i] = None /\ i \notin born
          BY <4>1, <5>1, DiscoveryAssumption DEF Start, PidsAreOwn
        <5>3. pidOf'[i] = p /\ \A j \in Instances \ {i} : pidOf'[j] = pidOf[j]
          BY <5>1 DEF ScanInv, TypeOK
        <5> QED
          BY <4>1, <5>1, <5>2, <5>3 DEF Start, PidsAreOwn, Alive
      <4>2. CASE WriteLock(i)
        <5>1. lock'[i] = pidOf[i] /\ \A j \in Instances \ {i} : lock'[j] = lock[j]
          BY <4>2 DEF WriteLock, ScanInv, TypeOK
        <5>2. i \in born
          BY <4>2 DEF WriteLock, PidsAreOwn
        <5> QED
          BY <4>2, <5>1, <5>2 DEF WriteLock, PidsAreOwn, Alive
      <4>3. CASE BindSocket(i)
        BY <4>3 DEF BindSocket, PidsAreOwn, Alive
      <4>4. CASE Crash(i)
        BY <4>4 DEF Crash, ScanInv, TypeOK, PidsAreOwn, Alive
      <4>5. CASE Exit(i)
        BY <4>5 DEF Exit, ScanInv, TypeOK, PidsAreOwn, Alive
      <4> QED BY <2>1, <4>1, <4>2, <4>3, <4>4, <4>5
    <3>2. Witness /\ UNCHANGED clientVars
      BY <2>1 DEF Start, WriteLock, BindSocket, Crash, Exit
    <3>3. \A e \in Instances : Gone(e) => Gone(e)'
      BY <2>1 DEF Start, WriteLock, BindSocket, Crash, Exit, Gone, ScanInv,
                  TypeOK, Alive
    <3>4. ASSUME at = "comm", readPid = lock[entry]
          PROVE  readPid = lock'[entry] \/ Gone(entry)'
      <4>1. entry \in Instances /\ readPid # None
        BY <3>4 DEF ScanInv, TypeOK
      <4>2. CASE WriteLock(i)
        BY <3>4, <4>1, <4>2 DEF WriteLock, ScanInv, TypeOK, PidsAreOwn
      <4>3. CASE Exit(i)
        <5>1. i \in born
          BY <4>3 DEF Exit, PidsAreOwn
        <5>2. pidOf'[i] = None
          BY <4>3 DEF Exit, ScanInv, TypeOK
        <5>3. Gone(i)'
          BY <4>3, <5>1, <5>2 DEF Exit, Gone, Alive
        <5>4. entry' = entry
          BY <3>2 DEF clientVars
        <5>5. CASE entry = i
          BY <5>3, <5>4, <5>5 DEF Gone
        <5>6. CASE entry # i
          BY <3>4, <4>1, <4>3, <5>6 DEF Exit, ScanInv, TypeOK
        <5> QED BY <5>5, <5>6
      <4> QED BY <2>1, <3>4, <4>2, <4>3 DEF Start, BindSocket, Crash
    <3>5. at \in {"comm", "socket"} => entry \in Instances
      BY DEF ScanInv, TypeOK
    <3>6. Alive' \subseteq seenLive' /\ seenLive \subseteq seenLive'
      BY <3>2 DEF Witness
    <3>7. PathIsLive'
      BY <3>2, <3>3, <3>4, <3>5, <3>6 DEF clientVars, PathIsLive
    <3> QED BY <3>1, <3>7
  <2>2. CASE Client
    <3>1. UNCHANGED worldVars
      BY <2>2 DEF Client, ReadEnv, CheckHis, ReadDir, ReadLock, CheckComm,
                  CheckSocket, EndOfDir, Connect, StreamEnds, Retry, Quiet
    <3>2. PidsAreOwn'
      BY <3>1 DEF worldVars, PidsAreOwn, Alive
    <3>3. CASE CheckComm
      <4>1. readPid = lock[entry] /\ (\E j \in Alive : pidOf[j] = readPid)
              => entry \in seenLive
        BY <3>3 DEF CheckComm, PidsAreOwn, PathIsLive, ScanInv, TypeOK
      <4> QED
        BY <3>1, <3>2, <3>3, <4>1
        DEF CheckComm, Quiet, worldVars, history, PathIsLive, Gone, Alive
    <3>4. CASE CheckSocket
      BY <3>1, <3>2, <3>4
      DEF CheckSocket, Quiet, worldVars, history, PathIsLive, Gone, Alive
    <3>5. CASE Retry
      BY <3>1, <3>2, <3>5 DEF Retry, worldVars, PathIsLive, Alive
    <3>6. CASE ReadEnv \/ CheckHis \/ ReadDir \/ ReadLock \/ EndOfDir \/ Connect \/ StreamEnds
      BY <3>1, <3>2, <3>6
      DEF ReadEnv, CheckHis, ReadDir, ReadLock, EndOfDir, Connect, StreamEnds,
          Quiet, worldVars, history, PathIsLive, Gone, Alive
    <3> QED BY <2>2, <3>3, <3>4, <3>5, <3>6 DEF Client
  <2>3. CASE ReadFails
    <3>1. UNCHANGED <<worldVars, seenLive>>
      BY <2>3 DEF ReadFails, HisFails, ReadDirFails, LockFails, CommFails,
                  SocketFails, ConnectFails, Overlook
    <3>2. PidsAreOwn'
      BY <3>1 DEF worldVars, PidsAreOwn, Alive
    <3>3. at' \in {"list", "absent", "scan", "refused"}
      BY <2>3 DEF ReadFails, HisFails, ReadDirFails, LockFails, CommFails,
                  SocketFails, ConnectFails
    <3> QED BY <3>1, <3>2, <3>3 DEF worldVars, PathIsLive, Alive
  <2>4. CASE UNCHANGED vars
    BY <2>4 DEF vars, worldVars, clientVars, history, PidsAreOwn, PathIsLive,
                Gone, Alive
  <2> QED BY <2>1, <2>2, <2>3, <2>4 DEF Next, World
<1>3. PathIsLive => ScanFindsLive
  BY DEF PathIsLive, ScanFindsLive
<1> QED BY <1>1, <1>2, <1>3, ScanInvariant, PTL DEF SafeSpec
=============================================================================
