# A verification project for desktop-commons

`desktop-commons` is a set of small Rust crates that the programs of a Wayland
desktop share, and of scripts that validate the registry describing that
desktop. This directory holds TLA+ models of the code, the TLC configurations
that check them on small instances, and TLAPS proofs for every instance.
Paths below are relative to the repository (`src/` here); `lib.rs` without a
directory is the file of the crate under discussion.

## 1. Inventory

| component | state it keeps | operations | interacts with | what is hard |
|---|---|---|---|---|
| **slint-idle-runtime** (`crates/slint-idle-runtime`) | `WakeState::pending`, the `BTreeSet` in `DirtySet`, five `Metrics` counters | `wake`, `acknowledge`, `mark`, `take_all`, `request_redraw`, `record_*`, `snapshot`, `IdleScheduler::decide` | the application's event loop and any thread holding a handle | the loop blocks with no deadline, so one lost edge freezes the output for good; marks race drains |
| **singleton-guard** | none of its own: a flock on `$XDG_RUNTIME_DIR/<name>.lock` | `try_acquire`, drop | the kernel, other processes, xdg-paths | crashes at any point, descriptors inherited over fork |
| **span-lines** tracing layer (`tracing_layer.rs`) | `Inner::open` | `on_new_span`, `on_record`, `on_event`, `on_close`, `close_open` | tracing-subscriber's registry, the emitter, the at-exit registry | closes race flushes; registry ids are reused; `process::exit` stops threads anywhere |
| **span-lines** at-exit and emission (`lib.rs`) | `AT_EXIT`, `SEQ`, the sink | `at_exit`, `flush`, `exit`, `next_seq`, `emit`, `set_sink` | the layer, consumers' hooks, the journal | hooks that register hooks; numbering against write order |
| **span-lines** `Span` API, ids, `traceparent` | the process's trace (`TRACE`), the id counter, the sink (`SINK`), each span's fields and "emitted" flag | `Trace::from_env`, `adopt`, `Span::*`, `parse_traceparent`, `encode`, `frame`, `set_sink` | the environment, the emitter, child processes | once-only emission, silenced parents, first-caller-wins cells, headers of other tools, cut records |
| **hypr-ipc** | none | instance discovery, `connect_socket2`, `hyprctl_*` | Hyprland's files and sockets, xdg-paths | stale files of crashed compositors, reads at different moments, timeouts |
| **logind-session** | the inhibitor's descriptor | `resolve_session*`, `Inhibitor::acquire` | logind over D-Bus | three fall-back lookups against a changing session list |
| **xdg-paths** | none | `ConfigDirs`/`BaseDirs` construction, `cache_home` | the environment | error precedence, when `HOME` is needed |
| **architecture.py** | none | load, validate and render the registry | `registry/*.toml`, the documents | cycle search, references to unknown entries |
| **conformance.py** | the report | classify and evaluate assertions | GitHub (or a local tree) | one failing assertion aborting the rest |
| **suite-doctor.sh, env-overrides.sh** | a report file | probes of the running desktop | systemd, the environment | exit status, defaults |
| **registry data, documents, CI** | - | - | - | nothing executes |

What makes each component correct:

* *idle runtime* - no redraw request is lost, one notification per edge, no
  buffer acquired without a request, a static scene sleeps;
* *singleton* - at most one owner, a refusal only when there is one, a dead
  owner never blocks the name;
* *span-lines* - every span is written once, records name real ancestors and
  never one that is not printed, sequence numbers are unique and gapless, a
  process has one trace and one sink, the documented reader gets every field
  back, `exit` rescues open spans and ends;
* *hypr-ipc* - a resolved instance is live, a reconnect loop ends up on the
  running compositor, `Ok` to a command is the compositor's word and a call that
  timed out never overtakes a later one;
* *logind* - a resolved session is one of the caller's, never the manager;
* *xdg-paths* - every result is absolute, every error names a variable that is
  really at fault, nothing falls back silently;
* *scripts* - a cycle or a dangling reference is always reported, one bad
  assertion does not hide the others.

PROJECT.json lists the hazards of this code line by line, each with the
properties that would catch it; those without a property say why.

## 2. The modules and the code

### RedrawIntent, IdleRuntime

`RedrawIntent` is the abstract promise: an output is *wanted*, then
*rendering*, then presented, and wanted outputs are presented in the end.

`IdleRuntime` is the crate. Producers are worker threads and the loop thread
itself; each is at one of four places (`pc`): `idle`, `mark`, `wake`, `notify`.
Every atomic operation or critical section is one step:

| code | action |
|---|---|
| `RedrawHandle::request_redraw`: count, then `DirtySet::mark`, then `wake` | `RecordRequest`, `Mark`, `CompareExchange` |
| `WakeHandle::wake` on its own; its callback | `CallWake`, `CompareExchange`; `Notify` |
| `WakeHandle::acknowledge` | `Acknowledge` |
| `DirtySet::take_all` | `TakeAll` |
| `IdleScheduler::decide` / `from_slint` | `Decide`, `ChooseWait` |
| `Metrics::record_*` | `Bump` in the step that calls it |

The event loop is not in the crate: its README and `docs/SLINT_IDLE_RUNTIME.md`
prescribe it (acknowledge, advance timers, drain, present each output, decide,
wait), so `ConsumePing`, `DeadlinePasses`, `Advance`, `AcquireBuffer`,
`RenderAndCommit` are marked external. The counters use relaxed atomics and the
model counts in sequence; `pending` is accessed by AcqRel read-modify-writes and
the set under its mutex, so interleaving loses no behaviour of theirs. What
Slint reports (`scene`) is arbitrary after every `Advance`.

### SingleOwner, SingletonGuard

`SingleOwner` is the abstract promise of a name: it is given out only while
nobody has it (`Acquire`), refused only while somebody does (`Refuse`), and free
again when the guard is dropped or its process dies (`Release`) and no child that
was being started beside it keeps it (`Share`, `Disinherit`).

`SingletonGuard` is the crate on a kernel. The kernel part is modelled as far as `try_acquire_at` uses it: a path names at
most one inode; open file descriptions (`inodeOf`, `holders`) carry the flock
(`locked`), conflict per inode, and end with their last descriptor (`Close`).
`Open`, `FlockSucceeds`, `FlockRefused`, `FlockError`, `AcquireError` are the
code from open to return, `DropGuard` the guard's drop. `Start`, `Die`, `Fork`
and `ExecOrExit` may happen between any two of them: a forked child holds copies
of the descriptors until it reaches exec (std opens close-on-exec). Descriptors
are a finite pool and inodes are recycled, as in the kernel. `ImplementsOwnership`
maps a guard to its description, an heir (`Heirs`) to a process whose child holds
a locked one, and what a caller was told to its `outcome`; opening, being
overtaken, closing and every death that releases nothing are no step of
`SingleOwner`.

### SpanLedger, SpanLayer

`SpanLedger` is the abstract promise of the record stream: a span is begun once
and open until one thread takes it, alone when it closes or with all others in a
flush; that thread writes its one record. An event is written once. It has no
slots, numbers, locks or hooks.

`SpanLayer` is the code. Threads (`pc`) create spans, log events, close spans, flush and exit; each
critical section of `Inner::open` and of `AT_EXIT`, each `next_seq` and each
sink write is a step, so threads stop - for good, after `process::exit` -
between a lock and the write that follows it.

| code | action |
|---|---|
| `enabled`, `admits`, `tier` | `Admitted`: the spans whose level and target pass |
| `on_new_span`: gate, `find_map(id_of)`, push | `NewSpan`, `Lookup` (one step per ancestor asked), `Push` |
| `on_record` | `RecordField` |
| `on_event` | `LogEvent`, `Lookup`, `Draw`, `Write` |
| `on_close`: remove by id, write after unlocking | `CloseRecorded`, `CloseUnrecorded`, `Draw`, `Write` |
| `close_open` | `CloseOpen` |
| `next_seq`, `emit` | `Draw`, `Write` |
| `at_exit`, `flush`, `exit` | `Register`, `CallFlush`, `CallExit`, `CloneHooks`, `RunRegistrar`, `RunPlain`, `EndFlush` |

The registry of tracing-subscriber is external and modelled as this layer sees
it: a span has a slot id while it exists, children and events keep their scope
alive, a slot is free again afterwards. A span stands for the id `hex(8)` mints
for it: that two spans never get the same 64-bit id is assumed. Targets are
sequences of path segments' texts, so that a prefix that ends inside a name is
told from one that does not. Names and clocks are left out; of the attributes,
those recorded late are counted (`late`), which tells whose fields a record has
and whether any is missing.

`ImplementsLedger` maps `begun` to the admitted spans that are live or were, `open`
to the entries of `Inner::open`, `hands` to the spans whose records a thread holds
after taking them out, `stream` to the journal. `Push` is the step that begins a
span, `CloseRecorded` and `CloseOpen` those that take; what happens to filtered
spans, slots, numbers and hooks is no step of the ledger.

### TraceContext, RecordFormat, SpanApi

`TraceContext` is the W3C header: `parse_traceparent` (`WellFormed`, `Parsed`),
`Span::traceparent`, the guard that keeps minted ids from being all zeros
(`Nonzero`) and the one `Trace::adopt` puts before foreign ids. A header is the
sequence of the fields between its dashes, a field a sequence of characters; the
widths 32 and 16 are constants.

`RecordFormat` is the line: `encode`, `push_attr`, `frame` with its cut at
`MAX_RECORD`, and `naive_read`, the reader of the crate's tests, which follows
the recipe in the crate's documentation.

`SpanApi` is the API over both. Each `get_or_init` or `set` of a `OnceLock`, each
rendering and each sink write is a step, so that a `set_sink` may fall between
the rendering and the writing of the first record. What Rust's ownership
excludes the model excludes: `end` and `drop` need the span to themselves.

| code | action |
|---|---|
| `Trace::from_env`, `process_trace`, `span` | `OpenRoot` |
| `Trace::adopt`, `span` | `OpenAdopted` |
| `child`, `frame_child` | `Child`, `FrameChild` |
| `attr`, `set` | `SetAttr` |
| `event` | `Event`, `ResolveSink`, `Write` |
| `end`, which finishes the span and then drops it | `End`, `ResolveSink`, `Write`, `Drop` |
| `Drop for Span`, with `drop_status` | `Drop`, `ResolveSink`, `Write` |
| `set_sink` | `SetSink` |

`MintTrace` and `MintSpan` stand for what `splitmix` makes of the seed and a
count; nothing is assumed of them but their width, in particular not that ids
differ. An event in a span whose level is silenced and an id `adopt` refuses
change nothing and are no action.

### XdgPaths

The crate as operators on an environment whose variables are unset, empty,
relative or an absolute path: `ConfigDirs`, `BaseDirs`, `CacheHome`, in the
code's order of tests, so that the first error is the answer. `Justified` and
`AtFault` say what a caller may expect, and both are proved of all three.

### HyprDiscovery

A resolution starts with `ReadEnv`, which asks `XdgPaths` for the runtime
directory and ends in an error if there is none. The rest is a sequence of
reads, each a step: `CheckHis`, `ReadDir`, then
per entry `ReadLock`, `CheckComm` (`/proc/<pid>/comm`), `CheckSocket`, and
`EndOfDir`; `Connect` is `connect_socket2`, `Retry` the reconnecting caller its
doc asks for. Compositors are external: they start, write the lock file, bind
the socket in any order, crash leaving their files, or exit removing them.
Directory entries come in any order, and one created after `read_dir` may or may
not be listed. Any read may also fail although what it reads is there
(`ReadFails`: `HisFails`, `ReadDirFails`, `LockFails`, `CommFails`, `SocketFails`,
`ConnectFails`); the code takes that for absence. Two history variables record
which instances were connectable throughout with no read of theirs failing, and
alive at some moment of, the resolution under way; only the properties read them. `PidsRecycle` says whether the kernel may reuse a pid that
a stale lock file still names; the runs and the soundness theorem exclude it.

### HyprCtl

`hyprctl_ok`, `hyprctl_json` and `hyprctl_json_std`: `Call` starts the process or
fails, `Return` judges its output, `Expire` is the timeout, which drops the
future and with it kills the process (`kill_on_drop`). hyprctl and the compositor
are external: `Send` puts one request where the compositor accepts connections,
`Handle` takes the oldest, `Exit` prints the reply, `Crash` is a compositor that
dies and is replaced. hyprctl ends with status 0 (`exited`) or another
(`failed`), which it does at any rate when it has no reply. A request that was
sent stays when its sender is killed: that is the retry hazard.

### LogindResolve

One call of `resolve_session` or `resolve_graphical_session`. Every D-Bus call is
a step and may fail; between any two, sessions are opened, closed, switched and
change their type (`Open`, `Close`, `SetState`, `SetType`; logind is external).

| code | action |
|---|---|
| `get_session_by_pid(0)`, then `session_from_path` reading `Id` | `GetSessionByPID`, `ReadId` |
| `get_session($XDG_SESSION_ID)` | `GetSession` |
| `list_sessions`, the loop over its rows | `ListSessions`, `NextRow`, `EndOfList` |
| the property reads of a row, `score_session`, the comparison | `ReadState`, `ReadType` |
| `resolve_graphical_session`'s last test | `RequireGraphical` |

zbus may keep the properties of a proxy: `readDesktop` is what it kept, and a
later read is answered from there or by logind. `faulty`, `steady` and `prime`
are history: did a call fail that the code gets over, which sessions stood
throughout, and which of these were active and graphical throughout. The loop's
skip of the manager's path is part of `Candidate`; a row that got past it would be
dropped all the same, because none of a session's properties can be read of the
manager, so no property depends on the skip.

### Conformance

One scan of `conformance.py --source github`. What an assertion finds depends
only on the provider's caches, and these never lose an entry. An evaluation is
therefore the set of requests it still has to make, in the code's order
(`Wanted`), each a step (`FetchContent`, `FetchMetadata`, `FetchTree`, or
`RequestFails`, which ends the assertion in an error finding), and its verdict
once the caches hold everything it looks at (`Conclude`). Between any two
requests somebody may push or archive (`Push`, `Archive`). A file is absent,
without or with a match; a repository that `gh` cannot see (`visible`) answers
404 like a missing file. `held` and `flags` are history: what each file and flag
has been since the scan began.

### Faulty variants

Beside some definitions stands a *faulty variant*: the same operation with a
plausible bug (a dropped wake, a plain store for a compare-exchange, an unlink
on drop, a `swap_remove`, a hook run under a lock). No specification uses them;
each property is known to fail when its variant replaces the original
(PROJECT.json, "mutants").

## 3. What the runs check

| run | instance | shows |
|---|---|---|
| `Idle` | 2 workers + loop thread, 2 outputs, 1 call each, timers before and after a frame | `EdgeConservation` (a pending wake has exactly one owner), `NoLostRedraw` (a dirty output always has someone on the way to it), `WorkBoundedByIntent`, `WaitFitsScene`; `ImplementsIntent` (refines `RedrawIntent`, its fairness included), `StaticSceneSleeps` |
| `Singleton` | 2 processes, 3 descriptions, 2 inodes | `MutualExclusion`, `LocksAccountedFor` (a live guard owns the lock a newcomer asks for, and no lock is without one for long), `RefusalIsJustified`, `LockNeverWedged`; `ImplementsOwnership` (refines `SingleOwner`) |
| `SpanSafety` | 2 threads, 3 recorded spans, 1 extra flush | `OpenIsNested`, `SeqAccounted`, `ExitRescues` |
| `SpanReuse` | 2 threads, 2 recorded + 1 filtered span, 2 slots, 1 event or late field | `OpenIsCurrent`, `ParentTruthful`, `NearestUntilFlush` (past a filtered ancestor, and with reused ids), `FieldsKept`; `ImplementsLedger` (refines `SpanLedger`: no span and no event is lost or doubled) |
| `SpanExit` | 2 threads, 2 spans, hooks: the layer's and one that registers another | `ExitEnds` |
| `SpanExitRace` | 2 threads, 2 spans | a finding |
| `SpanApi` | 2 threads, 3 spans, 1 sink to install, 3 environments, 2 adoptions, 1 counted call, ids 2 digits wide, records cut at 16 | `SpansWrittenOnce`, `NoDanglingParent`, `OneDestination`, `OneTrace`, `ContextHandedOn`, `RecordsReadBack` |
| `HyprScan` | 2 instances, 3 pids, `HIS` names one, 6 environments | `FailsClosed`, `NoFalseAbsence`, `ScanFindsLive`, `HisWins`, `Reconnects` |
| `HyprStaleHis` | 2 instances, `HIS` names one | a finding |
| `HyprCtl` | 2 callers, 3 calls, 1 crash of the compositor | `OkIsObeyed`, `CommandsInOrder` |
| `LogindResolve` | 2 sessions of the caller's, 1 of another user's, which `XDG_SESSION_ID` names | `NeverForeign`, `CallerWins`, `NoFalseAbsence`, `DesktopWins` |
| `Conformance` | 2 repositories, 1 file, 1 workflow, 12 lists of two or three assertions, 1 push | `GreenMeansHeld`, `RedMeansBroken`, `OneAnswer` |

The type invariants are proved (section 4); no run repeats them.

**Bounds.** `MaxRequests`, `MaxCalls`, `MaxFlushes`, `MaxIds`, `MaxCrashes`
bound the calls of a run; each is a guard of the action that begins the call, so
a call that has begun always runs on. A flush registers at most one hook, so that
`MaxFlushes` bounds the registry too. Two
producers and the loop are enough for every pairwise race on the edge and for a
third party overtaking both: two workers let a request come while an earlier
edge is in flight. Two processes with three descriptions allow an owner, a
newcomer that opened before a release and locks after it, and a second guard
inside one process; the invariants are proved for any number of either. Three
spans allow a chain whose middle closes, two slots for three spans force a slot
to be reused; the filtered span's module begins like the admitted one's. In
`SpanApi` three spans are a root, a silenced or a frame child and its child; the
first id minted at each width is all zero, one header is sound but in capitals,
one names an all-zero parent and one is missing; the first text fits into a
record and holds an escape and a blank, the second one is cut. A count of one
lets each of the counted calls (an attribute, an event, a panic, an adoption, a
sink) happen in every place of a run that otherwise opens, ends and drops; any
number of them is covered by the proofs. The six environments of `HyprScan` have
each kind of bad variable once. Two callers with three calls let one time out
and call again while the other's request stands between its two. Two instances
let a stale directory stand beside a starting or living one, with or without
`HIS` leading to it; the third pid keeps pids from running out. Two sessions of
the caller let one be opened or closed while the loop tests the other, and the
environment's session, another user's, is the worst answer the second lookup can
give. The twelve lists hold every kind of assertion; pairs that exclude each other,
answered from one cache or from two, in both orders; three assertions of which
any two are compatible; and pairs that share cached answers. One push falls
before, between or after the requests of a list, and is enough for
`file_contains` and `path_absent` of one file to pass both. For the properties proved in
section 4 the bounds do not matter.

**Deadlock.** The `Idle`, `Span*`, `HyprCtl`, `LogindResolve` and `Conformance`
configurations turn the check off: with bounded calls the loop really ends up
blocked without a deadline, an exited process takes no step, spans that are all
gone leave nothing to do, and a call that has returned or a scan that has ended
is over. The singleton's processes and the compositors can always act and the
check is on. Symmetry is used for safety only.

**Fairness.** In `IdleRuntime` a call that began continues (a thread between two
instructions is scheduled) and the loop thread runs when it can; nothing obliges
a producer to call again, and nothing obliges a scene to become static. In
`SingletonGuard` only a forked child is obliged to reach exec or die. In
`SpanLayer` a thread inside an operation runs on, including waiting for the
registry's mutex; none has to begin an operation. In `HyprDiscovery` only the
consumer is fair; no compositor has to start, finish starting or die, and reads
may fail for ever - `Reconnects` is about runs in which they stop to. `SpanApi`,
`HyprCtl`, `LogindResolve` and `Conformance` assume none: their properties are
safety.

## 4. What is proved

The proofs are in `IdleRuntime_proofs`, `SingletonGuard_proofs`,
`SpanLayer_proofs`, `SpanApi_proofs`, `HyprDiscovery_proofs`, `HyprCtl_proofs`,
`LogindResolve_proofs` and `Conformance_proofs`; they assume only the named
assumptions about the constants (`IdleAssumption`: outputs, the frame interval
and delays are natural numbers, the loop thread is not a worker;
`SingletonAssumption`: `None` is no inode and no file; `SpanAssumption`: levels,
the detail and the first hooks are of their types, `None` is no span and no
thread; `WidthAssumption`, `ApiAssumption`, `AbsentAssumption`: ids have digits,
what is minted has the width it should, headers and adopted ids are texts,
`Absent` is none of the values it stands beside; `AbsoluteAssumption`: a path is
none of the words for a variable without one; `DiscoveryAssumption`: `None` is
no instance and no pid; `CtlAssumption`: `None` is none of the values it stands
beside; `LogindAssumption`: whose sessions and of which class
they are, `None` and the manager's path are no sessions;
`ConformanceAssumption`: workflows are files, every list of assertions is typed
and the two kinds that read a single `repository` name one). Neither the
producers nor the outputs have to be finitely many: `WorkIsBounded` shows on the
way that the sets whose sizes it adds stay finite.

* `TypeCorrect` - types, for any number of workers, outputs and requests.
* `EdgeConserved` - `EdgeConservation` is inductive relative to `TypeOK`: it
  says of each of the three possible owners of a pending wake (the announcing
  producer, the wake source, the loop before its acknowledge) that it is alone.
* `RedrawsNeverLost` - `NoLostRedraw` is not inductive alone: `CompareExchange`
  by a producer that finds `pending` set discharges its obligation, and only
  `EdgeConservation` says that somebody else then owns one. The induction
  carries the three together.
* `WorkIsBounded` - the count of buffers acquired plus everything that may still
  become one is at most the requests counted; the term for producers about to
  mark makes it inductive, and one `acquire` implies an output not yet drawn.
* `RefinesIntent` - every step maps to a step of `RedrawIntent` or a stutter
  under `wanted <- dirty, rendering <- batch`; the invariant needed is that the
  batch is empty whenever the loop is about to drain, and that the current
  output is in the batch while it is being presented.
* `GuardIsExclusive`, `NoLeakedLock`, `RefusalsJustified` - from one
  invariant: every guard's description is locked, held by its process and on the
  inode under the path; two locked descriptions are never on one inode; every
  description in use is on that inode; an open descriptor not yet locked belongs
  to the one call that opened it. It is needed because exclusion alone does not
  survive a step: an opener that was overtaken must still meet the same inode.
* `RefinesOwnership` - every step of a process, a child or the kernel maps to a
  step of `SingleOwner` or a stutter. The invariant above gives the guards;
  `Lineage` is needed for the heirs: a description is held by one process and its
  children only, and a dead process has no guard, so that a lock just taken has
  no heir but the caller's own child.
* `WaitSuitsScene` - `WaitFitsScene`: the wait is chosen from the scene and the
  scene stays as it is until the loop wakes.

Of the tracing layer (`SpanLayer_proofs`), in layers, each inductive relative to
those before it:

* `LayerTyped` - `TypeOK` with `Control`: what a thread holds at each of its
  places (the span it opens, a record whose number is drawn, hooks left to run).
  Nearly every later step needs it.
* `SeqTotal` - `NumberedOnce` says of every number below `SEQ` that it is written
  or held by one thread; `SeqAccounted` is that in terms of sets.
* `EntriesCurrent` - `Occupancy`: existing spans have different slots, a span is
  open at most once, an entry belongs to a live span, and a span being opened or
  closed is with one thread. The last two depend on each other: the registry
  frees a slot only after `on_close` has returned, and by then the entry is out.
* `ParentsTrue`, `OpenNested`, `FieldsTrue` - `Kinship` (a span that exists keeps
  its whole scope in existence, and a scope being asked holds live spans only),
  then `Telling`: what entries, records in hand and records written say of
  parents and fields is true. Needed because a parent is found by slot: only
  `Occupancy` and `Kinship` together say that the slot asked about is still that
  ancestor's.
* `SpansRescued` - assumes that the layer's hook is among `FirstHooks`, which is
  what installing the layer does. `Owing`: what a thread that called `exit` found
  open is somewhere - in the layer, in some thread's hands or in the journal -
  and no longer in the layer once that thread has run the layer's hook, since a
  span never comes back into the layer.
* `ParentsNearest` - until the first flush (`Undisturbed`) `Nears` holds. It
  says that an admitted span that is live is open (`LiveOpen`), because only its
  own close takes it out; that while a scope is being asked, the nearest of what
  is left is the nearest of all (`Seeks`), and that what was found is kept until
  it is pushed (`Names`). All three are needed, since other threads open and
  close spans between two questions, and slots change hands.
* `NothingLost` - `Once`: a span is in at most one place of the layer, one
  thread's hands or the journal, and there once; `Conserved`: it is somewhere if
  and only if its thread holds its entry or has begun it. A span that closes
  without an entry must have been taken by a flush, or written.
* `RefinesLedger` - every step maps to a step of `SpanLedger` or a stutter. From
  `NothingLost`, and from `EventsAlone`: an event is the only record its thread
  holds, so that the write that follows is the event's.
* `FlushRunsOut`, `HookLockBrief` - the safety half of "`exit` ends": a flush's
  list of hooks only ever loses the one that has run, whatever is registered
  meanwhile, and the registry is locked only while a thread clones the list. That
  the steps are taken (`ExitEnds`) is left to TLC.

Of the span API (`SpanApi_proofs`):

* `HeaderRoundTrip`, `ParsedIsUsable` - for every width: what `traceparent`
  writes, `parse_traceparent` accepts and reads back; what it reads can be
  written again.
* `ApiTyped` - types, and where a thread stands in a call.
* `OneSink`, `OneTracePerProcess` - once a cell is set it stays; what was written
  before `set_sink` was called went to the sink that is installed because the
  first write installs one.
* `ContextReachesChild` - from the round trip: every id in use is not all zero,
  the ones minted by `Nonzero`, the adopted ones by `Adoptable`, the inherited
  ones by `WellFormed`.
* `EachSpanOnce`, `ParentsPrinted` - a span's record, in a thread's hands or in
  the journal, exists exactly when the span is marked and speaks, and the level a
  span needs is at least its parent's, so that a span that speaks has a parent
  that does. Ids need not differ for it.

Of the `hyprctl` calls (`HyprCtl_proofs`):

* `CtlTyped` - types.
* `NoLateCommand` - `RequestInv`: calls are numbered as they are made and a
  caller waits for its last one; a process that may still send belongs to a call
  somebody waits for, because a timeout kills it; so the request that joins the
  queue is its caller's newest, and the queue, with what was obeyed before it,
  stays in each caller's order.
* `OkIsTrue` - `WordInv`: a reply of ok was obeyed and an answer of `Ok` rests on
  such a reply; `RequestInv` adds that no request is answered twice.

Of the directories and of discovery (`HyprDiscovery_proofs`):

* `DirsAreJustified`, `CacheIsJustified` - for every environment.
* `DiscoveryFailsClosed` - from the first: past its first read the resolution
  knows whether there are directories.

* `AbsenceIsReal`, `OwnSessionWins` - the invariant says where an instance that
  has been connectable throughout stands: listed, and ahead of the scan or the
  entry under test with its own pid read; so every test lets it through. A read
  that fails takes away the instance it overlooks, and no other.
* `ScanIsSound` - assumes `PidsRecycle = FALSE`: then a pid read from a lock file
  identifies its instance until that instance's files are gone for good, so a
  pid that passes the liveness check and a socket file that still exists mean an
  instance that lived during the scan.

* `CallIsTyped`, `ManagerNeverResolved`, `CallerComesFirst`, `AbsenceIsTrue`,
  `DesktopIsChosen` - one invariant, `CallInv`: which lookup is under way, whose
  session the call holds, and where a session that has stood throughout is - a
  row still listed, the row under test, or beaten by the best entry so far. The
  last part is needed because the loop drops every row whose reads fail, and the
  final result says nothing of the rows dropped.
* `ViolationsAreReal`, `GreenIsTrue` - `TruthInv`: every cached answer is one the
  repository gave during this scan, and every finding so far was true of such
  answers. History only grows, so a finding once true stays so, whatever is
  pushed.
* `OneAnswerPerScan` - an entry is never put into a cache twice (`WantedIsNew`:
  what is asked for is not there), so what an assertion passed on is still there
  when any other is evaluated (`PassesKnown`). The content cache, read as a state
  of the repository's files, is then one that every passed assertion about
  contents is true of, and the cached tree one for the assertions about paths. Of
  a repository that nobody changed, the state it has serves for both, because a
  finding is true of what was there during the scan (`TruthInv`).

What is only model-checked: liveness (`ImplementsIntent`'s fairness part,
`StaticSceneSleeps`, `LockNeverWedged`, `ExitEnds`, `Reconnects`) - it needs
ENABLED and fairness, out of the prover's reach; and `RecordsReadBack`, whose
reader is a recursive function over the bytes, for two texts and a cut at 16.
Every other property of a passing run is stated by a theorem.

## 5. Where the documentation and the code differ

* `SpanExitRace`: spans open when `exit` is called are said to be closed with
  `status=exit`; one that another thread took out of the layer an instant before
  is lost when `process::exit` overtakes its write. `ExitRescues` states exactly
  what is kept.
* `HyprStaleHis`: consumers are told to re-resolve rather than retry a dead
  endpoint forever, but a `HIS` whose crashed compositor left its socket file
  resolves to that dead path every time (`exists()` asks for the file only), even
  with another compositor running. `Reconnects` holds without that: after a clean
  exit, or with no `HIS`, the consumer finds the living one.

Smaller differences are noted without a run. `on_new_span` calls the parent "the
nearest ancestor this layer actually recorded"; after a `flush` in mid-life the
live ancestors are gone and new spans name a farther one or none, which is why
`NearestUntilFlush` stops at the first flush. "Dropping it (or dying) releases
ownership" (`singleton-guard`): a child that another thread has just forked keeps
the lock until it reaches exec, and a newcomer is told that there is an owner;
`LockNeverWedged` bounds the harm, and `RefusalIsJustified` and `SingleOwner`
(`heirs`) count such a child as an owner. "HOME is unset or empty and an XDG fallback requires it" (`xdg-paths`,
the message of `MissingHome`): an empty or relative `HOME` is refused even when
nothing falls back to it, and a relative one is neither unset nor empty.
`conformance.py` caches contents and trees apart (lines 59 and 74), and nothing in
it promises that the two are of one moment: after a push between the two requests
`file_contains` and `path_absent` of one file can pass in one scan. `OneAnswer`
says what does hold: one answer about contents, one about paths, and one about
both for a repository left alone.
`Metrics::snapshot` is called point-in-time and is five separate loads.

## 6. Not modelled, and why

* The loop's rendering, Slint itself, `FakeClock` (a test helper), the window
  query in `from_slint`. The loop is the one of the crate's README; a presenter
  that follows `docs/adr/0007-probe-before-acquiring-a-buffer.md` also probes the
  scene before it acquires, which is the application's code.
* A notify callback that panics or whose channel is gone; a poisoned mutex
  (`recover` takes the data as it is, and no critical section can panic).
* A runtime-directory cleaner that unlinks a lock file in use: no code of the
  repository does so.
* The panic status of the tracing layer; the clocks and names of records;
  `max_level_hint`, which only spares the layer callsites its gate refuses.
* That 64-bit ids never collide: `SpanLayer` takes a span for its id, `SpanApi`
  assumes nothing.
* `Metrics::snapshot`: diagnostics only, nothing decides from it.
* `logind-session`'s inhibitor: one call, released with its descriptor.
* Of `conformance.py`, the local provider (files of a checkout, read once), the
  patterns themselves and the output formats.
* `parse_line` and `lua_dialect` of `hypr-ipc`: they look at one string and keep
  nothing. The joins of a directory with an application's name in `xdg-paths`.
* `architecture.py`: a pass over checked-in files that nothing runs beside; the
  shell scripts: probes in sequence, with no state between them.
* `proxies.rs` of `logind-session`: declarations from which zbus generates calls;
  what the calls do is in `LogindResolve`.
* Registry data, documents, CI: nothing executes.

## 7. Plan

In order of importance; "done" is on disk.

1. **done** `IdleRuntime` + `RedrawIntent`, run and proofs.
2. **done** `SingletonGuard`, run and proofs.
3. **done** `SpanLayer` with its gate and `on_record`, runs and proofs.
4. **done** `HyprDiscovery` over `XdgPaths`, and `HyprCtl`, runs and proofs.
5. **done** `SpanApi` over `TraceContext` and `RecordFormat`, run and proofs.
6. **done** `LogindResolve`, run and proofs.
7. **done** `Conformance`, run and proofs.
8. **done** `SingleOwner` and `SpanLedger`, the abstract specifications of the
   singleton and of the tracing layer, and the proofs that the code refines them.
9. Left: an abstract specification of discovery (a resolution as one look at the
   compositors that lived during it) and of a scan of `Conformance`; the fields of
   a record on the way through `encode` and `frame`, of which `RecordsReadBack`
   is checked for two texts only.
