# Lyona: a verification development

This directory holds TLA+ models of Lyona (an X11 desktop built on a dwm fork,
with a Quickshell shell and a set of Python system-management commands), the TLC
runs that check them, and TLAPS proofs about them. Paths such as
`operation_journal.py:2655` are relative to
`scripts/lyona_system_management/` unless they start elsewhere.

## 1. Inventory

| part | code | state it keeps | operations | what is hard |
|---|---|---|---|---|
| journal file | `operation_journal.py` 562-640, 1343-1475 | two 8,192-byte frames `(sequence, payload)` per path | read, commit, lock | torn and lost writes, killed writers, readers beside writers |
| operation journal | `operation_journal.py` 667-1286, 2312-2757 | 36 paths: `active`, `restart`, `handoff`, `terminal-00..31`, `cursor` | admit, advance, prune, complete, acknowledge | five commits per completion, kills between any two, reboots, a ring that wraps, guidance that must be neither lost nor replayed |
| journal layout | `operation_journal.py` 1486-2118 | directory chain, mode and owner of each path | first creation, repair, validation | a crash during the first creation |
| PackageKit operations | `native_operations.py` 258-515, `packagekit.py`, `update_plans.py` 755-930, `watch_commands.py` 443-523, `cli.py` 184-239 | one journal entry and one D-Bus transaction shared by owner, recovery, watcher, canceler | send, observe, checkpoint, finish, recover, cancel, acknowledge | evidence gathered without the lock, results racing recovery, missed signals |
| native operations | `native_operations.py` 34-257, `regional_settings.py`, `delegated_tools.py`, `operation_journal.py` 2338-2412 | a flock lease on `active` | run, probe, watch by inotify | an owner dying while it is probed |
| operation stream | `update_plans.py`, `SystemOperationProtocol.js`, `SystemOperationModel.qml` | the parser's state machine | bundles, replay, acknowledgement | lost output, restarts of the watcher |
| update confirmation | `update_plans.py` | a generation digest | preview, confirm | stale previews |
| event monitors | `event_monitors.py`, `watch_commands.py` | subscriptions, pending hints | coalesce, resubscribe | events between subscription and first read |
| shell supervision | `config/quickshell/core/WatchedProcess.qml`, `QueuedRun.qml`, `systemmanagement/SystemWatchHub.qml` | one process each, back-off timer | start, restart, stop | exits racing restarts |
| shell models | `config/quickshell/systemmanagement/*.qml` | discovery generations, pending answers | refresh, apply, reconcile | answers out of order |
| panel updater | `scripts/lyona-update`, `scripts/lyona-update-root`, `system/UpdateModel.qml` | a lock, a staged tree | fetch, stage, apply | interruption half way |
| window manager | `dwm.c`, `config.c` | clients, monitors, focus, tags | X events, reload | list invariants, stale windows |
| session scripts, settings, installer | `scripts/`, `install.sh` | processes and files | start, watch, install | mostly sequential |

How they meet: the shell starts `dwm-system-management` commands as processes.
The mutating ones (`updates-install-all`, `updates-refresh`, regional changes,
delegated tools) admit an operation to the **journal**, run it, and record its
result; any later `snapshot`, `watch-operation`, `ack-operation` or
`updates-cancel` process finds it there. The processes share nothing else: every
journal access takes the directory's `flock`, and each path of the journal is a
**journal file** committed on its own. So the journal file is the bottom layer,
the operation journal the middle one, and the PackageKit and native operations
the top one. Beside them the shell keeps its pages fresh: one `watch-domains` process
tells its `SystemWatchHub` of changes in system services, and each page's discovery
runs a reading command again.

What makes each part correct:

- journal file: what a commit returned for survives; readers see one image;
- operation journal: a journal the code wrote is one the code loads; a result is
  kept until acknowledged; restart guidance has what the updates asked for and no login
  or reboot has satisfied, and nothing nobody asked for; whatever a crash left can be
  closed;
- PackageKit operations: a result is truthful (what PackageKit did, or
  "interrupted"); guidance is never "none" when signals may have been missed; an
  operation is eventually closed;
- journal layout: an interrupted first start can be finished, and never undoes what was
  committed since;
- native operations: a live owner is never terminalized by recovery; a dead one
  eventually is; a verified change is one nobody contested;
- freshness: a page that claims to be fresh learns of every change.

## 2. Plan

Done, bottom layer first:

1. `DurableCell`, `JournalFile` (+ `JournalFileProofs`): one path of the journal.
2. `JournalLayout` (+ `JournalLayoutProofs`): the first start, which creates the paths.
3. `OperationResults`, `OperationJournal`, `JournalHeadroom` (+ `OperationJournalProofs`,
   on both): the records, and the commits they cost.
4. `PackageKitOperation`: owner, recovery, canceler and PackageKit over the
   journal as `OperationResults` promises it.
5. `RegionalCall`, `NativeOperation`, `RegionalMutation`: the operations that hold
   a lease, and the service client under them.
6. `DomainWatch` (+ `DomainWatchProofs`): from a change in a service to the page that
   shows it.

Left to model, in this order:

7. Skipped commits across files: two `JournalFile` instances under one
   completion, to see what "skip if equal" relies on after a power loss
   (`operation_journal.py:2716`).
8. The shell's end of an operation: `SystemOperationProtocol.js` and
   `SystemOperationModel.qml` against the rows `OperationStream` may write.
9. `WatchedProcess` and `QueuedRun`; `UnitEventMonitor`'s reconcile loop.
10. The confirmation race of an update plan.

4 and 5 have `PackageKitOperationProofs`, `PackageKitRestartProofs`,
`NativeOperationProofs` and `RegionalMutationProofs`.

Every safety invariant and action property that a passing run checks is a theorem.
`AlwaysDecided`, `StrandedIsTold`, `NothingMissed` and `AttachedIsServed` are liveness
and stay with TLC.

Every module that will be proved about has its parameters as CONSTANTS with named
assumptions, one action per operation, and no RECURSIVE operator.

## 3. Modules

### DurableCell, JournalFile, MCJournalFile

`DurableCell` is the promise of one path: a value that a commit replaces, and
that a commit in progress may or may not have replaced if it fails.

`JournalFile` is the code of one path: `cache` (what `pread` returns) and `disk`
(what a power loss leaves) are pairs of frames; each process has a program counter
through `_journal_lock`, `_read_journal_image` (two reads), and
`_commit_journal_file_unlocked` (select, `pwrite`, `fsync`, read back). A checksum
is a frame being `Invalid` or not; payloads are model values. `Faults` selects
among `kill`, `short`, `fsync` and `power`. A write that stops short raises without an
`fsync` and leaves nothing (`GiveUp`), a torn frame (`ShortWriteTorn`), or, if it stops
in the zeros that pad the payload, a whole and valid frame nobody synced
(`ShortWriteWhole`). `FlushOutcomes` is what write-back may
have done to each frame: nothing, all of it, or a torn frame. Sequences are bounded
by the constant standing for `JOURNAL_SEQUENCE_MAX`, and the exhausted frame is
reached in the runs.

`JournalFile` refines `DurableCell` (`CellSpec`). `MCJournalFile` adds `world`, what
may break together in one behaviour: processes, writes and fsyncs, or the power, or both.

### JournalLayout, MCJournalLayout

`initialize_journal_layout` takes one step per system call, since it may be
interrupted between any two: `Begin` (open and read every path, then the branch),
`RepairMode`, `CreatePath`, `ChangeMode`, `RewritePath`, `KeepPath`, `WriteImage`,
`SyncPath`, `SyncData`, `SyncLayout`. A file is a sequence of six cells, the places
a write can stop at that the checks tell apart (header, two halves of the digest,
two halves of the payload, second frame), so that `_is_safe_initial_fragment`,
`_is_safe_restart_initial_fragment` and `_is_safe_restart_rewrite_fragment` are
predicates on images and not assumptions. `cache`/`disk` are the two views of a
file, `listed`/`entered` those of the directory; `narrow` are paths whose mode the
umask cut. `Commit` stands for the commands that come after: without it nothing
could show that an initialization leaves their work alone.

Two situations are excluded from the run, and are faults of their own (`orphan`,
`stale`) so that the exclusion is visible; both end in a refusal or a lost path and
are listed as hazards: a power loss that finds files an interrupted initialization
wrote and nobody synced (a path that already reads as expected is adopted without an
`fsync`, `operation_journal.py:2065`), and a new boot that finds a restart path half
of one boot and half of another (`operation_journal.py:2051` refuses it; the test
suite expects that).

A third fault, `blank`, is in the run: the power fails when the size of a file is on disk
and none of its bytes is (`Remains`). The full-length file of zeros is refused by every
later start (`operation_journal.py:1767`, 1885). `NeverRefused` says that this is the only
reason for a refusal.

### OperationResults, OperationJournal, MCOperationJournal

`OperationResults` is what clients rely on: one operation at a time, decided at
most once, its result kept unchanged until taken, nothing admitted before.

`OperationJournal` is the decoded journal. A path holds its payload; a commit
replaces one path atomically, which is what `JournalFile` is shown to provide.
`Decodes` is `decode_journal_state`, split into the parts a reader can name
(`RingSound`, `HandoffSound`, `ActiveSound`, `TimesSound`, `RestartSound`,
`SystemSound`, `BucketsSound`). Actions are the handlers that run under one
exclusive lock (`Begin`, `Advance`, `Prune`, `Acknowledge`), except
`complete_journal_terminal`, which takes one step per commit (`CompleteStart`,
`CompleteApply`, `CompleteTerminal`, `CompleteCursor`, `CompleteHandoff`,
`CompleteClear`; `step` is where it is) so that `Kill` and `Reboot` may come
between any two. A commit that the code skips because the path already holds the
payload is a stuttering step here. Restart strengths are numbers in the order of
`shared.py`. Times are ticks of the monotonic clock; an operation finishes strictly
after its admission, which lies strictly after the previous result (microseconds,
with several `fsync`s in between). With equal times of two different updates
`decode_journal_state` would refuse some journals ("not derivable"); the code
relies on the clock moving.

`owed` is a history variable: what this boot's updates asked for, and when each strength
of user-session restart and the application restart were last asked for.

Left out: wall-clock times, details, errors, generations, transaction paths
(fixed at admission or for display), and slots passed over because their sequence
is exhausted. The identity generator is a choice of any identity that no record
carries.

### JournalHeadroom, MCJournalRing

Adds `spent`, the commits of each path since the last admission, to compare with
`JOURNAL_CONTROL_ADMISSION_COMMITS`. It extends `OperationJournal`, and `journal_ring`
checks both. The restart path, which can take more than its three (section 5), is left out
of the property.

### PackageKitOperation, MCPackageKitOperation

Four kinds of process meet in one journal entry, and no lock is held across a call
to PackageKit:

| process | code | variables, actions |
|---|---|---|
| PackageKit (external) | how `packagekit.py` uses it | `tx`, `log`; `Daemon` |
| owner | `run_packagekit_mutation`, `PackageKitMutation`, `execute_mutation` | `own`; `Owner` |
| recovery | `recover_journal_active`, `probe_operation`, started by every snapshot and every watch | `rec`; `Recovery` |
| cancel control | `cancel_journal_operation`, `cancel_operation` | `control`; `Cancel` |

`active` and `result` are the journal's operation in progress and its handoff.
`holder` is the process that keeps the journal's lock from one step to the next:
everywhere else a handler locks, reads, commits once and unlocks in one step.
A terminal commit, `complete_journal_terminal` and the advances that precede a
recovered verdict are several commits under one lock, and a process may be killed
between them (`FinishSettle`/`RecoverDecide`, `Publish`, `Retire`; `RecoverAdvance`).
The five commits of a completion are two here: the handoff and the end of `active`
are what others can tell apart; `OperationJournal` has all five.

`log[i]` is the sequence of signals PackageKit sent about transaction `i`; the owner
and the recovery each have their place in it, a recovery from the moment it
subscribes, so that what it missed is exactly what came before. Statuses are three:
waiting for authorization, any that proves execution, finished. `Checkpoint` is
`_checkpoint` with its three ways out: written, not written because the owner already
faulted, and turned into a persistence error. A recovery carries its evidence as
`RecoveryEvidence` does (`seen`, `present`, `ran`, `waiting`, `restarts`, `state`)
with the history's answer (`match`) and the failure of the lookup (`failed`);
`Inconclusive`, `StillThere`, `Verdict`, `Intermediate` and `RecoveredSystem` are the
decisions of its last locked section, in the code's order.

Assumed of PackageKit, which is not in the repository: signals of one transaction
arrive in order; authorization precedes execution and restart requests come while it
runs; a history row says "succeeded" once the transaction has; its statuses are known
numbers. A client's subscription and the reply that describes the object are one
step: `probe_operation` buffers what arrives in between and applies it in order.
A recovery may stop watching at any time (a snapshot's probe is bounded, a watch is
not), so one process stands for snapshots and for watches.

Left out: session and application guidance and reboots (in `OperationJournal`), the
progress stream, a watch's own advance from pending to authorizing (the owner records
authorizing before it sends, and nothing says "waiting for authorization" earlier),
the cancel control's checks of role and permission (a live transaction may or may not
pass them: `CancelAbandon` is always possible), and an error code as a signal of its
own (it only decides which outcome the last signal is). A last signal that cannot be
parsed makes the owner record "interrupted" exactly as a lost bus does, and shares
its action.

`asked` and `decided` are history variables.

### RegionalCall, NativeOperation, MCNativeOperation

`RegionalCall` is what a command may rely on from its service client: the stages
`preflight`, `ready`, `sent`, `accepted`, `over`, what the service did, and which
endings each stage allows. It is the seam between the two modules below.

| process | code | variables, actions |
|---|---|---|
| command | `native_command`, `run_regional_mutation`, `run_delegated_launch`, `NativeOperationOwner`, `retain_native_journal_owner` | `own`, `call`; `OwnerStep`, `Stop`, `OwnerDies` |
| service (external) | how `regional_settings.py` uses it | `call`; `ServiceStep` |
| kernel (external) | flock and inotify as the code uses them | `lease`, `notice`; `KernelFreesLease`, `Notify` |
| snapshot | `recover_journal_active`, `native_journal_owner_busy` | `look`; `LookStep` |
| watcher | `watch_native_journal_operation` | `look`, `watch`; `WatchStep`, `Deadline` |
| client | `acknowledge_journal_handoff` | `Acknowledge` |

`active`, `result`, `decided` and `holder` are the journal as in
`PackageKitOperation`; `decided` is its ring of terminals, which watchers read. The
lease outlives its command: a killed command's flock is freed by a step of its own,
and an inotify event may be read before or after it. `Faults` are kills of commands
(`owner`) and of snapshots and watchers in the middle of their commits (`looker`),
commits that fail, output that is closed, and signals to stop.

### RegionalMutation, MCRegionalMutation

The class of that name, one action per callback: it activates the service, pins the
instance, adds its two match rules, pins again, reads the confirmed state, has the
operation put on record (`hook`) between two drains of the main context, sends the
request, reads the value back, confirms the owner and drains once more. The bus
(external) delivers to one peer in order; `wire` is under way, `inbox` has reached the
process. `Drained` is the drain, with its `REGIONAL_CALLBACK_LIMIT`: all of the messages
it handles at once, since an end of the service among them ends the call whatever the
others say, and the others can only add to `dirty`. Other clients write at any moment; an idle service exits
and is started again by whoever asks. `window`, `contested` and `late` are history.

`CallSpec` shows that it takes the steps of `RegionalCall` and no other, so that
`NativeOperation` is about the client the code has.

### DomainWatch

Five parts and the channels between them, for one domain:

| part | code | variables |
|---|---|---|
| service and bus (external) | how `event_monitors.py` uses them | `service`, `rules`, `asked`, `wire` |
| monitor | `AuthenticatedEventMonitor`, `RegionalEventMonitor` | `mon` |
| process | `watch_domains` of `watch_commands.py`: `start`, `retire`, its stdin and stdout | `process`, `stdin`, `stdout` |
| hub | `SystemWatchHub.qml`: attach, detach, routing, retirement, failure | `shell` |
| discovery | `SystemProviderDiscovery.qml`, `SystemDiscoveryCycle.js` | `shell` |

`shell.shown` and `shell.read` say whether what the page shows, and what the read
under way will bring, is what the service has now. Other pages that share the process
are whether any is attached. Assumed: `Qt.callLater` runs before the shell's next
event; a pipe is never full; signals under way to a monitor that disconnects are
dropped; one discovery per domain, as the shell has it.

Definitions whose comment begins with "Mutant:" are the faulty variants that show
each property can fail; no specification uses them. No run checks the `TypeOK`s of
`PackageKitOperation`, `NativeOperation`, `RegionalMutation`, `JournalLayout` and
`DomainWatch` (in `DomainWatchProofs`), which are theorems.

## 4. Runs

| run | question | bounds, and why they suffice |
|---|---|---|
| `journal_file` | do kills, short writes and failed fsyncs, or else power losses, lose or tear anything? | two processes (one pair exercises every lock interleaving), two payloads, sequences to exhaustion |
| `journal_file_killed_writer` | a killed writer and then a power loss? **violated** | the finding of section 5 |
| `journal_layout` | can an interrupted first start lock the user out, or undo a commit? | two data paths: the restart path, whose payload differs by boot, and one that starts empty like all the others; three boots, so that a start may find what two others left; kills, short writes, failed syncs of files and of the directory, power losses, which may leave a path blank |
| `journal_ring` | every kind of operation through a ring that wraps, killed anywhere; commits against the reserve, the restart path's apart | N = 2 slots so that the third operation evicts; four identities; three ticks |
| `restart_guidance` | both session strengths, applications, logins and reboots anywhere | three operations, so that the applied update evicts a contributor; two boots: a record of the old boot in the new one is the only relation boots have |
| `packagekit_recovery` | every fault, an update, its owner and one recovery | one command: every invariant here is about one operation's evidence. Not said here, but in `packagekit_decided`: malformed evidence and a rejected call |
| `packagekit_succession` | does evidence about one operation, or a request to cancel it, touch the next? | two interchangeable commands (hence the symmetry) that may die, one recovery, one cancel control; one signal of progress and one outcome tell their results apart. Refreshes: the history an update asks too belongs to one transaction and is in `packagekit_recovery` |
| `packagekit_decided` | does every admitted operation end with a result? | one command, one recovery, updates and refreshes, under fairness |
| `native_recovery` | one change or launch, one snapshot, one watcher, every fault; truth of the record and liveness | one command: the properties are about one operation; a snapshot and a watcher are the two kinds that recover, and race each other |
| `native_succession` | is the next command safe from what is left of the last? | two interchangeable commands and a watcher that recovers the one and may still carry what it saw into the other; kills of all of them and failed commits |
| `regional_mutation` | does "verified" mean that nobody else wrote? | three values (seen, wanted, another's), three foreign writes (there and back again, and one more), two instances of the service (exit and restart), a callback limit of two, reached |
| `domain_watch` | can a page claim to be fresh and not be? is whoever attaches served? | two instances of the service; a change happens when no message and no record is under way (`QueueMax` 1), since one that is not read yet makes the page read again anyway, while the monitor's setup, a retirement, a routed line and the page's own read may each be half way; the page opens, closes and refreshes, other pages come and go, the process dies, without bound |

In the PackageKit runs `Said` (the signals that may occur) and `Faults` (what may go
wrong) are the bounds beside the sets of processes: each transaction sends a
restart request and a malformed signal at most once, and each command runs once.

The clock, the number of boots and the identities are the only counters of the
journal, bounded by `ClockMax`, `BootMax` and `Ids`. Deadlock checking is on in the
runs of the journal. It is off in the PackageKit, native, regional and domain runs,
where the system may really stop: the commands are finitely many and all have ended,
or nobody has the page open and nothing changes.

### Fairness

The journal's runs assume none: their properties are safety properties.

- `packagekit_decided` (`Fairness`): PackageKit ends and then forgets what it runs;
  somebody keeps looking at the journal, as every snapshot and watch does (`WF` of a
  recovery's steps), and although a lookup may fail and a recovery be killed at any
  moment, not every attempt fails (`SF` of `Attach`, of the history's answer, of the
  decision and of the completion). The owner owes nothing: it may hang or be dead.
- `native_recovery` (`FairSpec`): a live command goes on, because its client has
  deadlines and its output is read or closed; the kernel frees a dead command's
  descriptors; time passes; a snapshot or watcher that started finishes, and a
  watcher's commits do not fail for ever. The service owes nothing. `AlwaysDecided`
  states its own condition: that some snapshot is taken again and again.
- `domain_watch` (`FairSpec`): the process handles what reaches it and has its setup
  deadline; the hub takes the lines that arrive and learns of the start and the end of
  its process. The service, the bus, the user and the reads owe nothing.

### Properties

- `CommittedSurvives`, `ReadersSeeWholeImage`, `NoConflictingFrames`, `CellSpec`: the
  file. `TypeOK` of `JournalFile` carries the bound on sequences.
- `NeverRefused`: whenever nobody holds the lock, a start would be accepted, whatever
  the last ones left, except that a power loss may have left a path blank (and then the
  cursor is not there and no other path is to blame). `CursorLast`: a cursor is never without its data paths, after a
  crash as well. `CommitsStay`: no start takes a path somebody committed to for an
  unfinished one.
- `JournalDecodes`: after every commit and crash the journal passes every check of
  `decode_journal_state`, so that no legal history locks the user out.
- `RecoveryPossible`: the trial decode of `advance_journal_operation` never refuses
  the interrupted result that recovery falls back to.
- `GuidanceKept`: between operations the record asks for at least every restart, at
  its strength, that an update of this boot asked for and no later login satisfied, and
  at most for what was asked; its cutoffs are the last requests. The bounds meet until a
  login comes. After it they may differ: the code clears what the login satisfied when a
  caller reports it, and a request that comes before that report is merged with the old
  ones, at the stronger level. `GuidanceNotReplayed`: a step that files an update adds its
  requests and no more, a new boot clears them, and every other step only takes away.
- `ResultsSpec`, `JournalSpec`: refinements of `OperationResults`, by the journal and by
  the two kinds of operation that use it.
- `WithinReserve`: commits of an operation against what admission reserved for it on
  the active, handoff and cursor paths and on its slot.
- `ResultsTruthful` (PackageKit): no success, cancellation or refusal is recorded that
  PackageKit did not announce. (Native): a change recorded as made was made, one
  recorded as not authorized was not.
- `RestartRemembered`, `NoNeedlessRestart`: a system restart that was asked for is in
  the result, as itself or as "unknown", even if nobody was there to hear it; and a
  harmless end advises none.
- `LiveIsOwned`: the journal shows a transaction in progress while PackageKit works on
  it, apart from an owner that lost the bus (it records "interrupted" and says so).
- `CancelIsAddressed`: a request to cancel is recorded for the transaction that got it.
- `AlwaysDecided` (both): an admitted operation ends with a published result.
- `LiveOwnerKeepsIt`: recovery never ends an operation whose command can still act.
- `EffectIsOnRecord`: nothing is asked of the system that the journal does not say.
- `ResultsAreFinal`: after a result other than "interrupted" the service does nothing
  more for that operation.
- `WatchersTell`: a watcher streams states in an order its readers accept and then the
  result the operation really has. `StrandedIsTold`: it does so even if the event of
  the dead command came before its lease was free.
- `SuccessIsUncontested`, `NothingSentBlindly`, `CallSpec`: see `RegionalMutation`.
- `NothingMissed`: a page that claims to be fresh and is not learns of it.
  `AttachedIsServed`: whoever attaches to the hub gets a ready record or is ended.
  `StoppedIsRetired`: a monitor that stopped is retired before its domain starts again.

## 5. Findings

One, which the run `journal_file_killed_writer` shows. A writer killed between `pwrite`
and `fsync` leaves a frame that the next commit takes for the active one; that commit
overwrites the older frame, the only one on disk, and a power loss can then tear both. The
file is then unreadable, although every earlier `commit` had returned. The changelog calls the
journal "durable, crash-safe". Nobody need be killed: a `pwrite` that stops in the zeros
after the payload raises before the `fsync` (`operation_journal.py:1464`) and leaves a
valid frame as well. With `Faults = {"short", "power"}` and a world that allows both, the
same run ends in the same way.

Facts met on the way that no run of this project refutes a claim with, each listed
as a hazard:

- `docs/P6-SYSTEM-MANAGEMENT.md:125-128` says that nothing "waits indefinitely on
  PackageKit"; the installation does, on purpose (`packagekit.py:885-887`): silence is
  no terminal evidence;
- a third boot that finds a restart path written by two others refuses it
  (`operation_journal.py:2051`), and an interrupted initialization's files are adopted
  without a sync (`operation_journal.py:2065`): the two situations `journal_layout`
  excludes;
- the comment at `operation_journal.py:78-80` counts "at most three" commits of the
  restart path per operation; four are possible (two logins while an update runs, a
  completion killed after it applied its guidance, a third login before it is repeated),
  which matters only at the end of a 64-bit sequence;
- a power loss during the first start that leaves a path with its full size and no bytes
  closes the journal: `_is_safe_initial_fragment` wants at least one byte of what was
  written, so every later start raises "not recoverable" (`operation_journal.py:1767`):
  the exception of `NeverRefused`;
- the hub's "stopped" record can remove the last client of the process without
  stopping it (`SystemWatchHub.qml:97`, against its comment in lines 13-14).

## 6. Proofs

`JournalFileProofs` (for any number of processes, any payloads, any sequence limit):
`TypeCorrect`, `FramesNeverConflict`, `ReadsAreWhole`, and under `Tolerable` (power
losses do not meet killed writers, short writes or failed fsyncs, which the finding
shows to be needed) `CommitsAreDurable` and
`FileImplementsCell`. The inductive invariants are `ParityInv` (a valid frame's
sequence tells its slot, so two frames cannot share one), `LockInv` (who is inside
the lock) and `DurableInv` (which frame on disk carries the promised value at each
point of a commit).

`JournalLayoutProofs` (for any list of data paths with the restart path among them, any
number of boots): `TypeCorrect` under every fault; under `NoOrphans` (the fault of that
name excluded, as in the run) `CursorComesLast` and `CommitsAreLeftAlone`; and under
`NoStale` as well `NothingIsRefused`, which excepts the paths a power loss left blank. The argument has two halves:

- order, `LInv`: while an initialization runs there is no readable cursor until it is
  at the cursor (`RunInv`), and by then every data path reads as initial and is entered;
  a cursor in the directory means that the data paths are entered for good
  (`CursorInv`); once a command may commit, the layout is `Established`, and nothing
  takes that back (`EstablishedStays`), so no initialization writes again;
- shape, `ShapeInv`: until then a file is the first cells of an initial image, perhaps
  followed by zeros (`Laid`), and the restart path may have been begun by several boots,
  but a whole frame is one boot's with the running boot's laid over it up to some cut
  (`Rewritten`). Writing, tearing and losing power keep the shape (`ShapeOverlaid`,
  `ShapePadded`), a reboot keeps it unless the path is `Mixed` (`ShapeNextBoot`), a
  blank file is one until it is written over (`Sound`), and any other
  file of that shape is one that `_is_safe_initial_path_fragment` takes (`ShapeIsSafe`).

`OperationJournalProofs` (for every ring size, any identities, strengths, kinds,
boots and clock): `TypeCorrect`, and `ResultsAreKept`, the refinement of
`OperationResults`. The refinement needs `CompletionInv`: how far the completion has
come, and that a handoff beside an active record names that very record, already
filed in its slot, which is why a repeated completion cannot disturb a result.
`ResultsStand` says what the refinement is for: no decided operation is decided again,
none leaves but behind its own result, and nothing replaces that before it is taken.

In the same module, `JournalsAreReadable`: no check of
`decode_journal_state` ever refuses what the handlers wrote, and `RecoveryIsPossible`,
the trial decode of an advance never refuses the end "interrupted". The checks
relate the guidance of a boot to the updates it came from, and the ring forgets
updates, so `DInv` adds to `Decodes` itself what makes the next commit readable:

- `PlaceInv`, `RingInv`: where the cursor is while an operation is open, and that a
  ring not yet full is filled from slot 0 up to it;
- `OrderInv`: the update applied last is the newest of its boot in ring order, so
  overwriting a slot never takes it away while an older one of its boot stays;
- `ClockInv`: every update of this boot and every cutoff is no later than now, and
  strictly earlier than the end of an undecided operation (this is where the model's
  assumption that the clock moves between two ends is used);
- `BootInv`, `AppliedInTime`: nothing on record is of a later boot than the guidance,
  and an update of this boot is filed only once its guidance is applied.

`Commit` has no trial decode outside `Advance`, so none of this holds because the
model refuses to write: only `Advance` is guarded by `Decodes`, as in the code.

The last part of the module has the two accounts. `GuidanceIsKept` and
`GuidanceIsNotReplayed` follow from `GuidanceInv`: the guidance, with the contribution
of a decided update that is still to be applied (`Due`), settles the debt of this boot;
login evidence commutes with applying it, which is why a completion may be killed and
repeated at any point. For a strength that only earlier updates asked for this needs that
their requests are no later than the cutoff the record has for them (`IsLastDebt`,
`OwedInTime`): a login that takes them away has satisfied them. `ReserveSuffices` follows from `HeadroomInv`: `Effort` is how
far an operation has come through its states and its guidance, every advance that does
not decide raises it, it never exceeds 9, and every repeated commit is free. With the
admission, the last advance and the clearing that makes 12, all of the reserve. It says
nothing of the restart path.

`NativeOperationProofs` (for any number of commands, snapshots and watchers, any kinds
and faults): `TypeCorrect`, `LiveOwnersDecide`, `EffectsAreRecorded`, `ResultsAreTrue`,
`WatchersAreRight`, the action property `ResultsStand`, and `ResultsAreKept`, the
refinement of `OperationResults`. None of these is inductive alone. `IInv` adds, per
actor, what it holds and what the rest must then look like:

- `OwnerInv`: a command that still records has the lease and its operation is the one
  in progress, in the state it last wrote; one that can no longer act (`Powerless`) has
  a service client that is over or can only report;
- `CallInv`: how far the service client has come for each place the command can be;
- `JournalInv` and `DecisionInv`: who keeps the journal's lock, that a terminal record
  has its decision, and what a decision says about the service;
- `LookInv` and `HolderInv`: what a looker saw was admitted, and only one that found
  the operation in progress under the lock publishes it;
- `WatchInv`: a watcher's target is known, and its stream is not ahead of the record.

`RegionalMutationProofs` (for any values, any number of instances of the service and of
writes by others, any `CallbackLimit`): `TypeCorrect`, `VerifiedIsUncontested`,
`NothingIsSentBlindly`, and `CallIsKept`, that the client takes the steps `RegionalCall`
allows, on which the proofs of `NativeOperation` rest. The invariant `RInv` is about
`Q`, everything under way to the client in order:

- `Dialogue`: one question at a time and at most one answer under way; none while the
  client waits for nobody;
- `Pinning`: an instance number is never used again, and once the owner was read a
  second time with both match rules in place, the end of the pinned instance is under
  way or known (`Followed`). Reading it only once would leave a gap before the rule;
- `Answers`: what an answer under way says of its sender, still true when it arrives:
  a reply to the request means that the change was made, a refusal that it was not;
- `Doubted`: if another value was written in the window, the client is `dirty`, or a
  message that makes it so is under way, and once the verifying read was answered it
  comes before that answer (`InTime`). The service sends a change before it answers for
  the state that has it, and one peer's messages stay in order: this is where the proof
  needs that. So the answer cannot be taken before the warning;
- `Unsent`: a change that arrived while the hook ran is still in the inbox when the
  second drain looks.

`PackageKitOperationProofs` (for any number of commands, recoveries and controls, any
signals and faults): `TypeCorrect`, `ResultsAreTrue`, `LiveWorkIsOwned`,
`CancelsAreAddressed`, and `ResultsAreKept`, the same refinement. Nobody here holds a
lock while PackageKit is asked, so `IInv` is about evidence that may be stale:

- `LogInv`: the phase of a transaction and the signals sent about it agree; an end
  comes once, and no execution is announced after it;
- `OwnerInv` and `RecoveryInv`: what a process is about to record, PackageKit has
  announced; an execution it has heard of is on record, or it knows that it could not
  write it (`faulted`) or still has to (`due`). Without the last part a refusal heard
  after an execution would be recorded as a refusal;
- `LockInv`: whoever keeps the lock between two steps decides or publishes the
  operation in progress, and nothing is published beside an open one;
- `ControlInv`: a control that has dispatched its request aims at a transaction that
  was asked to cancel.

`PackageKitRestartProofs` adds `RestartsAreRemembered` and `NoRestartIsInvented`. Both
are about what somebody did not hear, so `GInv`, on top of `IInv`, says what each
recorder is entitled to conclude:

- `TailOK`: before the end of a transaction PackageKit has said all it had to say; a
  restart is asked for by an update that runs, a refusal follows the prompt or a run;
- `RecordOK` and `ListenerOK`: the record in progress asks for no more than PackageKit
  did, and, while its owner can write, for no less than the owner has heard; what the
  owner calls a cancellation at the prompt was one;
- `EvidenceOK`: a recovery that has heard the outcome has recorded every execution
  before it, and knows that PackageKit was waiting if it never did anything else;
- `DecidedOK`: a decision is taken when PackageKit is done, or it is an owner's
  "interrupted", which for an update asks for a restart in advance.

`DomainWatchProofs` (for any bounds on the service and the queues): `TypeCorrect`, and
`RetiredBeforeRestart`. A subscription is a token that passes between three parties which share no memory, so
the invariant says where it can be:

- `InOnePlace`: as one "start" in the pipe to the process, as a monitor, or as one
  "stopped" in the pipe back, and never in two of these;
- `Accounted`: while it is anywhere, the hub has it as subscribed or as retiring, never
  as both, unless the process is being stopped as a whole; so it is enough that the hub
  writes "start" only when it has it as neither;
- `Silent`: without a monitor no rule, question or message is left on the bus.

What the many handlers of the shell do to a subscription is one of four things (`Handles`:
nothing, start it, retire it, stop the process); each handler is proved to do one of them,
and `TurnKeeps` is the only lemma that relates them to the invariant. Routing "stopped"
is none of the four: it may end a retirement and start again in the same turn
(`AfreshKeeps`), which is right because the record it consumed was the only token.

In `PackageKitOperationProofs` the step lemmas come in the order of the argument: what a step does to a log
(`LogStep`) and to a record (`RecordStep`), then that evidence nobody touches stays
good (`OwnerKept`, `RecoveryKept`), then each actor's own steps.

Constants are assumed to be what the named ASSUMEs say and nothing more: the
`NoneAssumption`s (None is no identity, operation, handoff, decision or state) are the only ones
without a counterpart in the code, where None is a value of its own.

Two things about the prover show in the modules. Version 1.4.5 loses a field when SMT
is given `[f EXCEPT ![i].a = x, ![i].b = y]` (it then proves FALSE), so every update of
several fields of one element is written `[f EXCEPT ![i] = [@ EXCEPT !.a = x, !.b = y]]`,
in the specifications too. And in TLA+ a CASE whose guards overlap may take any
of the arms (TLC takes the first), so the guards of every CASE exclude each other.

Only model-checked: liveness (`AlwaysDecided`, `StrandedIsTold`, `NothingMissed`, `AttachedIsServed`), which with
ENABLED is out of the prover's reach, and the violated run.

## 7. Not modelled

`components` in `PROJECT.json` has every part with its status. Of the parts modelled,
these are left out:

- parsing, encoding and formatting: the codecs' text, D-Bus variants, rows and bundles;
- the `openat` chain of the journal directory with its checks of owner, mode, links
  and identity, which only refuse;
- the progress rows of an operation stream, the shell's parser of it and
  `SystemOperationModel`;
- `UnitEventMonitor`'s reconcile loop and the accounts, mounts and update monitors;
- the clients that only read (`RegionalRead`, `NtpRead`, the discovery and simulation
  of updates), and snapshots apart from the recovery and the pruning they run;
- the models of the pages, `WatchedProcess` and `QueuedRun`;
- the confirmation of an update plan.

Of the parts not modelled, `dwm.c`, the panel updater and the session scripts could
follow; the installer, the configuration's parser and the widgets are sequential data
work that a state machine says nothing about.
