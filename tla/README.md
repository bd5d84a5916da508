# Boxwarden: a TLA+ verification project

Boxwarden keeps disposable Linux guests ("sessions") on a Mac: a command
line, one detached supervisor process per running session, Tart virtual
machines, and managed workspace volumes that outlive a session. This directory
holds TLA+ models of the part that must not go wrong when processes are killed,
calls time out and commands are repeated, TLC instances of them, and TLAPS
proofs. Paths below are relative to the repository (`src/` in `PROJECT.json`).

## 1. Inventory

### Components, state, operations

| Component (package) | State it keeps | Operations |
|---|---|---|
| Session commands (`internal/session`) | none of their own; work on the records | create, start, stop, delete, rebuild, run a recipe action |
| Session records (`session/record.go`, `store.go`) | one JSON file per session: state, identity, start generation, provenance | load, atomic save, remove |
| Locks (`lock/filelock.go`, `workspacex/locks.go`) | kernel file locks: transition and session lock per session, use lock per volume, one storage lock | acquire until a deadline, release, release by death |
| Workspace volumes (`internal/workspacex`) | one record per volume: attachment, Use (the generation that may write it), Pending marker; the disk images | attach, detach, reserve and release Uses, admit launch disks, delete gate, export, import, format, promote |
| Supervisor (`internal/supervisor`) | the generation's directory: request, `generation.lock`, live artifacts, cleanup residue | publish or admit, launch, claim, serve, clean up, prove quiescence |
| Runtime owner (`internal/sessionruntime`) | in memory: the machine's process, readiness, credentials | start, ready, stop, wait, maintain certificates |
| Control socket (`supervisor/control.go`) | one connection at a time | snapshot, ready, stop, actions, clipboard |
| Backend (`internal/backend/tart`) | Tart's objects and the child process | clone, list, run, stop, delete |
| Serial runtime, guest bootstrap (`serialx`, `guestproto`) | the serial subtree; claims and receipts in the guest | pump, bootstrap, action claim and receipt |
| Golden bases, base build (`golden`, `basebuild`) | revisions and a current pointer | build, register, select |
| SSH trust, projects, host installation, clipboard, status, CLI | see `PROJECT.json` | see `PROJECT.json` |

### How they interact

A command takes the session's transition lock for its whole duration and the
session lock only around the record. Between the two it reserves Uses under the
volume and storage locks, publishes a generation directory, spawns a detached
child and waits for a snapshot over the control socket. The child claims the
generation's lock, is admitted by `AdmitLaunchDisks` (volume locks, then the
session record again), creates its serial subtree, launches the machine and
keeps the volume locks until it has reaped it. A stop makes its intent durable,
asks the supervisor, or proves from an absent namespace that there is nothing
left to ask, releases the Uses and only then publishes `stopped`.

Nothing but files and kernel locks is shared: no process can rely on another
one being alive, and every file may have been left by a process that is not.

### What is hard

* any process may be killed between any two system calls; its locks go with it,
  its files and its virtual machine do not;
* a batch of record writes can be cut short after any prefix;
* the observation of the backend is stale when used, and Tart may call a live
  machine stopped;
* a child of a start that was given up may wake up after a stop, a delete or a
  newer start;
* a reply is lost although the work was done, and the command is repeated;
* paths are looked at one after the other while their owner renames them; a
  lock file is opened in one step and locked in another.

`PROJECT.json` lists these as hazards, each at the line where it bites, with the
properties that would catch it going wrong.

### What makes each component correct

* Sessions: a durable `stopped` is a promise that nothing that was given volumes
  runs; an object never runs twice with volumes; nothing is left that no record
  names; a committed start keeps its generation; repeated commands converge.
* Volumes: one writer; a Use is released only after the reap; the `starting`
  record implies a complete batch.
* Generations: one runtime; exact residue wherever cleanup stops; proof of
  quiescence is sound; cleanup can always be finished.
* Rebuild: from the reservation on the old system never runs; the object the
  record names exists; nothing is leaked; Use and pin follow the cutover.
* Actions: the command of a step runs at most once per system or generation and
  in the order of the recipe; a recorded success has a receipt in the guest; the
  planner never meets attempts it would refuse for ever.
* Export and import: a volume is held and released exactly; published output is
  the selected snapshot; imported bytes are in the workspace only after the
  journal says so; verification rests on a snapshot that held exactly those bytes.
* Format: a volume is formatted at most once, is available only when qualified
  and durable, and a verified format is in the end published.
* Prepared and golden bases: a cached candidate was built from the inputs of its
  key, and a clone of it was qualified; what is handed out is unaltered since its
  admission; the current pointer resolves.
* Projects: a replacement is never lost sight of; the receipt is durable before
  the bookmark; durable state only moves forward.
* Runtime owner and control server: no circular wait; credentials are gone after
  the reap; a reported stop and a reported clipboard outcome are true.

## 2. Modules

| Module | Models | Notes |
|---|---|---|
| `SessionLifecycle` | commands, records, attachments and Uses, supervisors and machines of many sessions | a generation's namespace in one piece; several supervisors may work on it |
| `MCSessionLifecycle` | TLC instance | symmetry only |
| `GenerationNamespace` | one generation's paths, lock inodes, supervisors and the command working on it | one step per system call |
| `SessionRebuild`, `MCSessionRebuild` | one session's rebuild journal with its record, Use, host-key pin and launch | one supervisor per launch |
| `WorkspaceExport` | export of a stopped volume and its recovery | composed into the next |
| `WorkspaceImport`, `MCWorkspaceImport` | import into a running session, verified through an export | extends `WorkspaceExport` |
| `ActionOnce` | abstract: what recipe actions promise | no code of its own |
| `ActionAttempts`, `MCActionAttempts` | attempts on the host, control call, claim and receipt in the guest | implements `ActionOnce` |
| `WorkspaceFormat` | creation, format, promotion and legacy binding of a volume | syncs and power loss |
| `PreparedBase`, `MCPreparedBase` | base build, qualification, cache, golden registration | syncs and power loss |
| `NamedProject`, `MCNamedProject` | the project directory above a session and its volume | syncs and power loss |
| `RuntimeControl` | the threads of one supervisor and its control server | composed into the next |
| `ClipboardTransfer` | a clipboard write from command to guest | extends `RuntimeControl` |
| `SessionLifecycleProofs`, `SupervisorProofs`, `SessionRebuildProofs`, `WorkspaceTransferProofs`, `ActionAttemptsProofs`, `WorkspaceFormatProofs`, `PreparedBaseProofs`, `NamedProjectProofs` | theorems about the module they extend (section 5) | TLAPS; `WorkspaceTransferProofs` extends `WorkspaceImport`, `SupervisorProofs` extends `GenerationNamespace` and `ClipboardTransfer` |

The invariant of a module (`NamespaceInv`, `RebuildInv`, `TransferInv` and so
on) is a conjunction of named parts that stand after the actions: the type
invariant, the promises, and what the parts of the state say of each other
(`...Exact`). It is inductive, so that a reader finds there what each step of
the code may rely on; `session_batch` and the other runs check it on small
instances and the proof modules prove it.

### SessionLifecycle

| Variable | In the code |
|---|---|
| `rec` | session record: state, identity, generation (`session/record.go`) |
| `att`, `use` | attachment and Use of a volume record (`workspacex/record.go`) |
| `vm`, `used`, `bound` | Tart objects by identity; identities and generations are random and never drawn twice |
| `ns` | generation directory and cleanup residue, in one piece; `stranded` is residue that took another supervisor's live artifacts with it |
| `sup`, `serves` | phase of a supervisor process and the generation it was spawned for |
| `atpath` | supervisors whose lock descriptor is the file the canonical path names |
| `disks`, `running` | by supervisor: leases handed to its launch; machine processes alive |
| `pc`, `tgt`, `exp` | a command's next step, its session, the record it last loaded |

The locks are functions of `pc` (`TransitionPCs`, `SessionPCs`): a command that
dies drops them, which is what a kernel lock does. A step of a command is what
happens between two points at which another process can interfere: releasing a
lock, a durable write followed by a backend call, a call to the supervisor.
`Abort` ends a command at any of them and stands for every error return, every
deadline and a kill. Batches take the set `W` of records that were written
before the batch ended. `OwnerLost` kills a supervisor in any phase and leaves
what `Leftover` says that phase may leave; the machine goes on without it.

A supervisor opens the generation's lock (`OwnerOpen`) and locks what it opened
(`OwnerClaim`) in two steps. When the owner cleans up in between, the lock is on
a file no path names (`k` is not in `atpath` any more), it keeps nobody out, and
a retry may publish the generation again and spawn another owner. From there on
two supervisors admit disks, make the serial subtree, reap and clean up in the
same namespace: only the leases of the volumes, the exclusive creation of the
serial subtree (`OwnerLaunch` from `published` alone) and the comparison of the
retained lock with the path (`OwnerCheck`) stand between them. `OwnerCheck` and
`OwnerClean` are apart because a launch may come between the check and the
rename. Names of supervisors are used again once process and machine are gone,
so their number bounds how many exist at one time.

Left out: the `failed` state, which no code path writes; the legacy record
version, whose upgrade is a save of the same fields; the readiness detail;
mount paths and filesystem identities; the rebuild journal (sessions here have
none, see `SessionRebuild`). Base selection and host checks are commands that may fail.

### GenerationNamespace

`SessionLifecycle` takes the namespace as one piece that is published, checked
and cleaned in one step each. What that leaves out is the subject of this
module. It keeps one generation and looks at `supervisor/generation.go`, `exact.go`,
`supervisor.go` system call by system call: `canon` is the canonical directory,
`clean` the directory cleanup renames it to, `marker` the lock renamed beside
it, `holder` the flock of every lock inode, `fd` the inode a process opened.
The command's probe of the namespace (`SeeCanonical`, `SeeDirectory`,
`SeeMarker`, `SeeEntries`, `Probed`) is shared by all the callers of
`classifyExactGeneration`; `back` says which one it is. `leased` says whether
the session has volumes: their locks are a second barrier between supervisors.

The number of supervisors spawned for a generation is not bounded: `Unborn`
makes the name of a process that is gone available again, so that `Kids` bounds
only how many exist at one time. Lock inodes are never reused, and `IsFresh`
takes the next unused one in a fixed order, since unused names do not differ.

Left out: file modes, ownership and ACL checks; names that do not belong to the
namespace; the durability of a rename before its directory is synced.

Two supervisors may believe they own the generation, here as there: see the
findings. It is one again, within the bounds, when `KidClaim` compares the locked
inode with the path.

### SessionRebuild

A rebuild replaces the system disk of a stopped session. `jr` is the journal
file (`session/rebuild_journal.go`), `rec` what the session record says of the
active system, `exists` Tart's objects, `use` the object the Uses of the
session's volumes name, `pin` the object whose host key is pinned, `torn` the
objects whose pin was being written when the host died, `sup` the supervisor of
the launch with the journal it loaded, `up` the machines that run, `kept` the
journal a project retains as the witness of its replacement. `cur` and `jn` are
what a command loaded and uses later.

`execute` is a chain of phases, and each takes the transition lock anew:
`ExecuteBegin`, `ExecuteNoJournal` or `ExecuteResume` (no lock), `Reserve` or
`PrepareResume`, `PrepareClone`, `PrepareCloned`, `CutoverBegin`,
`CutoverRecord`, `LoadCandidate` (no lock), the start, `ConfirmReady`,
`RetireBegin`, `RetireDelete`, `RetireClear`. `Abort` ends a command after any
of them. Start, stop, delete and create of the same session are actions of this
module too, reduced to what a rebuild can notice. The journal is created in
place, so a kill may leave it unreadable (`ReserveTorn`), which blocks the
session; so may a pin (`SupTorn`). Identities are random, so `IsFresh` draws the
unused ones in a fixed order; a command forgets what it loaded once no later
step reads it.

Left out: recipe intents (a base stands for base and recipe); sessions without
volumes; the gates of attach, import, export and actions. A supervisor that is
refused simply ends; its generation is the subject of `GenerationNamespace`.

### WorkspaceExport and WorkspaceImport

`vol` is the volume record (attachment, Use, Pending marker), `disk` the raw
image (one mark per selectable directory, and whether its superblock is clean),
`jr` the export journals, `snap` the private copies, `spool` what an inspector
wrote, `dest` the destination directories, `helper` how many inspectors of a
transaction exist, `lock` and `xlock` the volume's and the transactions' locks.
An operator's process (`op`) runs one command at a time: the snapshot
(`CreateRead` to `CreateFinish`), its recovery (`Recover...`), the inspection and
the publication. `Fail` and `Crash` end it at any step; what it wrote stays. The import adds `src` (captured
host trees), `ij` (import journals), the `client` and the `owner` that performs
the transfer inside the supervisor and survives the client. `checkBindings` and
the two journals' phase rules are predicates of their own, because every writer
goes through them.

`ReserveUse` and `ReleaseUseAfterObservedStop` stand for the step of a start's
(`prepare_start.go`) and of a stop's batch (`release_uses.go`) for this volume;
the functions of these names check the same but have no caller outside tests.

Left out: the walk over the tree and its limits, the stream format, SFTP; a
request that is still queued at the control socket when its client dies. A
digest stands for the marks it covers.

### ActionOnce and ActionAttempts

`att` is the attempt files, `claim` and `receipt` the guest's files of an
attempt, `queue` and `srv` the control server, `helper` the guest helpers, `op`
the host commands. `runs` and `ended` are history: which commands were started
and which exited successfully. A call can be lost or expire while its helper
goes on, the guest may reboot between claim, command and receipt, the machine
may vanish, the host command may die with its attempt reserved, and a rebuild
may replace the system meanwhile. `ActionOnce` says what all this must amount
to, in four actions: a command runs only if the same work never ran before and
everything due earlier is settled, ends, is confirmed, or is given up by the
operator. `Promise == INSTANCE ActionOnce` maps the confirmed occurrences to the
attempts recorded `succeeded` and the skipped ones to those recorded `skipped`;
`RunsOnce` is its specification, checked as a property.

Left out: the wire encoding, and the action's arguments and output; a failure
between the unlink of a receipt's temporary name and the sync of its directory.

### WorkspaceFormat, PreparedBase, NamedProject

These three are about files published by rename, and keep every such file as a
pair: what processes see (`mem`) and what a power loss is sure to leave (`dur`).
A sync of the directory makes them equal, may fail, and may be lost.

`WorkspaceFormat` has the journal `jr`, the image `raw`, the workspace record
`rcd`, the legacy binding `bind`, the formatter machine `vm`, two creators and a
session that may attach the volume. A volume of an older release (`ver = 1`)
starts out verified and may be bound; its device number may change (`drift`).

`PreparedBase` has the attempt journals, the cache of prepared records with its
temporary links, the candidate machines and their disks (`ver` stands for the
content), the qualification clone and its evidence, seed scripts that may
outlive their command, and the golden records with the current pointer. The
operator edits sources, alters a candidate and registers revisions in between.

`NamedProject` has the project directory (bookmark, pending replacement,
receipts, setup profile), the session record and rebuild journal of that name,
and the volume. Session commands take no project lock, so that an operator may
start, stop, rebuild or delete the session between any two steps.

Left out: the formatter guest and the installer (external); rendering of seeds;
setup history and listings; a change of the candidate between the qualification
of its clone and the hash that `Prepare` records of it, which would be admitted
with that hash. The operator of the model alters a candidate only later.

### RuntimeControl and ClipboardTransfer

Four threads share the runtime owner: `main` (`supervisor.Run`), the control
`server`, the `waiter` in `Owner.Wait`, and certificate maintenance (`maint`).
`readyMu` is the mutex held across a whole `Ready`, inspection, import or
cleanup; the inner mutexes cover one step each. `stop` is the closure `Run` and
the server share: cooperative request, window, forced stop, bounded wait. The
composed module follows one clipboard write over the same server, `ssh`, the
guest helper and the desktop owner it forks, with the lease and receipt pipes
between those two.

Left out: the snapshot call and the read direction of the clipboard, which
change nothing; desktop discovery; the host pasteboard; framing; an alarm that
fires between the return of `os.fork` and the end of its `try`, which would report
an error beside a desktop owner that was forked.

## 3. Runs

| Run | Instance | Shows |
|---|---|---|
| `session_batch` | 1 session, 2 volumes, 2 commands, 1 identity, 3 generations, 2 supervisors at a time; 395,981 states | batches cut short, starts and stops repeated, supervisors lost: the inductive invariant, `StartedUsesComplete`, `UseReleasedAfterReap`, `GenerationStable` |
| `session_handoff` | 2 sessions, 1 volume, 1 command, 2 identities, 2 generations, 2 supervisors at a time; 1,349,254 states | a volume handed between sessions: `RunningDisksReserved`, `StoppedMeansQuiet`, `OneLaunchPerObject`, `NothingOrphaned` |
| `session_liveness` | 1 session, 1 volume, 1 command, 1 identity, 1 generation, 2 supervisors at a time; 11,053 states | `RetryCompletes`, `StopConverges` |
| `generation_safety` | 2 supervisors at a time, 3 lock inodes; 583,378 states | `OneRuntime`, `StopProved`, `NamespaceInv`, `OwnedIntact`, `ResidueFinished` |
| `generation_owner` | 2 supervisors at a time, 2 lock inodes | counterexample to `OneOwner` |
| `rebuild_safety` | 2 commands, 3 objects, 2 bases; 3,290,304 states | `OldNeverRuns`, `SystemKept`, `RebuildInv` (nothing leaked), `BindingsFollow`, `PreparedExact` |
| `workspace_transfer` | 2 processes, 2 exports, 1 import, 1 generation, 1 fault; 718,729 states | `TransferInv`, `PublishedExact`, `IntentBeforeEffect`, `VerifiedEvidence`, `PendingReleaseExact` |
| `action_attempts` | 2 commands, 2 attempts, 2 helpers, one step per phase, 2 generations, 2 systems, 1 fault; 260,292 states | `RunsOnce` (the refinement), `SuccessHasReceipt`, `PlanExplained`, `ActionInv` |
| `workspace_format` | 2 creators, 4 faults; 3,783 states | `FormatInv`, `AvailableQualified`, `VerifiedKept` |
| `prepared_base` | 2 attempts, 2 keys, 2 faults, 1 act of the operator; 1,994,918 states | `PreparedInv`, `ReturnedIntact` |
| `project_bindings` | 3 objects, 2 bases, 2 setups, 1 fault; 1,221,578 states | `ProjectInv`, `ReceiptBeforeBookmark`, `DurableForward` |
| `runtime_control` | 4 threads, 1 client connection at a time; 1,229,900 states | `ControlInv`, `NoCyclicWait`, `HonestOutcome` |

Bounds. Two commands are enough for every pair of lock holders and for one
command to repeat what another left. Two volumes are the smallest batch with a
proper prefix. Three generations allow a Use of a generation that was never
committed, one that was, and its successor. Two sessions and one volume are the
smallest handoff; commands of different sessions share the volume and storage locks,
which none keeps beyond a step, so that one command at a time, which may end
anywhere while supervisors and machines go on, is enough there. Recreating a
session under a second identity is in the handoff; a second volume adds only
batches to the liveness run, and an interrupted batch is repeated whole. The
larger instances (2 commands in the handoff, 2 identities in the batch, 2 volumes
in the liveness run) pass as well, with 2,895,935, 1,854,833 and 22,353 states.
Two supervisors at a time are the owner of a republished lock
and one still on the unlinked one; three inodes allow two republications. Three
objects are an old system, its candidate and the candidate of a second
replacement. Two exports are the one under recovery and the one begun after it,
or the one that verifies an import. Two attempts are an attempt and its
replay or successor, two systems and two generations the ways in which work
becomes the same or different; a fault is a death, a reboot or a lost call, and
one may happen at any step. In `WorkspaceFormat` four faults allow two failed
retries each followed by a power loss. In `PreparedBase` two faults allow a kill and
the power loss after it. A client's connection identifier is used again after
its call, so one connection bounds how many wait at one time, not how many come;
a second one waiting changes nothing the server does with the first. The attachment limit of four is `MaxAttach`; it
equals the number of volumes in the instances.

Identities, generations, inodes, attempts and faults are drawn from finite sets,
so a behaviour may come to an end when they run out, a supervisor whose machine
was reaped ends, and the programs may simply be left alone. Deadlock is therefore
not checked; what could block for ever is stated as `NoCyclicWait` and by the
liveness properties.

Fairness. In `SessionLifecycle`: a supervisor that is scheduled proceeds and a
machine asked to stop ends, because the code falls back to a forced stop (weak
fairness on `Proceeds`, for each supervisor); every control call has a deadline (weak
fairness on `Timeout`); an operator repeats a command and the repetition is not
cut short at the same step for ever (strong fairness on the steps of the
repeated commands). Nothing says that a start succeeds, that a supervisor
survives, or that a killed supervisor's machine ends. In
`GenerationNamespace`: scheduled processes proceed, and commands are in the
end not interrupted any more (`Patience`). `ResidueFinished` also excuses
behaviours that have used up the inodes of the instance or have every supervisor
name in use, a session that is being stopped, and residue that holds live
artifacts, which the code leaves to an operator. In `WorkspaceFormat`: commands
run on, a lock that keeps becoming free is taken (the code polls until its
deadline and the operator repeats the creation), and the formatter's machine,
which has a time limit, ends. The other modules state no fairness and no
liveness: in `RuntimeControl` the absence of circular waits stands in for it, as
liveness over the composed state space is beyond these runs.

Every property of a passing run has a mutant in `PROJECT.json`: the change in a
definition, of the kind a slip in the code would make, that breaks it. They
stand before the actions in each module.

## 4. Findings

* `OneOwner` (`generation_owner`). `acquireGenerationLock` opens
  `generation.lock` by path and locks the descriptor without looking at the path
  again. A child of an interrupted start may lock an inode its owner has just
  unlinked, while the child of a retry owns the republished one. A comment says
  only one child can own the generation. What limits the harm is the exclusive
  `Mkdir` of the serial subtree: `OneRuntime` holds. `SessionLifecycle` has the
  second owner too, and what it shows of sessions, and `SessionLifecycleProofs`
  proves, holds with any number of them.

Observations made while modelling, for which no run is kept:

* For a session without volumes the second owner above may launch after the stop
  of the first was published: admitted while the record said `starting`, it waits;
  the first owner launches, is stopped over the control socket and answers at its
  reap, before it has removed the namespace; `stopped` is published; the second
  owner now makes its serial subtree and launches. TLC finds this trace in
  `SessionLifecycle` when `StoppedMeansQuiet` is stated for every launch, and a
  new start may then run the object a second time. With volumes the second owner
  is not admitted while the first has the leases, and the stop finds the leases
  taken when the second has them: `StoppedMeansQuiet`, `OneLaunchPerObject` and
  `StopProved` are therefore about launches that were given volumes.
* A start that looks on either side of the owner's cleanup rename returns an
  error, or publishes beside the residue, where comment and recovery document
  speak of contending and of re-entering admission. A repetition succeeds.
* `execute` of a rebuild compares the requested base with a record it read
  without a lock; two commands for the same base may replace the system twice.
* `golden/register.go` 155-199: if the sync of a new record's directory failed,
  the retry finds the record, does not sync it again, and publishes the pointer.
  `CurrentResolves` in `PreparedBase` excuses exactly those revisions (`torn`).
* `projectx/replacement.go`: after a power loss the unlinked pending intent may be
  back beside its completed bookmark. This is safe; the project asks for
  `project rebuild retry` once more.
* An intent whose first sync failed is loaded by `project rebuild retry`
  (`app/project_rebuild.go` 21-44) without another sync and is driven to the
  cutover. A power loss may then take the intent, and the retry, left with a
  journal past its preparation or with none, refuses (49, 51).
  `ReplacementFound` is about intents that were reported durable.
* Guest receipts and the legacy binding are published by link and unlink; a death
  between the two leaves two links, which every later read refuses. In
  `ActionAttempts` this is the receipt `linked`, in `WorkspaceFormat` the binding
  `linked`: nothing is taken for granted, but the attempt or binding stays stuck.
* The clipboard endpoint's comment says a busy target must fail and not queue; the
  connection does wait in the socket's queue, until its own timeout.

## 5. Proofs

Every safety invariant and every action property that a run expects to hold is
proved, for every value of the constants, and so is the refinement of
`ActionOnce`. Each proof module states, from the assumptions of
its component alone, that the invariant of section 2 is inductive, and derives
the promises from it.

| Module | Theorems | For any |
|---|---|---|
| `SessionLifecycleProofs` | `Invariance`, `TypeCorrect`, `Inductive`, `DisksReserved`, `StoppedQuiet`, `OneLaunch`, `NoOrphans`, `StartedComplete`, `ReleasedAfterReap`, `StableGeneration` | sessions, volumes, commands, identities, generations, supervisors, attachment limit |
| `SupervisorProofs` | `NamespaceInvariance`, `OneMachine`, `StopIsProved`, `OwnedKept`; `ControlInvariance`, `NoDeadlock`, `OutcomeHonest` | supervisors, lock inodes; connections |
| `SessionRebuildProofs` | `RebuildInvariance`, `SystemIsKept`, `BindingsAreFollowed`, `OldStaysStopped`, `OnlyThePrepared` | commands, objects, bases |
| `WorkspaceTransferProofs` | `TransferInvariance`, `PublishedIsExact`, `IntentIsFirst`, `VerifiedIsEvident`, `ReleasedExactly` | processes, exports, imports, destinations, generations, faults |
| `ActionAttemptsProofs` | `ActionInvariance`, `SuccessIsReceipted`, `PlanIsExplained`, `AttemptsRunOnce` | commands, attempts, helpers, recipe steps, generations, systems, faults |
| `WorkspaceFormatProofs` | `FormatInvariance`, `Qualified`, `VerifiedIsFinal` | creators, faults |
| `PreparedBaseProofs` | `PreparedInvariance`, `ReturnedIsIntact`, `RecordsAreFinal` | attempts, keys, faults, acts of the operator |
| `NamedProjectProofs` | `ProjectInvariance`, `ReceiptIsFirst`, `DurableIsForward` | objects, bases, setups, faults |

Assumptions. They say that `None` (or `Cli`, `NoCall`) is not one of the names
it stands beside and that the bounds are natural numbers; `ExportAssumption`
also keeps the runtime's and the client's names apart from those of processes,
and `ActionAssumption` asks for one system object. They hold of any way of
naming these things in the code; TLC evaluates them in every run.

### Why the invariants are needed

`SessionLifecycle`. `StoppedMeansQuiet` could be broken by `StopPublish` if a
stop could reach `publish` while a machine with volumes runs, so `FinishProved`
says that a stop past its proof has nothing active with volumes. It has one
exception, and only before the release of the Uses: a second owner that was
admitted and found its namespace absent. It can no longer launch, as nobody
publishes a generation that is being stopped, and its leases make `StopRelease`
wait. `FinishProved` rests on `NamespaceExact` (a machine has its artifacts in
its namespace, and one supervisor at most has any), on `CommandsExact` (at most
one command works on a session and what it loaded is what is on disk: the
content of the lock discipline) and on `LeasesReserved`. Whoever is active holds
the leases of all the volumes reserved for its generation, and no two supervisors
hold one: so the launch a stop was answered for was the only one with volumes.
`LockExact` says that the file at the path has one holder at most and that only
it is past the check of its cleanup, without which a second owner could take the
namespace away from under the first's machine. `ActiveRecorded` says that
whatever is active with volumes is named by a record; with `RecordsExact`, which
makes identities and generations unique to a record, it yields
`OneLaunchPerObject` and `StoppedMeansQuiet`. `LeasesReserved` also carries
`RunningDisksReserved` from admission on, before the machine runs.
`NothingOrphaned`, `UsesBound` and `StartedUsesComplete` are the volumes' side
and need each other.

`GenerationNamespace`. A command looks at the namespace in several system calls
and acts on what it put together. `CliExact` says what of it is still true:
only the command publishes, so what it saw absent stays absent, while what it
saw present may be cleaned away. `ArtifactsExact` gives every machine its
artifacts in one of the two directories, of which only one can hold any: that
is `OneRuntime`, and it holds although two supervisors may both own the
generation (section 4). `StopExact` says a probe that found nothing excludes a
later launch when the volumes' locks are taken.

`SessionRebuild`. `OldNeverRuns` needs that a launch is of the object the record
names (`LaunchExact`) and that the old system waits until the record is switched
(`OldWaits`, `JournalExact`); `SystemKept` and `BindingsFollow` are inductive
only together with `RebuildInv`. A command that holds the lock acts on the
journal it loaded (`HeldExact`, `CommandExact`), and nobody else changes it
(`OneHolder`). What a command loaded without the lock is used only after it is
compared again, which the proof of every phase has to find.

`WorkspaceExport` and `WorkspaceImport`. `CopyExact` ties the journal's claim, the
private copy and the volume together while the marker is durable;
`LockExact` excludes the machine and other commands meanwhile; `SpoolExact`
makes the one inspector follow from the ownership of the spool. `VerifiedEvidence`
needs the export's journal to exist for good, and `TransferExact` says that client and
owner agree on the transaction although the client may be gone.

`ActionAttempts`. The refinement needs that the work of an attempt is its own
(`AttemptExact`), that earlier steps are settled while a later one is worked on
(`SettledBefore`), and that every started command left the durable claim of its
attempt (`RunExact`); `AttemptsRunOnce` then maps the start, the exit, the
recorded success and the skip to the four actions of `ActionOnce` and
everything else to stutters.

`WorkspaceFormat` and `NamedProject`. A power loss may leave one file of an older
moment than another. `JournalExact`, `RecordExact` and `PromiseKept` therefore
speak of every combination of seen and durable files. In `NamedProject` the
intent may be cleared because no other promised candidate can come into use
while a replacement is completed: identities are fresh, so that the session only
moves away (`UseOnlyEnds`).

`PreparedBase`. A cache record is taken from a journal, possibly by a later
`Prepare` than the one that wrote it, so `CacheQualified` needs the same of
every admission a journal recorded, seen or durable (`PendingQualified`), and of
what the running call has established (`AttemptExact`, `AdmissionExact`). That
nothing spoils a qualified candidate afterwards rests on `Unadmitted`: only a
Build or qualification changes a candidate, and it works on an attempt nothing
was admitted from, because `Reserve` refuses an attempt whose candidate exists.
This holds although a power loss may take the attempt's directory and journal
away while the cache keeps its record. `VerifierKept` needs to know which step
of a Build has proved its script gone (`ScriptExact`), `CurrentResolves` that a
visible record is durable or `torn` (`RecordExact`). `ReturnedIntact` is
inductive with `PreparedInv`, since no result is out while a call runs
(`CallExact`). `RecordsAreFinal` states `CacheFinal`, which no run lists: a
durable record is never replaced. It follows from `CacheExact`, a part of
`PreparedInv`.

`RuntimeControl` and `ClipboardTransfer`. Holding `readyMu` is a function of the
threads' positions (`MutexExact`), and whoever holds it waits for nobody. The
parties of the transfer depend on the threads only through the machine being
alive, so that the two invariants are proved apart.

The proofs are organised by what a step may disturb: a frame or effect lemma
says what an action writes, and one lemma per conjunct treats the writers.

### Only model-checked

Liveness (fairness and ENABLED are outside the prover's reach):
`RetryCompletes`, `StopConverges`, `ResidueFinished`, and the part of
`VerifiedKept` by which a verified format is in the end published; its other
part is `VerifiedIsFinal`. `OneOwner` is false. No theorem is about data that a
recursive definition computes; the models have none.

## 6. Plan

Modelling, in this order:

1. `GuestBootstrap`: serial pump, bootstrap exchange, poisoning.
2. `HostPublication`: the privileged two-step installation with crash points.
3. `LockOrder`: all lock classes, acquisition orders and deadlines.
4. Durability of a generation's cleanup: renames that survive power loss only
   once synced.
5. Liveness: a repeated rebuild completes (torn files excused); in
   `RuntimeControl` an exited machine is reaped and its generation released.
6. `SessionRebuild` for sessions without volumes.

Proofs: the modules above as they are written; every safety property of the
present ones is proved.

### Not modelled

Command-line parsing and wiring, configuration and recipe validation, the
status table, the menu application, image build scripts and qualification
tooling: they keep no state that survives a command, or run outside the session
core. The guest bootstrap stream, the host installation and the order of lock
acquisition are planned. Cryptography, `ssh`, Tart, the installer and the
formatter guest are external: the models say what the code relies on.
`PROJECT.json` gives the status of every component.
