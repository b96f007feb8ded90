# agentenv-py: TLA+ models, checks and proofs

This directory holds a TLA+ development of agentenv-py, a small server that
creates, pauses, snapshots, forks and deletes sandboxes on one of three
backends (local processes, Docker containers, E2B cloud sandboxes) and runs
commands, PTYs and file operations in them. The modules are translated from
`src/src/agentenv/`; `PROJECT.json` maps each definition to the lines it
models.

## 1. The system

### Components

| Component | Source | State it keeps | Operations |
|---|---|---|---|
| Orchestrator | `orchestrator.py` | one reentrant lock; everything else is in the store | create, pause, resume, snapshot, fork, delete, TTL, network and resource updates, eviction, recovery |
| Metadata store | `store.py` | one JSON file, replaced atomically, and a lock | get, list, put and delete of sandboxes, templates, snapshots, events |
| Backends | `backend.py`, `e2b_backend.py` | workspace directories, containers, cloud sandboxes | create, restore, pause, resume, capture, destroy, runtime_alive; process and PTY primitives |
| Command service | `commands.py` | sessions: process, buffers, state, reader and waiter threads | start, read_output, stdin, signal, wait; pause/resume/terminate of a sandbox's sessions |
| PTY service | `pty.py` | sessions as above, with one buffer | start, read_output, input, resize, kill, wait |
| WebSocket bridge | `api.py`, `pty_ws.py` | per connection: position in the buffer, socket | handshake, output pump, control frames |
| Maintenance worker | `api.py` | none | calls eviction every interval |
| Filesystem service | `filesystem.py` | none | confined file operations in a workspace |
| OCI resolver | `oci.py` | none | normalises image references, inspects or pulls images |
| HTTP API, E2B mapping, CLI | `api.py`, `e2b.py`, `cli.py` | none | requests to orchestrator calls and back |

### How they interact

The HTTP server runs each request in a thread of its own and the maintenance
worker in one more. Lifecycle operations of the orchestrator serialise on its
lock: they read the durable record, write a transitional state
(`_transition`), call the backend, the command service and the PTY service,
and write the outcome, or the old state if anything raised. Three things work
without that lock: the read-modify-write with which `evict_expired` clears the
TTL of a sandbox it paused, the state check of a command or PTY start, and all
reading and polling of sessions. The command service has one reader thread per
stream and one waiter per command; a PTY backend calls back into the session
from its own reader. Requests that wake a sandbox make two locked calls,
`resume` and `update_timeout`.

A process that dies leaves the store, the runtimes and the workspaces. The
next `Orchestrator.__init__` reconciles transitional records with the backend
before it serves.

### What is hard

- **Interleaving**: unlocked read-modify-write in eviction; starts that check
  first and register later; labels written by two threads; output, exit and
  polling; shells that are polled first and signalled later.
- **Crashes**: between any two writes of an operation, with a recovery that
  knows only the record and whether the runtime exists.
- **Partial failure**: rollback of a record over a backend that has already
  acted; forks that fail half way; removals that stop half way; clean-ups that
  ignore their own errors; a create that raises although it has been done.
- **Ordering**: files and records of templates and snapshots; final output and
  exit frame of a PTY.
- **Time of check, time of use**: every filesystem request looks at the tree and
  changes it later, without a lock, next to other requests and a delete.
- **Delivery**: a terminal's output crosses connections that are lost and
  opened again at an offset.
- **Liveness**: waiters that depend on processes that need never end;
  recovery that must terminate.

`PROJECT.json` lists the hazards one by one with their lines.

### What makes each component correct

- *Orchestrator*: each operation is atomic to its callers; a record in a
  settled state tells the truth about the runtime; a transitional record
  belongs to an operation in progress; nothing runs that no record leads to;
  after a crash everything settles.
- *Eviction*: acts only on sandboxes that have expired, and disturbs no
  concurrent operation.
- *Commands and PTYs*: no output is lost to a client that follows the offsets;
  the exit is reported once and stays; pause, resume and delete reach every
  process that the session leads to; the calls end.
- *Templates and snapshots*: what a record names exists; what no record names
  is removed; nothing in use is deleted.
- *Store*: an update changes one record, also next to others; a crash leaves
  the old or the new contents.
- *Filesystem*: a request does what it says, and says what it did; one that is
  refused has changed nothing; a path never leaves its workspace; races between
  requests lose no file that nobody removed or overwrote.
- *OCI references*: all ways to write an image have one canonical form.

## 2. Modules

| Module | What it is |
|---|---|
| `SandboxService` | what the orchestrator promises: calls with one commit point, failures without effect, crashes that decide calls in flight |
| `Lifecycle` | the orchestrator over one backend, request threads, the maintenance worker, crash and recovery; its `ImplementsService` is the refinement of `SandboxService` |
| `MCLifecycle` | `Lifecycle` with the symmetry TLC uses |
| `LifecycleProofs`, `LifecycleServiceProofs` | theorems about `Lifecycle`; the second module has those about leaks and the refinement |
| `Commands` | the command service of one sandbox on the local backend |
| `MCCommands`, `CommandsProofs` | its instance for TLC and its theorems |
| `Pty`, `MCPty` | the PTY service of one sandbox, its terminals on each backend, and the WebSocket bridge |
| `PtyProofs` | theorems about `Pty` |
| `Frames` | the frames of that bridge, as operators: lengths, and messages put together from fragments |
| `Catalogue` | what the metadata store promises: a map with atomic updates |
| `Store` | the file behind it, the threads that write it and the crash; its `AtomicCatalogue` is the refinement of `Catalogue` |
| `Storage` | extends `Store`: templates, snapshots and sandboxes as records and as directories |
| `OciReference` | the parsing of image references and their canonical form, as operators |
| `StorageProofs` | theorems about `Store` and `Storage`: the file, the records in it, and the directories |
| `MCStorage` | `Storage` with the bounds of TLC, and the references `OciReference` is tried on |
| `OciReferenceProofs` | theorems about `OciReference` |
| `Filesystem`, `MCFilesystem` | the filesystem requests on one workspace against each other and a delete |
| `FilesystemProofs`, `FilesystemAloneProofs` | theorems about `Filesystem`; the second module has the one about requests that run alone |

### Lifecycle

`record` is the store's `sandboxes` table, reduced to the fields operations
read: the state, whether there is a TTL, and `timeout_action`. `workspace` and
`instance` are what the backend holds for an id (`instance` is unused on the
local backend, `workspace` on E2B). `lock` is `Orchestrator._lock`; `pc` and
`task` are a thread's place in its call and its locals, among them `copy`, the
record object the operation read on entry and writes back whole. A `workspace`
is `"bare"` when the local backend's `destroy` has removed `rootfs` and left the
directory above it (`Wiped`), and `"debris"` when a failed creation did not remove
its files; an `instance` is `"stray"` when a failed creation left one (`StartFails`:
docker's clean-up ignores errors, and E2B's create may raise after the cloud has
made the sandbox). `due` is what is left of the loop of `evict_expired`. `up` is false from a crash until
recovery is through.

Each operation is a chain of actions cut where another thread, a failure or a
crash can come between: `Request`/`Rearm`/`Evict` take the lock and read the
record; `AlreadyThere` and `Refuse` are the early returns; `BeginTransition`
writes the transitional state; `Call`/`CallFails` is the backend; `Settle` and
`Undo` are the two ends of `_transition`. `Create` and `Spawn` (one child of a
fork) share `BeginCopy`, `EndCopy`, `StartInstance`, `Publish` and the failure
actions. `delete` is `BeginDelete`, `DestroyInstance`, `WipeWorkspace`,
`DropRecord`, or `Undo`. `Reread` and `WriteBack` are the two unlocked steps
of an eviction that paused. `RecoverKeep`, `RecoverDestroy` and
`RecoverForget` are the branches of `recover_interrupted_operations`, one
record at a time; a crash between two records forgets nothing, because recovery
keeps nothing in memory, and one within a destroy is `RecoverStops`.
`Faults` selects what may go wrong: backend calls, copying, `rmtree`, `docker
rm`, an SDK create that raises late, and crashes.

### Commands

One sandbox, `box` its record's state; `life` is the pause, resume or delete
in progress (they exclude each other by the orchestrator's lock) with its
`listed` sessions and what is `todo`. A start is four actions (`Check`,
`Spawn`, `Register`, `StartThreads`). `proc` is the shell, `"exited"` until the
waiter (`Reap`) or a poll has waited for it and `"dead"` then, `helper` another
process of its group that holds the stream open. A group is signalled in two steps,
the poll of its shell (`PollNext`, or `Kill` of a request) and the signal to whatever
is left of the group by then (`SignalPolled`, `KillPolled`); `PollShell` says what
poll may answer, also while the waiter is at it, and `SetState` follows. `written` and `buffer` count
chunks on their way from the group to the session, and `client` is what the
last `read_output` response said. `waiter` is the waiter thread: `Stamp` is
its block under the condition, `Complete` the completed event after
`on_exit`.

### Pty

A start is `Check`, the backend's `ForkLocal`, `ForkDocker` or `ForkE2B`, and
`Register`; the reader thread works from the fork on (`Read`, then `Stamp` and
`Complete`, the two blocks of `handle_exit`). `stream` is what it reads. A terminal
hangs up when its shell and its background `job` have both ended, and earlier when
the shell closes it and goes on (`Detach`); docker's client and the SDK's call may
return while a job still holds it (`Returns`), docker's client may be killed, and
the SDK's call may fail (`Break`). `StreamEnded` says when the reader is through:
with the local backend it has to wait for the shell as well. A job is a `"member"`
of the shell's process group, which a kill reaches, or has its `"own"`. `container`
is the container or remote sandbox, which goes with `Destroy`, unless `docker rm`
fails and nobody notices. A connection `k` has a pump
(`Take` is `read_output`, then `Send`, or `Test` of the completed event) and a
receiver, of which `Input` and `Notice` remain. `link` is what the network does,
`wire` the frames under way, `have` and `told` what the client has got.
`PollTake` and `PollReply` are the two halves of a poll. pause, resume and
delete walk over `listed` sessions as in `Commands`; they relabel and kill, but
stop nothing.

`Frames` stands beside it: `Header` and `Length` are the length of a frame as it
is written and read, `Recv` the loop that joins frames to a message, checked
against `Expected`, which says which message that is without a loop.

### Store and Storage

`file` is the metadata file, one entry per id; `job` is a thread's `_put` or
`_delete`: `ReadFile`, `WriteTemporary`, `Replace`. `Storage` gives the
operations on templates, snapshots and sandboxes as chains of actions on top of
it: `op` is the operation that holds the orchestrator's lock, `At(a)` its next
step once its last write is done, `Save` the start of a write. `dir` says of
each directory whether it is missing, empty but for itself (`"bare"`, what a local
destroy leaves), whole, or less than its owner is entitled to. `containers` are
docker's; `RemoveContainer` may leave one, because nobody looks at its failure, and
`Alive` is what recovery is told: with docker a record that was being created has no
runtime id and counts as not alive. `CommandEvent` writes an event without the lock, in between; `Crash` may
come at any point and is followed by recovery. `cold` holds the templates of
`create_cold_sandbox` calls that are between their two halves. `doomed`, `torn`
and `clean` are history variables which the exceptions of the invariants are
stated with: items whose removal was begun, sandboxes whose creation a crash cut
short, and whether there has been no crash, no half-way copy and no failed clean-up.

`OciReference` works on sequences of tokens; the character classes of the
regular expressions are sets of words. Its property is checked by `MCStorage` on
every reference of up to five tokens, once a template that uses one is recorded.

### Filesystem

`tree` maps paths to nodes and `what` nodes to their kind or contents; a file
or directory that is open keeps its node when it is moved. A request is
`Admit` or `Decline` (the state of the record, read without the lock), `Open`
(the workspace root is made if it is missing), `Look` (`_resolve`, `_existing`
and the other checks) and then its system calls, each with the effect that the
tree it meets gives it. `Move` and the three steps of `rmtree` (`RmTree`,
`Sweep`, `SweepDir`) model what `shutil` does, except that `Move` takes the look of
`shutil.move` at its destination and the rename as one step; `Delete` runs the same `rmtree`
on the root and puts the state back when it fails. `before`, `seen`, `did` and
`late` are history variables, kept by `Note`. A link out of the workspace that
has got to the place of a file stays a link when the file is opened: what is
written goes outside, which is not in the model. `Make` needs a free node for
each entry it makes; that is a bound of the instances, and the theorems hold
for any number of nodes.

Two properties of races say less than one might expect, because TLC found the
stronger forms violated. `MoveKeepsFiles` has a proviso for a move that copies:
when a third request removes the copy before the move removes its source, the
files are gone, and each of the requests did what it was asked. And
`RefusalsKeepFiles` excepts a write that is answered as refused, because its
last look met a link that another request had moved into the file's place: by
then its work was done.

## 3. Runs

| Run | Checks | Shows |
|---|---|---|
| `lifecycle_docker` | `TypeOK`, `TransientHeld`, `RecordMatchesRuntime`, `ImplementsService` | operations are atomic to callers and settled records are true under concurrent requests, evictions that delete, and failing backend, copy and `rm` calls |
| `lifecycle_local_crash` | `NoLeak`, `ImplementsService`, `FollowsDiagram`, `TransientSettles`, `RecoveryCompletes` | with crashes anywhere, recovery ends, settles everything in one of the two ways each call allows, and drops no record of a sandbox that still has its files; where the worker only deletes, records follow the lifecycle diagram |
| `lifecycle_evict` | `NoLeak` | no cloud sandbox that was created without a record, even with the unlocked write-back |
| `commands` | `TypeOK`, `ClientMissesNothing`, `ShellsAreContinued`, `DeleteKillsListed`, `LifecycleEnds`, `EndedIsReported` | no output is lost to a client; a resume finds every shell a pause stopped, and the shells that delete lists have ended; lifecycle calls end whatever processes hold the streams; a command whose group is dead is completed, also after a delete |
| `pty` | `TypeOK`, `ResumesGapless`, `PollAfterExitIsWhole`, `DeleteReaches`, `MessagesArriveWhole`, `EndIsReported`, `EndIsTold` | a client that reconnects at its offset has every chunk once and in order; a poll of a completed session is whole; what outlives its sandbox is named exactly; messages arrive whole; the end of the stream completes the session, and who stays connected is told |
| `storage` | `TypeOK`, `SourceIsKept`, `ListedHasFiles`, `RunningIsComplete`, `NothingLeftBehind`, `ImagesAreCanonical`, `AtomicCatalogue` | no source is deleted under a sandbox; what is listed has its files and what runs has its workspace after any crash, but for the cases the invariants name; no failure leaves files or containers behind but a copy or a clean-up that failed; writes of two threads do not mix |
| `filesystem` | `TypeOK`, `RefusalsKeepFiles`, `WorkspaceFollowsSandbox`, `AsAlone`, `MoveKeepsFiles` | a request that runs alone meets its reference definition (`MaySucceed`, `Effect`, `Tells`), in answer and effect; the three promises that hold under every race |
| `evict_pause` | `FollowsDiagram` (violated) | finding 1 |
| `crash_e2b` | `RecoveryCompletes` (violated) | finding 2 |
| `command_outlives` | `GoneIsQuiet` (violated) | finding 3 |
| `command_frozen` | `RunningIsContinued` (violated) | finding 4 |
| `pty_outlives` | `GoneIsQuiet` (violated) | finding 5 |

The other configurations of this directory are not among the runs of
`PROJECT.json`. Run them with `tlc -config X.cfg M`, where `M` is the MC module of the
component:

| Configuration | Module | Checks |
|---|---|---|
| `pty_reconnect.cfg` | `MCPty` | `ResumesGapless` with two connections, so that the pump of a lost connection is still at work when the next one starts: it holds, in 1,627,418 states |
| `crash_pause.cfg` | `MCLifecycle` | `RecordMatchesRuntime`, violated (a) |
| `crash_create.cfg` | `MCLifecycle` | `RecoveryKeepsWhatExists`, violated (b) |
| `create_leaks.cfg` | `MCLifecycle` | `FailedCreateIsUndone`, violated (c) |
| `delete_leaves.cfg` | `MCLifecycle` | `NoLeak`, violated (d) |
| `command_relabelled.cfg` | `MCCommands` | `CompletedIsExited`, violated (e) |
| `command_helper.cfg` | `MCCommands` | `DeleteEndsListed`, violated (f) |
| `pty_job.cfg` | `MCPty` | `JobsEnd`, violated (g) |
| `pty_held.cfg` | `MCPty` | `ExitIsReported`, violated (h) |
| `pty_poll.cfg` | `MCPty` | `PollsLeaveNoGap`, violated (i) |

Each property of a passing run has a mutant: a defined variant of one action
(the operators commented "Mutant:") that makes TLC find it violated.

### Bounds

- *Sandboxes* (2 or 3). An operation touches one sandbox, a fork its source
  and children; with three a fork has two children, and one can be deleted
  while another is created. Ids are never reused (`born`), which bounds the
  number of creations.
- *Workers* (2) plus the maintenance thread: two requests and an eviction
  compete for the lock, and one of them overtakes the gap between the two
  locked calls of a request that wakes.
- *TTL* is a flag. Which TTLs have passed is chosen freely (`List`), so time
  needs no bound and every race with a deadline is there; what is lost is only
  that a deadline in the future is not expired.
- *Crashes* are not bounded.
- *Commands* (1) in the passing run, with *MaxOutput* 2 chunks: commands share
  nothing but the walk of a lifecycle call, and one command meets it in both ways,
  listed or started too late to be; a chunk is read while another is written, or
  polled while another is read. The runs of the findings have two commands with one
  chunk, and the safety theorems hold for any number.
- *Pty*: one terminal, for the same reason, on each of the three backends;
  *MaxOutput* 2, so that a chunk arrives between any two steps over another one. The
  connection `k1` stands for any number of them one after the other. What it does not
  show is the pump of a lost connection at work beside that of the next one:
  `pty_reconnect.cfg` has it with two connections, on the local backend because the
  bridge looks at the buffer only, and `ClientsLoseNothing` proves it for any number. The
  runs of the findings about terminals have no connection. Polls and connections of
  one client do not overlap; pauses, drops and reconnections are not bounded.
- *Storage*: a template, a snapshot and two sandboxes, of which one can be made
  from the template and forked into the other; ids come back once nothing of
  them is left, so that runs are not bounded. Two writers: the lock owner and a
  thread that writes an event.
- *Filesystem*: two requests and a delete. The trees have up to three levels,
  with a file, an empty directory, a full one, and a link out of the workspace;
  the 37 requests contain for each check and each system call one that passes
  and one that does not, also because of the other request. What takes three
  requests is left to the theorems. Eleven nodes are
  more than any run uses (TLC would report a tree that has none left).
- *Frames*: all streams of up to four frames, and the lengths around each
  boundary of their encoding.
- *Symmetry* is used for the threads of `Lifecycle` and `Filesystem`, for
  commands and for connections, never in a run with a liveness property.

### Fairness

`Lifecycle!FairSpec`: a thread inside a call keeps running (no call waits for
anything but the lock, whose owner runs too, and for backend calls, which
return or raise), and a process that is down is started again and runs its
recovery. No request is ever owed. A crash or a failing removal during
recovery (`RecoverStops`) may happen any number of times, but not for ever:
that is what weak fairness of `Recover` says, and without it a file that can
never be removed keeps the process from starting.

`Commands!FairSpec`: the service's own threads run, and delete's waits end
after two seconds. Nothing is assumed of the processes: one that never exits,
or never closes its stream, is covered, and `LifecycleEnds` holds all the
same.

`Pty!FairSpec`: the readers and the pumps run (they are threads, and a pump's wait
is a second), and a client reads what it was sent. Nothing is assumed of shells and
jobs, of requests and lifecycle calls, or of connections staying up: with a stream
that never ends `EndIsReported` owes nothing, and a job that never ends is how
`ExitIsReported` is violated in `pty_held.cfg`.
`Storage` and `Filesystem` have no liveness property and no fairness.

### Deadlock

Deadlock is checked. `Quiet` is the server waiting for the next request and is
enabled only when no call is in progress, so a thread that is stuck is a
deadlock. `crash_e2b` alone switches the check off, since its finding is a
process that cannot start.

## 4. Findings

1. **Eviction overwrites concurrent operations** (`orchestrator.py:662`,
   `evict_pause`). After pausing an expired sandbox, `evict_expired` re-reads and
   writes the record without the lock. A resume, delete or snapshot in between is
   undone; a deleted record comes back. The diagram of `docs/architecture.md:36-51`
   has no such edges.
2. **E2B recovery after an interrupted creation** (`e2b_backend.py:302`,
   `crash_e2b`). The record has no runtime id, `runtime_alive` raises, the
   constructor raises, at every start; `docs/architecture.md:55` says such records
   are removed.
3. **A command survives its sandbox** (`commands.py:188`, `command_outlives`). A
   start has passed its state check when a delete takes the sandbox away, and spawns
   and registers the command afterwards; `docs/e2b-api-guide.md:307-308` promises
   that delete terminates all active commands. (f) breaks the same promise without a
   race.
4. **A background process stays stopped** (`backend.py:204`, `command_frozen`). The
   shell exits between its poll and the SIGSTOP to its group, and the resume passes
   over the group of an exited shell; `docs/e2b-api-guide.md:307` says that a resume
   lets active commands go on.
5. **A terminal survives its sandbox** (`pty.py:201`, `pty_outlives`). The race of 3
   for a local terminal; `README.md:246` promises that no process remains. (g) breaks
   the same promise without a race.

The configurations outside the runs show further places where the code and what is
written about it differ:

- (a) *Recovery of an interrupted pause* (`orchestrator.py:720`). A container paused
  by docker counts as running; recovery records RUNNING (`docs/architecture.md:54`),
  pause then fails in docker and resume returns early, so the sandbox can only be
  deleted.
- (b) *Docker recovery after an interrupted creation* (`backend.py:753`). The record
  has no runtime id; `runtime_alive` says no without asking docker, and recovery drops
  the record of a container that runs, although `docs/architecture.md:54` restores
  operations whose runtime exists.
- (c) *A failed creation leaves a cloud sandbox* (`e2b_backend.py:210`). When the
  SDK's create raises after the cloud has made the sandbox, no id is known, nothing is
  killed and the record is dropped; `docs/architecture.md:53` says that a failure is
  rolled back to the state before the operation.
- (d) *A delete leaves the container* (`backend.py:849`). The failure of `docker rm -f`
  is ignored and the record dropped; `docs/e2b-api-guide.md:584` says that 204 means
  container and directory are deleted.
- (e) *A finished command is relabelled* (`commands.py:136`). `set_state` tests
  `completed`, which is set after the final state has been written;
  `tests/test_commands.py:61` expects `exited` of what `wait` returned.
- (f) *A background process survives the delete* (`backend.py:195`). A command whose
  shell has exited is active as long as its streams are open, and its group gets no
  SIGKILL.
- (g) *A job survives its terminal* (`backend.py:315`). The kill reaches the process
  group of the shell, not a job in a group of its own.
- (h) *An ended shell is not reported* (`backend.py:275`). A job that holds the terminal
  keeps the reader from noticing; `pty.py:70-71` says that `handle_exit` is called when
  the process ends.
- (i) *A poll's offset skips output* (`pty.py:278`). The next offset is taken after the
  data and without the lock; `README.md:269` and `tests/test_pty.py:246-247` read on at
  that offset.

Where a promise of the documents is violated, a weaker property that the code
keeps is checked, and proved, beside it: `ShellsAreContinued` beside 4,
`DeleteKillsListed` beside 3 and (f), `DeleteReaches` beside 5 and (g), `EndIsReported`
beside (h) (checked only) and `PollAfterExitIsWhole` beside (i).

## 5. Proofs

TLAPS checks the following for every value of the constants that satisfies
`ConstantsAssumption`, `CommandsAssumption`, `PtyAssumption`, `StoreAssumption`,
`StorageAssumption`, `FilesystemAssumption` and `OciAssumption`. They say that the
sets of ids, threads and marks are disjoint, that backends, requests and faults are
among those the code has, that bounds are numbers, of the filesystem that requests
and workspaces are paths and trees of paths, and of references that the separators
are no words and that the words the code itself puts in pass its own tests (`oci.py:10-12`):
`library` is a component without a dot, `docker.io` has one, `latest` may be a tag.

| Theorem | Statement |
|---|---|
| `LifecycleProofs!TypeCorrect` | `Spec => []TypeOK` |
| `LifecycleProofs!KillKeepsTransientHeld` | `TimeoutActions = {"kill"}` gives `Spec => []TransientHeld` |
| `LifecycleProofs!RecordsAreTrue` | without `rmtree` faults and crashes as well, `Spec => []RecordMatchesRuntime` |
| `LifecycleServiceProofs!NothingLeaks` | with docker without `rm` faults and crashes, `Spec => []NoLeak` |
| `LifecycleServiceProofs!LifecycleImplementsService` | `TimeoutActions = {"kill"}`, and with docker not both `rmtree` faults and crashes, give `Spec => ImplementsService` |
| `LifecycleServiceProofs!KillFollowsDiagram` | `TimeoutActions = {"kill"}` gives `Spec => FollowsDiagram` |
| `CommandsProofs!CommandsTypeCorrect` | `Spec => []TypeOK` |
| `CommandsProofs!NothingMissed` | `Spec => []ClientMissesNothing` |
| `CommandsProofs!ResumeContinuesShells` | `Spec => []ShellsAreContinued` |
| `CommandsProofs!DeleteKillsListedShells` | `Spec => []DeleteKillsListed` |
| `PtyProofs!PtyTypes` | `Spec => []TypeOK` |
| `PtyProofs!ClientsLoseNothing` | `Spec => []ResumesGapless` |
| `PtyProofs!DeleteReachesTerminals` | `Spec => []DeleteReaches` |
| `PtyProofs!PollsAfterExit` | `Spec => PollAfterExitIsWhole` |
| `StorageProofs!StoreImplementsCatalogue` | `StoreSpec => AtomicCatalogue` |
| `StorageProofs!TypeCorrect` | `Spec => []TypeOK` |
| `StorageProofs!SourcesAreKept` | `Spec => []SourceIsKept` |
| `StorageProofs!OperationsKeepCatalogue` | `Spec => AtomicCatalogue` |
| `StorageProofs!ListedSourcesAreFull` | `Spec => []ListedHasFiles` |
| `StorageProofs!RunningSandboxesAreWhole` | `Spec => []RunningIsComplete` |
| `StorageProofs!OperationsCleanUp` | `Spec => []NothingLeftBehind` |
| `FilesystemProofs!TreeStaysATree` | `Spec => []TypeOK` |
| `FilesystemProofs!RefusedRequestsChangeNothing` | `Spec => []RefusalsKeepFiles` |
| `FilesystemProofs!WorkspaceGoesWithItsSandbox` | `Spec => []WorkspaceFollowsSandbox` |
| `FilesystemProofs!MovesLoseNothing` | `Spec => MoveKeepsFiles` |
| `FilesystemAloneProofs!RequestsActAlone` | `Spec => AsAlone` |
| `OciReferenceProofs!CanonicalReferences` | `CanonicalForms(references)` for any set of finite references |

The hypotheses of the lifecycle theorems are what the findings leave: with
`"pause"` among the timeout actions the unlocked write-back breaks `TransientHeld`,
`FollowsDiagram`, `RecordMatchesRuntime` and the refinement, a crash can separate record and
container, and a failed `rmtree` is rolled back over a workspace that is gone in
part. `NoLeak` needs nothing of the timeout actions. It fails where the code
drops a record over a container that was created: one whose `docker rm` failed, or
whose creation was cut short by a crash (section 4, d and b). It does not speak of what
a creation that failed leaves behind, a stray container or cloud sandbox (c)
or files, nor of the bare directory that a local delete leaves. The refinement fails on
docker with `rmtree` faults and crashes together: a delete has destroyed the
container when `rmtree` fails, the record is rolled back to running, and when a
later operation on it is interrupted by a crash, recovery finds no container and
forgets the sandbox, which that operation could not have removed. Each of these
is a counterexample of TLC.

*Lifecycle.* `Base` says that a thread is inside a locked operation exactly
when it owns the lock, which locals are set at which place, and that a process
that is down has no thread in a call. It is proved alone (`BaseStep`, one step
per action) and then assumed. `Held` adds that the copy an operation works
with has a settled state and that the maintenance worker
never reaches the unlocked steps; without the first, `Undo` could put back a
transitional state nobody is working on. `Truth` carries
`RecordMatchesRuntime` through the intermediate places: between the backend
call and the write of the outcome the instance is already where the record is
going, during a rollback it is still where the copy says, and during creation
each place knows how much of the sandbox exists.

*Leaks.* `NoLeak` is about ids without a record; what can break it is a creation
that drops its record and a delete that does. `Swept` says of each place on the
way there what is already, or still, gone, and `Kinds` which kinds of things the
backend keeps at all. `Known` says that records and locals name ids that have
been handed out, so that a new id is nobody's. All three hold with the unlocked
write-back too: it may bring a record back, and never drops one.

*Refinement.* `Status` maps a record to the abstract state of its sandbox (`View`
restates it for a process that serves): the record's own state where that is
settled, and in a delete the state the operation's `copy` has. The
abstract call commits where its last write is done (`SettleStep`, `DropStep`,
`PublishStep`, `PutTimeoutStep`), fails where the old state is back (`UndoStep`,
`AbortStep`, `RefuseStep`), and every step before is a stutter (`Silent`). That
the copy still tells the truth at the end is `Course`: between its first write
and its last, the operation's record is the copy with the transitional state,
and nobody writes in between. A crash takes each call in flight to the abstract
crash, which leaves its outcome open, and recovery decides it, one record at a
time (`CrashStep`, `RecoveryStep`). For that the runtime must be there where the
record has to be kept: `Backed` says so of every sandbox that is neither being
created nor deleted, and of a delete that may be rolled back; it is the place
where the hypothesis about docker is used, and only with crashes. `ServiceStep`
puts the steps together. `FollowsDiagram` follows from `Course` too, with no hypothesis
about faults (`DiagramStep`): what an operation writes, it writes over the state that
`Course` gives its record.

*Commands.* `Shape` types the state and ties the places of a lifecycle call
and of the waiter together. `Told` adds that a session stamped as exited is
dead with everything read, which `ClientMissesNothing` needs of the response
under the condition. `Found` says that a stopped shell is always in an
active session, so that a resume lists it and a poll of it answers that it runs: a
session stops being active only when its waiter is done, and the waiter cannot be done
with a stopped shell, because it waits for the exit. It also says how far the walk of
a resume or delete has got.

*Pty.* The invariant has two halves. `Inside` is about the sandbox, its sessions
and terminals: `StreamOK` says that a reader past its loop has read everything
unless the stream broke, `LifeOK` what a lifecycle call has listed, and `DeadOK`
that what delete has been through is dead, but for jobs in a group of their own, and
that nothing runs without its container, from which `DeleteReaches` follows. It
does not mention connections. `Outside` is about them, and takes `Inside` as
given: `WireOK` says that the frames under way on a connection carry on, one
after the other, from what the client has, and the pump's position from the last
of them (`WireOf`, with `Reaches` for the end of the i-th frame). `OneClient` is
what keeps an old pump harmless: its connection is lost or left by the client, so
that what it still sends is never read. `PollOK` says that the session a poll found
completed has not changed since.

*Store.* `OneJob` says that at most one thread is in a write, and
`CopyIsCurrent` that the copy it will put in place is the file as it is, with
its own change once that is made. The second rests on the first, since another
thread's `Replace` would make the copy old. With it `Replace` is a `Put` or
`Delete` of one id, and every other step, the crash among them, a stutter.

*Storage.* `SourceIsKept` is about records in the file, but what can break it
is on its way there: a delete that has passed its check and not yet written, a
sandbox that has its source and not yet its record. `Shape` ties the
operation's place to what it is about, and `Writing` says that the operation
writes items and the command thread only events. `RecordsHaveSources` asks a
source also of the record that is being written, `RemovedIsUnused` carries the
check of a delete up to its last write, and `SourceIsReady` carries the source
of a new sandbox from its check, or in a fork from the write of the snapshot,
to the sandbox's own record. `FromIsKept` is there for the record that
snapshot and fork write at their end. `QuietStep` and `SaveStep` reduce a step that
writes nothing, and one that begins a write, to what it does to the operation;
`RequestReplaced` is where the file changes. The assumption that ids of
different kinds differ is needed: a delete looks for users of a template's or a
snapshot's id, never of a sandbox's.

*Directories.* `FInv` of `StorageProofs` stands on the invariant above. Most
of it repeats the three properties with the record that is on its way (`Will`) in
the place of the one in the file: `SourcesFull` and `BoxesWhole` must hold of the
file after a `Replace`, or a crash before it. `EarlyOK` and `LateOK` say what is
on disk before an operation's record is and after it is gone, `MakingOK` how far
the parts of a new sandbox are. The exceptions are carried by history variables:
`doomed` are the items whose removal has begun, `torn` the sandboxes whose making
a crash has interrupted, which `RecoveryOK` ties to recovery, and `CleanOK` is only
about runs in which nothing was cut short and no clean-up failed (`clean`).

*Filesystem.* `TreeOK` is the type invariant in the form that steps keep: what is
above an entry is a directory. Its proof is about paths: `PrefixOrder`,
`MovedDef` and `MovedOrder` state that being a prefix is an order, what `Moved`
does to a path, and that it keeps the order. One lemma per operation on the tree
(`MakeTree`, `UnlinkTree`, `RenameTree`, `WriteTree`, `CopyTree`) is used by all
requests. `NodesKeep` is what a step of anyone does to the nodes others have
open. `RequestsOK` ties a request's place to its kind (none gets to remove or
move the root), `DeleteOK` the sandbox's state to the delete, and `ChangesOK` says
which requests may have changed files and what they may have answered. `MovesOK`
is about moves: no file a move has seen is at its destination, so that the rename
replaces none of them (`RenameTree`); after a copy all there is in the source is
elsewhere too (`Copied`); and the directories its removal has open lead to files
of the source only (`Within`). The last two hold as long as no one else changes a
file, and survive directories being moved about, because a directory that arrives
at a new place brings no file that was there before (`NodesKeep`).

*Requests that run alone.* `AsAlone` compares the end of a request with the workspace
`before` it, so the invariant, `AloneOK`, says at each place of a request how far it
has taken the workspace from there: nothing done, its parents made, the file emptied, or
so much of the directory removed. `Passed` keeps what the first look has
made sure of, and `Listing` the part of a directory that has been answered for. The
hard place is a recursive removal, which holds a stack of open directories by their
nodes: `Chain` says that the nodes are those of a path downwards, and that each level
still has exactly what its frame has left and the directory of the next (`Level`), so
that when the last frame is done the directory is empty and `rmdir` cannot fail
(`Removing`). Every request then has a lemma per call, of the form `AloneOK(r)` gives
`AloneOK(r)'` and `EndsRight(r)`; a step of another clears `before[r]`.

*References.* `Parse` splits at the first `@`, the last `:` and the first `/`, and
`Canonical` joins the parts again. The proof is about one token between two parts
(`Join`): where it is found (`Found`, `LastJoined`), and that the parts are the same
again (`Parts`). `ParseImage` takes a name, a tag and a digest through `Parse`, `Read` and
`ImageIs` say what the parts of a valid reference are: no separator they are split at,
a registry that is recognised as one and a repository that has been given its prefix, which
is not given twice (`InLibraryOnce`). No induction is needed, only that a set of
positions has a least and a greatest element (`MinIs`, `MaxIs`, from the
well-foundedness of inclusion on finite sets).

Only model-checked: `ImagesAreCanonical`, which is `CanonicalReferences` at the
references the templates of a run use; `MessagesArriveWhole`, which puts messages together with a fold and
would need induction over sequences, which is out of the prover's reach, and all
liveness (`TransientSettles`, `RecoveryCompletes`, `LifecycleEnds`,
`EndedIsReported`, `EndIsReported`, `EndIsTold`), which rests on fairness and
`ENABLED` and is out of its reach too.

## 6. Plan

The order puts first what most threads and faults meet.

1. `SandboxService`, `Lifecycle`, `LifecycleProofs` (done).
2. `Commands`, `CommandsProofs` (done).
3. `Pty`, `Store`, `Storage`, `OciReference` and `Filesystem` (done), with
   `StorageProofs`, `PtyProofs`, `FilesystemProofs`, `FilesystemAloneProofs` and
   `OciReferenceProofs` (done).
4. `LifecycleServiceProofs` (done).
5. Eviction with a clock: what is evicted was due when listed; an expired
   sandbox is evicted in the end unless one before it keeps failing.
6. Network and resource updates as a step on runtime and record.

## 7. What is not modelled

Network and resource updates (policy is data, one backend call; that the record is
written after it, `orchestrator.py:584`, is step 6 of the plan), foreground
`execute`, the sizes of terminals, the handshake and masks of WebSocket
connections and whether two threads' frames can mix on the socket (`pty_ws.py:153`),
descriptors that are not closed (`backend.py:320`), stdin and look-ups by pid, events (an append-only log nothing reads back), HTTP routing and JSON mapping, argument parsing, and the example
clients. A command service restart is left out: the sessions are gone and the
processes stay, which `docs/e2b-api-guide.md:306-307` documents in part. Two
processes on one data directory are outside the contract of `README.md:312`.

In `Storage` the E2B backend is missing: its files are in the cloud, and the
sidecar file that leads to them is one more file of the snapshot's directory.
In `Filesystem`, links that stay inside the workspace, the programs that run in
the sandbox and an `rmtree` that stops for reasons of its own are left out; the
copying of a tree by `shutil.move` is one step. In `Pty`, a restart of the
service is left out as for commands, and that docker and E2B freeze the shells of
a paused sandbox: no property depends on what a shell does not do.

Some behaviour the models show is not excluded by any property because the
code promises nothing else, and a reader may meet it there: the exit frame of a
terminal may be sent before its last output, when that arrives between the
pump's empty read and its look at the completed event (`Take`, `Test`); a local
delete leaves the directory above `rootfs` (`Wiped`), and a failed creation whose
clean-up fails its files and its container (`StartFails`, `RunFails`); two writes to a file may mix, and one whose file is removed
before the final stat is answered with an error (`Fill`, `Stat`); a crash
between the removal of files and of their record leaves a template that is
listed and empty (`Removed`).
