----------------------------- MODULE Lifecycle -----------------------------
(***************************************************************************)
(* The orchestrator's sandbox lifecycle (src/src/agentenv/orchestrator.py) *)
(* over one runtime backend (backend.py, e2b_backend.py).                  *)
(*                                                                         *)
(* HTTP request threads and the maintenance worker share one reentrant     *)
(* lock.  A lifecycle operation takes the lock, reads the durable record,  *)
(* writes a transitional state, calls the backend and writes the outcome;  *)
(* the eviction loop reads and writes records without the lock.  A crash   *)
(* forgets the threads and keeps records, runtimes and workspaces; the     *)
(* next start reconciles them before it serves.                            *)
(*                                                                         *)
(* Left out: the records and files of templates and snapshots, the command *)
(* and PTY sessions, the network and resource settings, events, and        *)
(* requests refused before they change anything.  All sandboxes belong to  *)
(* the backend the process runs.                                           *)
(***************************************************************************)
CONSTANTS
    Sandboxes,      \* sandbox ids; uuid4 ids, so each is created at most once
    Workers,        \* threads that serve requests
    Maint,          \* the maintenance worker's thread
    NoThread,       \* the lock is free
    NoSandbox,
    NoRecord,       \* the store has no record under this id
    Backend,        \* which SandboxBackend this process runs
    TimeoutActions, \* the timeout_action values requests ask for
    Requests,       \* the operations requests ask for
    Faults          \* what goes wrong: see the actions that mention it

Threads == Workers \cup {Maint}

RequestNames == {"create", "pause", "resume", "wake", "snapshot", "fork",
                 "delete", "arm", "clear"}

Transitional == {"creating", "snapshotting", "forking", "pausing",
                 "resuming", "killing"}

States == Transitional \cup {"running", "paused"}

Record == [state: States, ttl: BOOLEAN, onTimeout: TimeoutActions]

Task == [op: RequestNames \cup {"none"}, tgt: Sandboxes \cup {NoSandbox},
         copy: Record \cup {NoRecord}, kid: Sandboxes \cup {NoSandbox}]

\* Where a thread is; it holds the lock at the places in Inside.
Inside == {"entered", "calling", "spawn", "settle", "undo",
           "preparing", "copying", "starting", "publish", "abort",
           "destroying", "wiping", "dropping"}
Outside == {"idle", "rearm", "reread", "writeback"}

ASSUME ConstantsAssumption ==
    /\ Maint \notin Workers
    /\ NoThread \notin Threads
    /\ NoSandbox \notin Sandboxes
    /\ NoRecord \notin Record
    /\ Backend \in {"local", "docker", "e2b"}
    /\ TimeoutActions \subseteq {"kill", "pause"}
    /\ Requests \subseteq RequestNames
    /\ Faults \subseteq {"backend", "late", "copy", "rmtree", "rm", "crash"}

VARIABLES
    up,        \* the process serves (it is not down or still recovering)
    lock,      \* owner of Orchestrator._lock
    record,    \* the durable sandbox records of the metadata store
    born,      \* ids ever handed out
    workspace, \* the sandbox's directory on this host: see Workspace
    instance,  \* its container or cloud sandbox: see Instance
    pc, task,  \* per thread: where it is, and the locals of its call
    due        \* what is left of the maintenance worker's eviction list

vars == <<up, lock, record, born, workspace, instance, pc, task, due>>

NoTask == [op |-> "none", tgt |-> NoSandbox, copy |-> NoRecord, kid |-> NoSandbox]

\* "bare" is sandboxes/<id> without the rootfs below it, "debris" what a failed
\* creation left of its files.
Workspace == {"none", "bare", "partial", "full", "debris"}

\* "stray" is what a failed creation left behind; a container that was made and
\* not started counts as one.
Instance == {"none", "up", "frozen", "stray"}

HasInstance == Backend \in {"docker", "e2b"}
HasWorkspace == Backend \in {"local", "docker"}

\* The rootfs is there, which is what the backends look at.
HasFiles(s) == workspace[s] \in {"partial", "full", "debris"}

\* What destroy leaves: docker removes sandboxes/<id>, local only its rootfs.
Wiped == IF Backend = "local" THEN "bare" ELSE "none"

Init ==
    /\ up = TRUE
    /\ lock = NoThread
    /\ record = [s \in Sandboxes |-> NoRecord]
    /\ born = {}
    /\ workspace = [s \in Sandboxes |-> "none"]
    /\ instance = [s \in Sandboxes |-> "none"]
    /\ pc = [t \in Threads |-> "idle"]
    /\ task = [t \in Threads |-> NoTask]
    /\ due = {}

-----------------------------------------------------------------------------
(* The store and the lock, as the operations use them. *)

Put(s, r) == record' = [record EXCEPT ![s] = r]

\* store.put_sandbox of the in-memory copy with another state: the whole
\* record is written, whatever the store holds by now.
PutCopy(t, state) == Put(task[t].tgt, [task[t].copy EXCEPT !.state = state])

Goto(t, where) == pc' = [pc EXCEPT ![t] = where]

\* Leaving the with-block normally.  A request that wakes a sandbox goes on to
\* set its TTL; the eviction loop goes on to clear the TTL of what it paused.
Return(t) ==
    LET next == CASE t = Maint /\ task[t].op = "pause" -> "reread"
                  [] t # Maint /\ task[t].op = "wake" -> "rearm"
                  [] OTHER -> "idle"
    IN  /\ lock' = NoThread
        /\ Goto(t, next)
        /\ task' = [task EXCEPT ![t] =
               IF next = "idle" THEN NoTask
               ELSE [NoTask EXCEPT !.tgt = task[t].tgt]]
        /\ due' = due

\* Leaving it with an exception, which also ends the eviction loop.
Raise(t) ==
    /\ lock' = NoThread
    /\ Goto(t, "idle")
    /\ task' = [task EXCEPT ![t] = NoTask]
    /\ due' = IF t = Maint THEN {} ELSE due

\* Taking the lock and reading the record the operation works on.
Enter(t, o, s) ==
    /\ lock = NoThread
    /\ lock' = t
    /\ Goto(t, "entered")
    /\ task' = [task EXCEPT ![t] = [op |-> o, tgt |-> s, copy |-> record[s],
                                    kid |-> NoSandbox]]
    /\ UNCHANGED <<up, record, born, workspace, instance>>

-----------------------------------------------------------------------------
(* pause, resume, snapshot and fork: one _transition each. *)

From(o) == IF o \in {"resume", "wake"} THEN "paused" ELSE "running"
Via(o) == CASE o = "pause" -> "pausing"
            [] o \in {"resume", "wake"} -> "resuming"
            [] o = "snapshot" -> "snapshotting"
            [] OTHER -> "forking"
\* Mutant: a pause settles in a state the store does not know.
ToUnknown(o) == IF o = "pause" THEN "stopped" ELSE "running"

To(o) == IF o = "pause" THEN "paused" ELSE "running"
Transitions == {"pause", "resume", "wake", "snapshot", "fork"}

\* A request names a sandbox that exists when the lock is taken.
Request(t, o, s) ==
    /\ up /\ t \in Workers /\ pc[t] = "idle"
    /\ o \in Requests \ {"create"}
    /\ record[s] # NoRecord
    /\ o = "fork" => born # Sandboxes  \* bound: an id is left for the child
    /\ Enter(t, o, s)
    /\ UNCHANGED due

\* pause of a paused sandbox and resume of a running one return at once.
AlreadyThere(t) ==
    /\ pc[t] = "entered"
    /\ task[t].op \in {"pause", "resume", "wake"}
    /\ task[t].copy.state = To(task[t].op)
    /\ Return(t)
    /\ UNCHANGED <<up, record, born, workspace, instance>>

Refuse(t) ==
    /\ pc[t] = "entered"
    /\ task[t].op \in Transitions
    /\ task[t].copy.state # From(task[t].op)
    /\ task[t].op \in {"pause", "resume", "wake"} => task[t].copy.state # To(task[t].op)
    /\ Raise(t)
    /\ UNCHANGED <<up, record, born, workspace, instance>>

\* Mutant: the state is not checked under the lock.
BeginUnchecked(t) ==
    /\ pc[t] = "entered"
    /\ task[t].op \in Transitions
    /\ PutCopy(t, Via(task[t].op))
    /\ Goto(t, "calling")
    /\ UNCHANGED <<up, lock, born, workspace, instance, task, due>>

BeginTransition(t) ==
    /\ pc[t] = "entered"
    /\ task[t].op \in Transitions
    /\ task[t].copy.state = From(task[t].op)
    /\ PutCopy(t, Via(task[t].op))
    /\ Goto(t, "calling")
    /\ UNCHANGED <<up, lock, born, workspace, instance, task, due>>

\* When the backend call can work: docker refuses to pause what is not running
\* and to unpause what is not paused; an E2B connect accepts either.
CallWorks(t) ==
    LET s == task[t].tgt IN
    IF task[t].op \in {"snapshot", "fork"}
    THEN IF HasWorkspace THEN HasFiles(s) ELSE instance[s] # "none"
    ELSE CASE Backend = "docker" ->
                  instance[s] = IF task[t].op = "pause" THEN "up" ELSE "frozen"
           [] Backend = "e2b" -> instance[s] # "none"
           [] OTHER -> TRUE

\* backend.pause, backend.resume or backend.capture.
Call(t) ==
    LET s == task[t].tgt
        after == CASE HasInstance /\ task[t].op = "pause" -> "frozen"
                   [] HasInstance /\ task[t].op \in {"resume", "wake"} -> "up"
                   [] OTHER -> instance[s]
    IN  /\ pc[t] = "calling"
        /\ CallWorks(t)
        /\ instance' = [instance EXCEPT ![s] = after]
        /\ Goto(t, IF task[t].op = "fork" THEN "spawn" ELSE "settle")
        /\ UNCHANGED <<up, lock, record, born, workspace, task, due>>

CallFails(t) ==
    /\ pc[t] = "calling"
    /\ "backend" \in Faults \/ ~CallWorks(t)
    /\ Goto(t, "undo")
    /\ UNCHANGED <<up, lock, record, born, workspace, instance, task, due>>

Settle(t) ==
    /\ pc[t] = "settle"
    /\ PutCopy(t, To(task[t].op))
    /\ Return(t)
    /\ UNCHANGED <<up, born, workspace, instance>>

\* Mutant: no rollback.
UndoNothing(t) ==
    /\ pc[t] = "undo"
    /\ Raise(t)
    /\ UNCHANGED <<up, record, born, workspace, instance>>

\* Mutant: the rollback puts the state the operation aimed at.
UndoForward(t) ==
    /\ pc[t] = "undo"
    /\ PutCopy(t, To(task[t].op))
    /\ Raise(t)
    /\ UNCHANGED <<up, born, workspace, instance>>

\* The except branch of _transition and of delete: the state read on entry is
\* put back; what the backend did stays done.
Undo(t) ==
    /\ pc[t] = "undo"
    /\ PutCopy(t, task[t].copy.state)
    /\ Raise(t)
    /\ UNCHANGED <<up, born, workspace, instance>>

-----------------------------------------------------------------------------
(* create_sandbox, on its own or for each child of a fork. *)

\* The record as first put.  Until Publish only the creating thread, which
\* holds the lock, writes it, so it also stands for that thread's copy.  The
\* runtime id is only in the copy: a stored record has it once it is RUNNING.
Create(t, s, ttl, action) ==
    /\ up /\ t \in Workers /\ pc[t] = "idle" /\ "create" \in Requests
    /\ lock = NoThread
    /\ s \notin born
    /\ lock' = t
    /\ born' = born \cup {s}
    /\ Put(s, [state |-> "creating", ttl |-> ttl, onTimeout |-> action])
    /\ task' = [task EXCEPT ![t] = [NoTask EXCEPT !.op = "create", !.kid = s]]
    /\ Goto(t, "preparing")
    /\ UNCHANGED <<up, workspace, instance, due>>

\* fork creates its children one after the other; that a fork may settle after
\* any child stands for the count of the request.
Spawn(t, s) ==
    /\ pc[t] = "spawn"
    /\ s \notin born
    /\ born' = born \cup {s}
    /\ Put(s, [state |-> "creating", ttl |-> FALSE, onTimeout |-> task[t].copy.onTimeout])
    /\ task' = [task EXCEPT ![t].kid = s]
    /\ Goto(t, "preparing")
    /\ UNCHANGED <<up, lock, workspace, instance, due>>

ForkDone(t) ==
    /\ pc[t] = "spawn"
    /\ task[t].kid # NoSandbox
    /\ Goto(t, "settle")
    /\ UNCHANGED <<up, lock, record, born, workspace, instance, task, due>>

\* Copying the template's or snapshot's files, which takes a while.
BeginCopy(t) ==
    /\ pc[t] = "preparing"
    /\ IF HasWorkspace
       THEN /\ workspace' = [workspace EXCEPT ![task[t].kid] = "partial"]
            /\ Goto(t, "copying")
       ELSE UNCHANGED workspace /\ Goto(t, "starting")
    /\ UNCHANGED <<up, lock, record, born, instance, task, due>>

EndCopy(t) ==
    /\ pc[t] = "copying"
    /\ workspace' = [workspace EXCEPT ![task[t].kid] = "full"]
    /\ Goto(t, IF HasInstance THEN "starting" ELSE "publish")
    /\ UNCHANGED <<up, lock, record, born, instance, task, due>>

\* A failing copytree leaves the directory as far as it got.
CopyFails(t) ==
    /\ pc[t] = "copying"
    /\ "copy" \in Faults
    /\ workspace' = [workspace EXCEPT ![task[t].kid] = "debris"]
    /\ Goto(t, "abort")
    /\ UNCHANGED <<up, lock, record, born, instance, task, due>>

StartInstance(t) ==
    /\ pc[t] = "starting"
    /\ instance' = [instance EXCEPT ![task[t].kid] = "up"]
    /\ Goto(t, "publish")
    /\ UNCHANGED <<up, lock, record, born, workspace, task, due>>

\* Why a container or cloud sandbox may stay behind: docker's rm runs with
\* allow_failure, and the SDK's create may raise once the cloud has made it.
StrayFault == IF Backend = "docker" THEN "rm" ELSE "late"

\* docker removes container and workspace again, and passes over what either
\* removal leaves; e2b removes nothing.
StartFails(t) ==
    /\ pc[t] = "starting"
    /\ "backend" \in Faults
    /\ \E left \in {"none"} \cup (IF StrayFault \in Faults THEN {"stray"} ELSE {}) :
           instance' = [instance EXCEPT ![task[t].kid] = left]
    /\ \E left \in {"none"} \cup (IF HasWorkspace /\ "rmtree" \in Faults
                                 THEN {"debris"} ELSE {}) :
           workspace' = [workspace EXCEPT ![task[t].kid] = left]
    /\ Goto(t, "abort")
    /\ UNCHANGED <<up, lock, record, born, task, due>>

Publish(t) ==
    LET s == task[t].kid IN
    /\ pc[t] = "publish"
    /\ Put(s, [record[s] EXCEPT !.state = "running"])
    /\ IF task[t].op = "fork"
       THEN Goto(t, "spawn") /\ UNCHANGED <<lock, task, due>>
       ELSE Return(t)
    /\ UNCHANGED <<up, born, workspace, instance>>

Abort(t) ==
    /\ pc[t] = "abort"
    /\ Put(task[t].kid, NoRecord)
    /\ IF task[t].op = "fork"
       THEN Goto(t, "undo") /\ UNCHANGED <<lock, task, due>>
       ELSE Raise(t)
    /\ UNCHANGED <<up, born, workspace, instance>>

-----------------------------------------------------------------------------
(* delete: from any state, and rolled back when the backend cannot destroy. *)

BeginDelete(t) ==
    /\ pc[t] = "entered"
    /\ task[t].op = "delete"
    /\ PutCopy(t, "killing")
    /\ Goto(t, IF HasInstance THEN "destroying" ELSE "wiping")
    /\ UNCHANGED <<up, lock, born, workspace, instance, task, due>>

\* docker rm -f or the SDK's kill; neither minds that the instance is gone.
DestroyInstance(t) ==
    /\ pc[t] = "destroying"
    /\ instance' = [instance EXCEPT ![task[t].tgt] = "none"]
    /\ Goto(t, IF HasWorkspace THEN "wiping" ELSE "dropping")
    /\ UNCHANGED <<up, lock, record, born, workspace, task, due>>

\* Mutant: an error of the backend does not stop the record from being dropped.
DestroyIgnored(t) ==
    /\ pc[t] = "destroying"
    /\ "backend" \in Faults
    /\ Goto(t, "dropping")
    /\ UNCHANGED <<up, lock, record, born, workspace, instance, task, due>>

\* The SDK's kill raises; docker's rm is run with allow_failure, so that its
\* failure goes unnoticed.
DestroyFails(t) ==
    /\ pc[t] = "destroying"
    /\ \/ Backend = "e2b" /\ "backend" \in Faults /\ Goto(t, "undo")
       \/ Backend = "docker" /\ "rm" \in Faults /\ Goto(t, "wiping")
    /\ UNCHANGED <<up, lock, record, born, workspace, instance, task, due>>

WipeWorkspace(t) ==
    /\ pc[t] = "wiping"
    /\ workspace' = [workspace EXCEPT ![task[t].tgt] = Wiped]
    /\ Goto(t, "dropping")
    /\ UNCHANGED <<up, lock, record, born, instance, task, due>>

\* rmtree stops at a file it may not remove.
WipeFails(t) ==
    /\ pc[t] = "wiping"
    /\ "rmtree" \in Faults
    /\ HasFiles(task[t].tgt)
    /\ workspace' = [workspace EXCEPT ![task[t].tgt] = "partial"]
    /\ Goto(t, "undo")
    /\ UNCHANGED <<up, lock, record, born, instance, task, due>>

DropRecord(t) ==
    /\ pc[t] = "dropping"
    /\ Put(task[t].tgt, NoRecord)
    /\ Return(t)
    /\ UNCHANGED <<up, born, workspace, instance>>

-----------------------------------------------------------------------------
(* update_timeout: "arm" sets a TTL, "clear" removes it, whatever the state. *)

PutTimeout(t) ==
    /\ pc[t] = "entered"
    /\ task[t].op \in {"arm", "clear"}
    /\ Put(task[t].tgt, [task[t].copy EXCEPT !.ttl = (task[t].op = "arm")])
    /\ Return(t)
    /\ UNCHANGED <<up, born, workspace, instance>>

\* The second call of a request that wakes a sandbox: the lock was released
\* after resume, so the sandbox may be gone.
Rearm(t) ==
    /\ pc[t] = "rearm"
    /\ record[task[t].tgt] # NoRecord
    /\ Enter(t, "arm", task[t].tgt)
    /\ UNCHANGED due

RearmMisses(t) ==
    /\ pc[t] = "rearm"
    /\ lock = NoThread
    /\ record[task[t].tgt] = NoRecord
    /\ Goto(t, "idle")
    /\ task' = [task EXCEPT ![t] = NoTask]
    /\ UNCHANGED <<up, lock, record, born, workspace, instance, due>>

-----------------------------------------------------------------------------
(* evict_expired.  Which deadlines have passed is left open: any subset of   *)
(* the sandboxes that have one may be found expired.                         *)

List(expired) ==
    /\ up /\ pc[Maint] = "idle" /\ due = {}
    /\ expired # {}
    /\ \A s \in expired : record[s] # NoRecord /\ record[s].ttl
    /\ due' = expired
    /\ UNCHANGED <<up, lock, record, born, workspace, instance, pc, task>>

\* pause or delete of the next listed sandbox, which reads the record anew.
\* The listed timeout_action is the record's: no operation changes it.
Evict(s) ==
    /\ up /\ pc[Maint] = "idle" /\ s \in due
    /\ record[s] # NoRecord
    /\ Enter(Maint, IF record[s].onTimeout = "pause" THEN "pause" ELSE "delete", s)
    /\ due' = due \ {s}

\* Deleted since it was listed: NotFoundError ends this round.
EvictMisses(s) ==
    /\ up /\ pc[Maint] = "idle" /\ s \in due
    /\ lock = NoThread
    /\ record[s] = NoRecord
    /\ due' = {}
    /\ UNCHANGED <<up, lock, record, born, workspace, instance, pc, task>>

\* get_sandbox after the pause, without the lock.
Reread ==
    LET s == task[Maint].tgt IN
    /\ pc[Maint] = "reread"
    /\ record[s] # NoRecord
    /\ task' = [task EXCEPT ![Maint].copy = record[s]]
    /\ Goto(Maint, "writeback")
    /\ UNCHANGED <<up, lock, record, born, workspace, instance, due>>

RereadMisses ==
    /\ pc[Maint] = "reread"
    /\ record[task[Maint].tgt] = NoRecord
    /\ Goto(Maint, "idle")
    /\ task' = [task EXCEPT ![Maint] = NoTask]
    /\ due' = {}
    /\ UNCHANGED <<up, lock, record, born, workspace, instance>>

\* put_sandbox of that copy with timeout_at = None, without the lock.
WriteBack ==
    /\ pc[Maint] = "writeback"
    /\ Put(task[Maint].tgt, [task[Maint].copy EXCEPT !.ttl = FALSE])
    /\ Goto(Maint, "idle")
    /\ task' = [task EXCEPT ![Maint] = NoTask]
    /\ UNCHANGED <<up, lock, born, workspace, instance, due>>

-----------------------------------------------------------------------------
(* Crash and recover_interrupted_operations. *)

Crash ==
    /\ up /\ "crash" \in Faults
    /\ up' = FALSE
    /\ lock' = NoThread
    /\ pc' = [t \in Threads |-> "idle"]
    /\ task' = [t \in Threads |-> NoTask]
    /\ due' = {}
    /\ UNCHANGED <<record, born, workspace, instance>>

Interrupted(s) == record[s] # NoRecord /\ record[s].state \in Transitional

\* backend.runtime_alive: a paused container counts as running.  E2B raises for
\* a record without a runtime id, that is, one interrupted while creating.
Alive(s) ==
    CASE Backend = "local" -> HasFiles(s)
      [] Backend = "docker" -> record[s].state # "creating" /\ instance[s] # "none"
      [] OTHER -> instance[s] # "none"

Recoverable(s) ==
    /\ ~up
    /\ Interrupted(s)
    /\ ~(Backend = "e2b" /\ record[s].state = "creating")

\* Mutant: a sandbox that was being deleted is kept as well.
RecoverAll(s) ==
    /\ Recoverable(s)
    /\ Alive(s)
    /\ Put(s, [record[s] EXCEPT !.state = "running"])
    /\ UNCHANGED <<up, lock, born, workspace, instance, pc, task, due>>

RecoverKeep(s) ==
    /\ Recoverable(s)
    /\ record[s].state # "killing" /\ Alive(s)
    /\ Put(s, [record[s] EXCEPT !.state = "running"])
    /\ UNCHANGED <<up, lock, born, workspace, instance, pc, task, due>>

\* Mutant: the record goes, what it leads to stays.
RecoverDropOnly(s) ==
    /\ Recoverable(s)
    /\ record[s].state = "killing" /\ Alive(s)
    /\ Put(s, NoRecord)
    /\ UNCHANGED <<up, lock, born, workspace, instance, pc, task, due>>

\* Mutant: destroy minds that part of the workspace is gone already.
RecoverDestroyWhole(s) ==
    /\ Recoverable(s)
    /\ record[s].state = "killing" /\ workspace[s] = "full"
    /\ instance' = [instance EXCEPT ![s] = "none"]
    /\ workspace' = [workspace EXCEPT ![s] = Wiped]
    /\ UNCHANGED <<up, lock, record, born, pc, task, due>>

RecoverDestroy(s) ==
    /\ Recoverable(s)
    /\ record[s].state = "killing" /\ Alive(s)
    /\ instance' = [instance EXCEPT ![s] = "none"]
    /\ workspace' = [workspace EXCEPT ![s] = Wiped]
    /\ UNCHANGED <<up, lock, record, born, pc, task, due>>

\* Recovery's destroy raises or the process dies again on the way: the container
\* goes first, then files, and the next start begins anew.
RecoverStops(s) ==
    /\ Recoverable(s)
    /\ record[s].state = "killing" /\ Alive(s) /\ HasFiles(s)
    /\ instance' = [instance EXCEPT ![s] = "none"]
    /\ workspace' = [workspace EXCEPT ![s] = "partial"]
    /\ UNCHANGED <<up, lock, record, born, pc, task, due>>

RecoverForget(s) ==
    /\ Recoverable(s)
    /\ ~Alive(s)
    /\ Put(s, NoRecord)
    /\ UNCHANGED <<up, lock, born, workspace, instance, pc, task, due>>

\* Mutant: the process serves without recovery.
ServeAtOnce ==
    /\ ~up
    /\ up' = TRUE
    /\ UNCHANGED <<lock, record, born, workspace, instance, pc, task, due>>

Serve ==
    /\ ~up
    /\ \A s \in Sandboxes : ~Interrupted(s)
    /\ up' = TRUE
    /\ UNCHANGED <<lock, record, born, workspace, instance, pc, task, due>>

Recover == Serve \/ \E s \in Sandboxes : RecoverKeep(s) \/ RecoverDestroy(s) \/ RecoverForget(s)

-----------------------------------------------------------------------------

Begin(t) ==
    \/ \E s \in Sandboxes, o \in RequestNames : Request(t, o, s)
    \/ \E s \in Sandboxes, ttl \in BOOLEAN, a \in TimeoutActions : Create(t, s, ttl, a)

\* What a thread does once it is in a call.
Proceed(t) ==
    \/ AlreadyThere(t) \/ Refuse(t) \/ BeginTransition(t) \/ Call(t) \/ CallFails(t)
    \/ Settle(t) \/ Undo(t) \/ ForkDone(t)
    \/ \E s \in Sandboxes : Spawn(t, s)
    \/ BeginCopy(t) \/ EndCopy(t) \/ CopyFails(t)
    \/ StartInstance(t) \/ StartFails(t) \/ Publish(t) \/ Abort(t)
    \/ BeginDelete(t) \/ DestroyInstance(t) \/ DestroyFails(t)
    \/ WipeWorkspace(t) \/ WipeFails(t) \/ DropRecord(t)
    \/ PutTimeout(t) \/ Rearm(t) \/ RearmMisses(t)

Maintain ==
    \/ \E expired \in SUBSET Sandboxes : List(expired)
    \/ \E s \in Sandboxes : Evict(s) \/ EvictMisses(s)
    \/ Reread \/ RereadMisses \/ WriteBack

\* No request is in flight: the server waits for the next one.
Quiet == up /\ (\A t \in Threads : pc[t] = "idle") /\ UNCHANGED vars

Next ==
    \/ \E t \in Threads : Begin(t) \/ Proceed(t)
    \/ Maintain
    \/ Crash
    \/ Recover
    \/ \E s \in Sandboxes : RecoverStops(s)
    \/ Quiet

Spec == Init /\ [][Next]_vars

\* A thread inside a call keeps running, and a process that is down is started
\* again and runs its recovery, which does not stop half way for ever.
FairSpec ==
    /\ Spec
    /\ \A t \in Threads : WF_vars(Proceed(t))
    /\ WF_vars(Recover)

-----------------------------------------------------------------------------
(* Properties. *)

\* Every variable has its type.
TypeOK ==
    /\ up \in BOOLEAN
    /\ lock \in Threads \cup {NoThread}
    /\ record \in [Sandboxes -> Record \cup {NoRecord}]
    /\ born \subseteq Sandboxes
    /\ workspace \in [Sandboxes -> Workspace]
    /\ instance \in [Sandboxes -> Instance]
    /\ pc \in [Threads -> Inside \cup Outside]
    /\ task \in [Threads -> Task]
    /\ due \subseteq Sandboxes

CreatePlaces == {"preparing", "copying", "starting", "publish", "abort"}

\* Thread t is in the middle of the operation that put s in its state.
Working(t, s) ==
    \/ /\ record[s].state = "creating" /\ task[t].kid = s /\ pc[t] \in CreatePlaces
    \/ /\ task[t].op \in Transitions /\ task[t].tgt = s
       /\ record[s].state = Via(task[t].op)
       /\ pc[t] \in {"calling", "spawn", "settle", "undo"} \cup CreatePlaces
    \/ /\ task[t].op = "delete" /\ task[t].tgt = s
       /\ record[s].state = "killing"
       /\ pc[t] \in {"destroying", "wiping", "dropping", "undo"}

\* While the process serves, a transitional record belongs to the lock owner,
\* who is in the middle of that very operation: no record is left behind in a
\* state from which pause and resume refuse to move it.
TransientHeld ==
    up => \A s \in Sandboxes : Interrupted(s) => lock \in Threads /\ Working(lock, s)

Matches(s, state) ==
    /\ state = "running" /\ HasInstance => instance[s] = "up"
    /\ state = "paused" /\ HasInstance => instance[s] = "frozen"
    /\ state \in {"running", "paused"} /\ HasWorkspace => workspace[s] = "full"

\* What a settled record says of its sandbox is so at every instant a reader
\* may look: RUNNING is up with all of its files, PAUSED is frozen.
RecordMatchesRuntime ==
    \A s \in Sandboxes : record[s] # NoRecord => Matches(s, record[s].state)

\* What a sandbox that was created runs in, and its files, are there only as
\* long as a record leads to them: what the store forgets has been destroyed
\* first.  What a creation that failed leaves behind is the next property's.
NoLeak ==
    \A s \in Sandboxes :
        instance[s] \in {"up", "frozen"} \/ workspace[s] \in {"partial", "full"} =>
            record[s] # NoRecord

\* A failed operation is rolled back to the state before it
\* (docs/architecture.md), so that a sandbox that could not be created has no
\* container or cloud sandbox running for it.
FailedCreateIsUndone ==
    \A s \in Sandboxes : instance[s] = "stray" => record[s] # NoRecord

\* The edges of the lifecycle diagram of docs/architecture.md, those of a rollback
\* and those of recovery.
Edges ==
    {<<"creating", "running">>, <<"running", "pausing">>, <<"pausing", "paused">>,
     <<"paused", "resuming">>, <<"resuming", "running">>,
     <<"running", "snapshotting">>, <<"snapshotting", "running">>,
     <<"running", "forking">>, <<"forking", "running">>,
     <<"running", "killing">>, <<"paused", "killing">>,
     <<"pausing", "running">>, <<"resuming", "paused">>,
     <<"killing", "running">>, <<"killing", "paused">>}

Moves(s) ==
    \/ record'[s] = record[s]
    \/ record[s] = NoRecord /\ s \notin born /\ record'[s].state = "creating"
    \/ record'[s] = NoRecord /\ record[s].state \in Transitional
    \/ /\ record[s] # NoRecord /\ record'[s] # NoRecord
       /\ \/ record'[s].state = record[s].state
          \/ <<record[s].state, record'[s].state>> \in Edges

\* A record begins with its creation, moves along the edges of the diagram only,
\* and ends out of a transitional state.
FollowsDiagram == [][\A s \in Sandboxes : Moves(s)]_vars

\* A start after a crash asks the backend whether the runtime still exists and
\* drops no record of one that does, unless it was being deleted
\* (docs/architecture.md).
RecoveryKeepsWhatExists ==
    [][\A s \in Sandboxes :
           ~up /\ record[s] # NoRecord /\ record'[s] = NoRecord =>
               \/ record[s].state = "killing"
               \/ IF HasInstance THEN instance[s] = "none" ELSE ~HasFiles(s)]_vars

\* An interrupted operation is settled in the end, by its thread or, after a
\* crash, by recovery.
TransientSettles == \A s \in Sandboxes : Interrupted(s) ~> ~Interrupted(s)

\* A process that went down serves again.
RecoveryCompletes == ~up ~> up

-----------------------------------------------------------------------------
(* The promise, and how the orchestrator's state shows it.                   *)

\* An operation takes effect with its last write; once the process is down,
\* recovery can only end an interrupted one in one way.
Status(s) ==
    IF s \notin born THEN "unborn"
    ELSE IF record[s] = NoRecord THEN "gone"
    ELSE IF ~up /\ Interrupted(s)
         THEN IF record[s].state = "killing" \/ ~Alive(s) THEN "gone" ELSE "running"
    ELSE CASE record[s].state = "creating" -> "unborn"
           [] record[s].state \in {"paused", "resuming"} -> "paused"
           [] record[s].state = "killing" /\ lock \in Threads /\ task[lock].copy # NoRecord
                -> IF task[lock].copy.state = "paused" THEN "paused" ELSE "running"
           [] OTHER -> "running"

Deadline(s) == Status(s) \in {"running", "paused"} /\ record[s].ttl

NoCall == [op |-> "none", on |-> NoSandbox]

InFlight(t) ==
    IF pc[t] \notin Inside THEN NoCall
    ELSE [op |-> task[t].op,
          on |-> IF task[t].op = "create" THEN task[t].kid ELSE task[t].tgt]

Service == INSTANCE SandboxService WITH
    status <- [s \in Sandboxes |-> Status(s)],
    ttl <- [s \in Sandboxes |-> Deadline(s)],
    call <- [t \in Threads |-> InFlight(t)]

\* Every lifecycle operation is atomic to its callers, whatever fails or
\* crashes, nothing else changes a sandbox, and deleted ones stay deleted.
ImplementsService == Service!Spec

=============================================================================
