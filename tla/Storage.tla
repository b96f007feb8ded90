------------------------------- MODULE Storage -------------------------------
(***************************************************************************)
(* Templates, snapshots and sandboxes as records in the metadata store and *)
(* as directories next to it (src/src/agentenv/orchestrator.py and the     *)
(* local and docker backends of backend.py).                               *)
(*                                                                         *)
(* One thread at a time holds the orchestrator's lock and goes through an  *)
(* operation, whose steps are writes to the store and changes to the       *)
(* directories; a command's event is written by a thread without that      *)
(* lock.  A cold sandbox takes the lock twice.  The process may die at any *)
(* point; the next one recovers before it serves.                          *)
(*                                                                         *)
(* A directory is "part" while a copy or a removal is under way, or when   *)
(* it has less in it than its owner is entitled to, and "bare" when there  *)
(* is no rootfs in it.                                                     *)
(*                                                                         *)
(* Left out: the E2B backend, whose files are elsewhere; pause, resume,    *)
(* deadlines and settings (Lifecycle has those); names, which are unique   *)
(* because the lock is held; the events of operations; what commands do to *)
(* a workspace; a delete whose rmtree fails (the Lifecycle model has it),  *)
(* and forks with more than one child.                                     *)
(***************************************************************************)
EXTENDS Store

CONSTANTS
    Backends,                  \* a subset of {"local", "docker"}
    Templates, Snapshots, Boxes, Events,
    NoItem,
    Request, CommandThread     \* the writers

Items == Templates \cup Snapshots \cup Boxes
Transient == {"creating", "snapshotting", "forking", "killing"}
States == {"kept", "running"} \cup Transient
Record(src, st) == [src |-> src, st |-> st]

ASSUME StorageAssumption ==
    /\ Backends \subseteq {"local", "docker"}
    /\ Keys = Items \cup Events
    \* An id begins with its kind.
    /\ Templates \cap Snapshots = {} /\ Boxes \cap (Templates \cup Snapshots) = {}
    /\ Events \cap Items = {}
    /\ NoItem \notin Items
    /\ Values = [src : Items \cup {NoItem}, st : States]
    /\ Writers = {Request, CommandThread} /\ Request # CommandThread

VARIABLES
    backend,     \* the backend of the service; never changes
    mode,        \* "up", or "recovering" after a crash
    op,          \* the operation that holds the orchestrator's lock
    cold,        \* templates whose cold sandbox is still to be made
    dir,         \* per item: its directory
    containers,  \* sandboxes with a running container
    doomed,      \* history: items whose removal was begun
    torn,        \* history: sandboxes whose creation a crash cut short
    clean        \* history: no crash, no copy that failed half way and no
                 \* clean-up that failed so far

history == <<doomed, torn, clean>>
disk == <<dir, containers>>
vars == <<storeVars, backend, mode, op, cold, disk, history>>

NoOp == [at |-> "none", item |-> NoItem, src |-> NoItem, from |-> NoItem, cold |-> FALSE]
Kept == Record(NoItem, "kept")

Init ==
    /\ StoreInit
    /\ backend \in Backends
    /\ mode = "up"
    /\ op = NoOp
    /\ cold = {}
    /\ dir = [i \in Items |-> "none"]
    /\ containers = {}
    /\ doomed = {} /\ torn = {} /\ clean = TRUE

Known(i) == file[i] # NoRecord
HasFiles(i) == dir[i] \in {"part", "full"}

\* The id of a new item has never been seen.  Here it may be that of a deleted
\* one, of which no more than the bare directory is left.
Fresh(i) == ~Known(i) /\ ~HasFiles(i) /\ i \notin containers

Free == mode = "up" /\ op = NoOp /\ job[Request] = Idle
\* The operation is at a, and its last write is done.
At(a) == op.at = a /\ job[Request] = Idle

\* The write of record v for i, after which the operation is at next.
Save(i, v, next) ==
    /\ ReadFile(Request, i, v)
    /\ op' = next

Then(a) == [op EXCEPT !.at = a]
SetDir(i, d) == dir' = [dir EXCEPT ![i] = d]

\* What destroy leaves: docker removes sandboxes/<id>, local only its rootfs.
Wiped == IF backend = "local" THEN "bare" ELSE "none"

\* docker rm -f of b's container; a failure goes unnoticed.
RemoveContainer(b) == containers' \in {containers, containers \ {b}}

-----------------------------------------------------------------------------
(* create_template. *)

\* The directory is made, or copied from base_dir.
BeginTemplate(t, iscold) ==
    /\ Free /\ Fresh(t)
    /\ iscold => backend = "docker"
    /\ op' = [NoOp EXCEPT !.at = "files", !.item = t, !.cold = iscold]
    /\ SetDir(t, "part")
    /\ doomed' = doomed \ {t}
    /\ UNCHANGED <<storeVars, backend, mode, cold, containers, torn, clean>>

TemplateFiles ==
    /\ At("files")
    /\ op' = Then("prepare")
    /\ SetDir(op.item, "full")
    /\ UNCHANGED <<storeVars, backend, mode, cold, containers, history>>

\* copytree is outside the try: what it has copied stays.
TemplateCopyFails ==
    /\ At("files")
    /\ op' = NoOp
    /\ clean' = FALSE
    /\ UNCHANGED <<storeVars, backend, mode, cold, disk, doomed, torn>>

Prepared ==
    /\ At("prepare")
    /\ Save(op.item, Kept, Then("end"))
    /\ UNCHANGED <<backend, mode, cold, disk, history>>

\* Mutant: what a failed template has on disk is forgotten.
PrepareFailsDirty ==
    /\ At("prepare") /\ backend = "docker"
    /\ op' = NoOp
    /\ UNCHANGED <<storeVars, backend, mode, cold, disk, history>>

\* The image cannot be resolved; the directory is removed, as far as rmtree,
\* which ignores errors, can.
PrepareFails ==
    /\ At("prepare") /\ backend = "docker"
    /\ op' = NoOp
    /\ \E left \in {"none", "part"} :
           /\ SetDir(op.item, left)
           /\ clean' = (clean /\ left = "none")
    /\ UNCHANGED <<storeVars, backend, mode, cold, containers, doomed, torn>>

\* The operation returns and the lock is released; a cold sandbox goes on
\* without it.
End ==
    /\ At("end")
    /\ op' = NoOp
    /\ cold' = IF op.cold THEN cold \cup {op.item} ELSE cold
    /\ UNCHANGED <<storeVars, backend, mode, disk, history>>

-----------------------------------------------------------------------------
(* delete_template and delete_snapshot. *)

\* Mutant: the record's own id is looked for, which no sandbox of a snapshot has.
InUseAsTemplate(i) ==
    i \in Templates /\ \E b \in Boxes : Known(b) /\ file[b].src = i

InUse(i) == \E b \in Boxes : Known(b) /\ file[b].src = i

BeginRemove(i) ==
    /\ Free /\ Known(i) /\ ~InUse(i)
    /\ op' = [NoOp EXCEPT !.at = "remove", !.item = i]
    /\ SetDir(i, IF dir[i] = "none" THEN "none" ELSE "part")
    /\ doomed' = doomed \cup {i}
    /\ UNCHANGED <<storeVars, backend, mode, cold, containers, torn, clean>>

\* rmtree, then the record.
Removed ==
    /\ At("remove") /\ op.item \notin Boxes
    /\ SetDir(op.item, "none")
    /\ Save(op.item, NoRecord, Then("end"))
    /\ UNCHANGED <<backend, mode, cold, containers, history>>

\* rmtree raises half way: the record stays.
RemoveFails ==
    /\ At("remove") /\ op.item \notin Boxes
    /\ op' = NoOp
    /\ UNCHANGED <<storeVars, backend, mode, cold, disk, history>>

-----------------------------------------------------------------------------
(* create_sandbox, on its own, as the second half of a cold sandbox, and in  *)
(* a fork (from is the sandbox that is forked).                              *)

SaveNewBox(b, src, from) ==
    /\ Fresh(b)
    /\ Save(b, Record(src, "creating"),
            [NoOp EXCEPT !.at = "copy", !.item = b, !.src = src, !.from = from])
    /\ doomed' = doomed \ {b}
    /\ torn' = torn \ {b}

BeginBox(b, src) ==
    /\ Free /\ Known(src)
    /\ SaveNewBox(b, src, NoItem)
    /\ UNCHANGED <<backend, mode, cold, disk, clean>>

ColdBox(b, t) ==
    /\ Free /\ t \in cold /\ Known(t)
    /\ cold' = cold \ {t}
    /\ SaveNewBox(b, t, NoItem)
    /\ UNCHANGED <<backend, mode, disk, clean>>

\* The template was deleted before the lock was taken again, or create_sandbox
\* refuses its arguments: the template stays.
ColdFails(t) ==
    /\ Free /\ t \in cold
    /\ cold' = cold \ {t}
    /\ UNCHANGED <<storeVars, backend, mode, op, disk, history>>

\* A workspace is a copy of the source's files, or new if there are none.
BeginCopy ==
    /\ At("copy")
    /\ dir[op.src] # "none" \/ backend = "docker" \/ op.src \in Templates
    /\ SetDir(op.item, "part")
    /\ op' = Then("copying")
    /\ UNCHANGED <<storeVars, backend, mode, cold, containers, history>>

FailBox == Save(op.item, NoRecord, Then("failed"))

\* The local backend's restore copies what is not there.
NothingToCopy ==
    /\ At("copy")
    /\ dir[op.src] = "none" /\ backend = "local" /\ op.src \in Snapshots
    /\ FailBox
    /\ UNCHANGED <<backend, mode, cold, disk, history>>

Copied ==
    /\ At("copying")
    /\ SetDir(op.item, IF dir[op.src] = "full" THEN "full" ELSE "part")
    /\ op' = Then("run")
    /\ UNCHANGED <<storeVars, backend, mode, cold, containers, history>>

CopyFails ==
    /\ At("copying")
    /\ FailBox
    /\ clean' = FALSE
    /\ UNCHANGED <<backend, mode, cold, disk, doomed, torn>>

\* docker create and start.
RunBox ==
    /\ At("run")
    /\ containers' = IF backend = "docker" THEN containers \cup {op.item} ELSE containers
    /\ op' = Then("publish")
    /\ UNCHANGED <<storeVars, backend, mode, cold, dir, history>>

\* The container may have been created; it and the directory are removed, and
\* what either removal leaves is passed over.
RunFails ==
    /\ At("run") /\ backend = "docker"
    /\ \E left \in {"none", "part"} :
           /\ SetDir(op.item, left)
           /\ containers' \in {containers, containers \cup {op.item}}
           /\ clean' = (clean /\ left = "none" /\ op.item \notin containers')
    /\ FailBox
    /\ UNCHANGED <<backend, mode, cold, doomed, torn>>

PublishBox ==
    /\ At("publish")
    /\ Save(op.item, Record(op.src, "running"),
            IF op.from = NoItem THEN Then("end") ELSE Then("settle"))
    /\ UNCHANGED <<backend, mode, cold, disk, history>>

\* The error is raised; in a fork it undoes the transition of the source.
BoxFailed ==
    /\ At("failed")
    /\ op' = IF op.from = NoItem THEN NoOp ELSE Then("settle")
    /\ UNCHANGED <<storeVars, backend, mode, cold, disk, history>>

-----------------------------------------------------------------------------
(* snapshot and fork. *)

BeginSnapshot(b, s, st) ==
    /\ Free /\ Fresh(s)
    /\ Known(b) /\ file[b].st = "running"
    /\ Save(b, [file[b] EXCEPT !.st = st],
            [NoOp EXCEPT !.at = "capture", !.item = s, !.from = b])
    /\ doomed' = doomed \ {s}
    /\ UNCHANGED <<backend, mode, cold, disk, torn, clean>>

\* Mutant: the record is written before the files.
CapturedEarly ==
    /\ At("capture")
    /\ SetDir(op.item, "part")
    /\ Save(op.item, Kept, Then("capturing"))
    /\ UNCHANGED <<backend, mode, cold, containers, history>>

BeginCapture ==
    /\ At("capture")
    /\ SetDir(op.item, "part")
    /\ op' = Then("capturing")
    /\ UNCHANGED <<storeVars, backend, mode, cold, containers, history>>

Captured ==
    /\ At("capturing")
    /\ SetDir(op.item, "full")
    /\ Save(op.item, Kept, IF file[op.from].st = "forking" THEN Then("child") ELSE Then("settle"))
    /\ UNCHANGED <<backend, mode, cold, containers, history>>

\* What was captured stays on disk, without a record.
CaptureFails ==
    /\ At("capturing")
    /\ op' = Then("settle")
    /\ clean' = FALSE
    /\ UNCHANGED <<storeVars, backend, mode, cold, disk, doomed, torn>>

ForkChild(b) ==
    /\ At("child")
    /\ SaveNewBox(b, op.item, op.from)
    /\ UNCHANGED <<backend, mode, cold, disk, clean>>

\* The end of the transition, reached or undone: both are "running".
Settle ==
    /\ At("settle")
    /\ Save(op.from, [file[op.from] EXCEPT !.st = "running"], Then("end"))
    /\ UNCHANGED <<backend, mode, cold, disk, history>>

-----------------------------------------------------------------------------
(* delete. *)

BeginDelete(b) ==
    /\ Free /\ Known(b) /\ file[b].st = "running"
    /\ Save(b, [file[b] EXCEPT !.st = "killing"], [NoOp EXCEPT !.at = "remove", !.item = b])
    /\ doomed' = doomed \cup {b}
    /\ UNCHANGED <<backend, mode, cold, disk, torn, clean>>

\* backend.destroy: the container, then the files.
DestroyBox ==
    /\ At("remove") /\ op.item \in Boxes
    /\ op' = Then("destroyed")
    /\ SetDir(op.item, "part")
    /\ RemoveContainer(op.item)
    /\ clean' = (clean /\ op.item \notin containers')
    /\ UNCHANGED <<storeVars, backend, mode, cold, doomed, torn>>

DropBox ==
    /\ At("destroyed")
    /\ SetDir(op.item, Wiped)
    /\ Save(op.item, NoRecord, Then("end"))
    /\ UNCHANGED <<backend, mode, cold, containers, history>>

-----------------------------------------------------------------------------
(* A thread that does not hold the lock, a crash, and recovery. *)

CommandEvent(e) ==
    /\ mode = "up" /\ ~Known(e)
    /\ ReadFile(CommandThread, e, Kept)
    /\ UNCHANGED <<backend, mode, op, cold, disk, history>>

Write ==
    /\ \E w \in Writers : WriteStep(w)
    /\ UNCHANGED <<backend, mode, op, cold, disk, history>>

Interrupted(b) == Known(b) /\ file[b].st \in Transient

Crash ==
    /\ Die
    /\ mode' = "recovering"
    /\ op' = NoOp
    /\ cold' = {}
    /\ torn' = torn \cup {b \in Boxes : Known(b) /\ file[b].st = "creating"}
    /\ clean' = FALSE
    /\ UNCHANGED <<backend, disk, doomed>>

\* Mutant: the files are taken for the runtime.
AliveByFiles(b) == HasFiles(b)

\* runtime_alive: a container that runs, if the record has its name, which one
\* that is still being created has not; with the local backend the rootfs.
Alive(b) ==
    IF backend = "docker" THEN file[b].st # "creating" /\ b \in containers
    ELSE HasFiles(b)

Recovering == mode = "recovering" /\ job[Request] = Idle

\* killing, or nothing to go on with: destroyed if alive, and the record goes.
RecoverDrop(b) ==
    /\ Recovering /\ Interrupted(b)
    /\ file[b].st = "killing" \/ ~Alive(b)
    /\ Save(b, NoRecord, NoOp)
    /\ IF Alive(b) THEN SetDir(b, Wiped) /\ RemoveContainer(b) ELSE UNCHANGED disk
    /\ UNCHANGED <<backend, mode, cold, history>>

\* Mutant: the outcome that the event names is saved as the state.
RecoverLabelled(b) ==
    /\ Recovering /\ Interrupted(b)
    /\ file[b].st # "killing" /\ Alive(b)
    /\ Save(b, [file[b] EXCEPT !.st = "restored_to_running"], NoOp)
    /\ UNCHANGED <<backend, mode, cold, disk, history>>

RecoverKeep(b) ==
    /\ Recovering /\ Interrupted(b)
    /\ file[b].st # "killing" /\ Alive(b)
    /\ Save(b, [file[b] EXCEPT !.st = "running"], NoOp)
    /\ UNCHANGED <<backend, mode, cold, disk, history>>

Recovered ==
    /\ Recovering /\ \A b \in Boxes : ~Interrupted(b)
    /\ mode' = "up"
    /\ UNCHANGED <<storeVars, backend, op, cold, disk, history>>

-----------------------------------------------------------------------------

Next ==
    \/ \E t \in Templates : ColdFails(t) \/ \E c \in BOOLEAN : BeginTemplate(t, c)
    \/ TemplateFiles \/ TemplateCopyFails \/ Prepared \/ PrepareFails
    \/ \E i \in Templates \cup Snapshots : BeginRemove(i)
    \/ Removed \/ RemoveFails
    \/ \E b \in Boxes : \/ \E i \in Templates \cup Snapshots : BeginBox(b, i)
                        \/ \E t \in Templates : ColdBox(b, t)
                        \/ \E s \in Snapshots, st \in {"snapshotting", "forking"} :
                               BeginSnapshot(b, s, st)
                        \/ ForkChild(b) \/ BeginDelete(b)
                        \/ RecoverDrop(b) \/ RecoverKeep(b)
    \/ BeginCopy \/ NothingToCopy \/ Copied \/ CopyFails
    \/ RunBox \/ RunFails \/ PublishBox \/ BoxFailed
    \/ BeginCapture \/ Captured \/ CaptureFails \/ Settle
    \/ DestroyBox \/ DropBox
    \/ \E e \in Events : CommandEvent(e)
    \/ Write \/ End
    \/ Crash \/ Recovered

Spec == Init /\ [][Next]_vars

-----------------------------------------------------------------------------
(* Properties.  AtomicCatalogue, of Store, is one of them. *)

Operations ==
    [at : {"none", "files", "prepare", "end", "remove", "copy", "copying", "run",
           "publish", "failed", "capture", "capturing", "child", "settle", "destroyed"},
     item : Items \cup {NoItem}, src : Items \cup {NoItem},
     from : Boxes \cup {NoItem}, cold : BOOLEAN]

\* Every variable has its type.
TypeOK ==
    /\ file \in Files
    /\ job \in [Writers -> Jobs]
    /\ backend \in Backends
    /\ mode \in {"up", "recovering"}
    /\ op \in Operations
    /\ cold \subseteq Templates
    /\ dir \in [Items -> {"none", "bare", "part", "full"}]
    /\ containers \subseteq Boxes
    /\ doomed \subseteq Items /\ torn \subseteq Boxes /\ clean \in BOOLEAN

\* The template or snapshot a sandbox was made from has its record for as long
\* as the sandbox has, whatever is deleted, forked or interrupted.
SourceIsKept == \A b \in Boxes : Known(b) => Known(file[b].src)

\* A template or snapshot that is listed has all its files, after any crash,
\* unless its removal was begun: files go before records, and come before them.
ListedHasFiles ==
    \A i \in Templates \cup Snapshots : Known(i) /\ i \notin doomed => dir[i] = "full"

\* A sandbox that runs has the whole of its source in its workspace, unless its
\* own removal or the source's was begun, or, with the local backend, which
\* takes the directory for the runtime, a crash cut its creation short.
RunningIsComplete ==
    \A b \in Boxes :
        Known(b) /\ file[b].st = "running" =>
            \/ dir[b] = "full"
            \/ b \in doomed \/ file[b].src \in doomed
            \/ backend = "local" /\ b \in torn

\* As long as the process has not died, no copy has failed half way and no
\* clean-up has failed, nothing but bare directories is left behind: between
\* operations files and containers belong to a record, also after operations
\* that failed.
NothingLeftBehind ==
    clean /\ op = NoOp => /\ \A i \in Items : HasFiles(i) => Known(i)
                          /\ \A b \in containers : Known(b)

=============================================================================
