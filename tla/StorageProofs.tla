---------------------------- MODULE StorageProofs ----------------------------
(***************************************************************************)
(* Theorems about Store and Storage, for any templates, snapshots,         *)
(* sandboxes, events and writers.  The store implements the catalogue; the *)
(* storage is well typed, its writes are those of the store, and no        *)
(* template or snapshot is ever lost under a sandbox made from it; what is *)
(* listed has its files, what runs has the whole of its source, and        *)
(* without a crash nothing is left behind.                                 *)
(***************************************************************************)
EXTENDS Storage, TLAPS

-----------------------------------------------------------------------------
(* The store. *)

\* Files and jobs have their types.
StoreTypeOK ==
    /\ file \in Files
    /\ job \in [Writers -> Jobs]

\* One write at a time, since the lock is held for all of it.
OneJob == \A v, w \in Writers : job[v] # Idle /\ job[w] # Idle => v = w

\* What a write holds is the file as it is, with at most its own change.
CopyIsCurrent ==
    \A w \in Writers :
        /\ job[w].at = "read" => job[w].copy = file
        /\ job[w].at = "written" =>
              job[w].copy = [file EXCEPT ![job[w].key] = job[w].value]

StoreInv == StoreTypeOK /\ OneJob /\ CopyIsCurrent

\* A job that is not idle is one of the records of Jobs.
LEMMA JobFields ==
    ASSUME NEW j \in Jobs, j.at \in {"read", "written"}
    PROVE  /\ j # Idle
           /\ j.key \in Keys /\ j.value \in Values \cup {NoRecord} /\ j.copy \in Files
  BY DEF Jobs, Idle

\* The store starts in the invariant.
LEMMA StoreInvInit == StoreInit => StoreInv
  BY DEF StoreInit, StoreInv, StoreTypeOK, OneJob, CopyIsCurrent, Files, Jobs, Idle

\* _put or _delete takes the lock when nobody has it.
LEMMA ReadFileKeeps ==
    ASSUME StoreInv, NEW w \in Writers, NEW k \in Keys, NEW v \in Values \cup {NoRecord},
           ReadFile(w, k, v)
    PROVE  StoreInv'
  <1> DEFINE j == [at |-> "read", key |-> k, value |-> v, copy |-> file]
  <1>1. j \in Jobs
    BY DEF StoreInv, StoreTypeOK, Jobs
  <1>2. job' = [job EXCEPT ![w] = j] /\ file' = file /\ \A u \in Writers : job[u] = Idle
    BY DEF ReadFile, Locked
  <1>3. j.at = "read" /\ j.copy = file
    OBVIOUS
  <1> HIDE DEF j
  <1>4. StoreTypeOK'
    BY <1>1, <1>2 DEF StoreInv, StoreTypeOK
  <1>5. OneJob'
    BY <1>2 DEF StoreInv, StoreTypeOK, OneJob
  <1>6. CopyIsCurrent'
    BY <1>2, <1>3 DEF StoreInv, StoreTypeOK, CopyIsCurrent, Idle
  <1> QED
    BY <1>4, <1>5, <1>6 DEF StoreInv

\* The change is made in the copy.
LEMMA WriteTemporaryKeeps ==
    ASSUME StoreInv, NEW w \in Writers, WriteTemporary(w)
    PROVE  StoreInv'
  <1>1. /\ job[w] \in Jobs /\ job[w].at = "read" /\ job[w] # Idle
        /\ job[w].key \in Keys /\ job[w].value \in Values \cup {NoRecord}
        /\ job[w].copy = file /\ file \in Files
    BY JobFields DEF WriteTemporary, StoreInv, StoreTypeOK, CopyIsCurrent
  <1> DEFINE j == [job[w] EXCEPT !.at = "written",
                                 !.copy = [@ EXCEPT ![job[w].key] = job[w].value]]
  <1>2. job' = [job EXCEPT ![w] = j] /\ file' = file
    BY <1>1 DEF WriteTemporary, StoreInv, StoreTypeOK, Jobs, Idle
  <1>3. [file EXCEPT ![job[w].key] = job[w].value] \in Files
    BY <1>1 DEF Files
  <1>4. /\ j \in Jobs /\ j.at = "written"
        /\ j.copy = [file EXCEPT ![j.key] = j.value]
    BY <1>1, <1>3 DEF Jobs, Idle
  <1> HIDE DEF j
  <1>5. StoreTypeOK'
    BY <1>2, <1>4 DEF StoreInv, StoreTypeOK
  <1>6. OneJob'
    BY <1>1, <1>2 DEF StoreInv, StoreTypeOK, OneJob
  <1>7. CopyIsCurrent'
    BY <1>2, <1>4 DEF StoreInv, StoreTypeOK, CopyIsCurrent
  <1> QED
    BY <1>5, <1>6, <1>7 DEF StoreInv

\* os.replace: everybody else is idle.
LEMMA ReplaceKeeps ==
    ASSUME StoreInv, NEW w \in Writers, Replace(w)
    PROVE  /\ StoreInv'
           /\ \E k \in Keys, v \in Values \cup {NoRecord} : file' = [file EXCEPT ![k] = v]
  <1>1. /\ job[w] \in Jobs /\ job[w] # Idle
        /\ job[w].key \in Keys /\ job[w].value \in Values \cup {NoRecord}
        /\ job[w].copy \in Files
        /\ job[w].copy = [file EXCEPT ![job[w].key] = job[w].value]
    BY JobFields DEF Replace, StoreInv, StoreTypeOK, CopyIsCurrent
  <1>2. \A u \in Writers : u # w => job[u] = Idle
    BY <1>1 DEF StoreInv, OneJob
  <1>3. \A u \in Writers : job'[u] = Idle
    BY <1>2 DEF Replace, StoreInv, StoreTypeOK
  <1>4. StoreTypeOK'
    BY <1>1 DEF Replace, StoreInv, StoreTypeOK, Jobs
  <1>5. OneJob' /\ CopyIsCurrent'
    BY <1>3 DEF OneJob, CopyIsCurrent, Idle
  <1> QED
    BY <1>1, <1>4, <1>5 DEF Replace, StoreInv

\* A crash leaves the file as it is.
LEMMA DieKeeps ==
    ASSUME StoreInv, Die
    PROVE  StoreInv'
  BY DEF Die, StoreInv, StoreTypeOK, OneJob, CopyIsCurrent, Jobs, Idle

\* Putting one record, or none, is a step of the catalogue.
LEMMA CatalogueStep ==
    ASSUME NEW k \in Keys, NEW v \in Values \cup {NoRecord}, file' = [file EXCEPT ![k] = v]
    PROVE  C!Next
  BY DEF C!Next, C!Put, C!Delete

\* Every step keeps the invariant, and is a step of the catalogue or none.
LEMMA StoreStep ==
    ASSUME StoreInv, [StoreNext]_storeVars
    PROVE  StoreInv' /\ [C!Next]_file
  <1>1. CASE UNCHANGED storeVars
    BY <1>1 DEF storeVars, StoreInv, StoreTypeOK, OneJob, CopyIsCurrent
  <1>2. ASSUME NEW w \in Writers, NEW k \in Keys, NEW v \in Values \cup {NoRecord},
               ReadFile(w, k, v)
        PROVE  StoreInv' /\ [C!Next]_file
    BY <1>2, ReadFileKeeps DEF ReadFile
  <1>3. ASSUME NEW w \in Writers, WriteStep(w)
        PROVE  StoreInv' /\ [C!Next]_file
    <2>1. CASE WriteTemporary(w)
      BY <2>1, WriteTemporaryKeeps DEF WriteTemporary
    <2>2. CASE Replace(w)
      BY <2>2, ReplaceKeeps, CatalogueStep
    <2> QED
      BY <1>3, <2>1, <2>2 DEF WriteStep
  <1>4. CASE Die
    BY <1>4, DieKeeps DEF Die
  <1> QED
    BY <1>1, <1>2, <1>3, <1>4 DEF StoreNext

\* Whatever the writers do and wherever the process dies, the records change one
\* at a time, each by its own put or delete.
THEOREM StoreImplementsCatalogue == StoreSpec => AtomicCatalogue
  <1>1. StoreInit => C!Init
    BY DEF StoreInit, C!Init
  <1> QED
    BY <1>1, StoreInvInit, StoreStep, PTL DEF StoreSpec, AtomicCatalogue, C!Spec

-----------------------------------------------------------------------------
(* Templates, snapshots and the sandboxes made from them. *)

Sources == Templates \cup Snapshots
Making == {"copy", "copying", "run", "publish"}

\* What the operation is about, by its place.
Shape ==
    /\ op.at \in {"files", "prepare"} \/ op.cold => op.item \in Templates
    /\ op.at = "remove" => op.item \in Items
    /\ op.at \in Making \cup {"failed", "destroyed"} => op.item \in Boxes
    /\ op.at \in {"capture", "capturing", "child"} => op.item \in Snapshots /\ op.from \in Boxes
    /\ op.at = "settle" => op.from \in Boxes
    /\ op.from # NoItem => op.from # op.item

\* What is being written, and by whom.
Writing ==
    /\ job[CommandThread] # Idle => job[CommandThread].key \in Events
    /\ job[Request] # Idle => job[Request].key \in Items

\* The sandbox that is captured or forked keeps its record.
FromIsKept ==
    /\ op.from # NoItem => Known(op.from)
    /\ job[Request] # Idle /\ job[Request].value = NoRecord => job[Request].key # op.from

\* The source of the sandbox that is made is there: it was when the operation
\* began, or the operation has written it.
SourceIsReady ==
    /\ op.at \in Making => op.src \in Sources /\ Known(op.src)
    /\ op.at = "child" => IF job[Request] = Idle THEN Known(op.item)
                          ELSE job[Request].key = op.item /\ job[Request].value # NoRecord

\* What is removed is not in use, up to the write that removes its record.
RemovedIsUnused ==
    /\ op.at = "remove" /\ op.item \notin Boxes => job[Request] = Idle /\ ~InUse(op.item)
    /\ job[Request] # Idle /\ job[Request].value = NoRecord /\ job[Request].key \notin Boxes =>
           op.at = "end" /\ ~InUse(job[Request].key)

\* Every record of a sandbox, stored or about to be, names a source that is there.
HasSource(v) == v # NoRecord => v.src \in Sources /\ Known(v.src)
RecordsHaveSources ==
    /\ \A b \in Boxes : HasSource(file[b])
    /\ job[Request] # Idle /\ job[Request].key \in Boxes => HasSource(job[Request].value)

\* The types of what the store does not hold.
Types ==
    /\ backend \in Backends
    /\ mode \in {"up", "recovering"}
    /\ op \in Operations
    /\ cold \subseteq Templates
    /\ dir \in [Items -> {"none", "bare", "part", "full"}]
    /\ containers \subseteq Boxes
    /\ doomed \subseteq Items /\ torn \subseteq Boxes /\ clean \in BOOLEAN

\* The inductive invariant.
IInv ==
    /\ Types /\ StoreInv /\ Shape /\ Writing
    /\ FromIsKept /\ SourceIsReady /\ RemovedIsUnused /\ RecordsHaveSources

-----------------------------------------------------------------------------
(* The shape of a step. *)

\* Ids of different kinds differ, and every item and event is a key of the store.
LEMMA Kinds ==
    /\ Request \in Writers /\ CommandThread \in Writers /\ Request # CommandThread
    /\ Writers = {Request, CommandThread}
    /\ Items \subseteq Keys /\ Events \subseteq Keys
    /\ NoItem \notin Items
    /\ Sources \subseteq Items /\ Boxes \subseteq Items
    /\ Boxes \cap Sources = {} /\ Events \cap Items = {}
    /\ Templates \cap Snapshots = {}
    /\ Templates \subseteq Sources /\ Snapshots \subseteq Sources
  BY StorageAssumption DEF Items, Sources

\* Kept, and a record of a sandbox, are values; the state is all that EXCEPT
\* changes in one.
LEMMA RecordsAreValues ==
    /\ Kept \in Values
    /\ \A src \in Sources, st \in States :
           Record(src, st) \in Values /\ Record(src, st).src = src
    /\ \A v \in Values, st \in States :
           [v EXCEPT !.st = st] \in Values /\ [v EXCEPT !.st = st].src = v.src
  <1>1. Values = [src : Items \cup {NoItem}, st : States] /\ Sources \subseteq Items
    BY StorageAssumption DEF Sources, Items
  <1>2. Kept \in Values
    BY <1>1 DEF Kept, Record, States
  <1>3. ASSUME NEW src \in Sources, NEW st \in States
        PROVE  Record(src, st) \in Values /\ Record(src, st).src = src
    BY <1>1 DEF Record
  <1>4. ASSUME NEW v \in Values, NEW st \in States
        PROVE  [v EXCEPT !.st = st] \in Values /\ [v EXCEPT !.st = st].src = v.src
    BY <1>1
  <1> QED
    BY <1>2, <1>3, <1>4

\* A record is not the absence of one.
LEMMA ValuesAreRecords == NoRecord \notin Values
  BY StoreAssumption

\* A step of the operation that writes nothing.
LEMMA QuietStep ==
    ASSUME IInv, UNCHANGED storeVars, Types', Shape', job[Request] = Idle,
           op'.from \in {NoItem, op.from},
           op'.at \in Making => op.at \in Making /\ op'.src = op.src,
           op'.at = "child" => op.at = "child" /\ op'.item = op.item,
           op'.at = "remove" /\ op'.item \notin Boxes => ~InUse(op'.item)
    PROVE  IInv'
  <1>1. StoreInv'
    BY StoreStep DEF IInv
  <1>2. file' = file /\ job' = job
    BY DEF storeVars
  <1>3. Writing' /\ RecordsHaveSources'
    BY <1>2 DEF IInv, Writing, RecordsHaveSources, HasSource, Known
  <1>4. FromIsKept'
    BY <1>2 DEF IInv, FromIsKept, Known
  <1>5. SourceIsReady'
    BY <1>2 DEF IInv, SourceIsReady, Known
  <1>6. RemovedIsUnused'
    BY <1>2 DEF IInv, RemovedIsUnused, InUse, Known
  <1> QED
    BY <1>1, <1>3, <1>4, <1>5, <1>6 DEF IInv

\* What the start of a write leaves.
LEMMA SaveEffect ==
    ASSUME IInv, NEW w \in Writers, NEW k \in Keys, NEW v \in Values \cup {NoRecord},
           ReadFile(w, k, v)
    PROVE  /\ StoreInv' /\ file' = file
           /\ job'[w] # Idle /\ job'[w].key = k /\ job'[w].value = v
           /\ \A u \in Writers \ {w} : job'[u] = Idle
           /\ \A u \in Writers : job[u] = Idle
  <1>1. StoreInv'
    BY ReadFileKeeps DEF IInv
  <1>2. job \in [Writers -> Jobs]
    BY DEF IInv, StoreInv, StoreTypeOK
  <1>3. \A u \in Writers : job[u] = Idle
    BY DEF ReadFile, Locked
  <1>4. job'[w] = [at |-> "read", key |-> k, value |-> v, copy |-> file]
    BY <1>2 DEF ReadFile
  <1>5. \A u \in Writers \ {w} : job'[u] = Idle
    BY <1>2, <1>3 DEF ReadFile
  <1> QED
    BY <1>1, <1>3, <1>4, <1>5 DEF ReadFile, Idle

\* A step of the operation, or of recovery, that begins a write.
LEMMA SaveStep ==
    ASSUME IInv, NEW k \in Items, NEW v \in Values \cup {NoRecord}, ReadFile(Request, k, v),
           Types', Shape',
           op'.from # NoItem => Known(op'.from),
           v = NoRecord => k # op'.from,
           op'.at \in Making => op'.src \in Sources /\ Known(op'.src),
           op'.at = "child" => op'.item = k /\ v # NoRecord,
           op'.at = "remove" => op'.item \in Boxes,
           v = NoRecord /\ k \notin Boxes => op'.at = "end" /\ ~InUse(k),
           k \in Boxes => HasSource(v)
    PROVE  IInv'
  <1>1. /\ StoreInv' /\ file' = file
        /\ job'[Request] # Idle /\ job'[Request].key = k /\ job'[Request].value = v
        /\ job'[CommandThread] = Idle
    BY SaveEffect, Kinds
  <1>2. Writing'
    BY <1>1 DEF Writing
  <1>3. FromIsKept'
    BY <1>1 DEF FromIsKept, Known
  <1>4. SourceIsReady'
    BY <1>1 DEF SourceIsReady, Known
  <1>5. RemovedIsUnused'
    BY <1>1 DEF RemovedIsUnused, InUse, Known
  <1>6. RecordsHaveSources'
    BY <1>1 DEF IInv, RecordsHaveSources, HasSource, Known
  <1> QED
    BY <1>1, <1>2, <1>3, <1>4, <1>5, <1>6 DEF IInv

-----------------------------------------------------------------------------
(* The steps. *)

\* The operation's record after a step of it.
LEMMA ThenFields ==
    ASSUME op \in Operations, NEW a
    PROVE  /\ Then(a).at = a /\ Then(a).item = op.item /\ Then(a).src = op.src
           /\ Then(a).from = op.from /\ Then(a).cold = op.cold
           /\ a \in {"prepare", "end", "copying", "run", "publish", "failed", "capturing",
                     "child", "settle", "destroyed"} => Then(a) \in Operations
  BY DEF Then, Operations

\* The record of no operation.
LEMMA NoOpFields ==
    /\ NoOp.at = "none" /\ NoOp.item = NoItem /\ NoOp.src = NoItem
    /\ NoOp.from = NoItem /\ NoOp.cold = FALSE /\ NoOp \in Operations
  BY DEF NoOp, Operations

\* Returning, whatever the outcome, ends the operation.
LEMMA ReturnStep ==
    ASSUME IInv, UNCHANGED storeVars, op' = NoOp, job[Request] = Idle, Types'
    PROVE  IInv'
  <1>1. Shape'
    BY NoOpFields DEF Shape, Making
  <1> QED
    BY <1>1, NoOpFields, QuietStep DEF Making

\* create_template, in its steps that write nothing.
LEMMA TemplateSteps ==
    ASSUME IInv
    PROVE  /\ \A t \in Templates, c \in BOOLEAN : BeginTemplate(t, c) => IInv'
           /\ TemplateFiles => IInv'
           /\ TemplateCopyFails => IInv'
           /\ PrepareFails => IInv'
           /\ End => IInv'
  <1> USE DEF IInv
  <1>1. ASSUME NEW t \in Templates, NEW c \in BOOLEAN, BeginTemplate(t, c)
        PROVE  IInv'
    <2>1. /\ op'.at = "files" /\ op'.item = t /\ op'.src = NoItem /\ op'.from = NoItem
          /\ op'.cold = c /\ op' \in Operations /\ job[Request] = Idle
      BY <1>1, Kinds DEF BeginTemplate, Free, NoOp, Operations
    <2>2. Types' /\ UNCHANGED storeVars
      BY <1>1, <2>1, Kinds DEF BeginTemplate, Types, SetDir
    <2>3. Shape'
      BY <2>1, Kinds DEF Shape, Making
    <2> QED
      BY <2>1, <2>2, <2>3, QuietStep DEF Making
  <1>2. ASSUME TemplateFiles
        PROVE  IInv'
    <2>1. op' = Then("prepare") /\ op.at = "files" /\ job[Request] = Idle /\ UNCHANGED storeVars
      BY <1>2 DEF TemplateFiles, At
    <2>2. Types'
      BY <1>2, <2>1, ThenFields DEF TemplateFiles, Types, SetDir, history
    <2>3. Shape'
      BY <2>1, ThenFields DEF Types, Shape, Making
    <2> QED
      BY <2>1, <2>2, <2>3, ThenFields, QuietStep DEF Making, Types
  <1>3. ASSUME TemplateCopyFails
        PROVE  IInv'
    BY <1>3, ReturnStep, NoOpFields DEF TemplateCopyFails, At, Types, disk
  <1>4. ASSUME PrepareFails
        PROVE  IInv'
    BY <1>4, ReturnStep, NoOpFields DEF PrepareFails, At, Types, SetDir, history
  <1>5. ASSUME End
        PROVE  IInv'
    BY <1>5, ReturnStep, NoOpFields DEF End, At, Types, Shape, disk, history
  <1> QED
    BY <1>1, <1>2, <1>3, <1>4, <1>5

\* delete_template and delete_snapshot, and a cold sandbox that is not made.
LEMMA RemoveSteps ==
    ASSUME IInv
    PROVE  /\ \A i \in Sources : BeginRemove(i) => IInv'
           /\ RemoveFails => IInv'
           /\ \A t \in Templates : ColdFails(t) => IInv'
           /\ DestroyBox => IInv'
  <1> USE DEF IInv
  <1>1. ASSUME NEW i \in Sources, BeginRemove(i)
        PROVE  IInv'
    <2>1. /\ op'.at = "remove" /\ op'.item = i /\ op'.from = NoItem
          /\ op'.cold = FALSE /\ op' \in Operations /\ job[Request] = Idle /\ ~InUse(i)
      BY <1>1, Kinds DEF BeginRemove, Free, NoOp, Operations
    <2>2. Types' /\ UNCHANGED storeVars
      BY <1>1, <2>1, Kinds DEF BeginRemove, Types, SetDir
    <2>3. Shape'
      BY <2>1, Kinds DEF Shape, Making
    <2> QED
      BY <2>1, <2>2, <2>3, QuietStep DEF Making
  <1>2. ASSUME RemoveFails
        PROVE  IInv'
    BY <1>2, ReturnStep, NoOpFields DEF RemoveFails, At, Types, disk, history
  <1>3. ASSUME NEW t \in Templates, ColdFails(t)
        PROVE  IInv'
    <2>1. op' = op /\ op = NoOp /\ job[Request] = Idle /\ UNCHANGED storeVars
      BY <1>3 DEF ColdFails, Free
    <2>2. Types'
      BY <1>3 DEF ColdFails, Types, disk, history
    <2> QED
      BY <2>1, <2>2, ReturnStep
  <1>4. ASSUME DestroyBox
        PROVE  IInv'
    <2>1. /\ op' = Then("destroyed") /\ op.at = "remove" /\ op.item \in Boxes
          /\ job[Request] = Idle /\ UNCHANGED storeVars
      BY <1>4 DEF DestroyBox, At
    <2>a. op' \in Operations
      BY <2>1, ThenFields DEF Types
    <2>b. containers' \subseteq Boxes /\ clean' \in BOOLEAN
      BY <1>4 DEF DestroyBox, Types, RemoveContainer
    <2>c. dir' \in [Items -> {"none", "bare", "part", "full"}]
      BY <1>4 DEF DestroyBox, Types, SetDir
    <2>2. Types'
      BY <1>4, <2>a, <2>b, <2>c DEF DestroyBox, Types
    <2>3. Shape'
      BY <2>1, ThenFields DEF Types, Shape, Making
    <2> QED
      BY <2>1, <2>2, <2>3, ThenFields, QuietStep DEF Making, Types
  <1> QED
    BY <1>1, <1>2, <1>3, <1>4

\* The files and the container of a new sandbox.
LEMMA MakingSteps ==
    ASSUME IInv
    PROVE  /\ BeginCopy => IInv'
           /\ Copied => IInv'
           /\ RunBox => IInv'
           /\ BoxFailed => IInv'
  <1> USE DEF IInv
  <1>1. ASSUME BeginCopy
        PROVE  IInv'
    <2>1. op' = Then("copying") /\ op.at = "copy" /\ job[Request] = Idle /\ UNCHANGED storeVars
      BY <1>1 DEF BeginCopy, At
    <2>2. Types'
      BY <1>1, <2>1, ThenFields DEF BeginCopy, Types, SetDir, history
    <2>3. Shape'
      BY <2>1, ThenFields DEF Types, Shape, Making
    <2> QED
      BY <2>1, <2>2, <2>3, ThenFields, QuietStep DEF Making, Types
  <1>2. ASSUME Copied
        PROVE  IInv'
    <2>1. op' = Then("run") /\ op.at = "copying" /\ job[Request] = Idle /\ UNCHANGED storeVars
      BY <1>2 DEF Copied, At
    <2>2. Types'
      BY <1>2, <2>1, ThenFields DEF Copied, Types, SetDir, history
    <2>3. Shape'
      BY <2>1, ThenFields DEF Types, Shape, Making
    <2> QED
      BY <2>1, <2>2, <2>3, ThenFields, QuietStep DEF Making, Types
  <1>3. ASSUME RunBox
        PROVE  IInv'
    <2>1. op' = Then("publish") /\ op.at = "run" /\ job[Request] = Idle /\ UNCHANGED storeVars
      BY <1>3 DEF RunBox, At
    <2>2. op.item \in Boxes
      BY <2>1 DEF Shape, Making
    <2>3. Types'
      BY <1>3, <2>1, <2>2, ThenFields DEF RunBox, Types, history
    <2>4. Shape'
      BY <2>1, <2>2, ThenFields DEF Types, Shape, Making
    <2> QED
      BY <2>1, <2>3, <2>4, ThenFields, QuietStep DEF Making, Types
  <1>4. ASSUME BoxFailed
        PROVE  IInv'
    <2>1. CASE op.from = NoItem
      BY <1>4, <2>1, ReturnStep, NoOpFields DEF BoxFailed, At, Types, disk, history
    <2>2. CASE op.from # NoItem
      <3>1. /\ op' = Then("settle") /\ op.at = "failed" /\ job[Request] = Idle
            /\ UNCHANGED storeVars
        BY <1>4, <2>2 DEF BoxFailed, At
      <3>2. Types'
        BY <1>4, <3>1, ThenFields DEF BoxFailed, Types, disk, history
      <3>3. Shape'
        BY <2>2, <3>1, ThenFields DEF Types, Operations, Shape, Making
      <3> QED
        BY <3>1, <3>2, <3>3, ThenFields, QuietStep DEF Making, Types
    <2> QED
      BY <2>1, <2>2
  <1> QED
    BY <1>1, <1>2, <1>3, <1>4

\* The files of a snapshot, and the end of recovery.
LEMMA CaptureSteps ==
    ASSUME IInv
    PROVE  /\ BeginCapture => IInv'
           /\ CaptureFails => IInv'
           /\ Recovered => IInv'
  <1> USE DEF IInv
  <1>1. ASSUME BeginCapture
        PROVE  IInv'
    <2>1. op' = Then("capturing") /\ op.at = "capture" /\ job[Request] = Idle /\ UNCHANGED storeVars
      BY <1>1 DEF BeginCapture, At
    <2>2. Types'
      BY <1>1, <2>1, ThenFields DEF BeginCapture, Types, SetDir, history
    <2>3. Shape'
      BY <2>1, ThenFields DEF Types, Shape, Making
    <2> QED
      BY <2>1, <2>2, <2>3, ThenFields, QuietStep DEF Making, Types
  <1>2. ASSUME CaptureFails
        PROVE  IInv'
    <2>1. op' = Then("settle") /\ op.at = "capturing" /\ job[Request] = Idle /\ UNCHANGED storeVars
      BY <1>2 DEF CaptureFails, At
    <2>2. Types'
      BY <1>2, <2>1, ThenFields DEF CaptureFails, Types, disk
    <2>3. Shape'
      BY <2>1, ThenFields DEF Types, Shape, Making
    <2> QED
      BY <2>1, <2>2, <2>3, ThenFields, QuietStep DEF Making, Types
  <1>3. ASSUME Recovered
        PROVE  IInv'
    <2>1. op' = op /\ job[Request] = Idle /\ UNCHANGED storeVars
      BY <1>3 DEF Recovered, Recovering
    <2>2. Types'
      BY <1>3 DEF Recovered, Types, disk, history
    <2>3. Shape'
      BY <2>1 DEF Shape
    <2> QED
      BY <2>1, <2>2, <2>3, QuietStep DEF Making, Types, RemovedIsUnused
  <1> QED
    BY <1>1, <1>2, <1>3

-----------------------------------------------------------------------------
(* The steps that begin a write. *)

\* A template or a snapshot is written or removed.
LEMMA ItemSaves ==
    ASSUME IInv
    PROVE  /\ Prepared => IInv'
           /\ Removed => IInv'
           /\ Captured => IInv'
  <1> USE DEF IInv
  <1>1. ASSUME Prepared
        PROVE  IInv'
    <2>1. /\ op' = Then("end") /\ op.at = "prepare" /\ op.item \in Templates
          /\ ReadFile(Request, op.item, Kept)
      BY <1>1 DEF Prepared, At, Save, Shape
    <2>2. Types'
      BY <1>1, <2>1, ThenFields DEF Prepared, Types, disk, history
    <2>3. Shape'
      BY <2>1, ThenFields DEF Types, Shape, Making
    <2>4. op.item \in Items /\ op.item \notin Boxes /\ Kept \in Values /\ Kept # NoRecord
      BY <2>1, Kinds, RecordsAreValues, ValuesAreRecords
    <2>5. op'.from # NoItem => Known(op'.from)
      BY <2>1, ThenFields DEF Types, FromIsKept
    <2> QED
      BY <2>1, <2>2, <2>3, <2>4, <2>5, ThenFields, SaveStep DEF Making, Types
  <1>2. ASSUME Removed
        PROVE  IInv'
    <2>1. /\ op' = Then("end") /\ op.at = "remove" /\ op.item \in Items \ Boxes
          /\ ReadFile(Request, op.item, NoRecord)
      BY <1>2 DEF Removed, At, Save, Shape
    <2>2. Types'
      BY <1>2, <2>1, ThenFields DEF Removed, Types, SetDir, history
    <2>3. Shape'
      BY <2>1, ThenFields DEF Types, Shape, Making
    <2>4. /\ op'.from # NoItem => Known(op'.from)
          /\ op'.from # op.item
          /\ ~InUse(op.item)
      BY <2>1, ThenFields, Kinds DEF Types, Operations, Shape, FromIsKept, RemovedIsUnused
    <2> QED
      BY <2>1, <2>2, <2>3, <2>4, ThenFields, SaveStep DEF Making, Types
  <1>3. ASSUME Captured
        PROVE  IInv'
    <2>1. /\ op' = Then("child") \/ op' = Then("settle")
          /\ op.at = "capturing" /\ op.item \in Snapshots /\ op.from \in Boxes
          /\ ReadFile(Request, op.item, Kept)
      BY <1>3 DEF Captured, At, Save, Shape
    <2>2. Types'
      <3>1. op' \in Operations
        BY <2>1, ThenFields DEF Types
      <3> QED
        BY <1>3, <3>1 DEF Captured, Types, SetDir, history
    <2>3. Shape'
      BY <2>1, ThenFields DEF Types, Shape, Making
    <2>4. op.item \in Items /\ op.item \notin Boxes /\ Kept \in Values /\ Kept # NoRecord
      BY <2>1, Kinds, RecordsAreValues, ValuesAreRecords
    <2>5. op'.from # NoItem => Known(op'.from)
      BY <2>1, ThenFields DEF Types, FromIsKept
    <2> QED
      BY <2>1, <2>2, <2>3, <2>4, <2>5, ThenFields, SaveStep DEF Making, Types
  <1> QED
    BY <1>1, <1>2, <1>3

\* The record that starts a sandbox, made from what is there.
LEMMA NewBoxStep ==
    ASSUME IInv, NEW b \in Boxes, NEW src \in Sources, NEW from \in Boxes \cup {NoItem},
           SaveNewBox(b, src, from), Known(src), from # NoItem => Known(from), Types'
    PROVE  IInv'
  <1>1. /\ ReadFile(Request, b, Record(src, "creating"))
        /\ op'.at = "copy" /\ op'.item = b /\ op'.src = src /\ op'.from = from
        /\ op'.cold = FALSE /\ ~Known(b)
    BY DEF SaveNewBox, Save, Fresh, NoOp
  <1>2. b \in Items /\ Record(src, "creating") \in Values
    BY Kinds, RecordsAreValues DEF States, Transient
  <1>3. Record(src, "creating") # NoRecord /\ HasSource(Record(src, "creating"))
    BY <1>2, RecordsAreValues, ValuesAreRecords DEF HasSource, States, Transient
  <1>4. Shape'
    BY <1>1 DEF Shape, Making
  <1> QED
    BY <1>1, <1>2, <1>3, <1>4, SaveStep

\* create_sandbox and a fork's child.
LEMMA NewBoxes ==
    ASSUME IInv, NEW b \in Boxes
    PROVE  /\ \A i \in Sources : BeginBox(b, i) => IInv'
           /\ \A t \in Templates : ColdBox(b, t) => IInv'
           /\ ForkChild(b) => IInv'
  <1> USE DEF IInv
  <1>1. ASSUME NEW src \in Sources, NEW from \in Boxes \cup {NoItem}, SaveNewBox(b, src, from)
        PROVE  op' \in Operations /\ doomed' \subseteq Items /\ torn' \subseteq Boxes
    BY <1>1, Kinds DEF SaveNewBox, Save, NoOp, Operations, Types
  <1>2. ASSUME NEW i \in Sources, BeginBox(b, i)
        PROVE  IInv'
    <2>1. Types'
      BY <1>1, <1>2 DEF BeginBox, Types, disk
    <2> QED
      BY <1>2, <2>1, NewBoxStep DEF BeginBox
  <1>3. ASSUME NEW t \in Templates, ColdBox(b, t)
        PROVE  IInv'
    <2>1. t \in Sources
      BY Kinds
    <2>2. Types'
      BY <1>1, <1>3, <2>1 DEF ColdBox, Types, disk
    <2> QED
      BY <1>3, <2>1, <2>2, NewBoxStep DEF ColdBox
  <1>4. ASSUME ForkChild(b)
        PROVE  IInv'
    <2>1. /\ op.at = "child" /\ job[Request] = Idle /\ op.item \in Sources /\ op.from \in Boxes
          /\ SaveNewBox(b, op.item, op.from)
      BY <1>4, Kinds DEF ForkChild, At, Shape
    <2>2. Known(op.item) /\ (op.from # NoItem => Known(op.from))
      BY <2>1 DEF SourceIsReady, FromIsKept
    <2>3. Types'
      BY <1>1, <1>4, <2>1 DEF ForkChild, Types, disk
    <2> QED
      BY <2>1, <2>2, <2>3, NewBoxStep
  <1> QED
    BY <1>2, <1>3, <1>4

\* The record of a sandbox takes another state, and the sandbox keeps its source.
LEMMA Relabelled ==
    ASSUME IInv, NEW b \in Boxes, Known(b), NEW st \in States
    PROVE  /\ b \in Items /\ [file[b] EXCEPT !.st = st] \in Values
           /\ [file[b] EXCEPT !.st = st] # NoRecord
           /\ HasSource([file[b] EXCEPT !.st = st])
  <1>1. b \in Items /\ file[b] \in Values
    BY Kinds DEF IInv, StoreInv, StoreTypeOK, Files, Known
  <1>2. /\ [file[b] EXCEPT !.st = st] \in Values
        /\ [file[b] EXCEPT !.st = st].src = file[b].src
    BY <1>1, RecordsAreValues
  <1>3. file[b].src \in Sources /\ Known(file[b].src)
    BY DEF IInv, RecordsHaveSources, HasSource, Known
  <1> QED
    BY <1>1, <1>2, <1>3, ValuesAreRecords DEF HasSource

\* A sandbox that could not be made loses its record.
LEMMA FailStep ==
    ASSUME IInv, FailBox, op.at \in Making, Types'
    PROVE  IInv'
  <1>1. /\ op' = Then("failed") /\ op.item \in Boxes
        /\ ReadFile(Request, op.item, NoRecord)
    BY DEF FailBox, Save, IInv, Shape
  <1>2. Shape'
    BY <1>1, ThenFields DEF IInv, Types, Shape, Making
  <1>3. op.item \in Items /\ HasSource(NoRecord)
    BY <1>1, Kinds DEF HasSource
  <1>4. (op'.from # NoItem => Known(op'.from)) /\ op'.from # op.item
    BY <1>1, ThenFields, Kinds DEF IInv, Types, Operations, Shape, FromIsKept
  <1> QED
    BY <1>1, <1>2, <1>3, <1>4, ThenFields, SaveStep DEF IInv, Types, Making

\* create_sandbox's writes after the first.
LEMMA MakingSaves ==
    ASSUME IInv
    PROVE  /\ NothingToCopy => IInv'
           /\ CopyFails => IInv'
           /\ RunFails => IInv'
           /\ PublishBox => IInv'
  <1> USE DEF IInv
  <1>1. ASSUME NothingToCopy
        PROVE  IInv'
    BY <1>1, FailStep, ThenFields
    DEF NothingToCopy, At, FailBox, Save, Making, Types, disk, history
  <1>2. ASSUME CopyFails
        PROVE  IInv'
    BY <1>2, FailStep, ThenFields DEF CopyFails, At, FailBox, Save, Making, Types, disk
  <1>3. ASSUME RunFails
        PROVE  IInv'
    <2>1. FailBox /\ op.at \in Making /\ op.item \in Boxes
      BY <1>3 DEF RunFails, At, Making, Shape
    <2>2. op' \in Operations
      BY <2>1, ThenFields DEF FailBox, Save, Types
    <2>3. Types'
      BY <1>3, <2>1, <2>2 DEF RunFails, Types, SetDir
    <2> QED
      BY <2>1, <2>3, FailStep
  <1>4. ASSUME PublishBox
        PROVE  IInv'
    <2>1. /\ op.at = "publish" /\ op.item \in Boxes /\ op.src \in Sources /\ Known(op.src)
          /\ ReadFile(Request, op.item, Record(op.src, "running"))
          /\ \/ op' = Then("end")
             \/ op' = Then("settle") /\ op.from # NoItem
      BY <1>4 DEF PublishBox, At, Save, Shape, SourceIsReady, Making
    <2>2. op' \in Operations
      BY <2>1, ThenFields DEF Types
    <2>3. Types'
      BY <1>4, <2>2 DEF PublishBox, Types, disk, history
    <2>4. Shape'
      BY <2>1, ThenFields DEF Types, Operations, Shape, Making
    <2>5. /\ op.item \in Items /\ Record(op.src, "running") \in Values
          /\ Record(op.src, "running").src = op.src
      BY <2>1, Kinds, RecordsAreValues DEF States
    <2>6. Record(op.src, "running") # NoRecord /\ HasSource(Record(op.src, "running"))
      BY <2>1, <2>5, ValuesAreRecords DEF HasSource
    <2>7. op'.from # NoItem => Known(op'.from)
      BY <2>1, ThenFields DEF Types, FromIsKept
    <2> QED
      BY <2>1, <2>3, <2>4, <2>5, <2>6, <2>7, ThenFields, SaveStep DEF Making, Types
  <1> QED
    BY <1>1, <1>2, <1>3, <1>4

\* The transitions of a sandbox that is there, by an operation or by recovery.
LEMMA BoxSaves ==
    ASSUME IInv, NEW b \in Boxes
    PROVE  /\ \A s \in Snapshots, st \in {"snapshotting", "forking"} :
                  BeginSnapshot(b, s, st) => IInv'
           /\ BeginDelete(b) => IInv'
           /\ RecoverDrop(b) => IInv'
           /\ RecoverKeep(b) => IInv'
  <1> USE DEF IInv
  <1>1. ASSUME NEW s \in Snapshots, NEW st \in {"snapshotting", "forking"},
               BeginSnapshot(b, s, st)
        PROVE  IInv'
    <2>1. /\ Known(b) /\ st \in States /\ b # s /\ s \in Items
          /\ ReadFile(Request, b, [file[b] EXCEPT !.st = st])
          /\ op'.at = "capture" /\ op'.item = s /\ op'.from = b /\ op'.cold = FALSE
          /\ op' \in Operations
      BY <1>1, Kinds DEF BeginSnapshot, Save, NoOp, Operations, States, Transient
    <2>2. Types'
      BY <1>1, <2>1 DEF BeginSnapshot, Types, disk
    <2>3. Shape'
      BY <2>1, Kinds DEF Shape, Making
    <2> QED
      BY <2>1, <2>2, <2>3, Relabelled, SaveStep DEF Making
  <1>2. ASSUME BeginDelete(b)
        PROVE  IInv'
    <2>1. /\ Known(b) /\ "killing" \in States /\ b \in Items
          /\ ReadFile(Request, b, [file[b] EXCEPT !.st = "killing"])
          /\ op'.at = "remove" /\ op'.item = b /\ op'.from = NoItem /\ op'.cold = FALSE
          /\ op' \in Operations
      BY <1>2, Kinds DEF BeginDelete, Save, NoOp, Operations, States, Transient
    <2>2. Types'
      BY <1>2, <2>1 DEF BeginDelete, Types, disk
    <2>3. Shape'
      BY <2>1, Kinds DEF Shape, Making
    <2> QED
      BY <2>1, <2>2, <2>3, Relabelled, SaveStep DEF Making
  <1>3. ASSUME RecoverDrop(b)
        PROVE  IInv'
    <2>1. op' = NoOp /\ ReadFile(Request, b, NoRecord) /\ b \in Items /\ b # NoItem
      BY <1>3, Kinds DEF RecoverDrop, Save
    <2>2. Types'
      BY <1>3, <2>1, NoOpFields
      DEF RecoverDrop, Types, history, disk, SetDir, Wiped, RemoveContainer
    <2>3. Shape' /\ HasSource(NoRecord)
      BY <2>1, NoOpFields DEF Shape, Making, HasSource
    <2> QED
      BY <2>1, <2>2, <2>3, NoOpFields, SaveStep DEF Making
  <1>4. ASSUME RecoverKeep(b)
        PROVE  IInv'
    <2>1. /\ op' = NoOp /\ Known(b) /\ "running" \in States
          /\ ReadFile(Request, b, [file[b] EXCEPT !.st = "running"])
      BY <1>4 DEF RecoverKeep, Interrupted, Save, States
    <2>2. Types'
      BY <1>4, <2>1, NoOpFields DEF RecoverKeep, Types, disk, history
    <2>3. Shape'
      BY <2>1, NoOpFields DEF Shape, Making
    <2> QED
      BY <2>1, <2>2, <2>3, NoOpFields, Relabelled, SaveStep DEF Making
  <1> QED
    BY <1>1, <1>2, <1>3, <1>4

\* The end of a snapshot or fork, and of a deletion.
LEMMA LastSaves ==
    ASSUME IInv
    PROVE  /\ Settle => IInv'
           /\ DropBox => IInv'
  <1> USE DEF IInv
  <1>1. ASSUME Settle
        PROVE  IInv'
    <2>1. /\ op' = Then("end") /\ op.from \in Boxes /\ "running" \in States
          /\ ReadFile(Request, op.from, [file[op.from] EXCEPT !.st = "running"])
      BY <1>1 DEF Settle, At, Save, Shape, States
    <2>2. Known(op.from)
      BY <2>1, Kinds DEF FromIsKept
    <2>3. Types'
      BY <1>1, <2>1, ThenFields DEF Settle, Types, disk, history
    <2>4. Shape'
      BY <2>1, ThenFields DEF Types, Shape, Making
    <2> QED
      BY <2>1, <2>2, <2>3, <2>4, ThenFields, Relabelled, SaveStep DEF Making, Types
  <1>2. ASSUME DropBox
        PROVE  IInv'
    <2>1. /\ op' = Then("end") /\ op.item \in Boxes /\ op.item \in Items
          /\ ReadFile(Request, op.item, NoRecord)
      BY <1>2, Kinds DEF DropBox, At, Save, Shape
    <2>2. Types'
      BY <1>2, <2>1, ThenFields DEF DropBox, Types, SetDir, Wiped, history
    <2>3. Shape' /\ HasSource(NoRecord)
      BY <2>1, ThenFields DEF Types, Shape, Making, HasSource
    <2>4. (op'.from # NoItem => Known(op'.from)) /\ op'.from # op.item
      BY <2>1, ThenFields, Kinds DEF Types, Operations, Shape, FromIsKept
    <2> QED
      BY <2>1, <2>2, <2>3, <2>4, ThenFields, SaveStep DEF Making, Types
  <1> QED
    BY <1>1, <1>2

-----------------------------------------------------------------------------
(* The steps of a write, a command's event and a crash. *)

\* What the change to the temporary file leaves.
LEMMA TemporaryEffect ==
    ASSUME IInv, NEW w \in Writers, WriteTemporary(w)
    PROVE  /\ StoreInv' /\ file' = file
           /\ \A u \in Writers :
                  /\ job'[u] = Idle <=> job[u] = Idle
                  /\ job[u] # Idle => job'[u].key = job[u].key /\ job'[u].value = job[u].value
  <1>1. StoreInv' /\ file' = file
    BY WriteTemporaryKeeps DEF IInv, WriteTemporary
  <1>2. job \in [Writers -> Jobs] /\ job[w] \in Jobs /\ job[w].at = "read" /\ job[w] # Idle
    BY JobFields DEF WriteTemporary, IInv, StoreInv, StoreTypeOK
  <1>3. \A u \in Writers : u # w => job'[u] = job[u]
    BY <1>2 DEF WriteTemporary
  <1>4. job'[w].at = "written" /\ job'[w].key = job[w].key /\ job'[w].value = job[w].value
    BY <1>2 DEF WriteTemporary, Jobs, Idle
  <1>5. job'[w] # Idle
    BY <1>1, <1>4, JobFields DEF StoreInv, StoreTypeOK
  <1> QED
    BY <1>1, <1>2, <1>3, <1>4, <1>5

\* What the replacement of the file leaves.
LEMMA ReplaceEffect ==
    ASSUME IInv, NEW w \in Writers, Replace(w)
    PROVE  /\ StoreInv'
           /\ job[w] # Idle /\ \A u \in Writers \ {w} : job[u] = Idle
           /\ \A u \in Writers : job'[u] = Idle
           /\ file \in Files /\ file' = [file EXCEPT ![job[w].key] = job[w].value]
  <1>1. StoreInv'
    BY ReplaceKeeps DEF IInv
  <1>2. job \in [Writers -> Jobs] /\ job[w] # Idle /\ job[w].at = "written"
    BY JobFields DEF Replace, IInv, StoreInv, StoreTypeOK
  <1>3. \A u \in Writers \ {w} : job[u] = Idle
    BY <1>2 DEF IInv, StoreInv, OneJob
  <1>4. \A u \in Writers : job'[u] = Idle
    BY <1>2, <1>3 DEF Replace
  <1>5. file \in Files /\ file' = [file EXCEPT ![job[w].key] = job[w].value]
    BY <1>2 DEF Replace, IInv, StoreInv, StoreTypeOK, CopyIsCurrent
  <1> QED
    BY <1>1, <1>2, <1>3, <1>4, <1>5

\* A command's event takes effect: the items have the records they had.
LEMMA EventReplaced ==
    ASSUME IInv, Replace(CommandThread), UNCHANGED op, Types'
    PROVE  IInv'
  <1>1. /\ StoreInv' /\ job[CommandThread].key \in Events
        /\ job[Request] = Idle /\ job'[Request] = Idle /\ job'[CommandThread] = Idle
        /\ file \in Files /\ file' = [file EXCEPT ![job[CommandThread].key] = job[CommandThread].value]
    BY ReplaceEffect, Kinds DEF IInv, Writing
  <1>2. \A i \in Items : file'[i] = file[i]
    BY <1>1, Kinds DEF Files
  <1>3. Shape' /\ Writing'
    BY <1>1 DEF IInv, Shape, Writing
  <1>4. FromIsKept' /\ SourceIsReady'
    BY <1>1, <1>2, Kinds DEF IInv, Types, Operations, FromIsKept, SourceIsReady, Shape, Known
  <1>5. RemovedIsUnused' /\ RecordsHaveSources'
    BY <1>1, <1>2, Kinds DEF IInv, RemovedIsUnused, InUse, RecordsHaveSources, HasSource, Known
  <1> QED
    BY <1>1, <1>3, <1>4, <1>5 DEF IInv

\* The operation's write takes effect.
LEMMA RequestReplaced ==
    ASSUME IInv, Replace(Request), UNCHANGED op, Types'
    PROVE  IInv'
  <1> DEFINE k == job[Request].key
             v == job[Request].value
  <1>1. /\ StoreInv' /\ job[Request] # Idle
        /\ job'[Request] = Idle /\ job'[CommandThread] = Idle
        /\ file \in Files /\ file' = [file EXCEPT ![k] = v]
    BY ReplaceEffect, Kinds
  <1>2. k \in Items /\ k \in Keys
    BY <1>1, Kinds DEF IInv, Writing
  <1>3. \A i \in Items : file'[i] = IF i = k THEN v ELSE file[i]
    BY <1>1, <1>2, Kinds DEF Files
  <1>4. /\ v = NoRecord => k # op.from
        /\ v = NoRecord /\ k \notin Boxes => op.at = "end" /\ ~InUse(k)
        /\ op.at = "child" => op.item = k /\ v # NoRecord
        /\ k \in Boxes => HasSource(v)
        /\ ~(op.at = "remove" /\ op.item \notin Boxes)
    BY <1>1 DEF IInv, FromIsKept, RemovedIsUnused, SourceIsReady, RecordsHaveSources
  <1> HIDE DEF k, v
  <1>5. Shape' /\ Writing'
    BY <1>1 DEF IInv, Shape, Writing
  <1>6. FromIsKept'
    BY <1>1, <1>3, <1>4, Kinds DEF IInv, Types, Operations, FromIsKept, Known
  <1>7. SourceIsReady'
    BY <1>1, <1>2, <1>3, <1>4, Kinds DEF IInv, SourceIsReady, Making, Known
  <1>8. RemovedIsUnused'
    BY <1>1, <1>4 DEF RemovedIsUnused
  <1>9. ASSUME NEW b \in Boxes, file'[b] # NoRecord
        PROVE  file'[b].src \in Sources /\ file'[file'[b].src] # NoRecord
    <2>1. file'[b].src \in Sources /\ file[file'[b].src] # NoRecord
      BY <1>3, <1>4, <1>9, Kinds DEF IInv, RecordsHaveSources, HasSource, Known
    <2>2. CASE file'[b].src = k /\ v = NoRecord
      <3>1. k \notin Boxes /\ ~InUse(k)
        BY <1>4, <2>1, <2>2, Kinds
      <3> QED
        BY <1>3, <1>9, <2>2, <3>1, Kinds DEF InUse, Known
    <2>3. CASE ~(file'[b].src = k /\ v = NoRecord)
      BY <1>3, <2>1, <2>3, Kinds
    <2> QED
      BY <2>2, <2>3
  <1>10. RecordsHaveSources'
    BY <1>1, <1>9 DEF RecordsHaveSources, HasSource, Known
  <1> QED
    BY <1>1, <1>5, <1>6, <1>7, <1>8, <1>10 DEF IInv

\* What happens without the orchestrator's lock.
LEMMA OtherSteps ==
    ASSUME IInv
    PROVE  /\ \A e \in Events : CommandEvent(e) => IInv'
           /\ Write => IInv'
           /\ Crash => IInv'
  <1>1. ASSUME NEW e \in Events, CommandEvent(e)
        PROVE  IInv'
    <2>1. e \in Keys /\ Kept \in Values \cup {NoRecord} /\ ReadFile(CommandThread, e, Kept)
      BY <1>1, Kinds, RecordsAreValues DEF CommandEvent
    <2>2. /\ StoreInv' /\ file' = file /\ job[Request] = Idle /\ job'[Request] = Idle
          /\ job'[CommandThread].key = e /\ op' = op
      BY <1>1, <2>1, SaveEffect, Kinds DEF CommandEvent
    <2>3. Types' /\ Shape' /\ Writing'
      BY <1>1, <2>2 DEF CommandEvent, IInv, Types, Shape, Writing, disk, history
    <2>4. FromIsKept' /\ SourceIsReady'
      BY <2>2 DEF IInv, FromIsKept, SourceIsReady, Known
    <2>5. RemovedIsUnused' /\ RecordsHaveSources'
      BY <2>2 DEF IInv, RemovedIsUnused, InUse, RecordsHaveSources, HasSource, Known
    <2> QED
      BY <2>2, <2>3, <2>4, <2>5 DEF IInv
  <1>2. ASSUME Write
        PROVE  IInv'
    <2>1. op' = op /\ Types'
      BY <1>2 DEF Write, IInv, Types, disk, history
    <2>2. ASSUME NEW w \in Writers, WriteTemporary(w)
          PROVE  IInv'
      <3>1. /\ StoreInv' /\ file' = file
            /\ job'[Request] = Idle <=> job[Request] = Idle
            /\ job[Request] # Idle => /\ job'[Request].key = job[Request].key
                                     /\ job'[Request].value = job[Request].value
            /\ job'[CommandThread] = Idle <=> job[CommandThread] = Idle
            /\ job[CommandThread] # Idle => job'[CommandThread].key = job[CommandThread].key
        BY <2>2, TemporaryEffect, Kinds
      <3>2. Shape' /\ Writing'
        BY <2>1, <3>1 DEF IInv, Shape, Writing
      <3>3. FromIsKept' /\ SourceIsReady'
        BY <2>1, <3>1 DEF IInv, FromIsKept, SourceIsReady, Known
      <3>4. RemovedIsUnused' /\ RecordsHaveSources'
        BY <2>1, <3>1 DEF IInv, RemovedIsUnused, InUse, RecordsHaveSources, HasSource, Known
      <3> QED
        BY <2>1, <3>1, <3>2, <3>3, <3>4 DEF IInv
    <2>3. ASSUME NEW w \in Writers, Replace(w)
          PROVE  IInv'
      BY <2>1, <2>3, EventReplaced, RequestReplaced, Kinds
    <2> QED
      BY <1>2, <2>2, <2>3 DEF Write, WriteStep
  <1>3. ASSUME Crash
        PROVE  IInv'
    <2>1. StoreInv' /\ file' = file /\ op' = NoOp
      BY <1>3, DieKeeps DEF Crash, Die, IInv
    <2>2. job'[Request] = Idle /\ job'[CommandThread] = Idle
      BY <1>3, Kinds DEF Crash, Die
    <2>3. Types'
      BY <1>3, NoOpFields DEF Crash, IInv, Types, disk
    <2>4. Shape' /\ Writing' /\ FromIsKept' /\ SourceIsReady' /\ RemovedIsUnused'
      BY <2>1, <2>2, NoOpFields
      DEF Shape, Writing, FromIsKept, SourceIsReady, RemovedIsUnused, Making
    <2>5. RecordsHaveSources'
      BY <2>1, <2>2 DEF IInv, RecordsHaveSources, HasSource, Known
    <2> QED
      BY <2>1, <2>3, <2>4, <2>5 DEF IInv
  <1> QED
    BY <1>1, <1>2, <1>3

-----------------------------------------------------------------------------
(* The theorems. *)

\* The service starts with no records and no operation.
LEMMA StorageInit == Init => IInv
  <1> SUFFICES ASSUME Init PROVE IInv
    OBVIOUS
  <1>1. StoreInv /\ (\A k \in Keys : file[k] = NoRecord) /\ (\A w \in Writers : job[w] = Idle)
    BY StoreInvInit DEF Init, StoreInit
  <1>2. Types
    BY NoOpFields DEF Init, Types
  <1>3. Shape /\ Writing /\ FromIsKept /\ SourceIsReady /\ RemovedIsUnused
    BY <1>1, NoOpFields, Kinds
    DEF Init, Shape, Writing, FromIsKept, SourceIsReady, RemovedIsUnused, Making
  <1>4. RecordsHaveSources
    BY <1>1, Kinds DEF RecordsHaveSources, HasSource
  <1> QED
    BY <1>1, <1>2, <1>3, <1>4 DEF IInv

\* Every step keeps the invariant.
LEMMA StorageStep == IInv /\ [Next]_vars => IInv'
  <1> SUFFICES ASSUME IInv, [Next]_vars PROVE IInv'
    OBVIOUS
  <1>1. CASE Next
    BY <1>1, TemplateSteps, RemoveSteps, MakingSteps, CaptureSteps, ItemSaves, NewBoxes,
       MakingSaves, BoxSaves, LastSaves, OtherSteps DEF Next, Sources
  <1>2. CASE UNCHANGED vars
    <2>1. UNCHANGED storeVars /\ op' = op /\ Types'
      BY <1>2 DEF vars, disk, history, IInv, Types
    <2>2. StoreInv' /\ file' = file /\ job' = job
      BY <2>1, StoreStep DEF IInv, storeVars
    <2>3. Shape' /\ Writing' /\ FromIsKept' /\ SourceIsReady'
      BY <2>1, <2>2 DEF IInv, Shape, Writing, FromIsKept, SourceIsReady, Known
    <2>4. RemovedIsUnused' /\ RecordsHaveSources'
      BY <2>1, <2>2 DEF IInv, RemovedIsUnused, InUse, RecordsHaveSources, HasSource, Known
    <2> QED
      BY <2>1, <2>2, <2>3, <2>4 DEF IInv
  <1> QED
    BY <1>1, <1>2

\* The inductive invariant holds throughout.
LEMMA StorageInvariant == Spec => []IInv
  BY StorageInit, StorageStep, PTL DEF Spec

\* Every variable has its type, whatever is created, removed or interrupted.
THEOREM TypeCorrect == Spec => []TypeOK
  <1>1. IInv => TypeOK
    BY DEF IInv, Types, StoreInv, StoreTypeOK, TypeOK
  <1> QED
    BY <1>1, StorageInvariant, PTL

\* No template or snapshot loses its record while a sandbox made from it has
\* one: the check of delete_template and delete_snapshot is enough, although
\* their record goes some steps later, a fork writes its snapshot's record just
\* before the child's, and the process may die anywhere.
THEOREM SourcesAreKept == Spec => []SourceIsKept
  <1>1. IInv => SourceIsKept
    BY DEF IInv, RecordsHaveSources, HasSource, SourceIsKept, Known
  <1> QED
    BY <1>1, StorageInvariant, PTL

\* A step changes no record but the one that a write puts in place.
LEMMA CatalogueKept ==
    ASSUME IInv, [Next]_vars
    PROVE  [C!Next]_file
  <1>1. CASE UNCHANGED vars
    BY <1>1 DEF vars, storeVars
  <1>2. CASE Write
    <2>1. ASSUME NEW w \in Writers, WriteTemporary(w)
          PROVE  [C!Next]_file
      BY <2>1 DEF WriteTemporary
    <2>2. ASSUME NEW w \in Writers, Replace(w)
          PROVE  [C!Next]_file
      BY <2>2, ReplaceKeeps, CatalogueStep DEF IInv
    <2> QED
      BY <1>2, <2>1, <2>2 DEF Write, WriteStep
  <1>3. ASSUME NEW w, NEW k, NEW v, ReadFile(w, k, v)
        PROVE  file' = file
    BY <1>3 DEF ReadFile
  <1>4. CASE \/ \E t \in Templates : ColdFails(t) \/ \E c \in BOOLEAN : BeginTemplate(t, c)
             \/ TemplateFiles \/ TemplateCopyFails \/ PrepareFails \/ RemoveFails
             \/ \E i \in Templates \cup Snapshots : BeginRemove(i)
             \/ BeginCopy \/ Copied \/ RunBox \/ BoxFailed \/ BeginCapture \/ CaptureFails
             \/ DestroyBox \/ End \/ Crash \/ Recovered
    BY <1>4
    DEF ColdFails, BeginTemplate, TemplateFiles, TemplateCopyFails, PrepareFails, RemoveFails,
        BeginRemove, BeginCopy, Copied, RunBox, BoxFailed, BeginCapture, CaptureFails,
        DestroyBox, End, Crash, Die, Recovered, storeVars
  <1>5. CASE \/ Prepared \/ Removed \/ Captured \/ Settle \/ DropBox
             \/ NothingToCopy \/ CopyFails \/ RunFails \/ PublishBox
             \/ \E e \in Events : CommandEvent(e)
    BY <1>3, <1>5
    DEF Prepared, Removed, Captured, Settle, DropBox, NothingToCopy, CopyFails, RunFails,
        PublishBox, CommandEvent, FailBox, Save
  <1>6. CASE \E b \in Boxes :
                 \/ \E i \in Templates \cup Snapshots : BeginBox(b, i)
                 \/ \E t \in Templates : ColdBox(b, t)
                 \/ \E s \in Snapshots, st \in {"snapshotting", "forking"} :
                        BeginSnapshot(b, s, st)
                 \/ ForkChild(b) \/ BeginDelete(b) \/ RecoverDrop(b) \/ RecoverKeep(b)
    BY <1>3, <1>6
    DEF BeginBox, ColdBox, BeginSnapshot, ForkChild, BeginDelete, RecoverDrop, RecoverKeep,
        SaveNewBox, Save
  <1> QED
    BY <1>1, <1>2, <1>4, <1>5, <1>6 DEF Next

\* What the operations do to the records between them, with commands writing
\* their events without the orchestrator's lock and crashes in the middle of a
\* write, is what a catalogue does: no write undoes another.
THEOREM OperationsKeepCatalogue == Spec => AtomicCatalogue
  <1>1. Init => C!Init
    BY DEF Init, StoreInit, C!Init
  <1> QED
    BY <1>1, CatalogueKept, StorageInvariant, PTL DEF Spec, AtomicCatalogue, C!Spec

-----------------------------------------------------------------------------
(* Directories and containers. *)

\* The record an item has now, and will have when the operation's write is done.
Will(i) ==
    IF job[Request] # Idle /\ job[Request].key = i THEN job[Request].value ELSE file[i]
Records(i) == {file[i], Will(i)} \ {NoRecord}

\* Why a sandbox made from src has what it is entitled to.
Whole(b, src) ==
    dir[b] = "full" \/ b \in doomed \/ src \in doomed \/ (backend = "local" /\ b \in torn)

\* A template or snapshot with a record, or about to have one, has its files.
SourcesFull == \A i \in Sources : Records(i) # {} /\ i \notin doomed => dir[i] = "full"

\* So does a sandbox that is past its creation; one that is being deleted is
\* doomed.
BoxesWhole ==
    \A b \in Boxes : \A v \in Records(b) :
        /\ v.st # "creating" => Whole(b, v.src)
        /\ v.st = "killing" => b \in doomed

\* What is on disk before its record is.
Early == {"files", "prepare", "capture", "capturing"}
EarlyOK ==
    /\ op.at \in Early => Records(op.item) = {}
    /\ op.at = "prepare" => dir[op.item] = "full"

\* What is on disk after its record is gone, or is going.
LateOK ==
    /\ op.at \in {"remove", "destroyed"} => op.item \in doomed
    /\ op.at = "destroyed" => Will(op.item) # NoRecord
    /\ op.at = "destroyed" /\ clean => op.item \notin containers
    /\ op.at = "remove" /\ op.item \in Boxes => Will(op.item) # NoRecord

\* What a sandbox has on its way.
MakingOK ==
    /\ op.at \in Making => Will(op.item) = Record(op.src, "creating")
    /\ op.at = "copy" => ~HasFiles(op.item)
    /\ op.at \in {"copy", "copying", "run"} => op.item \notin containers
    /\ op.at \in {"run", "publish"} => Whole(op.item, op.src)
    /\ op.from # NoItem => Will(op.from) # NoRecord /\ Will(op.from).st # "creating"

\* Recovery finds creations that a crash has cut short, and no others.
RecoveryOK ==
    mode = "recovering" =>
        /\ op.at = "none" /\ ~clean
        /\ \A b \in Boxes : \A v \in Records(b) : v.st = "creating" => b \in torn

\* Until something is cut short, what is on disk is early or has a record.
CleanOK ==
    clean =>
        /\ op.at = "none" => job[Request] = Idle
        /\ \A i \in Items :
               HasFiles(i) \/ i \in containers =>
                   Will(i) # NoRecord \/ (op.at \in Early /\ i = op.item)

\* The inductive invariant, on top of IInv of StorageProofs.
FInv ==
    /\ SourcesFull /\ BoxesWhole /\ EarlyOK /\ LateOK /\ MakingOK /\ RecoveryOK /\ CleanOK

-----------------------------------------------------------------------------
(* What the writes to the store do to the records. *)

\* Records are values, and a sandbox's names a source that is there.
LEMMA RecordValues ==
    ASSUME IInv
    PROVE  /\ \A i \in Items : Records(i) \subseteq Values
           /\ \A b \in Boxes : \A v \in Records(b) : v.src \in Sources /\ Known(v.src)
  <1>1. /\ file \in Files /\ job[Request] \in Jobs
    BY Kinds DEF IInv, StoreInv, StoreTypeOK
  <1>2. job[Request] # Idle => job[Request].value \in Values \cup {NoRecord}
    BY <1>1 DEF Jobs
  <1>3. \A i \in Items : Records(i) \subseteq Values
    BY <1>1, <1>2, Kinds DEF Records, Will, Files
  <1>4. \A b \in Boxes : \A v \in Records(b) : v.src \in Sources /\ Known(v.src)
    BY DEF IInv, RecordsHaveSources, HasSource, Records, Will
  <1> QED
    BY <1>3, <1>4

\* Between writes an item has the record it will have.
LEMMA IdleView ==
    ASSUME job[Request] = Idle, NEW i
    PROVE  Will(i) = file[i] /\ Records(i) = {file[i]} \ {NoRecord}
  BY DEF Will, Records

\* A step that writes nothing leaves every record.
LEMMA SameView ==
    ASSUME UNCHANGED storeVars
    PROVE  file' = file /\ job' = job /\ \A i : Will(i)' = Will(i) /\ Records(i)' = Records(i)
  BY DEF storeVars, Will, Records

\* A write that begins is the future of one record.
LEMMA SaveView ==
    ASSUME IInv, NEW k \in Items, NEW v \in Values \cup {NoRecord}, ReadFile(Request, k, v)
    PROVE  /\ file' = file /\ job[Request] = Idle
           /\ \A i : Will(i) = file[i] /\ Records(i) = {file[i]} \ {NoRecord}
           /\ \A i : Will(i)' = IF i = k THEN v ELSE file[i]
           /\ \A i : i # k => Records(i)' = Records(i)
           /\ Records(k)' = (Records(k) \cup {v}) \ {NoRecord}
  <1>1. /\ file' = file /\ job[Request] = Idle
        /\ job'[Request] # Idle /\ job'[Request].key = k /\ job'[Request].value = v
    BY SaveEffect, Kinds
  <1>2. \A i : Will(i)' = IF i = k THEN v ELSE file[i]
    BY <1>1 DEF Will
  <1>3. \A i : Will(i) = file[i] /\ Records(i) = {file[i]} \ {NoRecord}
    BY <1>1, IdleView
  <1>4. \A i : Records(i)' = {file[i], Will(i)'} \ {NoRecord}
    BY <1>1 DEF Records
  <1> QED
    BY <1>1, <1>2, <1>3, <1>4

\* The record of a sandbox that is made from src.
LEMMA BoxRecord ==
    ASSUME NEW src \in Sources, NEW st \in {"creating", "running"}
    PROVE  /\ Record(src, st) \in Values /\ Record(src, st) # NoRecord
           /\ Record(src, st).src = src /\ Record(src, st).st = st
  <1>1. st \in States
    BY DEF States, Transient
  <1>2. Record(src, st) \in Values
    BY <1>1, RecordsAreValues
  <1> QED
    BY <1>2, ValuesAreRecords DEF Record

\* The invariant depends on the records only through what they are and will be.
LEMMA StoreOnly ==
    ASSUME FInv, UNCHANGED <<backend, mode, op, dir, containers, doomed, torn, clean>>,
           \A i \in Items : Will(i)' = Will(i) /\ Records(i)' \subseteq Records(i),
           job[Request] = Idle => job'[Request] = Idle, op \in Operations, Shape
    PROVE  FInv'
  <1> USE DEF FInv
  <1>0. /\ op.at \in Early \/ op.at \in {"remove", "destroyed"} \/ op.at \in Making =>
               op.item \in Items
        /\ op.from # NoItem => op.from \in Items
    BY Kinds DEF Shape, Early, Making, Operations
  <1>1. SourcesFull' /\ BoxesWhole'
    BY Kinds DEF SourcesFull, BoxesWhole, Whole
  <1>2. EarlyOK'
    BY <1>0 DEF EarlyOK
  <1>3. LateOK'
    BY <1>0 DEF LateOK
  <1>4. MakingOK'
    BY <1>0 DEF MakingOK, Whole, HasFiles
  <1>5. RecoveryOK'
    BY Kinds DEF RecoveryOK
  <1>6. CleanOK'
    BY DEF CleanOK, HasFiles
  <1> QED
    BY <1>1, <1>2, <1>3, <1>4, <1>5, <1>6

-----------------------------------------------------------------------------
(* The steps that write nothing. *)

\* create_template.
LEMMA TemplateFileSteps ==
    ASSUME IInv, FInv
    PROVE  /\ \A t \in Templates, c \in BOOLEAN : BeginTemplate(t, c) => FInv'
           /\ TemplateFiles => FInv'
           /\ TemplateCopyFails => FInv'
           /\ PrepareFails => FInv'
           /\ End => FInv'
  <1>0. /\ dir \in [Items -> {"none", "bare", "part", "full"}] /\ op \in Operations
        /\ \A i \in Templates : i \in Items /\ i \in Sources /\ i \notin Boxes
    BY Kinds DEF IInv, Types
  <1>1. ASSUME NEW t \in Templates, NEW c \in BOOLEAN, BeginTemplate(t, c)
        PROVE  FInv'
    <2>1. /\ op'.at = "files" /\ op'.item = t /\ op'.from = NoItem /\ op.at = "none"
          /\ job[Request] = Idle /\ file[t] = NoRecord /\ t \notin containers /\ mode = "up"
          /\ dir' = [dir EXCEPT ![t] = "part"] /\ doomed' = doomed \ {t}
          /\ UNCHANGED <<backend, mode, containers, torn, clean>>
      BY <1>1 DEF BeginTemplate, NoOp, Free, Fresh, Known, SetDir
    <2>2. file' = file /\ job' = job /\ \A i : Will(i)' = Will(i) /\ Records(i)' = Records(i)
      BY <1>1, SameView DEF BeginTemplate
    <2>3. Records(t) = {} /\ \A b \in Boxes : \A v \in Records(b) : v.src # t
      BY <2>1, IdleView, RecordValues DEF Known
    <2>4. SourcesFull'
      BY <1>0, <2>1, <2>2, <2>3, Kinds DEF FInv, SourcesFull
    <2>5. BoxesWhole'
      BY <1>0, <2>1, <2>2, <2>3, Kinds DEF FInv, BoxesWhole, Whole
    <2>6. EarlyOK' /\ LateOK' /\ MakingOK' /\ RecoveryOK'
      BY <2>1, <2>2, <2>3 DEF EarlyOK, LateOK, MakingOK, Making, RecoveryOK, HasFiles
    <2>7. CleanOK'
      BY <1>0, <2>1, <2>2 DEF FInv, CleanOK, Early, HasFiles
    <2> QED
      BY <2>4, <2>5, <2>6, <2>7 DEF FInv
  <1>2. ASSUME TemplateFiles
        PROVE  FInv'
    <2>1. /\ op'.at = "prepare" /\ op'.item = op.item /\ op'.from = op.from
          /\ op.at = "files" /\ op.item \in Templates /\ job[Request] = Idle
          /\ dir' = [dir EXCEPT ![op.item] = "full"]
          /\ UNCHANGED <<backend, mode, containers, doomed, torn, clean>>
      BY <1>0, <1>2, ThenFields DEF TemplateFiles, At, SetDir, history, IInv, Shape
    <2>2. file' = file /\ job' = job /\ \A i : Will(i)' = Will(i) /\ Records(i)' = Records(i)
      BY <1>2, SameView DEF TemplateFiles
    <2>3. SourcesFull'
      BY <1>0, <2>1, <2>2, Kinds DEF FInv, SourcesFull
    <2>4. BoxesWhole'
      BY <1>0, <2>1, <2>2, Kinds DEF FInv, BoxesWhole, Whole
    <2>5. EarlyOK' /\ LateOK' /\ MakingOK' /\ RecoveryOK'
      BY <1>0, <2>1, <2>2 DEF FInv, Early, EarlyOK, LateOK, MakingOK, Making, RecoveryOK, HasFiles
    <2>6. CleanOK'
      BY <1>0, <2>1, <2>2 DEF FInv, CleanOK, Early, HasFiles
    <2> QED
      BY <2>3, <2>4, <2>5, <2>6 DEF FInv
  <1>3. ASSUME TemplateCopyFails
        PROVE  FInv'
    <2>1. /\ op'.at = "none" /\ op'.from = NoItem /\ job[Request] = Idle /\ op.at = "files"
          /\ clean' = FALSE /\ UNCHANGED <<backend, mode, dir, containers, doomed, torn>>
      BY <1>3, NoOpFields DEF TemplateCopyFails, At, disk
    <2>2. file' = file /\ job' = job /\ \A i : Will(i)' = Will(i) /\ Records(i)' = Records(i)
      BY <1>3, SameView DEF TemplateCopyFails
    <2> QED
      BY <2>1, <2>2 DEF FInv, SourcesFull, BoxesWhole, Whole, EarlyOK, Early, LateOK, MakingOK,
                        Making, RecoveryOK, CleanOK, HasFiles
  <1>4. ASSUME PrepareFails
        PROVE  FInv'
    <2>1. /\ op'.at = "none" /\ op'.from = NoItem /\ job[Request] = Idle
          /\ op.at = "prepare" /\ op.item \in Templates
          /\ \E left \in {"none", "part"} :
                 dir' = [dir EXCEPT ![op.item] = left] /\ clean' = (clean /\ left = "none")
          /\ UNCHANGED <<backend, mode, containers, doomed, torn>>
      BY <1>4, NoOpFields DEF PrepareFails, At, SetDir, IInv, Shape
    <2>2. file' = file /\ job' = job /\ \A i : Will(i)' = Will(i) /\ Records(i)' = Records(i)
      BY <1>4, SameView DEF PrepareFails
    <2>3. Records(op.item) = {}
      BY <2>1 DEF FInv, EarlyOK, Early
    <2>4. SourcesFull'
      BY <1>0, <2>1, <2>2, <2>3, Kinds DEF FInv, SourcesFull
    <2>5. BoxesWhole'
      BY <1>0, <2>1, <2>2, Kinds DEF FInv, BoxesWhole, Whole
    <2>6. EarlyOK' /\ LateOK' /\ MakingOK' /\ RecoveryOK'
      BY <2>1, <2>2 DEF FInv, Early, EarlyOK, LateOK, MakingOK, Making, RecoveryOK, HasFiles
    <2>7. CleanOK'
      <3>1. op.item \notin containers
        BY <1>0, <2>1 DEF IInv, Types
      <3> QED
        BY <1>0, <2>1, <2>2, <3>1 DEF FInv, CleanOK, Early, HasFiles
    <2> QED
      BY <2>4, <2>5, <2>6, <2>7 DEF FInv
  <1>5. ASSUME End
        PROVE  FInv'
    <2>1. /\ op'.at = "none" /\ op'.from = NoItem /\ job[Request] = Idle /\ op.at = "end"
          /\ UNCHANGED <<backend, mode, dir, containers, doomed, torn, clean>>
      BY <1>5, NoOpFields DEF End, At, disk, history
    <2>2. file' = file /\ job' = job /\ \A i : Will(i)' = Will(i) /\ Records(i)' = Records(i)
      BY <1>5, SameView DEF End
    <2> QED
      BY <2>1, <2>2 DEF FInv, SourcesFull, BoxesWhole, Whole, EarlyOK, Early, LateOK, MakingOK,
                        Making, RecoveryOK, CleanOK, HasFiles
  <1> QED
    BY <1>1, <1>2, <1>3, <1>4, <1>5

\* What is removed, and a cold sandbox that is not made.
LEMMA RemoveFileSteps ==
    ASSUME IInv, FInv
    PROVE  /\ \A i \in Sources : BeginRemove(i) => FInv'
           /\ RemoveFails => FInv'
           /\ \A t \in Templates : ColdFails(t) => FInv'
           /\ DestroyBox => FInv'
  <1>0. /\ dir \in [Items -> {"none", "bare", "part", "full"}] /\ op \in Operations
        /\ \A i \in Sources : i \in Items /\ i \notin Boxes
    BY Kinds DEF IInv, Types
  <1>1. ASSUME NEW i \in Sources, BeginRemove(i)
        PROVE  FInv'
    <2>1. /\ op'.at = "remove" /\ op'.item = i /\ op'.from = NoItem /\ op.at = "none"
          /\ job[Request] = Idle /\ file[i] # NoRecord /\ mode = "up"
          /\ dir' = [dir EXCEPT ![i] = IF dir[i] = "none" THEN "none" ELSE "part"]
          /\ doomed' = doomed \cup {i}
          /\ UNCHANGED <<backend, mode, containers, torn, clean>>
      BY <1>1 DEF BeginRemove, NoOp, Free, Known, SetDir
    <2>2. file' = file /\ job' = job /\ \A j : Will(j)' = Will(j) /\ Records(j)' = Records(j)
      BY <1>1, SameView DEF BeginRemove
    <2>3. SourcesFull'
      BY <1>0, <2>1, <2>2, Kinds DEF FInv, SourcesFull
    <2>4. BoxesWhole'
      BY <1>0, <2>1, <2>2, Kinds DEF FInv, BoxesWhole, Whole
    <2>5. EarlyOK' /\ LateOK' /\ MakingOK' /\ RecoveryOK'
      BY <1>0, <2>1, <2>2 DEF EarlyOK, Early, LateOK, MakingOK, Making, RecoveryOK, HasFiles
    <2>a. Will(i) # NoRecord
      BY <2>1 DEF Will
    <2>b. \A j \in Items : HasFiles(j)' => HasFiles(j) \/ j = i
      BY <1>0, <2>1 DEF HasFiles
    <2>6. CleanOK'
      BY <2>1, <2>2, <2>a, <2>b DEF FInv, CleanOK, Early
    <2> QED
      BY <2>3, <2>4, <2>5, <2>6 DEF FInv
  <1>2. ASSUME RemoveFails
        PROVE  FInv'
    <2>1. /\ op'.at = "none" /\ op'.from = NoItem /\ job[Request] = Idle /\ op.at = "remove"
          /\ UNCHANGED <<backend, mode, dir, containers, doomed, torn, clean>>
      BY <1>2, NoOpFields DEF RemoveFails, At, disk, history
    <2>2. file' = file /\ job' = job /\ \A i : Will(i)' = Will(i) /\ Records(i)' = Records(i)
      BY <1>2, SameView DEF RemoveFails
    <2> QED
      BY <2>1, <2>2 DEF FInv, SourcesFull, BoxesWhole, Whole, EarlyOK, Early, LateOK, MakingOK,
                        Making, RecoveryOK, CleanOK, HasFiles
  <1>3. ASSUME NEW t \in Templates, ColdFails(t)
        PROVE  FInv'
    <2>1. UNCHANGED <<storeVars, op, backend, mode, dir, containers, doomed, torn, clean>>
      BY <1>3 DEF ColdFails, disk, history
    <2>2. job' = job /\ \A i : Will(i)' = Will(i) /\ Records(i)' = Records(i)
      BY <2>1, SameView
    <2> QED
      BY <1>0, <2>1, <2>2, StoreOnly DEF IInv
  <1>4. ASSUME DestroyBox
        PROVE  FInv'
    <2>1. /\ op'.at = "destroyed" /\ op'.item = op.item /\ op'.from = op.from
          /\ op.at = "remove" /\ op.item \in Boxes /\ job[Request] = Idle
          /\ dir' = [dir EXCEPT ![op.item] = "part"]
          /\ containers' \in {containers, containers \ {op.item}}
          /\ clean' = (clean /\ op.item \notin containers')
          /\ UNCHANGED <<backend, mode, doomed, torn>>
      BY <1>0, <1>4, ThenFields DEF DestroyBox, At, SetDir, RemoveContainer
    <2>2. file' = file /\ job' = job /\ \A i : Will(i)' = Will(i) /\ Records(i)' = Records(i)
      BY <1>4, SameView DEF DestroyBox
    <2>3. op.item \in doomed /\ Will(op.item) # NoRecord
      BY <2>1 DEF FInv, LateOK
    <2>4. SourcesFull'
      BY <1>0, <2>1, <2>2, Kinds DEF FInv, SourcesFull
    <2>5. BoxesWhole'
      BY <1>0, <2>1, <2>2, <2>3, Kinds DEF FInv, BoxesWhole, Whole
    <2>6. EarlyOK' /\ LateOK' /\ MakingOK' /\ RecoveryOK'
      BY <2>1, <2>2, <2>3 DEF FInv, Early, EarlyOK, LateOK, MakingOK, Making, RecoveryOK, HasFiles
    <2>7. CleanOK'
      BY <1>0, <2>1, <2>2, <2>3 DEF FInv, CleanOK, Early, HasFiles
    <2> QED
      BY <2>4, <2>5, <2>6, <2>7 DEF FInv
  <1> QED
    BY <1>1, <1>2, <1>3, <1>4

\* The files and the container of a new sandbox: a source that is not doomed has
\* all its files while the copy is made.
LEMMA MakingFileSteps ==
    ASSUME IInv, FInv
    PROVE  /\ BeginCopy => FInv'
           /\ Copied => FInv'
           /\ RunBox => FInv'
           /\ BoxFailed => FInv'
  <1>0. /\ dir \in [Items -> {"none", "bare", "part", "full"}] /\ op \in Operations
        /\ \A i \in Boxes : i \in Items /\ i \notin Sources
    BY Kinds DEF IInv, Types
  <1>a. ASSUME op.at \in Making, job[Request] = Idle
        PROVE  /\ op.item \in Boxes /\ op.src \in Sources /\ Records(op.src) # {}
               /\ Will(op.item) # NoRecord /\ Will(op.item).src = op.src
               /\ Will(op.item).st = "creating" /\ Records(op.item) = {Will(op.item)}
    <2>1. op.item \in Boxes /\ op.src \in Sources /\ Known(op.src)
      BY <1>a DEF IInv, Shape, SourceIsReady
    <2>2. Will(op.item) = Record(op.src, "creating")
      BY <1>a DEF FInv, MakingOK
    <2>3. Record(op.src, "creating") \in Values
      BY <2>1, RecordsAreValues DEF States, Transient
    <2> QED
      BY <1>a, <2>1, <2>2, <2>3, IdleView, ValuesAreRecords DEF Record, Known
  <1>1. ASSUME BeginCopy
        PROVE  FInv'
    <2>1. /\ op'.at = "copying" /\ op'.item = op.item /\ op'.src = op.src /\ op'.from = op.from
          /\ op.at = "copy" /\ job[Request] = Idle
          /\ dir' = [dir EXCEPT ![op.item] = "part"]
          /\ UNCHANGED <<backend, mode, containers, doomed, torn, clean>>
      BY <1>0, <1>1, ThenFields DEF BeginCopy, At, SetDir, history
    <2>2. file' = file /\ job' = job /\ \A i : Will(i)' = Will(i) /\ Records(i)' = Records(i)
      BY <1>1, SameView DEF BeginCopy
    <2>3. /\ op.item \in Boxes /\ Will(op.item) # NoRecord
          /\ Will(op.item).st = "creating" /\ Records(op.item) = {Will(op.item)}
          /\ op.item \notin containers
      BY <1>a, <2>1 DEF Making, FInv, MakingOK
    <2>4. SourcesFull'
      BY <1>0, <2>1, <2>2, <2>3, Kinds DEF FInv, SourcesFull
    <2>5. BoxesWhole'
      BY <1>0, <2>1, <2>2, <2>3, Kinds DEF FInv, BoxesWhole, Whole
    <2>6. EarlyOK' /\ LateOK' /\ MakingOK' /\ RecoveryOK'
      BY <2>1, <2>2 DEF FInv, Early, EarlyOK, LateOK, MakingOK, Making, RecoveryOK, HasFiles
    <2>7. CleanOK'
      BY <1>0, <2>1, <2>2, <2>3 DEF FInv, CleanOK, Early, HasFiles
    <2> QED
      BY <2>4, <2>5, <2>6, <2>7 DEF FInv
  <1>2. ASSUME Copied
        PROVE  FInv'
    <2>1. /\ op'.at = "run" /\ op'.item = op.item /\ op'.src = op.src /\ op'.from = op.from
          /\ op.at = "copying" /\ job[Request] = Idle
          /\ dir' = [dir EXCEPT ![op.item] = IF dir[op.src] = "full" THEN "full" ELSE "part"]
          /\ UNCHANGED <<backend, mode, containers, doomed, torn, clean>>
      BY <1>0, <1>2, ThenFields DEF Copied, At, SetDir, history
    <2>2. file' = file /\ job' = job /\ \A i : Will(i)' = Will(i) /\ Records(i)' = Records(i)
      BY <1>2, SameView DEF Copied
    <2>3. /\ op.item \in Boxes /\ op.src \in Sources /\ Will(op.item) # NoRecord
          /\ Will(op.item).st = "creating" /\ Records(op.item) = {Will(op.item)}
          /\ op.item \notin containers
          /\ dir[op.src] = "full" \/ op.src \in doomed
      BY <1>a, <2>1 DEF Making, FInv, MakingOK, SourcesFull
    <2>4. SourcesFull'
      BY <1>0, <2>1, <2>2, <2>3, Kinds DEF FInv, SourcesFull
    <2>5. BoxesWhole'
      BY <1>0, <2>1, <2>2, <2>3, Kinds DEF FInv, BoxesWhole, Whole
    <2>6. Whole(op.item, op.src)'
      BY <1>0, <2>1, <2>3 DEF Whole
    <2>7. EarlyOK' /\ LateOK' /\ MakingOK' /\ RecoveryOK'
      BY <2>1, <2>2, <2>6 DEF FInv, Early, EarlyOK, LateOK, MakingOK, Making, RecoveryOK, HasFiles
    <2>8. CleanOK'
      BY <1>0, <2>1, <2>2, <2>3 DEF FInv, CleanOK, Early, HasFiles
    <2> QED
      BY <2>4, <2>5, <2>7, <2>8 DEF FInv
  <1>3. ASSUME RunBox
        PROVE  FInv'
    <2>1. /\ op'.at = "publish" /\ op'.item = op.item /\ op'.src = op.src /\ op'.from = op.from
          /\ op.at = "run" /\ job[Request] = Idle
          /\ containers' \in {containers, containers \cup {op.item}}
          /\ UNCHANGED <<backend, mode, dir, doomed, torn, clean>>
      BY <1>0, <1>3, ThenFields DEF RunBox, At, history
    <2>2. file' = file /\ job' = job /\ \A i : Will(i)' = Will(i) /\ Records(i)' = Records(i)
      BY <1>3, SameView DEF RunBox
    <2>3. /\ op.item \in Boxes /\ op.src \in Sources /\ Will(op.item) # NoRecord
          /\ Will(op.item).src = op.src /\ Records(op.item) = {Will(op.item)}
          /\ Whole(op.item, op.src)
      BY <1>a, <2>1 DEF Making, FInv, MakingOK
    <2>4. SourcesFull'
      BY <2>1, <2>2 DEF FInv, SourcesFull
    <2>5. BoxesWhole'
      BY <2>1, <2>2, <2>3 DEF FInv, BoxesWhole, Whole
    <2>6. EarlyOK' /\ LateOK' /\ MakingOK' /\ RecoveryOK'
      BY <2>1, <2>2 DEF FInv, Early, EarlyOK, LateOK, MakingOK, Making, RecoveryOK, Whole, HasFiles
    <2>7. CleanOK'
      BY <2>1, <2>2, <2>3 DEF FInv, CleanOK, Early, HasFiles
    <2> QED
      BY <2>4, <2>5, <2>6, <2>7 DEF FInv
  <1>4. ASSUME BoxFailed
        PROVE  FInv'
    <2>1. /\ op'.at \in {"none", "settle"} /\ op'.from = op.from
          /\ op.at = "failed" /\ job[Request] = Idle
          /\ UNCHANGED <<backend, mode, dir, containers, doomed, torn, clean>>
      BY <1>0, <1>4, ThenFields, NoOpFields DEF BoxFailed, At, disk, history
    <2>2. file' = file /\ job' = job /\ \A i : Will(i)' = Will(i) /\ Records(i)' = Records(i)
      BY <1>4, SameView DEF BoxFailed
    <2> QED
      BY <2>1, <2>2 DEF FInv, SourcesFull, BoxesWhole, Whole, EarlyOK, Early, LateOK, MakingOK,
                        Making, RecoveryOK, CleanOK, HasFiles
  <1> QED
    BY <1>1, <1>2, <1>3, <1>4

\* The files of a snapshot, and the end of recovery.
LEMMA CaptureFileSteps ==
    ASSUME IInv, FInv
    PROVE  /\ BeginCapture => FInv'
           /\ CaptureFails => FInv'
           /\ Recovered => FInv'
  <1>0. /\ dir \in [Items -> {"none", "bare", "part", "full"}] /\ op \in Operations
        /\ \A i \in Snapshots : i \in Items /\ i \notin Boxes
    BY Kinds DEF IInv, Types
  <1>1. ASSUME BeginCapture
        PROVE  FInv'
    <2>1. /\ op'.at = "capturing" /\ op'.item = op.item /\ op'.src = op.src /\ op'.from = op.from
          /\ op.at = "capture" /\ job[Request] = Idle /\ op.item \in Snapshots
          /\ dir' = [dir EXCEPT ![op.item] = "part"]
          /\ UNCHANGED <<backend, mode, containers, doomed, torn, clean>>
      BY <1>0, <1>1, ThenFields DEF BeginCapture, At, SetDir, history, IInv, Shape
    <2>2. file' = file /\ job' = job /\ \A i : Will(i)' = Will(i) /\ Records(i)' = Records(i)
      BY <1>1, SameView DEF BeginCapture
    <2>3. Records(op.item) = {}
      BY <2>1 DEF FInv, EarlyOK, Early
    <2>4. SourcesFull'
      BY <1>0, <2>1, <2>2, <2>3, Kinds DEF FInv, SourcesFull
    <2>5. BoxesWhole'
      BY <1>0, <2>1, <2>2, Kinds DEF FInv, BoxesWhole, Whole
    <2>6. EarlyOK' /\ LateOK' /\ MakingOK' /\ RecoveryOK'
      BY <2>1, <2>2 DEF FInv, Early, EarlyOK, LateOK, MakingOK, Making, RecoveryOK, HasFiles
    <2>7. CleanOK'
      BY <1>0, <2>1, <2>2 DEF FInv, CleanOK, Early, HasFiles
    <2> QED
      BY <2>4, <2>5, <2>6, <2>7 DEF FInv
  <1>2. ASSUME CaptureFails
        PROVE  FInv'
    <2>1. /\ op'.at = "settle" /\ op'.from = op.from /\ clean' = FALSE
          /\ op.at = "capturing" /\ job[Request] = Idle
          /\ UNCHANGED <<backend, mode, dir, containers, doomed, torn>>
      BY <1>0, <1>2, ThenFields DEF CaptureFails, At, disk
    <2>2. file' = file /\ job' = job /\ \A i : Will(i)' = Will(i) /\ Records(i)' = Records(i)
      BY <1>2, SameView DEF CaptureFails
    <2> QED
      BY <2>1, <2>2 DEF FInv, SourcesFull, BoxesWhole, Whole, EarlyOK, Early, LateOK, MakingOK,
                        Making, RecoveryOK, CleanOK, HasFiles
  <1>3. ASSUME Recovered
        PROVE  FInv'
    <2>1. /\ mode' = "up" /\ mode = "recovering"
          /\ UNCHANGED <<storeVars, op, backend, dir, containers, doomed, torn, clean>>
      BY <1>3 DEF Recovered, Recovering, disk, history
    <2>2. file' = file /\ job' = job /\ \A i : Will(i)' = Will(i) /\ Records(i)' = Records(i)
      BY <2>1, SameView
    <2> QED
      BY <2>1, <2>2 DEF FInv, SourcesFull, BoxesWhole, Whole, EarlyOK, Early, LateOK, MakingOK,
                        Making, RecoveryOK, CleanOK, HasFiles
  <1> QED
    BY <1>1, <1>2, <1>3

-----------------------------------------------------------------------------
(* The steps that begin a write. *)

\* A template or a snapshot is written when its files are there, and removed when
\* it is doomed.
LEMMA ItemFileSaves ==
    ASSUME IInv, FInv
    PROVE  /\ Prepared => FInv'
           /\ Removed => FInv'
           /\ Captured => FInv'
  <1>0. /\ dir \in [Items -> {"none", "bare", "part", "full"}] /\ op \in Operations
        /\ containers \subseteq Boxes
        /\ \A i \in Sources : i \in Items /\ i \notin Boxes
    BY Kinds DEF IInv, Types
  <1>a. Kept \in Values /\ Kept # NoRecord
    BY RecordsAreValues, ValuesAreRecords
  <1>1. ASSUME Prepared
        PROVE  FInv'
    <2>1. /\ op'.at = "end" /\ op'.from = op.from /\ op.at = "prepare"
          /\ op.item \in Sources /\ ReadFile(Request, op.item, Kept)
          /\ UNCHANGED <<backend, mode, dir, containers, doomed, torn, clean>>
      BY <1>0, <1>1, ThenFields, Kinds DEF Prepared, At, Save, disk, history, IInv, Shape
    <2>2. /\ file' = file /\ job[Request] = Idle
          /\ \A i : Will(i) = file[i] /\ Records(i) = {file[i]} \ {NoRecord}
          /\ \A i : Will(i)' = IF i = op.item THEN Kept ELSE file[i]
          /\ \A i : i # op.item => Records(i)' = Records(i)
      BY <1>0, <1>a, <2>1, SaveView
    <2>3. dir[op.item] = "full"
      BY <2>1 DEF FInv, EarlyOK
    <2>4. SourcesFull' /\ BoxesWhole'
      BY <1>0, <2>1, <2>2, <2>3 DEF FInv, SourcesFull, BoxesWhole, Whole
    <2>5. op.from # op.item \/ op.from = NoItem
      BY DEF IInv, Shape
    <2>6. EarlyOK' /\ LateOK' /\ MakingOK' /\ RecoveryOK' /\ CleanOK'
      BY <1>a, <2>1, <2>2, <2>5
      DEF FInv, EarlyOK, Early, LateOK, MakingOK, Making, RecoveryOK, CleanOK, HasFiles
    <2> QED
      BY <2>4, <2>6 DEF FInv
  <1>2. ASSUME Removed
        PROVE  FInv'
    <2>1. /\ op'.at = "end" /\ op'.from = op.from /\ op.at = "remove"
          /\ op.item \in Sources /\ ReadFile(Request, op.item, NoRecord)
          /\ dir' = [dir EXCEPT ![op.item] = "none"]
          /\ UNCHANGED <<backend, mode, containers, doomed, torn, clean>>
      BY <1>0, <1>2, ThenFields DEF Removed, At, Save, SetDir, history, IInv, Shape, Items, Sources
    <2>2. /\ file' = file /\ job[Request] = Idle
          /\ \A i : Will(i) = file[i] /\ Records(i) = {file[i]} \ {NoRecord}
          /\ \A i : Will(i)' = IF i = op.item THEN NoRecord ELSE file[i]
          /\ \A i : Records(i)' \subseteq Records(i)
      BY <1>0, <2>1, SaveView
    <2>3. op.item \in doomed
      BY <2>1 DEF FInv, LateOK
    <2>4. SourcesFull'
      BY <1>0, <2>1, <2>2, <2>3 DEF FInv, SourcesFull
    <2>5. BoxesWhole'
      BY <1>0, <2>1, <2>2, <2>3 DEF FInv, BoxesWhole, Whole, Items
    <2>6. op.from # op.item \/ op.from = NoItem
      BY DEF IInv, Shape
    <2>7. EarlyOK' /\ LateOK' /\ MakingOK' /\ RecoveryOK'
      BY <2>1, <2>2, <2>6 DEF FInv, EarlyOK, Early, LateOK, MakingOK, Making, RecoveryOK, HasFiles
    <2>8. CleanOK'
      BY <1>0, <2>1, <2>2 DEF FInv, CleanOK, Early, HasFiles
    <2> QED
      BY <2>4, <2>5, <2>7, <2>8 DEF FInv
  <1>3. ASSUME Captured
        PROVE  FInv'
    <2>1. /\ op'.at \in {"child", "settle"} /\ op'.from = op.from /\ op.at = "capturing"
          /\ op.item \in Sources /\ ReadFile(Request, op.item, Kept)
          /\ dir' = [dir EXCEPT ![op.item] = "full"]
          /\ UNCHANGED <<backend, mode, containers, doomed, torn, clean>>
      BY <1>0, <1>3, ThenFields, Kinds DEF Captured, At, Save, SetDir, history, IInv, Shape
    <2>2. /\ file' = file /\ job[Request] = Idle
          /\ \A i : Will(i) = file[i] /\ Records(i) = {file[i]} \ {NoRecord}
          /\ \A i : Will(i)' = IF i = op.item THEN Kept ELSE file[i]
          /\ \A i : i # op.item => Records(i)' = Records(i)
      BY <1>0, <1>a, <2>1, SaveView
    <2>3. SourcesFull' /\ BoxesWhole'
      BY <1>0, <2>1, <2>2, Kinds DEF FInv, SourcesFull, BoxesWhole, Whole
    <2>4. op.from # op.item \/ op.from = NoItem
      BY DEF IInv, Shape
    <2>5. EarlyOK' /\ LateOK' /\ MakingOK' /\ RecoveryOK'
      BY <2>1, <2>2, <2>4
      DEF FInv, EarlyOK, Early, LateOK, MakingOK, Making, RecoveryOK, HasFiles
    <2>6. CleanOK'
      BY <1>0, <1>a, <2>1, <2>2 DEF FInv, CleanOK, Early, HasFiles
    <2> QED
      BY <2>3, <2>5, <2>6 DEF FInv
  <1> QED
    BY <1>1, <1>2, <1>3

\* The record that starts a sandbox.
LEMMA NewBoxFiles ==
    ASSUME IInv, FInv, NEW b \in Boxes, NEW src \in Sources, NEW from \in Boxes \cup {NoItem},
           SaveNewBox(b, src, from), op.at \in {"none", "child"}, mode = "up",
           from # NoItem => Will(from) # NoRecord /\ Will(from).st # "creating",
           UNCHANGED <<backend, mode, dir, containers, clean>>
    PROVE  FInv'
  <1> DEFINE v == Record(src, "creating")
  <1>1. /\ ReadFile(Request, b, v) /\ file[b] = NoRecord /\ ~HasFiles(b) /\ b \notin containers
        /\ op'.at = "copy" /\ op'.item = b /\ op'.src = src /\ op'.from = from
        /\ doomed' = doomed \ {b} /\ torn' = torn \ {b}
    BY DEF SaveNewBox, Save, Fresh, Known, NoOp
  <1>2. v \in Values /\ v # NoRecord /\ v.st = "creating" /\ b \in Items /\ b \notin Sources
    BY BoxRecord, Kinds
  <1>3. /\ file' = file /\ job[Request] = Idle
        /\ \A i : Will(i) = file[i] /\ Records(i) = {file[i]} \ {NoRecord}
        /\ \A i : Will(i)' = IF i = b THEN v ELSE file[i]
        /\ \A i : i # b => Records(i)' = Records(i)
        /\ Records(b)' = {v}
    BY <1>1, <1>2, SaveView
  <1>4. \A c \in Boxes : \A r \in Records(c) : r.src # b
    BY <1>2, RecordValues
  <1> HIDE DEF v
  <1>5. SourcesFull'
    BY <1>1, <1>2, <1>3 DEF FInv, SourcesFull
  <1>6. BoxesWhole'
    BY <1>1, <1>2, <1>3, <1>4 DEF FInv, BoxesWhole, Whole
  <1>7. EarlyOK' /\ LateOK' /\ RecoveryOK'
    BY <1>1 DEF EarlyOK, Early, LateOK, RecoveryOK
  <1>8. MakingOK'
    BY <1>1, <1>2, <1>3 DEF MakingOK, HasFiles, v
  <1>9. CleanOK'
    BY <1>1, <1>2, <1>3 DEF FInv, CleanOK, Early, HasFiles
  <1> QED
    BY <1>5, <1>6, <1>7, <1>8, <1>9 DEF FInv

\* create_sandbox and a fork's child.
LEMMA NewBoxFileSaves ==
    ASSUME IInv, FInv, NEW b \in Boxes
    PROVE  /\ \A i \in Sources : BeginBox(b, i) => FInv'
           /\ \A t \in Templates : ColdBox(b, t) => FInv'
           /\ ForkChild(b) => FInv'
  <1>1. ASSUME NEW i \in Sources, BeginBox(b, i)
        PROVE  FInv'
    BY <1>1, NewBoxFiles, NoOpFields DEF BeginBox, Free, disk
  <1>2. ASSUME NEW t \in Templates, ColdBox(b, t)
        PROVE  FInv'
    BY <1>2, NewBoxFiles, NoOpFields, Kinds DEF ColdBox, Free, disk
  <1>3. ASSUME ForkChild(b)
        PROVE  FInv'
    <2>1. /\ op.at = "child" /\ op.item \in Sources /\ op.from \in Boxes
          /\ SaveNewBox(b, op.item, op.from)
          /\ UNCHANGED <<backend, mode, dir, containers, clean>>
      BY <1>3, Kinds DEF ForkChild, At, IInv, Shape, disk
    <2>2. mode = "up" /\ Will(op.from) # NoRecord /\ Will(op.from).st # "creating"
      BY <2>1, Kinds DEF IInv, Types, FInv, RecoveryOK, MakingOK
    <2> QED
      BY <2>1, <2>2, NewBoxFiles
  <1> QED
    BY <1>1, <1>2, <1>3

\* create_sandbox's writes after the first.
LEMMA MakingFileSaves ==
    ASSUME IInv, FInv
    PROVE  /\ NothingToCopy => FInv'
           /\ CopyFails => FInv'
           /\ RunFails => FInv'
           /\ PublishBox => FInv'
  <1>0. /\ dir \in [Items -> {"none", "bare", "part", "full"}] /\ op \in Operations
        /\ \A i \in Boxes : i \in Items /\ i \notin Sources
    BY Kinds DEF IInv, Types
  <1>a. op.from # op.item \/ op.from = NoItem
    BY DEF IInv, Shape
  <1>1. ASSUME NothingToCopy \/ CopyFails \/ RunFails
        PROVE  FInv'
    <2>1. /\ op'.at = "failed" /\ op'.from = op.from /\ op.at \in {"copy", "copying", "run"}
          /\ op.item \in Boxes /\ ReadFile(Request, op.item, NoRecord)
          /\ UNCHANGED <<backend, mode, doomed, torn>>
      BY <1>0, <1>1, ThenFields
      DEF NothingToCopy, CopyFails, RunFails, FailBox, At, Save, disk, history, IInv, Shape, Making
    <2>2. /\ containers' \in {containers, containers \cup {op.item}}
          /\ \A i \in Items \ {op.item} : dir'[i] = dir[i]
          /\ clean' => /\ clean
                       /\ dir'[op.item] \notin {"part", "full"} /\ op.item \notin containers'
      <3>1. CASE NothingToCopy
        BY <1>0, <2>1, <3>1 DEF NothingToCopy, At, disk, history, FInv, MakingOK, HasFiles
      <3>2. CASE CopyFails
        BY <1>0, <2>1, <3>2 DEF CopyFails, disk
      <3>3. CASE RunFails
        <4>1. PICK left \in {"none", "part"} :
                  /\ dir' = [dir EXCEPT ![op.item] = left]
                  /\ containers' \in {containers, containers \cup {op.item}}
                  /\ clean' = (clean /\ left = "none" /\ op.item \notin containers')
          BY <3>3 DEF RunFails, SetDir
        <4>2. dir'[op.item] = left /\ \A i \in Items \ {op.item} : dir'[i] = dir[i]
          BY <1>0, <2>1, <4>1
        <4>3. clean' => clean /\ left = "none" /\ op.item \notin containers'
          BY <4>1
        <4> QED
          BY <4>1, <4>2, <4>3
      <3> QED
        BY <1>1, <3>1, <3>2, <3>3
    <2>3. /\ file' = file /\ job[Request] = Idle
          /\ \A i : Will(i) = file[i] /\ Records(i) = {file[i]} \ {NoRecord}
          /\ \A i : Will(i)' = IF i = op.item THEN NoRecord ELSE file[i]
          /\ \A i : Records(i)' \subseteq Records(i)
      BY <1>0, <2>1, SaveView
    <2>4. /\ op.item \notin containers
          /\ Records(op.item) = {Will(op.item)} /\ Will(op.item).st = "creating"
      <3>1. Will(op.item) = Record(op.src, "creating") /\ op.src \in Sources
        BY <2>1 DEF FInv, MakingOK, Making, IInv, SourceIsReady
      <3>2. Will(op.item) # NoRecord /\ Will(op.item).st = "creating"
        BY <3>1, BoxRecord
      <3> QED
        BY <2>1, <2>3, <3>2 DEF FInv, MakingOK
    <2>5. SourcesFull'
      BY <1>0, <2>1, <2>2, <2>3, Kinds DEF FInv, SourcesFull
    <2>6. BoxesWhole'
      BY <1>0, <2>1, <2>2, <2>3, <2>4, Kinds DEF FInv, BoxesWhole, Whole
    <2>7. EarlyOK' /\ LateOK' /\ MakingOK'
      BY <1>a, <2>1, <2>3 DEF FInv, EarlyOK, Early, LateOK, MakingOK, Making, HasFiles
    <2>8. RecoveryOK'
      BY <2>1 DEF FInv, RecoveryOK
    <2>a. \A i \in Items : i # op.item /\ (HasFiles(i)' \/ i \in containers')
                            => HasFiles(i) \/ i \in containers
      BY <2>2 DEF HasFiles
    <2>b. ASSUME clean', NEW i \in Items, HasFiles(i)' \/ i \in containers'
          PROVE  Will(i)' # NoRecord
      <3>1. i # op.item
        BY <2>2, <2>b DEF HasFiles
      <3>2. Will(i) # NoRecord
        BY <2>1, <2>2, <2>a, <2>b, <3>1 DEF FInv, CleanOK, Early
      <3> QED
        BY <2>3, <3>1, <3>2
    <2>9. CleanOK'
      BY <2>1, <2>b DEF CleanOK
    <2> QED
      BY <2>5, <2>6, <2>7, <2>8, <2>9 DEF FInv
  <1>2. ASSUME PublishBox
        PROVE  FInv'
    <2> DEFINE v == Record(op.src, "running")
    <2>1. /\ op'.at \in {"end", "settle"} /\ op'.from = op.from /\ op.at = "publish"
          /\ op.item \in Boxes /\ op.src \in Sources /\ ReadFile(Request, op.item, v)
          /\ UNCHANGED <<backend, mode, dir, containers, doomed, torn, clean>>
      BY <1>0, <1>2, ThenFields
      DEF PublishBox, At, Save, disk, history, IInv, Shape, Making, SourceIsReady
    <2>2. v \in Values /\ v # NoRecord /\ v.st = "running" /\ v.src = op.src
      BY <2>1, BoxRecord
    <2>3. /\ file' = file /\ job[Request] = Idle
          /\ \A i : Will(i) = file[i] /\ Records(i) = {file[i]} \ {NoRecord}
          /\ \A i : Will(i)' = IF i = op.item THEN v ELSE file[i]
          /\ \A i : i # op.item => Records(i)' = Records(i)
          /\ \A i : i = op.item => Records(i)' \subseteq Records(i) \cup {v}
      BY <1>0, <2>1, <2>2, SaveView
    <2> HIDE DEF v
    <2>4. Whole(op.item, op.src)
      BY <2>1 DEF FInv, MakingOK
    <2>5. SourcesFull'
      BY <1>0, <2>1, <2>3 DEF FInv, SourcesFull
    <2>6. BoxesWhole'
      BY <2>1, <2>2, <2>3, <2>4 DEF FInv, BoxesWhole, Whole
    <2>7. EarlyOK' /\ LateOK' /\ MakingOK'
      BY <1>a, <2>1, <2>3 DEF FInv, EarlyOK, Early, LateOK, MakingOK, Making, HasFiles
    <2>8. RecoveryOK' /\ CleanOK'
      BY <2>1, <2>2, <2>3 DEF FInv, RecoveryOK, CleanOK, Early, HasFiles
    <2> QED
      BY <2>5, <2>6, <2>7, <2>8 DEF FInv
  <1> QED
    BY <1>1, <1>2

\* The transitions of a sandbox that is there, by an operation or by recovery.
LEMMA BoxFileSaves ==
    ASSUME IInv, FInv, NEW b \in Boxes
    PROVE  /\ \A s \in Snapshots, st \in {"snapshotting", "forking"} :
                  BeginSnapshot(b, s, st) => FInv'
           /\ BeginDelete(b) => FInv'
           /\ RecoverDrop(b) => FInv'
           /\ RecoverKeep(b) => FInv'
  <1>0. /\ dir \in [Items -> {"none", "bare", "part", "full"}] /\ op \in Operations
        /\ b \in Items /\ b \notin Sources
        /\ \A i \in Snapshots : i \in Sources /\ i \in Items /\ i \notin Boxes
    BY Kinds DEF IInv, Types
  <1>a. ASSUME NEW st \in {"snapshotting", "forking", "killing", "running"}, Known(b)
        PROVE  /\ [file[b] EXCEPT !.st = st] \in Values
               /\ [file[b] EXCEPT !.st = st] # NoRecord
               /\ [file[b] EXCEPT !.st = st].st = st
               /\ [file[b] EXCEPT !.st = st].src = file[b].src
    <2>1. st \in States /\ file[b] \in Values
      BY <1>0, <1>a, Kinds DEF States, Transient, IInv, StoreInv, StoreTypeOK, Files, Known
    <2>2. [file[b] EXCEPT !.st = st] \in Values /\ [file[b] EXCEPT !.st = st] # NoRecord
      BY <1>a, <2>1, Relabelled
    <2> QED
      BY <2>1, <2>2, RecordsAreValues, StorageAssumption
  <1>1. ASSUME NEW s \in Snapshots, NEW st \in {"snapshotting", "forking"},
               BeginSnapshot(b, s, st)
        PROVE  FInv'
    <2> DEFINE v == [file[b] EXCEPT !.st = st]
    <2>1. /\ op.at = "none" /\ mode = "up" /\ file[b] # NoRecord /\ file[b].st = "running"
          /\ op'.at = "capture" /\ op'.item = s /\ op'.from = b
          /\ ReadFile(Request, b, v) /\ doomed' = doomed \ {s}
          /\ file[s] = NoRecord /\ ~HasFiles(s) /\ s \notin containers
          /\ UNCHANGED <<backend, mode, dir, containers, torn, clean>>
      BY <1>1, NoOpFields DEF BeginSnapshot, Free, Fresh, Save, NoOp, Known, disk
    <2>2. v \in Values /\ v # NoRecord /\ v.st = st /\ v.src = file[b].src
      BY <1>a, <2>1 DEF Known
    <2>3. /\ file' = file /\ job[Request] = Idle
          /\ \A i : Will(i) = file[i] /\ Records(i) = {file[i]} \ {NoRecord}
          /\ \A i : Will(i)' = IF i = b THEN v ELSE file[i]
          /\ \A i : i # b => Records(i)' = Records(i)
          /\ Records(b)' = (Records(b) \cup {v}) \ {NoRecord}
      BY <1>0, <2>1, <2>2, SaveView
    <2>4. \A c \in Boxes : \A r \in Records(c) : r.src # s
      BY <2>1, RecordValues DEF Known
    <2> HIDE DEF v
    <2>5. Whole(b, v.src) /\ v.src # s
      BY <2>1, <2>2, <2>3, <2>4 DEF FInv, BoxesWhole
    <2>6. SourcesFull'
      BY <1>0, <2>1, <2>3 DEF FInv, SourcesFull
    <2>7. BoxesWhole'
      <3>1. \A c \in Boxes, src \in Sources : Whole(c, src) /\ src # s => Whole(c, src)'
        BY <1>0, <2>1 DEF Whole
      <3>2. \A c \in Boxes : \A r \in Records(c) : r.src \in Sources
        BY RecordValues
      <3>3. \A c \in Boxes : c # s
        BY <1>0
      <3> QED
        BY <2>1, <2>2, <2>3, <2>4, <2>5, <3>1, <3>2, <3>3 DEF FInv, BoxesWhole
    <2>8. EarlyOK' /\ LateOK' /\ MakingOK' /\ RecoveryOK'
      BY <1>0, <2>1, <2>2, <2>3 DEF EarlyOK, Early, LateOK, MakingOK, Making, RecoveryOK, HasFiles
    <2>9. CleanOK'
      BY <1>0, <2>1, <2>2, <2>3 DEF FInv, CleanOK, Early, HasFiles
    <2> QED
      BY <2>6, <2>7, <2>8, <2>9 DEF FInv
  <1>2. ASSUME BeginDelete(b)
        PROVE  FInv'
    <2> DEFINE v == [file[b] EXCEPT !.st = "killing"]
    <2>1. /\ op.at = "none" /\ mode = "up" /\ file[b] # NoRecord
          /\ op'.at = "remove" /\ op'.item = b /\ op'.from = NoItem
          /\ ReadFile(Request, b, v) /\ doomed' = doomed \cup {b}
          /\ UNCHANGED <<backend, mode, dir, containers, torn, clean>>
      BY <1>2, NoOpFields DEF BeginDelete, Free, Save, NoOp, Known, disk
    <2>2. v \in Values /\ v # NoRecord
      BY <1>a, <2>1 DEF Known
    <2>3. /\ file' = file /\ job[Request] = Idle
          /\ \A i : Will(i) = file[i] /\ Records(i) = {file[i]} \ {NoRecord}
          /\ \A i : Will(i)' = IF i = b THEN v ELSE file[i]
          /\ \A i : i # b => Records(i)' = Records(i)
      BY <1>0, <2>1, <2>2, SaveView
    <2> HIDE DEF v
    <2>4. SourcesFull'
      BY <1>0, <2>1, <2>3 DEF FInv, SourcesFull
    <2>5. BoxesWhole'
      BY <2>1, <2>3 DEF FInv, BoxesWhole, Whole
    <2>6. EarlyOK' /\ LateOK' /\ MakingOK' /\ RecoveryOK'
      BY <1>0, <2>1, <2>2, <2>3 DEF EarlyOK, Early, LateOK, MakingOK, Making, RecoveryOK, HasFiles
    <2>7. CleanOK'
      BY <2>1, <2>2, <2>3 DEF FInv, CleanOK, Early, HasFiles
    <2> QED
      BY <2>4, <2>5, <2>6, <2>7 DEF FInv
  <1>3. ASSUME RecoverDrop(b)
        PROVE  FInv'
    <2>1. /\ op'.at = "none" /\ op'.from = NoItem /\ mode = "recovering"
          /\ file[b] # NoRecord /\ ReadFile(Request, b, NoRecord)
          /\ \/ dir' = dir
             \/ /\ \E left \in {"none", "bare"} : dir' = [dir EXCEPT ![b] = left]
                /\ file[b].st = "killing"
          /\ containers' \in {containers, containers \ {b}}
          /\ UNCHANGED <<backend, mode, doomed, torn, clean>>
      BY <1>3, NoOpFields
      DEF RecoverDrop, Recovering, Interrupted, Known, Save, history, disk, SetDir, Wiped,
          RemoveContainer
    <2>2. /\ file' = file
          /\ \A i : Will(i) = file[i] /\ Records(i) = {file[i]} \ {NoRecord}
          /\ \A i : Records(i)' \subseteq Records(i)
      BY <1>0, <2>1, SaveView
    <2>3. SourcesFull'
      BY <1>0, <2>1, <2>2, Kinds DEF FInv, SourcesFull
    <2>4. BoxesWhole'
      BY <1>0, <2>1, <2>2, Kinds DEF FInv, BoxesWhole, Whole
    <2>5. EarlyOK' /\ LateOK' /\ MakingOK'
      BY <2>1 DEF EarlyOK, Early, LateOK, MakingOK, Making, HasFiles
    <2>6. RecoveryOK' /\ CleanOK'
      BY <2>1, <2>2 DEF FInv, RecoveryOK, CleanOK, HasFiles
    <2> QED
      BY <2>3, <2>4, <2>5, <2>6 DEF FInv
  <1>4. ASSUME RecoverKeep(b)
        PROVE  FInv'
    <2> DEFINE v == [file[b] EXCEPT !.st = "running"]
    <2>1. /\ op'.at = "none" /\ op'.from = NoItem /\ mode = "recovering"
          /\ file[b] # NoRecord /\ ReadFile(Request, b, v) /\ Alive(b)
          /\ UNCHANGED <<backend, mode, dir, containers, doomed, torn, clean>>
      BY <1>4, NoOpFields
      DEF RecoverKeep, Recovering, Interrupted, Known, Save, disk, history
    <2>2. v \in Values /\ v # NoRecord /\ v.st = "running" /\ v.src = file[b].src
      BY <1>a, <2>1 DEF Known
    <2>3. /\ file' = file
          /\ \A i : Will(i) = file[i] /\ Records(i) = {file[i]} \ {NoRecord}
          /\ \A i : i # b => Records(i)' = Records(i)
          /\ Records(b)' = (Records(b) \cup {v}) \ {NoRecord}
      BY <1>0, <2>1, <2>2, SaveView
    <2>4. Whole(b, v.src)
      <3>1. backend = "docker" \/ backend = "local"
        BY StorageAssumption DEF IInv, Types
      <3>2. file[b] \in Records(b)
        BY <2>1, <2>3
      <3> QED
        BY <2>1, <2>2, <3>1, <3>2 DEF FInv, BoxesWhole, RecoveryOK, Alive, Whole, HasFiles
    <2> HIDE DEF v
    <2>5. SourcesFull'
      BY <1>0, <2>1, <2>3, Kinds DEF FInv, SourcesFull
    <2>6. BoxesWhole'
      BY <2>1, <2>2, <2>3, <2>4 DEF FInv, BoxesWhole, Whole
    <2>7. EarlyOK' /\ LateOK' /\ MakingOK'
      BY <2>1 DEF EarlyOK, Early, LateOK, MakingOK, Making, HasFiles
    <2>8. RecoveryOK' /\ CleanOK'
      BY <2>1, <2>2, <2>3 DEF FInv, RecoveryOK, CleanOK, HasFiles
    <2> QED
      BY <2>5, <2>6, <2>7, <2>8 DEF FInv
  <1> QED
    BY <1>1, <1>2, <1>3, <1>4

\* The end of a snapshot or fork, and of a deletion.
LEMMA LastFileSaves ==
    ASSUME IInv, FInv
    PROVE  /\ Settle => FInv'
           /\ DropBox => FInv'
  <1>0. /\ dir \in [Items -> {"none", "bare", "part", "full"}] /\ op \in Operations
        /\ \A i \in Boxes : i \in Items /\ i \notin Sources
    BY Kinds DEF IInv, Types
  <1>1. ASSUME Settle
        PROVE  FInv'
    <2> DEFINE v == [file[op.from] EXCEPT !.st = "running"]
    <2>1. /\ op'.at = "end" /\ op'.from = op.from /\ op.at = "settle" /\ job[Request] = Idle
          /\ op.from \in Boxes /\ op.from # NoItem /\ ReadFile(Request, op.from, v)
          /\ UNCHANGED <<backend, mode, dir, containers, doomed, torn, clean>>
      BY <1>0, <1>1, ThenFields, Kinds DEF Settle, At, Save, disk, history, IInv, Shape
    <2>2. Known(op.from) /\ file[op.from].st # "creating"
      BY <2>1, IdleView DEF FInv, MakingOK, Known
    <2>3. v \in Values /\ v # NoRecord /\ v.st = "running" /\ v.src = file[op.from].src
      <3>1. file[op.from] \in Values /\ "running" \in States
        BY <1>0, <2>1, <2>2, Kinds DEF States, IInv, StoreInv, StoreTypeOK, Files, Known
      <3>2. v \in Values /\ v # NoRecord
        BY <2>1, <2>2, <3>1, Relabelled
      <3> QED
        BY <3>1, <3>2, RecordsAreValues, StorageAssumption
    <2>4. /\ file' = file
          /\ \A i : Will(i) = file[i] /\ Records(i) = {file[i]} \ {NoRecord}
          /\ \A i : Will(i)' = IF i = op.from THEN v ELSE file[i]
          /\ \A i : i # op.from => Records(i)' = Records(i)
          /\ \A i : i = op.from => Records(i)' \subseteq Records(i) \cup {v}
      BY <1>0, <2>1, <2>3, SaveView
    <2>5. Whole(op.from, v.src)
      BY <2>1, <2>2, <2>3, <2>4 DEF FInv, BoxesWhole, Known
    <2> HIDE DEF v
    <2>6. SourcesFull'
      BY <1>0, <2>1, <2>4 DEF FInv, SourcesFull
    <2>7. BoxesWhole'
      BY <2>1, <2>3, <2>4, <2>5 DEF FInv, BoxesWhole, Whole
    <2>8. EarlyOK' /\ LateOK' /\ MakingOK'
      BY <2>1, <2>3, <2>4 DEF EarlyOK, Early, LateOK, MakingOK, Making, HasFiles
    <2>9. RecoveryOK' /\ CleanOK'
      BY <2>1, <2>3, <2>4 DEF FInv, RecoveryOK, CleanOK, Early, HasFiles
    <2> QED
      BY <2>6, <2>7, <2>8, <2>9 DEF FInv
  <1>2. ASSUME DropBox
        PROVE  FInv'
    <2>1. /\ op'.at = "end" /\ op'.from = op.from /\ op.at = "destroyed"
          /\ op.item \in Boxes /\ ReadFile(Request, op.item, NoRecord)
          /\ \E left \in {"none", "bare"} : dir' = [dir EXCEPT ![op.item] = left]
          /\ UNCHANGED <<backend, mode, containers, doomed, torn, clean>>
      BY <1>0, <1>2, ThenFields DEF DropBox, At, Save, SetDir, Wiped, history, IInv, Shape
    <2>2. /\ file' = file /\ job[Request] = Idle
          /\ \A i : Will(i) = file[i] /\ Records(i) = {file[i]} \ {NoRecord}
          /\ \A i : Will(i)' = IF i = op.item THEN NoRecord ELSE file[i]
          /\ \A i : Records(i)' \subseteq Records(i)
      BY <1>0, <2>1, SaveView
    <2>3. op.item \in doomed /\ (clean => op.item \notin containers)
      BY <2>1 DEF FInv, LateOK
    <2>4. SourcesFull'
      BY <1>0, <2>1, <2>2, Kinds DEF FInv, SourcesFull
    <2>5. BoxesWhole'
      BY <1>0, <2>1, <2>2, <2>3 DEF FInv, BoxesWhole, Whole
    <2>6. op.from # op.item \/ op.from = NoItem
      BY DEF IInv, Shape
    <2>7. EarlyOK' /\ LateOK' /\ MakingOK' /\ RecoveryOK'
      BY <2>1, <2>2, <2>6 DEF FInv, EarlyOK, Early, LateOK, MakingOK, Making, RecoveryOK, HasFiles
    <2>8. CleanOK'
      BY <1>0, <2>1, <2>2, <2>3 DEF FInv, CleanOK, Early, HasFiles
    <2> QED
      BY <2>4, <2>5, <2>7, <2>8 DEF FInv
  <1> QED
    BY <1>1, <1>2

-----------------------------------------------------------------------------
(* The steps of a write, a command's event and a crash. *)

\* A write that goes on, or takes effect, brings the records nothing that was not
\* to come.
LEMMA WriteView ==
    ASSUME IInv, NEW w \in Writers, WriteStep(w)
    PROVE  /\ \A i \in Items : Will(i)' = Will(i) /\ Records(i)' \subseteq Records(i)
           /\ job[Request] = Idle => job'[Request] = Idle
  <1>1. CASE WriteTemporary(w)
    <2>1. /\ file' = file
          /\ job'[Request] = Idle <=> job[Request] = Idle
          /\ job[Request] # Idle => /\ job'[Request].key = job[Request].key
                                   /\ job'[Request].value = job[Request].value
      BY <1>1, TemporaryEffect, Kinds
    <2> QED
      BY <2>1 DEF Will, Records
  <1>2. CASE Replace(w)
    <2>1. /\ job[w] # Idle /\ \A u \in Writers \ {w} : job[u] = Idle
          /\ \A u \in Writers : job'[u] = Idle
          /\ file \in Files /\ file' = [file EXCEPT ![job[w].key] = job[w].value]
      BY <1>2, ReplaceEffect
    <2>2. w = CommandThread => job[w].key \notin Items
      BY <2>1, Kinds DEF IInv, Writing
    <2>3. w = CommandThread \/ w = Request
      BY Kinds
    <2>4. \A i \in Items : file'[i] = Will(i)
      BY <2>1, <2>2, <2>3, Kinds DEF Files, Will
    <2>5. \A i \in Items : Will(i)' = Will(i)
      BY <2>1, <2>4, Kinds DEF Will
    <2> QED
      BY <2>1, <2>4, <2>5, Kinds DEF Records
  <1> QED
    BY <1>1, <1>2 DEF WriteStep

\* What happens without the orchestrator's lock.
LEMMA OtherFileSteps ==
    ASSUME IInv, FInv
    PROVE  /\ \A e \in Events : CommandEvent(e) => FInv'
           /\ Write => FInv'
           /\ Crash => FInv'
  <1>0. op \in Operations /\ Shape
    BY DEF IInv, Types
  <1>1. ASSUME NEW e \in Events, CommandEvent(e)
        PROVE  FInv'
    <2>1. file' = file /\ job[Request] = Idle /\ job'[Request] = Idle
      BY <1>1, SaveEffect, Kinds, RecordsAreValues DEF CommandEvent
    <2>2. \A i \in Items : Will(i)' = Will(i) /\ Records(i)' \subseteq Records(i)
      BY <2>1 DEF Will, Records
    <2>3. UNCHANGED <<backend, mode, op, dir, containers, doomed, torn, clean>>
      BY <1>1 DEF CommandEvent, disk, history
    <2> QED
      BY <1>0, <2>1, <2>2, <2>3, StoreOnly
  <1>2. ASSUME Write
        PROVE  FInv'
    <2>1. UNCHANGED <<backend, mode, op, dir, containers, doomed, torn, clean>>
      BY <1>2 DEF Write, disk, history
    <2>2. /\ \A i \in Items : Will(i)' = Will(i) /\ Records(i)' \subseteq Records(i)
          /\ job[Request] = Idle => job'[Request] = Idle
      BY <1>2, WriteView DEF Write
    <2> QED
      BY <1>0, <2>1, <2>2, StoreOnly
  <1>3. ASSUME Crash
        PROVE  FInv'
    <2>1. /\ file' = file /\ job'[Request] = Idle /\ mode' = "recovering"
          /\ op'.at = "none" /\ op'.from = NoItem /\ clean' = FALSE
          /\ torn' = torn \cup {b \in Boxes : Known(b) /\ file[b].st = "creating"}
          /\ UNCHANGED <<backend, dir, containers, doomed>>
      BY <1>3, NoOpFields, Kinds DEF Crash, Die, disk
    <2>2. /\ \A i : Records(i)' = {file[i]} \ {NoRecord}
          /\ \A i : Records(i)' \subseteq Records(i)
      BY <2>1 DEF Records, Will
    <2>3. SourcesFull' /\ BoxesWhole'
      BY <2>1, <2>2 DEF FInv, SourcesFull, BoxesWhole, Whole
    <2>4. EarlyOK' /\ LateOK' /\ MakingOK' /\ CleanOK'
      BY <2>1 DEF EarlyOK, Early, LateOK, MakingOK, Making, CleanOK
    <2>5. RecoveryOK'
      BY <2>1, <2>2 DEF RecoveryOK, Known
    <2> QED
      BY <2>3, <2>4, <2>5 DEF FInv
  <1> QED
    BY <1>1, <1>2, <1>3

-----------------------------------------------------------------------------
(* The theorems. *)

\* The service starts with nothing on disk.
LEMMA FilesInit == Init => FInv
  <1> SUFFICES ASSUME Init PROVE FInv
    OBVIOUS
  <1>1. /\ \A k \in Keys : file[k] = NoRecord
        /\ job[Request] = Idle
    BY Kinds DEF Init, StoreInit
  <1>2. \A i \in Items : Records(i) = {} /\ dir[i] = "none" /\ i \notin containers
    BY <1>1, IdleView, Kinds DEF Init
  <1>3. SourcesFull /\ BoxesWhole
    BY <1>2, Kinds DEF SourcesFull, BoxesWhole
  <1>4. EarlyOK /\ LateOK /\ MakingOK
    BY NoOpFields DEF Init, EarlyOK, Early, LateOK, MakingOK, Making, HasFiles
  <1>5. RecoveryOK /\ CleanOK
    BY <1>1, <1>2 DEF Init, RecoveryOK, CleanOK, HasFiles
  <1> QED
    BY <1>3, <1>4, <1>5 DEF FInv

\* Every step keeps the invariant.
LEMMA FilesStep == IInv /\ FInv /\ [Next]_vars => FInv'
  <1> SUFFICES ASSUME IInv, FInv, [Next]_vars PROVE FInv'
    OBVIOUS
  <1>1. CASE Next
    BY <1>1, TemplateFileSteps, RemoveFileSteps, MakingFileSteps, CaptureFileSteps,
       ItemFileSaves, NewBoxFileSaves, MakingFileSaves, BoxFileSaves, LastFileSaves,
       OtherFileSteps DEF Next, Sources
  <1>2. CASE UNCHANGED vars
    <2>1. UNCHANGED <<storeVars, op, backend, mode, dir, containers, doomed, torn, clean>>
      BY <1>2 DEF vars, disk, history
    <2>2. job' = job /\ \A i : Will(i)' = Will(i) /\ Records(i)' = Records(i)
      BY <2>1, SameView
    <2> QED
      BY <2>1, <2>2, StoreOnly DEF IInv, Types
  <1> QED
    BY <1>1, <1>2

\* Both invariants hold throughout.
LEMMA FilesInvariant == Spec => [](IInv /\ FInv)
  BY StorageInit, StorageStep, FilesInit, FilesStep, PTL DEF Spec

\* A template or snapshot with a record has all its files, unless its removal was
\* begun, however often the process dies between its files and its record.
THEOREM ListedSourcesAreFull == Spec => []ListedHasFiles
  <1>1. FInv => ListedHasFiles
    BY DEF FInv, SourcesFull, Records, ListedHasFiles, Known, Sources
  <1> QED
    BY <1>1, FilesInvariant, PTL

\* A sandbox that runs has the whole of its source; the exceptions are removals
\* that were begun, and what the local backend's recovery takes for a runtime.
THEOREM RunningSandboxesAreWhole == Spec => []RunningIsComplete
  <1>1. FInv => RunningIsComplete
    BY DEF FInv, BoxesWhole, Whole, Records, RunningIsComplete, Known
  <1> QED
    BY <1>1, FilesInvariant, PTL

\* As long as no crash, copy that fails half way or failing clean-up has come in
\* between, the files that are on disk and the containers there are between
\* operations have a record, also after creations and templates that failed.
THEOREM OperationsCleanUp == Spec => []NothingLeftBehind
  <1>1. IInv /\ FInv => NothingLeftBehind
    <2> SUFFICES ASSUME IInv, FInv, clean, op = NoOp
                 PROVE  /\ \A i \in Items : HasFiles(i) => Known(i)
                        /\ \A b \in containers : Known(b)
      BY DEF NothingLeftBehind
    <2>1. op.at = "none" /\ job[Request] = Idle
      BY NoOpFields DEF FInv, CleanOK
    <2>2. containers \subseteq Items
      BY Kinds DEF IInv, Types
    <2> QED
      BY <2>1, <2>2, IdleView DEF FInv, CleanOK, Early, Known, HasFiles
  <1> QED
    BY <1>1, FilesInvariant, PTL

=============================================================================
