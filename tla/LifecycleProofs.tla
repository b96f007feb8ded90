-------------------------- MODULE LifecycleProofs --------------------------
(***************************************************************************)
(* Proofs about Lifecycle, for every value of its constants.               *)
(***************************************************************************)
EXTENDS Lifecycle, TLAPS

-----------------------------------------------------------------------------
(* The invariant under everything else: who holds the lock, and which locals *)
(* of a call are set where.                                                   *)

\* A thread is inside a locked operation exactly when it owns the lock.
Mutex == \A t \in Threads : pc[t] \in Inside <=> lock = t

\* Where an operation works with the record it read on entry.
WithCopy == {"entered", "calling", "spawn", "settle", "undo",
             "destroying", "wiping", "dropping"}

LocalsOK ==
    \A t \in Threads :
        /\ pc[t] \in WithCopy \/ (pc[t] \in Inside /\ task[t].op = "fork") =>
              task[t].tgt \in Sandboxes /\ task[t].copy \in Record
        /\ pc[t] \in CreatePlaces =>
              /\ task[t].op \in {"create", "fork"}
              /\ task[t].kid \in Sandboxes /\ record[task[t].kid] \in Record
        /\ pc[t] = "spawn" => task[t].op = "fork"
        /\ pc[t] \in {"rearm", "reread", "writeback"} => task[t].tgt \in Sandboxes
        /\ pc[t] = "writeback" => task[t].copy \in Record

\* A crash ends every call.
DownIdle == ~up => \A t \in Threads : pc[t] = "idle"

Base == TypeOK /\ Mutex /\ LocalsOK /\ DownIdle

\* The locals of a thread without a call are typed.
LEMMA NoTaskType == NoTask \in Task
  BY DEF NoTask, Task

\* Changing the state or the TTL of a record gives a record.
LEMMA StateUpdate ==
    ASSUME NEW r \in Record, NEW x \in States
    PROVE  [r EXCEPT !.state = x] \in Record
  BY DEF Record

LEMMA TtlUpdate ==
    ASSUME NEW r \in Record, NEW b \in BOOLEAN
    PROVE  [r EXCEPT !.ttl = b] \in Record
  BY DEF Record

\* Putting a record keeps the store typed and forgets no record.
LEMMA PutRecord ==
    ASSUME TypeOK, NEW s, NEW r \in Record, Put(s, r)
    PROVE  /\ record' \in [Sandboxes -> Record \cup {NoRecord}]
           /\ \A k \in Sandboxes : record[k] \in Record => record'[k] \in Record
           /\ s \in Sandboxes => record'[s] \in Record
  BY DEF TypeOK, Put

\* Every step keeps Base: no action but those that take the lock, leave it or
\* crash moves a thread in or out of Inside, and each reaches a place with the
\* locals that place reads.
LEMMA BaseStep ==
    ASSUME Base, [Next]_vars
    PROVE  Base'
  <1>0. CASE UNCHANGED vars
    BY <1>0 DEF vars, Base, TypeOK, Mutex, LocalsOK, DownIdle
  <1> USE ConstantsAssumption, NoTaskType DEF Base, TypeOK, Mutex, LocalsOK, DownIdle, Goto, Inside, Outside, WithCopy, CreatePlaces, Task, Threads
  <1>1. ASSUME NEW t \in Threads, NEW o \in RequestNames, NEW s \in Sandboxes, Request(t, o, s) PROVE Base'
    BY <1>1 DEF Request, Enter
  <1>2. ASSUME NEW t \in Threads, NEW s \in Sandboxes, NEW d \in BOOLEAN, NEW a \in TimeoutActions, Create(t, s, d, a) PROVE Base'
    <2>1. [state |-> "creating", ttl |-> d, onTimeout |-> a] \in Record
      BY DEF Record, States, Transitional
    <2>2. /\ record' \in [Sandboxes -> Record \cup {NoRecord}]
          /\ record'[s] \in Record
      BY <1>2, <2>1, PutRecord DEF Create
    <2>3. task' \in [Threads -> Task]
      BY <1>2 DEF Create, NoTask, RequestNames
    <2>4. task'[t].kid = s /\ task'[t].op = "create"
      BY <1>2 DEF Create, NoTask
    <2>5. \A u \in Threads \ {t} : pc'[u] = pc[u] /\ task'[u] = task[u] /\ pc[u] \notin Inside
      BY <1>2 DEF Create
    <2> QED
      BY <1>2, <2>2, <2>3, <2>4, <2>5 DEF Create
  <1>3. ASSUME NEW t \in Threads, AlreadyThere(t) PROVE Base'
    BY <1>3 DEF AlreadyThere, Return, NoTask
  <1>4. ASSUME NEW t \in Threads, Refuse(t) PROVE Base'
    BY <1>4 DEF Refuse, Raise, NoTask
  <1>5. ASSUME NEW t \in Threads, BeginTransition(t) PROVE Base'
    <2>0. task[t].copy \in Record
      BY <1>5 DEF BeginTransition
    <2>1. [task[t].copy EXCEPT !.state = Via(task[t].op)] \in Record
      BY <2>0, StateUpdate DEF Via, States, Transitional
    <2> QED
      BY <1>5, <2>1 DEF BeginTransition, PutCopy, Put
  <1>6. ASSUME NEW t \in Threads, Call(t) PROVE Base'
    BY <1>6 DEF Call, Workspace, Instance
  <1>7. ASSUME NEW t \in Threads, CallFails(t) PROVE Base'
    BY <1>7 DEF CallFails
  <1>8. ASSUME NEW t \in Threads, Settle(t) PROVE Base'
    <2>0. task[t].copy \in Record
      BY <1>8 DEF Settle
    <2>1. [task[t].copy EXCEPT !.state = To(task[t].op)] \in Record
      BY <2>0, StateUpdate DEF To, States
    <2> QED
      BY <1>8, <2>1 DEF Settle, PutCopy, Put, Return, NoTask
  <1>9. ASSUME NEW t \in Threads, Undo(t) PROVE Base'
    <2>1. [task[t].copy EXCEPT !.state = task[t].copy.state] \in Record
      BY <1>9 DEF Undo, Record
    <2> QED
      BY <1>9, <2>1 DEF Undo, PutCopy, Put, Raise, NoTask
  <1>10. ASSUME NEW t \in Threads, ForkDone(t) PROVE Base'
    BY <1>10 DEF ForkDone
  <1>11. ASSUME NEW t \in Threads, BeginCopy(t) PROVE Base'
    BY <1>11 DEF BeginCopy, Workspace, Instance
  <1>12. ASSUME NEW t \in Threads, EndCopy(t) PROVE Base'
    BY <1>12 DEF EndCopy, Workspace, Instance
  <1>13. ASSUME NEW t \in Threads, CopyFails(t) PROVE Base'
    BY <1>13 DEF CopyFails, Workspace, Instance
  <1>14. ASSUME NEW t \in Threads, StartInstance(t) PROVE Base'
    BY <1>14 DEF StartInstance, Workspace, Instance
  <1>15. ASSUME NEW t \in Threads, StartFails(t) PROVE Base'
    BY <1>15 DEF StartFails, Workspace, Instance, StrayFault
  <1>16. ASSUME NEW t \in Threads, Publish(t) PROVE Base'
    <2>0. record[task[t].kid] \in Record
      BY <1>16 DEF Publish
    <2>1. [record[task[t].kid] EXCEPT !.state = "running"] \in Record
      BY <2>0, StateUpdate DEF States
    <2>2. /\ record' \in [Sandboxes -> Record \cup {NoRecord}]
          /\ \A k \in Sandboxes : record[k] \in Record => record'[k] \in Record
      BY <1>16, <2>1, PutRecord DEF Publish
    <2>3. CASE task[t].op = "fork"
      BY <1>16, <2>2, <2>3 DEF Publish
    <2>4. CASE task[t].op # "fork"
      BY <1>16, <2>2, <2>4 DEF Publish, Return, NoTask
    <2> QED
      BY <2>3, <2>4
  <1>17. ASSUME NEW t \in Threads, Abort(t) PROVE Base'
    BY <1>17 DEF Abort, Put, Raise, NoTask
  <1>18. ASSUME NEW t \in Threads, BeginDelete(t) PROVE Base'
    <2>0. task[t].copy \in Record
      BY <1>18 DEF BeginDelete
    <2>1. [task[t].copy EXCEPT !.state = "killing"] \in Record
      BY <2>0, StateUpdate DEF States, Transitional
    <2> QED
      BY <1>18, <2>1 DEF BeginDelete, PutCopy, Put
  <1>19. ASSUME NEW t \in Threads, DestroyInstance(t) PROVE Base'
    BY <1>19 DEF DestroyInstance, Workspace, Instance
  <1>20. ASSUME NEW t \in Threads, DestroyFails(t) PROVE Base'
    BY <1>20 DEF DestroyFails
  <1>21. ASSUME NEW t \in Threads, WipeWorkspace(t) PROVE Base'
    BY <1>21 DEF WipeWorkspace, Workspace, Instance, Wiped
  <1>22. ASSUME NEW t \in Threads, WipeFails(t) PROVE Base'
    BY <1>22 DEF WipeFails, Workspace, Instance, Wiped
  <1>23. ASSUME NEW t \in Threads, DropRecord(t) PROVE Base'
    BY <1>23 DEF DropRecord, Put, Return, NoTask
  <1>24. ASSUME NEW t \in Threads, PutTimeout(t) PROVE Base'
    <2>0. task[t].copy \in Record
      BY <1>24 DEF PutTimeout
    <2>1. [task[t].copy EXCEPT !.ttl = (task[t].op = "arm")] \in Record
      BY <2>0, TtlUpdate
    <2> QED
      BY <1>24, <2>1 DEF PutTimeout, Put, Return, NoTask
  <1>25. ASSUME NEW t \in Threads, Rearm(t) PROVE Base'
    BY <1>25 DEF Rearm, Enter, RequestNames
  <1>26. ASSUME NEW t \in Threads, RearmMisses(t) PROVE Base'
    BY <1>26 DEF RearmMisses, NoTask
  <1>27. ASSUME NEW t \in Threads, NEW s \in Sandboxes, Spawn(t, s) PROVE Base'
    <2>1. [state |-> "creating", ttl |-> FALSE, onTimeout |-> task[t].copy.onTimeout] \in Record
      BY <1>27 DEF Spawn, Record, States, Transitional
    <2> QED
      BY <1>27, <2>1, PutRecord DEF Spawn
  <1>28. ASSUME NEW D \in SUBSET Sandboxes, List(D) PROVE Base'
    BY <1>28 DEF List
  <1>29. ASSUME NEW s \in Sandboxes, Evict(s) PROVE Base'
    BY <1>29 DEF Evict, Enter, RequestNames
  <1>30. ASSUME NEW s \in Sandboxes, EvictMisses(s) PROVE Base'
    BY <1>30 DEF EvictMisses
  <1>31. ASSUME Reread PROVE Base'
    BY <1>31 DEF Reread
  <1>32. ASSUME RereadMisses PROVE Base'
    BY <1>32 DEF RereadMisses, NoTask
  <1>33. ASSUME WriteBack PROVE Base'
    <2>0. task[Maint].copy \in Record
      BY <1>33 DEF WriteBack
    <2>1. [task[Maint].copy EXCEPT !.ttl = FALSE] \in Record
      BY <2>0, TtlUpdate
    <2> QED
      BY <1>33, <2>1, PutRecord DEF WriteBack, NoTask
  <1>34. ASSUME Crash PROVE Base'
    BY ZenonT(60), <1>34 DEF Crash, NoTask
  <1>35. ASSUME NEW s \in Sandboxes, RecoverKeep(s) PROVE Base'
    <2>1. record[s] \in Record
      BY <1>35 DEF RecoverKeep, Recoverable, Interrupted
    <2>2. [record[s] EXCEPT !.state = "running"] \in Record
      BY <2>1 DEF Record, States
    <2> QED
      BY <1>35, <2>1, <2>2 DEF RecoverKeep, Put
  <1>36. ASSUME NEW s \in Sandboxes, RecoverDestroy(s) PROVE Base'
    BY <1>36 DEF RecoverDestroy, Workspace, Instance, Wiped
  <1>37. ASSUME NEW s \in Sandboxes, RecoverForget(s) PROVE Base'
    BY <1>37 DEF RecoverForget, Recoverable, Put
  <1>38. ASSUME Serve PROVE Base'
    BY <1>38 DEF Serve
  <1>40. ASSUME NEW s \in Sandboxes, RecoverStops(s) PROVE Base'
    BY <1>40 DEF RecoverStops, Workspace, Instance, Wiped
  <1> HIDE DEF Base, TypeOK, Mutex, LocalsOK, DownIdle, Goto, Inside, Outside, WithCopy, CreatePlaces, Task, Threads
  <1> QED
    BY <1>1, <1>2, <1>3, <1>4, <1>5, <1>6, <1>7, <1>8, <1>9, <1>10, <1>11, <1>12, <1>13, <1>14, <1>15, <1>16, <1>17, <1>18, <1>19, <1>20, <1>21, <1>22, <1>23, <1>24, <1>25, <1>26, <1>27, <1>28, <1>29, <1>30, <1>31, <1>32, <1>33, <1>34, <1>35, <1>36, <1>37, <1>38, <1>40, <1>0
       DEF Next, Begin, Proceed, Maintain, Recover, Quiet

\* The lock excludes, locals are set where they are read, a process that is
\* down has no calls: the reentrant lock and the with-blocks of the orchestrator.
THEOREM BaseInvariant == Spec => []Base
  <1>1. Init => Base
    BY ConstantsAssumption, NoTaskType DEF Init, Base, TypeOK, Mutex, LocalsOK, DownIdle, Inside,
       Outside, WithCopy, CreatePlaces, Threads, Workspace, Instance
  <1> QED
    BY <1>1, BaseStep, PTL DEF Spec

\* Every variable keeps its type, whatever the backend, the faults and the
\* requests: each put writes a well-formed record.
THEOREM TypeCorrect == Spec => []TypeOK
  BY BaseInvariant, PTL DEF Base

-----------------------------------------------------------------------------
(* Where the worker only kills, what is transitional belongs to the lock      *)
(* owner.                                                                     *)

\* An operation starts from a settled record.
SettledCopies ==
    \A t \in Threads :
        pc[t] \in WithCopy \/ (pc[t] \in Inside /\ task[t].op = "fork") =>
            task[t].copy.state \in {"running", "paused"}

\* The worker never writes a record back.
KillOnly == pc[Maint] \notin {"reread", "writeback", "rearm"} /\ task[Maint].op \in {"none", "delete"}

Held == TransientHeld /\ SettledCopies /\ KillOnly

\* While the lock is free every record is settled.
LEMMA FreeLock ==
    ASSUME Base, TransientHeld, up, lock = NoThread
    PROVE  \A s \in Sandboxes : record[s] # NoRecord =>
              /\ record[s] \in Record
              /\ record[s].state \in {"running", "paused"}
              /\ record[s].onTimeout \in TimeoutActions
              /\ ~Interrupted(s)
  BY ConstantsAssumption DEF Base, TypeOK, TransientHeld, Interrupted, Record, States

\* Every step keeps Held: an operation makes its record transitional only while
\* it owns the lock, and settles it before it gives the lock up.
LEMMA HeldStep ==
    ASSUME TimeoutActions = {"kill"}, Base, Held, [Next]_vars
    PROVE  Held'
  <1>0. CASE UNCHANGED vars
    BY <1>0 DEF vars, Held, TransientHeld, Interrupted, Working, SettledCopies, KillOnly
  <1> USE ConstantsAssumption DEF Held, TransientHeld, Interrupted, Working, SettledCopies, KillOnly, Base, TypeOK, Mutex, LocalsOK, DownIdle, Goto, Inside, Outside, WithCopy, CreatePlaces, Task, Threads, Transitional, Transitions
  <1>1. ASSUME NEW t \in Threads, NEW o \in RequestNames, NEW s \in Sandboxes, Request(t, o, s) PROVE Held'
    <2>1. up /\ lock = NoThread /\ record[s] # NoRecord
      BY <1>1 DEF Request, Enter
    <2>2. record[s].state \in {"running", "paused"}
      BY <2>1, FreeLock
    <2>3. \A k \in Sandboxes : ~Interrupted(k)
      BY <2>1, FreeLock
    <2> QED
      BY <1>1, <2>1, <2>2, <2>3 DEF Request, Enter
  <1>2. ASSUME NEW t \in Threads, NEW s \in Sandboxes, NEW d \in BOOLEAN, NEW a \in TimeoutActions, Create(t, s, d, a) PROVE Held'
    BY <1>2 DEF Create, Put, NoTask
  <1>3. ASSUME NEW t \in Threads, AlreadyThere(t) PROVE Held'
    BY <1>3 DEF AlreadyThere, Return, NoTask
  <1>4. ASSUME NEW t \in Threads, Refuse(t) PROVE Held'
    BY <1>4 DEF Refuse, Raise, NoTask
  <1>5. ASSUME NEW t \in Threads, BeginTransition(t) PROVE Held'
    BY <1>5 DEF BeginTransition, PutCopy, Put, Via
  <1>6. ASSUME NEW t \in Threads, Call(t) PROVE Held'
    BY <1>6 DEF Call, Via
  <1>7. ASSUME NEW t \in Threads, CallFails(t) PROVE Held'
    BY <1>7 DEF CallFails
  <1>8. ASSUME NEW t \in Threads, Settle(t) PROVE Held'
    BY <1>8 DEF Settle, PutCopy, Put, To, Return, NoTask
  <1>9. ASSUME NEW t \in Threads, Undo(t) PROVE Held'
    BY <1>9 DEF Undo, PutCopy, Put, Raise, NoTask
  <1>10. ASSUME NEW t \in Threads, ForkDone(t) PROVE Held'
    BY <1>10 DEF ForkDone
  <1>11. ASSUME NEW t \in Threads, BeginCopy(t) PROVE Held'
    BY <1>11 DEF BeginCopy
  <1>12. ASSUME NEW t \in Threads, EndCopy(t) PROVE Held'
    BY <1>12 DEF EndCopy
  <1>13. ASSUME NEW t \in Threads, CopyFails(t) PROVE Held'
    BY <1>13 DEF CopyFails
  <1>14. ASSUME NEW t \in Threads, StartInstance(t) PROVE Held'
    BY <1>14 DEF StartInstance
  <1>15. ASSUME NEW t \in Threads, StartFails(t) PROVE Held'
    BY <1>15 DEF StartFails
  <1>16. ASSUME NEW t \in Threads, Publish(t) PROVE Held'
    BY <1>16 DEF Publish, Put, Return, NoTask
  <1>17. ASSUME NEW t \in Threads, Abort(t) PROVE Held'
    BY <1>17 DEF Abort, Put, Raise, NoTask
  <1>18. ASSUME NEW t \in Threads, BeginDelete(t) PROVE Held'
    BY <1>18 DEF BeginDelete, PutCopy, Put
  <1>19. ASSUME NEW t \in Threads, DestroyInstance(t) PROVE Held'
    BY <1>19 DEF DestroyInstance
  <1>20. ASSUME NEW t \in Threads, DestroyFails(t) PROVE Held'
    BY <1>20 DEF DestroyFails
  <1>21. ASSUME NEW t \in Threads, WipeWorkspace(t) PROVE Held'
    BY <1>21 DEF WipeWorkspace
  <1>22. ASSUME NEW t \in Threads, WipeFails(t) PROVE Held'
    BY <1>22 DEF WipeFails
  <1>23. ASSUME NEW t \in Threads, DropRecord(t) PROVE Held'
    BY <1>23 DEF DropRecord, Put, Return, NoTask
  <1>24. ASSUME NEW t \in Threads, PutTimeout(t) PROVE Held'
    BY <1>24 DEF PutTimeout, Put, Return, NoTask
  <1>25. ASSUME NEW t \in Threads, Rearm(t) PROVE Held'
    <2>1. up /\ lock = NoThread /\ record[task[t].tgt] # NoRecord
      BY <1>25 DEF Rearm, Enter
    <2>2. task[t].tgt \in Sandboxes
      BY <1>25 DEF Rearm
    <2>3. record[task[t].tgt].state \in {"running", "paused"}
      BY <2>1, <2>2, FreeLock
    <2>4. \A k \in Sandboxes : ~Interrupted(k)
      BY <2>1, FreeLock
    <2>5. t # Maint
      BY <1>25 DEF Rearm
    <2> QED
      BY <1>25, <2>1, <2>2, <2>3, <2>4, <2>5 DEF Rearm, Enter
  <1>26. ASSUME NEW t \in Threads, RearmMisses(t) PROVE Held'
    BY <1>26 DEF RearmMisses, NoTask
  <1>27. ASSUME NEW t \in Threads, NEW s \in Sandboxes, Spawn(t, s) PROVE Held'
    BY <1>27 DEF Spawn, Put
  <1>28. ASSUME NEW D \in SUBSET Sandboxes, List(D) PROVE Held'
    BY <1>28 DEF List
  <1>29. ASSUME NEW s \in Sandboxes, Evict(s) PROVE Held'
    <2>1. up /\ lock = NoThread /\ record[s] # NoRecord
      BY <1>29 DEF Evict, Enter
    <2>2. record[s].state \in {"running", "paused"} /\ record[s].onTimeout = "kill"
      BY <2>1, FreeLock
    <2>3. \A k \in Sandboxes : ~Interrupted(k)
      BY <2>1, FreeLock
    <2> QED
      BY <1>29, <2>1, <2>2, <2>3 DEF Evict, Enter
  <1>30. ASSUME NEW s \in Sandboxes, EvictMisses(s) PROVE Held'
    BY <1>30 DEF EvictMisses
  <1>31. ASSUME Reread PROVE Held'
    BY <1>31 DEF Reread
  <1>32. ASSUME RereadMisses PROVE Held'
    BY <1>32 DEF RereadMisses
  <1>33. ASSUME WriteBack PROVE Held'
    BY <1>33 DEF WriteBack
  <1>34. ASSUME Crash PROVE Held'
    BY <1>34 DEF Crash, NoTask
  <1>35. ASSUME NEW s \in Sandboxes, RecoverKeep(s) PROVE Held'
    BY <1>35 DEF RecoverKeep, Recoverable, Put
  <1>36. ASSUME NEW s \in Sandboxes, RecoverDestroy(s) PROVE Held'
    BY <1>36 DEF RecoverDestroy, Recoverable
  <1>37. ASSUME NEW s \in Sandboxes, RecoverForget(s) PROVE Held'
    BY <1>37 DEF RecoverForget, Recoverable, Put
  <1>38. ASSUME Serve PROVE Held'
    BY <1>38 DEF Serve
  <1>40. ASSUME NEW s \in Sandboxes, RecoverStops(s) PROVE Held'
    BY <1>40 DEF RecoverStops, Recoverable
  <1> HIDE DEF Held, TransientHeld, Interrupted, Working, SettledCopies, KillOnly, Base, TypeOK, Mutex, LocalsOK, DownIdle, Goto, Inside, Outside, WithCopy, CreatePlaces, Task, Threads, Transitional, Transitions
  <1> QED
    BY <1>1, <1>2, <1>3, <1>4, <1>5, <1>6, <1>7, <1>8, <1>9, <1>10, <1>11, <1>12, <1>13, <1>14, <1>15, <1>16, <1>17, <1>18, <1>19, <1>20, <1>21, <1>22, <1>23, <1>24, <1>25, <1>26, <1>27, <1>28, <1>29, <1>30, <1>31, <1>32, <1>33, <1>34, <1>35, <1>36, <1>37, <1>38, <1>40, <1>0
       DEF Next, Begin, Proceed, Maintain, Recover, Quiet

\* In a process whose sandboxes are all killed on timeout, a transitional
\* record always belongs to the operation that owns the lock, whatever fails
\* or crashes, on every backend.
THEOREM KillKeepsTransientHeld ==
    ASSUME TimeoutActions = {"kill"}
    PROVE  Spec => []TransientHeld
  <1>1. Init => Held
    BY ConstantsAssumption DEF Init, Held, TransientHeld, Interrupted, SettledCopies,
       KillOnly, WithCopy, Inside, Threads, NoTask
  <1>2. Base /\ Base' /\ Held /\ [Next]_vars => Held'
    BY HeldStep
  <1> QED
    BY <1>1, <1>2, BaseInvariant, PTL DEF Spec, Held

-----------------------------------------------------------------------------
(* What settled records say is so, as long as nothing crashes and every        *)
(* workspace can be removed: there a rollback never follows an effect.        *)

\* What the operation on task[t].tgt has done to it so far.
CallOK(t) ==
    LET s == task[t].tgt
        k == task[t].copy.state
        nested == task[t].op = "fork" /\ pc[t] \in {"spawn"} \cup CreatePlaces
    IN
        /\ pc[t] \in WithCopy => s \in born
        /\ pc[t] = "entered" => Matches(s, k) /\ record[s] # NoRecord /\ record[s].state = k
        /\ pc[t] = "calling" =>
              /\ task[t].op \in Transitions /\ k = From(task[t].op) /\ Matches(s, k)
              /\ record[s] # NoRecord /\ record[s].state = Via(task[t].op)
        /\ nested => k = "running" /\ Matches(s, k) /\ record[s] # NoRecord /\ record[s].state = "forking"
        /\ pc[t] = "settle" => task[t].op \in Transitions /\ Matches(s, To(task[t].op))
        /\ pc[t] = "undo" => Matches(s, k)
        /\ pc[t] = "destroying" => Matches(s, k)
        /\ pc[t] \in {"destroying", "wiping", "dropping"} => record[s] # NoRecord /\ record[s].state = "killing"

\* How far the creation of task[t].kid is.
CreateOK(t) ==
    LET s == task[t].kid IN
        /\ pc[t] \in CreatePlaces => record[s].state = "creating"
        /\ pc[t] \in {"starting", "publish"} /\ HasWorkspace => workspace[s] = "full"
        /\ pc[t] = "publish" /\ HasInstance => instance[s] = "up"

Truth ==
    /\ up
    /\ \A s \in Sandboxes : record[s] # NoRecord => s \in born
    /\ RecordMatchesRuntime
    /\ \A t \in Threads : CallOK(t) /\ CreateOK(t)

\* A put of a true state keeps the store true.
LEMMA PutTruth ==
    ASSUME TypeOK, RecordMatchesRuntime, NEW s \in Sandboxes, NEW r \in Record,
           Matches(s, r.state), record' = [record EXCEPT ![s] = r],
           UNCHANGED <<workspace, instance>>
    PROVE  RecordMatchesRuntime'
  <1>1. \A k \in Sandboxes : \A x : Matches(k, x)' <=> Matches(k, x)
    BY DEF Matches
  <1>2. \A k \in Sandboxes : record'[k] = IF k = s THEN r ELSE record[k]
    BY DEF TypeOK
  <1> QED
    BY <1>1, <1>2 DEF RecordMatchesRuntime

\* A state that is not settled claims nothing.
LEMMA Unclaimed ==
    ASSUME NEW s, NEW x, x \notin {"running", "paused"}
    PROVE  Matches(s, x)
  BY DEF Matches

\* The copy that is put has the state it is given.
LEMMA CopyState ==
    ASSUME NEW r \in Record, NEW x \in States
    PROVE  [r EXCEPT !.state = x].state = x
  BY DEF Record

\* A step on the runtime and the files of the sandbox being created, which no
\* settled record speaks of.
LEMMA NewbornTruth ==
    ASSUME Base, Truth, NEW t \in Threads,
           pc[t] \in {"preparing", "copying", "starting"},
           NEW w \in CreatePlaces, pc' = [pc EXCEPT ![t] = w],
           UNCHANGED <<up, record, born, task>>,
           \A k \in Sandboxes \ {task[t].kid} :
               workspace'[k] = workspace[k] /\ instance'[k] = instance[k],
           CreateOK(t)'
    PROVE  Truth'
  <1>1. record[task[t].kid].state = "creating"
    BY DEF Truth, CreateOK, CreatePlaces
  <1>2. \A k \in Sandboxes \ {task[t].kid} : \A x : Matches(k, x)' <=> Matches(k, x)
    BY DEF Matches
  <1>3. RecordMatchesRuntime'
    <2>1. ASSUME NEW k \in Sandboxes, record'[k] # NoRecord
          PROVE  Matches(k, record[k].state)'
      <3>1. CASE k = task[t].kid
        BY <1>1, <3>1 DEF Matches
      <3>2. CASE k # task[t].kid
        BY <1>2, <2>1, <3>2 DEF Truth, RecordMatchesRuntime
      <3> QED
        BY <3>1, <3>2
    <2> QED
      BY <2>1 DEF RecordMatchesRuntime
  <1>4. pc'[t] = w /\ pc'[t] \in CreatePlaces /\ pc[t] \in CreatePlaces
    BY DEF Base, TypeOK, CreatePlaces
  <1>5. CallOK(t)'
    <2>1. /\ pc[t] \notin WithCopy \cup {"entered", "calling", "settle", "undo", "destroying",
                                       "wiping", "dropping"}
          /\ pc'[t] \notin WithCopy \cup {"entered", "calling", "settle", "undo", "destroying",
                                        "wiping", "dropping"}
      BY <1>4 DEF WithCopy, CreatePlaces
    <2>2. CASE task[t].op # "fork"
      BY <2>1, <2>2 DEF CallOK
    <2>3. CASE task[t].op = "fork"
      <3>1. /\ task[t].copy.state = "running" /\ Matches(task[t].tgt, "running")
            /\ record[task[t].tgt] # NoRecord /\ record[task[t].tgt].state = "forking"
        BY <1>4, <2>3 DEF Truth, CallOK
      <3>2. task[t].tgt \in Sandboxes \ {task[t].kid}
        BY <1>1, <1>4, <2>3, <3>1 DEF Base, LocalsOK, CreatePlaces, Inside, Transitions, WithCopy
      <3>3. Matches(task[t].tgt, "running")'
        BY <1>2, <3>1, <3>2
      <3> QED
        BY <2>1, <3>1, <3>3 DEF CallOK
    <2> QED
      BY <2>2, <2>3
  <1>6. ASSUME NEW u \in Threads, u # t
        PROVE  CallOK(u)' /\ CreateOK(u)'
    <2>1. pc'[u] = pc[u] /\ pc[u] \notin Inside
      BY <1>4, <1>6 DEF Base, TypeOK, Mutex, CreatePlaces, Inside
    <2>2. pc[u] \in WithCopy => task[u].tgt \in born
      BY DEF Truth, CallOK
    <2> QED
      BY <2>1, <2>2 DEF CallOK, CreateOK, CreatePlaces, Inside
  <1> QED
    BY <1>3, <1>5, <1>6 DEF Truth

\* A step on the runtime and the files of the sandbox being deleted, which no
\* settled record speaks of either.
LEMMA DyingTruth ==
    ASSUME Base, Truth, NEW t \in Threads, pc[t] \in {"destroying", "wiping"},
           NEW w \in {"wiping", "dropping"}, pc' = [pc EXCEPT ![t] = w],
           UNCHANGED <<up, record, born, task>>,
           \A k \in Sandboxes \ {task[t].tgt} :
               workspace'[k] = workspace[k] /\ instance'[k] = instance[k]
    PROVE  Truth'
  <1>1. /\ record[task[t].tgt] # NoRecord /\ record[task[t].tgt].state = "killing"
        /\ task[t].tgt \in born
    BY DEF Truth, CallOK, WithCopy
  <1>2. \A k \in Sandboxes \ {task[t].tgt} : \A x : Matches(k, x)' <=> Matches(k, x)
    BY DEF Matches
  <1>3. RecordMatchesRuntime'
    <2>1. ASSUME NEW k \in Sandboxes, record'[k] # NoRecord
          PROVE  Matches(k, record[k].state)'
      <3>1. CASE k = task[t].tgt
        BY <1>1, <3>1 DEF Matches
      <3>2. CASE k # task[t].tgt
        BY <1>2, <2>1, <3>2 DEF Truth, RecordMatchesRuntime
      <3> QED
        BY <3>1, <3>2
    <2> QED
      BY <2>1 DEF RecordMatchesRuntime
  <1>4. pc'[t] = w /\ pc[t] \in Inside
    BY DEF Base, TypeOK, Inside
  <1>5. CallOK(t)' /\ CreateOK(t)'
    BY <1>1, <1>4 DEF CallOK, CreateOK, CreatePlaces
  <1>6. ASSUME NEW u \in Threads, u # t
        PROVE  CallOK(u)' /\ CreateOK(u)'
    <2>1. pc'[u] = pc[u] /\ pc[u] \notin Inside
      BY <1>4, <1>6 DEF Base, TypeOK, Mutex
    <2>2. pc[u] \in WithCopy => task[u].tgt \in born
      BY DEF Truth, CallOK
    <2> QED
      BY <2>1, <2>2 DEF CallOK, CreateOK, CreatePlaces, Inside
  <1> QED
    BY <1>3, <1>5, <1>6 DEF Truth

\* Every step keeps Truth: a put of a settled state comes after the backend call
\* that makes it so, and a rollback only after a call that changed nothing.
LEMMA TruthStep ==
    ASSUME Faults \cap {"rmtree", "crash"} = {}, Base, Held, Truth, [Next]_vars
    PROVE  Truth'
  <1>39. KillOnly
    BY DEF Held
  <1>0. CASE UNCHANGED vars
    BY <1>0 DEF vars, Truth, RecordMatchesRuntime, Matches, CallOK, CreateOK
  <1> USE ConstantsAssumption, <1>39 DEF Truth, RecordMatchesRuntime, Matches, CallOK, CreateOK, KillOnly, Base, TypeOK, Mutex, LocalsOK, DownIdle, Goto, Inside, Outside, WithCopy, CreatePlaces, Task, Threads, Transitions, HasInstance, HasWorkspace
  <1>1. ASSUME NEW t \in Threads, NEW o \in RequestNames, NEW s \in Sandboxes, Request(t, o, s) PROVE Truth'
    <2>1. record[s] # NoRecord /\ up
      BY <1>1 DEF Request
    <2>2. Matches(s, record[s].state) /\ s \in born
      BY <2>1
    <2>3. CallOK(t)' /\ CreateOK(t)'
      BY SMTT(30), <1>1, <2>1, <2>2 DEF Request, Enter
    <2>4. \A u \in Threads \ {t} : CallOK(u)' /\ CreateOK(u)'
      BY SMTT(30), <1>1 DEF Request, Enter
    <2>5. RecordMatchesRuntime'
      BY <1>1 DEF Request, Enter
    <2>6. \A k \in Sandboxes : record'[k] # NoRecord => k \in born'
      BY <1>1 DEF Request, Enter
    <2> HIDE DEF CallOK, CreateOK, RecordMatchesRuntime, Matches, Base, TypeOK, Mutex, LocalsOK, DownIdle, KillOnly, Task, WithCopy, CreatePlaces
    <2> QED
      BY <1>1, <2>1, <2>3, <2>4, <2>5, <2>6 DEF Request, Enter
  <1>2. ASSUME NEW t \in Threads, NEW s \in Sandboxes, NEW d \in BOOLEAN, NEW a \in TimeoutActions, Create(t, s, d, a) PROVE Truth'
    <2>1. record' = [record EXCEPT ![s] = [state |-> "creating", ttl |-> d, onTimeout |-> a]]
      BY <1>2 DEF Create, Put
    <2>2. record'[s].state = "creating" /\ \A k \in Sandboxes \ {s} : record'[k] = record[k]
      BY <2>1
    <2>3. RecordMatchesRuntime'
      BY <1>2, <2>2 DEF Create
    <2>4. CallOK(t)' /\ CreateOK(t)'
      BY <1>2, <2>2 DEF Create, NoTask
    <2>5. \A u \in Threads \ {t} : CallOK(u)' /\ CreateOK(u)'
      BY <1>2 DEF Create
    <2>6. \A k \in Sandboxes : record'[k] # NoRecord => k \in born'
      BY <1>2, <2>2 DEF Create
    <2> HIDE DEF CallOK, CreateOK, RecordMatchesRuntime, Matches, Base, TypeOK, Mutex, LocalsOK, DownIdle, KillOnly, Task, WithCopy, CreatePlaces
    <2> QED
      BY <1>2, <2>3, <2>4, <2>5, <2>6 DEF Create
  <1>3. ASSUME NEW t \in Threads, AlreadyThere(t) PROVE Truth'
    <2>1. \A u \in Threads : pc'[u] \notin Inside
      BY <1>3 DEF AlreadyThere, Return
    <2>2. RecordMatchesRuntime'
      BY <1>3 DEF AlreadyThere
    <2> QED
      BY <1>3, <2>1, <2>2 DEF AlreadyThere
  <1>4. ASSUME NEW t \in Threads, Refuse(t) PROVE Truth'
    <2>1. \A u \in Threads : pc'[u] \notin Inside
      BY <1>4 DEF Refuse, Raise
    <2>2. RecordMatchesRuntime'
      BY <1>4 DEF Refuse
    <2> QED
      BY <1>4, <2>1, <2>2 DEF Refuse
  <1>5. ASSUME NEW t \in Threads, BeginTransition(t) PROVE Truth'
    <2> DEFINE r == [task[t].copy EXCEPT !.state = Via(task[t].op)]
    <2>1. task[t].tgt \in Sandboxes /\ task[t].copy \in Record
      BY <1>5 DEF BeginTransition
    <2>2. r \in Record /\ r.state = Via(task[t].op)
      <3>1. Via(task[t].op) \in States
        BY DEF Via, States, Transitional
      <3> QED
        BY <2>1, <3>1, StateUpdate, CopyState
    <2>3. Matches(task[t].tgt, r.state)
      BY <1>5, <2>2, Unclaimed DEF Via
    <2>4. record' = [record EXCEPT ![task[t].tgt] = r] /\ UNCHANGED <<workspace, instance>>
      BY <1>5 DEF BeginTransition, PutCopy, Put
    <2> HIDE DEF r
    <2>5. RecordMatchesRuntime'
      BY <2>1, <2>2, <2>3, <2>4, PutTruth
    <2>6. \A k \in Sandboxes : record'[k] # NoRecord => k \in born
      BY <2>1, <2>4, <1>5 DEF BeginTransition
    <2>7. record'[task[t].tgt] = r /\ task[t].tgt \in born
      BY <1>5, <2>1, <2>4 DEF BeginTransition
    <2>8. CallOK(t)' /\ CreateOK(t)'
      <3>1. Matches(task[t].tgt, From(task[t].op))'
        BY <1>5 DEF BeginTransition
      <3>2. record'[task[t].tgt] # NoRecord /\ record'[task[t].tgt].state = Via(task[t].op)
        BY <2>2, <2>7
      <3> QED
        BY <1>5, <2>7, <3>1, <3>2 DEF BeginTransition
    <2>9. \A u \in Threads \ {t} : CallOK(u)' /\ CreateOK(u)'
      BY SMTT(30), <1>5 DEF BeginTransition
    <2> HIDE DEF CallOK, CreateOK, RecordMatchesRuntime, Matches, Base, TypeOK, Mutex, LocalsOK, DownIdle, KillOnly, Task, WithCopy, CreatePlaces
    <2> QED
      BY <1>5, <2>5, <2>6, <2>8, <2>9 DEF BeginTransition
  <1>6. ASSUME NEW t \in Threads, Call(t) PROVE Truth'
    <2>1. task[t].tgt \in Sandboxes /\ record[task[t].tgt] # NoRecord
      BY <1>6 DEF Call
    <2>2. RecordMatchesRuntime'
      BY SMTT(30), <1>6, <2>1 DEF Call, Via
    <2>3. \A u \in Threads \ {t} : CallOK(u)' /\ CreateOK(u)'
      BY <1>6 DEF Call
    <2>4. CreateOK(t)'
      BY <1>6 DEF Call
    <2>5. CASE task[t].op = "fork"
      <3>1. CallOK(t)'
        BY <1>6, <2>1, <2>5 DEF Call, From, Via
      <3> HIDE DEF CallOK, CreateOK, RecordMatchesRuntime, Matches, Base, TypeOK, Mutex, LocalsOK, DownIdle, KillOnly, Task, WithCopy, CreatePlaces
      <3> QED
        BY <1>6, <2>2, <2>3, <2>4, <3>1 DEF Call
    <2>6. CASE task[t].op # "fork"
      <3>1. Matches(task[t].tgt, To(task[t].op))'
        BY <1>6, <2>1, <2>6 DEF Call, From, To
      <3>2. CallOK(t)'
        BY SMTT(30), <1>6, <2>1, <2>6, <3>1 DEF Call
      <3> HIDE DEF CallOK, CreateOK, RecordMatchesRuntime, Matches, Base, TypeOK, Mutex, LocalsOK, DownIdle, KillOnly, Task, WithCopy, CreatePlaces
      <3> QED
        BY <1>6, <2>2, <2>3, <2>4, <3>2 DEF Call
    <2> QED
      BY <2>5, <2>6
  <1>7. ASSUME NEW t \in Threads, CallFails(t) PROVE Truth'
    BY <1>7 DEF CallFails
  <1>8. ASSUME NEW t \in Threads, Settle(t) PROVE Truth'
    <2> DEFINE r == [task[t].copy EXCEPT !.state = To(task[t].op)]
    <2>1. task[t].tgt \in Sandboxes /\ task[t].copy \in Record
      BY <1>8 DEF Settle
    <2>2. r \in Record /\ r.state = To(task[t].op)
      <3>1. To(task[t].op) \in States
        BY DEF To, States
      <3> QED
        BY <2>1, <3>1, StateUpdate, CopyState
    <2>3. Matches(task[t].tgt, r.state)
      BY <1>8, <2>2 DEF Settle
    <2>4. record' = [record EXCEPT ![task[t].tgt] = r] /\ UNCHANGED <<workspace, instance>>
      BY <1>8 DEF Settle, PutCopy, Put
    <2> HIDE DEF r
    <2>5. RecordMatchesRuntime'
      BY <2>1, <2>2, <2>3, <2>4, PutTruth
    <2>6. \A k \in Sandboxes : record'[k] # NoRecord => k \in born
      BY <2>1, <2>4, <1>8 DEF Settle
    <2>7. \A u \in Threads : pc'[u] \notin Inside
      BY SMTT(30), <1>8 DEF Settle, Return
    <2> QED
      BY <1>8, <2>5, <2>6, <2>7 DEF Settle
  <1>9. ASSUME NEW t \in Threads, Undo(t) PROVE Truth'
    <2> DEFINE r == [task[t].copy EXCEPT !.state = task[t].copy.state]
    <2>1. task[t].tgt \in Sandboxes /\ task[t].copy \in Record
      BY <1>9 DEF Undo
    <2>2. r \in Record /\ r.state = task[t].copy.state
      BY <2>1, StateUpdate, CopyState DEF Record
    <2>3. Matches(task[t].tgt, r.state)
      BY <1>9, <2>2 DEF Undo
    <2>4. record' = [record EXCEPT ![task[t].tgt] = r] /\ UNCHANGED <<workspace, instance>>
      BY <1>9 DEF Undo, PutCopy, Put
    <2> HIDE DEF r
    <2>5. RecordMatchesRuntime'
      BY <2>1, <2>2, <2>3, <2>4, PutTruth
    <2>6. \A k \in Sandboxes : record'[k] # NoRecord => k \in born
      BY <2>1, <2>4, <1>9 DEF Undo
    <2>7. \A u \in Threads : pc'[u] \notin Inside
      BY SMTT(30), <1>9 DEF Undo, Raise
    <2> QED
      BY <1>9, <2>5, <2>6, <2>7 DEF Undo
  <1>10. ASSUME NEW t \in Threads, ForkDone(t) PROVE Truth'
    BY <1>10 DEF ForkDone, To
  <1>11. ASSUME NEW t \in Threads, BeginCopy(t) PROVE Truth'
    <2>1. /\ pc[t] \in {"preparing", "copying", "starting"}
          /\ UNCHANGED <<up, record, born, task>>
          /\ \A k \in Sandboxes \ {task[t].kid} :
                 workspace'[k] = workspace[k] /\ instance'[k] = instance[k]
      BY <1>11 DEF BeginCopy
    <2>2. \E w \in CreatePlaces : pc' = [pc EXCEPT ![t] = w]
      BY <1>11 DEF BeginCopy
    <2>3. CreateOK(t)'
      BY <1>11 DEF BeginCopy
    <2> HIDE DEF CallOK, CreateOK, RecordMatchesRuntime, Matches, Base, TypeOK, Mutex, LocalsOK, DownIdle, KillOnly, Task, WithCopy, CreatePlaces, Truth
    <2> QED
      BY <2>1, <2>2, <2>3, NewbornTruth
  <1>12. ASSUME NEW t \in Threads, EndCopy(t) PROVE Truth'
    <2>1. /\ pc[t] \in {"preparing", "copying", "starting"}
          /\ UNCHANGED <<up, record, born, task>>
          /\ \A k \in Sandboxes \ {task[t].kid} :
                 workspace'[k] = workspace[k] /\ instance'[k] = instance[k]
      BY <1>12 DEF EndCopy
    <2>2. \E w \in CreatePlaces : pc' = [pc EXCEPT ![t] = w]
      BY <1>12 DEF EndCopy
    <2>3. CreateOK(t)'
      BY <1>12 DEF EndCopy
    <2> HIDE DEF CallOK, CreateOK, RecordMatchesRuntime, Matches, Base, TypeOK, Mutex, LocalsOK, DownIdle, KillOnly, Task, WithCopy, CreatePlaces, Truth
    <2> QED
      BY <2>1, <2>2, <2>3, NewbornTruth
  <1>13. ASSUME NEW t \in Threads, CopyFails(t) PROVE Truth'
    <2>1. /\ pc[t] \in {"preparing", "copying", "starting"}
          /\ UNCHANGED <<up, record, born, task>>
          /\ \A k \in Sandboxes \ {task[t].kid} :
                 workspace'[k] = workspace[k] /\ instance'[k] = instance[k]
      BY <1>13 DEF CopyFails
    <2>2. \E w \in CreatePlaces : pc' = [pc EXCEPT ![t] = w]
      BY <1>13 DEF CopyFails
    <2>3. CreateOK(t)'
      BY <1>13 DEF CopyFails
    <2> HIDE DEF CallOK, CreateOK, RecordMatchesRuntime, Matches, Base, TypeOK, Mutex, LocalsOK, DownIdle, KillOnly, Task, WithCopy, CreatePlaces, Truth
    <2> QED
      BY <2>1, <2>2, <2>3, NewbornTruth
  <1>14. ASSUME NEW t \in Threads, StartInstance(t) PROVE Truth'
    <2>1. /\ pc[t] \in {"preparing", "copying", "starting"}
          /\ UNCHANGED <<up, record, born, task>>
          /\ \A k \in Sandboxes \ {task[t].kid} :
                 workspace'[k] = workspace[k] /\ instance'[k] = instance[k]
      BY <1>14 DEF StartInstance
    <2>2. \E w \in CreatePlaces : pc' = [pc EXCEPT ![t] = w]
      BY <1>14 DEF StartInstance
    <2>3. CreateOK(t)'
      BY <1>14 DEF StartInstance
    <2> HIDE DEF CallOK, CreateOK, RecordMatchesRuntime, Matches, Base, TypeOK, Mutex, LocalsOK, DownIdle, KillOnly, Task, WithCopy, CreatePlaces, Truth
    <2> QED
      BY <2>1, <2>2, <2>3, NewbornTruth
  <1>15. ASSUME NEW t \in Threads, StartFails(t) PROVE Truth'
    <2>1. /\ pc[t] \in {"preparing", "copying", "starting"}
          /\ UNCHANGED <<up, record, born, task>>
          /\ \A k \in Sandboxes \ {task[t].kid} :
                 workspace'[k] = workspace[k] /\ instance'[k] = instance[k]
      BY <1>15 DEF StartFails
    <2>2. \E w \in CreatePlaces : pc' = [pc EXCEPT ![t] = w]
      BY <1>15 DEF StartFails
    <2>3. CreateOK(t)'
      BY <1>15 DEF StartFails
    <2> HIDE DEF CallOK, CreateOK, RecordMatchesRuntime, Matches, Base, TypeOK, Mutex, LocalsOK, DownIdle, KillOnly, Task, WithCopy, CreatePlaces, Truth
    <2> QED
      BY <2>1, <2>2, <2>3, NewbornTruth
  <1>16. ASSUME NEW t \in Threads, Publish(t) PROVE Truth'
    <2>1. task[t].kid \in Sandboxes /\ record[task[t].kid] \in Record
      BY <1>16 DEF Publish
    <2> DEFINE r == [record[task[t].kid] EXCEPT !.state = "running"]
    <2>2. r \in Record /\ r.state = "running"
      <3>1. "running" \in States
        BY DEF States
      <3> QED
        BY <2>1, <3>1, StateUpdate, CopyState
    <2>3. Matches(task[t].kid, r.state)
      BY <1>16, <2>2 DEF Publish
    <2>4. record' = [record EXCEPT ![task[t].kid] = r] /\ UNCHANGED <<workspace, instance, born, up>>
      BY <1>16 DEF Publish, Put
    <2> HIDE DEF r
    <2>5. RecordMatchesRuntime'
      BY <2>1, <2>2, <2>3, <2>4, PutTruth
    <2>6. \A k \in Sandboxes : record'[k] # NoRecord => k \in born
      BY <2>1, <2>4
    <2>7. CASE task[t].op = "fork"
      <3>1. \A k \in Sandboxes \ {task[t].kid} : record'[k] = record[k]
        BY SMTT(30), <2>4
      <3>2. CallOK(t)' /\ CreateOK(t)'
        BY SMTT(30), <1>16, <2>4, <2>7, <3>1 DEF Publish
      <3>3. \A u \in Threads \ {t} : CallOK(u)' /\ CreateOK(u)'
        BY SMTT(30), <1>16, <2>7 DEF Publish
      <3> HIDE DEF CallOK, CreateOK, RecordMatchesRuntime, Matches, Base, TypeOK, Mutex, LocalsOK, DownIdle, KillOnly, Task, WithCopy, CreatePlaces
      <3> QED
        BY <2>4, <2>5, <2>6, <3>2, <3>3
    <2>8. CASE task[t].op # "fork"
      <3>1. \A u \in Threads : pc'[u] \notin Inside
        BY SMTT(30), <1>16, <2>8 DEF Publish, Return
      <3> QED
        BY <2>4, <2>5, <2>6, <3>1
    <2> QED
      BY <2>7, <2>8
  <1>17. ASSUME NEW t \in Threads, Abort(t) PROVE Truth'
    BY <1>17 DEF Abort, Put, Raise, NoTask
  <1>18. ASSUME NEW t \in Threads, BeginDelete(t) PROVE Truth'
    <2> DEFINE r == [task[t].copy EXCEPT !.state = "killing"]
    <2>1. task[t].tgt \in Sandboxes /\ task[t].copy \in Record
      BY <1>18 DEF BeginDelete
    <2>2. r \in Record /\ r.state = "killing"
      <3>1. "killing" \in States
        BY DEF States, Transitional
      <3> QED
        BY <2>1, <3>1, StateUpdate, CopyState
    <2>3. Matches(task[t].tgt, r.state)
      BY <1>18, <2>2, Unclaimed
    <2>4. record' = [record EXCEPT ![task[t].tgt] = r] /\ UNCHANGED <<workspace, instance>>
      BY <1>18 DEF BeginDelete, PutCopy, Put
    <2> HIDE DEF r
    <2>5. RecordMatchesRuntime'
      BY <2>1, <2>2, <2>3, <2>4, PutTruth
    <2>6. \A k \in Sandboxes : record'[k] # NoRecord => k \in born
      BY <2>1, <2>4, <1>18 DEF BeginDelete
    <2>7. record'[task[t].tgt] = r /\ task[t].tgt \in born
      BY <1>18, <2>1, <2>4 DEF BeginDelete
    <2>8. CallOK(t)' /\ CreateOK(t)'
      BY <1>18, <2>1, <2>2, <2>3, <2>7 DEF BeginDelete
    <2>9. \A u \in Threads \ {t} : CallOK(u)' /\ CreateOK(u)'
      BY SMTT(30), <1>18 DEF BeginDelete
    <2> HIDE DEF CallOK, CreateOK, RecordMatchesRuntime, Matches, Base, TypeOK, Mutex, LocalsOK, DownIdle, KillOnly, Task, WithCopy, CreatePlaces
    <2> QED
      BY <1>18, <2>5, <2>6, <2>8, <2>9 DEF BeginDelete
  <1>19. ASSUME NEW t \in Threads, DestroyInstance(t) PROVE Truth'
    <2> DEFINE w == IF HasWorkspace THEN "wiping" ELSE "dropping"
    <2>1. /\ pc[t] \in {"destroying", "wiping"} /\ w \in {"wiping", "dropping"}
          /\ pc' = [pc EXCEPT ![t] = w] /\ UNCHANGED <<up, record, born, task>>
      BY <1>19 DEF DestroyInstance
    <2>2. \A k \in Sandboxes \ {task[t].tgt} :
             workspace'[k] = workspace[k] /\ instance'[k] = instance[k]
      BY <1>19 DEF DestroyInstance
    <2> HIDE DEF w, CallOK, CreateOK, RecordMatchesRuntime, Matches, Base, TypeOK, Mutex, LocalsOK, DownIdle, KillOnly, Task, WithCopy, CreatePlaces, Truth
    <2> QED
      BY <2>1, <2>2, DyingTruth
  <1>20. ASSUME NEW t \in Threads, DestroyFails(t) PROVE Truth'
    <2>1. CASE pc' = [pc EXCEPT ![t] = "wiping"]
      <3>1. /\ pc[t] = "destroying" /\ UNCHANGED <<up, record, born, task, workspace, instance>>
        BY <1>20 DEF DestroyFails
      <3> HIDE DEF CallOK, CreateOK, RecordMatchesRuntime, Matches, Base, TypeOK, Mutex, LocalsOK, DownIdle, KillOnly, Task, WithCopy, CreatePlaces, Truth
      <3> QED
        BY <2>1, <3>1, DyingTruth
    <2>2. CASE pc' = [pc EXCEPT ![t] = "undo"]
      BY SMTT(30), <1>20, <2>2 DEF DestroyFails
    <2> QED
      BY <1>20, <2>1, <2>2 DEF DestroyFails
  <1>21. ASSUME NEW t \in Threads, WipeWorkspace(t) PROVE Truth'
    <2> DEFINE w == "dropping"
    <2>1. /\ pc[t] \in {"destroying", "wiping"} /\ w \in {"wiping", "dropping"}
          /\ pc' = [pc EXCEPT ![t] = w] /\ UNCHANGED <<up, record, born, task>>
      BY <1>21 DEF WipeWorkspace
    <2>2. \A k \in Sandboxes \ {task[t].tgt} :
             workspace'[k] = workspace[k] /\ instance'[k] = instance[k]
      BY <1>21 DEF WipeWorkspace
    <2> HIDE DEF w, CallOK, CreateOK, RecordMatchesRuntime, Matches, Base, TypeOK, Mutex, LocalsOK, DownIdle, KillOnly, Task, WithCopy, CreatePlaces, Truth
    <2> QED
      BY <2>1, <2>2, DyingTruth
  <1>22. ASSUME NEW t \in Threads, WipeFails(t) PROVE Truth'
    <2>1. "rmtree" \notin Faults
      OBVIOUS
    <2> QED
      BY <1>22, <2>1 DEF WipeFails
  <1>23. ASSUME NEW t \in Threads, DropRecord(t) PROVE Truth'
    <2>1. \A u \in Threads : pc'[u] \notin Inside
      BY <1>23 DEF DropRecord, Return
    <2>2. RecordMatchesRuntime'
      BY SMTT(30), <1>23 DEF DropRecord, Put
    <2> QED
      BY <1>23, <2>1, <2>2 DEF DropRecord, Put
  <1>24. ASSUME NEW t \in Threads, PutTimeout(t) PROVE Truth'
    <2> DEFINE r == [task[t].copy EXCEPT !.ttl = (task[t].op = "arm")]
    <2>1. task[t].tgt \in Sandboxes /\ task[t].copy \in Record
      BY <1>24 DEF PutTimeout
    <2>2. r \in Record /\ r.state = task[t].copy.state
      BY <2>1 DEF Record
    <2>3. Matches(task[t].tgt, r.state)
      BY <1>24, <2>2 DEF PutTimeout
    <2>4. record' = [record EXCEPT ![task[t].tgt] = r] /\ UNCHANGED <<workspace, instance>>
      BY <1>24 DEF PutTimeout, PutCopy, Put
    <2> HIDE DEF r
    <2>5. RecordMatchesRuntime'
      BY <2>1, <2>2, <2>3, <2>4, PutTruth
    <2>6. \A k \in Sandboxes : record'[k] # NoRecord => k \in born
      BY <2>1, <2>4, <1>24 DEF PutTimeout
    <2>7. \A u \in Threads : pc'[u] \notin Inside
      BY <1>24 DEF PutTimeout, Return
    <2> QED
      BY <1>24, <2>5, <2>6, <2>7 DEF PutTimeout
  <1>25. ASSUME NEW t \in Threads, Rearm(t) PROVE Truth'
    <2>1. task[t].tgt \in Sandboxes /\ record[task[t].tgt] # NoRecord
      BY <1>25 DEF Rearm
    <2>2. Matches(task[t].tgt, record[task[t].tgt].state) /\ task[t].tgt \in born
      BY SMTT(30), <2>1
    <2>3. CallOK(t)' /\ CreateOK(t)'
      BY <1>25, <2>1, <2>2 DEF Rearm, Enter
    <2>4. \A u \in Threads \ {t} : CallOK(u)' /\ CreateOK(u)'
      BY <1>25 DEF Rearm, Enter
    <2>5. RecordMatchesRuntime'
      BY <1>25 DEF Rearm, Enter
    <2>6. \A k \in Sandboxes : record'[k] # NoRecord => k \in born'
      BY <1>25 DEF Rearm, Enter
    <2> HIDE DEF CallOK, CreateOK, RecordMatchesRuntime, Matches, Base, TypeOK, Mutex, LocalsOK, DownIdle, KillOnly, Task, WithCopy, CreatePlaces
    <2> QED
      BY <1>25, <2>3, <2>4, <2>5, <2>6 DEF Rearm, Enter
  <1>26. ASSUME NEW t \in Threads, RearmMisses(t) PROVE Truth'
    <2>1. CallOK(t)' /\ CreateOK(t)'
      BY <1>26 DEF RearmMisses, NoTask
    <2>2. \A u \in Threads \ {t} : CallOK(u)' /\ CreateOK(u)'
      BY <1>26 DEF RearmMisses
    <2>3. RecordMatchesRuntime' /\ UNCHANGED <<up, record, born>>
      BY <1>26 DEF RearmMisses
    <2> HIDE DEF CallOK, CreateOK, RecordMatchesRuntime, Matches, Base, TypeOK, Mutex, LocalsOK, DownIdle, KillOnly, Task, WithCopy, CreatePlaces
    <2> QED
      BY <2>1, <2>2, <2>3
  <1>27. ASSUME NEW t \in Threads, NEW s \in Sandboxes, Spawn(t, s) PROVE Truth'
    <2>1. s # task[t].tgt /\ task[t].tgt \in Sandboxes
      BY <1>27 DEF Spawn
    <2>2. record' = [record EXCEPT ![s] = [state |-> "creating", ttl |-> FALSE,
                                           onTimeout |-> task[t].copy.onTimeout]]
      BY <1>27 DEF Spawn, Put
    <2>3. /\ record'[s] # NoRecord /\ record'[s].state = "creating"
          /\ \A k \in Sandboxes \ {s} : record'[k] = record[k]
      <3>1. [state |-> "creating", ttl |-> FALSE, onTimeout |-> task[t].copy.onTimeout] \in Record
        BY <1>27 DEF Spawn, Record, States, Transitional
      <3>2. s \in Sandboxes /\ record \in [Sandboxes -> Record \cup {NoRecord}]
        OBVIOUS
      <3> DEFINE r == [state |-> "creating", ttl |-> FALSE, onTimeout |-> task[t].copy.onTimeout]
      <3>3. r \in Record
        BY <3>1
      <3>5. r.state = "creating"
        OBVIOUS
      <3>4. record' = [record EXCEPT ![s] = r]
        BY <2>2
      <3> HIDE DEF r
      <3> QED
        BY <3>2, <3>3, <3>4, <3>5
    <2>4. RecordMatchesRuntime'
      BY <1>27, <2>3 DEF Spawn
    <2>5. \A k \in Sandboxes : record'[k] # NoRecord => k \in born'
      BY SMTT(30), <1>27, <2>3 DEF Spawn
    <2>6. CallOK(t)' /\ CreateOK(t)'
      BY SMTT(30), <1>27, <2>1, <2>3 DEF Spawn
    <2>7. \A u \in Threads \ {t} : CallOK(u)' /\ CreateOK(u)'
      BY <1>27 DEF Spawn
    <2> HIDE DEF CallOK, CreateOK, RecordMatchesRuntime, Matches, Base, TypeOK, Mutex, LocalsOK, DownIdle, KillOnly, Task, WithCopy, CreatePlaces
    <2> QED
      BY <1>27, <2>4, <2>5, <2>6, <2>7 DEF Spawn
  <1>28. ASSUME NEW D \in SUBSET Sandboxes, List(D) PROVE Truth'
    BY <1>28 DEF List
  <1>29. ASSUME NEW s \in Sandboxes, Evict(s) PROVE Truth'
    <2>1. record[s] # NoRecord /\ up
      BY <1>29 DEF Evict
    <2>2. Matches(s, record[s].state) /\ s \in born
      BY <2>1
    <2>3. CallOK(Maint)' /\ CreateOK(Maint)'
      BY SMTT(30), <1>29, <2>1, <2>2 DEF Evict, Enter
    <2>4. \A u \in Threads \ {Maint} : CallOK(u)' /\ CreateOK(u)'
      BY <1>29 DEF Evict, Enter
    <2>5. RecordMatchesRuntime'
      BY <1>29 DEF Evict, Enter
    <2>6. \A k \in Sandboxes : record'[k] # NoRecord => k \in born'
      BY <1>29 DEF Evict, Enter
    <2> HIDE DEF CallOK, CreateOK, RecordMatchesRuntime, Matches, Base, TypeOK, Mutex, LocalsOK, DownIdle, KillOnly, Task, WithCopy, CreatePlaces
    <2> QED
      BY <1>29, <2>1, <2>3, <2>4, <2>5, <2>6 DEF Evict, Enter
  <1>30. ASSUME NEW s \in Sandboxes, EvictMisses(s) PROVE Truth'
    <2> HIDE DEF Base, KillOnly
    <2> QED
      BY <1>30 DEF EvictMisses
  <1>31. ASSUME Reread PROVE Truth'
    <2> HIDE DEF Base, Truth
    <2> QED
      BY <1>31 DEF Reread
  <1>32. ASSUME RereadMisses PROVE Truth'
    <2> HIDE DEF Base, Truth
    <2> QED
      BY <1>32 DEF RereadMisses
  <1>33. ASSUME WriteBack PROVE Truth'
    <2> HIDE DEF Base, Truth
    <2> QED
      BY <1>33 DEF WriteBack
  <1>34. ASSUME Crash PROVE Truth'
    <2> HIDE DEF Base, Truth
    <2> QED
      BY <1>34 DEF Crash
  <1>35. ASSUME NEW s \in Sandboxes, RecoverKeep(s) PROVE Truth'
    <2>1. up
      OBVIOUS
    <2> HIDE DEF Base, Truth
    <2> QED
      BY <1>35, <2>1 DEF RecoverKeep, Recoverable
  <1>36. ASSUME NEW s \in Sandboxes, RecoverDestroy(s) PROVE Truth'
    <2>1. up
      OBVIOUS
    <2> HIDE DEF Base, Truth
    <2> QED
      BY <1>36, <2>1 DEF RecoverDestroy, Recoverable
  <1>37. ASSUME NEW s \in Sandboxes, RecoverForget(s) PROVE Truth'
    <2>1. up
      OBVIOUS
    <2> HIDE DEF Base, Truth
    <2> QED
      BY <1>37, <2>1 DEF RecoverForget, Recoverable
  <1>38. ASSUME Serve PROVE Truth'
    <2>1. up
      OBVIOUS
    <2> HIDE DEF Base, Truth
    <2> QED
      BY <1>38, <2>1 DEF Serve
  <1>40. ASSUME NEW s \in Sandboxes, RecoverStops(s) PROVE Truth'
    <2>1. up
      OBVIOUS
    <2> HIDE DEF Base, Truth
    <2> QED
      BY <1>40, <2>1 DEF RecoverStops, Recoverable
  <1> HIDE DEF Truth, RecordMatchesRuntime, Matches, CallOK, CreateOK, KillOnly, Base, TypeOK, Mutex, LocalsOK, DownIdle, Goto, Inside, Outside, WithCopy, CreatePlaces, Task, Threads, Transitions, HasInstance, HasWorkspace
  <1> QED
    BY <1>1, <1>2, <1>3, <1>4, <1>5, <1>6, <1>7, <1>8, <1>9, <1>10, <1>11, <1>12, <1>13, <1>14, <1>15, <1>16, <1>17, <1>18, <1>19, <1>20, <1>21, <1>22, <1>23, <1>24, <1>25, <1>26, <1>27, <1>28, <1>29, <1>30, <1>31, <1>32, <1>33, <1>34, <1>35, <1>36, <1>37, <1>38, <1>40, <1>0
       DEF Next, Begin, Proceed, Maintain, Recover, Quiet

\* Without crashes, and as long as workspaces can be removed, what the store
\* says of a settled sandbox is what the backend has, on every backend and
\* whichever of its other calls fail.
THEOREM RecordsAreTrue ==
    ASSUME TimeoutActions = {"kill"}, Faults \cap {"rmtree", "crash"} = {}
    PROVE  Spec => []RecordMatchesRuntime
  <1>1. Init => Held
    BY ConstantsAssumption DEF Init, Held, TransientHeld, Interrupted, SettledCopies,
       KillOnly, WithCopy, Inside, Threads, NoTask
  <1>2. Base /\ Base' /\ Held /\ [Next]_vars => Held'
    BY HeldStep
  <1>3. Init => Truth
    BY ConstantsAssumption DEF Init, Truth, RecordMatchesRuntime, CallOK, CreateOK,
       WithCopy, CreatePlaces, NoTask
  <1>4. Base /\ Base' /\ Held /\ Truth /\ [Next]_vars => Truth'
    BY TruthStep
  <1> QED
    BY <1>1, <1>2, <1>3, <1>4, BaseInvariant, PTL DEF Spec, Truth

=============================================================================
