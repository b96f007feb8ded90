----------------------- MODULE LifecycleServiceProofs -----------------------
(***************************************************************************)
(* Proofs that the orchestrator leaks nothing, and that its lifecycle      *)
(* implements SandboxService.                                              *)
(***************************************************************************)
EXTENDS LifecycleProofs

-----------------------------------------------------------------------------
(* Puts, seen one record at a time.                                          *)

\* A put of a copy with another state changes that record alone, and keeps the
\* rest of the copy.
LEMMA CopyPut ==
    ASSUME TypeOK, NEW t, task[t].tgt \in Sandboxes, task[t].copy \in Record,
           NEW x \in States, PutCopy(t, x)
    PROVE  /\ record'[task[t].tgt] \in Record /\ record'[task[t].tgt] # NoRecord
           /\ record'[task[t].tgt].state = x
           /\ record'[task[t].tgt].ttl = task[t].copy.ttl
           /\ \A k \in Sandboxes : k # task[t].tgt => record'[k] = record[k]
  <1> DEFINE r == [task[t].copy EXCEPT !.state = x]
  <1>1. r \in Record /\ r.state = x /\ r.ttl = task[t].copy.ttl
    BY DEF Record
  <1>2. record' = [record EXCEPT ![task[t].tgt] = r]
    BY DEF PutCopy, Put
  <1> HIDE DEF r
  <1> QED
    BY <1>1, <1>2, ConstantsAssumption DEF TypeOK

\* So does a put of a record with another state or TTL.
LEMMA RecordPut ==
    ASSUME TypeOK, NEW s \in Sandboxes, NEW r \in Record, Put(s, r)
    PROVE  /\ record'[s] = r /\ r # NoRecord
           /\ \A k \in Sandboxes : k # s => record'[k] = record[k]
  BY ConstantsAssumption DEF TypeOK, Put

\* The states an operation puts.
LEMMA StatesPut ==
    ASSUME NEW o
    PROVE  Via(o) \in States /\ To(o) \in States /\ "killing" \in States /\ "running" \in States
  BY DEF Via, To, States, Transitional

-----------------------------------------------------------------------------
(* Ids that have been handed out.                                             *)

\* Records, and the sandboxes operations and the eviction loop hold on to, are
\* of ids that have been handed out.
Known ==
    /\ \A s \in Sandboxes : record[s] # NoRecord => s \in born
    /\ \A t \in Threads : task[t].tgt # NoSandbox => task[t].tgt \in born

\* Every step keeps Known.
LEMMA KnownStep ==
    ASSUME Base, Known, [Next]_vars
    PROVE  Known'
  <1>0. CASE UNCHANGED vars
    BY <1>0 DEF vars, Known
  <1> USE ConstantsAssumption
         DEF Known, Base, TypeOK, Mutex, LocalsOK, DownIdle, Goto, Inside, Outside,
             WithCopy, CreatePlaces, Task, Threads
  <1>1. ASSUME NEW t \in Threads, NEW o \in RequestNames, NEW s \in Sandboxes, Request(t, o, s) PROVE Known'
    BY <1>1 DEF Request, Enter
  <1>2. ASSUME NEW t \in Threads, NEW s \in Sandboxes, NEW d \in BOOLEAN, NEW a \in TimeoutActions, Create(t, s, d, a) PROVE Known'
    BY <1>2 DEF Create, Put, NoTask
  <1>3. ASSUME NEW t \in Threads, AlreadyThere(t) PROVE Known'
    BY <1>3 DEF AlreadyThere, Return, NoTask
  <1>4. ASSUME NEW t \in Threads, Refuse(t) PROVE Known'
    BY <1>4 DEF Refuse, Raise, NoTask
  <1>5. ASSUME NEW t \in Threads, BeginTransition(t) PROVE Known'
    <2>1. task[t].tgt \in Sandboxes /\ task[t].copy \in Record
      BY <1>5 DEF BeginTransition
    <2>2. Via(task[t].op) \in States
      BY <2>1, StatesPut DEF Record
    <2>3. /\ record'[task[t].tgt] # NoRecord
          /\ \A k \in Sandboxes : k # task[t].tgt => record'[k] = record[k]
      BY <1>5, <2>1, <2>2, CopyPut DEF BeginTransition
    <2> QED
      BY <1>5, <2>1, <2>3 DEF BeginTransition
  <1>6. ASSUME NEW t \in Threads, Call(t) PROVE Known'
    BY <1>6 DEF Call, CallWorks
  <1>7. ASSUME NEW t \in Threads, CallFails(t) PROVE Known'
    BY <1>7 DEF CallFails
  <1>8. ASSUME NEW t \in Threads, Settle(t) PROVE Known'
    <2>1. task[t].tgt \in Sandboxes /\ task[t].copy \in Record
      BY <1>8 DEF Settle
    <2>2. To(task[t].op) \in States
      BY <2>1, StatesPut DEF Record
    <2>3. /\ record'[task[t].tgt] # NoRecord
          /\ \A k \in Sandboxes : k # task[t].tgt => record'[k] = record[k]
      BY <1>8, <2>1, <2>2, CopyPut DEF Settle
    <2> QED
      BY <1>8, <2>1, <2>3 DEF Settle, Return, NoTask
  <1>9. ASSUME NEW t \in Threads, Undo(t) PROVE Known'
    <2>1. task[t].tgt \in Sandboxes /\ task[t].copy \in Record
      BY <1>9 DEF Undo
    <2>2. task[t].copy.state \in States
      BY <2>1, StatesPut DEF Record
    <2>3. /\ record'[task[t].tgt] # NoRecord
          /\ \A k \in Sandboxes : k # task[t].tgt => record'[k] = record[k]
      BY <1>9, <2>1, <2>2, CopyPut DEF Undo
    <2> QED
      BY <1>9, <2>1, <2>3 DEF Undo, Raise, NoTask
  <1>10. ASSUME NEW t \in Threads, ForkDone(t) PROVE Known'
    BY <1>10 DEF ForkDone
  <1>11. ASSUME NEW t \in Threads, BeginCopy(t) PROVE Known'
    BY <1>11 DEF BeginCopy
  <1>12. ASSUME NEW t \in Threads, EndCopy(t) PROVE Known'
    BY <1>12 DEF EndCopy
  <1>13. ASSUME NEW t \in Threads, CopyFails(t) PROVE Known'
    BY <1>13 DEF CopyFails
  <1>14. ASSUME NEW t \in Threads, StartInstance(t) PROVE Known'
    BY <1>14 DEF StartInstance
  <1>15. ASSUME NEW t \in Threads, StartFails(t) PROVE Known'
    BY <1>15 DEF StartFails, StrayFault
  <1>16. ASSUME NEW t \in Threads, Publish(t) PROVE Known'
    <2>1. task[t].kid \in Sandboxes /\ record[task[t].kid] \in Record
      BY <1>16 DEF Publish
    <2>2. [record[task[t].kid] EXCEPT !.state = "running"] \in Record
      BY <2>1, StateUpdate DEF States
    <2>3. /\ record'[task[t].kid] # NoRecord
          /\ \A k \in Sandboxes : k # task[t].kid => record'[k] = record[k]
      BY <1>16, <2>1, <2>2, RecordPut DEF Publish
    <2> QED
      BY <1>16, <2>1, <2>3 DEF Publish, Return, NoTask
  <1>17. ASSUME NEW t \in Threads, Abort(t) PROVE Known'
    BY <1>17 DEF Abort, Put, Raise, NoTask
  <1>18. ASSUME NEW t \in Threads, BeginDelete(t) PROVE Known'
    <2>1. task[t].tgt \in Sandboxes /\ task[t].copy \in Record
      BY <1>18 DEF BeginDelete
    <2>2. "killing" \in States
      BY <2>1, StatesPut DEF Record
    <2>3. /\ record'[task[t].tgt] # NoRecord
          /\ \A k \in Sandboxes : k # task[t].tgt => record'[k] = record[k]
      BY <1>18, <2>1, <2>2, CopyPut DEF BeginDelete
    <2> QED
      BY <1>18, <2>1, <2>3 DEF BeginDelete
  <1>19. ASSUME NEW t \in Threads, DestroyInstance(t) PROVE Known'
    BY <1>19 DEF DestroyInstance
  <1>20. ASSUME NEW t \in Threads, DestroyFails(t) PROVE Known'
    BY <1>20 DEF DestroyFails
  <1>21. ASSUME NEW t \in Threads, WipeWorkspace(t) PROVE Known'
    BY <1>21 DEF WipeWorkspace, Wiped
  <1>22. ASSUME NEW t \in Threads, WipeFails(t) PROVE Known'
    BY <1>22 DEF WipeFails, HasFiles
  <1>23. ASSUME NEW t \in Threads, DropRecord(t) PROVE Known'
    BY <1>23 DEF DropRecord, Put, Return, NoTask
  <1>24. ASSUME NEW t \in Threads, PutTimeout(t) PROVE Known'
    <2>1. task[t].tgt \in Sandboxes /\ task[t].copy \in Record
      BY <1>24 DEF PutTimeout
    <2>2. [task[t].copy EXCEPT !.ttl = (task[t].op = "arm")] \in Record
      BY <2>1, TtlUpdate
    <2>3. /\ record'[task[t].tgt] # NoRecord
          /\ \A k \in Sandboxes : k # task[t].tgt => record'[k] = record[k]
      BY <1>24, <2>1, <2>2, RecordPut DEF PutTimeout
    <2> QED
      BY <1>24, <2>1, <2>3 DEF PutTimeout, Return, NoTask
  <1>25. ASSUME NEW t \in Threads, Rearm(t) PROVE Known'
    BY <1>25 DEF Rearm, Enter
  <1>26. ASSUME NEW t \in Threads, RearmMisses(t) PROVE Known'
    BY <1>26 DEF RearmMisses, NoTask
  <1>27. ASSUME NEW t \in Threads, NEW s \in Sandboxes, Spawn(t, s) PROVE Known'
    BY <1>27 DEF Spawn, Put
  <1>28. ASSUME NEW D \in SUBSET Sandboxes, List(D) PROVE Known'
    BY <1>28 DEF List
  <1>29. ASSUME NEW s \in Sandboxes, Evict(s) PROVE Known'
    BY <1>29 DEF Evict, Enter
  <1>30. ASSUME NEW s \in Sandboxes, EvictMisses(s) PROVE Known'
    BY <1>30 DEF EvictMisses
  <1>31. ASSUME Reread PROVE Known'
    BY <1>31 DEF Reread
  <1>32. ASSUME RereadMisses PROVE Known'
    BY <1>32 DEF RereadMisses, NoTask
  <1>33. ASSUME WriteBack PROVE Known'
    <2>1. task[Maint].tgt \in Sandboxes /\ task[Maint].copy \in Record
      BY <1>33 DEF WriteBack
    <2>2. [task[Maint].copy EXCEPT !.ttl = FALSE] \in Record
      BY <2>1, TtlUpdate
    <2>3. /\ record'[task[Maint].tgt] # NoRecord
          /\ \A k \in Sandboxes : k # task[Maint].tgt => record'[k] = record[k]
      BY <1>33, <2>1, <2>2, RecordPut DEF WriteBack
    <2> QED
      BY <1>33, <2>1, <2>3 DEF WriteBack, NoTask
  <1>34. ASSUME Crash PROVE Known'
    BY <1>34 DEF Crash, NoTask
  <1>35. ASSUME NEW s \in Sandboxes, RecoverKeep(s) PROVE Known'
    <2>1. record[s] \in Record
      BY <1>35 DEF RecoverKeep, Recoverable, Interrupted
    <2>2. [record[s] EXCEPT !.state = "running"] \in Record
      BY <2>1, StateUpdate DEF States
    <2>3. /\ record'[s] # NoRecord
          /\ \A k \in Sandboxes : k # s => record'[k] = record[k]
      BY <1>35, <2>2, RecordPut DEF RecoverKeep
    <2> QED
      BY <1>35, <2>1, <2>3 DEF RecoverKeep
  <1>36. ASSUME NEW s \in Sandboxes, RecoverDestroy(s) PROVE Known'
    BY <1>36 DEF RecoverDestroy, Recoverable, Interrupted, Wiped
  <1>37. ASSUME NEW s \in Sandboxes, RecoverForget(s) PROVE Known'
    BY <1>37 DEF RecoverForget, Recoverable, Interrupted, Alive, Put
  <1>38. ASSUME Serve PROVE Known'
    BY <1>38 DEF Serve
  <1>39. ASSUME NEW s \in Sandboxes, RecoverStops(s) PROVE Known'
    BY <1>39 DEF RecoverStops, Recoverable, Interrupted, HasFiles
  <1> HIDE DEF Known, Base, TypeOK, Mutex, LocalsOK, DownIdle, Goto, Inside, Outside,
             WithCopy, CreatePlaces, Task, Threads
  <1> QED
    BY <1>1, <1>2, <1>3, <1>4, <1>5, <1>6, <1>7, <1>8, <1>9, <1>10, <1>11, <1>12, <1>13,
       <1>14, <1>15, <1>16, <1>17, <1>18, <1>19, <1>20, <1>21, <1>22, <1>23, <1>24,
       <1>25, <1>26, <1>27, <1>28, <1>29, <1>30, <1>31, <1>32, <1>33, <1>34, <1>35,
       <1>36, <1>37, <1>38, <1>39, <1>0
       DEF Next, Begin, Proceed, Maintain, Recover, Quiet

\* An id that is new has no record, and nobody is at work on it.
LEMMA KnownInvariant == Spec => []Known
  <1>1. Init => Known
    BY DEF Init, Known, NoTask
  <1> QED
    BY <1>1, KnownStep, BaseInvariant, PTL DEF Spec

-----------------------------------------------------------------------------
(* Nothing is left behind without a record.                                  *)

\* A backend keeps directories, instances, or both.
Kinds ==
    /\ ~HasWorkspace => \A s \in Sandboxes : workspace[s] = "none"
    /\ ~HasInstance => \A s \in Sandboxes : instance[s] = "none"
    /\ ~up => Backend # "docker"

\* A creation that is given up has nothing but what the failure left, a delete
\* has destroyed what its place says, and a call is made under a record.
Swept(t) ==
    /\ pc[t] \in {"preparing", "copying", "starting", "abort"} =>
          instance[task[t].kid] \notin {"up", "frozen"}
    /\ pc[t] \in {"preparing", "abort"} =>
          workspace[task[t].kid] \notin {"partial", "full"}
    /\ pc[t] \in {"calling", "destroying", "wiping"} => record[task[t].tgt] # NoRecord
    /\ pc[t] = "copying" => HasWorkspace
    /\ pc[t] = "starting" => HasInstance
    /\ pc[t] = "destroying" => HasInstance
    /\ pc[t] = "wiping" => HasWorkspace
    /\ pc[t] \in {"wiping", "dropping"} => instance[task[t].tgt] \notin {"up", "frozen"}
    /\ pc[t] = "dropping" => workspace[task[t].tgt] \notin {"partial", "full"}

Tracked == NoLeak /\ Kinds /\ \A t \in Threads : Swept(t)

\* Every step keeps Tracked: a record is dropped only after what it leads to is
\* destroyed, and the eviction loop's write-back can only add records.
LEMMA TrackedStep ==
    ASSUME Backend = "docker" => Faults \cap {"rm", "crash"} = {},
           Base, Known, Tracked, [Next]_vars
    PROVE  Tracked'
  <1>0. CASE UNCHANGED vars
    BY <1>0 DEF vars, Tracked, NoLeak, Kinds, Swept
  <1> USE ConstantsAssumption
         DEF Tracked, NoLeak, Kinds, Swept, Base, TypeOK, Mutex, LocalsOK, DownIdle,
             Goto, Inside, Outside, WithCopy, CreatePlaces, Task, Threads, HasInstance,
             HasWorkspace
  <1>1. ASSUME NEW t \in Threads, NEW o \in RequestNames, NEW s \in Sandboxes, Request(t, o, s) PROVE Tracked'
    BY <1>1 DEF Request, Enter
  <1>2. ASSUME NEW t \in Threads, NEW s \in Sandboxes, NEW d \in BOOLEAN, NEW a \in TimeoutActions, Create(t, s, d, a) PROVE Tracked'
    BY <1>2 DEF Create, Put, NoTask, Known
  <1>3. ASSUME NEW t \in Threads, AlreadyThere(t) PROVE Tracked'
    BY <1>3 DEF AlreadyThere, Return, NoTask
  <1>4. ASSUME NEW t \in Threads, Refuse(t) PROVE Tracked'
    BY <1>4 DEF Refuse, Raise, NoTask
  <1>5. ASSUME NEW t \in Threads, BeginTransition(t) PROVE Tracked'
    <2>1. task[t].tgt \in Sandboxes /\ task[t].copy \in Record
      BY <1>5 DEF BeginTransition
    <2>2. Via(task[t].op) \in States
      BY <2>1, StatesPut DEF Record
    <2>3. /\ record'[task[t].tgt] # NoRecord
          /\ \A k \in Sandboxes : k # task[t].tgt => record'[k] = record[k]
      BY <1>5, <2>1, <2>2, CopyPut DEF BeginTransition
    <2> QED
      BY <1>5, <2>1, <2>3 DEF BeginTransition
  <1>6. ASSUME NEW t \in Threads, Call(t) PROVE Tracked'
    <2>1. /\ task[t].tgt \in Sandboxes /\ record[task[t].tgt] # NoRecord
          /\ \A s \in Sandboxes : s # task[t].tgt => instance'[s] = instance[s]
      BY <1>6 DEF Call
    <2>4. ~HasInstance => instance' = instance
      BY <1>6 DEF Call
    <2>2. UNCHANGED <<up, record, born, workspace, task>>
      BY <1>6 DEF Call
    <2>3. \A u \in Threads : pc'[u] # pc[u] => pc'[u] \in {"spawn", "settle"}
      BY <1>6 DEF Call
    <2> QED
      BY <1>6, <2>1, <2>2, <2>3, <2>4 DEF Call
  <1>7. ASSUME NEW t \in Threads, CallFails(t) PROVE Tracked'
    BY <1>7 DEF CallFails
  <1>8. ASSUME NEW t \in Threads, Settle(t) PROVE Tracked'
    <2>1. task[t].tgt \in Sandboxes /\ task[t].copy \in Record
      BY <1>8 DEF Settle
    <2>2. To(task[t].op) \in States
      BY <2>1, StatesPut DEF Record
    <2>3. /\ record'[task[t].tgt] # NoRecord
          /\ \A k \in Sandboxes : k # task[t].tgt => record'[k] = record[k]
      BY <1>8, <2>1, <2>2, CopyPut DEF Settle
    <2> QED
      BY <1>8, <2>1, <2>3 DEF Settle, Return, NoTask
  <1>9. ASSUME NEW t \in Threads, Undo(t) PROVE Tracked'
    <2>1. task[t].tgt \in Sandboxes /\ task[t].copy \in Record
      BY <1>9 DEF Undo
    <2>2. task[t].copy.state \in States
      BY <2>1, StatesPut DEF Record
    <2>3. /\ record'[task[t].tgt] # NoRecord
          /\ \A k \in Sandboxes : k # task[t].tgt => record'[k] = record[k]
      BY <1>9, <2>1, <2>2, CopyPut DEF Undo
    <2> QED
      BY <1>9, <2>1, <2>3 DEF Undo, Raise, NoTask
  <1>10. ASSUME NEW t \in Threads, ForkDone(t) PROVE Tracked'
    BY <1>10 DEF ForkDone
  <1>11. ASSUME NEW t \in Threads, BeginCopy(t) PROVE Tracked'
    BY <1>11 DEF BeginCopy
  <1>12. ASSUME NEW t \in Threads, EndCopy(t) PROVE Tracked'
    BY <1>12 DEF EndCopy
  <1>13. ASSUME NEW t \in Threads, CopyFails(t) PROVE Tracked'
    BY <1>13 DEF CopyFails
  <1>14. ASSUME NEW t \in Threads, StartInstance(t) PROVE Tracked'
    BY <1>14 DEF StartInstance
  <1>15. ASSUME NEW t \in Threads, StartFails(t) PROVE Tracked'
    BY <1>15 DEF StartFails, StrayFault
  <1>16. ASSUME NEW t \in Threads, Publish(t) PROVE Tracked'
    <2>1. task[t].kid \in Sandboxes /\ record[task[t].kid] \in Record
      BY <1>16 DEF Publish
    <2>2. [record[task[t].kid] EXCEPT !.state = "running"] \in Record
      BY <2>1, StateUpdate DEF States
    <2>3. /\ record'[task[t].kid] # NoRecord
          /\ \A k \in Sandboxes : k # task[t].kid => record'[k] = record[k]
      BY <1>16, <2>1, <2>2, RecordPut DEF Publish
    <2> QED
      BY <1>16, <2>1, <2>3 DEF Publish, Return, NoTask
  <1>17. ASSUME NEW t \in Threads, Abort(t) PROVE Tracked'
    BY <1>17 DEF Abort, Put, Raise, NoTask
  <1>18. ASSUME NEW t \in Threads, BeginDelete(t) PROVE Tracked'
    <2>1. task[t].tgt \in Sandboxes /\ task[t].copy \in Record
      BY <1>18 DEF BeginDelete
    <2>2. "killing" \in States
      BY <2>1, StatesPut DEF Record
    <2>3. /\ record'[task[t].tgt] # NoRecord
          /\ \A k \in Sandboxes : k # task[t].tgt => record'[k] = record[k]
      BY <1>18, <2>1, <2>2, CopyPut DEF BeginDelete
    <2> QED
      BY <1>18, <2>1, <2>3 DEF BeginDelete
  <1>19. ASSUME NEW t \in Threads, DestroyInstance(t) PROVE Tracked'
    BY <1>19 DEF DestroyInstance
  <1>20. ASSUME NEW t \in Threads, DestroyFails(t) PROVE Tracked'
    BY <1>20 DEF DestroyFails
  <1>21. ASSUME NEW t \in Threads, WipeWorkspace(t) PROVE Tracked'
    BY <1>21 DEF WipeWorkspace, Wiped
  <1>22. ASSUME NEW t \in Threads, WipeFails(t) PROVE Tracked'
    BY <1>22 DEF WipeFails, HasFiles
  <1>23. ASSUME NEW t \in Threads, DropRecord(t) PROVE Tracked'
    BY <1>23 DEF DropRecord, Put, Return, NoTask
  <1>24. ASSUME NEW t \in Threads, PutTimeout(t) PROVE Tracked'
    <2>1. task[t].tgt \in Sandboxes /\ task[t].copy \in Record
      BY <1>24 DEF PutTimeout
    <2>2. [task[t].copy EXCEPT !.ttl = (task[t].op = "arm")] \in Record
      BY <2>1, TtlUpdate
    <2>3. /\ record'[task[t].tgt] # NoRecord
          /\ \A k \in Sandboxes : k # task[t].tgt => record'[k] = record[k]
      BY <1>24, <2>1, <2>2, RecordPut DEF PutTimeout
    <2> QED
      BY <1>24, <2>1, <2>3 DEF PutTimeout, Return, NoTask
  <1>25. ASSUME NEW t \in Threads, Rearm(t) PROVE Tracked'
    BY <1>25 DEF Rearm, Enter
  <1>26. ASSUME NEW t \in Threads, RearmMisses(t) PROVE Tracked'
    BY <1>26 DEF RearmMisses, NoTask
  <1>27. ASSUME NEW t \in Threads, NEW s \in Sandboxes, Spawn(t, s) PROVE Tracked'
    BY <1>27 DEF Spawn, Put, Known
  <1>28. ASSUME NEW D \in SUBSET Sandboxes, List(D) PROVE Tracked'
    BY <1>28 DEF List
  <1>29. ASSUME NEW s \in Sandboxes, Evict(s) PROVE Tracked'
    BY <1>29 DEF Evict, Enter
  <1>30. ASSUME NEW s \in Sandboxes, EvictMisses(s) PROVE Tracked'
    BY <1>30 DEF EvictMisses
  <1>31. ASSUME Reread PROVE Tracked'
    BY <1>31 DEF Reread
  <1>32. ASSUME RereadMisses PROVE Tracked'
    BY <1>32 DEF RereadMisses, NoTask
  <1>33. ASSUME WriteBack PROVE Tracked'
    <2>1. task[Maint].tgt \in Sandboxes /\ task[Maint].copy \in Record
      BY <1>33 DEF WriteBack
    <2>2. [task[Maint].copy EXCEPT !.ttl = FALSE] \in Record
      BY <2>1, TtlUpdate
    <2>3. /\ record'[task[Maint].tgt] # NoRecord
          /\ \A k \in Sandboxes : k # task[Maint].tgt => record'[k] = record[k]
      BY <1>33, <2>1, <2>2, RecordPut DEF WriteBack
    <2> QED
      BY <1>33, <2>1, <2>3 DEF WriteBack, NoTask
  <1>34. ASSUME Crash PROVE Tracked'
    BY <1>34 DEF Crash, NoTask
  <1>35. ASSUME NEW s \in Sandboxes, RecoverKeep(s) PROVE Tracked'
    <2>1. record[s] \in Record
      BY <1>35 DEF RecoverKeep, Recoverable, Interrupted
    <2>2. [record[s] EXCEPT !.state = "running"] \in Record
      BY <2>1, StateUpdate DEF States
    <2>3. /\ record'[s] # NoRecord
          /\ \A k \in Sandboxes : k # s => record'[k] = record[k]
      BY <1>35, <2>2, RecordPut DEF RecoverKeep
    <2> QED
      BY <1>35, <2>1, <2>3 DEF RecoverKeep
  <1>36. ASSUME NEW s \in Sandboxes, RecoverDestroy(s) PROVE Tracked'
    BY <1>36 DEF RecoverDestroy, Recoverable, Interrupted, Wiped
  <1>37. ASSUME NEW s \in Sandboxes, RecoverForget(s) PROVE Tracked'
    BY <1>37 DEF RecoverForget, Recoverable, Interrupted, Alive, HasFiles, Put
  <1>38. ASSUME Serve PROVE Tracked'
    BY <1>38 DEF Serve
  <1>39. ASSUME NEW s \in Sandboxes, RecoverStops(s) PROVE Tracked'
    BY <1>39 DEF RecoverStops, Recoverable, Interrupted, HasFiles
  <1> HIDE DEF Tracked, NoLeak, Kinds, Swept, Base, TypeOK, Mutex, LocalsOK, DownIdle,
             Goto, Inside, Outside, WithCopy, CreatePlaces, Task, Threads, HasInstance,
             HasWorkspace
  <1> QED
    BY <1>1, <1>2, <1>3, <1>4, <1>5, <1>6, <1>7, <1>8, <1>9, <1>10, <1>11, <1>12, <1>13,
       <1>14, <1>15, <1>16, <1>17, <1>18, <1>19, <1>20, <1>21, <1>22, <1>23, <1>24,
       <1>25, <1>26, <1>27, <1>28, <1>29, <1>30, <1>31, <1>32, <1>33, <1>34, <1>35,
       <1>36, <1>37, <1>38, <1>39, <1>0
       DEF Next, Begin, Proceed, Maintain, Recover, Quiet

\* What a sandbox that was created runs in, and its files, do not outlive its
\* record: after any failure and any eviction, also one whose write-back undoes
\* another operation; and, but with docker, after any crash.  Docker's rm is
\* taken to work, since the code passes over its failure.
THEOREM NothingLeaks ==
    ASSUME Backend = "docker" => Faults \cap {"rm", "crash"} = {}
    PROVE  Spec => []NoLeak
  <1>1. Init => Tracked
    BY ConstantsAssumption DEF Init, Tracked, NoLeak, Kinds, Swept, NoTask
  <1>2. Base /\ Base' /\ Known /\ Tracked /\ [Next]_vars => Tracked'
    BY TrackedStep
  <1> QED
    BY <1>1, <1>2, BaseInvariant, KnownInvariant, PTL DEF Spec, Tracked

-----------------------------------------------------------------------------
(* The places of an operation and what it has written so far.                *)

\* Where a fork, and only a fork, is nested in its creations.
InTransition(t) ==
    /\ task[t].op \in Transitions
    /\ pc[t] \in {"calling", "spawn", "settle", "undo"} \cup CreatePlaces

InDelete(t) ==
    /\ task[t].op = "delete"
    /\ pc[t] \in {"destroying", "wiping", "dropping", "undo"}

\* Between its first write and its last an operation's record is the copy with
\* the transitional state, and nobody else's write comes in between.
OnCourse(t) ==
    LET s == task[t].tgt
        c == task[t].copy
    IN  /\ pc[t] = "entered" => record[s] = c
        /\ pc[t] \in {"calling", "settle"} => task[t].op \in Transitions
        /\ pc[t] \in {"destroying", "wiping", "dropping"} => task[t].op = "delete"
        /\ pc[t] = "undo" => task[t].op \in Transitions \cup {"delete"}
        /\ InTransition(t) => /\ c.state = From(task[t].op)
                              /\ record[s] # NoRecord
                              /\ record[s].state = Via(task[t].op)
                              /\ record[s].ttl = c.ttl
        /\ InDelete(t) => /\ record[s] # NoRecord
                          /\ record[s].state = "killing"
                          /\ record[s].ttl = c.ttl
        /\ pc[t] \in CreatePlaces => /\ record[task[t].kid].state = "creating"
                                     /\ task[t].kid \in born
        /\ pc[t] \in CreatePlaces /\ task[t].op = "fork" => record[task[t].kid].ttl = FALSE

Course == \A t \in Threads : OnCourse(t)

\* Every step keeps Course: with nothing written outside the lock, the record
\* of an operation in progress is changed by that operation alone.
LEMMA CourseStep ==
    ASSUME Base, KillOnly, Known, Course, [Next]_vars
    PROVE  Course'
  <1>0. CASE UNCHANGED vars
    BY <1>0 DEF vars, Course, OnCourse, InTransition, InDelete
  <1> USE ConstantsAssumption
         DEF Course, OnCourse, InTransition, InDelete, KillOnly, Base, TypeOK, Mutex,
             LocalsOK, DownIdle, Goto, Inside, Outside, WithCopy, CreatePlaces, Task, Threads,
             Transitions
  <1>1. ASSUME NEW t \in Threads, NEW o \in RequestNames, NEW s \in Sandboxes, Request(t, o, s) PROVE Course'
    BY <1>1 DEF Request, Enter
  <1>2. ASSUME NEW t \in Threads, NEW s \in Sandboxes, NEW d \in BOOLEAN, NEW a \in TimeoutActions, Create(t, s, d, a) PROVE Course'
    <2>1. record' = [record EXCEPT ![s] = [state |-> "creating", ttl |-> d, onTimeout |-> a]]
      BY <1>2 DEF Create, Put
    <2>2. record'[s].state = "creating"
      BY SMTT(30), <2>1
    <2> QED
      BY <1>2, <2>2 DEF Create, NoTask
  <1>3. ASSUME NEW t \in Threads, AlreadyThere(t) PROVE Course'
    BY <1>3 DEF AlreadyThere, Return
  <1>4. ASSUME NEW t \in Threads, Refuse(t) PROVE Course'
    BY <1>4 DEF Refuse, Raise
  <1>5. ASSUME NEW t \in Threads, BeginTransition(t) PROVE Course'
    <2>1. task[t].tgt \in Sandboxes /\ task[t].copy \in Record
      BY <1>5 DEF BeginTransition
    <2>2. Via(task[t].op) \in States
      BY <2>1, StatesPut DEF Record
    <2>3. /\ record'[task[t].tgt] # NoRecord
          /\ record'[task[t].tgt].state = Via(task[t].op)
          /\ record'[task[t].tgt].ttl = task[t].copy.ttl
          /\ \A k \in Sandboxes : k # task[t].tgt => record'[k] = record[k]
      BY <1>5, <2>1, <2>2, CopyPut DEF BeginTransition
    <2> QED
      BY <1>5, <2>1, <2>3 DEF BeginTransition
  <1>6. ASSUME NEW t \in Threads, Call(t) PROVE Course'
    BY <1>6 DEF Call
  <1>7. ASSUME NEW t \in Threads, CallFails(t) PROVE Course'
    BY SMTT(30), <1>7 DEF CallFails
  <1>8. ASSUME NEW t \in Threads, Settle(t) PROVE Course'
    BY <1>8 DEF Settle, Return
  <1>9. ASSUME NEW t \in Threads, Undo(t) PROVE Course'
    BY <1>9 DEF Undo, Raise
  <1>10. ASSUME NEW t \in Threads, ForkDone(t) PROVE Course'
    BY <1>10 DEF ForkDone
  <1>11. ASSUME NEW t \in Threads, BeginCopy(t) PROVE Course'
    BY <1>11 DEF BeginCopy
  <1>12. ASSUME NEW t \in Threads, EndCopy(t) PROVE Course'
    BY <1>12 DEF EndCopy
  <1>13. ASSUME NEW t \in Threads, CopyFails(t) PROVE Course'
    BY <1>13 DEF CopyFails
  <1>14. ASSUME NEW t \in Threads, StartInstance(t) PROVE Course'
    BY <1>14 DEF StartInstance
  <1>15. ASSUME NEW t \in Threads, StartFails(t) PROVE Course'
    BY <1>15 DEF StartFails, StrayFault
  <1>16. ASSUME NEW t \in Threads, Publish(t) PROVE Course'
    <2>1. CASE task[t].op = "fork"
      <3>1. task[t].kid \in Sandboxes /\ record[task[t].kid] \in Record /\ task[t].kid # task[t].tgt
        BY <1>16, <2>1 DEF Publish, Via
      <3>2. [record[task[t].kid] EXCEPT !.state = "running"] \in Record
        BY <3>1, StateUpdate DEF States
      <3>3. \A k \in Sandboxes : k # task[t].kid => record'[k] = record[k]
        BY <1>16, <3>1, <3>2, RecordPut DEF Publish
      <3> QED
        BY <1>16, <2>1, <3>1, <3>3 DEF Publish
    <2>2. CASE task[t].op # "fork"
      BY <1>16, <2>2 DEF Publish, Return
    <2> QED
      BY <2>1, <2>2
  <1>17. ASSUME NEW t \in Threads, Abort(t) PROVE Course'
    <2>1. CASE task[t].op = "fork"
      <3>1. task[t].kid # task[t].tgt
        BY <1>17, <2>1 DEF Abort, Via
      <3> QED
        BY <1>17, <2>1, <3>1 DEF Abort, Put
    <2>2. CASE task[t].op # "fork"
      BY <1>17, <2>2 DEF Abort, Raise
    <2> QED
      BY <2>1, <2>2
  <1>18. ASSUME NEW t \in Threads, BeginDelete(t) PROVE Course'
    <2>1. task[t].tgt \in Sandboxes /\ task[t].copy \in Record
      BY <1>18 DEF BeginDelete
    <2>2. "killing" \in States
      BY <2>1, StatesPut DEF Record
    <2>3. /\ record'[task[t].tgt] # NoRecord
          /\ record'[task[t].tgt].state = "killing"
          /\ record'[task[t].tgt].ttl = task[t].copy.ttl
          /\ \A k \in Sandboxes : k # task[t].tgt => record'[k] = record[k]
      BY <1>18, <2>1, <2>2, CopyPut DEF BeginDelete
    <2> QED
      BY <1>18, <2>1, <2>3 DEF BeginDelete
  <1>19. ASSUME NEW t \in Threads, DestroyInstance(t) PROVE Course'
    BY <1>19 DEF DestroyInstance
  <1>20. ASSUME NEW t \in Threads, DestroyFails(t) PROVE Course'
    BY <1>20 DEF DestroyFails
  <1>21. ASSUME NEW t \in Threads, WipeWorkspace(t) PROVE Course'
    BY <1>21 DEF WipeWorkspace, Wiped
  <1>22. ASSUME NEW t \in Threads, WipeFails(t) PROVE Course'
    BY SMTT(30), <1>22 DEF WipeFails, HasFiles
  <1>23. ASSUME NEW t \in Threads, DropRecord(t) PROVE Course'
    BY SMTT(30), <1>23 DEF DropRecord, Return
  <1>24. ASSUME NEW t \in Threads, PutTimeout(t) PROVE Course'
    BY <1>24 DEF PutTimeout, Return
  <1>25. ASSUME NEW t \in Threads, Rearm(t) PROVE Course'
    BY <1>25 DEF Rearm, Enter
  <1>26. ASSUME NEW t \in Threads, RearmMisses(t) PROVE Course'
    BY <1>26 DEF RearmMisses, NoTask
  <1>27. ASSUME NEW t \in Threads, NEW s \in Sandboxes, Spawn(t, s) PROVE Course'
    <2>1. s # task[t].tgt /\ task[t].tgt \in Sandboxes
      BY <1>27 DEF Spawn, Known
    <2>2. record' = [record EXCEPT ![s] = [state |-> "creating", ttl |-> FALSE,
                                           onTimeout |-> task[t].copy.onTimeout]]
      BY <1>27 DEF Spawn, Put
    <2>3. /\ record'[s].state = "creating" /\ record'[s].ttl = FALSE
          /\ \A k \in Sandboxes : k # s => record'[k] = record[k]
      BY <2>2
    <2> QED
      BY <1>27, <2>1, <2>3 DEF Spawn
  <1>28. ASSUME NEW D \in SUBSET Sandboxes, List(D) PROVE Course'
    BY <1>28 DEF List
  <1>29. ASSUME NEW s \in Sandboxes, Evict(s) PROVE Course'
    BY <1>29 DEF Evict, Enter
  <1>30. ASSUME NEW s \in Sandboxes, EvictMisses(s) PROVE Course'
    BY <1>30 DEF EvictMisses
  <1>31. ASSUME Reread PROVE Course'
    BY <1>31 DEF Reread
  <1>32. ASSUME RereadMisses PROVE Course'
    BY <1>32 DEF RereadMisses, NoTask
  <1>33. ASSUME WriteBack PROVE Course'
    BY <1>33 DEF WriteBack, Put, NoTask
  <1>34. ASSUME Crash PROVE Course'
    BY <1>34 DEF Crash, NoTask
  <1>35. ASSUME NEW s \in Sandboxes, RecoverKeep(s) PROVE Course'
    BY <1>35 DEF RecoverKeep, Recoverable, Interrupted, Put
  <1>36. ASSUME NEW s \in Sandboxes, RecoverDestroy(s) PROVE Course'
    BY <1>36 DEF RecoverDestroy, Recoverable, Interrupted, Wiped
  <1>37. ASSUME NEW s \in Sandboxes, RecoverForget(s) PROVE Course'
    BY <1>37 DEF RecoverForget, Recoverable, Interrupted, Alive, Put
  <1>38. ASSUME Serve PROVE Course'
    BY <1>38 DEF Serve
  <1>39. ASSUME NEW s \in Sandboxes, RecoverStops(s) PROVE Course'
    BY <1>39 DEF RecoverStops, Recoverable, Interrupted, HasFiles
  <1> HIDE DEF Course, OnCourse, InTransition, InDelete, KillOnly, Base, TypeOK, Mutex,
             LocalsOK, DownIdle, Goto, Inside, Outside, WithCopy, CreatePlaces, Task, Threads,
             Transitions
  <1> QED
    BY <1>1, <1>2, <1>3, <1>4, <1>5, <1>6, <1>7, <1>8, <1>9, <1>10, <1>11, <1>12, <1>13,
       <1>14, <1>15, <1>16, <1>17, <1>18, <1>19, <1>20, <1>21, <1>22, <1>23, <1>24,
       <1>25, <1>26, <1>27, <1>28, <1>29, <1>30, <1>31, <1>32, <1>33, <1>34, <1>35,
       <1>36, <1>37, <1>38, <1>39, <1>0
       DEF Next, Begin, Proceed, Maintain, Recover, Quiet

\* What recovery takes for the runtime.
Exists(s) == IF HasInstance THEN instance[s] # "none" ELSE HasFiles(s)

\* What is neither being created nor being deleted has its runtime, so that
\* recovery keeps it, and so has a delete that may still be rolled back.
Backed ==
    /\ \A s \in Sandboxes :
          record[s] # NoRecord /\ record[s].state \notin {"creating", "killing"} => Exists(s)
    /\ \A t \in Threads :
          /\ pc[t] = "destroying" => HasInstance /\ Exists(task[t].tgt)
          /\ pc[t] = "undo" /\ task[t].op = "delete" => Exists(task[t].tgt)
          /\ pc[t] = "copying" => HasWorkspace
          /\ pc[t] = "starting" => HasInstance
          /\ pc[t] = "wiping" => HasWorkspace
          /\ pc[t] = "publish" => Exists(task[t].kid)

\* Every step keeps Backed: a runtime is destroyed only under a record that says
\* so, and a delete that is rolled back has left one.
LEMMA BackedStep ==
    ASSUME Backend = "docker" => "rmtree" \notin Faults,
           Base, KillOnly, SettledCopies, Course, Backed, [Next]_vars
    PROVE  Backed'
  <1>0. CASE UNCHANGED vars
    BY <1>0 DEF vars, Backed, Exists, HasFiles
  <1> USE ConstantsAssumption
         DEF Backed, Exists, KillOnly, SettledCopies, Base, TypeOK, Mutex, LocalsOK, DownIdle,
             Goto, Inside, Outside, WithCopy, CreatePlaces, Task, Threads, Transitions,
             Course, OnCourse, InTransition, InDelete, HasInstance, HasWorkspace, HasFiles
  <1>1. ASSUME NEW t \in Threads, NEW o \in RequestNames, NEW s \in Sandboxes, Request(t, o, s) PROVE Backed'
    BY <1>1 DEF Request, Enter
  <1>2. ASSUME NEW t \in Threads, NEW s \in Sandboxes, NEW d \in BOOLEAN, NEW a \in TimeoutActions, Create(t, s, d, a) PROVE Backed'
    <2>1. record' = [record EXCEPT ![s] = [state |-> "creating", ttl |-> d, onTimeout |-> a]]
      BY <1>2 DEF Create, Put
    <2>2. record'[s].state = "creating" /\ \A k \in Sandboxes : k # s => record'[k] = record[k]
      BY <2>1
    <2> QED
      BY <1>2, <2>2 DEF Create
  <1>3. ASSUME NEW t \in Threads, AlreadyThere(t) PROVE Backed'
    BY <1>3 DEF AlreadyThere, Return
  <1>4. ASSUME NEW t \in Threads, Refuse(t) PROVE Backed'
    BY SMTT(30), <1>4 DEF Refuse, Raise
  <1>5. ASSUME NEW t \in Threads, BeginTransition(t) PROVE Backed'
    <2>1. task[t].tgt \in Sandboxes /\ task[t].copy \in Record
      BY <1>5 DEF BeginTransition
    <2>2. Via(task[t].op) \in States
      BY <2>1, StatesPut DEF Record
    <2>3. /\ record'[task[t].tgt] # NoRecord
          /\ record'[task[t].tgt].state = Via(task[t].op)
          /\ record'[task[t].tgt].ttl = task[t].copy.ttl
          /\ \A k \in Sandboxes : k # task[t].tgt => record'[k] = record[k]
      BY <1>5, <2>1, <2>2, CopyPut DEF BeginTransition
    <2> QED
      BY <1>5, <2>1, <2>3 DEF BeginTransition
  <1>6. ASSUME NEW t \in Threads, Call(t) PROVE Backed'
    BY <1>6 DEF Call, CallWorks
  <1>7. ASSUME NEW t \in Threads, CallFails(t) PROVE Backed'
    BY SMTT(30), <1>7 DEF CallFails
  <1>8. ASSUME NEW t \in Threads, Settle(t) PROVE Backed'
    <2>1. task[t].tgt \in Sandboxes /\ task[t].copy \in Record
      BY <1>8 DEF Settle
    <2>2. To(task[t].op) \in States
      BY <2>1, StatesPut DEF Record
    <2>3. /\ record'[task[t].tgt] # NoRecord
          /\ record'[task[t].tgt].state = To(task[t].op)
          /\ record'[task[t].tgt].ttl = task[t].copy.ttl
          /\ \A k \in Sandboxes : k # task[t].tgt => record'[k] = record[k]
      BY SMTT(30), <1>8, <2>1, <2>2, CopyPut DEF Settle
    <2>4. /\ UNCHANGED <<workspace, instance>>
          /\ task[t].op # "delete"
          /\ record[task[t].tgt] # NoRecord
          /\ record[task[t].tgt].state = Via(task[t].op)
      BY <1>8 DEF Settle
    <2>5. \A s \in Sandboxes :
             record'[s] # NoRecord /\ record'[s].state \notin {"creating", "killing"} => Exists(s)'
      BY <2>1, <2>3, <2>4 DEF Via
    <2>6. \A u \in Threads :
             pc'[u] \notin {"destroying", "undo", "copying", "starting", "wiping", "publish"}
      BY <1>8 DEF Settle, Return
    <2> QED
      BY <2>5, <2>6
  <1>9. ASSUME NEW t \in Threads, Undo(t) PROVE Backed'
    <2>1. task[t].tgt \in Sandboxes /\ task[t].copy \in Record
      BY <1>9 DEF Undo
    <2>2. task[t].copy.state \in States
      BY <2>1, StatesPut DEF Record
    <2>3. /\ record'[task[t].tgt] # NoRecord
          /\ record'[task[t].tgt].state = task[t].copy.state
          /\ record'[task[t].tgt].ttl = task[t].copy.ttl
          /\ \A k \in Sandboxes : k # task[t].tgt => record'[k] = record[k]
      BY <1>9, <2>1, <2>2, CopyPut DEF Undo
    <2> QED
      BY <1>9, <2>1, <2>3 DEF Undo, Raise, Via
  <1>10. ASSUME NEW t \in Threads, ForkDone(t) PROVE Backed'
    BY <1>10 DEF ForkDone
  <1>11. ASSUME NEW t \in Threads, BeginCopy(t) PROVE Backed'
    BY <1>11 DEF BeginCopy
  <1>12. ASSUME NEW t \in Threads, EndCopy(t) PROVE Backed'
    BY <1>12 DEF EndCopy
  <1>13. ASSUME NEW t \in Threads, CopyFails(t) PROVE Backed'
    BY <1>13 DEF CopyFails
  <1>14. ASSUME NEW t \in Threads, StartInstance(t) PROVE Backed'
    BY <1>14 DEF StartInstance
  <1>15. ASSUME NEW t \in Threads, StartFails(t) PROVE Backed'
    BY <1>15 DEF StartFails, StrayFault
  <1>16. ASSUME NEW t \in Threads, Publish(t) PROVE Backed'
    <2>1. task[t].kid \in Sandboxes /\ record[task[t].kid] \in Record
      BY <1>16 DEF Publish
    <2>2. [record[task[t].kid] EXCEPT !.state = "running"] \in Record
      BY <2>1, StateUpdate DEF States
    <2>3. \A k \in Sandboxes : k # task[t].kid => record'[k] = record[k]
      BY <1>16, <2>1, <2>2, RecordPut DEF Publish
    <2> QED
      BY <1>16, <2>1, <2>3 DEF Publish, Return
  <1>17. ASSUME NEW t \in Threads, Abort(t) PROVE Backed'
    BY <1>17 DEF Abort, Put, Raise
  <1>18. ASSUME NEW t \in Threads, BeginDelete(t) PROVE Backed'
    <2>1. task[t].tgt \in Sandboxes /\ task[t].copy \in Record
      BY <1>18 DEF BeginDelete
    <2>2. "killing" \in States
      BY <2>1, StatesPut DEF Record
    <2>3. /\ record'[task[t].tgt] # NoRecord
          /\ record'[task[t].tgt].state = "killing"
          /\ record'[task[t].tgt].ttl = task[t].copy.ttl
          /\ \A k \in Sandboxes : k # task[t].tgt => record'[k] = record[k]
      BY <1>18, <2>1, <2>2, CopyPut DEF BeginDelete
    <2> QED
      BY <1>18, <2>1, <2>3 DEF BeginDelete
  <1>19. ASSUME NEW t \in Threads, DestroyInstance(t) PROVE Backed'
    BY <1>19 DEF DestroyInstance
  <1>20. ASSUME NEW t \in Threads, DestroyFails(t) PROVE Backed'
    BY <1>20 DEF DestroyFails
  <1>21. ASSUME NEW t \in Threads, WipeWorkspace(t) PROVE Backed'
    BY <1>21 DEF WipeWorkspace, Wiped
  <1>22. ASSUME NEW t \in Threads, WipeFails(t) PROVE Backed'
    BY <1>22 DEF WipeFails, HasFiles
  <1>23. ASSUME NEW t \in Threads, DropRecord(t) PROVE Backed'
    BY SMTT(30), <1>23 DEF DropRecord, Put, Return
  <1>24. ASSUME NEW t \in Threads, PutTimeout(t) PROVE Backed'
    <2>1. task[t].tgt \in Sandboxes /\ task[t].copy \in Record
      BY <1>24 DEF PutTimeout
    <2> DEFINE r == [task[t].copy EXCEPT !.ttl = (task[t].op = "arm")]
    <2>2. r \in Record
      BY <2>1, TtlUpdate
    <2>3. r.state = task[t].copy.state
      BY <2>1 DEF Record
    <2>4. Put(task[t].tgt, r)
      BY <1>24 DEF PutTimeout
    <2> HIDE DEF r
    <2>5. /\ record'[task[t].tgt].state = task[t].copy.state
          /\ \A k \in Sandboxes : k # task[t].tgt => record'[k] = record[k]
      BY <2>1, <2>2, <2>3, <2>4, RecordPut
    <2>6. UNCHANGED <<workspace, instance>> /\ record[task[t].tgt].state = task[t].copy.state
      BY <1>24 DEF PutTimeout
    <2>7. \A s \in Sandboxes :
             record'[s] # NoRecord /\ record'[s].state \notin {"creating", "killing"} => Exists(s)'
      BY <1>24, <2>1, <2>5, <2>6 DEF PutTimeout
    <2>8. \A u \in Threads :
             pc'[u] \notin {"destroying", "undo", "copying", "starting", "wiping", "publish"}
      BY <1>24 DEF PutTimeout, Return
    <2> QED
      BY <2>7, <2>8
  <1>25. ASSUME NEW t \in Threads, Rearm(t) PROVE Backed'
    BY <1>25 DEF Rearm, Enter
  <1>26. ASSUME NEW t \in Threads, RearmMisses(t) PROVE Backed'
    BY <1>26 DEF RearmMisses, NoTask
  <1>27. ASSUME NEW t \in Threads, NEW s \in Sandboxes, Spawn(t, s) PROVE Backed'
    <2>1. record' = [record EXCEPT ![s] = [state |-> "creating", ttl |-> FALSE,
                                           onTimeout |-> task[t].copy.onTimeout]]
      BY <1>27 DEF Spawn, Put
    <2>2. record'[s].state = "creating" /\ \A k \in Sandboxes : k # s => record'[k] = record[k]
      BY <2>1
    <2> QED
      BY <1>27, <2>2 DEF Spawn
  <1>28. ASSUME NEW D \in SUBSET Sandboxes, List(D) PROVE Backed'
    BY <1>28 DEF List
  <1>29. ASSUME NEW s \in Sandboxes, Evict(s) PROVE Backed'
    BY <1>29 DEF Evict, Enter
  <1>30. ASSUME NEW s \in Sandboxes, EvictMisses(s) PROVE Backed'
    BY <1>30 DEF EvictMisses
  <1>31. ASSUME Reread PROVE Backed'
    BY <1>31 DEF Reread
  <1>32. ASSUME RereadMisses PROVE Backed'
    BY <1>32 DEF RereadMisses, NoTask
  <1>33. ASSUME WriteBack PROVE Backed'
    BY <1>33 DEF WriteBack, Put, NoTask
  <1>34. ASSUME Crash PROVE Backed'
    BY <1>34 DEF Crash, NoTask
  <1>35. ASSUME NEW s \in Sandboxes, RecoverKeep(s) PROVE Backed'
    <2>1. record[s] \in Record /\ Exists(s)
      BY <1>35 DEF RecoverKeep, Recoverable, Interrupted, Alive
    <2>2. [record[s] EXCEPT !.state = "running"] \in Record
      BY <2>1, StateUpdate DEF States
    <2>3. /\ record'[s] # NoRecord
          /\ \A k \in Sandboxes : k # s => record'[k] = record[k]
      BY <1>35, <2>2, RecordPut DEF RecoverKeep
    <2> QED
      BY <1>35, <2>1, <2>3 DEF RecoverKeep
  <1>36. ASSUME NEW s \in Sandboxes, RecoverDestroy(s) PROVE Backed'
    BY <1>36 DEF RecoverDestroy, Recoverable, Interrupted, Wiped
  <1>37. ASSUME NEW s \in Sandboxes, RecoverForget(s) PROVE Backed'
    BY <1>37 DEF RecoverForget, Recoverable, Put
  <1>38. ASSUME Serve PROVE Backed'
    BY <1>38 DEF Serve
  <1>39. ASSUME NEW s \in Sandboxes, RecoverStops(s) PROVE Backed'
    BY <1>39 DEF RecoverStops, Recoverable, Interrupted, HasFiles
  <1> HIDE DEF Backed, Exists, KillOnly, SettledCopies, Base, TypeOK, Mutex, LocalsOK, DownIdle,
             Goto, Inside, Outside, WithCopy, CreatePlaces, Task, Threads, Transitions,
             Course, OnCourse, InTransition, InDelete, HasInstance, HasWorkspace
  <1> QED
    BY <1>1, <1>2, <1>3, <1>4, <1>5, <1>6, <1>7, <1>8, <1>9, <1>10, <1>11, <1>12, <1>13,
       <1>14, <1>15, <1>16, <1>17, <1>18, <1>19, <1>20, <1>21, <1>22, <1>23, <1>24,
       <1>25, <1>26, <1>27, <1>28, <1>29, <1>30, <1>31, <1>32, <1>33, <1>34, <1>35,
       <1>36, <1>37, <1>38, <1>39, <1>0
       DEF Next, Begin, Proceed, Maintain, Recover, Quiet

-----------------------------------------------------------------------------
(* What the service's state is, and what makes a step of it.                  *)

\* The record the owner of the lock works with.
Holder == IF lock \in Threads THEN task[lock].copy ELSE NoRecord

\* The status a record's state stands for while the process serves.
View(x, c) ==
    CASE x = "creating" -> "unborn"
      [] x \in {"paused", "resuming"} -> "paused"
      [] x = "killing" /\ c # NoRecord -> IF c.state = "paused" THEN "paused" ELSE "running"
      [] OTHER -> "running"

LEMMA StatusUp ==
    ASSUME NEW s \in Sandboxes, up
    PROVE  Status(s) = IF s \notin born THEN "unborn"
                       ELSE IF record[s] = NoRecord THEN "gone"
                       ELSE View(record[s].state, Holder)
  BY DEF Status, View, Holder

LEMMA StatusUpNext ==
    ASSUME NEW s \in Sandboxes, up'
    PROVE  Status(s)' = IF s \notin born' THEN "unborn"
                        ELSE IF record'[s] = NoRecord THEN "gone"
                        ELSE View(record'[s].state, Holder')
  BY DEF Status, View, Holder

\* A sandbox whose record stays as it is keeps status and deadline, unless it is
\* being deleted and the lock changes hands.
LEMMA Undisturbed ==
    ASSUME up, up', NEW s \in Sandboxes, s \in born' <=> s \in born, record'[s] = record[s],
           Holder' = Holder \/ (record[s] # NoRecord => record[s].state # "killing")
    PROVE  Status(s)' = Status(s) /\ Deadline(s)' = Deadline(s)
  <1>1. Status(s)' = Status(s)
    BY StatusUp, StatusUpNext DEF View
  <1> QED
    BY <1>1 DEF Deadline

\* One sandbox at most is being deleted, by the owner of the lock.
LEMMA OneKilled ==
    ASSUME TransientHeld, up, NEW s \in Sandboxes, record[s] # NoRecord,
           record[s].state = "killing"
    PROVE  /\ lock \in Threads
           /\ task[lock].op = "delete" /\ task[lock].tgt = s
           /\ pc[lock] \in {"destroying", "wiping", "dropping", "undo"}
  BY DEF TransientHeld, Interrupted, Working, Transitional, Via

\* Calls of the service.
ACall(o, s) == [op |-> o, on |-> s]

Same(s) == Status(s)' = Status(s) /\ Deadline(s)' = Deadline(s)

LEMMA Stutter ==
    ASSUME \A s \in Sandboxes : Same(s), \A t \in Threads : InFlight(t)' = InFlight(t)
    PROVE  UNCHANGED Service!vars
  BY DEF Same, Service!vars

\* A step that keeps every status and gives thread t another call.
LEMMA Invoked ==
    ASSUME NEW t \in Threads, NEW o \in RequestNames, NEW s \in Sandboxes,
           InFlight(t) = NoCall, (o = "create") <=> (Status(s) = "unborn"),
           InFlight(t)' = ACall(o, s),
           \A u \in Threads \ {t} : InFlight(u)' = InFlight(u),
           \A k \in Sandboxes : Same(k)
    PROVE  Service!Next
  <1>1. Service!Invoke(t, o, s)
    BY DEF Service!Invoke, ACall, Same
  <1> QED
    BY <1>1 DEF Service!Next, RequestNames

\* A step that sets the status and the deadline of s.
LEMMA SetOne ==
    ASSUME NEW s \in Sandboxes, NEW x, NEW d, Status(s)' = x, Deadline(s)' = d,
           \A k \in Sandboxes \ {s} : Same(k)
    PROVE  Service!Set(s, x, d)
  BY DEF Service!Set, Same

\* A step that ends the call of thread t.
LEMMA Ended ==
    ASSUME NEW t \in Threads, InFlight(t)' = NoCall,
           \A u \in Threads \ {t} : InFlight(u)' = InFlight(u)
    PROVE  [u \in Threads |-> InFlight(u)]' =
               [[u \in Threads |-> InFlight(u)] EXCEPT ![t] = NoCall]
  OBVIOUS

LEMMA NotNoCall ==
    ASSUME NEW o \in RequestNames, NEW s
    PROVE  ACall(o, s) # NoCall
  BY DEF ACall, NoCall, RequestNames

\* The return of an operation that works on s.
LEMMA Committed ==
    ASSUME NEW t \in Threads, NEW o \in RequestNames \ {"create"}, NEW s \in Sandboxes,
           InFlight(t) = ACall(o, s), InFlight(t)' = NoCall,
           \A u \in Threads \ {t} : InFlight(u)' = InFlight(u),
           Status(s) \in Service!Finds(o),
           Status(s)' = Service!Leaves(o, Status(s)),
           Deadline(s)' = (o \notin {"delete", "clear"} /\ (o = "arm" \/ Deadline(s))),
           \A k \in Sandboxes \ {s} : Same(k)
    PROVE  Service!Next
  <1>1. Service!Set(s, Service!Leaves(o, Status(s)),
                    o \notin {"delete", "clear"} /\ (o = "arm" \/ Deadline(s)))
    BY SetOne
  <1>2. Service!Commit(t)
    BY <1>1, Ended, NotNoCall DEF Service!Commit, ACall
  <1> QED
    BY <1>2 DEF Service!Next

\* The return of a creation.
LEMMA Created ==
    ASSUME NEW t \in Threads, NEW s \in Sandboxes,
           InFlight(t) = ACall("create", s), InFlight(t)' = NoCall,
           \A u \in Threads \ {t} : InFlight(u)' = InFlight(u),
           Status(s) = "unborn", Status(s)' = "running", Deadline(s)' \in BOOLEAN,
           \A k \in Sandboxes \ {s} : Same(k)
    PROVE  Service!Next
  <1>1. Service!Set(s, "running", Deadline(s)')
    BY SetOne
  <1>2. Service!Commit(t)
    BY <1>1, Ended, NotNoCall DEF Service!Commit, Service!Finds, ACall, RequestNames
  <1> QED
    BY <1>2 DEF Service!Next

\* A call that fails.
LEMMA Failed ==
    ASSUME NEW t \in Threads, NEW o \in RequestNames, NEW s \in Sandboxes,
           InFlight(t) = ACall(o, s), InFlight(t)' = NoCall,
           \A u \in Threads \ {t} : InFlight(u)' = InFlight(u),
           o # "create" => Same(s),
           o = "create" => Status(s)' = "gone" /\ Deadline(s)' = FALSE,
           \A k \in Sandboxes \ {s} : Same(k)
    PROVE  Service!Next
  <1>0. InFlight(t) # NoCall /\ InFlight(t).op = o /\ InFlight(t).on = s
    BY NotNoCall DEF ACall
  <1>1. CASE o = "create"
    <2>1. Service!Set(s, "gone", FALSE)
      BY <1>1, SetOne
    <2>2. Service!Fail(t)
      BY <1>0, <1>1, <2>1, Ended DEF Service!Fail
    <2> QED
      BY <2>2 DEF Service!Next
  <1>2. CASE o # "create"
    <2>1. \A k \in Sandboxes : Same(k)
      BY <1>2
    <2>2. UNCHANGED <<[k \in Sandboxes |-> Status(k)], [k \in Sandboxes |-> Deadline(k)]>>
      BY <2>1 DEF Same
    <2>3. Service!Fail(t)
      BY <1>0, <1>2, <2>2, Ended DEF Service!Fail
    <2> QED
      BY <2>3 DEF Service!Next
  <1> QED
    BY <1>1, <1>2

\* A child of a fork.
LEMMA Forked ==
    ASSUME NEW t \in Threads, NEW p, NEW s \in Sandboxes,
           InFlight(t) = ACall("fork", p),
           \A u \in Threads : InFlight(u)' = InFlight(u),
           Status(s) = "unborn", Status(s)' \in {"running", "gone"}, Deadline(s)' = FALSE,
           \A k \in Sandboxes \ {s} : Same(k)
    PROVE  Service!Next
  <1>1. Service!Set(s, Status(s)', FALSE)
    BY SetOne
  <1>2. InFlight(t) # NoCall /\ InFlight(t).op = "fork"
    BY NotNoCall DEF RequestNames, ACall
  <1>3. [u \in Threads |-> InFlight(u)]' = [u \in Threads |-> InFlight(u)]
    OBVIOUS
  <1>4. Service!Child(t, s)
    BY <1>1, <1>2, <1>3 DEF Service!Child
  <1> QED
    BY <1>4 DEF Service!Next

-----------------------------------------------------------------------------
(* Each step of the orchestrator is one of the service, or none.              *)

\* The thread in a locked operation owns the lock, and the process serves.
LEMMA Owner ==
    ASSUME Base, NEW t \in Threads, pc[t] \in Inside
    PROVE  lock = t /\ up /\ (\A u \in Threads \ {t} : pc[u] \notin Inside)
  BY DEF Base, Mutex, DownIdle, Inside

\* A step that writes no record and takes no lock shows nothing.
LEMMA Silent ==
    ASSUME up, up', UNCHANGED <<record, born, lock, task>>,
           \A t \in Threads : pc'[t] \in Inside <=> pc[t] \in Inside
    PROVE  UNCHANGED Service!vars
  <1>1. Holder' = Holder
    BY DEF Holder
  <1>2. \A s \in Sandboxes : Same(s)
    BY <1>1, Undisturbed DEF Same
  <1>3. \A t \in Threads : InFlight(t)' = InFlight(t)
    BY DEF InFlight
  <1> QED
    BY <1>2, <1>3, Stutter

\* Whoever leaves the lock's block ends its call.
LEMMA Leaving ==
    ASSUME Base, NEW t \in Threads, pc[t] \in Inside, Return(t) \/ Raise(t)
    PROVE  /\ lock' = NoThread
           /\ InFlight(t)' = NoCall
           /\ \A u \in Threads \ {t} : InFlight(u)' = InFlight(u)
  <1>1. /\ lock' = NoThread /\ pc'[t] \notin Inside
        /\ \A u \in Threads \ {t} : pc'[u] = pc[u] /\ task'[u] = task[u]
    BY DEF Return, Raise, Goto, Inside, Base, TypeOK
  <1> QED
    BY <1>1 DEF InFlight

\* Every other sandbox stays as it is, also when the lock is given up, because
\* only its owner deletes.
LEMMA OthersKept ==
    ASSUME TransientHeld, up, up', born' = born, NEW s,
           lock \in Threads, task[lock].op = "delete" => task[lock].tgt = s,
           \A k \in Sandboxes \ {s} : record'[k] = record[k]
    PROVE  \A k \in Sandboxes \ {s} : Same(k)
  BY OneKilled, Undisturbed DEF Same

\* While the lock is free, or its owner has only read the record, no sandbox is
\* being deleted, and the owner may change.
LEMMA AllKept ==
    ASSUME TransientHeld, up, up', UNCHANGED <<born, record>>,
           lock \notin Threads \/ pc[lock] = "entered"
    PROVE  \A k \in Sandboxes : Same(k)
  BY OneKilled, Undisturbed DEF Same

\* Request, Rearm and Evict take the lock and invoke the call.
LEMMA EnterStep ==
    ASSUME Base, TransientHeld, Known, up, up', NEW t \in Threads, pc[t] \in Outside,
           NEW o \in RequestNames \ {"create"}, NEW s \in Sandboxes,
           record[s] # NoRecord, Enter(t, o, s)
    PROVE  Service!Next
  <1>1. lock = NoThread /\ NoThread \notin Threads /\ UNCHANGED <<born, record>>
    BY ConstantsAssumption DEF Enter
  <1>2. \A k \in Sandboxes : Same(k)
    BY <1>1, AllKept
  <1>3. /\ InFlight(t) = NoCall
        /\ \A u \in Threads \ {t} : InFlight(u)' = InFlight(u)
    BY DEF Enter, Goto, InFlight, Inside, Outside, Base, TypeOK
  <1>4. InFlight(t)' = ACall(o, s)
    <2>1. pc'[t] = "entered" /\ task'[t].op = o /\ task'[t].tgt = s
      BY DEF Enter, Goto, Base, TypeOK
    <2> QED
      BY <2>1 DEF InFlight, ACall, Inside
  <1>5. Status(s) # "unborn"
    <2>1. record[s].state \in {"running", "paused"} /\ s \in born
      BY <1>1, FreeLock DEF Known
    <2> QED
      BY <2>1, StatusUp DEF View
  <1> QED
    BY <1>2, <1>3, <1>4, <1>5, Invoked

\* What a thread that is in its call on a sandbox knows of it.
LEMMA AtWork ==
    ASSUME Base, Known, NEW t \in Threads, pc[t] \in WithCopy
    PROVE  /\ lock = t /\ up /\ pc[t] \in Inside
           /\ task[t].tgt \in Sandboxes /\ task[t].tgt \in born
           /\ task[t].copy \in Record /\ task[t].copy # NoRecord
           /\ Holder = task[t].copy
           /\ task[t].op # "create" => InFlight(t) = ACall(task[t].op, task[t].tgt)
  <1>1. pc[t] \in Inside
    BY DEF WithCopy, Inside
  <1> QED
    BY <1>1, Owner, ConstantsAssumption
       DEF Base, LocalsOK, Known, Holder, InFlight, ACall, WithCopy

\* Creation takes the lock and invokes the call; the record it puts does not
\* show.
LEMMA CreateStep ==
    ASSUME Base, TransientHeld, Known, NEW t \in Threads, NEW s \in Sandboxes,
           NEW d \in BOOLEAN, NEW a \in TimeoutActions, Create(t, s, d, a)
    PROVE  Service!Next
  <1>1. /\ lock = NoThread /\ NoThread \notin Threads /\ up /\ up' /\ s \notin born
        /\ born' = born \cup {s} /\ \A k \in Sandboxes \ {s} : record'[k] = record[k]
    BY ConstantsAssumption DEF Create, Put, Base, TypeOK
  <1>2. \A k \in Sandboxes \ {s} : Same(k)
    <2>1. \A k \in Sandboxes \ {s} : record[k] # NoRecord => record[k].state # "killing"
      BY <1>1, OneKilled
    <2>2. \A k \in Sandboxes \ {s} : k \in born' <=> k \in born
      BY <1>1
    <2> QED
      BY <1>1, <2>1, <2>2, Undisturbed DEF Same
  <1>3. record'[s].state = "creating" /\ record'[s] # NoRecord
    <2>1. [state |-> "creating", ttl |-> d, onTimeout |-> a] \in Record
      BY DEF Record, States, Transitional
    <2>2. Put(s, [state |-> "creating", ttl |-> d, onTimeout |-> a])
      BY DEF Create
    <2>3. record'[s] = [state |-> "creating", ttl |-> d, onTimeout |-> a] /\ record'[s] # NoRecord
      BY <2>1, <2>2, RecordPut DEF Base
    <2> QED
      BY <2>3
  <1>4. Status(s) = "unborn" /\ Status(s)' = "unborn"
    BY <1>1, <1>3, StatusUp, StatusUpNext DEF View
  <1>5. Same(s)
    BY <1>4 DEF Same, Deadline
  <1>6. /\ InFlight(t) = NoCall
        /\ \A u \in Threads \ {t} : InFlight(u)' = InFlight(u)
    BY DEF Create, Goto, InFlight, Inside, Base, TypeOK
  <1>7. InFlight(t)' = ACall("create", s)
    <2>1. pc'[t] = "preparing" /\ task'[t].op = "create" /\ task'[t].kid = s
      BY DEF Create, Goto, Base, TypeOK, NoTask
    <2> QED
      BY <2>1 DEF InFlight, ACall, Inside
  <1> QED
    BY <1>2, <1>4, <1>5, <1>6, <1>7, Invoked DEF RequestNames

\* A call that finds its sandbox where it should be returns.
LEMMA AlreadyThereStep ==
    ASSUME Base, TransientHeld, Known, Course, NEW t \in Threads, AlreadyThere(t),
           NEW s, s = task[t].tgt, NEW o, o = task[t].op
    PROVE  Service!Next
  <1>1. /\ pc[t] = "entered" /\ o \in {"pause", "resume", "wake"}
        /\ Return(t) /\ UNCHANGED <<up, record, born>>
    BY DEF AlreadyThere
  <1>2. /\ lock = t /\ up /\ s \in Sandboxes /\ s \in born /\ pc[t] \in Inside
        /\ task[t].copy # NoRecord /\ InFlight(t) = ACall(o, s)
    BY <1>1, AtWork DEF WithCopy
  <1>3. record[s] = task[t].copy /\ record[s].state = To(o)
    BY <1>1 DEF AlreadyThere, Course, OnCourse
  <1>4. \A k \in Sandboxes : Same(k)
    BY <1>1, <1>2, AllKept
  <1>5. Status(s) = To(o)
    BY <1>2, <1>3, StatusUp DEF View, To
  <1>6. /\ InFlight(t)' = NoCall
        /\ \A u \in Threads \ {t} : InFlight(u)' = InFlight(u)
    BY <1>1, <1>2, Leaving
  <1>7. /\ Status(s) \in Service!Finds(o)
        /\ Status(s)' = Service!Leaves(o, Status(s))
    BY <1>1, <1>2, <1>4, <1>5 DEF Service!Finds, Service!Leaves, Service!Live, To, Same
  <1>8. Deadline(s)' = (o \notin {"delete", "clear"} /\ (o = "arm" \/ Deadline(s)))
    <2>1. Deadline(s)' = Deadline(s)
      BY <1>2, <1>4 DEF Same
    <2>2. Deadline(s) \in BOOLEAN
      BY <1>2, <1>3 DEF Deadline, Record
    <2> QED
      BY <1>1, <2>1, <2>2
  <1> QED
    BY <1>1, <1>2, <1>4, <1>6, <1>7, <1>8, Committed DEF RequestNames

\* A call that finds its sandbox in the wrong state fails.
LEMMA RefuseStep ==
    ASSUME Base, TransientHeld, Known, NEW t \in Threads, Refuse(t)
    PROVE  Service!Next
  <1>1. /\ pc[t] = "entered" /\ task[t].op \in Transitions
        /\ Raise(t) /\ UNCHANGED <<up, record, born>>
    BY DEF Refuse
  <1>2. /\ lock = t /\ up /\ task[t].tgt \in Sandboxes /\ pc[t] \in Inside
        /\ InFlight(t) = ACall(task[t].op, task[t].tgt)
    BY <1>1, AtWork DEF WithCopy, Transitions
  <1>3. \A k \in Sandboxes : Same(k)
    BY <1>1, <1>2, AllKept
  <1>4. /\ InFlight(t)' = NoCall
        /\ \A u \in Threads \ {t} : InFlight(u)' = InFlight(u)
    BY <1>1, <1>2, Leaving
  <1> QED
    BY <1>1, <1>2, <1>3, <1>4, Failed DEF RequestNames, Transitions

\* The transitional state a call writes stands for the state it came from.
LEMMA BeginStep ==
    ASSUME Base, TransientHeld, SettledCopies, Known, Course, NEW t \in Threads,
           BeginTransition(t) \/ BeginDelete(t), NEW s, s = task[t].tgt
    PROVE  UNCHANGED Service!vars
  <1> DEFINE c == task[t].copy
  <1>1. /\ pc[t] = "entered" /\ UNCHANGED <<up, lock, born, task>>
        /\ pc'[t] \in Inside /\ \A u \in Threads \ {t} : pc'[u] = pc[u]
    BY DEF BeginTransition, BeginDelete, Goto, Inside, Base, TypeOK
  <1>2. /\ lock = t /\ up /\ s \in Sandboxes /\ s \in born
        /\ c \in Record /\ c # NoRecord /\ Holder = c
    BY <1>1, AtWork DEF WithCopy
  <1>3. record[s] = c /\ c.state \in {"running", "paused"}
    BY <1>1 DEF Course, OnCourse, SettledCopies, WithCopy
  <1>4. Status(s) = c.state
    BY <1>2, <1>3, StatusUp DEF View
  <1>5. ASSUME NEW x \in States, PutCopy(t, x),
               x = "killing" \/ \E o \in Transitions : c.state = From(o) /\ x = Via(o)
        PROVE  \A k \in Sandboxes : Same(k)
    <2>1. /\ record'[s] # NoRecord /\ record'[s].state = x /\ record'[s].ttl = c.ttl
          /\ \A k \in Sandboxes \ {s} : record'[k] = record[k]
      BY <1>2, <1>5, CopyPut DEF Base
    <2>2. \A k \in Sandboxes \ {s} : Same(k)
      BY <1>1, <1>2, <2>1, Undisturbed DEF Holder, Same
    <2>3. Status(s)' = View(x, c)
      <3>1. Holder' = c
        BY <1>1, <1>2 DEF Holder
      <3>2. View(x, c) # "unborn" /\ up' /\ s \in born'
        BY <1>1, <1>2, <1>5 DEF View, Via
      <3> QED
        BY <1>2, <2>1, <3>1, <3>2, StatusUpNext
    <2>4. View(x, c) = c.state
      BY <1>2, <1>3, <1>5 DEF View, From, Via, Transitions
    <2>5. Same(s)
      BY <1>3, <1>4, <2>1, <2>3, <2>4 DEF Same, Deadline
    <2> QED
      BY <2>2, <2>5
  <1>6. ASSUME BeginTransition(t) PROVE \A k \in Sandboxes : Same(k)
    <2>1. /\ Via(task[t].op) \in States /\ PutCopy(t, Via(task[t].op))
          /\ task[t].op \in Transitions /\ c.state = From(task[t].op)
      BY <1>6, StatesPut DEF BeginTransition
    <2> QED
      BY <1>5, <2>1
  <1>7. ASSUME BeginDelete(t) PROVE \A k \in Sandboxes : Same(k)
    <2>1. "killing" \in States /\ PutCopy(t, "killing")
      BY <1>7, StatesPut DEF BeginDelete
    <2> QED
      BY <1>5, <2>1
  <1>8. \A u \in Threads : InFlight(u)' = InFlight(u)
    BY <1>1 DEF InFlight, Inside
  <1>9. \A k \in Sandboxes : Same(k)
    BY <1>6, <1>7
  <1> QED
    BY <1>8, <1>9, Stutter

\* How the states of a transition show.
LEMMA TransitionView ==
    ASSUME NEW o \in Transitions, NEW c
    PROVE  /\ View(Via(o), c) = From(o) /\ View(To(o), c) = To(o)
           /\ From(o) \in Service!Finds(o) /\ To(o) = Service!Leaves(o, From(o))
  BY DEF View, Via, From, To, Transitions, Service!Finds, Service!Leaves, Service!Live

\* A deadline shows while the sandbox is live.
LEMMA LiveDeadline ==
    ASSUME NEW s, Status(s) \in {"running", "paused"}, record[s].ttl \in BOOLEAN
    PROVE  Deadline(s) = record[s].ttl
  BY DEF Deadline

LEMMA LiveDeadlineNext ==
    ASSUME NEW s, Status(s)' \in {"running", "paused"}, record'[s].ttl \in BOOLEAN
    PROVE  Deadline(s)' = record'[s].ttl
  BY DEF Deadline

\* What a call that works on its sandbox, and returns or raises, leaves alone.
LEMMA EndsAt ==
    ASSUME Base, TransientHeld, Known, NEW t \in Threads, NEW s, s = task[t].tgt,
           pc[t] \in WithCopy, task[t].op # "create", Return(t) \/ Raise(t),
           UNCHANGED <<up, born>>, \A k \in Sandboxes \ {s} : record'[k] = record[k]
    PROVE  /\ InFlight(t)' = NoCall
           /\ \A u \in Threads \ {t} : InFlight(u)' = InFlight(u)
           /\ \A k \in Sandboxes \ {s} : Same(k)
  BY AtWork, Leaving, OthersKept

\* The last write of a transition commits it.
LEMMA SettleStep ==
    ASSUME Base, TransientHeld, Known, Course, NEW t \in Threads, Settle(t),
           NEW s, s = task[t].tgt, NEW o, o = task[t].op
    PROVE  Service!Next
  <1> DEFINE c == task[t].copy
  <1>1. /\ pc[t] = "settle" /\ Return(t) /\ UNCHANGED <<up, born>> /\ PutCopy(t, To(o))
    BY DEF Settle
  <1>2. /\ lock = t /\ up /\ s \in Sandboxes /\ s \in born /\ c \in Record /\ c # NoRecord
        /\ (o # "create" => InFlight(t) = ACall(o, s))
    BY <1>1, AtWork DEF WithCopy
  <1>3. /\ o \in Transitions /\ c.state = From(o)
        /\ record[s] # NoRecord /\ record[s].state = Via(o) /\ record[s].ttl = c.ttl
    BY <1>1 DEF Course, OnCourse, InTransition
  <1>4. /\ record'[s] # NoRecord /\ record'[s].state = To(o) /\ record'[s].ttl = c.ttl
        /\ \A k \in Sandboxes \ {s} : record'[k] = record[k]
    BY <1>1, <1>2, StatesPut, CopyPut DEF Base
  <1>5. /\ InFlight(t)' = NoCall
        /\ \A u \in Threads \ {t} : InFlight(u)' = InFlight(u)
        /\ \A k \in Sandboxes \ {s} : Same(k)
    BY <1>1, <1>3, <1>4, EndsAt DEF WithCopy, Transitions
  <1>6. Status(s) = From(o) /\ Status(s)' = To(o)
    BY <1>1, <1>2, <1>3, <1>4, TransitionView, StatusUp, StatusUpNext
  <1>7. Deadline(s) = c.ttl /\ Deadline(s)' = c.ttl /\ c.ttl \in BOOLEAN
    <2>1. Status(s) \in {"running", "paused"} /\ Status(s)' \in {"running", "paused"}
      BY <1>6 DEF From, To
    <2>2. c.ttl \in BOOLEAN
      BY <1>2 DEF Record
    <2> QED
      BY <2>1, <2>2, <1>3, <1>4, LiveDeadline, LiveDeadlineNext
  <1>8. Deadline(s)' = (o \notin {"delete", "clear"} /\ (o = "arm" \/ Deadline(s)))
    BY <1>3, <1>7 DEF Transitions
  <1>9. Status(s) \in Service!Finds(o) /\ Status(s)' = Service!Leaves(o, Status(s))
    BY <1>3, <1>6, TransitionView
  <1>10. o \in RequestNames \ {"create"}
    BY <1>3 DEF RequestNames, Transitions
  <1> QED
    BY <1>2, <1>5, <1>8, <1>9, <1>10, Committed

\* A rollback shows the status the call found.
LEMMA UndoStep ==
    ASSUME Base, TransientHeld, SettledCopies, Known, Course, NEW t \in Threads, Undo(t),
           NEW s, s = task[t].tgt, NEW o, o = task[t].op
    PROVE  Service!Next
  <1> DEFINE c == task[t].copy
  <1>1. /\ pc[t] = "undo" /\ Raise(t) /\ UNCHANGED <<up, born>> /\ PutCopy(t, c.state)
    BY DEF Undo
  <1>2. /\ lock = t /\ up /\ s \in Sandboxes /\ s \in born /\ c \in Record /\ c # NoRecord
        /\ Holder = c /\ (o # "create" => InFlight(t) = ACall(o, s))
    BY <1>1, AtWork DEF WithCopy
  <1>3. /\ o \in Transitions \cup {"delete"} /\ c.state \in {"running", "paused"}
        /\ o \in Transitions => record[s].state = Via(o) /\ c.state = From(o)
        /\ o = "delete" => record[s].state = "killing"
        /\ record[s] # NoRecord /\ record[s].ttl = c.ttl
    BY <1>1 DEF Course, OnCourse, InTransition, InDelete, SettledCopies, WithCopy
  <1>4. /\ record'[s] # NoRecord /\ record'[s].state = c.state /\ record'[s].ttl = c.ttl
        /\ \A k \in Sandboxes \ {s} : record'[k] = record[k]
    <2>1. c.state \in States
      BY <1>3 DEF States
    <2> QED
      BY <1>1, <1>2, <2>1, CopyPut DEF Base
  <1>5. /\ InFlight(t)' = NoCall
        /\ \A u \in Threads \ {t} : InFlight(u)' = InFlight(u)
        /\ \A k \in Sandboxes \ {s} : Same(k)
    BY <1>1, <1>3, <1>4, EndsAt DEF WithCopy, Transitions
  <1>6. Status(s)' = c.state
    BY <1>1, <1>2, <1>3, <1>4, StatusUpNext DEF View
  <1>7. Status(s) = c.state
    <2>1. CASE o \in Transitions
      BY <2>1, <1>2, <1>3, TransitionView, StatusUp
    <2>2. CASE o = "delete"
      BY <2>2, <1>2, <1>3, StatusUp DEF View
    <2> QED
      BY <1>3, <2>1, <2>2
  <1>8. Same(s)
    BY <1>3, <1>4, <1>6, <1>7 DEF Same, Deadline
  <1>9. o \in RequestNames \ {"create"}
    BY <1>3 DEF RequestNames, Transitions
  <1> QED
    BY <1>2, <1>5, <1>8, <1>9, Failed

\* Dropping the record commits a delete.
LEMMA DropStep ==
    ASSUME Base, TransientHeld, SettledCopies, Known, Course, NEW t \in Threads, DropRecord(t),
           NEW s, s = task[t].tgt
    PROVE  Service!Next
  <1> DEFINE c == task[t].copy
  <1>1. /\ pc[t] = "dropping" /\ Return(t) /\ UNCHANGED <<up, born>> /\ Put(s, NoRecord)
    BY DEF DropRecord
  <1>2. /\ lock = t /\ up /\ s \in Sandboxes /\ s \in born /\ c # NoRecord /\ Holder = c
        /\ (task[t].op # "create" => InFlight(t) = ACall(task[t].op, s))
    BY <1>1, AtWork DEF WithCopy
  <1>3. /\ task[t].op = "delete" /\ c.state \in {"running", "paused"}
        /\ record[s] # NoRecord /\ record[s].state = "killing"
    BY <1>1 DEF Course, OnCourse, InDelete, SettledCopies, WithCopy
  <1>4. /\ record'[s] = NoRecord
        /\ \A k \in Sandboxes \ {s} : record'[k] = record[k]
    BY <1>1, <1>2 DEF Put, Base, TypeOK
  <1>5. /\ InFlight(t)' = NoCall
        /\ \A u \in Threads \ {t} : InFlight(u)' = InFlight(u)
        /\ \A k \in Sandboxes \ {s} : Same(k)
    BY <1>1, <1>3, <1>4, EndsAt DEF WithCopy
  <1>6. Status(s) = c.state
    BY <1>2, <1>3, StatusUp DEF View
  <1>7. Status(s)' = "gone"
    BY <1>1, <1>2, <1>4, StatusUpNext
  <1>8. Deadline(s)' = FALSE
    BY <1>7 DEF Deadline
  <1>9. Status(s) \in Service!Finds("delete") /\ Status(s)' = Service!Leaves("delete", Status(s))
    BY <1>3, <1>6, <1>7 DEF Service!Finds, Service!Leaves, Service!Live
  <1> QED
    BY <1>2, <1>3, <1>5, <1>8, <1>9, Committed DEF RequestNames

\* Writing the TTL commits an arm or a clear.
LEMMA PutTimeoutStep ==
    ASSUME Base, TransientHeld, SettledCopies, Known, Course, NEW t \in Threads, PutTimeout(t),
           NEW s, s = task[t].tgt, NEW o, o = task[t].op
    PROVE  Service!Next
  <1> DEFINE c == task[t].copy
  <1> DEFINE r == [c EXCEPT !.ttl = (o = "arm")]
  <1>1. /\ pc[t] = "entered" /\ o \in {"arm", "clear"}
        /\ Return(t) /\ UNCHANGED <<up, born>> /\ Put(s, r)
    BY DEF PutTimeout
  <1>2. /\ lock = t /\ up /\ s \in Sandboxes /\ s \in born /\ c \in Record /\ c # NoRecord
        /\ (o # "create" => InFlight(t) = ACall(o, s))
    BY <1>1, AtWork DEF WithCopy
  <1>3. record[s] = c /\ c.state \in {"running", "paused"}
    BY <1>1 DEF Course, OnCourse, SettledCopies, WithCopy
  <1>4. r \in Record /\ r.state = c.state /\ r.ttl = (o = "arm")
    BY <1>2 DEF Record
  <1> HIDE DEF r
  <1>5. /\ record'[s] = r /\ r # NoRecord
        /\ \A k \in Sandboxes \ {s} : record'[k] = record[k]
    BY <1>1, <1>2, <1>4, RecordPut DEF Base
  <1>6. /\ InFlight(t)' = NoCall
        /\ \A u \in Threads \ {t} : InFlight(u)' = InFlight(u)
        /\ \A k \in Sandboxes \ {s} : Same(k)
    BY <1>1, <1>5, EndsAt DEF WithCopy
  <1>7. Status(s) = c.state /\ Status(s)' = c.state
    BY <1>1, <1>2, <1>3, <1>4, <1>5, StatusUp, StatusUpNext DEF View
  <1>8. Deadline(s)' = (o = "arm")
    <2>1. record'[s].ttl = (o = "arm") /\ record'[s].ttl \in BOOLEAN
      BY <1>4, <1>5
    <2> QED
      BY <2>1, <1>3, <1>7 DEF Deadline
  <1>9. Status(s) \in Service!Finds(o) /\ Status(s)' = Service!Leaves(o, Status(s))
    BY <1>1, <1>3, <1>7 DEF Service!Finds, Service!Leaves, Service!Live
  <1>10. Deadline(s)' = (o \notin {"delete", "clear"} /\ (o = "arm" \/ Deadline(s)))
    BY <1>1, <1>8
  <1>11. o \in RequestNames \ {"create"}
    BY <1>1 DEF RequestNames
  <1> QED
    BY <1>1, <1>2, <1>6, <1>9, <1>10, <1>11, Committed

\* What a thread that creates a sandbox knows of it.
LEMMA AtCreation ==
    ASSUME Base, Course, NEW t \in Threads, pc[t] \in CreatePlaces
    PROVE  /\ lock = t /\ up /\ pc[t] \in Inside /\ task[t].op \in {"create", "fork"}
           /\ task[t].kid \in Sandboxes /\ task[t].kid \in born
           /\ record[task[t].kid] \in Record /\ record[task[t].kid] # NoRecord
           /\ record[task[t].kid].state = "creating"
           /\ Status(task[t].kid) = "unborn"
           /\ task[t].op = "create" => InFlight(t) = ACall("create", task[t].kid)
           /\ task[t].op = "fork" => /\ InFlight(t) = ACall("fork", task[t].tgt)
                                     /\ record[task[t].kid].ttl = FALSE
  <1>1. pc[t] \in Inside
    BY DEF CreatePlaces, Inside
  <1>2. /\ lock = t /\ up /\ task[t].op \in {"create", "fork"}
        /\ task[t].kid \in Sandboxes /\ task[t].kid \in born
        /\ record[task[t].kid] \in Record /\ record[task[t].kid] # NoRecord
        /\ record[task[t].kid].state = "creating"
        /\ task[t].op = "fork" => record[task[t].kid].ttl = FALSE
    BY <1>1, Owner, ConstantsAssumption DEF Base, LocalsOK, Course, OnCourse
  <1>3. Status(task[t].kid) = "unborn"
    BY <1>2, StatusUp DEF View
  <1> QED
    BY <1>1, <1>2, <1>3 DEF InFlight, ACall

\* The end of a creation: the call's, or that of a child of a fork.
LEMMA CreationEnds ==
    ASSUME Base, TransientHeld, Course, NEW t \in Threads, pc[t] \in CreatePlaces,
           NEW s, s = task[t].kid, UNCHANGED <<up, born>>,
           \A k \in Sandboxes \ {s} : record'[k] = record[k],
           IF task[t].op = "fork" THEN pc'[t] \in Inside /\ UNCHANGED task
                                       /\ \A u \in Threads \ {t} : pc'[u] = pc[u]
                                  ELSE Return(t) \/ Raise(t),
           \/ Status(s)' = "gone" /\ Deadline(s)' = FALSE
           \/ /\ Status(s)' = "running" /\ Deadline(s)' \in BOOLEAN
              /\ task[t].op = "fork" => Deadline(s)' = FALSE
              /\ Return(t) \/ task[t].op = "fork"
    PROVE  Service!Next
  <1>1. /\ lock = t /\ up /\ pc[t] \in Inside /\ task[t].op \in {"create", "fork"}
        /\ s \in Sandboxes /\ Status(s) = "unborn"
        /\ task[t].op = "create" => InFlight(t) = ACall("create", s)
        /\ task[t].op = "fork" => InFlight(t) = ACall("fork", task[t].tgt)
    BY AtCreation
  <1>2. \A k \in Sandboxes \ {s} : Same(k)
    BY <1>1, OthersKept
  <1>3. CASE task[t].op = "fork"
    <2>1. \A u \in Threads : InFlight(u)' = InFlight(u)
      BY <1>1, <1>3 DEF InFlight
    <2> QED
      BY <1>1, <1>2, <1>3, <2>1, Forked
  <1>4. CASE task[t].op = "create"
    <2>1. /\ InFlight(t)' = NoCall
          /\ \A u \in Threads \ {t} : InFlight(u)' = InFlight(u)
      BY <1>1, <1>4, Leaving
    <2>2. CASE Status(s)' = "gone" /\ Deadline(s)' = FALSE
      BY <1>1, <1>2, <1>4, <2>1, <2>2, Failed DEF RequestNames
    <2>3. CASE Status(s)' = "running" /\ Deadline(s)' \in BOOLEAN
      BY <1>1, <1>2, <1>4, <2>1, <2>3, Created
    <2> QED
      BY <2>2, <2>3
  <1> QED
    BY <1>1, <1>3, <1>4

\* Publishing the record ends a creation well.
LEMMA PublishStep ==
    ASSUME Base, TransientHeld, Course, NEW t \in Threads, Publish(t),
           NEW s, s = task[t].kid
    PROVE  Service!Next
  <1> DEFINE r == [record[s] EXCEPT !.state = "running"]
  <1>1. pc[t] \in CreatePlaces /\ Put(s, r) /\ UNCHANGED <<up, born>>
    BY DEF Publish, CreatePlaces
  <1>2. /\ up /\ s \in Sandboxes /\ s \in born /\ record[s] \in Record
        /\ task[t].op = "fork" => record[s].ttl = FALSE
    BY <1>1, AtCreation
  <1>3. r \in Record /\ r.state = "running" /\ r.ttl = record[s].ttl
    BY <1>2, StateUpdate DEF Record, States
  <1> HIDE DEF r
  <1>4. /\ record'[s] = r /\ r # NoRecord
        /\ \A k \in Sandboxes \ {s} : record'[k] = record[k]
    BY <1>1, <1>2, <1>3, RecordPut DEF Base
  <1>5. Status(s)' = "running"
    BY <1>1, <1>2, <1>3, <1>4, StatusUpNext DEF View
  <1>6. Deadline(s)' = record[s].ttl /\ record[s].ttl \in BOOLEAN
    <2>1. record'[s].ttl \in BOOLEAN /\ record'[s].ttl = record[s].ttl
      BY <1>2, <1>3, <1>4 DEF Record
    <2> QED
      BY <1>5, <2>1, LiveDeadlineNext
  <1>7. IF task[t].op = "fork" THEN pc'[t] \in Inside /\ UNCHANGED task
                                    /\ \A u \in Threads \ {t} : pc'[u] = pc[u]
                               ELSE Return(t)
    BY DEF Publish, Goto, Inside, Base, TypeOK
  <1> QED
    BY <1>1, <1>2, <1>4, <1>5, <1>6, <1>7, CreationEnds

\* Taking the record back ends it badly.
LEMMA AbortStep ==
    ASSUME Base, TransientHeld, Course, NEW t \in Threads, Abort(t),
           NEW s, s = task[t].kid
    PROVE  Service!Next
  <1>1. pc[t] \in CreatePlaces /\ Put(s, NoRecord) /\ UNCHANGED <<up, born>>
    BY DEF Abort, CreatePlaces
  <1>2. up /\ s \in Sandboxes /\ s \in born
    BY <1>1, AtCreation
  <1>3. record'[s] = NoRecord /\ \A k \in Sandboxes \ {s} : record'[k] = record[k]
    BY <1>1, <1>2 DEF Put, Base, TypeOK
  <1>4. Status(s)' = "gone"
    BY <1>1, <1>2, <1>3, StatusUpNext
  <1>5. Deadline(s)' = FALSE
    BY <1>4 DEF Deadline
  <1>6. IF task[t].op = "fork" THEN pc'[t] \in Inside /\ UNCHANGED task
                                    /\ \A u \in Threads \ {t} : pc'[u] = pc[u]
                               ELSE Raise(t)
    BY DEF Abort, Goto, Inside, Base, TypeOK
  <1> QED
    BY <1>1, <1>3, <1>4, <1>5, <1>6, CreationEnds

\* The record of a child that is being created does not show.
LEMMA SpawnStep ==
    ASSUME Base, TransientHeld, Course, NEW t \in Threads, NEW s \in Sandboxes, Spawn(t, s)
    PROVE  UNCHANGED Service!vars
  <1>1. /\ pc[t] = "spawn" /\ pc[t] \in Inside /\ pc'[t] \in Inside
        /\ task'[t].op = task[t].op /\ task'[t].tgt = task[t].tgt
        /\ task'[t].copy = task[t].copy
        /\ \A u \in Threads \ {t} : pc'[u] = pc[u] /\ task'[u] = task[u]
        /\ UNCHANGED <<up, lock>> /\ born' = born \cup {s} /\ s \notin born
    BY DEF Spawn, Goto, Inside, Base, TypeOK, Task
  <1>2. up /\ task[t].op = "fork" /\ lock = t
    BY <1>1, Owner DEF Base, LocalsOK
  <1>3. /\ record'[s] # NoRecord /\ record'[s].state = "creating"
        /\ \A k \in Sandboxes \ {s} : record'[k] = record[k]
    <2> DEFINE r == [state |-> "creating", ttl |-> FALSE, onTimeout |-> task[t].copy.onTimeout]
    <2>1. r \in Record /\ r.state = "creating"
      BY <1>1, <1>2 DEF Base, LocalsOK, WithCopy, Record, States, Transitional
    <2>2. Put(s, r)
      BY DEF Spawn
    <2> HIDE DEF r
    <2> QED
      BY <2>1, <2>2, RecordPut DEF Base
  <1>4. Holder' = Holder
    BY <1>1, <1>2 DEF Holder
  <1>5. Same(s)
    <2>1. Status(s) = "unborn" /\ Status(s)' = "unborn"
      BY <1>1, <1>2, <1>3, StatusUp, StatusUpNext DEF View
    <2> QED
      BY <2>1 DEF Same, Deadline
  <1>6. \A k \in Sandboxes \ {s} : Same(k)
    <2>1. \A k \in Sandboxes \ {s} : k \in born' <=> k \in born
      BY <1>1
    <2> QED
      BY <1>1, <1>2, <1>3, <1>4, <2>1, Undisturbed DEF Same
  <1>7. \A u \in Threads : InFlight(u)' = InFlight(u)
    BY <1>1, <1>2 DEF InFlight
  <1> QED
    BY <1>5, <1>6, <1>7, Stutter

\* The second half of a wake that finds its sandbox gone shows nothing.
LEMMA RearmMissesStep ==
    ASSUME Base, TransientHeld, NEW t \in Threads, RearmMisses(t)
    PROVE  UNCHANGED Service!vars
  <1>1. /\ pc[t] = "rearm" /\ lock = NoThread /\ UNCHANGED <<up, lock, record, born>>
        /\ pc'[t] = "idle" /\ \A u \in Threads \ {t} : pc'[u] = pc[u] /\ task'[u] = task[u]
    BY DEF RearmMisses, Goto, Base, TypeOK
  <1>2. up /\ lock \notin Threads
    BY <1>1, ConstantsAssumption DEF Base, DownIdle
  <1>3. \A k \in Sandboxes : Same(k)
    BY <1>1, <1>2, AllKept
  <1>4. \A u \in Threads : InFlight(u)' = InFlight(u)
    BY <1>1 DEF InFlight, Inside
  <1> QED
    BY <1>3, <1>4, Stutter

\* While the process is down, an interrupted call is decided.
LEMMA StatusDown ==
    ASSUME NEW s \in Sandboxes, ~up, s \in born, record[s] \in Record, record[s] # NoRecord
    PROVE  Status(s) = IF Interrupted(s)
                       THEN IF record[s].state = "killing" \/ ~Alive(s) THEN "gone" ELSE "running"
                       ELSE record[s].state
  BY DEF Status, Interrupted, Record, States, Transitional

LEMMA StatusDownNext ==
    ASSUME NEW s \in Sandboxes, ~up', s \in born', record'[s] \in Record, record'[s] # NoRecord
    PROVE  Status(s)' = IF Interrupted(s)'
                        THEN IF record'[s].state = "killing" \/ ~Alive(s)' THEN "gone"
                             ELSE "running"
                        ELSE record'[s].state
  BY DEF Status, Interrupted, Record, States, Transitional

\* A crash decides each call in flight one way or the other.
LEMMA CrashStep ==
    ASSUME Base, TransientHeld, SettledCopies, Known, Course, Backed, Crash
    PROVE  Service!Next
  <1>1. /\ up /\ ~up' /\ UNCHANGED <<record, born, workspace, instance>>
        /\ \A t \in Threads : pc'[t] = "idle"
    BY DEF Crash
  <1>2. [t \in Threads |-> InFlight(t)]' = [t \in Threads |-> NoCall]
    BY <1>1 DEF InFlight, Inside
  <1>3. ASSUME NEW s \in Sandboxes
        PROVE  \/ Same(s)
               \/ Status(s) = "unborn" /\ Status(s)' \in {"running", "gone"}
               \/ \E t \in Threads :
                     /\ InFlight(t) # NoCall /\ InFlight(t).on = s
                     /\ Status(s) \in Service!Finds(InFlight(t).op)
                     /\ Status(s)' = Service!Leaves(InFlight(t).op, Status(s))
                     /\ Deadline(s)' \in {Deadline(s), FALSE}
    <2>1. CASE s \notin born
      BY <1>1, <2>1 DEF Same, Status, Deadline
    <2>2. CASE record[s] = NoRecord
      BY <1>1, <2>2 DEF Same, Status, Deadline
    <2>3. CASE s \in born /\ record[s] # NoRecord
      <3>1. record[s] \in Record /\ record[s].ttl \in BOOLEAN
        BY <2>3 DEF Base, TypeOK, Record
      <3>2. /\ Interrupted(s)' = Interrupted(s) /\ record'[s] = record[s] /\ s \in born'
            /\ Status(s)' = IF Interrupted(s)
                            THEN IF record[s].state = "killing" \/ ~Alive(s)' THEN "gone"
                                 ELSE "running"
                            ELSE record[s].state
        <4>1. (Interrupted(s)' = Interrupted(s)) /\ record'[s] = record[s] /\ s \in born'
          BY <1>1, <2>3 DEF Interrupted
        <4> QED
          BY <4>1, <1>1, <2>3, <3>1, StatusDownNext
      <3>3. CASE ~Interrupted(s)
        <4>1. record[s].state \in {"running", "paused"}
          BY <2>3, <3>1, <3>3 DEF Interrupted, Record, States
        <4>2. Status(s) = record[s].state
          BY <1>1, <2>3, <4>1, StatusUp DEF View
        <4> QED
          BY <3>2, <3>3, <4>2 DEF Same, Deadline
      <3>4. CASE record[s].state = "creating"
        <4>1. Status(s) = "unborn"
          BY <1>1, <2>3, <3>4, StatusUp DEF View
        <4>2. Interrupted(s)
          BY <2>3, <3>4 DEF Interrupted, Transitional
        <4> QED
          BY <3>2, <4>1, <4>2
      <3>5. CASE record[s].state = "killing"
        <4>1. /\ lock \in Threads /\ task[lock].op = "delete" /\ task[lock].tgt = s
              /\ pc[lock] \in {"destroying", "wiping", "dropping", "undo"}
          BY <1>1, <2>3, <3>5, OneKilled
        <4>2. /\ InFlight(lock) = ACall("delete", s)
              /\ Holder # NoRecord /\ Holder.state \in {"running", "paused"}
          BY <4>1, AtWork DEF WithCopy, SettledCopies
        <4>3. Status(s) \in {"running", "paused"}
          BY <1>1, <2>3, <3>5, <4>2, StatusUp DEF View
        <4>4. Status(s)' = "gone"
          BY <2>3, <3>2, <3>5 DEF Interrupted, Transitional
        <4>5. Deadline(s)' = FALSE
          BY <4>4 DEF Deadline
        <4>6. InFlight(lock) # NoCall /\ InFlight(lock).op = "delete" /\ InFlight(lock).on = s
          BY <4>2, NotNoCall DEF ACall, RequestNames
        <4> QED
          BY <4>1, <4>3, <4>4, <4>5, <4>6 DEF Service!Finds, Service!Leaves, Service!Live
      <3>6. CASE Interrupted(s) /\ record[s].state \notin {"creating", "killing"}
        <4>1. Alive(s)'
          <5>1. Exists(s)
            BY <2>3, <3>6 DEF Backed
          <5> QED
            BY <5>1, <1>1, <3>6, ConstantsAssumption DEF Alive, Exists, HasInstance, HasFiles
        <4>2. Status(s)' = "running" /\ Deadline(s)' = record[s].ttl
          <5>1. Status(s)' = "running"
            BY <3>2, <3>6, <4>1
          <5> QED
            BY <5>1, <3>1, <3>2, LiveDeadlineNext
        <4>3. /\ lock \in Threads /\ task[lock].op \in Transitions /\ task[lock].tgt = s
              /\ record[s].state = Via(task[lock].op)
              /\ pc[lock] \in {"calling", "spawn", "settle", "undo"} \cup CreatePlaces
          BY <1>1, <3>6 DEF TransientHeld, Working
        <4>4. Status(s) = From(task[lock].op) /\ Deadline(s) = record[s].ttl
          <5>1. Status(s) = From(task[lock].op)
            BY <1>1, <2>3, <4>3, StatusUp, TransitionView
          <5>2. From(task[lock].op) \in {"running", "paused"}
            BY DEF From
          <5> QED
            BY <5>1, <5>2, <3>1, LiveDeadline
        <4>5. CASE Status(s) = "running"
          BY <4>2, <4>4, <4>5 DEF Same
        <4>6. CASE Status(s) = "paused"
          <5>1. task[lock].op \in {"resume", "wake"}
            BY <4>4, <4>6 DEF From
          <5>2. InFlight(lock) = ACall(task[lock].op, s)
            BY <4>3, <5>1 DEF InFlight, ACall, CreatePlaces, Inside
          <5>3. /\ InFlight(lock) # NoCall /\ InFlight(lock).on = s
                /\ InFlight(lock).op = task[lock].op
            BY <5>1, <5>2, NotNoCall DEF ACall, RequestNames
          <5>4. /\ Status(s) \in Service!Finds(InFlight(lock).op)
                /\ Status(s)' = Service!Leaves(InFlight(lock).op, Status(s))
            BY <4>2, <4>6, <5>1, <5>3 DEF Service!Finds, Service!Leaves, Service!Live
          <5> QED
            BY <4>2, <4>3, <4>4, <5>3, <5>4
        <4>7. Status(s) \in {"running", "paused"}
          BY <4>4 DEF From
        <4> QED
          BY <4>5, <4>6, <4>7
      <3> QED
        BY <3>3, <3>4, <3>5, <3>6
    <2> QED
      BY <2>1, <2>2, <2>3
  <1>4. Service!Crash
    BY <1>2, <1>3 DEF Service!Crash, Same
  <1> QED
    BY <1>4 DEF Service!Next

\* A recovery that changes no more than one record, each according to what its
\* status was decided to be, shows nothing.
LEMMA RecoveryStep ==
    ASSUME Base, Base', Known, NEW s \in Sandboxes,
           RecoverKeep(s) \/ RecoverDestroy(s) \/ RecoverForget(s) \/ RecoverStops(s)
    PROVE  UNCHANGED Service!vars
  <1>1. /\ ~up /\ ~up' /\ UNCHANGED <<born, pc>> /\ s \in born
        /\ record[s] # NoRecord /\ record[s] \in Record /\ Interrupted(s)
    BY DEF RecoverKeep, RecoverDestroy, RecoverForget, RecoverStops, Recoverable, Interrupted,
           Known, Base, TypeOK
  <1>2. \A t \in Threads : InFlight(t)' = InFlight(t)
    BY <1>1 DEF InFlight, Base, DownIdle, Inside
  <1>3. \A k \in Sandboxes \ {s} : /\ record'[k] = record[k]
                                   /\ workspace'[k] = workspace[k] /\ instance'[k] = instance[k]
    BY DEF RecoverKeep, RecoverDestroy, RecoverForget, RecoverStops, Put, Base, TypeOK
  <1>4. \A k \in Sandboxes \ {s} : Same(k)
    <2> SUFFICES ASSUME NEW k \in Sandboxes \ {s} PROVE Same(k)
      OBVIOUS
    <2>1. (Interrupted(k)' = Interrupted(k)) /\ (Alive(k)' = Alive(k))
      BY <1>3 DEF Interrupted, Alive, HasFiles
    <2>2. Status(k)' = Status(k)
      <3>1. CASE k \notin born
        BY <1>1, <3>1 DEF Status
      <3>2. CASE record[k] = NoRecord
        BY <1>1, <1>3, <3>2 DEF Status
      <3>3. CASE k \in born /\ record[k] # NoRecord
        <4>1. record[k] \in Record
          BY <3>3 DEF Base, TypeOK
        <4> QED
          BY <1>1, <1>3, <2>1, <3>3, <4>1, StatusDown, StatusDownNext
      <3> QED
        BY <3>1, <3>2, <3>3
    <2> QED
      BY <1>3, <2>2 DEF Same, Deadline
  <1>5. Same(s)
    <2>1. CASE RecoverKeep(s)
      <3>1. Status(s) = "running"
        BY <1>1, <2>1, StatusDown DEF RecoverKeep
      <3> DEFINE r == [record[s] EXCEPT !.state = "running"]
      <3>2. r \in Record /\ r.state = "running" /\ r.ttl = record[s].ttl
        BY <1>1, StateUpdate DEF Record, States
      <3>3. Put(s, r)
        BY <2>1 DEF RecoverKeep
      <3> HIDE DEF r
      <3>4. record'[s] = r /\ r # NoRecord
        BY <3>2, <3>3, RecordPut DEF Base
      <3>5. Status(s)' = "running"
        <4>1. ~Interrupted(s)'
          BY <3>2, <3>4 DEF Interrupted, Transitional
        <4> QED
          BY <1>1, <3>2, <3>4, <4>1, StatusDownNext
      <3> QED
        BY <3>1, <3>2, <3>4, <3>5 DEF Same, Deadline
    <2>2. CASE RecoverDestroy(s) \/ RecoverStops(s)
      <3>1. record[s].state = "killing" /\ record' = record
        BY <2>2 DEF RecoverDestroy, RecoverStops
      <3>2. Interrupted(s)'
        BY <1>1, <3>1 DEF Interrupted
      <3>3. Status(s) = "gone" /\ Status(s)' = "gone"
        BY <1>1, <3>1, <3>2, StatusDown, StatusDownNext
      <3> QED
        BY <3>3 DEF Same, Deadline
    <2>3. CASE RecoverForget(s)
      <3>1. Status(s) = "gone"
        BY <1>1, <2>3, StatusDown DEF RecoverForget
      <3>2. record'[s] = NoRecord
        BY <2>3 DEF RecoverForget, Put, Base, TypeOK
      <3>3. Status(s)' = "gone"
        BY <1>1, <3>2 DEF Status
      <3> QED
        BY <3>1, <3>3 DEF Same, Deadline
    <2> QED
      BY <2>1, <2>2, <2>3
  <1> QED
    BY <1>2, <1>4, <1>5, Stutter

\* Once nothing is interrupted, starting to serve shows nothing either.
LEMMA ServeStep ==
    ASSUME Base, Serve
    PROVE  UNCHANGED Service!vars
  <1>1. ~up /\ up' /\ UNCHANGED <<record, born, pc, task>> /\ \A k \in Sandboxes : ~Interrupted(k)
    BY DEF Serve
  <1>2. \A t \in Threads : InFlight(t)' = InFlight(t)
    BY <1>1 DEF InFlight
  <1>3. ASSUME NEW k \in Sandboxes PROVE Same(k)
    <2>1. CASE k \notin born
      BY <1>1, <2>1 DEF Status, Same, Deadline
    <2>2. CASE record[k] = NoRecord
      BY <1>1, <2>2 DEF Status, Same, Deadline
    <2>3. CASE k \in born /\ record[k] # NoRecord
      <3>1. record[k] \in Record /\ record[k].state \in {"running", "paused"}
        BY <1>1, <2>3 DEF Base, TypeOK, Interrupted, Record, States
      <3>2. Status(k) = record[k].state
        BY <1>1, <2>3, <3>1, StatusDown
      <3>3. Status(k)' = record[k].state
        BY <1>1, <2>3, <3>1, StatusUpNext DEF View
      <3> QED
        BY <1>1, <3>2, <3>3 DEF Same, Deadline
    <2> QED
      BY <2>1, <2>2, <2>3
  <1> QED
    BY <1>2, <1>3, Stutter

\* What a thread does in a call.
LEMMA ProceedStep ==
    ASSUME Base, TransientHeld, SettledCopies, Known, Course, NEW t \in Threads, Proceed(t)
    PROVE  Service!Next \/ UNCHANGED Service!vars
  <1>1. CASE AlreadyThere(t) \/ Refuse(t)
    BY <1>1, AlreadyThereStep, RefuseStep
  <1>2. CASE BeginTransition(t) \/ BeginDelete(t)
    BY <1>2, BeginStep
  <1>3. CASE Settle(t) \/ Undo(t)
    BY <1>3, SettleStep, UndoStep
  <1>4. CASE DropRecord(t) \/ PutTimeout(t)
    BY <1>4, DropStep, PutTimeoutStep
  <1>5. CASE Publish(t) \/ Abort(t)
    BY <1>5, PublishStep, AbortStep
  <1>6. CASE (\E s \in Sandboxes : Spawn(t, s)) \/ RearmMisses(t)
    BY <1>6, SpawnStep, RearmMissesStep
  <1>7. CASE Rearm(t)
    <2>1. /\ pc[t] = "rearm" /\ record[task[t].tgt] # NoRecord /\ Enter(t, "arm", task[t].tgt)
      BY <1>7 DEF Rearm
    <2>2. /\ task[t].tgt \in Sandboxes /\ up /\ up' /\ pc[t] \in Outside
      BY <2>1 DEF Base, LocalsOK, DownIdle, Enter, Outside
    <2> QED
      BY <2>1, <2>2, EnterStep DEF RequestNames
  <1>8. CASE \/ Call(t) \/ CallFails(t) \/ ForkDone(t) \/ BeginCopy(t) \/ EndCopy(t)
             \/ CopyFails(t) \/ StartInstance(t) \/ StartFails(t)
             \/ DestroyInstance(t) \/ DestroyFails(t) \/ WipeWorkspace(t) \/ WipeFails(t)
    <2>1. /\ pc[t] \in Inside /\ UNCHANGED <<up, lock, record, born, task>>
          /\ pc'[t] \in Inside /\ \A u \in Threads \ {t} : pc'[u] = pc[u]
      BY <1>8 DEF Call, CallFails, ForkDone, BeginCopy, EndCopy, CopyFails, StartInstance,
         StartFails, DestroyInstance, DestroyFails, WipeWorkspace, WipeFails, Goto, Inside,
         Base, TypeOK
    <2>2. up
      BY <2>1, Owner
    <2> QED
      BY <2>1, <2>2, Silent
  <1> QED
    BY <1>1, <1>2, <1>3, <1>4, <1>5, <1>6, <1>7, <1>8 DEF Proceed

\* A step of the maintenance worker, which only kills.
LEMMA MaintainStep ==
    ASSUME TimeoutActions = {"kill"}, Base, Held, Known, Maintain
    PROVE  Service!Next \/ UNCHANGED Service!vars
  <1>1. ASSUME NEW s \in Sandboxes, Evict(s) PROVE Service!Next
    <2>1. /\ up /\ up' /\ pc[Maint] \in Outside /\ Maint \in Threads /\ lock = NoThread
          /\ record[s] # NoRecord
          /\ Enter(Maint, IF record[s].onTimeout = "pause" THEN "pause" ELSE "delete", s)
      BY <1>1 DEF Evict, Enter, Outside, Threads
    <2>2. record[s].onTimeout = "kill"
      BY <2>1, FreeLock DEF Held
    <2>3. Enter(Maint, "delete", s)
      BY <2>1, <2>2
    <2> QED
      BY <2>1, <2>3, EnterStep DEF Held, RequestNames
  <1>2. CASE (\E D \in SUBSET Sandboxes : List(D)) \/ (\E s \in Sandboxes : EvictMisses(s))
    BY <1>2, Silent DEF List, EvictMisses
  <1>3. ~(Reread \/ RereadMisses \/ WriteBack)
    BY DEF Held, KillOnly, Reread, RereadMisses, WriteBack
  <1> QED
    BY <1>1, <1>2, <1>3 DEF Maintain

\* Every step of the orchestrator is a step of the service, or none.
LEMMA ServiceStep ==
    ASSUME TimeoutActions = {"kill"}, "crash" \in Faults => Backed,
           Base, Base', Held, Known, Course, [Next]_vars
    PROVE  [Service!Next]_(Service!vars)
  <1> USE DEF Held
  <1>1. CASE UNCHANGED vars
    BY <1>1, Stutter DEF vars, Same, Status, Deadline, InFlight, Interrupted, Alive, HasFiles
  <1>2. ASSUME NEW t \in Threads, NEW s \in Sandboxes, NEW o \in RequestNames, Request(t, o, s)
        PROVE  Service!Next
    <2>1. /\ up /\ up' /\ pc[t] \in Outside /\ record[s] # NoRecord /\ Enter(t, o, s)
          /\ o \in RequestNames \ {"create"}
      BY <1>2 DEF Request, Enter, Outside
    <2> QED
      BY <2>1, EnterStep
  <1>3. ASSUME NEW t \in Threads, NEW s \in Sandboxes, NEW d \in BOOLEAN,
               NEW a \in TimeoutActions, Create(t, s, d, a)
        PROVE  Service!Next
    BY <1>3, CreateStep
  <1>4. ASSUME NEW t \in Threads, Proceed(t) PROVE Service!Next \/ UNCHANGED Service!vars
    BY <1>4, ProceedStep
  <1>5. CASE Maintain
    BY <1>5, MaintainStep
  <1>6. CASE Crash
    BY <1>6, CrashStep DEF Crash
  <1>7. CASE Recover \/ \E s \in Sandboxes : RecoverStops(s)
    BY <1>7, RecoveryStep, ServeStep DEF Recover
  <1>8. CASE Quiet
    BY <1>1, <1>8 DEF Quiet
  <1> QED
    BY <1>1, <1>2, <1>3, <1>4, <1>5, <1>6, <1>7, <1>8 DEF Next, Begin

\* On every backend, whatever calls fail, every lifecycle operation is atomic to
\* its callers, a failed one changes nothing, and a crash and the recovery after
\* it decide each operation in flight; on docker, where a delete that fails at
\* the workspace has removed the container, not both that fault and crashes.
THEOREM LifecycleImplementsService ==
    ASSUME TimeoutActions = {"kill"},
           Backend = "docker" => ~({"rmtree", "crash"} \subseteq Faults)
    PROVE  Spec => ImplementsService
  <1> DEFINE CrashBacked == "crash" \in Faults => Backed
  <1>1. Init => Held /\ Course /\ CrashBacked /\ Service!Init
    <2> SUFFICES ASSUME Init PROVE Held /\ Course /\ CrashBacked /\ Service!Init
      OBVIOUS
    <2>1. Held
      BY ConstantsAssumption DEF Init, Held, TransientHeld, Interrupted, SettledCopies,
         KillOnly, WithCopy, Inside, Threads, NoTask
    <2>2. Course
      BY DEF Init, Course, OnCourse, InTransition, InDelete, CreatePlaces
    <2>3. Backed
      BY DEF Init, Backed
    <2>4. Service!Init
      BY DEF Init, Service!Init, Status, Deadline, InFlight, Inside
    <2> QED
      BY <2>1, <2>2, <2>3, <2>4
  <1>2. Base /\ Base' /\ Held /\ [Next]_vars => Held'
    BY HeldStep
  <1>3. Base /\ Base' /\ Held /\ Known /\ Course /\ [Next]_vars => Course'
    BY CourseStep DEF Held
  <1>4. Base /\ Base' /\ Held /\ Course /\ CrashBacked /\ [Next]_vars => CrashBacked'
    BY BackedStep DEF Held
  <1>5. Base /\ Base' /\ Held /\ Known /\ Course /\ CrashBacked /\ [Next]_vars
            => [Service!Next]_(Service!vars)
    BY ServiceStep
  <1> HIDE DEF CrashBacked
  <1> QED
    BY <1>1, <1>2, <1>3, <1>4, <1>5, BaseInvariant, KnownInvariant, PTL
       DEF Spec, ImplementsService, Service!Spec

-----------------------------------------------------------------------------
(* The lifecycle diagram.                                                     *)

\* A step that writes one record moves all of them, if it moves that one.
LEMMA OneMoves ==
    ASSUME NEW s, \A k \in Sandboxes : k # s => record'[k] = record[k], Moves(s)
    PROVE  \A k \in Sandboxes : Moves(k)
  BY DEF Moves

\* A record that stays, in the same state or along an edge.
LEMMA AlongEdge ==
    ASSUME NEW s, record[s] # NoRecord, record'[s] # NoRecord,
           \/ record'[s].state = record[s].state
           \/ <<record[s].state, record'[s].state>> \in Edges
    PROVE  Moves(s)
  BY DEF Moves

\* The edges a transition goes there, on and back, and those of a delete.
LEMMA EdgesOf ==
    ASSUME NEW o \in Transitions
    PROVE  {<<From(o), Via(o)>>, <<Via(o), To(o)>>, <<Via(o), From(o)>>} \subseteq Edges
  BY DEF Transitions, From, Via, To, Edges

LEMMA EdgesOfDelete ==
    ASSUME NEW x \in {"running", "paused"}
    PROVE  {<<x, "killing">>, <<"killing", x>>} \subseteq Edges
  BY DEF Edges

\* What an operation puts in the place of its copy's state is along an edge.
LEMMA CopyMoves ==
    ASSUME Base, NEW t, task[t].tgt \in Sandboxes, task[t].copy \in Record,
           NEW x \in States, PutCopy(t, x), record[task[t].tgt] # NoRecord,
           <<record[task[t].tgt].state, x>> \in Edges
    PROVE  \A k \in Sandboxes : Moves(k)
  <1>1. /\ record'[task[t].tgt] # NoRecord /\ record'[task[t].tgt].state = x
        /\ \A k \in Sandboxes : k # task[t].tgt => record'[k] = record[k]
    BY CopyPut DEF Base
  <1>2. Moves(task[t].tgt)
    BY <1>1, AlongEdge
  <1> QED
    BY <1>1, <1>2, OneMoves

\* A record that is put for a new id begins with its creation.
LEMMA FirstMoves ==
    ASSUME Base, Known, NEW s \in Sandboxes, s \notin born,
           NEW ttl \in BOOLEAN, NEW action \in TimeoutActions,
           Put(s, [state |-> "creating", ttl |-> ttl, onTimeout |-> action])
    PROVE  \A k \in Sandboxes : Moves(k)
  <1> DEFINE r == [state |-> "creating", ttl |-> ttl, onTimeout |-> action]
  <1>1. r \in Record /\ r.state = "creating"
    BY DEF Record, States, Transitional
  <1>2. Put(s, r)
    OBVIOUS
  <1> HIDE DEF r
  <1>3. record'[s] = r /\ \A k \in Sandboxes : k # s => record'[k] = record[k]
    BY <1>1, <1>2, RecordPut DEF Base
  <1>4. record[s] = NoRecord
    BY DEF Known
  <1>5. Moves(s)
    BY <1>1, <1>3, <1>4 DEF Moves
  <1> QED
    BY <1>3, <1>5, OneMoves

\* A record is only taken back, or dropped, out of a transitional state.
LEMMA LastMoves ==
    ASSUME Base, NEW s \in Sandboxes, record[s].state \in Transitional, Put(s, NoRecord)
    PROVE  \A k \in Sandboxes : Moves(k)
  <1>1. record'[s] = NoRecord /\ \A k \in Sandboxes : k # s => record'[k] = record[k]
    BY DEF Put, Base, TypeOK
  <1>2. Moves(s)
    BY <1>1 DEF Moves
  <1> QED
    BY <1>1, <1>2, OneMoves

\* Out of creation and by recovery a record becomes running.
LEMMA RunningMoves ==
    ASSUME Base, NEW s \in Sandboxes, record[s] \in Record,
           record[s].state \in Transitional,
           Put(s, [record[s] EXCEPT !.state = "running"])
    PROVE  \A k \in Sandboxes : Moves(k)
  <1> DEFINE r == [record[s] EXCEPT !.state = "running"]
  <1>1. r \in Record /\ r.state = "running"
    BY StateUpdate DEF Record, States
  <1>2. Put(s, r) /\ record[s] # NoRecord
    BY ConstantsAssumption
  <1> HIDE DEF r
  <1>3. record'[s] = r /\ r # NoRecord /\ \A k \in Sandboxes : k # s => record'[k] = record[k]
    BY <1>1, <1>2, RecordPut DEF Base
  <1>4. <<record[s].state, "running">> \in Edges
    BY DEF Transitional, Edges
  <1>5. Moves(s)
    BY <1>1, <1>2, <1>3, <1>4, AlongEdge
  <1> QED
    BY <1>3, <1>5, OneMoves

LEMMA DiagramStep ==
    ASSUME Base, Held, Known, Course, [Next]_vars
    PROVE  \A s \in Sandboxes : Moves(s)
  <1> USE DEF Held
  <1>1. CASE UNCHANGED record
    BY <1>1 DEF Moves
  <1>2. ASSUME NEW t \in Threads, NEW s \in Sandboxes, NEW d \in BOOLEAN,
               NEW a \in TimeoutActions, Create(t, s, d, a)
        PROVE  \A k \in Sandboxes : Moves(k)
    BY <1>2, FirstMoves DEF Create
  <1>3. ASSUME NEW t \in Threads, NEW s \in Sandboxes, Spawn(t, s)
        PROVE  \A k \in Sandboxes : Moves(k)
    <2>1. task[t].copy \in Record
      BY <1>3 DEF Spawn, Base, LocalsOK, WithCopy
    <2>2. task[t].copy.onTimeout \in TimeoutActions
      BY <2>1 DEF Record
    <2> QED
      BY <1>3, <2>2, FirstMoves DEF Spawn
  <1>4. ASSUME NEW t \in Threads,
               BeginTransition(t) \/ Settle(t) \/ Undo(t) \/ BeginDelete(t)
        PROVE  \A k \in Sandboxes : Moves(k)
    <2>1. pc[t] \in WithCopy /\ task[t].tgt \in Sandboxes /\ task[t].copy \in Record
      BY <1>4 DEF BeginTransition, Settle, Undo, BeginDelete, Base, LocalsOK, WithCopy
    <2>2. task[t].copy.state \in {"running", "paused"}
      BY <2>1 DEF SettledCopies
    <2>3. /\ pc[t] = "entered" => record[task[t].tgt] = task[t].copy
          /\ record[task[t].tgt] # NoRecord \/ pc[t] \notin {"entered", "settle", "undo"}
      BY <2>1, ConstantsAssumption DEF Course, OnCourse, InTransition, InDelete
    <2>4. CASE BeginTransition(t)
      <3>1. /\ pc[t] = "entered" /\ PutCopy(t, Via(task[t].op)) /\ task[t].op \in Transitions
            /\ record[task[t].tgt].state = From(task[t].op)
        BY <2>3, <2>4 DEF BeginTransition
      <3>2. Via(task[t].op) \in States
        BY StatesPut
      <3> QED
        BY <2>1, <2>3, <3>1, <3>2, EdgesOf, CopyMoves
    <2>5. CASE Settle(t)
      <3>1. pc[t] = "settle" /\ PutCopy(t, To(task[t].op))
        BY <2>5 DEF Settle
      <3>2. task[t].op \in Transitions /\ record[task[t].tgt].state = Via(task[t].op)
        BY <3>1 DEF Course, OnCourse, InTransition
      <3>3. To(task[t].op) \in States
        BY StatesPut
      <3> QED
        BY <2>1, <2>3, <3>1, <3>2, <3>3, EdgesOf, CopyMoves
    <2>6. CASE Undo(t)
      <3>1. pc[t] = "undo" /\ PutCopy(t, task[t].copy.state)
        BY <2>6 DEF Undo
      <3>2. \/ /\ task[t].op \in Transitions /\ record[task[t].tgt].state = Via(task[t].op)
               /\ task[t].copy.state = From(task[t].op)
            \/ task[t].op = "delete" /\ record[task[t].tgt].state = "killing"
        BY <3>1 DEF Course, OnCourse, InTransition, InDelete
      <3>3. <<record[task[t].tgt].state, task[t].copy.state>> \in Edges
        BY <2>2, <3>2, EdgesOf, EdgesOfDelete
      <3>4. task[t].copy.state \in States
        BY <2>2 DEF States
      <3> QED
        BY <2>1, <2>3, <3>1, <3>3, <3>4, CopyMoves
    <2>7. CASE BeginDelete(t)
      <3>1. /\ pc[t] = "entered" /\ PutCopy(t, "killing")
            /\ <<record[task[t].tgt].state, "killing">> \in Edges
        BY <2>2, <2>3, <2>7, EdgesOfDelete DEF BeginDelete
      <3>2. "killing" \in States
        BY DEF States, Transitional
      <3> QED
        BY <2>1, <2>3, <3>1, <3>2, CopyMoves
    <2> QED
      BY <1>4, <2>4, <2>5, <2>6, <2>7
  <1>5. ASSUME NEW t \in Threads, Publish(t) \/ Abort(t)
        PROVE  \A k \in Sandboxes : Moves(k)
    <2>1. pc[t] \in CreatePlaces
      BY <1>5 DEF Publish, Abort, CreatePlaces
    <2>2. /\ task[t].kid \in Sandboxes /\ record[task[t].kid] \in Record
          /\ record[task[t].kid].state \in Transitional
      BY <2>1, AtCreation DEF Transitional
    <2>3. \/ Put(task[t].kid, [record[task[t].kid] EXCEPT !.state = "running"])
          \/ Put(task[t].kid, NoRecord)
      BY <1>5 DEF Publish, Abort
    <2> QED
      BY <2>2, <2>3, RunningMoves, LastMoves
  <1>6. ASSUME NEW t \in Threads, DropRecord(t)
        PROVE  \A k \in Sandboxes : Moves(k)
    <2>1. pc[t] = "dropping" /\ Put(task[t].tgt, NoRecord) /\ task[t].tgt \in Sandboxes
      BY <1>6 DEF DropRecord, Base, LocalsOK, WithCopy
    <2>2. record[task[t].tgt].state = "killing"
      BY <2>1 DEF Course, OnCourse, InDelete
    <2> QED
      BY <2>1, <2>2, LastMoves DEF Transitional
  <1>7. ASSUME NEW t \in Threads, PutTimeout(t)
        PROVE  \A k \in Sandboxes : Moves(k)
    <2> DEFINE r == [task[t].copy EXCEPT !.ttl = (task[t].op = "arm")]
    <2>1. /\ pc[t] = "entered" /\ Put(task[t].tgt, r)
          /\ task[t].tgt \in Sandboxes /\ task[t].copy \in Record
      BY <1>7 DEF PutTimeout, Base, LocalsOK, WithCopy
    <2>2. record[task[t].tgt] = task[t].copy /\ record[task[t].tgt] # NoRecord
      BY <2>1, ConstantsAssumption DEF Course, OnCourse
    <2>3. r \in Record /\ r.state = task[t].copy.state
      BY <2>1, TtlUpdate DEF Record
    <2> HIDE DEF r
    <2>4. /\ record'[task[t].tgt] = r /\ r # NoRecord
          /\ \A k \in Sandboxes : k # task[t].tgt => record'[k] = record[k]
      BY <2>1, <2>3, RecordPut DEF Base
    <2>5. Moves(task[t].tgt)
      BY <2>2, <2>3, <2>4, AlongEdge
    <2> QED
      BY <2>4, <2>5, OneMoves
  <1>8. ASSUME NEW s \in Sandboxes, RecoverKeep(s) \/ RecoverForget(s)
        PROVE  \A k \in Sandboxes : Moves(k)
    <2>1. record[s] \in Record /\ record[s].state \in Transitional
      BY <1>8 DEF RecoverKeep, RecoverForget, Recoverable, Interrupted, Base, TypeOK
    <2>2. Put(s, [record[s] EXCEPT !.state = "running"]) \/ Put(s, NoRecord)
      BY <1>8 DEF RecoverKeep, RecoverForget
    <2> QED
      BY <2>1, <2>2, RunningMoves, LastMoves
  <1>9. ~WriteBack
    BY DEF WriteBack, KillOnly
  <1>10. ASSUME NEW t \in Threads, Proceed(t)
         PROVE  \A k \in Sandboxes : Moves(k)
    <2>1. \/ UNCHANGED record
          \/ BeginTransition(t) \/ Settle(t) \/ Undo(t) \/ BeginDelete(t)
          \/ \E s \in Sandboxes : Spawn(t, s)
          \/ Publish(t) \/ Abort(t) \/ DropRecord(t) \/ PutTimeout(t)
      BY <1>10 DEF Proceed, AlreadyThere, Refuse, Call, CallFails, ForkDone, BeginCopy, EndCopy,
         CopyFails, StartInstance, StartFails, DestroyInstance, DestroyFails, WipeWorkspace,
         WipeFails, Rearm, RearmMisses, Enter
    <2> QED
      BY <1>1, <1>3, <1>4, <1>5, <1>6, <1>7, <2>1
  <1>11. CASE Maintain
    BY <1>1, <1>9, <1>11 DEF Maintain, List, Evict, EvictMisses, Enter, Reread, RereadMisses
  <1>12. CASE Crash \/ Quiet \/ UNCHANGED vars
    BY <1>1, <1>12 DEF Crash, Quiet, vars
  <1>13. CASE Recover \/ \E s \in Sandboxes : RecoverStops(s)
    BY <1>1, <1>8, <1>13 DEF Recover, Serve, RecoverDestroy, RecoverStops
  <1>14. ASSUME NEW t \in Threads, Begin(t)
         PROVE  \A k \in Sandboxes : Moves(k)
    BY <1>1, <1>2, <1>14 DEF Begin, Request, Enter
  <1> QED
    BY <1>10, <1>11, <1>12, <1>13, <1>14 DEF Next

\* In a process whose sandboxes are all killed on timeout, records only move along
\* the edges of the lifecycle diagram, whatever fails or crashes, on every backend.
THEOREM KillFollowsDiagram ==
    ASSUME TimeoutActions = {"kill"}
    PROVE  Spec => FollowsDiagram
  <1>1. Init => Held /\ Course
    <2> SUFFICES ASSUME Init PROVE Held /\ Course
      OBVIOUS
    <2>1. Held
      BY ConstantsAssumption DEF Init, Held, TransientHeld, Interrupted, SettledCopies,
         KillOnly, WithCopy, Inside, Threads, NoTask
    <2>2. Course
      BY DEF Init, Course, OnCourse, InTransition, InDelete, CreatePlaces
    <2> QED
      BY <2>1, <2>2
  <1>2. Base /\ Base' /\ Held /\ [Next]_vars => Held'
    BY HeldStep
  <1>3. Base /\ Base' /\ Held /\ Known /\ Course /\ [Next]_vars => Course'
    BY CourseStep DEF Held
  <1>4. Base /\ Held /\ Known /\ Course /\ [Next]_vars => [\A s \in Sandboxes : Moves(s)]_vars
    BY DiagramStep
  <1> QED
    BY <1>1, <1>2, <1>3, <1>4, BaseInvariant, KnownInvariant, PTL DEF Spec, FollowsDiagram

=============================================================================
