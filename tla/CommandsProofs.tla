--------------------------- MODULE CommandsProofs ---------------------------
(***************************************************************************)
(* Proofs about Commands, for any set of commands and any amount of output.*)
(***************************************************************************)
EXTENDS Commands, TLAPS

-----------------------------------------------------------------------------
(* How the steps of a start, the session's threads and the lifecycle          *)
(* operations hang together.                                                  *)

\* A process exists once it was spawned, a session once it was registered, a
\* waiter once the threads were started.
StartOK ==
    \A c \in Commands :
        /\ proc[c] = "none" <=> starter[c] \in {"none", "checked"}
        /\ proc[c] = "none" => helper[c] = "none"
        /\ c \in sessions => starter[c] \in {"registered", "started"}
        /\ starter[c] = "started" <=> waiter[c] # "none"

\* The record's state tells which operation is under way, and where it can be.
LifeOK ==
    /\ life.op = "none" <=> life = Idle
    /\ life.op = "none" <=> box \in {"running", "paused", "gone"}
    /\ life.op = "pause" <=> box = "pausing"
    /\ life.op = "resume" <=> box = "resuming"
    /\ life.op = "delete" <=> box = "killing"
    /\ life.op # "none" => life.at # "idle"
    /\ life.at \in {"await", "drop"} => life.op = "delete"
    /\ life.at = "label" => life.op # "delete"
    /\ life.at \in {"signal", "label"} => life.on \in sessions
    /\ life.at \in {"each", "signal", "label"} => todo \subseteq sessions

Shape == TypeOK /\ StartOK /\ LifeOK

\* A signal to a group changes that group only, and of a shell that has ended
\* no more than what it left behind.
LEMMA GroupSignalled ==
    ASSUME TypeOK, StartOK, NEW c \in Commands,
           NEW shell \in {"running", "stopped", "exited"},
           NEW other \in {"none", "running", "stopped"},
           SignalGroup(c, shell, other)
    PROVE  /\ proc' \in [Commands -> {"none", "running", "stopped", "exited", "dead"}]
           /\ helper' \in [Commands -> {"none", "running", "stopped"}]
           /\ \A d \in Commands : d # c => proc'[d] = proc[d] /\ helper'[d] = helper[d]
           /\ proc[c] \in {"running", "stopped"} => proc'[c] = shell
           /\ proc[c] \notin {"running", "stopped"} => proc'[c] = proc[c]
           /\ helper[c] = "none" => helper'[c] = "none"
           /\ helper'[c] \in {"none", other}
  <1> DEFINE p == IF proc[c] \in {"running", "stopped"} THEN shell ELSE proc[c]
             h == IF helper[c] = "none" THEN "none" ELSE other
  <1>1. proc' = [proc EXCEPT ![c] = p] /\ helper' = [helper EXCEPT ![c] = h]
    BY DEF SignalGroup
  <1>2. /\ p \in {"none", "running", "stopped", "exited", "dead"}
        /\ proc[c] \in {"running", "stopped"} => p = shell
        /\ proc[c] \notin {"running", "stopped"} => p = proc[c]
    BY DEF TypeOK
  <1>3. /\ h \in {"none", "running", "stopped"} /\ h \in {"none", other}
        /\ helper[c] = "none" => h = "none"
    OBVIOUS
  <1> HIDE DEF p, h
  <1> QED
    BY <1>1, <1>2, <1>3 DEF TypeOK

\* A poll reaps a shell that has exited, and changes nothing else.
LEMMA ShellPolled ==
    ASSUME TypeOK, NEW c \in Commands, NEW runs \in BOOLEAN, PollShell(c, runs)
    PROVE  /\ proc' \in [Commands -> {"none", "running", "stopped", "exited", "dead"}]
           /\ \A d \in Commands :
                 proc'[d] # proc[d] => proc[d] = "exited" /\ proc'[d] = "dead"
           /\ ~runs => proc'[c] = "dead" /\ proc[c] \in {"exited", "dead"}
           /\ runs => proc' = proc /\ proc[c] \in {"running", "stopped", "exited"}
  BY DEF TypeOK, PollShell

\* What the group of the session that was polled gets.
LEMMA LifeSignals ==
    ASSUME Shape, SignalPolled
    PROVE  /\ life.on \in Commands /\ life.on \in sessions
           /\ life.op \in {"pause", "resume", "delete"}
           /\ life.op = "pause" => SignalGroup(life.on, "stopped", "stopped")
           /\ life.op = "resume" => SignalGroup(life.on, "running", "running")
           /\ life.op = "delete" => SignalGroup(life.on, "exited", "none")
  <1>1. life.on \in sessions /\ sessions \subseteq Commands
    BY DEF SignalPolled, Shape, LifeOK, TypeOK
  <1>2. life.op \in {"pause", "resume", "delete"}
    BY DEF SignalPolled, Shape, LifeOK, TypeOK, Idle
  <1> QED
    BY <1>1, <1>2 DEF SignalPolled, KillGroup

\* Every step keeps Shape.
LEMMA ShapeStep ==
    ASSUME Shape, [Next]_vars
    PROVE  Shape'
  <1>0. CASE UNCHANGED vars
    BY <1>0 DEF vars, service, processes, Shape, TypeOK, StartOK, LifeOK
  <1> USE CommandsAssumption DEF Shape, TypeOK, StartOK, LifeOK, service, processes, Idle
  <1>1. ASSUME NEW c \in Commands, Check(c) PROVE Shape'
    BY <1>1 DEF Check
  <1>2. ASSUME NEW c \in Commands, Spawn(c) PROVE Shape'
    BY <1>2 DEF Spawn
  <1>3. ASSUME NEW c \in Commands, Register(c) PROVE Shape'
    BY <1>3 DEF Register
  <1>4. ASSUME NEW c \in Commands, StartThreads(c) PROVE Shape'
    BY <1>4 DEF StartThreads
  <1>5. ASSUME NEW c \in Commands, Write(c) PROVE Shape'
    BY <1>5 DEF Write
  <1>6. ASSUME NEW c \in Commands, Exit(c) PROVE Shape'
    BY <1>6 DEF Exit
  <1>7. ASSUME NEW c \in Commands, HelperExits(c) PROVE Shape'
    BY <1>7 DEF HelperExits
  <1>8. ASSUME NEW c \in Commands, Read(c) PROVE Shape'
    BY <1>8 DEF Read
  <1>9. ASSUME NEW c \in Commands, Stamp(c) PROVE Shape'
    BY <1>9 DEF Stamp, StreamEnded
  <1>10. ASSUME NEW c \in Commands, Complete(c) PROVE Shape'
    BY <1>10 DEF Complete
  <1>11. ASSUME NEW c \in Commands, Poll(c) PROVE Shape'
    BY <1>11 DEF Poll
  <1>12. ASSUME NEW c \in Commands, Kill(c) PROVE Shape'
    BY <1>12, ShellPolled DEF Kill, Known
  <1>13. ASSUME Pause PROVE Shape'
    BY <1>13 DEF Pause, Begin
  <1>14. ASSUME Resume PROVE Shape'
    BY <1>14 DEF Resume, Begin
  <1>15. ASSUME Delete PROVE Shape'
    BY <1>15 DEF Delete, Begin
  <1>16. ASSUME ListActive PROVE Shape'
    BY <1>16 DEF ListActive, Active
  <1>17. ASSUME NEW c \in Commands, PollNext(c) PROVE Shape'
    <2>1. PICK runs \in BOOLEAN :
              /\ PollShell(c, runs)
              /\ life' = IF runs THEN [life EXCEPT !.at = "signal", !.on = c]
                         ELSE IF life.op = "delete" THEN life
                         ELSE [life EXCEPT !.at = "label", !.on = c]
      BY <1>17 DEF PollNext
    <2>2. /\ life'.op = life.op
          /\ \/ life'.at = "each" /\ life.op = "delete"
             \/ life'.at = "signal" /\ life'.on = c
             \/ life'.at = "label" /\ life'.on = c /\ life.op # "delete"
      BY <1>17, <2>1 DEF PollNext
    <2>a. life' \in [op : {"none", "pause", "resume", "delete"},
                     at : {"idle", "list", "each", "signal", "label", "await", "drop"},
                     on : Commands \cup {NoCommand}]
      BY <2>1
    <2>b. proc' \in [Commands -> {"none", "running", "stopped", "exited", "dead"}]
      BY <2>1, ShellPolled
    <2>3. TypeOK'
      BY <1>17, <2>a, <2>b DEF PollNext
    <2>4. StartOK'
      BY <1>17, <2>1, ShellPolled DEF PollNext
    <2>5. life.op # "none" /\ c \in sessions
      BY <1>17 DEF PollNext
    <2>c. UNCHANGED <<box, sessions>> /\ todo' \subseteq todo /\ life.at = "each"
      BY <1>17 DEF PollNext
    <2>d. life' # Idle
      BY <2>2, <2>5
    <2>6. LifeOK'
      BY <2>2, <2>5, <2>c, <2>d
    <2> QED
      BY <2>3, <2>4, <2>6
  <1>24. ASSUME NEW c \in Commands, Reap(c) PROVE Shape'
    BY <1>24 DEF Reap
  <1>25. ASSUME NEW c \in Commands, KillPolled(c) PROVE Shape'
    BY <1>25, GroupSignalled DEF KillPolled, KillGroup
  <1>26. ASSUME SignalPolled PROVE Shape'
    <2>1. /\ life.on \in Commands /\ life.on \in sessions
          /\ \E shell \in {"running", "stopped", "exited"}, other \in {"none", "running", "stopped"} :
                SignalGroup(life.on, shell, other)
      BY <1>26, LifeSignals
    <2>2. /\ life'.op = life.op /\ life.op # "none"
          /\ \/ life'.at = "each" /\ life.op = "delete"
             \/ life'.at = "label" /\ life'.on = life.on /\ life.op # "delete"
      BY <1>26 DEF SignalPolled
    <2>3. /\ proc' \in [Commands -> {"none", "running", "stopped", "exited", "dead"}]
          /\ helper' \in [Commands -> {"none", "running", "stopped"}]
          /\ \A d \in Commands : proc'[d] = "none" <=> proc[d] = "none"
          /\ \A d \in Commands : helper[d] = "none" => helper'[d] = "none"
      BY <2>1, GroupSignalled
    <2>4. TypeOK'
      BY <1>26, <2>1, <2>3 DEF SignalPolled
    <2>5. StartOK'
      BY <1>26, <2>3 DEF SignalPolled
    <2>a. UNCHANGED <<box, sessions, todo>> /\ life.at = "signal"
      BY <1>26 DEF SignalPolled
    <2>b. life' # Idle
      BY <2>2
    <2>6. LifeOK'
      BY <2>1, <2>2, <2>a, <2>b
    <2> QED
      BY <2>4, <2>5, <2>6
  <1>18. ASSUME SetState PROVE Shape'
    <2>1. state' \in [Commands -> {"none", "running", "paused", "exited"}]
      BY <1>18 DEF SetState
    <2>2. life' = [life EXCEPT !.at = "each", !.on = NoCommand]
      BY <1>18 DEF SetState
    <2>3. TypeOK'
      BY <1>18, <2>1, <2>2 DEF SetState
    <2>4. StartOK'
      BY <1>18 DEF SetState
    <2>5. life'.op = life.op /\ life'.at = "each" /\ life.op \notin {"none", "delete"}
      BY <1>18, <2>2 DEF SetState
    <2>7. UNCHANGED <<box, sessions, todo>> /\ life.at = "label"
      BY <1>18 DEF SetState
    <2>8. life' # Idle
      BY <2>5
    <2>6. LifeOK'
      BY <2>5, <2>7, <2>8
    <2> QED
      BY <2>3, <2>4, <2>6
  <1>19. ASSUME Settle PROVE Shape'
    BY <1>19 DEF Settle
  <1>20. ASSUME Killed PROVE Shape'
    BY <1>20 DEF Killed
  <1>21. ASSUME NEW c \in Commands, Await(c) PROVE Shape'
    BY <1>21 DEF Await
  <1>22. ASSUME Pop PROVE Shape'
    BY <1>22 DEF Pop
  <1>23. ASSUME Drop PROVE Shape'
    BY <1>23 DEF Drop
  <1> HIDE DEF Shape, TypeOK, StartOK, LifeOK, Idle
  <1> QED
    BY <1>0, <1>1, <1>2, <1>3, <1>4, <1>5, <1>6, <1>7, <1>8, <1>9, <1>10, <1>11, <1>12, <1>13, <1>14, <1>15, <1>16, <1>17, <1>18, <1>19, <1>20, <1>21, <1>22, <1>23, <1>24, <1>25, <1>26
       DEF Next, Start, Process, Follow, Advance, Quiet

\* The types, and the order of the steps of a start and of an operation.
THEOREM ShapeInvariant == Spec => []Shape
  <1>1. Init => Shape
    BY CommandsAssumption DEF Init, Shape, TypeOK, StartOK, LifeOK, Idle
  <1> QED
    BY <1>1, ShapeStep, PTL DEF Spec

\* Every variable of the command service keeps its type.
THEOREM CommandsTypeCorrect == Spec => []TypeOK
  BY ShapeInvariant, PTL DEF Shape

-----------------------------------------------------------------------------
(* Output.                                                                    *)

\* Once a command is stamped its stream is at its end and stays so: an exit is
\* never told before the last chunk.
Told ==
    \A c \in Commands :
        /\ waiter[c] \in {"stamped", "done"} => StreamEnded(c)
        /\ state[c] = "exited" => waiter[c] \in {"stamped", "done"}
        /\ client[c].exited =>
              waiter[c] \in {"stamped", "done"} /\ client[c].got = written[c]

\* Every step keeps Told: nothing writes to a stream that has ended.
LEMMA ToldStep ==
    ASSUME Shape, Shape', Told, [Next]_vars
    PROVE  Told'
  <1>0. CASE UNCHANGED vars
    BY <1>0 DEF vars, service, processes, Shape, TypeOK, StartOK, LifeOK, Told, StreamEnded
  <1> USE CommandsAssumption DEF Shape, TypeOK, StartOK, LifeOK, Told, StreamEnded, service, processes, Idle
  <1>1. ASSUME NEW c \in Commands, Check(c) PROVE Told'
    BY <1>1 DEF Check
  <1>2. ASSUME NEW c \in Commands, Spawn(c) PROVE Told'
    BY <1>2 DEF Spawn
  <1>3. ASSUME NEW c \in Commands, Register(c) PROVE Told'
    BY <1>3 DEF Register
  <1>4. ASSUME NEW c \in Commands, StartThreads(c) PROVE Told'
    BY <1>4 DEF StartThreads
  <1>5. ASSUME NEW c \in Commands, Write(c) PROVE Told'
    BY <1>5 DEF Write
  <1>6. ASSUME NEW c \in Commands, Exit(c) PROVE Told'
    BY <1>6 DEF Exit
  <1>7. ASSUME NEW c \in Commands, HelperExits(c) PROVE Told'
    BY <1>7 DEF HelperExits
  <1>8. ASSUME NEW c \in Commands, Read(c) PROVE Told'
    BY <1>8 DEF Read
  <1>9. ASSUME NEW c \in Commands, Stamp(c) PROVE Told'
    BY <1>9 DEF Stamp, StreamEnded
  <1>10. ASSUME NEW c \in Commands, Complete(c) PROVE Told'
    BY <1>10 DEF Complete
  <1>11. ASSUME NEW c \in Commands, Poll(c) PROVE Told'
    BY <1>11 DEF Poll
  <1>12. ASSUME NEW c \in Commands, Kill(c) PROVE Told'
    BY <1>12, ShellPolled DEF Kill, Known
  <1>13. ASSUME Pause PROVE Told'
    BY <1>13 DEF Pause, Begin
  <1>14. ASSUME Resume PROVE Told'
    BY <1>14 DEF Resume, Begin
  <1>15. ASSUME Delete PROVE Told'
    BY <1>15 DEF Delete, Begin
  <1>16. ASSUME ListActive PROVE Told'
    BY <1>16 DEF ListActive, Active
  <1>17. ASSUME NEW c \in Commands, PollNext(c) PROVE Told'
    BY <1>17, ShellPolled DEF PollNext
  <1>24. ASSUME NEW c \in Commands, Reap(c) PROVE Told'
    BY <1>24 DEF Reap
  <1>25. ASSUME NEW c \in Commands, KillPolled(c) PROVE Told'
    BY <1>25, GroupSignalled DEF KillPolled, KillGroup
  <1>26. ASSUME SignalPolled PROVE Told'
    BY <1>26, LifeSignals, GroupSignalled DEF SignalPolled
  <1>18. ASSUME SetState PROVE Told'
    BY <1>18 DEF SetState
  <1>19. ASSUME Settle PROVE Told'
    BY <1>19 DEF Settle
  <1>20. ASSUME Killed PROVE Told'
    BY <1>20 DEF Killed
  <1>21. ASSUME NEW c \in Commands, Await(c) PROVE Told'
    BY <1>21 DEF Await
  <1>22. ASSUME Pop PROVE Told'
    BY <1>22 DEF Pop
  <1>23. ASSUME Drop PROVE Told'
    BY <1>23 DEF Drop
  <1> HIDE DEF Shape, TypeOK, StartOK, LifeOK, Told, StreamEnded, Idle
  <1> QED
    BY <1>0, <1>1, <1>2, <1>3, <1>4, <1>5, <1>6, <1>7, <1>8, <1>9, <1>10, <1>11, <1>12, <1>13, <1>14, <1>15, <1>16, <1>17, <1>18, <1>19, <1>20, <1>21, <1>22, <1>23, <1>24, <1>25, <1>26
       DEF Next, Start, Process, Follow, Advance, Quiet

\* read_output never reports an exit before all of the output, for any number
\* of commands and any amount of output.
THEOREM NothingMissed == Spec => []ClientMissesNothing
  <1>1. Init => Told
    <2> SUFFICES ASSUME Init, NEW c \in Commands
                 PROVE  waiter[c] = "none" /\ state[c] = "none" /\ ~client[c].exited
      BY DEF Told
    <2>1. client[c] = [got |-> 0, exited |-> FALSE]
      BY DEF Init
    <2> QED
      BY <2>1 DEF Init
  <1>2. Shape /\ Shape' /\ Told /\ [Next]_vars => Told'
    BY ToldStep
  <1>3. Told => ClientMissesNothing
    BY DEF Told, ClientMissesNothing
  <1> QED
    BY <1>1, <1>2, <1>3, ShapeInvariant, PTL DEF Spec

-----------------------------------------------------------------------------
(* Stopped and killed groups.                                                 *)

\* A stopped shell belongs to a session that is not completed, so that whoever
\* walks over the active sessions next comes by it; what else is stopped is of
\* the same group, or was left behind by a shell that has ended.
Found ==
    \A c \in Commands :
        /\ proc[c] = "stopped" =>
              /\ c \in sessions
              /\ box \notin {"running", "gone"}
              /\ life.op \in {"resume", "delete"} /\ life.at \in {"each", "signal", "label"} =>
                    c \in todo \/ (life.at = "signal" /\ life.on = c)
              /\ life.at \notin {"await", "drop"}
        /\ helper[c] = "stopped" => proc[c] = "stopped" \/ Ended(c)
        /\ waiter[c] \in {"stamped", "done"} => proc[c] = "dead"
        /\ life.op = "delete" /\ life.at # "list" /\ c \in listed =>
              \/ life.at \in {"each", "signal"} /\ c \in todo /\ proc[c] # "none"
              \/ life.at = "signal" /\ life.on = c /\ proc[c] # "none"
              \/ Ended(c)
        /\ box = "gone" /\ c \in listed => Ended(c)

\* Every step keeps Found.
LEMMA FoundStep ==
    ASSUME Shape, Shape', Found, [Next]_vars
    PROVE  Found'
  <1>0. CASE UNCHANGED vars
    BY <1>0 DEF vars, service, processes, Shape, TypeOK, StartOK, LifeOK, Found, Ended
  <1> USE CommandsAssumption DEF Shape, TypeOK, StartOK, LifeOK, Found, Ended, service, processes, Idle
  <1>1. ASSUME NEW c \in Commands, Check(c) PROVE Found'
    BY <1>1 DEF Check
  <1>2. ASSUME NEW c \in Commands, Spawn(c) PROVE Found'
    BY <1>2 DEF Spawn
  <1>3. ASSUME NEW c \in Commands, Register(c) PROVE Found'
    BY <1>3 DEF Register
  <1>4. ASSUME NEW c \in Commands, StartThreads(c) PROVE Found'
    BY <1>4 DEF StartThreads
  <1>5. ASSUME NEW c \in Commands, Write(c) PROVE Found'
    BY <1>5 DEF Write
  <1>6. ASSUME NEW c \in Commands, Exit(c) PROVE Found'
    BY <1>6 DEF Exit
  <1>7. ASSUME NEW c \in Commands, HelperExits(c) PROVE Found'
    BY <1>7 DEF HelperExits
  <1>8. ASSUME NEW c \in Commands, Read(c) PROVE Found'
    BY <1>8 DEF Read
  <1>9. ASSUME NEW c \in Commands, Stamp(c) PROVE Found'
    BY <1>9 DEF Stamp, StreamEnded
  <1>10. ASSUME NEW c \in Commands, Complete(c) PROVE Found'
    BY <1>10 DEF Complete
  <1>11. ASSUME NEW c \in Commands, Poll(c) PROVE Found'
    BY <1>11 DEF Poll
  <1>12. ASSUME NEW c \in Commands, Kill(c) PROVE Found'
    BY <1>12, ShellPolled DEF Kill, Known
  <1>13. ASSUME Pause PROVE Found'
    BY <1>13 DEF Pause, Begin
  <1>14. ASSUME Resume PROVE Found'
    BY <1>14 DEF Resume, Begin
  <1>15. ASSUME Delete PROVE Found'
    BY <1>15 DEF Delete, Begin
  <1>16. ASSUME ListActive PROVE Found'
    <2>1. life'.op = life.op /\ life'.at = "each" /\ life.op # "none"
      BY <1>16 DEF ListActive
    <2>2. \A c \in Commands : proc[c] = "stopped" => c \in todo'
      BY <1>16 DEF ListActive, Active
    <2>3. \A c \in Commands : c \in listed' => c \in todo' /\ proc[c] # "none"
      BY <1>16 DEF ListActive, Active
    <2> QED
      BY <1>16, <2>1, <2>2, <2>3 DEF ListActive
  <1>17. ASSUME NEW c \in Commands, PollNext(c) PROVE Found'
    <2>1. PICK runs \in BOOLEAN :
              /\ PollShell(c, runs)
              /\ life' = IF runs THEN [life EXCEPT !.at = "signal", !.on = c]
                         ELSE IF life.op = "delete" THEN life
                         ELSE [life EXCEPT !.at = "label", !.on = c]
      BY <1>17 DEF PollNext
    <2>2. /\ life'.op = life.op /\ life'.at \in {"each", "signal", "label"}
          /\ \/ life'.at = "signal" /\ life'.on = c
             \/ proc'[c] = "dead"
      BY <1>17, <2>1, ShellPolled DEF PollNext
    <2>3. \A d \in Commands :
              /\ proc'[d] \in {"none", "running", "stopped"} => proc'[d] = proc[d]
              /\ Ended(d) => Ended(d)'
              /\ proc[d] = "dead" => proc'[d] = "dead"
              /\ proc[d] # "none" => proc'[d] # "none"
              /\ proc[d] = "stopped" => proc'[d] = "stopped"
      BY <2>1, ShellPolled
    <2>4. /\ life.at = "each" /\ todo' = todo \ {c}
          /\ UNCHANGED <<box, listed, sessions, waiter, helper>>
      BY <1>17 DEF PollNext
    <2> QED
      BY <2>2, <2>3, <2>4
  <1>24. ASSUME NEW c \in Commands, Reap(c) PROVE Found'
    BY <1>24 DEF Reap
  <1>25. ASSUME NEW c \in Commands, KillPolled(c) PROVE Found'
    BY <1>25, GroupSignalled DEF KillPolled, KillGroup
  <1>26. ASSUME SignalPolled PROVE Found'
    BY <1>26, LifeSignals, GroupSignalled DEF SignalPolled
  <1>18. ASSUME SetState PROVE Found'
    <2>1. life'.op = life.op /\ life'.at = "each" /\ life.op # "delete" /\ life.at = "label"
      BY <1>18 DEF SetState
    <2>2. UNCHANGED <<box, listed, todo, sessions, waiter, proc, helper>>
      BY <1>18 DEF SetState
    <2> QED
      BY <2>1, <2>2
  <1>19. ASSUME Settle PROVE Found'
    BY <1>19 DEF Settle
  <1>20. ASSUME Killed PROVE Found'
    BY <1>20 DEF Killed
  <1>21. ASSUME NEW c \in Commands, Await(c) PROVE Found'
    BY <1>21 DEF Await
  <1>22. ASSUME Pop PROVE Found'
    BY <1>22 DEF Pop
  <1>23. ASSUME Drop PROVE Found'
    BY <1>23 DEF Drop
  <1> HIDE DEF Shape, TypeOK, StartOK, LifeOK, Found, Ended, Idle
  <1> QED
    BY <1>0, <1>1, <1>2, <1>3, <1>4, <1>5, <1>6, <1>7, <1>8, <1>9, <1>10, <1>11, <1>12, <1>13, <1>14, <1>15, <1>16, <1>17, <1>18, <1>19, <1>20, <1>21, <1>22, <1>23, <1>24, <1>25, <1>26
       DEF Next, Start, Process, Follow, Advance, Quiet

\* A resume continues every shell that a pause stopped, and its group: what is
\* stopped in a running sandbox was left behind by a shell that has ended.
THEOREM ResumeContinuesShells == Spec => []ShellsAreContinued
  <1>1. Init => Found
    BY DEF Init, Found, Ended, Idle
  <1>2. Shape /\ Shape' /\ Found /\ [Next]_vars => Found'
    BY FoundStep
  <1>3. Found => ShellsAreContinued
    BY DEF Found, Ended, ShellsAreContinued
  <1> QED
    BY <1>1, <1>2, <1>3, ShapeInvariant, PTL DEF Spec

\* A delete leaves no shell of the sessions it listed alive.
THEOREM DeleteKillsListedShells == Spec => []DeleteKillsListed
  <1>1. Init => Found
    BY DEF Init, Found, Ended, Idle
  <1>2. Shape /\ Shape' /\ Found /\ [Next]_vars => Found'
    BY FoundStep
  <1>3. Shape /\ Found => DeleteKillsListed
    BY DEF Shape, TypeOK, Found, DeleteKillsListed
  <1> QED
    BY <1>1, <1>2, <1>3, ShapeInvariant, PTL DEF Spec

=============================================================================
