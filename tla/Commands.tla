------------------------------ MODULE Commands ------------------------------
(***************************************************************************)
(* The command service (src/src/agentenv/commands.py) of one sandbox, over *)
(* the local backend, whose processes the service itself must stop,        *)
(* continue and kill.                                                      *)
(*                                                                         *)
(* A request thread starts a command in four steps, none of them under     *)
(* the orchestrator's lock; each session has a reader and a waiter thread; *)
(* pause, resume and delete walk over the sessions listed when they got    *)
(* there.  The service's own lock guards single dictionary operations, so  *)
(* each is one step here.  stdout and stderr work alike: a command has one *)
(* stream.  A command may leave a background process of its group behind,  *)
(* which holds the stream open.                                            *)
(*                                                                         *)
(* A group is signalled in two steps: the shell is polled, and unless it   *)
(* is seen to have exited the whole group gets the signal.                 *)
(*                                                                         *)
(* Left out: stdin, the pid and list lookups, TERM and INT (what they do   *)
(* to a process is its own Exit), a killpg that is not permitted, events,  *)
(* the auto-resume of a start,                                             *)
(* which is a resume followed by the check, and a restart of the service,  *)
(* which forgets the sessions.  A start's caller does not fail between its *)
(* steps.                                                                  *)
(***************************************************************************)
EXTENDS Naturals

CONSTANTS
    Commands,    \* command ids, each started at most once
    NoCommand,
    MaxOutput    \* bound: chunks a command writes

ASSUME CommandsAssumption ==
    /\ NoCommand \notin Commands
    /\ MaxOutput \in Nat

VARIABLES
    box,       \* state of the sandbox's record, "gone" when it has none
    life,      \* the pause, resume or delete under way: [op, at, on]
    listed,    \* its local list of sessions,
    todo,      \* and what is left of the loop over it
    starter,   \* per command: how far the request that starts it is
    sessions,  \* keys of CommandService._sessions
    state,     \* ManagedCommand.state
    waiter,    \* per command: the waiter thread
    killers,   \* commands that a KILL request has polled and not yet signalled
    proc,      \* the shell that runs the command: "exited" until it is reaped
    helper,    \* a background process of its group
    written,   \* chunks the group has written to the stream
    buffer,    \* chunks the reader has appended to the session's buffer
    client     \* what the last read_output response of each command said

service == <<starter, sessions, state, waiter>>
processes == <<proc, helper, written>>
vars == <<box, life, listed, todo, killers, service, processes, buffer, client>>

Idle == [op |-> "none", at |-> "idle", on |-> NoCommand]

Init ==
    /\ box = "running"
    /\ life = Idle /\ listed = {} /\ todo = {}
    /\ starter = [c \in Commands |-> "none"]
    /\ sessions = {}
    /\ state = [c \in Commands |-> "none"]
    /\ waiter = [c \in Commands |-> "none"]
    /\ killers = {}
    /\ proc = [c \in Commands |-> "none"]
    /\ helper = [c \in Commands |-> "none"]
    /\ written = [c \in Commands |-> 0]
    /\ buffer = [c \in Commands |-> 0]
    /\ client = [c \in Commands |-> [got |-> 0, exited |-> FALSE]]

\* Mutant: sessions are picked by their label.
ActiveByLabel == {c \in sessions : state[c] = "running"}

\* _active_sessions: the label does not matter, only the completed event.
Active == {c \in sessions : waiter[c] # "done"}

-----------------------------------------------------------------------------
(* start: the state is checked once, and acted upon three steps later. *)

Check(c) ==
    /\ starter[c] = "none"
    /\ box = "running"
    /\ starter' = [starter EXCEPT ![c] = "checked"]
    /\ UNCHANGED <<box, life, listed, todo, killers, sessions, state, waiter, processes,
                   buffer, client>>

\* Popen in a new session; the working directory is made if it is missing, so
\* that this works in a sandbox that was deleted meanwhile.
Spawn(c) ==
    /\ starter[c] = "checked"
    /\ starter' = [starter EXCEPT ![c] = "spawned"]
    /\ proc' = [proc EXCEPT ![c] = "running"]
    /\ \E h \in {"none", "running"} : helper' = [helper EXCEPT ![c] = h]
    /\ UNCHANGED <<box, life, listed, todo, killers, sessions, state, waiter, written,
                   buffer, client>>

Register(c) ==
    /\ starter[c] = "spawned"
    /\ starter' = [starter EXCEPT ![c] = "registered"]
    /\ sessions' = sessions \cup {c}
    /\ state' = [state EXCEPT ![c] = "running"]
    /\ UNCHANGED <<box, life, listed, todo, killers, waiter, processes, buffer, client>>

StartThreads(c) ==
    /\ starter[c] = "registered"
    /\ starter' = [starter EXCEPT ![c] = "started"]
    /\ waiter' = [waiter EXCEPT ![c] = "waiting"]
    /\ UNCHANGED <<box, life, listed, todo, killers, sessions, state, processes, buffer,
                   client>>

-----------------------------------------------------------------------------
(* The processes, and the reader and waiter threads of a session. *)

Write(c) ==
    /\ proc[c] = "running" \/ helper[c] = "running"
    /\ written[c] < MaxOutput
    /\ written' = [written EXCEPT ![c] = @ + 1]
    /\ UNCHANGED <<box, life, listed, todo, killers, service, proc, helper, buffer, client>>

Exit(c) ==
    /\ proc[c] = "running"
    /\ proc' = [proc EXCEPT ![c] = "exited"]
    /\ UNCHANGED <<box, life, listed, todo, killers, service, helper, written, buffer, client>>

HelperExits(c) ==
    /\ helper[c] = "running"
    /\ helper' = [helper EXCEPT ![c] = "none"]
    /\ UNCHANGED <<box, life, listed, todo, killers, service, proc, written, buffer, client>>

\* process.poll(): a shell that has exited is reaped, unless the waiter is at
\* it: then poll still says that it runs.
PollShell(c, runs) ==
    IF runs
    THEN /\ \/ proc[c] \in {"running", "stopped"}
            \/ proc[c] = "exited" /\ waiter[c] = "waiting"
         /\ UNCHANGED proc
    ELSE /\ proc[c] \in {"exited", "dead"}
         /\ proc' = [proc EXCEPT ![c] = "dead"]

\* killpg, whatever has become of the shell since it was polled.
SignalGroup(c, shell, other) ==
    /\ proc' = [proc EXCEPT ![c] = IF @ \in {"running", "stopped"} THEN shell ELSE @]
    /\ helper' = [helper EXCEPT ![c] = IF @ = "none" THEN "none" ELSE other]

\* Mutant: SIGTERM, which a stopped group does not act upon.
TermGroup(c) ==
    IF proc[c] = "stopped" \/ helper[c] = "stopped"
    THEN UNCHANGED <<proc, helper>> ELSE SignalGroup(c, "exited", "none")

KillGroup(c) == SignalGroup(c, "exited", "none")

\* Mutant: the readers are not joined.
ShellReaped(c) == proc[c] = "dead"

\* The stream ends when nobody has it open for writing and all is read.
StreamEnded(c) == proc[c] = "dead" /\ helper[c] = "none" /\ buffer[c] = written[c]

\* Mutant: the readers give up with the sandbox.
ReadWhileExists(c) ==
    /\ waiter[c] = "waiting" /\ box # "gone"
    /\ buffer[c] < written[c]
    /\ buffer' = [buffer EXCEPT ![c] = @ + 1]
    /\ UNCHANGED <<box, life, listed, todo, killers, service, processes, client>>

Read(c) ==
    /\ waiter[c] = "waiting"
    /\ buffer[c] < written[c]
    /\ buffer' = [buffer EXCEPT ![c] = @ + 1]
    /\ UNCHANGED <<box, life, listed, todo, killers, service, processes, client>>

\* process.wait() returns.
Reap(c) ==
    /\ waiter[c] = "waiting"
    /\ proc[c] = "exited"
    /\ proc' = [proc EXCEPT ![c] = "dead"]
    /\ UNCHANGED <<box, life, listed, todo, killers, service, helper, written, buffer,
                   client>>

\* Then both joins, and the stamp under the session's condition.
Stamp(c) ==
    /\ waiter[c] = "waiting"
    /\ StreamEnded(c)
    /\ waiter' = [waiter EXCEPT ![c] = "stamped"]
    /\ state' = [state EXCEPT ![c] = "exited"]
    /\ UNCHANGED <<box, life, listed, todo, killers, starter, sessions, processes, buffer,
                   client>>

\* on_exit has run: completed is set.
Complete(c) ==
    /\ waiter[c] = "stamped"
    /\ waiter' = [waiter EXCEPT ![c] = "done"]
    /\ UNCHANGED <<box, life, listed, todo, killers, starter, sessions, state, processes,
                   buffer, client>>

-----------------------------------------------------------------------------
(* read_output, and signal KILL or a wait that times out. *)

\* Every request looks the sandbox up, then the session.
Known(c) == box # "gone" /\ c \in sessions

\* The response is made under the session's condition, with or without a wait
\* before.
Poll(c) ==
    /\ Known(c)
    /\ client' = [client EXCEPT ![c] = [got |-> buffer[c], exited |-> state[c] = "exited"]]
    /\ UNCHANGED <<box, life, listed, todo, killers, service, processes, buffer>>

\* The shell is polled, whichever of the two it says.
Kill(c) ==
    /\ Known(c)
    /\ waiter[c] # "done" /\ c \notin killers
    /\ \E runs \in BOOLEAN :
           /\ PollShell(c, runs)
           /\ killers' = IF runs THEN killers \cup {c} ELSE killers
    /\ UNCHANGED <<box, life, listed, todo, service, helper, written, buffer, client>>

KillPolled(c) ==
    /\ c \in killers
    /\ killers' = killers \ {c}
    /\ KillGroup(c)
    /\ UNCHANGED <<box, life, listed, todo, service, written, buffer, client>>

-----------------------------------------------------------------------------
(* pause, resume and delete, under the orchestrator's lock. *)

Begin(o, from, via) ==
    /\ life = Idle
    /\ box \in from
    /\ box' = via
    /\ life' = [op |-> o, at |-> "list", on |-> NoCommand]
    /\ UNCHANGED <<listed, todo, killers, service, processes, buffer, client>>

Pause == Begin("pause", {"running"}, "pausing")
Resume == Begin("resume", {"paused"}, "resuming")
Delete == Begin("delete", {"running", "paused"}, "killing")

\* _active_sessions, after the backend has paused or resumed the sandbox.
ListActive ==
    /\ life.at = "list"
    /\ listed' = Active /\ todo' = Active
    /\ life' = [life EXCEPT !.at = "each"]
    /\ UNCHANGED <<box, killers, service, processes, buffer, client>>

\* The shell of a session is polled.  If it has exited, its group is passed
\* over: what is left of it is not stopped, continued or killed.
PollNext(c) ==
    /\ life.at = "each" /\ c \in todo
    /\ todo' = todo \ {c}
    /\ \E runs \in BOOLEAN :
           /\ PollShell(c, runs)
           /\ life' = IF runs THEN [life EXCEPT !.at = "signal", !.on = c]
                      ELSE IF life.op = "delete" THEN life
                      ELSE [life EXCEPT !.at = "label", !.on = c]
    /\ UNCHANGED <<box, listed, killers, service, helper, written, buffer, client>>

\* SIGSTOP, SIGCONT or SIGKILL to its group; set_state follows the first two.
SignalPolled ==
    /\ life.at = "signal"
    /\ CASE life.op = "pause" -> SignalGroup(life.on, "stopped", "stopped")
         [] life.op = "resume" -> SignalGroup(life.on, "running", "running")
         [] OTHER -> KillGroup(life.on)
    /\ life' = IF life.op = "delete" THEN [life EXCEPT !.at = "each", !.on = NoCommand]
               ELSE [life EXCEPT !.at = "label"]
    /\ UNCHANGED <<box, listed, todo, killers, service, written, buffer, client>>

\* Mutant: the label is the name of the operation.
SetStateToOperation ==
    LET c == life.on
    IN  /\ life.at = "label"
        /\ state' = [state EXCEPT ![c] = IF waiter[c] = "done" THEN @ ELSE life.op]
        /\ life' = [life EXCEPT !.at = "each", !.on = NoCommand]
        /\ UNCHANGED <<box, listed, todo, killers, starter, sessions, waiter, processes,
                       buffer, client>>

\* The label is refused only once completed is set.
SetState ==
    LET c == life.on
        label == IF life.op = "pause" THEN "paused" ELSE "running"
    IN  /\ life.at = "label"
        /\ state' = [state EXCEPT ![c] = IF waiter[c] = "done" THEN @ ELSE label]
        /\ life' = [life EXCEPT !.at = "each", !.on = NoCommand]
        /\ UNCHANGED <<box, listed, todo, killers, starter, sessions, waiter, processes,
                       buffer, client>>

\* The transition settles.
Settle ==
    /\ life.at = "each" /\ todo = {} /\ life.op # "delete"
    /\ box' = IF life.op = "pause" THEN "paused" ELSE "running"
    /\ life' = Idle
    /\ UNCHANGED <<listed, todo, killers, service, processes, buffer, client>>

Killed ==
    /\ life.at = "each" /\ todo = {} /\ life.op = "delete"
    /\ todo' = listed
    /\ life' = [life EXCEPT !.at = "await"]
    /\ UNCHANGED <<box, listed, killers, service, processes, buffer, client>>

\* Mutant: without the two seconds.
AwaitCompletion(c) ==
    /\ life.at = "await" /\ c \in todo
    /\ waiter[c] = "done"
    /\ todo' = todo \ {c}
    /\ UNCHANGED <<box, life, listed, killers, service, processes, buffer, client>>

\* session.wait(2): it completes, or two seconds pass.
Await(c) ==
    /\ life.at = "await" /\ c \in todo
    /\ todo' = todo \ {c}
    /\ UNCHANGED <<box, life, listed, killers, service, processes, buffer, client>>

\* Every session of the sandbox, whether it was listed or not.
Pop ==
    /\ life.at = "await" /\ todo = {}
    /\ sessions' = {}
    /\ life' = [life EXCEPT !.at = "drop"]
    /\ UNCHANGED <<box, listed, todo, killers, starter, state, waiter, processes, buffer,
                   client>>

Drop ==
    /\ life.at = "drop"
    /\ box' = "gone"
    /\ life' = Idle
    /\ UNCHANGED <<listed, todo, killers, service, processes, buffer, client>>

-----------------------------------------------------------------------------

Start(c) == Check(c) \/ Spawn(c) \/ Register(c) \/ StartThreads(c)
Process(c) == Write(c) \/ Exit(c) \/ HelperExits(c)
Follow(c) == Read(c) \/ Reap(c) \/ Stamp(c) \/ Complete(c)
Advance == \/ ListActive \/ SignalPolled \/ SetState \/ Settle \/ Killed \/ Pop \/ Drop
           \/ \E c \in Commands : PollNext(c) \/ Await(c)

\* No request is in flight and nothing runs, or is going to.
Quiet ==
    /\ life = Idle
    /\ \A c \in Commands : starter[c] \in {"none", "started"}
    /\ UNCHANGED vars

Next ==
    \/ \E c \in Commands : Start(c) \/ Process(c) \/ Follow(c) \/ Poll(c)
                           \/ Kill(c) \/ KillPolled(c)
    \/ Pause \/ Resume \/ Delete
    \/ Advance
    \/ Quiet

Spec == Init /\ [][Next]_vars

\* The service's threads run; the waits of delete are bounded by two seconds.
\* Nothing is assumed of the processes or of the clients.
FairSpec ==
    /\ Spec
    /\ WF_vars(Advance)
    /\ \A c \in Commands : WF_vars(Follow(c))

-----------------------------------------------------------------------------
(* Properties. *)

\* Every variable has its type.
TypeOK ==
    /\ box \in {"running", "pausing", "paused", "resuming", "killing", "gone"}
    /\ life \in [op : {"none", "pause", "resume", "delete"},
                 at : {"idle", "list", "each", "signal", "label", "await", "drop"},
                 on : Commands \cup {NoCommand}]
    /\ listed \subseteq Commands /\ todo \subseteq Commands
    /\ killers \subseteq Commands
    /\ starter \in [Commands -> {"none", "checked", "spawned", "registered", "started"}]
    /\ sessions \subseteq Commands
    /\ state \in [Commands -> {"none", "running", "paused", "exited"}]
    /\ waiter \in [Commands -> {"none", "waiting", "stamped", "done"}]
    /\ proc \in [Commands -> {"none", "running", "stopped", "exited", "dead"}]
    /\ helper \in [Commands -> {"none", "running", "stopped"}]
    /\ written \in [Commands -> 0..MaxOutput]
    /\ buffer \in [Commands -> 0..MaxOutput]
    /\ client \in [Commands -> [got : 0..MaxOutput, exited : BOOLEAN]]

\* A client that was told that a command has exited has been given all it
\* ever wrote, though output, exit and polling are three threads' business.
ClientMissesNothing == \A c \in Commands : client[c].exited => client[c].got = written[c]

Ended(c) == proc[c] \in {"exited", "dead"}

\* A resume finds again each group that a pause stopped, whatever exited, was
\* started or was killed in between: in a running sandbox no shell is stopped,
\* and nothing else of its group unless the shell has exited.
ShellsAreContinued ==
    box = "running" =>
        \A c \in Commands :
            proc[c] # "stopped" /\ (helper[c] = "stopped" => Ended(c))

\* Pausing a sandbox pauses its active commands, and they go on after a resume
\* (docs/e2b-api-guide.md, section 5): nothing of them stays stopped.
RunningIsContinued ==
    box = "running" => \A c \in Commands : proc[c] # "stopped" /\ helper[c] # "stopped"

\* The shells of the sessions that delete found have ended once the sandbox is
\* gone, also those that a pause had stopped.
DeleteKillsListed == box = "gone" => \A c \in listed : Ended(c)

\* Deleting a sandbox terminates all of its active commands
\* (docs/e2b-api-guide.md, section 5): nothing is left of the active sessions
\* that delete found.
DeleteEndsListed == box = "gone" => \A c \in listed : Ended(c) /\ helper[c] = "none"

\* The same of all commands whose start has returned, found by delete or not.
GoneIsQuiet ==
    box = "gone" =>
        \A c \in Commands : starter[c] = "started" => Ended(c) /\ helper[c] = "none"

\* What wait returns is an exited command, as the tests expect of it.
CompletedIsExited == \A c \in Commands : waiter[c] = "done" => state[c] = "exited"

\* A pause, resume or delete ends, even if a process that outlived its shell
\* never closes the stream.
LifecycleEnds == life # Idle ~> life = Idle

\* A command whose group is dead is reported as completed, also when delete
\* has already forgotten its session.
EndedIsReported ==
    \A c \in Commands :
        waiter[c] = "waiting" /\ Ended(c) /\ helper[c] = "none" ~> waiter[c] = "done"

=============================================================================
