--------------------------------- MODULE Pty ---------------------------------
(***************************************************************************)
(* The PTY service (src/src/agentenv/pty.py) of one sandbox, the terminals *)
(* the three backends give it, and the WebSocket bridge of api.py.         *)
(*                                                                         *)
(* A reader thread, one per terminal and started by the backend before the *)
(* session is registered, copies the output to the session's buffer.  A    *)
(* connection has two threads: a pump, which sends what is in the buffer   *)
(* from its own position on, and the receiver.  A client that loses its    *)
(* connection opens another at the offset it has reached.  Output is       *)
(* counted in chunks.                                                      *)
(*                                                                         *)
(* A terminal is held open by its shell and by a background job; the       *)
(* shell may also let go of it and live on, and a job outlive the shell.   *)
(*                                                                         *)
(* Left out: sizes and resizing, what is typed, the listing and wait       *)
(* requests, events, how frames are cut (Frames), a start that resumes the *)
(* sandbox first, a lifecycle operation that fails (Lifecycle has those),  *)
(* that docker and E2B freeze the shells of a paused sandbox, and a        *)
(* restart of the service, which forgets the sessions.                     *)
(***************************************************************************)
EXTENDS Naturals, Sequences

CONSTANTS
    Backends,    \* a subset of {"local", "docker", "e2b"}
    Ptys,        \* PTY ids, each started at most once
    NoPty,
    Conns,       \* WebSocket connections; an ended one may stand for another
    MaxOutput    \* bound: chunks a terminal writes

ASSUME PtyAssumption ==
    /\ Backends \subseteq {"local", "docker", "e2b"}
    /\ NoPty \notin Ptys
    /\ MaxOutput \in Nat

VARIABLES
    backend,   \* the backend of the service; never changes
    box,       \* state of the sandbox's record, "gone" when it has none
    life,      \* the pause, resume or delete under way: [op, at]
    listed,    \* its local list of sessions,
    todo,      \* and what is left of the loop over it
    starter,   \* per PTY: how far the request that starts it is
    sessions,  \* keys of PtyService._sessions
    state,     \* ManagedPty.state
    reader,    \* per PTY: the reader thread; "done" once completed is set
    container, \* the container or remote sandbox is there; FALSE with local
    shell,     \* the process that runs in the terminal
    job,       \* a background process that holds the terminal too: a "member" of
               \* the shell's process group, or in its "own"
    stream,    \* what the reader reads: a terminal, a docker client, an SDK call
    written,   \* chunks written to the stream
    buffer,    \* chunks appended to the session's buffer
    poll,      \* the POST .../output request that is being answered
    to,        \* per connection: its PTY
    link,      \* "dropped" when the client has gone and the server does not know
    pump,      \* the thread that sends
    pos,       \* its position
    upto,      \* and the end of the data it has read
    wire,      \* frames that are under way to the client
    have,      \* per PTY: the chunks its client has received, in order
    told       \* connections on which the client has been sent the exit

service == <<starter, sessions, state, reader>>
terminals == <<shell, job, stream, written>>
bridge == <<to, link, pump, pos, upto, wire>>
client == <<have, told>>
sandbox == <<backend, container, box, life, listed, todo>>
ptys == <<service, terminals, buffer>>
outside == <<poll, bridge, client>>
vars == <<sandbox, ptys, outside>>

Idle == [op |-> "none", at |-> "idle"]
NoPoll == [on |-> NoPty, upto |-> 0, done |-> FALSE]
ExitFrame == <<"exit">>
DataFrame(from, end) == <<"data", from, end>>

Init ==
    /\ backend \in Backends
    /\ container = (backend # "local")
    /\ box = "running"
    /\ life = Idle /\ listed = {} /\ todo = {}
    /\ starter = [p \in Ptys |-> "none"]
    /\ sessions = {}
    /\ state = [p \in Ptys |-> "none"]
    /\ reader = [p \in Ptys |-> "none"]
    /\ shell = [p \in Ptys |-> "none"]
    /\ job = [p \in Ptys |-> "none"]
    /\ stream = [p \in Ptys |-> "none"]
    /\ written = [p \in Ptys |-> 0]
    /\ buffer = [p \in Ptys |-> 0]
    /\ poll = NoPoll
    /\ to = [k \in Conns |-> NoPty]
    /\ link = [k \in Conns |-> "none"]
    /\ pump = [k \in Conns |-> "none"]
    /\ pos = [k \in Conns |-> 0]
    /\ upto = [k \in Conns |-> 0]
    /\ wire = [k \in Conns |-> <<>>]
    /\ have = [p \in Ptys |-> <<>>]
    /\ told = {}

-----------------------------------------------------------------------------
(* start: the state is checked once; the fork and the registration follow. *)

Check(p) ==
    /\ starter[p] = "none"
    /\ box = "running"
    /\ starter' = [starter EXCEPT ![p] = "checked"]
    /\ UNCHANGED <<sandbox, sessions, state, reader, terminals, buffer,
                   outside>>

Opens(p, shell2, jobs, stream2) ==
    /\ starter' = [starter EXCEPT ![p] = "forked"]
    /\ state' = [state EXCEPT ![p] = "running"]
    /\ reader' = [reader EXCEPT ![p] = "reading"]
    /\ shell' = [shell EXCEPT ![p] = shell2]
    /\ \E j \in jobs : job' = [job EXCEPT ![p] = j]
    /\ stream' = [stream EXCEPT ![p] = stream2]

\* start_pty.  The local backend makes the working directory if it is missing,
\* so that it works in a sandbox that was deleted meanwhile.
ForkLocal(p) ==
    /\ starter[p] = "checked" /\ backend = "local"
    /\ Opens(p, "running", {"none", "member", "own"}, "open")
    /\ UNCHANGED <<sandbox, sessions, written, buffer, outside>>

\* docker exec, which needs a container that runs, starts and exits at once.
ForkDocker(p) ==
    /\ starter[p] = "checked" /\ backend = "docker"
    /\ \/ /\ container /\ box # "paused"
          /\ Opens(p, "running", {"none", "own"}, "open")
       \/ /\ box # "running"
          /\ Opens(p, "dead", {"none"}, "hung")
    /\ UNCHANGED <<sandbox, sessions, written, buffer, outside>>

\* connect raises when there is no remote sandbox.
ForkE2B(p) ==
    /\ starter[p] = "checked" /\ backend = "e2b"
    /\ IF container
       THEN Opens(p, "running", {"none", "own"}, "open")
       ELSE /\ starter' = [starter EXCEPT ![p] = "failed"]
            /\ UNCHANGED <<state, reader, shell, job, stream>>
    /\ UNCHANGED <<sandbox, sessions, written, buffer, outside>>

Register(p) ==
    /\ starter[p] = "forked"
    /\ starter' = [starter EXCEPT ![p] = "started"]
    /\ sessions' = sessions \cup {p}
    /\ UNCHANGED <<sandbox, state, reader, terminals, buffer, outside>>

-----------------------------------------------------------------------------
(* The terminal and its reader. *)

Write(p) ==
    /\ shell[p] = "running" \/ job[p] # "none"
    /\ stream[p] = "open"
    /\ written[p] < MaxOutput
    /\ written' = [written EXCEPT ![p] = @ + 1]
    /\ UNCHANGED <<sandbox, service, shell, job, stream, buffer, outside>>

HangUp(p) == stream' = [stream EXCEPT ![p] = IF @ = "open" THEN "hung" ELSE @]

\* The shell's death ends the stream if nothing else holds the terminal.
Exit(p) ==
    /\ shell[p] = "running"
    /\ shell' = [shell EXCEPT ![p] = "dead"]
    /\ IF job[p] = "none" THEN HangUp(p) ELSE UNCHANGED stream
    /\ UNCHANGED <<sandbox, service, job, written, buffer, outside>>

JobExits(p) ==
    /\ job[p] # "none"
    /\ job' = [job EXCEPT ![p] = "none"]
    /\ IF shell[p] = "dead" THEN HangUp(p) ELSE UNCHANGED stream
    /\ UNCHANGED <<sandbox, service, shell, written, buffer, outside>>

\* The shell closes its terminal and goes on.
Detach(p) ==
    /\ backend # "e2b"
    /\ shell[p] = "running" /\ job[p] = "none" /\ stream[p] = "open"
    /\ HangUp(p)
    /\ UNCHANGED <<sandbox, service, shell, job, written, buffer, outside>>

\* docker's client and the SDK call may return once the shell is dead, although
\* a job holds the terminal in the container.
Returns(p) ==
    /\ backend # "local"
    /\ shell[p] = "dead" /\ stream[p] = "open"
    /\ HangUp(p)
    /\ UNCHANGED <<sandbox, service, shell, job, written, buffer, outside>>

\* The SDK call of E2B's reader raises; the remote shell lives on.
Break(p) ==
    /\ backend = "e2b" /\ stream[p] = "open"
    /\ stream' = [stream EXCEPT ![p] = "broken"]
    /\ UNCHANGED <<sandbox, service, shell, job, written, buffer, outside>>

Read(p) ==
    /\ reader[p] = "reading"
    /\ stream[p] # "broken" /\ buffer[p] < written[p]
    /\ buffer' = [buffer EXCEPT ![p] = @ + 1]
    /\ UNCHANGED <<sandbox, service, terminals, outside>>

\* Mutant: the reader ends with the process.
ExitSeen(p) == stream[p] # "open"

\* The call of E2B's reader has raised; or all is read, and the process waited
\* for: the shell itself with the local backend, else docker's client, which is
\* what has hung up.
StreamEnded(p) ==
    \/ stream[p] = "broken"
    \/ /\ stream[p] = "hung" /\ buffer[p] = written[p]
       /\ backend = "local" => shell[p] = "dead"

\* Mutant: the session is looked up in the service.
StampRegistered(p) ==
    /\ reader[p] = "reading" /\ StreamEnded(p) /\ p \in sessions
    /\ reader' = [reader EXCEPT ![p] = "stamped"]
    /\ state' = [state EXCEPT ![p] = "exited"]
    /\ UNCHANGED <<sandbox, starter, sessions, terminals, buffer, outside>>

\* handle_exit: the stamp, under the session's condition.
Stamp(p) ==
    /\ reader[p] = "reading" /\ StreamEnded(p)
    /\ reader' = [reader EXCEPT ![p] = "stamped"]
    /\ state' = [state EXCEPT ![p] = "exited"]
    /\ UNCHANGED <<sandbox, starter, sessions, terminals, buffer, outside>>

\* handle_exit, after cleanup_pty, which does nothing: completed is set.
Complete(p) ==
    /\ reader[p] = "stamped"
    /\ reader' = [reader EXCEPT ![p] = "done"]
    /\ UNCHANGED <<sandbox, starter, sessions, state, terminals, buffer,
                   outside>>

\* kill_pty.  local kills the shell's process group, which is still there when
\* the shell has died and was not waited for; E2B kills the shell; docker kills
\* its client, and in the container all goes on.
KillPty(p) ==
    IF backend = "docker" THEN HangUp(p) /\ UNCHANGED <<shell, job>>
    ELSE LET left == IF backend = "local" /\ job[p] = "member" THEN "none" ELSE job[p]
         IN  /\ shell' = [shell EXCEPT ![p] = IF @ = "running" THEN "dead" ELSE @]
             /\ job' = [job EXCEPT ![p] = left]
             /\ IF left = "none" THEN HangUp(p) ELSE UNCHANGED stream

\* Mutant: only a session that is labelled running is killed.
KillLabelled(p) ==
    IF state[p] = "running" THEN KillPty(p) ELSE UNCHANGED <<shell, job, stream>>

\* session.kill, which a completed session ignores.
KillSession(p) ==
    IF reader[p] = "done" THEN UNCHANGED <<shell, job, stream>> ELSE KillPty(p)

\* Every request looks the sandbox up, then the session.
Known(p) == box # "gone" /\ p \in sessions

\* A kill request, or a kill message on a connection.
Kill(p) ==
    /\ Known(p) \/ \E k \in Conns : to[k] = p /\ link[k] = "open"
    /\ KillSession(p)
    /\ UNCHANGED <<sandbox, service, written, buffer, outside>>

\* The client of a PTY has one connection at a time, reads what it was sent
\* before it takes another, and polls while it has none.
Left(k) == link[k] \in {"none", "dropped"} \/ (link[k] = "closed" /\ wire[k] = <<>>)
Alone(p) == poll = NoPoll /\ \A k \in Conns : to[k] = p => Left(k)

-----------------------------------------------------------------------------
(* POST .../output: the data under the condition, then the next offset, not  *)
(* under it.                                                                 *)

PollTake(p) ==
    /\ Known(p)
    /\ Alone(p)
    /\ poll' = [on |-> p, upto |-> buffer[p], done |-> reader[p] = "done"]
    /\ UNCHANGED <<sandbox, ptys, bridge, client>>

\* The next offset the client is given.
NextOffset == buffer[poll.on]

PollReply ==
    /\ poll # NoPoll
    /\ poll' = NoPoll
    /\ UNCHANGED <<sandbox, ptys, bridge, client>>

-----------------------------------------------------------------------------
(* The bridge. *)

\* At the offset the client has reached, or at one it made up.
Connect(k, p) ==
    /\ Known(p) /\ Alone(p)
    /\ pump[k] \in {"none", "ended", "died"} /\ link[k] \in {"none", "closed"}
    /\ to' = [to EXCEPT ![k] = p]
    /\ link' = [link EXCEPT ![k] = "open"]
    /\ pump' = [pump EXCEPT ![k] = "loop"]
    /\ \E offset \in {Len(have[p]), MaxOutput + 1} : pos' = [pos EXCEPT ![k] = offset]
    /\ wire' = [wire EXCEPT ![k] = <<>>]
    /\ told' = told \ {k}
    /\ UNCHANGED <<sandbox, ptys, poll, upto, have>>

\* session.read_output, after at most a second.  An offset beyond the buffer
\* raises, and nothing catches it.
Take(k) ==
    LET end == buffer[to[k]]
    IN  /\ pump[k] = "loop" /\ link[k] # "closed"
        /\ pump' = [pump EXCEPT ![k] = CASE pos[k] > end -> "died"
                                         [] pos[k] = end -> "test"
                                         [] OTHER -> "send"]
        /\ upto' = [upto EXCEPT ![k] = IF pos[k] < end THEN end ELSE 0]
        /\ pos' = [pos EXCEPT ![k] = IF @ > end THEN 0 ELSE @]
        /\ UNCHANGED <<sandbox, ptys, poll, to, link, wire, client>>

\* The thread and its position are gone.
PumpEnds(k) ==
    /\ pump' = [pump EXCEPT ![k] = "ended"]
    /\ pos' = [pos EXCEPT ![k] = 0]

\* A frame reaches an open connection, and is lost on any other.
Frame(k, f) == wire' = [wire EXCEPT ![k] = IF link[k] = "open" THEN Append(@, f) ELSE @]

\* Mutant: the data is taken after the length that it is counted by.
SendLate(k) ==
    /\ pump[k] = "send"
    /\ Frame(k, DataFrame(pos[k] + 1, buffer[to[k]]))
    /\ pos' = [pos EXCEPT ![k] = upto[k]]
    /\ upto' = [upto EXCEPT ![k] = 0]
    /\ pump' = [pump EXCEPT ![k] = "loop"]
    /\ UNCHANGED <<sandbox, ptys, poll, to, link, client>>

Send(k) ==
    /\ pump[k] = "send"
    /\ Frame(k, DataFrame(pos[k] + 1, upto[k]))
    /\ upto' = [upto EXCEPT ![k] = 0]
    /\ \/ /\ pos' = [pos EXCEPT ![k] = upto[k]]
          /\ pump' = [pump EXCEPT ![k] = "loop"]
       \/ /\ link[k] = "dropped"                 \* OSError
          /\ PumpEnds(k)
    /\ UNCHANGED <<sandbox, ptys, poll, to, link, client>>

\* Mutant: the label is believed.
TestLabel(k) ==
    /\ pump[k] = "test"
    /\ IF state[to[k]] = "exited"
       THEN Frame(k, ExitFrame) /\ PumpEnds(k)
       ELSE pump' = [pump EXCEPT ![k] = "loop"] /\ UNCHANGED <<pos, wire>>
    /\ UNCHANGED <<sandbox, ptys, poll, to, link, upto, client>>

\* The data was empty.
Test(k) ==
    /\ pump[k] = "test"
    /\ IF reader[to[k]] = "done"
       THEN Frame(k, ExitFrame) /\ PumpEnds(k)
       ELSE pump' = [pump EXCEPT ![k] = "loop"] /\ UNCHANGED <<pos, wire>>
    /\ UNCHANGED <<sandbox, ptys, poll, to, link, upto, client>>

PumpStops(k) ==
    /\ pump[k] = "loop" /\ link[k] = "closed"
    /\ PumpEnds(k)
    /\ UNCHANGED <<sandbox, ptys, poll, to, link, upto, wire, client>>

Close(k) == link' = [link EXCEPT ![k] = "closed"]

\* The receiver finds the connection gone.
Notice(k) ==
    /\ link[k] = "dropped"
    /\ Close(k)
    /\ UNCHANGED <<sandbox, ptys, poll, to, pump, pos, upto, wire, client>>

\* Input that no terminal takes any more ends the connection.
Input(k) ==
    /\ link[k] = "open"
    /\ reader[to[k]] = "done" \/ stream[to[k]] # "open"
    /\ Close(k)
    /\ UNCHANGED <<sandbox, ptys, poll, to, pump, pos, upto, wire, client>>

-----------------------------------------------------------------------------
(* The client's side of a connection. *)

Drop(k) ==
    /\ link[k] = "open"
    /\ link' = [link EXCEPT ![k] = "dropped"]
    /\ wire' = [wire EXCEPT ![k] = <<>>]
    /\ UNCHANGED <<sandbox, ptys, poll, to, pump, pos, upto, client>>

Receive(k) ==
    /\ wire[k] # <<>>
    /\ LET f == Head(wire[k])
       IN  IF f = ExitFrame
           THEN told' = told \cup {k} /\ UNCHANGED have
           ELSE /\ have' = [have EXCEPT ![to[k]] =
                                @ \o [i \in 1..(f[3] + 1 - f[2]) |-> f[2] + i - 1]]
                /\ UNCHANGED told
    /\ wire' = [wire EXCEPT ![k] = Tail(@)]
    /\ UNCHANGED <<sandbox, ptys, poll, to, link, pump, pos, upto>>

-----------------------------------------------------------------------------
(* pause, resume and delete, under the orchestrator's lock. *)

\* _active_sessions: the label does not matter, only the completed event.
Active == {p \in sessions : reader[p] # "done"}

Begin(o, from, via) ==
    /\ life = Idle
    /\ box \in from
    /\ box' = via
    /\ life' = [op |-> o, at |-> "list"]
    /\ UNCHANGED <<backend, container, listed, todo, ptys, outside>>

Pause == Begin("pause", {"running"}, "pausing")
Resume == Begin("resume", {"paused"}, "resuming")
Delete == Begin("delete", {"running", "paused"}, "killing")

ListActive ==
    /\ life.at = "list"
    /\ listed' = Active /\ todo' = Active
    /\ life' = [life EXCEPT !.at = "each"]
    /\ UNCHANGED <<backend, container, box, ptys, outside>>

\* Mutant: the label is the name of the operation.
LabelOperation(p) ==
    /\ life.at = "each" /\ life.op # "delete" /\ p \in todo
    /\ state' = [state EXCEPT ![p] = IF reader[p] = "done" THEN @ ELSE life.op]
    /\ todo' = todo \ {p}
    /\ UNCHANGED <<backend, container, box, life, listed, starter, sessions, reader,
                   terminals, buffer, outside>>

\* set_state, which only a completed session refuses: no terminal is stopped.
LabelNext(p) ==
    /\ life.at = "each" /\ life.op # "delete" /\ p \in todo
    /\ state' = [state EXCEPT ![p] =
                     IF reader[p] = "done" THEN @
                     ELSE IF life.op = "pause" THEN "paused" ELSE "running"]
    /\ todo' = todo \ {p}
    /\ UNCHANGED <<backend, container, box, life, listed, starter, sessions, reader,
                   terminals, buffer, outside>>

KillNext(p) ==
    /\ life.at = "each" /\ life.op = "delete" /\ p \in todo
    /\ KillSession(p)
    /\ todo' = todo \ {p}
    /\ UNCHANGED <<backend, container, box, life, listed, service, written, buffer,
                   outside>>

\* The transition settles.
Settle ==
    /\ life.at = "each" /\ life.op # "delete" /\ todo = {}
    /\ box' = IF life.op = "pause" THEN "paused" ELSE "running"
    /\ life' = Idle /\ listed' = {}
    /\ UNCHANGED <<backend, container, todo, ptys, outside>>

\* Every listed session is waited for, two seconds at most; then all sessions
\* of the sandbox are forgotten, listed or not.
Forget ==
    /\ life.at = "each" /\ life.op = "delete" /\ todo = {}
    /\ sessions' = {}
    /\ life' = [life EXCEPT !.at = "destroy"]
    /\ UNCHANGED <<backend, container, box, listed, todo, starter, state, reader,
                   terminals, buffer, outside>>

\* backend.destroy: the container or the remote sandbox goes with its shells,
\* unless docker rm -f fails, which nobody notices.  The local backend removes a
\* directory.
Destroy ==
    /\ life.at = "destroy"
    /\ life' = [life EXCEPT !.at = "drop"]
    /\ container' = FALSE \/ (backend = "docker" /\ UNCHANGED container)
    /\ IF container /\ ~container'
       THEN /\ shell' = [p \in Ptys |-> IF shell[p] = "running" THEN "dead" ELSE shell[p]]
            /\ job' = [p \in Ptys |-> "none"]
            /\ stream' = [p \in Ptys |-> IF stream[p] = "open" THEN "hung" ELSE stream[p]]
       ELSE UNCHANGED <<shell, job, stream>>
    /\ UNCHANGED <<backend, box, listed, todo, service, written, buffer, outside>>

DropRecord ==
    /\ life.at = "drop"
    /\ box' = "gone"
    /\ life' = Idle
    /\ UNCHANGED <<backend, container, listed, todo, ptys, outside>>

-----------------------------------------------------------------------------

Start(p) == Check(p) \/ ForkLocal(p) \/ ForkDocker(p) \/ ForkE2B(p) \/ Register(p)
Terminal(p) == \/ Write(p) \/ Exit(p) \/ JobExits(p) \/ Detach(p) \/ Returns(p)
               \/ Break(p)
Follow(p) == Read(p) \/ Stamp(p) \/ Complete(p)
Pump(k) == Take(k) \/ Send(k) \/ Test(k) \/ PumpStops(k)
Advance == \/ ListActive \/ Settle \/ Forget \/ Destroy \/ DropRecord
           \/ \E p \in Ptys : LabelNext(p) \/ KillNext(p)

\* No request is in flight and nothing runs, or is going to.
Quiet ==
    /\ life = Idle
    /\ \A p \in Ptys : starter[p] \in {"none", "started", "failed"}
    /\ UNCHANGED vars

Next ==
    \/ \E p \in Ptys : Start(p) \/ Terminal(p) \/ Follow(p) \/ Kill(p) \/ PollTake(p)
    \/ PollReply
    \/ \E k \in Conns, p \in Ptys : Connect(k, p)
    \/ \E k \in Conns : Pump(k) \/ Notice(k) \/ Input(k) \/ Drop(k) \/ Receive(k)
    \/ Pause \/ Resume \/ Delete
    \/ Advance
    \/ Quiet

Spec == Init /\ [][Next]_vars

\* The readers and the pumps run, and a client reads what it was sent.  Nothing
\* is assumed of the shells, of what clients ask for, of connections staying up,
\* or of a pause, resume or delete getting on.
FairSpec ==
    /\ Spec
    /\ \A p \in Ptys : WF_vars(Follow(p))
    /\ \A k \in Conns : WF_vars(Pump(k)) /\ WF_vars(Receive(k))

-----------------------------------------------------------------------------
(* Properties. *)

\* Every variable has its type.
TypeOK ==
    /\ backend \in Backends /\ container \in BOOLEAN
    /\ box \in {"running", "pausing", "paused", "resuming", "killing", "gone"}
    /\ life \in [op : {"none", "pause", "resume", "delete"},
                 at : {"idle", "list", "each", "destroy", "drop"}]
    /\ listed \subseteq Ptys /\ todo \subseteq Ptys
    /\ starter \in [Ptys -> {"none", "checked", "forked", "started", "failed"}]
    /\ sessions \subseteq Ptys
    /\ state \in [Ptys -> {"none", "running", "paused", "exited"}]
    /\ reader \in [Ptys -> {"none", "reading", "stamped", "done"}]
    /\ shell \in [Ptys -> {"none", "running", "dead"}]
    /\ job \in [Ptys -> {"none", "member", "own"}]
    /\ stream \in [Ptys -> {"none", "open", "hung", "broken"}]
    /\ written \in [Ptys -> 0..MaxOutput]
    /\ buffer \in [Ptys -> 0..MaxOutput]
    /\ poll \in [on : Ptys \cup {NoPty}, upto : 0..MaxOutput, done : BOOLEAN]
    /\ to \in [Conns -> Ptys \cup {NoPty}]
    /\ link \in [Conns -> {"none", "open", "dropped", "closed"}]
    /\ pump \in [Conns -> {"none", "loop", "send", "test", "ended", "died"}]
    /\ pos \in [Conns -> 0..(MaxOutput + 1)]
    /\ upto \in [Conns -> 0..MaxOutput]
    /\ \A k \in Conns : \A i \in 1..Len(wire[k]) :
           wire[k][i] = ExitFrame
        \/ \E a, b \in 1..MaxOutput : wire[k][i] = DataFrame(a, b)
    /\ have \in [Ptys -> Seq(1..MaxOutput)]
    /\ told \subseteq Conns

\* What a client has received over any number of connections, each opened at
\* the offset it had reached, is the output from its beginning: nothing twice,
\* nothing left out, though frames are lost with a connection and the pump of
\* the previous one may still be at work (README.md: ?offset= resumes the
\* buffered output).
ResumesGapless ==
    \A p \in Ptys : /\ have[p] = [i \in 1..Len(have[p]) |-> i]
                    /\ Len(have[p]) <= buffer[p]

\* A poll that takes its data when the session is completed gets all that was
\* written to the stream, and its next offset is the end of what it got.
PollAfterExitIsWhole ==
    [][PollReply /\ poll.done =>
           /\ NextOffset = poll.upto
           /\ stream[poll.on] # "broken" => poll.upto = written[poll.on]]_vars

\* The output can be read on from the offset that a poll returns (the buffers
\* are "reconnectable", pty.py): it is the end of the poll's data.
PollsLeaveNoGap == [][PollReply => NextOffset = poll.upto]_vars

\* What is there of a terminal once the sandbox is gone: with the local backend
\* sessions that delete did not find, and, of those it did, jobs in a process
\* group of their own, though no shell, also if a pause had relabelled it; with
\* docker what is in a container that could not be removed; with E2B nothing,
\* whose session may have been lost or whose kill may have missed it.
DeleteReaches ==
    box = "gone" =>
        \A p \in Ptys :
            shell[p] = "running" \/ job[p] # "none" =>
                \/ /\ backend = "local"
                   /\ p \in listed => shell[p] # "running" /\ job[p] = "own"
                \/ backend = "docker" /\ container

\* Deleting a sandbox cleans up its PTY sessions and leaves no process behind
\* (README.md, PTY section): nothing runs in a terminal whose start has returned.
GoneIsQuiet ==
    box = "gone" =>
        \A p \in Ptys : starter[p] = "started" => shell[p] # "running" /\ job[p] = "none"

\* The same of the jobs of the terminals that delete found.
JobsEnd == box = "gone" => \A p \in listed : job[p] = "none"

\* handle_exit is called when the process ends (_PtySession in pty.py).
ExitIsReported ==
    \A p \in Ptys : reader[p] = "reading" /\ shell[p] = "dead" ~> reader[p] = "done"

\* Once the stream has ended, with the local backend also the shell, the session
\* is reported as completed, although the reader may see the end before the
\* session is registered or after it is forgotten.
EndIsReported ==
    \A p \in Ptys :
        reader[p] = "reading" /\ stream[p] # "open" /\ (backend = "local" => shell[p] = "dead")
            ~> reader[p] = "done"

\* A client that stays connected is told of the end of the session, whatever
\* the session's label says by then; not so when its offset was out of range.
EndIsTold ==
    \A k \in Conns :
        link[k] = "open" /\ reader[to[k]] = "done"
            ~> k \in told \/ link[k] # "open" \/ pump[k] = "died"

=============================================================================
