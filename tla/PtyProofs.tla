------------------------------ MODULE PtyProofs ------------------------------
(***************************************************************************)
(* Theorems about Pty, for any terminals, any connections and any amount   *)
(* of output: what a client puts together, what a poll after the end       *)
(* returns, and what a delete leaves of the terminals.                     *)
(***************************************************************************)
EXTENDS Pty, SequenceTheorems, TLAPS

-----------------------------------------------------------------------------
(* The sandbox, its sessions and its terminals. *)

InsideTypes ==
    /\ backend \in Backends /\ container \in BOOLEAN
    /\ box \in {"running", "pausing", "paused", "resuming", "killing", "gone"}
    /\ life \in [op : {"none", "pause", "resume", "delete"},
                 at : {"idle", "list", "each", "destroy", "drop"}]
    /\ listed \subseteq Ptys /\ todo \subseteq Ptys
    /\ starter \in [Ptys -> {"none", "checked", "forked", "started", "failed"}]
    /\ sessions \subseteq Ptys
    /\ state \in [Ptys -> {"none", "running", "paused", "exited"}]
    /\ reader \in [Ptys -> {"none", "reading", "stamped", "done"}]
    /\ shell \in [Ptys -> {"none", "running", "dead"}]
    /\ job \in [Ptys -> {"none", "member", "own"}]
    /\ stream \in [Ptys -> {"none", "open", "hung", "broken"}]
    /\ written \in [Ptys -> 0..MaxOutput]
    /\ buffer \in [Ptys -> 0..MaxOutput]

\* A terminal, its reader and its session come with its start.
StartOK ==
    /\ \A p \in Ptys : starter[p] \in {"none", "checked", "failed"} =>
           /\ reader[p] = "none" /\ stream[p] = "none"
           /\ shell[p] = "none" /\ job[p] = "none"
    /\ \A p \in sessions \cup listed : starter[p] = "started"

\* Nothing is read that was not written; a reader that is past its loop has read
\* everything, unless its stream broke; a local job holds its terminal open, and no
\* local terminal breaks.
StreamOK ==
    \A p \in Ptys :
        /\ buffer[p] <= written[p]
        /\ reader[p] \in {"stamped", "done"} => StreamEnded(p)
        /\ backend = "local" /\ stream[p] = "hung" => job[p] = "none"
        /\ backend = "local" => stream[p] # "broken"

\* The record's state tells which operation is under way, and what is left of
\* its list.
LifeOK ==
    /\ life # Idle => life.op # "none" /\ life.at # "idle"
    /\ life = Idle => box \in {"running", "paused", "gone"}
    /\ life # Idle => box \in {"pausing", "resuming", "killing"}
    /\ life.at \in {"destroy", "drop"} => life.op = "delete"
    /\ todo \subseteq listed
    /\ life.at # "each" => todo = {}
    /\ life.at \in {"idle", "list"} /\ box # "gone" => listed = {}

\* What delete has been through is dead, but for jobs in a group of their own;
\* nothing runs without the container; destroy took the remote sandbox.
DeadOK ==
    /\ backend = "local" /\ (life.op = "delete" \/ box = "gone") =>
           \A p \in listed \ todo : shell[p] # "running" /\ job[p] # "member"
    /\ backend # "local" /\ ~container =>
           \A p \in Ptys : shell[p] # "running" /\ job[p] = "none"
    /\ backend = "e2b" /\ (life.at = "drop" \/ box = "gone") => ~container
    /\ backend = "local" => ~container

Inside == InsideTypes /\ StartOK /\ StreamOK /\ LifeOK /\ DeadOK

\* No operation is under way.
LEMMA IdleFields == Idle.op = "none" /\ Idle.at = "idle"
  BY DEF Idle

\* The service starts with nothing.
LEMMA InsideInit == Init => Inside
  <1> SUFFICES ASSUME Init PROVE Inside
    OBVIOUS
  <1>1. InsideTypes
    BY PtyAssumption DEF Init, InsideTypes, Idle
  <1>2. StartOK /\ StreamOK
    BY DEF Init, StartOK, StreamOK
  <1>3. LifeOK
    BY IdleFields DEF Init, LifeOK
  <1>4. DeadOK
    BY DEF Init, DeadOK, Idle
  <1> QED
    BY <1>1, <1>2, <1>3, <1>4 DEF Inside

\* What a kill does, if anything: it starts no shell and no job and opens no
\* stream, and with the local backend it leaves neither the shell nor a job in
\* its group.
LEMMA KillEffect ==
    ASSUME Inside, NEW p \in Ptys, KillSession(p)
    PROVE  /\ shell' \in [Ptys -> {"none", "running", "dead"}]
           /\ job' \in [Ptys -> {"none", "member", "own"}]
           /\ stream' \in [Ptys -> {"none", "open", "hung", "broken"}]
           /\ \A q \in Ptys : /\ shell'[q] = "running" => shell[q] = "running"
                              /\ shell[q] \in {"none", "dead"} => shell'[q] = shell[q]
                              /\ job'[q] # "none" => job'[q] = job[q]
                              /\ stream[q] # "open" => stream'[q] = stream[q]
                              /\ stream'[q] # stream[q] => 
                                     /\ q = p /\ stream'[q] = "hung"
                                     /\ backend = "local" => job'[q] = "none"
           /\ backend = "local" => shell'[p] # "running" /\ job'[p] # "member"
  <1>1. CASE reader[p] = "done"
    BY <1>1 DEF KillSession, Inside, InsideTypes, StreamOK, StreamEnded
  <1>2. CASE reader[p] # "done"
    BY <1>2 DEF KillSession, KillPty, HangUp, Inside, InsideTypes
  <1> QED
    BY <1>1, <1>2

\* The start of a terminal.
LEMMA StartKeeps ==
    ASSUME Inside, NEW p \in Ptys, Start(p)
    PROVE  Inside'
  <1> USE DEF Inside, InsideTypes
  <1>1. CASE Check(p)
    BY <1>1 DEF Check, sandbox, terminals, StartOK, StreamOK, LifeOK, DeadOK, StreamEnded
  <1>2. CASE ForkLocal(p)
    BY <1>2 DEF ForkLocal, Opens, sandbox, StartOK, StreamOK, LifeOK, DeadOK, StreamEnded
  <1>3. CASE ForkDocker(p)
    BY <1>3 DEF ForkDocker, Opens, sandbox, StartOK, StreamOK, LifeOK, DeadOK, StreamEnded
  <1>4. CASE ForkE2B(p)
    BY <1>4 DEF ForkE2B, Opens, sandbox, StartOK, StreamOK, LifeOK, DeadOK, StreamEnded
  <1>5. CASE Register(p)
    BY <1>5 DEF Register, sandbox, terminals, StartOK, StreamOK, LifeOK, DeadOK, StreamEnded
  <1> QED
    BY <1>1, <1>2, <1>3, <1>4, <1>5 DEF Start

\* Output, its end, and the reader.
LEMMA TerminalKeeps ==
    ASSUME Inside, NEW p \in Ptys, Terminal(p) \/ Follow(p)
    PROVE  Inside'
  <1> USE DEF Inside, InsideTypes
  <1>1. CASE Write(p)
    BY <1>1, PtyAssumption DEF Write, sandbox, service, StartOK, StreamOK, LifeOK, DeadOK, StreamEnded
  <1>2. CASE Exit(p) \/ JobExits(p)
    BY <1>2 DEF Exit, JobExits, HangUp, sandbox, service, StartOK, StreamOK, LifeOK, DeadOK, StreamEnded
  <1>3. CASE Detach(p) \/ Returns(p) \/ Break(p)
    BY <1>3 DEF Detach, Returns, Break, HangUp, sandbox, service, StartOK, StreamOK, LifeOK, DeadOK, StreamEnded
  <1>4. CASE Read(p)
    BY <1>4, PtyAssumption DEF Read, sandbox, service, terminals, StartOK, StreamOK, LifeOK, DeadOK, StreamEnded
  <1>5. CASE Stamp(p)
    BY <1>5 DEF Stamp, sandbox, terminals, StartOK, StreamOK, LifeOK, DeadOK, StreamEnded
  <1>6. CASE Complete(p)
    BY <1>6 DEF Complete, sandbox, terminals, StartOK, StreamOK, LifeOK, DeadOK, StreamEnded
  <1> QED
    BY <1>1, <1>2, <1>3, <1>4, <1>5, <1>6 DEF Terminal, Follow

\* A kill, on request or by delete.
LEMMA KillKeeps ==
    ASSUME Inside, NEW p \in Ptys, Kill(p) \/ KillNext(p)
    PROVE  Inside'
  <1> USE DEF Inside
  <1>1. /\ KillSession(p) /\ UNCHANGED <<backend, container, box, life, listed, service, written, buffer>>
        /\ \/ todo' = todo
           \/ todo' = todo \ {p} /\ life.at = "each"
    BY DEF Kill, KillNext, sandbox
  <1>2. InsideTypes'
    BY <1>1, KillEffect DEF InsideTypes, service
  <1>3. StartOK'
    BY <1>1, KillEffect DEF InsideTypes, StartOK, service
  <1>4. StreamOK'
    BY <1>1, KillEffect DEF InsideTypes, StreamOK, StreamEnded, service
  <1>5. LifeOK' /\ DeadOK'
    BY <1>1, KillEffect DEF InsideTypes, LifeOK, DeadOK
  <1> QED
    BY <1>2, <1>3, <1>4, <1>5

\* pause, resume and delete begin.
LEMMA BeginKeeps ==
    ASSUME Inside, Pause \/ Resume \/ Delete
    PROVE  Inside'
  <1> USE DEF Inside, InsideTypes
  <1>1. CASE Pause
    BY <1>1 DEF Pause, Begin, Idle, ptys, service, terminals, StartOK, StreamOK, LifeOK, DeadOK, StreamEnded
  <1>2. CASE Resume
    BY <1>2 DEF Resume, Begin, Idle, ptys, service, terminals, StartOK, StreamOK, LifeOK, DeadOK, StreamEnded
  <1>3. CASE Delete
    BY <1>3 DEF Delete, Begin, Idle, ptys, service, terminals, StartOK, StreamOK, LifeOK, DeadOK, StreamEnded
  <1> QED
    BY <1>1, <1>2, <1>3

\* And go on.
LEMMA AdvanceKeeps ==
    ASSUME Inside, Advance
    PROVE  Inside'
  <1> USE DEF Inside, InsideTypes
  <1>1. CASE ListActive
    BY <1>1 DEF ListActive, Active, Idle, ptys, service, terminals, StartOK, StreamOK, LifeOK, DeadOK, StreamEnded
  <1>2. CASE Settle
    <2>1. InsideTypes'
      BY <1>2 DEF Settle, Idle, ptys, service, terminals
    <2>2. StartOK' /\ StreamOK'
      BY <1>2 DEF Settle, ptys, service, terminals, StartOK, StreamOK, StreamEnded
    <2>3. LifeOK'
      BY <1>2, IdleFields DEF Settle, LifeOK
    <2>4. DeadOK'
      BY <1>2 DEF Settle, Idle, ptys, terminals, LifeOK, DeadOK
    <2> QED
      BY <2>1, <2>2, <2>3, <2>4
  <1>3. CASE Forget
    BY <1>3 DEF Forget, Idle, terminals, StartOK, StreamOK, LifeOK, DeadOK, StreamEnded
  <1>4. CASE Destroy
    <2>1. /\ UNCHANGED <<backend, box, listed, todo, starter, sessions, state, reader,
                          written, buffer>>
          /\ life.at = "destroy" /\ life' = [life EXCEPT !.at = "drop"]
          /\ container' = FALSE \/ (backend = "docker" /\ container' = container)
      BY <1>4 DEF Destroy, service
    <2>2. /\ shell' \in [Ptys -> {"none", "running", "dead"}]
          /\ job' \in [Ptys -> {"none", "member", "own"}]
          /\ stream' \in [Ptys -> {"none", "open", "hung", "broken"}]
      BY <1>4 DEF Destroy
    <2>3. \A p \in Ptys : /\ shell'[p] = "running" => shell[p] = "running"
                          /\ shell[p] \in {"none", "dead"} => shell'[p] = shell[p]
                          /\ job'[p] # "none" => job'[p] = job[p]
                          /\ stream[p] # "open" => stream'[p] = stream[p]
      BY <1>4 DEF Destroy
    <2>4. /\ backend = "local" => UNCHANGED <<shell, job, stream>>
          /\ backend # "local" /\ ~container' =>
                 \A p \in Ptys : shell'[p] # "running" /\ job'[p] = "none"
      <3>1. CASE container /\ ~container'
        BY <1>4, <3>1 DEF Destroy, DeadOK
      <3>2. CASE ~(container /\ ~container')
        BY <1>4, <2>1, <3>2 DEF Destroy, DeadOK
      <3> QED
        BY <3>1, <3>2
    <2>5. InsideTypes'
      BY <2>1, <2>2
    <2>6. StartOK' /\ LifeOK'
      BY <2>1, <2>2, <2>3, IdleFields DEF StartOK, LifeOK
    <2>7. StreamOK'
      BY <2>1, <2>2, <2>3, <2>4 DEF StreamOK, StreamEnded
    <2>8. DeadOK'
      BY <2>1, <2>4 DEF LifeOK, DeadOK
    <2> QED
      BY <2>5, <2>6, <2>7, <2>8
  <1>5. CASE DropRecord
    <2>1. InsideTypes'
      BY <1>5 DEF DropRecord, Idle, ptys, service, terminals
    <2>2. StartOK' /\ StreamOK'
      BY <1>5 DEF DropRecord, ptys, service, terminals, StartOK, StreamOK, StreamEnded
    <2>3. LifeOK'
      BY <1>5, IdleFields DEF DropRecord, LifeOK
    <2>4. DeadOK'
      BY <1>5 DEF DropRecord, Idle, ptys, terminals, LifeOK, DeadOK
    <2> QED
      BY <2>1, <2>2, <2>3, <2>4
  <1>6. ASSUME NEW p \in Ptys, LabelNext(p)
        PROVE  Inside'
    BY <1>6 DEF LabelNext, Idle, terminals, StartOK, StreamOK, LifeOK, DeadOK, StreamEnded
  <1>7. ASSUME NEW p \in Ptys, KillNext(p)
        PROVE  Inside'
    BY <1>7, KillKeeps
  <1> QED
    BY <1>1, <1>2, <1>3, <1>4, <1>5, <1>6, <1>7 DEF Advance

-----------------------------------------------------------------------------
(* The connections and the client. *)

\* What may be under way to a client.
Sent == {ExitFrame} \cup {DataFrame(a, b) : a, b \in 1..MaxOutput}
IsData(f) == f # ExitFrame
First(f) == f[2]
Last(f) == f[3]

OutsideTypes ==
    /\ poll \in [on : Ptys \cup {NoPty}, upto : 0..MaxOutput, done : BOOLEAN]
    /\ to \in [Conns -> Ptys \cup {NoPty}]
    /\ link \in [Conns -> {"none", "open", "dropped", "closed"}]
    /\ pump \in [Conns -> {"none", "loop", "send", "test", "ended", "died"}]
    /\ pos \in [Conns -> 0..(MaxOutput + 1)]
    /\ upto \in [Conns -> 0..MaxOutput]
    /\ wire \in [Conns -> Seq(Sent)]
    /\ have \in [Ptys -> Seq(1..MaxOutput)]
    /\ told \subseteq Conns

\* What a poll found completed has not changed since.
PollOK ==
    poll # NoPoll => /\ poll.on \in Ptys
                     /\ poll.done => /\ reader[poll.on] = "done"
                                     /\ poll.upto = buffer[poll.on]

\* A connection is to a PTY; what is lost is lost; what is read is there.
BridgeOK ==
    \A k \in Conns :
        /\ to[k] = NoPty => link[k] = "none" /\ pump[k] = "none"
        /\ link[k] \in {"none", "dropped"} => wire[k] = <<>>
        /\ pump[k] = "send" => pos[k] < upto[k] /\ upto[k] <= buffer[to[k]]

\* The client of a PTY has one connection that is not left.
OneClient ==
    \A k, l \in Conns : to[k] = to[l] /\ ~Left(k) /\ ~Left(l) => k = l

\* What the client will have when it has read the first i frames that are under
\* way.
Reaches(k, i) == IF i = 0 THEN Len(have[to[k]]) ELSE Last(wire[k][i])

\* The frames that are under way carry on from what the client has, and the pump
\* from them; nothing follows the exit.
Alive == {"loop", "send", "test"}
WireOf(k) ==
    /\ \A i \in 1..Len(wire[k]) :
           IF IsData(wire[k][i])
           THEN /\ First(wire[k][i]) = Reaches(k, i - 1) + 1
                /\ First(wire[k][i]) <= Last(wire[k][i])
                /\ Last(wire[k][i]) <= buffer[to[k]]
           ELSE i = Len(wire[k])
    /\ link[k] = "open" /\ pump[k] \in Alive =>
           /\ \A i \in 1..Len(wire[k]) : IsData(wire[k][i])
           /\ \/ pos[k] = Reaches(k, Len(wire[k]))
              \/ pos[k] = MaxOutput + 1 /\ pump[k] = "loop" /\ wire[k] = <<>>
WireOK == \A k \in Conns : WireOf(k)

\* The client has the beginning of the output.
HaveOK ==
    \A p \in Ptys : /\ Len(have[p]) <= buffer[p]
                    /\ \A i \in 1..Len(have[p]) : have[p][i] = i

Outside == OutsideTypes /\ PollOK /\ BridgeOK /\ OneClient /\ WireOK /\ HaveOK

\* The inductive invariant.
IInv == Inside /\ Outside

\* A data frame has a beginning and an end, and is not the exit.
LEMMA SentFields ==
    /\ ExitFrame \in Sent /\ ~IsData(ExitFrame)
    /\ \A a, b \in 1..MaxOutput :
           /\ DataFrame(a, b) \in Sent /\ IsData(DataFrame(a, b))
           /\ First(DataFrame(a, b)) = a /\ Last(DataFrame(a, b)) = b
    /\ \A f \in Sent : IsData(f) => First(f) \in 1..MaxOutput /\ Last(f) \in 1..MaxOutput
  BY DEF Sent, IsData, First, Last, ExitFrame, DataFrame

\* The service starts without connections.
LEMMA OutsideInit == Init => Outside
  <1> SUFFICES ASSUME Init PROVE Outside
    OBVIOUS
  <1>1. <<>> \in Seq(Sent) /\ <<>> \in Seq(1..MaxOutput) /\ Len(<<>>) = 0
    BY EmptySeq
  <1>2. OutsideTypes
    BY <1>1, PtyAssumption DEF Init, OutsideTypes, NoPoll
  <1>3. PollOK /\ BridgeOK /\ OneClient
    BY DEF Init, PollOK, BridgeOK, OneClient, Left
  <1>4. WireOK /\ HaveOK
    BY <1>1, PtyAssumption DEF Init, WireOK, WireOf, HaveOK, Alive
  <1> QED
    BY <1>2, <1>3, <1>4 DEF Outside

\* A connection stays in order when its wire stays as it is and its pump where it
\* was.
LEMMA WireKept ==
    ASSUME IInv, NEW k \in Conns, to'[k] = to[k], wire'[k] = wire[k],
           \/ wire[k] = <<>> /\ link'[k] # "open"
           \/ Len(have'[to[k]]) = Len(have[to[k]]),
           link'[k] = "open" /\ pump'[k] \in Alive =>
               /\ link[k] = "open" /\ pump[k] \in Alive /\ pos'[k] = pos[k]
               /\ pump'[k] \in {pump[k], "loop"} \/ pos[k] <= MaxOutput,
           to[k] \in Ptys => buffer'[to[k]] \in Nat /\ buffer[to[k]] <= buffer'[to[k]]
    PROVE  WireOf(k)'
  <1>1. wire[k] \in Seq(Sent) /\ Len(wire[k]) \in Nat
    BY LenProperties DEF IInv, Outside, OutsideTypes
  <1>2. ASSUME NEW i \in 1..Len(wire[k])
        PROVE  IF IsData(wire[k][i])
               THEN /\ First(wire[k][i]) = Reaches(k, i - 1)' + 1
                    /\ First(wire[k][i]) <= Last(wire[k][i])
                    /\ Last(wire[k][i]) <= buffer'[to'[k]]
               ELSE i = Len(wire[k])
    <2>1. wire[k] # <<>>
      BY <1>1, <1>2, EmptySeq
    <2>2. to[k] \in Ptys
      BY <2>1 DEF IInv, Outside, OutsideTypes, BridgeOK
    <2>3. Reaches(k, i - 1)' = Reaches(k, i - 1)
      BY <2>1 DEF Reaches
    <2>4. wire[k][i] \in Sent
      BY <1>1, <1>2, ElementOfSeq
    <2>5. buffer[to[k]] \in Nat /\ MaxOutput \in Nat
      BY <2>2, PtyAssumption DEF IInv, Inside, InsideTypes
    <2> QED
      BY <1>2, <2>2, <2>3, <2>4, <2>5, SentFields DEF IInv, Outside, WireOK, WireOf
  <1>3. ASSUME link'[k] = "open", pump'[k] \in Alive
        PROVE  /\ \A i \in 1..Len(wire[k]) : IsData(wire[k][i])
               /\ \/ pos'[k] = Reaches(k, Len(wire[k]))'
                  \/ pos'[k] = MaxOutput + 1 /\ pump'[k] = "loop" /\ wire'[k] = <<>>
    <2>1. Reaches(k, Len(wire[k]))' = Reaches(k, Len(wire[k]))
      BY <1>3 DEF Reaches
    <2>2. pos[k] <= MaxOutput => pos[k] # MaxOutput + 1
      BY PtyAssumption DEF IInv, Outside, OutsideTypes
    <2> QED
      BY <1>3, <2>1, <2>2 DEF IInv, Outside, WireOK, WireOf
  <1> QED
    BY <1>2, <1>3 DEF WireOf

\* The client of a PTY keeps its one connection.
LEMMA OneClientKept ==
    ASSUME OneClient, to' = to, \A k \in Conns : Left(k) => Left(k)'
    PROVE  OneClient'
  BY DEF OneClient

\* Whatever happens inside leaves the connections as they are: output is only
\* added, and none after the end.
LEMMA OutsideKept ==
    ASSUME IInv, Inside', UNCHANGED outside,
           \A p \in Ptys : /\ buffer[p] <= buffer'[p]
                           /\ reader[p] = "done" => reader'[p] = "done" /\ buffer'[p] = buffer[p]
    PROVE  Outside'
  <1>1. UNCHANGED <<poll, to, link, pump, pos, upto, wire, have, told>>
    BY DEF outside, bridge, client
  <1>2. \A p \in Ptys : buffer[p] \in Nat /\ buffer'[p] \in Nat
    BY PtyAssumption DEF IInv, Inside, InsideTypes
  <1>3. OutsideTypes' /\ PollOK'
    BY <1>1 DEF IInv, Outside, OutsideTypes, PollOK
  <1>4. BridgeOK'
    <2>1. \A k \in Conns : pump[k] = "send" => to[k] \in Ptys /\ upto[k] \in Nat
      BY PtyAssumption DEF IInv, Outside, OutsideTypes, BridgeOK
    <2> QED
      BY <1>1, <1>2, <2>1 DEF IInv, Outside, BridgeOK
  <1>5. OneClient'
    BY <1>1, OneClientKept DEF IInv, Outside, Left
  <1>6. WireOK'
    <2> SUFFICES ASSUME NEW k \in Conns PROVE WireOf(k)'
      BY DEF WireOK
    <2> QED
      BY <1>1, <1>2, WireKept
  <1>7. HaveOK'
    <2>1. \A p \in Ptys : Len(have[p]) \in Nat
      BY LenProperties DEF IInv, Outside, OutsideTypes
    <2> QED
      BY <1>1, <1>2, <2>1 DEF IInv, Outside, HaveOK
  <1> QED
    BY <1>3, <1>4, <1>5, <1>6, <1>7 DEF Outside

\* The sandbox, its sessions and its terminals do not depend on the connections.
LEMMA InsideKept ==
    ASSUME Inside, UNCHANGED <<sandbox, ptys>>
    PROVE  Inside'
  <1>1. UNCHANGED <<backend, container, box, life, listed, todo, starter, sessions, state,
                    reader, shell, job, stream, written, buffer>>
    BY DEF sandbox, ptys, service, terminals
  <1> QED
    BY <1>1 DEF Inside, InsideTypes, StartOK, StreamOK, StreamEnded, LifeOK, DeadOK

\* A poll.
LEMMA PollKeeps ==
    ASSUME IInv, (\E p \in Ptys : PollTake(p)) \/ PollReply
    PROVE  IInv'
  <1>1. UNCHANGED <<sandbox, ptys, bridge, client>>
    BY DEF PollTake, PollReply
  <1>2. Inside' /\ UNCHANGED <<to, link, pump, pos, upto, wire, have, told, buffer, reader>>
    BY <1>1, InsideKept DEF IInv, bridge, client, ptys, service
  <1>3. /\ poll' \in [on : Ptys \cup {NoPty}, upto : 0..MaxOutput, done : BOOLEAN]
        /\ PollOK'
    <2>1. ASSUME NEW p \in Ptys, PollTake(p)
          PROVE  <1>3!:
      BY <1>2, <2>1 DEF PollTake, IInv, Inside, InsideTypes, PollOK
    <2>2. CASE PollReply
      BY <1>2, <2>2, PtyAssumption DEF PollReply, NoPoll, PollOK
    <2> QED
      BY <2>1, <2>2
  <1>4. OutsideTypes'
    BY <1>2, <1>3 DEF IInv, Outside, OutsideTypes
  <1>5. BridgeOK' /\ HaveOK'
    BY <1>2 DEF IInv, Outside, BridgeOK, HaveOK
  <1>6. OneClient'
    BY <1>2, OneClientKept DEF IInv, Outside, Left
  <1>7. WireOK'
    BY <1>2 DEF IInv, Outside, WireOK, WireOf, Reaches
  <1> QED
    BY <1>2, <1>3, <1>4, <1>5, <1>6, <1>7 DEF IInv, Outside

\* What a step of a connection that gives the client nothing has to keep.
LEMMA BridgeStep ==
    ASSUME IInv, UNCHANGED <<sandbox, ptys, poll, to, client>>,
           pos' \in [Conns -> 0..(MaxOutput + 1)], upto' \in [Conns -> 0..MaxOutput],
           link' \in [Conns -> {"none", "open", "dropped", "closed"}],
           pump' \in [Conns -> {"none", "loop", "send", "test", "ended", "died"}],
           wire' \in [Conns -> Seq(Sent)],
           BridgeOK', WireOK', \A k \in Conns : Left(k) => Left(k)'
    PROVE  IInv'
  <1>1. Inside' /\ UNCHANGED <<poll, to, have, told, buffer, reader>>
    BY InsideKept DEF IInv, client, ptys, service
  <1>2. OutsideTypes'
    BY <1>1 DEF IInv, Outside, OutsideTypes
  <1>3. PollOK' /\ HaveOK'
    BY <1>1 DEF IInv, Outside, PollOK, HaveOK
  <1>4. OneClient'
    BY <1>1, OneClientKept DEF IInv, Outside
  <1> QED
    BY <1>1, <1>2, <1>3, <1>4 DEF IInv, Outside

\* The pump reads.
LEMMA TakeKeeps ==
    ASSUME IInv, NEW k \in Conns, Take(k)
    PROVE  IInv'
  <1> USE DEF IInv, Outside, OutsideTypes
  <1> DEFINE end == buffer[to[k]]
  <1>1. /\ UNCHANGED <<sandbox, ptys, poll, to, link, wire, have, told, buffer>>
        /\ pump[k] = "loop"
      BY DEF Take, client, ptys
  <1>2. to[k] \in Ptys /\ end \in 0..MaxOutput /\ pos[k] \in 0..(MaxOutput + 1) /\ MaxOutput \in Nat
    BY <1>1, PtyAssumption DEF BridgeOK, Inside, InsideTypes
  <1>3. /\ pump' = [pump EXCEPT ![k] = IF pos[k] > end THEN "died"
                                       ELSE IF pos[k] = end THEN "test" ELSE "send"]
        /\ upto' = [upto EXCEPT ![k] = IF pos[k] < end THEN end ELSE 0]
        /\ pos' = [pos EXCEPT ![k] = IF pos[k] > end THEN 0 ELSE pos[k]]
    <2>1. (CASE pos[k] > end -> "died" [] pos[k] = end -> "test" [] OTHER -> "send")
              = IF pos[k] > end THEN "died" ELSE IF pos[k] = end THEN "test" ELSE "send"
      <3> HIDE DEF end
      <3>1. ASSUME NEW a, NEW b, ~(a /\ b)
            PROVE  (CASE a -> "died" [] b -> "test" [] OTHER -> "send")
                       = IF a THEN "died" ELSE IF b THEN "test" ELSE "send"
        BY <3>1
      <3> QED
        BY <1>2, <3>1
    <2>2. pos' = [pos EXCEPT ![k] = IF pos[k] > end THEN 0 ELSE pos[k]]
      BY DEF Take
    <2> QED
      BY <2>1, <2>2 DEF Take
  <1> HIDE DEF end
  <1>4. /\ pos' \in [Conns -> 0..(MaxOutput + 1)] /\ upto' \in [Conns -> 0..MaxOutput]
        /\ pump' \in [Conns -> {"none", "loop", "send", "test", "ended", "died"}]
    BY <1>2, <1>3
  <1>5. BridgeOK'
    BY <1>1, <1>2, <1>3 DEF BridgeOK, end
  <1>6. WireOK'
    <2> SUFFICES ASSUME NEW l \in Conns PROVE WireOf(l)'
      BY DEF WireOK
    <2>1. link'[l] = "open" /\ pump'[l] \in Alive =>
             /\ link[l] = "open" /\ pump[l] \in Alive /\ pos'[l] = pos[l]
             /\ pump'[l] \in {pump[l], "loop"} \/ pos[l] <= MaxOutput
      BY <1>1, <1>2, <1>3 DEF Alive
    <2>2. to[l] \in Ptys => buffer[to[l]] \in Nat
      BY PtyAssumption DEF Inside, InsideTypes
    <2> QED
      BY <1>1, <2>1, <2>2, WireKept
  <1> QED
    BY <1>1, <1>4, <1>5, <1>6, BridgeStep DEF Left, client

\* A wire stays in order when nothing is added to it and the pump has not moved,
\* or is not heard.
LEMMA WiresKept ==
    ASSUME IInv, UNCHANGED <<to, have, buffer>>,
           \A k \in Conns :
              /\ wire'[k] = wire[k]
              /\ link'[k] = "open" /\ pump'[k] \in Alive =>
                     /\ link[k] = "open" /\ pos'[k] = pos[k]
                     /\ pump[k] = pump'[k] \/ (pump'[k] = "loop" /\ pump[k] \in Alive)
    PROVE  WireOK'
  <1> SUFFICES ASSUME NEW k \in Conns PROVE WireOf(k)'
    BY DEF WireOK
  <1>1. to[k] \in Ptys => buffer[to[k]] \in Nat
    BY PtyAssumption DEF IInv, Inside, InsideTypes
  <1> QED
    BY <1>1, WireKept DEF Alive

\* A connection is over when its wire is empty and the client has left.
LEMMA LostIsKept ==
    ASSUME NEW k \in Conns, wire'[k] = <<>>, link'[k] # "open", wire' = [wire EXCEPT ![k] = <<>>]
    PROVE  WireOf(k)'
  <1>1. Len(wire'[k]) = 0
    BY EmptySeq
  <1> QED
    BY <1>1 DEF WireOf

\* The pump stops, or the connection is found closed, is closed or is lost.
LEMMA EndingKeeps ==
    ASSUME IInv, NEW k \in Conns, PumpStops(k) \/ Notice(k) \/ Input(k) \/ Drop(k)
    PROVE  IInv'
  <1> USE DEF IInv, Outside, OutsideTypes
  <1>1. CASE PumpStops(k)
    <2>1. /\ UNCHANGED <<sandbox, ptys, poll, to, link, upto, wire, client, have, buffer>>
          /\ pump' = [pump EXCEPT ![k] = "ended"] /\ pos' = [pos EXCEPT ![k] = 0]
          /\ pump[k] = "loop"
      BY <1>1 DEF PumpStops, PumpEnds, client, ptys
    <2>2. pos' \in [Conns -> 0..(MaxOutput + 1)]
      BY <2>1, PtyAssumption
    <2>3. BridgeOK'
      BY <2>1 DEF BridgeOK
    <2>4. WireOK'
      BY <2>1, WiresKept DEF Alive
    <2> QED
      BY <2>1, <2>2, <2>3, <2>4, BridgeStep DEF Left
  <1>2. CASE Notice(k) \/ Input(k)
    <2>1. /\ UNCHANGED <<sandbox, ptys, poll, to, pump, pos, upto, wire, client, have, buffer>>
          /\ link' = [link EXCEPT ![k] = "closed"] /\ link[k] \in {"open", "dropped"}
      BY <1>2 DEF Notice, Input, Close, client, ptys
    <2>2. BridgeOK' /\ WireOK'
      BY <2>1, WiresKept DEF BridgeOK, Alive
    <2>3. \A l \in Conns : Left(l) => Left(l)'
      BY <2>1 DEF Left, BridgeOK
    <2> QED
      BY <2>1, <2>2, <2>3, BridgeStep
  <1>3. CASE Drop(k)
    <2>1. /\ UNCHANGED <<sandbox, ptys, poll, to, pump, pos, upto, client, have, buffer>>
          /\ link' = [link EXCEPT ![k] = "dropped"] /\ wire' = [wire EXCEPT ![k] = <<>>]
          /\ link[k] = "open"
      BY <1>3 DEF Drop, client, ptys
    <2>2. wire' \in [Conns -> Seq(Sent)]
      BY <2>1, EmptySeq
    <2>3. BridgeOK'
      BY <2>1 DEF BridgeOK
    <2>4. WireOK'
      <3> SUFFICES ASSUME NEW l \in Conns PROVE WireOf(l)'
        BY DEF WireOK
      <3>1. to[l] \in Ptys => buffer[to[l]] \in Nat
        BY PtyAssumption DEF Inside, InsideTypes
      <3>2. CASE l = k
        BY <2>1, <3>2, LostIsKept
      <3>3. CASE l # k
        BY <2>1, <3>1, <3>3, WireKept
      <3> QED
        BY <3>2, <3>3
    <2>5. \A l \in Conns : Left(l) => Left(l)'
      BY <2>1 DEF Left
    <2> QED
      BY <2>1, <2>2, <2>3, <2>4, <2>5, BridgeStep
  <1> QED
    BY <1>1, <1>2, <1>3

\* What becomes of the wire when a frame is sent.
LEMMA FrameEffect ==
    ASSUME IInv, NEW k \in Conns, NEW f \in Sent, Frame(k, f)
    PROVE  /\ wire' \in [Conns -> Seq(Sent)]
           /\ \A l \in Conns \ {k} : wire'[l] = wire[l]
           /\ link[k] # "open" => wire'[k] = wire[k]
           /\ link[k] = "open" =>
                 /\ wire'[k] # <<>> /\ Len(wire'[k]) = Len(wire[k]) + 1
                 /\ \A i \in 1..Len(wire[k]) : wire'[k][i] = wire[k][i]
                 /\ wire'[k][Len(wire[k]) + 1] = f
  <1>1. wire \in [Conns -> Seq(Sent)]
    BY DEF IInv, Outside, OutsideTypes
  <1> DEFINE w == IF link[k] = "open" THEN Append(wire[k], f) ELSE wire[k]
  <1>2. wire' = [wire EXCEPT ![k] = w]
    BY DEF Frame
  <1>3. /\ w \in Seq(Sent)
        /\ link[k] = "open" =>
              /\ w # <<>> /\ Len(w) = Len(wire[k]) + 1
              /\ \A i \in 1..Len(wire[k]) : w[i] = wire[k][i]
              /\ w[Len(wire[k]) + 1] = f
    BY <1>1, AppendProperties
  <1>4. link[k] # "open" => w = wire[k]
    OBVIOUS
  <1> HIDE DEF w
  <1> QED
    BY <1>1, <1>2, <1>3, <1>4

\* A frame that carries on from the last one keeps the wire in order; so does the
\* exit, after which the pump has ended.
LEMMA WireExtended ==
    ASSUME IInv, NEW k \in Conns, NEW f \in Sent, Frame(k, f), UNCHANGED <<to, link, have, buffer>>,
           link[k] = "open", pump[k] \in {"send", "test"},
           IsData(f) => /\ First(f) = pos[k] + 1 /\ First(f) <= Last(f)
                        /\ Last(f) <= buffer[to[k]],
           pump'[k] \in Alive => IsData(f) /\ pos'[k] = Last(f)
    PROVE  WireOf(k)'
  <1>0. PICK n \in Nat : n = Len(wire[k])
    BY LenProperties DEF IInv, Outside, OutsideTypes
  <1>1. /\ wire'[k] # <<>> /\ Len(wire'[k]) = n + 1
        /\ \A i \in 1..n : wire'[k][i] = wire[k][i]
        /\ wire'[k][n + 1] = f
    BY <1>0, FrameEffect
  <1>2. /\ \A i \in 1..n : IsData(wire[k][i])
        /\ pos[k] = Reaches(k, n)
        /\ \A i \in 1..n : /\ First(wire[k][i]) = Reaches(k, i - 1) + 1
                           /\ First(wire[k][i]) <= Last(wire[k][i])
                           /\ Last(wire[k][i]) <= buffer[to[k]]
    BY <1>0 DEF IInv, Outside, WireOK, WireOf, Alive
  <1>3. \A i \in 0..n : Reaches(k, i)' = Reaches(k, i)
    BY <1>1 DEF Reaches
  <1>4. Reaches(k, n + 1)' = Last(f)
    BY <1>1 DEF Reaches
  <1>5. ASSUME NEW i \in 1..(n + 1)
        PROVE  IF IsData(wire'[k][i])
               THEN /\ First(wire'[k][i]) = Reaches(k, i - 1)' + 1
                    /\ First(wire'[k][i]) <= Last(wire'[k][i])
                    /\ Last(wire'[k][i]) <= buffer'[to'[k]]
               ELSE i = n + 1
    <2>1. CASE i \in 1..n
      <3>1. i - 1 \in 0..n
        BY <1>1, <2>1
      <3> QED
        BY <1>1, <1>2, <1>3, <2>1, <3>1
    <2>2. CASE i = n + 1
      <3>1. i - 1 = n /\ n \in 0..n /\ wire'[k][i] = f
        BY <1>1, <2>2
      <3> QED
        BY <1>2, <1>3, <2>2, <3>1
    <2> QED
      BY <1>1, <2>1, <2>2
  <1>6. pump'[k] \in Alive =>
            /\ \A i \in 1..(n + 1) : IsData(wire'[k][i])
            /\ pos'[k] = Reaches(k, n + 1)'
    BY <1>1, <1>2, <1>4
  <1> QED
    BY <1>1, <1>5, <1>6 DEF WireOf

\* The pump sends what it has read.
LEMMA SendKeeps ==
    ASSUME IInv, NEW k \in Conns, Send(k)
    PROVE  IInv'
  <1> USE DEF IInv, Outside, OutsideTypes
  <1> DEFINE f == DataFrame(pos[k] + 1, upto[k])
  <1>1. /\ UNCHANGED <<sandbox, ptys, poll, to, link, client, have, buffer>>
        /\ pump[k] = "send" /\ Frame(k, f) /\ upto' = [upto EXCEPT ![k] = 0]
        /\ \/ pos' = [pos EXCEPT ![k] = upto[k]] /\ pump' = [pump EXCEPT ![k] = "loop"]
           \/ /\ link[k] = "dropped"
              /\ pos' = [pos EXCEPT ![k] = 0] /\ pump' = [pump EXCEPT ![k] = "ended"]
    BY DEF Send, PumpEnds, client, ptys
  <1>2. /\ MaxOutput \in Nat /\ to[k] \in Ptys /\ buffer[to[k]] \in 0..MaxOutput
        /\ pos[k] < upto[k] /\ upto[k] <= buffer[to[k]]
        /\ pos[k] \in 0..(MaxOutput + 1) /\ upto[k] \in 0..MaxOutput
    BY <1>1, PtyAssumption DEF BridgeOK, Inside, InsideTypes
  <1>3. pos[k] + 1 \in 1..MaxOutput /\ upto[k] \in 1..MaxOutput
    BY <1>2
  <1>4. f \in Sent /\ IsData(f) /\ First(f) = pos[k] + 1 /\ Last(f) = upto[k]
    BY <1>3, SentFields
  <1> HIDE DEF f
  <1>5. wire' \in [Conns -> Seq(Sent)]
    BY <1>1, <1>4, FrameEffect
  <1>6. /\ pos' \in [Conns -> 0..(MaxOutput + 1)] /\ upto' \in [Conns -> 0..MaxOutput]
        /\ pump' \in [Conns -> {"none", "loop", "send", "test", "ended", "died"}]
    <2>1. upto[k] \in 0..(MaxOutput + 1) /\ 0 \in 0..(MaxOutput + 1) /\ 0 \in 0..MaxOutput
      BY <1>2
    <2>2. pos' \in [Conns -> 0..(MaxOutput + 1)]
      BY <1>1, <2>1
    <2>3. upto' \in [Conns -> 0..MaxOutput]
      BY <1>1, <2>1
    <2>4. pump' \in [Conns -> {"none", "loop", "send", "test", "ended", "died"}]
      <3>1. \E a \in {"loop", "ended"} : pump' = [pump EXCEPT ![k] = a]
        BY <1>1
      <3> QED
        BY <3>1
    <2> QED
      BY <2>2, <2>3, <2>4
  <1>7. BridgeOK'
    BY SMTT(30), <1>1, <1>2, <1>4, FrameEffect DEF BridgeOK
  <1>8. WireOK'
    <2> SUFFICES ASSUME NEW l \in Conns PROVE WireOf(l)'
      BY DEF WireOK
    <2>1. to[l] \in Ptys => buffer[to[l]] \in Nat
      BY PtyAssumption DEF Inside, InsideTypes
    <2>2. CASE l = k /\ link[k] = "open"
      <3>1. First(f) <= Last(f) /\ Last(f) <= buffer[to[k]] /\ pos'[k] = Last(f)
        BY <1>1, <1>2, <1>4, <2>2
      <3> QED
        BY <1>1, <1>4, <2>2, <3>1, WireExtended
    <2>3. CASE l # k \/ link[k] # "open"
      <3>1. wire'[l] = wire[l] /\ (link'[l] = "open" => pos'[l] = pos[l] /\ pump'[l] = pump[l])
        BY <1>1, <1>4, <2>3, FrameEffect
      <3> QED
        BY <1>1, <2>1, <3>1, WireKept
    <2> QED
      BY <2>2, <2>3
  <1>9. \A l \in Conns : Left(l) => Left(l)'
    BY <1>1, <1>4, FrameEffect DEF Left
  <1> QED
    BY <1>1, <1>5, <1>6, <1>7, <1>8, <1>9, BridgeStep

\* The pump has nothing to send, and may find the session completed.
LEMMA TestKeeps ==
    ASSUME IInv, NEW k \in Conns, Test(k)
    PROVE  IInv'
  <1> USE DEF IInv, Outside, OutsideTypes
  <1>1. /\ UNCHANGED <<sandbox, ptys, poll, to, link, upto, client, have, buffer>>
        /\ pump[k] = "test"
    BY DEF Test, client, ptys
  <1>2. CASE reader[to[k]] = "done"
    <2>1. /\ Frame(k, ExitFrame) /\ ExitFrame \in Sent
          /\ pos' = [pos EXCEPT ![k] = 0] /\ pump' = [pump EXCEPT ![k] = "ended"]
      BY <1>2, SentFields DEF Test, PumpEnds
    <2>2. wire' \in [Conns -> Seq(Sent)]
      BY <2>1, FrameEffect
    <2>3. pos' \in [Conns -> 0..(MaxOutput + 1)]
      BY <2>1, PtyAssumption
    <2>4. BridgeOK'
      BY <1>1, <2>1, FrameEffect DEF BridgeOK
    <2>5. WireOK'
      <3> SUFFICES ASSUME NEW l \in Conns PROVE WireOf(l)'
        BY DEF WireOK
      <3>1. to[l] \in Ptys => buffer[to[l]] \in Nat
        BY PtyAssumption DEF Inside, InsideTypes
      <3>2. CASE l = k /\ link[k] = "open"
        <4>1. pump'[k] \notin Alive
          BY <2>1 DEF Alive
        <4> QED
          BY <1>1, <2>1, <3>2, <4>1, SentFields, WireExtended
      <3>3. CASE l # k \/ link[k] # "open"
        <4>1. wire'[l] = wire[l] /\ (link'[l] = "open" => pos'[l] = pos[l] /\ pump'[l] = pump[l])
          BY <1>1, <2>1, <3>3, FrameEffect
        <4> QED
          BY <1>1, <3>1, <4>1, WireKept
      <3> QED
        BY <3>2, <3>3
    <2>6. \A l \in Conns : Left(l) => Left(l)'
      BY <1>1, <2>1, FrameEffect DEF Left
    <2> QED
      BY <1>1, <2>1, <2>2, <2>3, <2>4, <2>5, <2>6, BridgeStep
  <1>3. CASE reader[to[k]] # "done"
    <2>1. pump' = [pump EXCEPT ![k] = "loop"] /\ pos' = pos /\ wire' = wire
      BY <1>3 DEF Test
    <2>2. BridgeOK'
      BY <1>1, <2>1 DEF BridgeOK
    <2>3. WireOK'
      BY <1>1, <2>1, WiresKept DEF Alive
    <2> QED
      BY <1>1, <2>1, <2>2, <2>3, BridgeStep DEF Left
  <1> QED
    BY <1>2, <1>3

\* A client without a connection opens one.
LEMMA ConnectKeeps ==
    ASSUME IInv, NEW k \in Conns, NEW p \in Ptys, Connect(k, p)
    PROVE  IInv'
  <1> USE DEF IInv, Outside, OutsideTypes
  <1>1. /\ UNCHANGED <<sandbox, ptys, poll, upto, have, buffer, reader>>
        /\ to' = [to EXCEPT ![k] = p] /\ link' = [link EXCEPT ![k] = "open"]
        /\ pump' = [pump EXCEPT ![k] = "loop"] /\ wire' = [wire EXCEPT ![k] = <<>>]
        /\ told' = told \ {k}
        /\ \A l \in Conns : to[l] = p => Left(l)
    BY DEF Connect, Alone, ptys, service
  <1>2. Len(have[p]) \in 0..MaxOutput /\ MaxOutput \in Nat
    <2>1. Len(have[p]) \in Nat /\ buffer[p] \in 0..MaxOutput /\ Len(have[p]) <= buffer[p]
      BY LenProperties DEF Inside, InsideTypes, HaveOK
    <2> QED
      BY <2>1, PtyAssumption
  <1>3. PICK offset \in {Len(have[p]), MaxOutput + 1} : pos' = [pos EXCEPT ![k] = offset]
    BY DEF Connect
  <1>4. Inside'
    BY <1>1, InsideKept
  <1>5. OutsideTypes'
    <2>1. pos' \in [Conns -> 0..(MaxOutput + 1)]
      BY <1>2, <1>3
    <2>2. wire' \in [Conns -> Seq(Sent)]
      BY <1>1, EmptySeq
    <2> QED
      BY <1>1, <2>1, <2>2
  <1>6. PollOK' /\ HaveOK'
    BY <1>1 DEF PollOK, HaveOK
  <1>7. BridgeOK'
    BY <1>1, <1>3, PtyAssumption DEF BridgeOK
  <1>8. OneClient'
    BY <1>1 DEF OneClient, Left
  <1>9. WireOK'
    <2> SUFFICES ASSUME NEW l \in Conns PROVE WireOf(l)'
      BY DEF WireOK
    <2>1. to[l] \in Ptys => buffer[to[l]] \in Nat
      BY PtyAssumption DEF Inside, InsideTypes
    <2>2. CASE l = k
      <3>1. /\ wire'[k] = <<>> /\ Len(wire'[k]) = 0 /\ to'[k] = p /\ have' = have
            /\ pump'[k] = "loop" /\ pos'[k] = offset
        BY <1>1, <1>3, EmptySeq
      <3>2. Reaches(k, 0)' = Len(have[p])
        BY <3>1 DEF Reaches
      <3> QED
        BY <2>2, <3>1, <3>2 DEF WireOf
    <2>3. CASE l # k
      BY <1>1, <1>3, <2>1, <2>3, WireKept
    <2> QED
      BY <2>2, <2>3
  <1> QED
    BY <1>4, <1>5, <1>6, <1>7, <1>8, <1>9

\* The chunks that a data frame brings.
LEMMA DataChunks ==
    ASSUME NEW a \in 1..MaxOutput, NEW b \in 1..MaxOutput, a <= b,
           NEW s \in Seq(1..MaxOutput), Len(s) = a - 1, \A i \in 1..Len(s) : s[i] = i
    PROVE  LET t == s \o [i \in 1..(b + 1 - a) |-> a + i - 1]
           IN  t \in Seq(1..MaxOutput) /\ Len(t) = b /\ \A i \in 1..b : t[i] = i
  <1> DEFINE n == b + 1 - a
             more == [i \in 1..n |-> a + i - 1]
  <1>1. n \in Nat /\ \A i \in 1..n : a + i - 1 \in 1..MaxOutput
    BY PtyAssumption
  <1>2. more \in Seq(1..MaxOutput) /\ Len(more) = n /\ \A i \in 1..n : more[i] = a + i - 1
    BY <1>1
  <1> HIDE DEF more
  <1>3. n = b + 1 - a
    OBVIOUS
  <1> HIDE DEF n
  <1>4. /\ s \o more \in Seq(1..MaxOutput) /\ Len(s \o more) = Len(s) + Len(more)
        /\ \A i \in 1..(Len(s) + Len(more)) :
               (s \o more)[i] = IF i <= Len(s) THEN s[i] ELSE more[i - Len(s)]
    BY <1>2, ConcatProperties
  <1>5. Len(s) = a - 1 /\ Len(more) = n /\ Len(s) + Len(more) = b
    BY <1>1, <1>2, <1>3
  <1>6. /\ s \o more \in Seq(1..MaxOutput) /\ Len(s \o more) = b
        /\ \A i \in 1..b : (s \o more)[i] = IF i <= a - 1 THEN s[i] ELSE more[i - (a - 1)]
    BY <1>4, <1>5
  <1>7. \A i \in 1..b : (s \o more)[i] = i
    BY <1>1, <1>2, <1>6, <1>3
  <1> QED
    BY <1>6, <1>7, <1>3 DEF more, n

\* The client reads the next frame.
LEMMA ReceiveKeeps ==
    ASSUME IInv, NEW k \in Conns, Receive(k)
    PROVE  IInv'
  <1> USE DEF IInv, Outside, OutsideTypes
  <1> DEFINE f == Head(wire[k])
             p == to[k]
             rest == Tail(wire[k])
             more == [i \in 1..(f[3] + 1 - f[2]) |-> f[2] + i - 1]
  <1>1. /\ UNCHANGED <<sandbox, ptys, poll, to, link, pump, pos, upto, buffer, reader>>
        /\ wire' = [wire EXCEPT ![k] = rest]
        /\ f = ExitFrame => told' = told \cup {k} /\ have' = have
        /\ f # ExitFrame => have' = [have EXCEPT ![p] = have[p] \o more] /\ told' = told
    BY DEF Receive, ptys, service
  <1>2. /\ wire[k] \in Seq(Sent) /\ wire[k] # <<>> /\ p \in Ptys /\ ~Left(k)
        /\ Len(wire[k]) \in Nat \ {0} /\ f \in Sent /\ f = wire[k][1]
    BY EmptySeq, ElementOfSeq DEF Receive, BridgeOK, Left
  <1>3. /\ rest \in Seq(Sent) /\ Len(rest) = Len(wire[k]) - 1
        /\ \A i \in 1..Len(rest) : rest[i] = wire[k][i + 1]
    BY <1>2, HeadTailProperties
  <1>4. Inside' /\ PollOK'
    BY <1>1, InsideKept DEF PollOK
  <1>5. BridgeOK'
    BY <1>1, <1>2 DEF BridgeOK, Left
  <1>6. OneClient'
    BY <1>1, <1>2 DEF OneClient, Left
  <1>7. have[p] \in Seq(1..MaxOutput) /\ Len(have[p]) \in Nat /\ buffer[p] \in Nat
    BY <1>2, LenProperties, PtyAssumption DEF Inside, InsideTypes
  <1> HIDE DEF f, rest, more
  <1>8. \A l \in Conns : l # k /\ to[l] \notin Ptys \ {p} => wire[l] = <<>> /\ link[l] # "open"
    BY <1>2 DEF OneClient, Left, BridgeOK
  <1>9. \A l \in Conns : to[l] \in Ptys => buffer[to[l]] \in Nat
    BY PtyAssumption DEF Inside, InsideTypes
  <1>10. ASSUME NEW l \in Conns, l # k
         PROVE  WireOf(l)'
    <2>1. /\ to'[l] = to[l] /\ wire'[l] = wire[l] /\ link'[l] = link[l]
          /\ pump'[l] = pump[l] /\ pos'[l] = pos[l] /\ buffer' = buffer
      BY <1>1, <1>10
    <2>2. to[l] \in Ptys \ {p} => have'[to[l]] = have[to[l]]
      BY <1>1
    <2>3. \/ wire[l] = <<>> /\ link'[l] # "open"
          \/ Len(have'[to[l]]) = Len(have[to[l]])
      <3>1. CASE to[l] \in Ptys \ {p}
        BY <2>2, <3>1
      <3>2. CASE to[l] \notin Ptys \ {p}
        BY <1>8, <1>10, <2>1, <3>2
      <3> QED
        BY <3>1, <3>2
    <2>4. to[l] \in Ptys => buffer'[to[l]] \in Nat /\ buffer[to[l]] <= buffer'[to[l]]
      BY <1>9, <2>1
    <2> QED
      BY <2>1, <2>3, <2>4, WireKept
  <1>11. CASE f = ExitFrame
    <2>1. ~IsData(wire[k][1]) /\ 1 \in 1..Len(wire[k])
      BY <1>2, <1>11 DEF IsData
    <2>2. Len(wire[k]) = 1 /\ ~(link[k] = "open" /\ pump[k] \in Alive)
      BY <2>1 DEF WireOK, WireOf
    <2>3. wire'[k] = rest /\ Len(rest) = 0
      BY <1>1, <1>3, <2>2
    <2>4. WireOf(k)'
      BY <1>1, <2>2, <2>3 DEF WireOf
    <2>5. OutsideTypes' /\ HaveOK'
      BY <1>1, <1>3, <1>11 DEF HaveOK
    <2> QED
      BY <1>4, <1>5, <1>6, <1>10, <2>4, <2>5 DEF WireOK
  <1>12. CASE f # ExitFrame
    <2>1. IsData(f) /\ First(f) \in 1..MaxOutput /\ Last(f) \in 1..MaxOutput
      BY <1>2, <1>12, SentFields DEF IsData
    <2>2. First(f) = Len(have[p]) + 1 /\ First(f) <= Last(f) /\ Last(f) <= buffer[p]
      <3>1. 1 \in 1..Len(wire[k]) /\ Reaches(k, 1 - 1) = Len(have[p])
        BY <1>2 DEF Reaches
      <3> QED
        BY <1>2, <2>1, <3>1 DEF WireOK, WireOf
    <2>3. /\ have[p] \o more \in Seq(1..MaxOutput) /\ Len(have[p] \o more) = Last(f)
          /\ \A i \in 1..Last(f) : (have[p] \o more)[i] = i
      <3>1. Len(have[p]) = First(f) - 1 /\ \A i \in 1..Len(have[p]) : have[p][i] = i
        BY <1>2, <1>7, <2>1, <2>2 DEF HaveOK
      <3> QED
        BY ZenonT(60), <1>7, <2>1, <2>2, <3>1, DataChunks DEF more, First, Last
    <2>4. /\ have'[p] \in Seq(1..MaxOutput) /\ Len(have'[p]) = Last(f)
          /\ \A i \in 1..Last(f) : have'[p][i] = i
          /\ \A q \in Ptys \ {p} : have'[q] = have[q]
          /\ have' \in [Ptys -> Seq(1..MaxOutput)]
      <3>1. have' = [have EXCEPT ![p] = have[p] \o more]
        BY <1>1, <1>12
      <3> HIDE DEF p
      <3> QED
        BY <1>2, <2>3, <3>1
    <2>5. OutsideTypes'
      BY <1>1, <1>3, <1>12, <2>4
    <2>6. HaveOK'
      BY <1>1, <2>2, <2>4 DEF HaveOK
    <2>7. WireOf(k)'
      <3>1. wire'[k] = rest /\ to'[k] = p
        BY <1>1
      <3>2. \A i \in 0..Len(rest) : Reaches(k, i)' = Reaches(k, i + 1)
        BY <1>2, <1>3, <2>4, <3>1 DEF Reaches
      <3>3. ASSUME NEW i \in 1..Len(rest)
            PROVE  IF IsData(rest[i])
                   THEN /\ First(rest[i]) = Reaches(k, i - 1)' + 1
                        /\ First(rest[i]) <= Last(rest[i])
                        /\ Last(rest[i]) <= buffer'[p]
                   ELSE i = Len(rest)
        <4>1. i + 1 \in 1..Len(wire[k]) /\ rest[i] = wire[k][i + 1] /\ i - 1 \in 0..Len(rest)
          BY <1>2, <1>3
        <4>2. Reaches(k, i - 1)' = Reaches(k, (i + 1) - 1)
          BY <3>2, <4>1
        <4>3. IF IsData(wire[k][i + 1])
              THEN /\ First(wire[k][i + 1]) = Reaches(k, (i + 1) - 1) + 1
                   /\ First(wire[k][i + 1]) <= Last(wire[k][i + 1])
                   /\ Last(wire[k][i + 1]) <= buffer[p]
              ELSE i + 1 = Len(wire[k])
          BY <4>1 DEF WireOK, WireOf
        <4> QED
          BY <1>1, <1>2, <1>3, <4>1, <4>2, <4>3
      <3>4. ASSUME link'[k] = "open", pump'[k] \in Alive
            PROVE  /\ \A i \in 1..Len(rest) : IsData(rest[i])
                   /\ pos'[k] = Reaches(k, Len(wire[k]))'
        <4>1. /\ \A i \in 1..Len(wire[k]) : IsData(wire[k][i])
              /\ pos[k] = Reaches(k, Len(wire[k]))
          BY <1>1, <1>2, <3>4 DEF WireOK, WireOf
        <4>2. PICK n \in Nat : n = Len(rest)
          BY <1>2, <1>3
        <4>3. n \in 0..Len(rest) /\ n + 1 = Len(wire[k])
          BY <1>2, <1>3, <4>2
        <4>4. Reaches(k, n)' = Reaches(k, n + 1)
          BY <3>2, <4>3
        <4>5. Reaches(k, Len(wire[k]))' = Reaches(k, n)'
          BY <3>1, <4>2 DEF Reaches
        <4>6. \A i \in 1..Len(rest) : IsData(rest[i])
          <5> SUFFICES ASSUME NEW i \in 1..Len(rest) PROVE IsData(rest[i])
            OBVIOUS
          <5>1. i + 1 \in 1..Len(wire[k]) /\ rest[i] = wire[k][i + 1]
            BY <1>2, <1>3
          <5> QED
            BY <4>1, <5>1
        <4> QED
          BY <1>1, <4>1, <4>3, <4>4, <4>5, <4>6
      <3> QED
        BY <3>1, <3>3, <3>4 DEF WireOf
    <2> QED
      BY <1>4, <1>5, <1>6, <1>10, <2>5, <2>6, <2>7 DEF WireOK
  <1> QED
    BY <1>11, <1>12

-----------------------------------------------------------------------------
(* The invariant and what follows from it. *)

\* Steps inside add output, and none to a session that is completed.
LEMMA InsideSteps ==
    ASSUME IInv,
           \/ \E p \in Ptys : Start(p) \/ Terminal(p) \/ Follow(p) \/ Kill(p)
           \/ Pause \/ Resume \/ Delete \/ Advance
    PROVE  IInv'
  <1> USE DEF IInv
  <1>1. Inside'
    BY StartKeeps, TerminalKeeps, KillKeeps, BeginKeeps, AdvanceKeeps
  <1>2. UNCHANGED outside
    <2>1. ASSUME NEW p \in Ptys, Start(p) \/ Terminal(p) \/ Follow(p) \/ Kill(p)
          PROVE  UNCHANGED outside
      BY <2>1 DEF Start, Check, ForkLocal, ForkDocker, ForkE2B, Register, Terminal, Write,
                  Exit, JobExits, Detach, Returns, Break, Follow, Read, Stamp, Complete, Kill
    <2>2. CASE Pause \/ Resume \/ Delete \/ Advance
      BY <2>2 DEF Pause, Resume, Delete, Begin, Advance, ListActive, Settle, Forget, Destroy,
                  DropRecord, LabelNext, KillNext
    <2> QED
      BY <2>1, <2>2
  <1>3. \A q \in Ptys :
            /\ buffer[q] <= buffer'[q]
            /\ reader[q] = "done" => reader'[q] = "done" /\ buffer'[q] = buffer[q]
    <2>1. /\ \A q \in Ptys : buffer[q] \in Nat
          /\ reader \in [Ptys -> {"none", "reading", "stamped", "done"}]
          /\ buffer \in [Ptys -> 0..MaxOutput]
      BY PtyAssumption DEF Inside, InsideTypes
    <2>2. ASSUME NEW p \in Ptys, Start(p)
          PROVE  <1>3
      <3>1. buffer' = buffer
        BY <2>2 DEF Start, Check, ForkLocal, ForkDocker, ForkE2B, Register
      <3>2. \/ reader' = reader
            \/ starter[p] = "checked" /\ reader' = [reader EXCEPT ![p] = "reading"]
        BY <2>2 DEF Start, Check, ForkLocal, ForkDocker, ForkE2B, Register, Opens
      <3>3. starter[p] = "checked" => reader[p] = "none"
        BY DEF Inside, StartOK
      <3> QED
        BY <2>1, <3>1, <3>2, <3>3
    <2>3. ASSUME NEW p \in Ptys, Terminal(p) \/ Kill(p)
          PROVE  <1>3
      <3>1. buffer' = buffer /\ reader' = reader
        BY <2>3 DEF Terminal, Write, Exit, JobExits, Detach, Returns, Break, Kill, service
      <3> QED
        BY <2>1, <3>1
    <2>4. ASSUME NEW p \in Ptys, Follow(p)
          PROVE  <1>3
      <3>1. CASE Read(p)
        BY <2>1, <3>1 DEF Read, service
      <3>2. CASE Stamp(p) \/ Complete(p)
        BY <2>1, <3>2 DEF Stamp, Complete
      <3> QED
        BY <2>4, <3>1, <3>2 DEF Follow
    <2>5. CASE Pause \/ Resume \/ Delete \/ Advance
      <3>1. buffer' = buffer /\ reader' = reader
        BY <2>5 DEF Pause, Resume, Delete, Begin, Advance, ListActive, Settle, Forget, Destroy,
                    DropRecord, LabelNext, KillNext, ptys, service
      <3> QED
        BY <2>1, <3>1
    <2> QED
      BY <2>2, <2>3, <2>4, <2>5
  <1> QED
    BY <1>1, <1>2, <1>3, OutsideKept

\* A stutter keeps the invariant.
LEMMA StutterKeeps ==
    ASSUME IInv, UNCHANGED vars
    PROVE  IInv'
  <1>1. UNCHANGED outside /\ UNCHANGED <<sandbox, ptys>>
    BY DEF vars
  <1>2. Inside' /\ buffer' = buffer /\ reader' = reader
    BY <1>1, InsideKept DEF IInv, ptys, service
  <1>3. \A p \in Ptys : buffer[p] \in Nat
    BY PtyAssumption DEF IInv, Inside, InsideTypes
  <1> QED
    BY <1>1, <1>2, <1>3, OutsideKept DEF IInv

\* The invariant is inductive.
LEMMA PtyStep == IInv /\ [Next]_vars => IInv'
  <1> SUFFICES ASSUME IInv, [Next]_vars PROVE IInv'
    OBVIOUS
  <1>1. CASE \/ \E p \in Ptys : Start(p) \/ Terminal(p) \/ Follow(p) \/ Kill(p)
             \/ Pause \/ Resume \/ Delete \/ Advance
    BY <1>1, InsideSteps
  <1>2. CASE (\E p \in Ptys : PollTake(p)) \/ PollReply
    BY <1>2, PollKeeps
  <1>3. CASE \E k \in Conns, p \in Ptys : Connect(k, p)
    BY <1>3, ConnectKeeps
  <1>4. ASSUME NEW k \in Conns, Pump(k) \/ Notice(k) \/ Input(k) \/ Drop(k) \/ Receive(k)
        PROVE  IInv'
    BY <1>4, TakeKeeps, SendKeeps, TestKeeps, EndingKeeps, ReceiveKeeps DEF Pump
  <1>5. CASE Quiet \/ UNCHANGED vars
    BY <1>5, StutterKeeps DEF Quiet
  <1> QED
    BY <1>1, <1>2, <1>3, <1>4, <1>5 DEF Next

\* IInv holds in every state of the service, its connections and their clients.
THEOREM PtyInvariant == Spec => []IInv
  <1>1. Init => IInv
    BY InsideInit, OutsideInit DEF IInv
  <1> QED
    BY <1>1, PtyStep, PTL DEF Spec

\* Every variable has its type: no offset, length or frame ever lies outside the
\* output a terminal may write.
THEOREM PtyTypes == Spec => []TypeOK
  <1>1. IInv => TypeOK
    <2> SUFFICES ASSUME IInv PROVE TypeOK
      OBVIOUS
    <2>1. ASSUME NEW k \in Conns, NEW i \in 1..Len(wire[k])
          PROVE  \/ wire[k][i] = ExitFrame
                 \/ \E a, b \in 1..MaxOutput : wire[k][i] = DataFrame(a, b)
      <3>1. wire[k] \in Seq(Sent)
        BY DEF IInv, Outside, OutsideTypes
      <3>2. wire[k][i] \in Sent
        BY <2>1, <3>1, ElementOfSeq
      <3> QED
        BY <3>2 DEF Sent
    <2> QED
      BY <2>1 DEF TypeOK, IInv, Inside, InsideTypes, Outside, OutsideTypes
  <1> QED
    BY <1>1, PtyInvariant, PTL

\* However many connections a client opens and loses, what it puts together is
\* the output from its beginning.
THEOREM ClientsLoseNothing == Spec => []ResumesGapless
  <1>1. IInv => ResumesGapless
    <2> SUFFICES ASSUME IInv, NEW p \in Ptys
                 PROVE  /\ have[p] = [i \in 1..Len(have[p]) |-> i]
                        /\ Len(have[p]) <= buffer[p]
      BY DEF ResumesGapless
    <2>1. have[p] \in Seq(1..MaxOutput)
      BY DEF IInv, Outside, OutsideTypes
    <2>2. have[p] = [i \in 1..Len(have[p]) |-> have[p][i]]
      BY <2>1, LenProperties
    <2> QED
      BY <2>2 DEF IInv, Outside, HaveOK
  <1> QED
    BY <1>1, PtyInvariant, PTL

\* With any backend, a delete kills what it reaches: of the terminals it has
\* listed only jobs in a process group of their own are there when the sandbox is
\* gone, of the others only local ones, unless docker has kept the container.
THEOREM DeleteReachesTerminals == Spec => []DeleteReaches
  <1>1. IInv => DeleteReaches
    <2> SUFFICES ASSUME IInv, box = "gone", NEW p \in Ptys,
                        shell[p] = "running" \/ job[p] # "none"
                 PROVE  \/ /\ backend = "local"
                           /\ p \in listed => shell[p] # "running" /\ job[p] = "own"
                        \/ backend = "docker" /\ container
      BY DEF DeleteReaches
    <2>1. todo = {} /\ backend \in {"local", "docker", "e2b"} /\ job[p] \in {"none", "member", "own"}
      BY IdleFields, PtyAssumption DEF IInv, Inside, InsideTypes, LifeOK
    <2> QED
      BY <2>1 DEF IInv, Inside, DeadOK
  <1> QED
    BY <1>1, PtyInvariant, PTL

\* A poll that takes its data when the session is completed returns all that was
\* written to the stream, and its next offset fits, whatever runs between the two.
THEOREM PollsAfterExit == Spec => PollAfterExitIsWhole
  <1>1. IInv /\ [Next]_vars =>
            [PollReply /\ poll.done =>
                 /\ NextOffset = poll.upto
                 /\ stream[poll.on] # "broken" => poll.upto = written[poll.on]]_vars
    <2> SUFFICES ASSUME IInv, PollReply, poll.done
                 PROVE  /\ NextOffset = poll.upto
                        /\ stream[poll.on] # "broken" => poll.upto = written[poll.on]
      OBVIOUS
    <2>1. poll.on \in Ptys /\ reader[poll.on] = "done" /\ poll.upto = buffer[poll.on]
      BY DEF PollReply, IInv, Outside, PollOK
    <2>2. StreamEnded(poll.on)
      BY <2>1 DEF IInv, Inside, StreamOK
    <2> QED
      BY <2>1, <2>2 DEF NextOffset, StreamEnded
  <1> QED
    BY <1>1, PtyInvariant, PTL DEF Spec, PollAfterExitIsWhole

=============================================================================
