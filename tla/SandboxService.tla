--------------------------- MODULE SandboxService ---------------------------
(***************************************************************************)
(* What the orchestrator promises its callers.  A call takes effect at one *)
(* instant, its return, or fails and changes nothing; only a call changes  *)
(* a sandbox; what is gone stays gone.  A crash decides every call in      *)
(* flight one way or the other.  Only fork is not atomic: its children     *)
(* appear one by one, and stay if it fails.                                *)
(***************************************************************************)
CONSTANTS Sandboxes, Threads, NoCall

VARIABLES
    status, \* per sandbox: unborn, running, paused or gone
    ttl,    \* does it have a deadline
    call    \* per thread: the call in flight

vars == <<status, ttl, call>>

Live == {"running", "paused"}

Init ==
    /\ status = [s \in Sandboxes |-> "unborn"]
    /\ ttl = [s \in Sandboxes |-> FALSE]
    /\ call = [t \in Threads |-> NoCall]

Set(s, state, deadline) ==
    /\ status' = [status EXCEPT ![s] = state]
    /\ ttl' = [ttl EXCEPT ![s] = deadline]

Invoke(t, o, s) ==
    /\ call[t] = NoCall
    /\ o = "create" <=> status[s] = "unborn"
    /\ call' = [call EXCEPT ![t] = [op |-> o, on |-> s]]
    /\ UNCHANGED <<status, ttl>>

\* The state a call may find, and the one it leaves.
Finds(o) ==
    CASE o = "create" -> {"unborn"}
      [] o \in {"snapshot", "fork"} -> {"running"}
      [] OTHER -> Live

Leaves(o, state) ==
    CASE o \in {"create", "resume", "wake", "snapshot", "fork"} -> "running"
      [] o = "pause" -> "paused"
      [] o = "delete" -> "gone"
      [] OTHER -> state

Commit(t) ==
    LET o == call[t].op
        s == call[t].on
    IN  /\ call[t] # NoCall
        /\ status[s] \in Finds(o)
        /\ \/ o = "create" /\ \E deadline \in BOOLEAN : Set(s, "running", deadline)
           \/ o # "create" /\ Set(s, Leaves(o, status[s]),
                                  o \notin {"delete", "clear"} /\ (o = "arm" \/ ttl[s]))
        /\ call' = [call EXCEPT ![t] = NoCall]

\* A call that fails leaves its sandbox as it was; a failed creation wastes
\* the id.
Fail(t) ==
    /\ call[t] # NoCall
    /\ IF call[t].op = "create" THEN Set(call[t].on, "gone", FALSE)
                                ELSE UNCHANGED <<status, ttl>>
    /\ call' = [call EXCEPT ![t] = NoCall]

Child(t, s) ==
    /\ call[t] # NoCall /\ call[t].op = "fork"
    /\ status[s] = "unborn"
    /\ \E outcome \in {"running", "gone"} : Set(s, outcome, FALSE)
    /\ call' = call

\* Each sandbox is left as it was or as a call in flight would leave it; a
\* creation in flight, of a child too, succeeds or fails.
Crash ==
    /\ \A s \in Sandboxes :
          \/ status'[s] = status[s] /\ ttl'[s] = ttl[s]
          \/ status[s] = "unborn" /\ status'[s] \in {"running", "gone"}
          \/ \E t \in Threads :
                /\ call[t] # NoCall /\ call[t].on = s
                /\ status[s] \in Finds(call[t].op)
                /\ status'[s] = Leaves(call[t].op, status[s])
                /\ ttl'[s] \in {ttl[s], FALSE}
    /\ call' = [t \in Threads |-> NoCall]

Next ==
    \/ \E t \in Threads, s \in Sandboxes :
          \/ \E o \in {"create", "pause", "resume", "wake", "snapshot", "fork",
                       "delete", "arm", "clear"} : Invoke(t, o, s)
          \/ Child(t, s)
    \/ \E t \in Threads : Commit(t) \/ Fail(t)
    \/ Crash

Spec == Init /\ [][Next]_vars

=============================================================================
