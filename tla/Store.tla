-------------------------------- MODULE Store --------------------------------
(***************************************************************************)
(* JsonMetadataStore (src/src/agentenv/store.py): all records in one file, *)
(* which a write reads, changes in one place, writes to a temporary file   *)
(* and puts in its place, under the store's own lock.  The writers are     *)
(* request threads: one that holds the orchestrator's lock, and others     *)
(* that hold no lock but this one.  The process may die at any point.      *)
(*                                                                         *)
(* Left out: the retries of os.replace, which only Windows needs, and the  *)
(* creation of an empty file on the first start.                           *)
(***************************************************************************)
EXTENDS Naturals

CONSTANTS Keys, Values, NoRecord, Writers

ASSUME StoreAssumption == NoRecord \notin Values

VARIABLES
    file,   \* metadata.json: id -> record
    job     \* per thread: its write, and the contents it will put in place

storeVars == <<file, job>>

Files == [Keys -> Values \cup {NoRecord}]
Idle == [at |-> "idle"]
Jobs == {Idle} \cup [at : {"read", "written"}, key : Keys,
                     value : Values \cup {NoRecord}, copy : Files]

StoreInit ==
    /\ file = [k \in Keys |-> NoRecord]
    /\ job = [w \in Writers |-> Idle]

Locked == \E w \in Writers : job[w] # Idle

\* Mutant: the file is read before the lock is taken.
ReadUnlocked(w, k, v) ==
    /\ job[w] = Idle
    /\ job' = [job EXCEPT ![w] = [at |-> "read", key |-> k, value |-> v, copy |-> file]]
    /\ UNCHANGED file

\* _put or _delete (v is NoRecord) takes the lock and reads the file.
ReadFile(w, k, v) ==
    /\ ~Locked
    /\ job' = [job EXCEPT ![w] = [at |-> "read", key |-> k, value |-> v, copy |-> file]]
    /\ UNCHANGED file

\* The change is made and goes to the temporary file, which is synced.
WriteTemporary(w) ==
    /\ job[w].at = "read"
    /\ job' = [job EXCEPT ![w].at = "written",
                          ![w].copy = [@ EXCEPT ![job[w].key] = job[w].value]]
    /\ UNCHANGED file

\* os.replace, and the lock is released.
Replace(w) ==
    /\ job[w].at = "written"
    /\ file' = job[w].copy
    /\ job' = [job EXCEPT ![w] = Idle]

WriteStep(w) == WriteTemporary(w) \/ Replace(w)

\* The process dies: what was under way is lost.
Die ==
    /\ job' = [w \in Writers |-> Idle]
    /\ UNCHANGED file

StoreNext ==
    \/ \E w \in Writers, k \in Keys, v \in Values \cup {NoRecord} : ReadFile(w, k, v)
    \/ \E w \in Writers : WriteStep(w)
    \/ Die

StoreSpec == StoreInit /\ [][StoreNext]_storeVars

C == INSTANCE Catalogue WITH records <- file

\* The store is a catalogue: a write changes one record and no other, though
\* it writes all of them back, and a crash changes none.
AtomicCatalogue == C!Spec

=============================================================================
