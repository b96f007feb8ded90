----------------------------- MODULE Filesystem -----------------------------
(***************************************************************************)
(* The filesystem requests of one sandbox (src/src/agentenv/filesystem.py) *)
(* and the removal of its workspace by a delete.                           *)
(*                                                                         *)
(* Every request runs in a thread of its own and takes no lock: it looks   *)
(* at the tree, then changes it by system calls.  What a path leads to may *)
(* have changed in between.  A step is a look, or a call with the effect   *)
(* the operating system gives it at that moment.  Entries have identities, *)
(* since an open file or directory stays the same when it is moved.        *)
(*                                                                         *)
(* Left out: links that stay inside the workspace (an "escape" is one to a *)
(* file outside it, as in tests/test_filesystem.py), sizes, modes, times   *)
(* and encodings, what programs in the sandbox do meanwhile, pauses and    *)
(* the automatic resume (Lifecycle has those).  The calls that make        *)
(* several directories, and those that copy a tree, are one step; so is    *)
(* the look at an entry and the lstat of it.                               *)
(***************************************************************************)
EXTENDS SequencesExt

CONSTANTS
    Threads,     \* threads of requests, each of which serves one
    Deleter,     \* the thread that deletes the sandbox
    Asks,        \* requests clients make
    Trees,       \* workspaces a command may have made: path -> kind
    Nodes,       \* identities of files and directories
    Unknown

Paths == Seq(STRING)    \* their parts; <<>> is the root

ASSUME FilesystemAssumption ==
    /\ Deleter \notin Threads
    /\ (Nodes \cup Threads) \cap {"dir", "escape", "empty", "mixed", "free", "gone"} = {}
    /\ \A q \in Asks :
        /\ q.op \in {"read", "stat", "list", "write", "mkdir", "move", "remove"}
        /\ q.path \in Paths
        /\ q.op = "move" => q.dest \in Paths
        \* Rejected at once: the root is a directory.
        /\ q.op = "write" => q.path # <<>>
    /\ \A t \in Trees :
        /\ DOMAIN t \subseteq Paths /\ <<>> \in DOMAIN t /\ t[<<>>] = "dir"
        /\ \A p \in DOMAIN t : /\ t[p] \in {"dir", "escape", "file"}
                             /\ \A q \in Prefixes(p) \ {p} : q \in DOMAIN t /\ t[q] = "dir"
        /\ \E f \in [DOMAIN t -> Nodes] : IsInjective(f)

VARIABLES
    sandbox,    \* state of its record, "gone" when it has none
    tree,       \* path -> node, for the paths that exist; <<>> is the root
    what,       \* node -> "dir", "escape", or what the file holds
    ask,        \* per thread: its request
    at,         \* how far it is
    work,       \* what it has in its local variables
    answer,     \* what it answered
    before,     \* history: the tree it found, until another changes it
    seen,       \* history: the files there were when it looked
    did,        \* history: the threads that changed a file
    late        \* history: a request was under way when the delete began

vars == <<sandbox, tree, what, ask, at, work, answer, before, seen, did, late>>
disk == <<tree, what>>
request == <<sandbox, ask, late>>

Actors == Threads \cup {Deleter}
\* A file holds what it held at first (which is its node), what a request wrote,
\* nothing yet, or parts of two writes.
Contents == Nodes \cup Threads \cup {"empty", "mixed"}
Statuses == {"ok", "not_found", "conflict", "refused", "error"}
NoWork == <<>>

-----------------------------------------------------------------------------
(* The tree. *)

Has(p) == p \in DOMAIN tree
IsDir(p) == Has(p) /\ what[tree[p]] = "dir"
Ancestors(p) == Prefixes(p) \ {p}
Missing(p) == {q \in Ancestors(p) : ~Has(q)}
Blocked(p) == \E q \in Ancestors(p) : Has(q) /\ ~IsDir(q)
Subtree(p) == {q \in DOMAIN tree : IsPrefix(p, q)}
Names(p) == {Last(q) : q \in {q \in Subtree(p) : Len(q) = Len(p) + 1}}
PathsOf(n) == {p \in DOMAIN tree : tree[p] = n}
Moved(p, s, d) == d \o SubSeq(p, Len(s) + 1, Len(p))

Fresh == {n \in Nodes : what[n] = "free"}
FilesIn(t, w) ==
    {<<p, t[p], w[t[p]]>> : p \in {p \in DOMAIN t : w[t[p]] # "dir"}}
Files == FilesIn(tree, what)
Held(files) == {f[3] : f \in files}
\* The tree as paths and what is there.
View == [p \in DOMAIN tree |-> what[tree[p]]]

\* The paths of kinds are made.  Bound: as long as Nodes has enough left.
Make(kinds) ==
    LET node == CHOOSE f \in [DOMAIN kinds -> Fresh] : IsInjective(f)
    IN /\ node \in [DOMAIN kinds -> Fresh] /\ IsInjective(node)
       /\ tree' = [p \in DOMAIN tree \cup DOMAIN kinds |->
              IF Has(p) THEN tree[p] ELSE node[p]]
       /\ what' = [n \in Nodes |->
              IF n \in Range(node) THEN kinds[CHOOSE p \in DOMAIN kinds : node[p] = n]
                                   ELSE what[n]]

MakeDirs(paths) == Make([p \in paths |-> "dir"])

Unlink(p) ==
    /\ tree' = Restrict(tree, DOMAIN tree \ {p})
    /\ what' = [what EXCEPT ![tree[p]] = "gone"]

\* rename: what is at s goes to d, in the place of a file that is there.
Rename(s, d) ==
    LET moves == Subtree(s)
        gone == IF Has(d) THEN {tree[d]} ELSE {}
    IN /\ tree' = [p \in (DOMAIN tree \ moves) \cup {Moved(q, s, d) : q \in moves} |->
              IF IsPrefix(d, p) THEN tree[Moved(p, d, s)] ELSE tree[p]]
       /\ what' = [n \in Nodes |-> IF n \in gone THEN "gone" ELSE what[n]]

-----------------------------------------------------------------------------
(* Checks. *)

\* _resolve: the path leaves the workspace.
Bad(p) ==
    \/ ".." \in Range(p)
    \/ \E q \in Prefixes(p) : Has(q) /\ what[tree[q]] = "escape"

Existing(p) == IF Bad(p) THEN "refused" ELSE IF Has(p) THEN "ok" ELSE "not_found"

\* The verdict a, and b if a lets the request go on.
AndThen(a, b) == IF a = "ok" THEN b ELSE a
Unless(c, status) == IF c THEN status ELSE "ok"

\* Mutant: the destination is not looked at.
MovableAnywhere(s, d) == Unless(Bad(d) \/ s = <<>>, "refused")

\* The destination is new, and the source is not the root.
Movable(s, d) ==
    AndThen(Unless(Bad(d), "refused"),
    AndThen(Unless(Has(d), "conflict"),
            Unless(s = <<>>, "refused")))

\* What a request makes of what it sees first.
Verdict(q) ==
    LET p == q.path IN
    CASE q.op = "read" -> AndThen(Existing(p), Unless(IsDir(p), "conflict"))
      [] q.op = "stat" -> Existing(p)
      [] q.op = "list" -> AndThen(Existing(p), Unless(~IsDir(p), "conflict"))
      [] q.op = "write" -> AndThen(Unless(Bad(p), "refused"), Unless(IsDir(p), "conflict"))
      [] q.op = "mkdir" -> AndThen(Unless(Bad(p), "refused"),
                                   Unless(Has(p) /\ ~IsDir(p), "conflict"))
      [] q.op = "move" -> AndThen(Existing(p), Movable(p, q.dest))
      [] q.op = "remove" -> AndThen(Existing(p), Unless(p = <<>>, "refused"))

\* Mutant: a directory is always removed with what is in it.
AlwaysRmtree(q) == "rmtree"

RemovalOf(q) == IF q.recursive THEN "rmtree" ELSE "rmdir"

\* Where it goes on.
Begins(q) ==
    CASE q.op = "read" -> "bytes"
      [] q.op = "stat" -> "stat"
      [] q.op = "list" -> "iterdir"
      [] q.op = "write" -> "parents"
      [] q.op = "mkdir" -> "mkdir"
      [] q.op = "move" -> "parents"
      [] q.op = "remove" -> IF IsDir(q.path) THEN RemovalOf(q) ELSE "unlink"

Goto(r, stage, w) ==
    /\ at' = [at EXCEPT ![r] = stage]
    /\ work' = [work EXCEPT ![r] = w]
    /\ UNCHANGED <<request, answer>>

Answer(r, status, result) ==
    /\ at' = [at EXCEPT ![r] = "done"]
    /\ work' = [work EXCEPT ![r] = NoWork]
    /\ answer' = [answer EXCEPT ![r] = <<status, result>>]
    /\ UNCHANGED request

\* With nothing in the tree changed.
Says(r, status) == Answer(r, status, NoWork) /\ UNCHANGED disk

-----------------------------------------------------------------------------
(* for_sandbox, and the opening of the workspace. *)

\* Mutant: the record is enough.
AdmitRecorded(r, q) ==
    /\ at[r] = "new"
    /\ sandbox # "gone"
    /\ ask' = [ask EXCEPT ![r] = q]
    /\ at' = [at EXCEPT ![r] = "open"]
    /\ UNCHANGED <<sandbox, disk, work, answer, late>>

Admit(r, q) ==
    /\ at[r] = "new"
    /\ sandbox = "running"
    /\ ask' = [ask EXCEPT ![r] = q]
    /\ at' = [at EXCEPT ![r] = "open"]
    /\ UNCHANGED <<sandbox, disk, work, answer, late>>

\* Mutant: the answer is the sandbox's state.
DeclineWithState(r) ==
    /\ at[r] = "new"
    /\ sandbox # "running"
    /\ Says(r, sandbox)

Decline(r) ==
    /\ at[r] = "new"
    /\ sandbox # "running"
    /\ Says(r, IF sandbox = "gone" THEN "not_found" ELSE "refused")

\* __init__ makes the root when it is not there.
Open(r) ==
    /\ at[r] = "open"
    /\ Goto(r, "look", NoWork)
    /\ IF Has(<<>>) THEN UNCHANGED disk ELSE MakeDirs({<<>>})

Look(r) ==
    /\ at[r] = "look"
    /\ UNCHANGED disk
    /\ IF Verdict(ask[r]) = "ok" THEN Goto(r, Begins(ask[r]), NoWork)
                                 ELSE Answer(r, Verdict(ask[r]), NoWork)

-----------------------------------------------------------------------------
(* read, stat and list. *)

ReadBytes(r) ==
    /\ at[r] = "bytes"
    /\ LET p == ask[r].path IN
       IF Has(p) /\ ~IsDir(p) THEN Answer(r, "ok", [data |-> what[tree[p]]]) /\ UNCHANGED disk
                              ELSE Says(r, "error")

\* What a request that changed an entry ends with, or the request itself.
Subject(q) == IF q.op = "move" THEN q.dest ELSE q.path
Kind(p) == [type |-> IF IsDir(p) THEN "dir" ELSE "file"]

Stat(r) ==
    /\ at[r] = "stat"
    /\ UNCHANGED disk
    /\ LET p == Subject(ask[r]) IN
       Answer(r, Existing(p), IF Existing(p) = "ok" THEN Kind(p) ELSE NoWork)

IterDir(r) ==
    /\ at[r] = "iterdir"
    /\ LET p == ask[r].path IN
       IF IsDir(p) THEN Goto(r, "entries", <<[left |-> Names(p), got |-> {}]>>) /\ UNCHANGED disk
                   ELSE Says(r, "error")

\* stat of one child, in an order that the names give; one that fails ends it.
Entry(r) ==
    /\ at[r] = "entries" /\ work[r][1].left # {}
    /\ UNCHANGED disk
    /\ LET list == work[r][1]
           name == CHOOSE n \in list.left : TRUE
           p == Append(ask[r].path, name)
       IN IF Existing(p) = "ok"
          THEN Goto(r, "entries", <<[left |-> list.left \ {name},
                                     got |-> list.got \cup {<<name, Kind(p)>>}]>>)
          ELSE Answer(r, Existing(p), NoWork)

ListEnds(r) ==
    /\ at[r] = "entries" /\ work[r][1].left = {}
    /\ Answer(r, "ok", [entries |-> work[r][1].got])
    /\ UNCHANGED disk

-----------------------------------------------------------------------------
(* write, mkdir and move. *)

\* Mutant: without exist_ok.
ParentsNew(r) ==
    /\ at[r] = "parents"
    /\ LET p == Subject(ask[r]) IN
       IF Blocked(p) \/ Missing(p) = {}
       THEN Says(r, "conflict")
       ELSE /\ MakeDirs(Missing(p))
            /\ Goto(r, IF ask[r].op = "write" THEN "write" ELSE "rename", NoWork)

\* parent.mkdir(parents=True, exist_ok=True)
Parents(r) ==
    /\ at[r] = "parents"
    /\ LET p == Subject(ask[r]) IN
       IF Blocked(p)
       THEN Says(r, "conflict")
       ELSE /\ MakeDirs(Missing(p))
            /\ Goto(r, IF ask[r].op = "write" THEN "write" ELSE "rename", NoWork)

\* write_bytes opens the file, which empties it, and then writes.  A link that has
\* got there stays one: what it leads to is outside.
OpenFile(r) ==
    /\ at[r] = "write"
    /\ LET p == ask[r].path IN
       \/ (IsDir(p) \/ Blocked(p)) /\ Says(r, "conflict")
       \/ ~Blocked(p) /\ Missing(p) # {} /\ Says(r, "error")
       \/ /\ ~Blocked(p) /\ Missing(p) = {} /\ ~Has(p)
          /\ Make([q \in {p} |-> "empty"])
          /\ Goto(r, "fill", tree'[p])
       \/ /\ Has(p) /\ ~IsDir(p)
          /\ tree' = tree
          /\ what' = [what EXCEPT ![tree[p]] = IF @ = "escape" THEN @ ELSE "empty"]
          /\ Goto(r, "fill", tree[p])

\* Another write may have filled the file since it was emptied, with other bytes
\* and perhaps more of them.
Fill(r) ==
    /\ at[r] = "fill"
    /\ Goto(r, "stat", NoWork)
    /\ tree' = tree
    /\ \E result \in {r, "mixed"} :
          /\ result = "mixed" => what[work[r]] \notin {"empty", "gone", "escape"}
          /\ what' = [what EXCEPT ![work[r]] = IF @ \in {"gone", "escape"} THEN @ ELSE result]

MakeDir(r) ==
    /\ at[r] = "mkdir"
    /\ LET q == ask[r] IN
       \/ /\ Has(q.path) /\ q.exist_ok /\ IsDir(q.path)
          /\ Goto(r, "stat", NoWork) /\ UNCHANGED disk
       \/ /\ Blocked(q.path) \/ (Has(q.path) /\ ~(q.exist_ok /\ IsDir(q.path)))
          /\ Says(r, "conflict")
       \/ /\ ~Blocked(q.path) /\ Missing(q.path) # {} /\ ~q.parents
          /\ Says(r, "not_found")
       \/ /\ ~Has(q.path) /\ ~Blocked(q.path) /\ (Missing(q.path) = {} \/ q.parents)
          /\ MakeDirs(Missing(q.path) \cup {q.path})
          /\ Goto(r, "stat", NoWork)

\* shutil.move puts it into a directory that is there by now.
Target(q) == IF IsDir(q.dest) THEN Append(q.dest, Last(q.path)) ELSE q.dest

Renames(s, t) ==
    /\ Has(s) /\ ~IsPrefix(s, t)
    /\ Missing(t) = {} /\ ~Blocked(t)
    /\ Has(t) => ~IsDir(s)
\* A directory that cannot be renamed is copied, with the directories above it.
Copies(s, t) == ~Renames(s, t) /\ IsDir(s) /\ ~IsPrefix(s, t) /\ ~Has(t) /\ ~Blocked(t)

Move(r) ==
    /\ at[r] = "rename"
    /\ LET s == ask[r].path
           t == Target(ask[r])
           taken == t # ask[r].dest /\ Has(t)
       IN \/ /\ ~taken /\ Renames(s, t)
             /\ Rename(s, t)
             /\ Goto(r, "stat", NoWork)
          \/ /\ ~taken /\ Copies(s, t)
             /\ Make([p \in Missing(t) \cup {Moved(q, s, t) : q \in Subtree(s)} |->
                         IF IsPrefix(t, p) THEN what[tree[Moved(p, t, s)]] ELSE "dir"])
             /\ Goto(r, "rmtree", NoWork)
          \/ /\ taken \/ ~(Renames(s, t) \/ Copies(s, t))
             /\ Says(r, "conflict")

-----------------------------------------------------------------------------
(* remove, and rmtree for it, for a move that has copied, and for a delete.  *)

RemoveFile(r) ==
    /\ at[r] = "unlink"
    /\ LET p == ask[r].path IN
       IF Has(p) /\ ~IsDir(p) THEN Unlink(p) /\ Answer(r, "ok", NoWork)
                              ELSE Says(r, "error")

RemoveDir(r) ==
    /\ at[r] = "rmdir"
    /\ LET p == ask[r].path IN
       IF IsDir(p) /\ Names(p) = {} THEN Unlink(p) /\ Answer(r, "ok", NoWork)
                                    ELSE Says(r, "conflict")

\* An open directory, the name it has in the one above, and what is left in it.
Frame(p, name) == [dir |-> tree[p], name |-> name, left |-> Names(p)]

DeleteEnds(state) ==
    /\ sandbox' = state
    /\ at' = [at EXCEPT ![Deleter] = "done"]
    /\ work' = [work EXCEPT ![Deleter] = NoWork]
    /\ UNCHANGED <<ask, answer, late>>

\* The caller of rmtree sees an error: a delete puts the state back.
SweepFails(x) ==
    /\ UNCHANGED disk
    /\ IF x = Deleter THEN DeleteEnds("running") ELSE Answer(x, "conflict", NoWork)

SweepEnds(x) ==
    \/ x = Deleter /\ DeleteEnds("gone")
    \/ x # Deleter /\ ask[x].op = "move" /\ Goto(x, "stat", NoWork)
    \/ x # Deleter /\ ask[x].op # "move" /\ Answer(x, "ok", NoWork)

RmTree(x) ==
    /\ at[x] = "rmtree"
    /\ IF IsDir(ask[x].path)
       THEN Goto(x, "sweep", <<Frame(ask[x].path, "/")>>) /\ UNCHANGED disk
       ELSE SweepFails(x)

\* The entries are looked up in the open directory, wherever that is now.
Child(frame, name) == {Append(p, name) : p \in PathsOf(frame.dir)} \cap DOMAIN tree

Sweep(x) ==
    /\ at[x] = "sweep" /\ Last(work[x]).left # {}
    /\ \E name \in Last(work[x]).left :
        LET top == Last(work[x])
            rest == Append(Front(work[x]), [top EXCEPT !.left = @ \ {name}])
        IN \/ /\ Child(top, name) = {}
              /\ SweepFails(x)
           \/ \E p \in Child(top, name) :
                IF IsDir(p)
                THEN Goto(x, "sweep", Append(rest, Frame(p, name))) /\ UNCHANGED disk
                ELSE Goto(x, "sweep", rest) /\ Unlink(p)

\* rmdir, by the name in the directory above.
SweepDir(x) ==
    /\ at[x] = "sweep" /\ Last(work[x]).left = {}
    /\ LET above == Front(work[x])
           empty == {p \in IF above = <<>> THEN {ask[x].path}
                                           ELSE Child(Last(above), Last(work[x]).name) :
                        IsDir(p) /\ Names(p) = {}}
       IN \/ empty = {} /\ SweepFails(x)
          \/ \E p \in empty :
                /\ Unlink(p)
                /\ IF above = <<>> THEN SweepEnds(x) ELSE Goto(x, "sweep", above)

\* Orchestrator.delete, which the requests do not wait for.
Delete ==
    /\ at[Deleter] = "new"
    /\ sandbox' = "killing"
    /\ at' = [at EXCEPT ![Deleter] = "rmtree"]
    /\ late' = \E r \in Threads : at[r] \notin {"new", "done"}
    /\ UNCHANGED <<disk, ask, work, answer>>

-----------------------------------------------------------------------------
(* The specification. *)

Serve(r) ==
    \/ \E q \in Asks : Admit(r, q)
    \/ Decline(r) \/ Open(r) \/ Look(r)
    \/ ReadBytes(r) \/ Stat(r) \/ IterDir(r) \/ Entry(r) \/ ListEnds(r)
    \/ Parents(r) \/ OpenFile(r) \/ Fill(r) \/ MakeDir(r) \/ Move(r)
    \/ RemoveFile(r) \/ RemoveDir(r)

RemoveTree(x) == RmTree(x) \/ Sweep(x) \/ SweepDir(x)

\* What the history variables keep of a step of x.
Note(x) ==
    /\ before' = [r \in Threads |->
          IF r # x THEN IF disk' = disk THEN before[r] ELSE <<>>
          ELSE IF at'[x] = "done" THEN <<>>
          ELSE IF at[x] = "open" THEN View'
          ELSE before[r]]
    /\ seen' = [r \in Threads |->
          IF r # x THEN seen[r]
          ELSE IF at'[x] = "done" THEN {}
          ELSE IF at[x] = "look" /\ ask[x].op = "move" THEN Files
          ELSE seen[r]]
    /\ did' = IF Files' = Files THEN did ELSE did \cup {x}

Quiet == (\A x \in Actors : at[x] = "done") /\ UNCHANGED vars

Next ==
    \/ \E r \in Threads : (Serve(r) \/ RemoveTree(r)) /\ Note(r)
    \/ (Delete \/ RemoveTree(Deleter)) /\ Note(Deleter)
    \/ Quiet

Init ==
    /\ sandbox = "running"
    /\ \E t \in Trees :
        /\ tree = CHOOSE f \in [DOMAIN t -> Nodes] : IsInjective(f)
        /\ what = [n \in Nodes |->
              IF n \notin Range(tree) THEN "free"
              ELSE LET kind == t[CHOOSE p \in DOMAIN t : tree[p] = n]
                   IN IF kind = "file" THEN n ELSE kind]
    /\ ask = [x \in Actors |-> IF x = Deleter THEN [op |-> "delete", path |-> <<>>] ELSE Unknown]
    /\ at = [x \in Actors |-> "new"]
    /\ work = [x \in Actors |-> NoWork]
    /\ answer = [r \in Threads |-> NoWork]
    /\ before = [r \in Threads |-> <<>>]
    /\ seen = [r \in Threads |-> {}]
    /\ did = {}
    /\ late = FALSE

Spec == Init /\ [][Next]_vars

-----------------------------------------------------------------------------
(* Properties. *)

\* The tree is a tree, of distinct nodes that are in use; an answer is one of
\* the statuses of the API.
TypeOK ==
    /\ sandbox \in {"running", "killing", "gone"}
    /\ \A p \in DOMAIN tree : IsPrefix(<<>>, p) /\ ~Blocked(p) /\ Missing(p) = {}
    /\ IsInjective(tree) /\ Range(tree) \subseteq Nodes
    /\ what \in [Nodes -> Contents \cup {"dir", "escape", "free", "gone"}]
    /\ \A n \in Nodes : n \in Range(tree) <=> what[n] \notin {"free", "gone"}
    /\ \A r \in Threads : at[r] = "done" => answer[r][1] \in Statuses
    /\ did \subseteq Actors /\ late \in BOOLEAN

\* The reference: what a request is to do to a tree b (path -> what is there)
\* that nobody else touches.
Free(b, p) ==
    /\ ".." \notin Range(p)
    /\ \A q \in Prefixes(p) \cap DOMAIN b : b[q] # "escape"
Dir(b, p) == p \in DOMAIN b /\ b[p] = "dir"
Room(b, p) == \A q \in Ancestors(p) \cap DOMAIN b : Dir(b, q)
Under(b, p) == {q \in DOMAIN b : IsPrefix(p, q)}
Children(b, p) == {q \in Under(b, p) : Len(q) = Len(p) + 1}
Without(b, p) == Restrict(b, DOMAIN b \ Under(b, p))
With(b, p, v) == [q \in DOMAIN b \cup {p} |-> IF q = p THEN v ELSE b[q]]
WithDirs(b, p) == [q \in DOMAIN b \cup Ancestors(p) |-> IF q \in DOMAIN b THEN b[q] ELSE "dir"]
\* What is at or below s is moved to d, where nothing is.
WithMoved(b, s, d) ==
    [q \in DOMAIN Without(b, s) \cup {Moved(c, s, d) : c \in Under(b, s)} |->
        IF IsPrefix(d, q) THEN b[Moved(q, d, s)] ELSE b[q]]

MaySucceed(q, b) ==
    LET p == q.path
        there == p \in DOMAIN b
    IN /\ Free(b, p)
       /\ q.op \in {"read", "stat", "list", "move", "remove"} => there
       /\ q.op \in {"move", "remove"} => p # <<>>
       /\ q.op \in {"write", "mkdir"} => Room(b, p)
       /\ q.op \in {"read", "write"} => ~Dir(b, p)
       /\ q.op = "list" => Dir(b, p) /\ \A c \in Children(b, p) : Free(b, c)
       /\ q.op = "mkdir" => IF there THEN Dir(b, p) /\ q.exist_ok
                                     ELSE q.parents \/ Ancestors(p) \subseteq DOMAIN b
       /\ q.op = "move" => /\ Free(b, q.dest) /\ q.dest \notin DOMAIN b
                           /\ Room(b, q.dest) /\ ~IsPrefix(p, q.dest)
       /\ q.op = "remove" => q.recursive \/ Children(b, p) = {}

Effect(q, b, r) ==
    LET p == q.path IN
    CASE q.op = "write" -> With(WithDirs(b, p), p, r)
      [] q.op = "mkdir" -> With(WithDirs(b, p), p, "dir")
      [] q.op = "remove" -> Without(b, p)
      [] q.op = "move" -> WithMoved(WithDirs(b, q.dest), p, q.dest)
      [] OTHER -> b

TypeIn(b, p) == [type |-> IF Dir(b, p) THEN "dir" ELSE "file"]

Tells(q, b) ==
    LET p == q.path IN
    CASE q.op = "read" -> [data |-> b[p]]
      [] q.op = "list" -> [entries |-> {<<Last(c), TypeIn(b, c)>> : c \in Children(b, p)}]
      [] q.op \in {"stat", "move"} -> TypeIn(b, p)
      [] q.op = "write" -> [type |-> "file"]
      [] q.op = "mkdir" -> [type |-> "dir"]
      [] q.op = "remove" -> NoWork

\* What the reference says of the step that ends a request, if nobody else changed
\* the tree since it began: it succeeds whenever it may, and otherwise it says why and
\* changes nothing.  (A move into itself is refused after the directories above the
\* destination were made; they stay.)
EndsRight(r) ==
    LET q == ask[r]
        b == before[r]
    IN at[r] # "done" /\ at'[r] = "done" /\ b # <<>> =>
          IF MaySucceed(q, b)
          THEN answer'[r] = <<"ok", Tells(q, b)>> /\ View' = Effect(q, b, r)
          ELSE /\ answer'[r][1] \in {"not_found", "conflict", "refused"}
               /\ View' = IF q.op = "move" /\ Dir(b, q.path) /\ IsPrefix(q.path, q.dest)
                             /\ q.dest \notin DOMAIN b /\ Free(b, q.dest) /\ q.path # <<>>
                             /\ Room(b, q.dest)
                          THEN WithDirs(b, q.dest) ELSE b

\* A request during which nobody else changed the tree does at once what the
\* reference says, and answers so.
AsAlone == [][\A r \in Threads : EndsRight(r)]_vars

\* A move loses no file that was there when it looked.  When it renames or copies,
\* whatever has become of the source and of the destination since: a file that it
\* replaces is new there.  When it removes what it has copied, as long as no other
\* request has changed a file: another may have removed the copy by then.
MoveKeepsFiles ==
    [][\A r \in Threads :
          <<at[r], work[r]>>' # <<at[r], work[r]>> /\ (at[r] = "rename" \/ did \subseteq {r}) =>
             Held(Files \cap seen[r]) \subseteq Held(Files')]_vars

\* A request that was refused, or met a conflict, has changed no file, however
\* others interfered: only a recursive removal (its own, or that of a source it
\* has copied) may have begun to.  A move and a write end with a look at what they
\* have made, and others may have put a link in its place by then: the request is
\* refused for that after its work was done.
RefusalsKeepFiles ==
    \A r \in Threads \cap did :
        at[r] = "done" /\ answer[r][1] \in {"refused", "conflict"} =>
           \/ ask[r].op = "remove" /\ ask[r].recursive
           \/ ask[r].op = "move"
           \/ ask[r].op = "write" /\ answer[r][1] = "refused"

\* A running sandbox has its workspace, though requests may name it and a delete
\* may have failed half way; and the workspace of a deleted one only comes back
\* through a request that was admitted before the delete.
WorkspaceFollowsSandbox ==
    /\ sandbox = "running" => IsDir(<<>>)
    /\ sandbox = "gone" /\ Has(<<>>) => late

=============================================================================
