------------------------ MODULE FilesystemAloneProofs ------------------------
(***************************************************************************)
(* The theorem that a request of Filesystem which no other interferes with *)
(* does at once what the reference says, for any requests, threads and     *)
(* workspaces.                                                             *)
(***************************************************************************)
EXTENDS FilesystemProofs

-----------------------------------------------------------------------------
(* The inductive invariant: how far the request has taken the workspace from b, *)
(* the one it found.                                                            *)

\* What is above an entry of b is a directory.
Workspace(b) ==
    /\ DOMAIN b \subseteq Paths /\ <<>> \in DOMAIN b
    /\ \A p \in DOMAIN b : \A q \in Ancestors(p) : Dir(b, q)

\* What the look has made sure of.
Passed(q, b) ==
    /\ Free(b, q.path)
    /\ q.op \in {"read", "stat", "list", "move", "remove"} => q.path \in DOMAIN b
    /\ q.op \in {"move", "remove"} => q.path # <<>>
    /\ q.op \in {"read", "write"} => ~Dir(b, q.path)
    /\ q.op = "list" => Dir(b, q.path)
    /\ q.op = "mkdir" /\ q.path \in DOMAIN b => Dir(b, q.path)
    /\ q.op = "move" => Free(b, q.dest) /\ q.dest \notin DOMAIN b

\* Until here nothing has been changed.
Untouched == {"look", "bytes", "iterdir", "entries", "parents", "mkdir", "rmtree", "rmdir", "unlink"}

\* The part of a directory that has been listed.
Listing(r) ==
    LET p == ask[r].path
        b == before[r]
        list == work[r][1]
    IN /\ work[r] = <<list>>
       /\ \A name \in list.left : Append(p, name) \in Children(b, p)
       /\ list.got = {<<Last(c), TypeIn(b, c)>> : c \in {c \in Children(b, p) : Last(c) \notin list.left}}
       /\ \A c \in Children(b, p) : Last(c) \notin list.left => Free(b, c)

\* Frame i of an rmtree of p is the open directory o: what is still in it is what is
\* left to remove, and the directory of the next frame.
Level(w, p, i, o) ==
    /\ IsDir(o) /\ IsPrefix(p, o) /\ tree[o] = w[i].dir
    /\ Len(o) = Len(p) + i - 1 /\ (i = 1 => o = p)
    /\ i = Len(w) => Names(o) = w[i].left
    /\ i < Len(w) => LET name == w[i + 1].name IN
          /\ Names(o) = w[i].left \cup {name} /\ name \notin w[i].left
          /\ Has(Append(o, name)) /\ tree[Append(o, name)] = w[i + 1].dir

Chain(w, p) ==
    /\ w \in Seq(Frames) /\ w # <<>>
    /\ \A i \in 1..Len(w) : \E o \in DOMAIN tree : Level(w, p, i, o)

\* A part of the directory has been removed, and nothing else.
Removing(r) ==
    LET b == before[r]
        p == ask[r].path
    IN /\ DOMAIN tree \subseteq DOMAIN b
       /\ DOMAIN b \ Under(b, p) \subseteq DOMAIN tree
       /\ \A q \in DOMAIN tree : what[tree[q]] = b[q]
       /\ Chain(work[r], p)

AloneOK(r) ==
    before[r] # <<>> =>
        LET q == ask[r]
            p == q.path
            b == before[r]
        IN /\ Workspace(b)
           /\ at[r] \notin {"new", "open", "done"}
           /\ at[r] # "look" => Passed(q, b)
           /\ at[r] \in Untouched => View = b
           /\ at[r] = "bytes" => q.op = "read"
           /\ at[r] \in {"iterdir", "entries"} => q.op = "list"
           /\ at[r] = "entries" => Listing(r)
           /\ at[r] \in {"write", "rename"} =>
                 Room(b, Subject(q)) /\ View = WithDirs(b, Subject(q))
           /\ at[r] = "fill" => /\ Room(b, p) /\ View = With(WithDirs(b, p), p, "empty")
                                /\ Has(p) /\ work[r] = tree[p]
           /\ at[r] \in {"rmtree", "sweep", "rmdir", "unlink"} => q.op = "remove"
           /\ at[r] = "unlink" => ~Dir(b, p)
           /\ at[r] = "rmdir" => Dir(b, p) /\ ~q.recursive
           /\ at[r] = "rmtree" => Dir(b, p)
           /\ at[r] = "sweep" => Removing(r)
           /\ at[r] = "stat" => MaySucceed(q, b) /\ View = Effect(q, b, r)

AllAlone == \A r \in Threads : AloneOK(r)

-----------------------------------------------------------------------------
(* The tree as the reference sees it. *)

LEMMA ViewDef ==
    /\ View = [p \in DOMAIN tree |-> what[tree[p]]]
    /\ DOMAIN View = DOMAIN tree /\ \A p \in DOMAIN tree : View[p] = what[tree[p]]
BY DEF View

LEMMA ViewDefNext ==
    /\ View' = [p \in DOMAIN tree' |-> what'[tree'[p]]]
    /\ DOMAIN View' = DOMAIN tree' /\ \A p \in DOMAIN tree' : View'[p] = what'[tree'[p]]
BY DEF View

\* A function is the view when it has the entries, with what they are.
LEMMA ViewNextIs ==
    ASSUME NEW f, f = [p \in DOMAIN f |-> f[p]], DOMAIN f = DOMAIN tree',
           \A p \in DOMAIN tree' : what'[tree'[p]] = f[p]
    PROVE  View' = f
BY ViewDefNext

LEMMA ViewStays ==
    ASSUME UNCHANGED disk
    PROVE  View' = View
BY DEF disk, View

\* What the code looks at is what the reference says of the view.
LEMMA Seen ==
    ASSUME TreeOK, NEW b, View = b
    PROVE  /\ DOMAIN b = DOMAIN tree /\ DOMAIN b \subseteq Paths
           /\ \A p \in DOMAIN b : b[p] = what[tree[p]]
           /\ \A p \in DOMAIN b : \A q \in Ancestors(p) : Dir(b, q)
           /\ \A p : /\ Has(p) <=> p \in DOMAIN b
                     /\ IsDir(p) <=> Dir(b, p)
                     /\ Missing(p) = Ancestors(p) \ DOMAIN b
                     /\ Blocked(p) <=> ~Room(b, p)
                     /\ Bad(p) <=> ~Free(b, p)
                     /\ Subtree(p) = Under(b, p)
                     /\ Names(p) = {Last(c) : c \in Children(b, p)}
<1>1. DOMAIN b = DOMAIN tree /\ \A p \in DOMAIN b : b[p] = what[tree[p]]
  BY ViewDef
<1>2. \A p : (Has(p) <=> p \in DOMAIN b) /\ (IsDir(p) <=> Dir(b, p))
  BY <1>1 DEF Has, IsDir, Dir
<1>3. \A p : Missing(p) = Ancestors(p) \ DOMAIN b /\ (Blocked(p) <=> ~Room(b, p))
  BY <1>2 DEF Missing, Blocked, Room
<1>4. \A p : Bad(p) <=> ~Free(b, p)
  BY <1>1, <1>2 DEF Bad, Free
<1>5. \A p : Subtree(p) = Under(b, p) /\ Names(p) = {Last(c) : c \in Children(b, p)}
  BY <1>1 DEF Subtree, Under, Names, Children
<1>6. DOMAIN b \subseteq Paths /\ \A p \in DOMAIN b : \A q \in Ancestors(p) : Dir(b, q)
  BY <1>1, <1>2 DEF TreeOK
<1> QED
  BY <1>1, <1>2, <1>3, <1>4, <1>5, <1>6

\* What is above a path that may be reached may be reached.
LEMMA FreeAbove ==
    ASSUME NEW b, NEW p \in Paths, NEW q \in Paths, IsPrefix(p, q), Free(b, q)
    PROVE  Free(b, p)
<1>1. ".." \notin Range(p)
  <2>1. /\ Len(p) \in Nat /\ Len(q) \in Nat /\ DOMAIN p = 1..Len(p) /\ DOMAIN q = 1..Len(q)
        /\ Len(p) <= Len(q) /\ \A i \in 1..Len(p) : p[i] = q[i]
    BY LenProperties, PrefixDef DEF Paths
  <2>2. Range(p) \subseteq Range(q)
    BY <2>1 DEF Range
  <2> QED
    BY <2>2 DEF Free
<1>2. Prefixes(p) \subseteq Prefixes(q)
  <2>1. \A o \in Paths : IsPrefix(o, p) => IsPrefix(o, q)
    BY PrefixOrder
  <2> QED
    BY <2>1, PrefixesDef
<1> QED
  BY <1>1, <1>2 DEF Free

\* A reachable path has no link at its end.
LEMMA FreeHere ==
    ASSUME NEW b, NEW p \in Paths, Free(b, p), p \in DOMAIN b
    PROVE  b[p] # "escape"
<1>1. p \in Prefixes(p)
  BY PrefixOrder, PrefixesDef
<1> QED
  BY <1>1 DEF Free

-----------------------------------------------------------------------------
(* What a step of a request leaves of its history. *)

LEMMA AnswerAlone ==
    ASSUME RequestsOK, NEW r \in Threads, NEW status, NEW result,
           Answer(r, status, result), Note(r)
    PROVE  AloneOK(r)' /\ at'[r] = "done" /\ answer'[r] = <<status, result>>
<1>1. at'[r] = "done" /\ answer'[r] = <<status, result>>
  BY DEF RequestsOK, Answer, Actors
<1>2. before'[r] = <<>>
  BY <1>1 DEF Note
<1> QED
  BY <1>1, <1>2 DEF AloneOK

LEMMA GotoAlone ==
    ASSUME RequestsOK, NEW r \in Threads, NEW stage, NEW w,
           Goto(r, stage, w), Note(r), at[r] # "open", stage # "done"
    PROVE  /\ at'[r] = stage /\ work'[r] = w /\ ask' = ask
           /\ before'[r] = before[r]
           /\ EndsRight(r)
<1>1. at'[r] = stage /\ work'[r] = w /\ ask' = ask
  BY GotoStep DEF Actors
<1>2. before'[r] = before[r]
  BY <1>1 DEF Note
<1> QED
  BY <1>1, <1>2 DEF EndsRight

-----------------------------------------------------------------------------
(* The look, and the requests that only look. *)

LEMMA VerdictIs ==
    ASSUME TreeOK, NEW b, View = b, NEW q \in Asks
    PROVE  /\ Verdict(q) = "ok" <=> Passed(q, b)
           /\ Verdict(q) # "ok" => Verdict(q) \in {"not_found", "conflict", "refused"}
<1>1. q.op \in {"read", "stat", "list", "write", "mkdir", "move", "remove"}
  BY FilesystemAssumption
<1>2. /\ Has(q.path) <=> q.path \in DOMAIN b
      /\ IsDir(q.path) <=> Dir(b, q.path)
      /\ Bad(q.path) <=> ~Free(b, q.path)
      /\ Bad(q.dest) <=> ~Free(b, q.dest)
      /\ Has(q.dest) <=> q.dest \in DOMAIN b
  BY Seen
<1>3. CASE q.op \in {"read", "stat", "list"}
  BY <1>2, <1>3 DEF Verdict, Existing, AndThen, Unless, Passed
<1>4. CASE q.op \in {"write", "mkdir"}
  BY <1>2, <1>4 DEF Verdict, AndThen, Unless, Passed
<1>5. CASE q.op = "move"
  BY <1>2, <1>5 DEF Verdict, Existing, Movable, AndThen, Unless, Passed
<1>6. CASE q.op = "remove"
  BY <1>2, <1>6 DEF Verdict, Existing, AndThen, Unless, Passed
<1> QED
  BY <1>1, <1>3, <1>4, <1>5, <1>6

\* A request that the look stops is one that may not succeed, and leaves b.
LEMMA StoppedByLook ==
    ASSUME NEW b, NEW q \in Asks, ~Passed(q, b)
    PROVE  /\ ~MaySucceed(q, b)
           /\ ~(/\ q.op = "move" /\ Dir(b, q.path) /\ IsPrefix(q.path, q.dest)
                /\ q.dest \notin DOMAIN b /\ Free(b, q.dest) /\ q.path # <<>>)
<1>1. q.path \in Paths /\ (q.op = "move" => q.dest \in Paths)
  BY AskPaths
<1>2. ~MaySucceed(q, b)
  BY DEF MaySucceed, Passed, Dir
<1>3. ASSUME q.op = "move", Dir(b, q.path), IsPrefix(q.path, q.dest),
             q.dest \notin DOMAIN b, Free(b, q.dest), q.path # <<>>
      PROVE  FALSE
  <2>1. Free(b, q.path)
    BY <1>1, <1>3, FreeAbove
  <2> QED
    BY <1>3, <2>1 DEF Passed, Dir
<1> QED
  BY <1>2, <1>3

LEMMA LookAlone ==
    ASSUME TreeOK, RequestsOK, NEW r \in Threads, AloneOK(r), Look(r), Note(r)
    PROVE  AloneOK(r)' /\ EndsRight(r)
<1> DEFINE q == ask[r]
           b == before[r]
<1>1. q \in Asks /\ at[r] = "look" /\ UNCHANGED disk /\ View' = View
  BY ViewStays DEF RequestsOK, RequestOK, Look
<1>2. CASE Verdict(q) # "ok"
  <2>1. Answer(r, Verdict(q), NoWork)
    BY <1>2 DEF Look
  <2>2. AloneOK(r)' /\ answer'[r] = <<Verdict(q), NoWork>>
    BY <2>1, AnswerAlone
  <2>3. ASSUME b # <<>>
        PROVE  /\ View = b /\ Verdict(q) \in {"not_found", "conflict", "refused"}
               /\ ~Passed(q, b)
    <3>1. View = b
      BY <1>1, <2>3 DEF AloneOK, Untouched
    <3> QED
      BY <1>1, <1>2, <3>1, VerdictIs
  <2>4. EndsRight(r)
    BY <1>1, <2>2, <2>3, StoppedByLook DEF EndsRight
  <2> QED
    BY <2>2, <2>4
<1>3. CASE Verdict(q) = "ok"
  <2>1. Goto(r, Begins(q), NoWork)
    BY <1>3 DEF Look
  <2>2. /\ Begins(q) \in {"bytes", "stat", "iterdir", "parents", "mkdir", "rmtree", "rmdir", "unlink"}
        /\ Begins(q) = "bytes" => q.op = "read"
        /\ Begins(q) = "iterdir" => q.op = "list"
        /\ Begins(q) = "stat" => q.op = "stat"
        /\ Begins(q) \in {"rmtree", "rmdir", "unlink"} => q.op = "remove"
        /\ Begins(q) \in {"rmtree", "rmdir"} => IsDir(q.path)
        /\ Begins(q) = "unlink" => ~IsDir(q.path)
        /\ Begins(q) = "rmdir" => ~q.recursive
    <3>1. q.op \in {"read", "stat", "list", "write", "mkdir", "move", "remove"}
      BY <1>1, FilesystemAssumption
    <3> QED
      BY <3>1 DEF Begins, RemovalOf
  <2> HIDE DEF q
  <2>3. /\ at'[r] = Begins(q) /\ ask' = ask /\ before'[r] = before[r] /\ EndsRight(r)
    BY <1>1, <2>1, <2>2, GotoAlone
  <2>4. ASSUME b # <<>>
        PROVE  /\ Workspace(b) /\ Passed(q, b) /\ View = b
               /\ IsDir(q.path) <=> Dir(b, q.path)
    <3>1. Workspace(b) /\ View = b
      BY <1>1, <2>4 DEF AloneOK, Untouched
    <3> QED
      BY <1>1, <1>3, <3>1, VerdictIs, Seen
  <2>5. ASSUME b # <<>>, q.op = "stat"
        PROVE  MaySucceed(q, b) /\ Effect(q, b, r) = b
    BY <2>4, <2>5 DEF Passed, MaySucceed, Effect
  <2>6. AloneOK(r)'
    BY <1>1, <2>2, <2>3, <2>4, <2>5 DEF AloneOK, Untouched, q
  <2> QED
    BY <2>3, <2>6
<1> QED
  BY <1>2, <1>3

LEMMA ReadAlone ==
    ASSUME TreeOK, RequestsOK, NEW r \in Threads, AloneOK(r), ReadBytes(r), Note(r)
    PROVE  AloneOK(r)' /\ EndsRight(r)
<1> DEFINE q == ask[r]
           b == before[r]
           p == q.path
<1>1. at[r] = "bytes" /\ UNCHANGED disk /\ View' = View /\ p \in Paths
  BY ViewStays, AskPaths DEF RequestsOK, RequestOK, ReadBytes, Says
<1>2. ASSUME b # <<>>
      PROVE  /\ View = b /\ q.op = "read" /\ MaySucceed(q, b) /\ Has(p) /\ ~IsDir(p)
             /\ what[tree[p]] = b[p]
  <2>1. View = b /\ q.op = "read" /\ Passed(q, b)
    BY <1>1, <1>2 DEF AloneOK, Untouched
  <2> QED
    BY <2>1, Seen DEF Passed, MaySucceed
<1>3. CASE Has(p) /\ ~IsDir(p)
  <2>1. Answer(r, "ok", [data |-> what[tree[p]]])
    BY <1>3 DEF ReadBytes
  <2>2. AloneOK(r)' /\ answer'[r] = <<"ok", [data |-> what[tree[p]]]>>
    BY <2>1, AnswerAlone
  <2> QED
    BY <1>1, <1>2, <2>2 DEF EndsRight, Tells, Effect
<1>4. CASE ~(Has(p) /\ ~IsDir(p))
  <2>1. Answer(r, "error", NoWork)
    BY <1>4 DEF ReadBytes, Says
  <2> QED
    BY <1>2, <1>4, <2>1, AnswerAlone DEF EndsRight
<1> QED
  BY <1>3, <1>4

-----------------------------------------------------------------------------
(* list: the entries of a directory. *)

LEMMA LastAppend ==
    ASSUME NEW p \in Paths, NEW name
    PROVE  Last(Append(p, name)) = name /\ Len(Append(p, name)) = Len(p) + 1
<1>1. p \in Seq(STRING \cup {name})
  BY SeqMonotonic DEF Paths
<1>2. Len(Append(p, name)) = Len(p) + 1 /\ Append(p, name)[Len(p) + 1] = name
  BY <1>1, AppendProperties
<1> QED
  BY <1>2 DEF Last

LEMMA AppendChild ==
    ASSUME NEW p \in Paths, NEW name \in STRING
    PROVE  /\ Append(p, name) \in Paths /\ IsPrefix(p, Append(p, name))
           /\ Append(p, name) # p /\ Append(p, name) # <<>>
<1>1. /\ Append(p, name) \in Paths /\ Len(p) \in Nat /\ Len(Append(p, name)) = Len(p) + 1
      /\ \A i \in 1..Len(p) : Append(p, name)[i] = p[i]
  BY AppendProperties, LenProperties DEF Paths
<1>2. Len(p) <= Len(Append(p, name)) /\ \A i \in 1..Len(p) : p[i] = Append(p, name)[i]
  BY <1>1
<1>3. IsPrefix(p, Append(p, name))
  BY <1>1, <1>2, PrefixDef
<1> QED
  BY <1>1, <1>3, AppendPath

\* A path is its directory and its name.
LEMMA ChildPath ==
    ASSUME NEW p \in Paths, NEW c \in Paths, IsPrefix(p, c), Len(c) = Len(p) + 1
    PROVE  Last(c) \in STRING /\ c = Append(p, Last(c))
<1>1. /\ Len(p) \in Nat /\ Len(c) \in Nat /\ \A i \in 1..Len(p) : p[i] = c[i]
  BY LenProperties, PrefixDef DEF Paths
<1>2. Len(c) \in 1..Len(c) /\ Last(c) = c[Len(p) + 1]
  BY <1>1 DEF Last
<1>3. Last(c) \in STRING
  BY <1>1, <1>2, ElementOfSeq DEF Paths
<1>4. /\ Append(p, Last(c)) \in Paths /\ Len(Append(p, Last(c))) = Len(p) + 1
      /\ \A i \in 1..Len(p) : Append(p, Last(c))[i] = p[i]
      /\ Append(p, Last(c))[Len(p) + 1] = Last(c)
  BY <1>3, AppendProperties DEF Paths
<1>5. \A i \in 1..Len(c) : i \in 1..Len(p) \/ i = Len(p) + 1
  BY <1>1
<1>6. \A i \in 1..Len(c) : c[i] = Append(p, Last(c))[i]
  BY <1>1, <1>2, <1>4, <1>5
<1> QED
  BY <1>3, <1>4, <1>6, SeqEqual DEF Paths

LEMMA ChildrenDef ==
    ASSUME NEW b, DOMAIN b \subseteq Paths, NEW p \in Paths
    PROVE  /\ \A c \in Children(b, p) : /\ c \in DOMAIN b /\ c \in Paths
                                        /\ Last(c) \in STRING /\ c = Append(p, Last(c))
           /\ \A name \in STRING : Append(p, name) \in DOMAIN b => Append(p, name) \in Children(b, p)
<1>1. ASSUME NEW c \in Children(b, p)
      PROVE  /\ c \in DOMAIN b /\ c \in Paths
             /\ Last(c) \in STRING /\ c = Append(p, Last(c))
  BY ChildPath DEF Children, Under
<1>2. ASSUME NEW name \in STRING, Append(p, name) \in DOMAIN b
      PROVE  Append(p, name) \in Children(b, p)
  BY <1>2, AppendChild, LastAppend DEF Children, Under
<1> QED
  BY <1>1, <1>2

LEMMA IterDirAlone ==
    ASSUME TreeOK, RequestsOK, NEW r \in Threads, AloneOK(r), IterDir(r), Note(r)
    PROVE  AloneOK(r)' /\ EndsRight(r)
<1> DEFINE q == ask[r]
           b == before[r]
           p == q.path
<1>1. at[r] = "iterdir" /\ UNCHANGED disk /\ View' = View /\ p \in Paths
  BY ViewStays, AskPaths DEF RequestsOK, RequestOK, IterDir, Says
<1>2. ASSUME b # <<>>
      PROVE  View = b /\ q.op = "list" /\ Passed(q, b) /\ IsDir(p) /\ Workspace(b)
  <2>1. View = b /\ q.op = "list" /\ Passed(q, b) /\ Workspace(b)
    BY <1>1, <1>2 DEF AloneOK, Untouched
  <2> QED
    BY <2>1, Seen DEF Passed
<1>3. CASE ~IsDir(p)
  <2>1. Answer(r, "error", NoWork)
    BY <1>3 DEF IterDir, Says
  <2> QED
    BY <1>2, <1>3, <2>1, AnswerAlone DEF EndsRight
<1>4. CASE IsDir(p)
  <2> DEFINE list == [left |-> Names(p), got |-> {}]
  <2>1. Goto(r, "entries", <<list>>)
    BY <1>4 DEF IterDir
  <2>2. /\ at'[r] = "entries" /\ work'[r] = <<list>> /\ ask' = ask
        /\ before'[r] = before[r] /\ EndsRight(r)
    BY <1>1, <2>1, GotoAlone
  <2>3. ASSUME b # <<>>
        PROVE  Listing(r)'
    <3>1. /\ list.left = {Last(c) : c \in Children(b, p)} /\ list.got = {}
          /\ DOMAIN b \subseteq Paths
      BY <1>2, <2>3, Seen
    <3> HIDE DEF list
    <3>2. ASSUME NEW name \in list.left
          PROVE  Append(p, name) \in Children(b, p)
      <4>1. PICK c \in Children(b, p) : name = Last(c)
        BY <3>1
      <4>2. c = Append(p, Last(c))
        BY <1>1, <3>1, ChildrenDef
      <4> QED
        BY <4>1, <4>2
    <3>3. work'[r][1] = list
      BY <2>2
    <3>4. {c \in Children(b, p) : Last(c) \notin list.left} = {}
      BY <3>1
    <3>5. list.got = {<<Last(c), TypeIn(b, c)>> : c \in {c \in Children(b, p) : Last(c) \notin list.left}}
      BY <3>1, <3>4
    <3>6. ask'[r].path = p /\ before'[r] = b
      BY <2>2
    <3>7. \A c \in Children(b, p) : Last(c) \notin list.left => Free(b, c)
      BY <3>4
    <3> HIDE DEF p, b
    <3> QED
      BY <2>2, <3>2, <3>3, <3>5, <3>6, <3>7 DEF Listing
  <2>4. AloneOK(r)'
    BY <1>1, <1>2, <2>2, <2>3 DEF AloneOK, Untouched
  <2> QED
    BY <2>2, <2>4
<1> QED
  BY <1>3, <1>4

LEMMA EntryAlone ==
    ASSUME TreeOK, RequestsOK, NEW r \in Threads, AloneOK(r), Entry(r), Note(r)
    PROVE  AloneOK(r)' /\ EndsRight(r)
<1> DEFINE q == ask[r]
           b == before[r]
           p == q.path
           list == work[r][1]
           name == CHOOSE n \in list.left : TRUE
           c == Append(p, name)
<1>1. at[r] = "entries" /\ UNCHANGED disk /\ View' = View /\ p \in Paths
  BY ViewStays, AskPaths DEF RequestsOK, RequestOK, Entry
<1>2. /\ name \in list.left
      /\ IF Existing(c) = "ok"
         THEN Goto(r, "entries", <<[left |-> list.left \ {name},
                                    got |-> list.got \cup {<<name, Kind(c)>>}]>>)
         ELSE Answer(r, Existing(c), NoWork)
  BY DEF Entry
<1> HIDE DEF name
<1>3. ASSUME b # <<>>
      PROVE  /\ View = b /\ q.op = "list" /\ Passed(q, b) /\ Workspace(b) /\ Listing(r)
             /\ c \in Children(b, p) /\ Last(c) = name /\ DOMAIN b \subseteq Paths
             /\ Existing(c) = IF Free(b, c) THEN "ok" ELSE "refused"
             /\ Kind(c) = TypeIn(b, c)
  <2>1. View = b /\ q.op = "list" /\ Passed(q, b) /\ Workspace(b) /\ Listing(r)
    BY <1>1, <1>3 DEF AloneOK, Untouched
  <2>2. c \in Children(b, p) /\ Last(c) = name
    BY <1>1, <1>2, <2>1, LastAppend DEF Listing
  <2>3. /\ Has(c) /\ (Bad(c) <=> ~Free(b, c)) /\ (IsDir(c) <=> Dir(b, c))
        /\ DOMAIN b \subseteq Paths
    BY <2>1, <2>2, Seen DEF Children, Under
  <2> QED
    BY <2>1, <2>2, <2>3 DEF Existing, Kind, TypeIn
<1>4. CASE Existing(c) # "ok"
  <2>1. AloneOK(r)' /\ answer'[r] = <<Existing(c), NoWork>>
    BY <1>2, <1>4, AnswerAlone
  <2>2. b # <<>> => ~MaySucceed(q, b)
    BY <1>3, <1>4 DEF MaySucceed
  <2> QED
    BY <1>1, <1>3, <1>4, <2>1, <2>2 DEF EndsRight
<1>5. CASE Existing(c) = "ok"
  <2> DEFINE rest == [left |-> list.left \ {name}, got |-> list.got \cup {<<name, Kind(c)>>}]
  <2>1. /\ at'[r] = "entries" /\ work'[r] = <<rest>> /\ ask' = ask
        /\ before'[r] = before[r] /\ EndsRight(r)
    BY <1>1, <1>2, <1>5, GotoAlone
  <2>2. ASSUME b # <<>>
        PROVE  Listing(r)'
    <3>1. /\ c \in Children(b, p) /\ Last(c) = name /\ Free(b, c) /\ Kind(c) = TypeIn(b, c)
          /\ \A n \in list.left : Append(p, n) \in Children(b, p)
          /\ list.got = {<<Last(d), TypeIn(b, d)>> : d \in {d \in Children(b, p) : Last(d) \notin list.left}}
          /\ \A d \in Children(b, p) : Last(d) \notin list.left => Free(b, d)
      BY <1>3, <1>5, <2>2 DEF Listing
    <3>2. \A d \in Children(b, p) : d = Append(p, Last(d))
      BY <1>1, <1>3, <2>2, ChildrenDef
    <3>3. rest.left = list.left \ {name} /\ rest.got = list.got \cup {<<name, Kind(c)>>}
      OBVIOUS
    <3> HIDE DEF rest
    <3>4. {d \in Children(b, p) : Last(d) \notin rest.left}
              = {d \in Children(b, p) : Last(d) \notin list.left} \cup {c}
      BY <3>1, <3>2, <3>3
    <3>5. rest.got = {<<Last(d), TypeIn(b, d)>> : d \in {d \in Children(b, p) : Last(d) \notin rest.left}}
      BY <3>1, <3>3, <3>4
    <3>6. \A n \in rest.left : Append(p, n) \in Children(b, p)
      BY <3>1, <3>3
    <3>7. \A d \in Children(b, p) : Last(d) \notin rest.left => Free(b, d)
      BY <3>1, <3>4
    <3>8. work'[r][1] = rest /\ ask'[r].path = p /\ before'[r] = b
      BY <2>1
    <3> HIDE DEF p, b
    <3> QED
      BY <2>1, <3>5, <3>6, <3>7, <3>8 DEF Listing
  <2>3. AloneOK(r)'
    BY <1>1, <1>3, <2>1, <2>2 DEF AloneOK, Untouched
  <2> QED
    BY <2>1, <2>3
<1> QED
  BY <1>4, <1>5

LEMMA ListEndsAlone ==
    ASSUME TreeOK, RequestsOK, NEW r \in Threads, AloneOK(r), ListEnds(r), Note(r)
    PROVE  AloneOK(r)' /\ EndsRight(r)
<1> DEFINE q == ask[r]
           b == before[r]
<1>1. at[r] = "entries" /\ UNCHANGED disk /\ View' = View
  BY ViewStays DEF ListEnds
<1>2. AloneOK(r)' /\ answer'[r] = <<"ok", [entries |-> work[r][1].got]>>
  BY AnswerAlone DEF ListEnds
<1>3. ASSUME b # <<>>
      PROVE  View = b /\ MaySucceed(q, b) /\ Effect(q, b, r) = b /\ Tells(q, b) = [entries |-> work[r][1].got]
  <2>1. View = b /\ q.op = "list" /\ Passed(q, b) /\ Listing(r)
    BY <1>1, <1>3 DEF AloneOK, Untouched
  <2>2. {c \in Children(b, q.path) : Last(c) \notin work[r][1].left} = Children(b, q.path)
    BY DEF ListEnds
  <2>3. MaySucceed(q, b)
    BY <2>1, <2>2 DEF MaySucceed, Passed, Listing
  <2>4. work[r][1].got = {<<Last(c), TypeIn(b, c)>> : c \in Children(b, q.path)}
    BY <2>1, <2>2 DEF Listing
  <2> QED
    BY <2>1, <2>3, <2>4 DEF Effect, Tells
<1> QED
  BY <1>1, <1>2, <1>3 DEF EndsRight

-----------------------------------------------------------------------------
(* Opening the workspace, and what makes entries. *)

\* Make, as the reference sees it.
LEMMA MakeView ==
    ASSUME TreeOK, NEW b, View = b, NEW kinds, Make(kinds),
           DOMAIN kinds \subseteq Paths, DOMAIN kinds \cap DOMAIN b = {},
           \A p \in DOMAIN kinds : kinds[p] \in Contents \cup {"dir", "escape"},
           \A p \in DOMAIN kinds : \A q \in Ancestors(p) :
              Dir(b, q) \/ (q \in DOMAIN kinds /\ kinds[q] = "dir")
    PROVE  /\ DOMAIN View' = DOMAIN b \cup DOMAIN kinds /\ DOMAIN tree' = DOMAIN View'
           /\ \A p \in DOMAIN b : View'[p] = b[p]
           /\ \A p \in DOMAIN kinds : View'[p] = kinds[p]
<1>1. /\ DOMAIN b = DOMAIN tree /\ \A p \in DOMAIN b : b[p] = what[tree[p]]
      /\ \A p : IsDir(p) <=> Dir(b, p)
  BY Seen
<1>2. /\ Grows
      /\ DOMAIN tree' = DOMAIN tree \cup DOMAIN kinds
      /\ \A p \in DOMAIN tree : what'[tree[p]] = what[tree[p]]
      /\ \A p \in DOMAIN kinds : what'[tree'[p]] = kinds[p]
  BY <1>1, MakeTree
<1>3. \A p \in DOMAIN tree : tree'[p] = tree[p]
  BY <1>2 DEF Grows
<1> QED
  BY <1>1, <1>2, <1>3, ViewDefNext

LEMMA MakeDirsView ==
    ASSUME TreeOK, NEW b, View = b, NEW paths, MakeDirs(paths), paths \subseteq Paths,
           \A p \in paths : p \notin DOMAIN b /\ \A q \in Ancestors(p) : Dir(b, q) \/ q \in paths
    PROVE  /\ DOMAIN View' = DOMAIN b \cup paths
           /\ \A p \in DOMAIN b : View'[p] = b[p]
           /\ \A p \in paths : View'[p] = "dir"
<1> DEFINE kinds == [p \in paths |-> "dir"]
<1>1. Make(kinds) /\ DOMAIN kinds = paths /\ \A p \in paths : kinds[p] = "dir"
  BY DEF MakeDirs
<1> HIDE DEF kinds
<1>2. /\ DOMAIN kinds \cap DOMAIN b = {}
      /\ \A p \in DOMAIN kinds : kinds[p] \in Contents \cup {"dir", "escape"}
      /\ \A p \in DOMAIN kinds : \A q \in Ancestors(p) :
            Dir(b, q) \/ (q \in DOMAIN kinds /\ kinds[q] = "dir")
  BY <1>1
<1> QED
  BY <1>1, <1>2, MakeView

\* The directories above a path are those that are there and those that are missing.
LEMMA RoomDirs ==
    ASSUME TreeOK, NEW b, View = b, NEW p \in Paths, Room(b, p)
    PROVE  /\ Missing(p) = Ancestors(p) \ DOMAIN b /\ Missing(p) \subseteq Paths
           /\ \A q \in Missing(p) : \A o \in Ancestors(q) : Dir(b, o) \/ o \in Missing(p)
           /\ \A q \in Ancestors(p) : Dir(b, q) \/ q \in Missing(p)
<1>1. Missing(p) = Ancestors(p) \ DOMAIN b /\ ~Blocked(p)
  BY Seen
<1>2. /\ Missing(p) \subseteq Paths
      /\ \A q \in Missing(p) : \A o \in Ancestors(q) : IsDir(o) \/ o \in Missing(p)
      /\ \A q \in Ancestors(p) : IsDir(q) \/ q \in Missing(p)
  BY <1>1, MissingDirs
<1>3. \A o : IsDir(o) <=> Dir(b, o)
  BY Seen
<1> QED
  BY <1>1, <1>2, <1>3

\* parent.mkdir, with exist_ok.
LEMMA ParentsView ==
    ASSUME TreeOK, NEW b, View = b, NEW p \in Paths, Room(b, p), MakeDirs(Missing(p))
    PROVE  View' = WithDirs(b, p)
<1>1. /\ Missing(p) = Ancestors(p) \ DOMAIN b /\ Missing(p) \subseteq Paths
      /\ \A q \in Missing(p) : \A o \in Ancestors(q) : Dir(b, o) \/ o \in Missing(p)
  BY RoomDirs
<1>2. /\ DOMAIN View' = DOMAIN b \cup Missing(p)
      /\ \A q \in DOMAIN b : View'[q] = b[q]
      /\ \A q \in Missing(p) : View'[q] = "dir"
  BY <1>1, MakeDirsView
<1>3. View' = [q \in DOMAIN View' |-> View'[q]]
  BY ViewDefNext
<1> DEFINE new == WithDirs(b, p)
<1>4. /\ DOMAIN new = DOMAIN b \cup Ancestors(p) /\ new = [q \in DOMAIN new |-> new[q]]
      /\ \A q \in DOMAIN b : new[q] = b[q]
      /\ \A q \in Ancestors(p) \ DOMAIN b : new[q] = "dir"
  BY DEF WithDirs
<1> HIDE DEF new
<1>5. DOMAIN View' = DOMAIN new /\ \A q \in DOMAIN new : View'[q] = new[q]
  BY <1>1, <1>2, <1>4
<1>6. View' = new
  BY <1>3, <1>4, <1>5
<1> QED
  BY <1>6 DEF new

LEMMA OpenAlone ==
    ASSUME TreeOK, TreeOK', RequestsOK, NEW r \in Threads, AloneOK(r), Open(r), Note(r)
    PROVE  AloneOK(r)' /\ EndsRight(r)
<1>1. at[r] = "open" /\ Goto(r, "look", NoWork)
  BY DEF Open
<1>2. at'[r] = "look" /\ ask' = ask
  BY <1>1, GotoStep DEF Actors
<1>3. before'[r] = View'
  BY <1>1, <1>2 DEF Note
<1>4. <<>> \in DOMAIN tree'
  BY DEF Open, MakeDirs, Make, disk, Has
<1>5. Workspace(View')
  BY <1>4, ViewDefNext DEF TreeOK, Workspace, IsDir, Has, Dir, Ancestors
<1>6. AloneOK(r)'
  BY <1>2, <1>3, <1>5 DEF AloneOK, Untouched, Workspace, Dir, Ancestors
<1> QED
  BY <1>2, <1>6 DEF EndsRight

LEMMA ParentsAlone ==
    ASSUME TreeOK, RequestsOK, NEW r \in Threads, AloneOK(r), Parents(r), Note(r)
    PROVE  AloneOK(r)' /\ EndsRight(r)
<1> DEFINE q == ask[r]
           b == before[r]
           p == Subject(q)
<1>1. /\ at[r] = "parents" /\ p \in Paths /\ q.op \in {"write", "move"}
      /\ p = IF q.op = "move" THEN q.dest ELSE q.path
  BY AskPaths DEF RequestsOK, RequestOK, Parents, Subject
<1>2. b # <<>> => View = b /\ Passed(q, b) /\ Workspace(b) /\ (Blocked(p) <=> ~Room(b, p))
  <2> SUFFICES ASSUME b # <<>>
               PROVE  View = b /\ Passed(q, b) /\ Workspace(b) /\ (Blocked(p) <=> ~Room(b, p))
    OBVIOUS
  <2>1. View = b /\ Passed(q, b) /\ Workspace(b)
    BY <1>1 DEF AloneOK, Untouched
  <2> QED
    BY <2>1, Seen
<1> HIDE DEF p
<1>3. CASE Blocked(p)
  <2>1. Answer(r, "conflict", NoWork) /\ View' = View
    BY <1>3, ViewStays DEF Parents, Says, p
  <2>2. AloneOK(r)' /\ answer'[r] = <<"conflict", NoWork>>
    BY <2>1, AnswerAlone
  <2>3. b # <<>> => ~MaySucceed(q, b) /\ ~(q.op = "move" /\ Room(b, q.dest))
    BY <1>1, <1>2, <1>3 DEF MaySucceed
  <2> QED
    BY <1>2, <2>1, <2>2, <2>3 DEF EndsRight
<1>4. CASE ~Blocked(p)
  <2> DEFINE stage == IF q.op = "write" THEN "write" ELSE "rename"
  <2>1. MakeDirs(Missing(p)) /\ Goto(r, stage, NoWork)
    BY <1>4 DEF Parents, p
  <2>2. stage \in {"write", "rename"}
    OBVIOUS
  <2> HIDE DEF stage
  <2>3. at'[r] = stage /\ ask' = ask /\ before'[r] = before[r] /\ EndsRight(r)
    BY <1>1, <2>1, <2>2, GotoAlone
  <2>4. b # <<>> => Room(b, p) /\ View' = WithDirs(b, p)
    BY <1>1, <1>2, <1>4, <2>1, ParentsView
  <2>5. AloneOK(r)'
    BY <1>2, <2>2, <2>3, <2>4 DEF AloneOK, Untouched, p
  <2> QED
    BY <2>3, <2>5
<1> QED
  BY <1>3, <1>4

-----------------------------------------------------------------------------
(* write and mkdir. *)

\* With the directories above a path made, it can be.
LEMMA WithDirsRoom ==
    ASSUME NEW b, NEW p \in Paths, Room(b, p)
    PROVE  /\ \A q \in Ancestors(p) : Dir(WithDirs(b, p), q)
           /\ p \notin Ancestors(p)
           /\ p \in DOMAIN WithDirs(b, p) <=> p \in DOMAIN b
           /\ p \in DOMAIN b => WithDirs(b, p)[p] = b[p]
<1> DEFINE c == WithDirs(b, p)
<1>1. /\ DOMAIN c = DOMAIN b \cup Ancestors(p)
      /\ \A q \in DOMAIN b : c[q] = b[q]
      /\ \A q \in Ancestors(p) \ DOMAIN b : c[q] = "dir"
  BY DEF WithDirs
<1> HIDE DEF c
<1>2. p \notin Ancestors(p)
  BY AncestorsDef DEF Above
<1>3. \A q \in Ancestors(p) : Dir(c, q)
  BY <1>1 DEF Room, Dir
<1> QED
  BY <1>1, <1>2, <1>3 DEF c

\* A file is filled.
LEMMA WriteView ==
    ASSUME TreeOK, NEW c, View = c, NEW p \in DOMAIN tree, NEW v,
           tree' = tree, what' = [what EXCEPT ![tree[p]] = v]
    PROVE  View' = With(c, p, v)
<1> DEFINE new == With(c, p, v)
<1>1. /\ DOMAIN new = DOMAIN c \cup {p} /\ new = [q \in DOMAIN new |-> new[q]]
      /\ \A q \in DOMAIN c : q # p => new[q] = c[q]
      /\ new[p] = v
  BY DEF With
<1> HIDE DEF new
<1>2. DOMAIN c = DOMAIN tree /\ \A q \in DOMAIN c : c[q] = what[tree[q]]
  BY Seen
<1>3. /\ \A q \in DOMAIN tree : tree[q] \in Nodes /\ (tree[q] = tree[p] => q = p)
      /\ \A n \in Nodes : what'[n] = IF n = tree[p] THEN v ELSE what[n]
  BY DEF TreeOK
<1>4. \A q \in DOMAIN tree' : what'[tree'[q]] = new[q]
  BY <1>1, <1>2, <1>3
<1>5. View' = new
  BY <1>1, <1>2, <1>4, ViewNextIs
<1> QED
  BY <1>5 DEF new

\* An entry is made in a directory.
LEMMA MakeOneView ==
    ASSUME TreeOK, NEW c, View = c, NEW p \in Paths, p \notin DOMAIN c,
           \A q \in Ancestors(p) : Dir(c, q),
           NEW v \in Contents \cup {"dir"}, Make([q \in {p} |-> v])
    PROVE  View' = With(c, p, v) /\ p \in DOMAIN tree'
<1> DEFINE kinds == [q \in {p} |-> v]
           new == With(c, p, v)
<1>1. DOMAIN kinds = {p} /\ kinds[p] = v /\ Make(kinds)
  OBVIOUS
<1> HIDE DEF kinds
<1>2. /\ DOMAIN View' = DOMAIN c \cup {p} /\ DOMAIN tree' = DOMAIN View'
      /\ \A q \in DOMAIN c : View'[q] = c[q]
      /\ View'[p] = v
  BY <1>1, MakeView
<1>3. /\ DOMAIN new = DOMAIN c \cup {p} /\ new = [q \in DOMAIN new |-> new[q]]
      /\ \A q \in DOMAIN c : q # p => new[q] = c[q]
      /\ new[p] = v
  BY DEF With
<1> HIDE DEF new
<1>4. View' = new
  BY <1>2, <1>3, ViewDefNext
<1> QED
  BY <1>2, <1>4 DEF new, Has

LEMMA OpenFileAlone ==
    ASSUME TreeOK, RequestsOK, NEW r \in Threads, AloneOK(r), OpenFile(r), Note(r)
    PROVE  AloneOK(r)' /\ EndsRight(r)
<1> DEFINE q == ask[r]
           b == before[r]
           p == q.path
           c == WithDirs(b, p)
<1>1. at[r] = "write" /\ p \in Paths /\ q.op = "write" /\ Subject(q) = p
  BY AskPaths DEF RequestsOK, RequestOK, OpenFile, Subject
<1>2. b # <<>> => View = c /\ Passed(q, b) /\ Workspace(b) /\ Room(b, p)
  BY <1>1 DEF AloneOK
<1>3. b # <<>> => /\ ~IsDir(p) /\ ~Blocked(p) /\ Missing(p) = {}
                  /\ Has(p) => what[tree[p]] # "escape"
                  /\ \A o \in Ancestors(p) : Dir(c, o)
                  /\ Has(p) <=> p \in DOMAIN c
  <2> SUFFICES ASSUME b # <<>>
               PROVE  /\ ~IsDir(p) /\ ~Blocked(p) /\ Missing(p) = {}
                      /\ Has(p) => what[tree[p]] # "escape"
                      /\ \A o \in Ancestors(p) : Dir(c, o)
                      /\ Has(p) <=> p \in DOMAIN c
    OBVIOUS
  <2>1. /\ \A o \in Ancestors(p) : Dir(c, o)
        /\ p \in DOMAIN c <=> p \in DOMAIN b
        /\ p \in DOMAIN b => c[p] = b[p]
    BY <1>1, <1>2, WithDirsRoom
  <2>2. p \in DOMAIN b => b[p] # "escape" /\ b[p] # "dir"
    BY <1>1, <1>2, FreeHere DEF Passed, Dir
  <2> HIDE DEF c
  <2>3. /\ Has(p) <=> p \in DOMAIN c
        /\ IsDir(p) <=> Dir(c, p)
        /\ Missing(p) = Ancestors(p) \ DOMAIN c
        /\ Blocked(p) <=> ~Room(c, p)
        /\ \A o \in DOMAIN c : c[o] = what[tree[o]]
    BY <1>2, Seen
  <2>4. Room(c, p) /\ Ancestors(p) \subseteq DOMAIN c
    BY <2>1 DEF Room, Dir
  <2> QED
    BY <2>1, <2>2, <2>3, <2>4 DEF Dir
<1>4. CASE Says(r, "conflict") \/ Says(r, "error")
  <2>1. AloneOK(r)'
    BY <1>4, AnswerAlone DEF Says
  <2>2. b = <<>>
    <3>1. at'[r] = "done"
      BY <1>4, AnswerAlone DEF Says
    <3>2. ~Goto(r, "fill", tree'[p]) /\ ~Goto(r, "fill", tree[p])
      BY <1>1, <3>1, GotoAlone
    <3> QED
      BY <1>3, <3>2 DEF OpenFile
  <2> QED
    BY <2>1, <2>2 DEF EndsRight
<1>5. ASSUME NEW n, Goto(r, "fill", n),
             b # <<>> => View' = With(c, p, "empty") /\ p \in DOMAIN tree' /\ n = tree'[p]
      PROVE  AloneOK(r)' /\ EndsRight(r)
  <2>1. at'[r] = "fill" /\ work'[r] = n /\ ask' = ask /\ before'[r] = before[r] /\ EndsRight(r)
    BY <1>1, <1>5, GotoAlone
  <2>2. AloneOK(r)'
    BY <1>2, <1>5, <2>1 DEF AloneOK, Untouched, Has
  <2> QED
    BY <2>1, <2>2
<1>6. CASE /\ ~Has(p) /\ Make([o \in {p} |-> "empty"]) /\ Goto(r, "fill", tree'[p])
  <2>1. ASSUME b # <<>>
        PROVE  View' = With(c, p, "empty") /\ p \in DOMAIN tree'
    <3>1. View = c /\ p \notin DOMAIN c /\ \A o \in Ancestors(p) : Dir(c, o)
      BY <1>2, <1>3, <1>6, <2>1
    <3>2. "empty" \in Contents \cup {"dir"}
      BY Marks
    <3> HIDE DEF c, p
    <3> QED
      BY <1>1, <1>6, <3>1, <3>2, MakeOneView
  <2> QED
    BY <1>5, <1>6, <2>1
<1>7. CASE /\ Has(p) /\ ~IsDir(p) /\ tree' = tree /\ Goto(r, "fill", tree[p])
           /\ what' = [what EXCEPT ![tree[p]] = IF @ = "escape" THEN @ ELSE "empty"]
  <2>1. ASSUME b # <<>>
        PROVE  View' = With(c, p, "empty") /\ p \in DOMAIN tree'
    <3>1. /\ View = c /\ p \in DOMAIN tree /\ tree' = tree
          /\ what' = [what EXCEPT ![tree[p]] = "empty"]
      BY <1>2, <1>3, <1>7, <2>1 DEF Has
    <3> HIDE DEF c, p
    <3>2. View' = With(c, p, "empty")
      BY <3>1, WriteView
    <3> QED
      BY <3>1, <3>2 DEF Has
  <2> QED
    BY <1>5, <1>7, <2>1
<1> QED
  BY <1>4, <1>6, <1>7 DEF OpenFile

\* A write that has been let through, and has room, succeeds.
LEMMA FillAlone ==
    ASSUME TreeOK, RequestsOK, NEW r \in Threads, AloneOK(r), Fill(r), Note(r)
    PROVE  AloneOK(r)' /\ EndsRight(r)
<1> DEFINE q == ask[r]
           b == before[r]
           p == q.path
           c == WithDirs(b, p)
<1>1. at[r] = "fill" /\ p \in Paths /\ q.op = "write"
  BY AskPaths DEF RequestsOK, RequestOK, Fill
<1>2. at'[r] = "stat" /\ ask' = ask /\ before'[r] = before[r] /\ EndsRight(r)
  BY <1>1, GotoAlone DEF Fill
<1>3. ASSUME b # <<>>
      PROVE  Workspace(b) /\ Passed(q, b) /\ MaySucceed(q, b) /\ View' = Effect(q, b, r)
  <2>1. /\ Workspace(b) /\ Passed(q, b) /\ Room(b, p)
        /\ View = With(c, p, "empty") /\ Has(p) /\ work[r] = tree[p]
    BY <1>1, <1>3 DEF AloneOK
  <2>2. MaySucceed(q, b)
    BY <1>1, <2>1 DEF MaySucceed, Passed
  <2>3. what[tree[p]] = "empty"
    <3>1. With(c, p, "empty")[p] = "empty"
      BY DEF With
    <3>2. View[p] = what[tree[p]]
      BY <2>1, ViewDef DEF Has
    <3> QED
      BY <2>1, <3>1, <3>2
  <2>4. tree' = tree /\ what' = [what EXCEPT ![tree[p]] = r]
    BY <2>1, <2>3 DEF Fill
  <2>5. View' = With(With(c, p, "empty"), p, r)
    BY <2>1, <2>4, WriteView DEF Has
  <2>6. With(With(c, p, "empty"), p, r) = With(c, p, r)
    <3> HIDE DEF c, p
    <3> QED
      BY DEF With
  <2> QED
    BY <1>1, <2>1, <2>2, <2>5, <2>6 DEF Effect
<1>4. AloneOK(r)'
  BY <1>1, <1>2, <1>3 DEF AloneOK, Untouched
<1> QED
  BY <1>2, <1>4

\* mkdir of a directory that is there changes nothing.
LEMMA DirThere ==
    ASSUME NEW b, b = [q \in DOMAIN b |-> b[q]], Workspace(b), NEW p, Dir(b, p)
    PROVE  With(WithDirs(b, p), p, "dir") = b /\ Room(b, p)
<1>1. \A q \in Ancestors(p) : Dir(b, q)
  BY DEF Workspace, Dir
<1>2. DOMAIN With(WithDirs(b, p), p, "dir") = DOMAIN b
  BY <1>1 DEF With, WithDirs, Dir
<1>3. \A q \in DOMAIN b : With(WithDirs(b, p), p, "dir")[q] = b[q]
  BY DEF With, WithDirs, Dir
<1>4. With(WithDirs(b, p), p, "dir") = b
  BY <1>2, <1>3 DEF With
<1> QED
  BY <1>1, <1>4 DEF Room

\* mkdir with the directories above.
LEMMA MakePathView ==
    ASSUME TreeOK, NEW b, View = b, NEW p \in Paths, Room(b, p), p \notin DOMAIN b,
           MakeDirs(Missing(p) \cup {p})
    PROVE  View' = With(WithDirs(b, p), p, "dir")
<1> DEFINE paths == Missing(p) \cup {p}
           new == With(WithDirs(b, p), p, "dir")
<1>1. /\ Missing(p) = Ancestors(p) \ DOMAIN b /\ Missing(p) \subseteq Paths
      /\ \A q \in Missing(p) : \A o \in Ancestors(q) : Dir(b, o) \/ o \in Missing(p)
      /\ \A q \in Ancestors(p) : Dir(b, q) \/ q \in Missing(p)
  BY RoomDirs
<1>2. /\ paths \subseteq Paths
      /\ \A q \in paths : q \notin DOMAIN b /\ \A o \in Ancestors(q) : Dir(b, o) \/ o \in paths
  BY <1>1
<1>3. /\ DOMAIN View' = DOMAIN b \cup paths
      /\ \A q \in DOMAIN b : View'[q] = b[q]
      /\ \A q \in paths : View'[q] = "dir"
  <2> HIDE DEF paths
  <2>1. MakeDirs(paths)
    BY DEF paths
  <2> QED
    BY <1>2, <2>1, MakeDirsView
<1>4. /\ DOMAIN new = DOMAIN b \cup Ancestors(p) \cup {p} /\ new = [q \in DOMAIN new |-> new[q]]
      /\ \A q \in DOMAIN b : q # p => new[q] = b[q]
      /\ \A q \in (Ancestors(p) \ DOMAIN b) \cup {p} : new[q] = "dir"
  BY DEF With, WithDirs
<1> HIDE DEF new
<1>5. DOMAIN View' = DOMAIN new /\ \A q \in DOMAIN new : View'[q] = new[q]
  BY <1>1, <1>3, <1>4
<1>6. View' = new
  BY <1>4, <1>5, ViewDefNext
<1> QED
  BY <1>6 DEF new

LEMMA MakeDirAlone ==
    ASSUME TreeOK, RequestsOK, NEW r \in Threads, AloneOK(r), MakeDir(r), Note(r)
    PROVE  AloneOK(r)' /\ EndsRight(r)
<1> DEFINE q == ask[r]
           b == before[r]
           p == q.path
<1>1. at[r] = "mkdir" /\ p \in Paths /\ q.op = "mkdir"
  BY AskPaths DEF RequestsOK, RequestOK, MakeDir
<1>2. ASSUME b # <<>>
      PROVE  /\ View = b /\ Passed(q, b) /\ Workspace(b) /\ b = [o \in DOMAIN b |-> b[o]]
             /\ Has(p) <=> p \in DOMAIN b
             /\ IsDir(p) <=> Dir(b, p)
             /\ Missing(p) = Ancestors(p) \ DOMAIN b
             /\ Blocked(p) <=> ~Room(b, p)
             /\ p \in DOMAIN b => Missing(p) = {}
  <2>1. View = b /\ Passed(q, b) /\ Workspace(b)
    BY <1>1, <1>2 DEF AloneOK, Untouched
  <2>2. /\ Has(p) <=> p \in DOMAIN b
        /\ IsDir(p) <=> Dir(b, p)
        /\ Missing(p) = Ancestors(p) \ DOMAIN b
        /\ Blocked(p) <=> ~Room(b, p)
    BY <2>1, Seen
  <2>3. p \in DOMAIN b => Missing(p) = {}
    BY <2>1, <2>2 DEF Workspace, Dir
  <2> QED
    BY <2>1, <2>2, <2>3, ViewDef
\* It goes on when it may succeed.
<1>3. ASSUME Goto(r, "stat", NoWork), b # <<>> => MaySucceed(q, b) /\ View' = Effect(q, b, r)
      PROVE  AloneOK(r)' /\ EndsRight(r)
  <2>1. at'[r] = "stat" /\ ask' = ask /\ before'[r] = before[r] /\ EndsRight(r)
    BY <1>1, <1>3, GotoAlone
  <2>2. AloneOK(r)'
    BY <1>2, <1>3, <2>1 DEF AloneOK, Untouched
  <2> QED
    BY <2>1, <2>2
\* And it ends when it may not.
<1>4. ASSUME NEW status \in {"conflict", "not_found"}, Says(r, status), b # <<>> => ~MaySucceed(q, b)
      PROVE  AloneOK(r)' /\ EndsRight(r)
  <2>1. AloneOK(r)' /\ answer'[r] = <<status, NoWork>> /\ View' = View
    BY <1>4, AnswerAlone, ViewStays DEF Says
  <2> QED
    BY <1>1, <1>2, <1>4, <2>1 DEF EndsRight
<1>5. CASE Has(p) /\ q.exist_ok /\ IsDir(p) /\ Goto(r, "stat", NoWork) /\ UNCHANGED disk
  <2>1. ASSUME b # <<>>
        PROVE  MaySucceed(q, b) /\ View' = Effect(q, b, r)
    <3>1. Dir(b, p) /\ View' = b
      BY <1>2, <1>5, <2>1, ViewStays
    <3>2. With(WithDirs(b, p), p, "dir") = b /\ Room(b, p)
      <4> HIDE DEF b, p
      <4> QED
        BY <1>2, <2>1, <3>1, DirThere
    <3> QED
      BY <1>1, <1>2, <1>5, <2>1, <3>1, <3>2 DEF MaySucceed, Passed, Effect
  <2> QED
    BY <1>3, <1>5, <2>1
<1>6. CASE (Blocked(p) \/ (Has(p) /\ ~(q.exist_ok /\ IsDir(p)))) /\ Says(r, "conflict")
  <2>1. b # <<>> => ~MaySucceed(q, b)
    BY <1>1, <1>2, <1>6 DEF MaySucceed
  <2> QED
    BY <1>4, <1>6, <2>1
<1>7. CASE ~Blocked(p) /\ Missing(p) # {} /\ ~q.parents /\ Says(r, "not_found")
  <2>1. b # <<>> => ~MaySucceed(q, b)
    BY <1>1, <1>2, <1>7 DEF MaySucceed
  <2> QED
    BY <1>4, <1>7, <2>1
<1>8. CASE /\ ~Has(p) /\ ~Blocked(p) /\ (Missing(p) = {} \/ q.parents)
           /\ MakeDirs(Missing(p) \cup {p}) /\ Goto(r, "stat", NoWork)
  <2>1. ASSUME b # <<>>
        PROVE  MaySucceed(q, b) /\ View' = Effect(q, b, r)
    <3>1. View' = With(WithDirs(b, p), p, "dir")
      BY <1>1, <1>2, <1>8, <2>1, MakePathView
    <3> QED
      BY <1>1, <1>2, <1>8, <2>1, <3>1 DEF MaySucceed, Passed, Effect
  <2> QED
    BY <1>3, <1>8, <2>1
<1> QED
  BY <1>5, <1>6, <1>7, <1>8 DEF MakeDir

-----------------------------------------------------------------------------
(* remove, of a file or an empty directory. *)

\* What has nothing below it is all there is under it.
LEMMA LeafUnder ==
    ASSUME TreeOK, NEW p \in DOMAIN tree, ~IsDir(p) \/ Names(p) = {}
    PROVE  \A q \in DOMAIN tree : IsPrefix(p, q) <=> q = p
<1>1. \A q \in DOMAIN tree : p \notin Ancestors(q)
  BY Leaf
<1>2. p \in Paths /\ DOMAIN tree \subseteq Paths
  BY DEF TreeOK
<1> QED
  BY <1>1, <1>2, AncestorsDef, PrefixOrder DEF Above

LEMMA UnlinkView ==
    ASSUME TreeOK, NEW p \in DOMAIN tree, Unlink(p), ~IsDir(p) \/ Names(p) = {}
    PROVE  /\ DOMAIN tree' = DOMAIN tree \ {p}
           /\ \A q \in DOMAIN tree' : tree'[q] = tree[q] /\ what'[tree'[q]] = what[tree[q]]
BY Leaf, UnlinkTree

\* The last entry of what is removed goes.
LEMMA RemovedView ==
    ASSUME TreeOK, NEW b, DOMAIN b \subseteq Paths, NEW p \in DOMAIN tree,
           Unlink(p), ~IsDir(p) \/ Names(p) = {},
           DOMAIN tree \subseteq DOMAIN b, DOMAIN b \ Under(b, p) \subseteq DOMAIN tree,
           \A q \in DOMAIN tree : what[tree[q]] = b[q]
    PROVE  View' = Without(b, p)
<1> DEFINE new == Without(b, p)
<1>1. /\ DOMAIN new = DOMAIN b \ Under(b, p) /\ new = [q \in DOMAIN new |-> new[q]]
      /\ \A q \in DOMAIN b \ Under(b, p) : new[q] = b[q]
  BY DEF Without, Restrict
<1> HIDE DEF new
<1>2. /\ DOMAIN tree' = DOMAIN tree \ {p}
      /\ \A q \in DOMAIN tree' : what'[tree'[q]] = what[tree[q]]
  BY UnlinkView
<1>3. \A q \in DOMAIN tree : IsPrefix(p, q) <=> q = p
  BY LeafUnder
<1>4. DOMAIN tree' = DOMAIN new
  BY <1>1, <1>2, <1>3 DEF Under
<1>5. \A q \in DOMAIN tree' : what'[tree'[q]] = new[q]
  BY <1>1, <1>2, <1>4
<1>6. View' = new
  BY <1>1, <1>4, <1>5, ViewNextIs
<1> QED
  BY <1>6 DEF new

LEMMA RemoveFileAlone ==
    ASSUME TreeOK, RequestsOK, NEW r \in Threads, AloneOK(r), RemoveFile(r), Note(r)
    PROVE  AloneOK(r)' /\ EndsRight(r)
<1> DEFINE q == ask[r]
           b == before[r]
           p == q.path
<1>1. at[r] = "unlink" /\ p \in Paths
  BY AskPaths DEF RequestsOK, RequestOK, RemoveFile
<1>2. ASSUME b # <<>>
      PROVE  /\ View = b /\ Passed(q, b) /\ q.op = "remove" /\ DOMAIN b = DOMAIN tree
             /\ p \in DOMAIN tree /\ ~IsDir(p) /\ DOMAIN b \subseteq Paths
             /\ \A o \in DOMAIN tree : what[tree[o]] = b[o]
  <2>1. View = b /\ Passed(q, b) /\ q.op = "remove" /\ ~Dir(b, p)
    BY <1>1, <1>2 DEF AloneOK, Untouched
  <2> QED
    BY <2>1, Seen DEF Passed
<1>3. CASE Has(p) /\ ~IsDir(p) /\ Unlink(p) /\ Answer(r, "ok", NoWork)
  <2>1. AloneOK(r)' /\ answer'[r] = <<"ok", NoWork>>
    BY <1>3, AnswerAlone
  <2>2. ASSUME b # <<>>
        PROVE  MaySucceed(q, b) /\ View' = Without(b, p)
    <3>1. Children(b, p) = {}
      <4>1. \A o \in DOMAIN tree : IsPrefix(p, o) <=> o = p
        BY <1>2, <2>2, LeafUnder
      <4>2. Len(p) \in Nat
        BY <1>1, LenProperties DEF Paths
      <4> QED
        BY <1>2, <2>2, <4>1, <4>2 DEF Children, Under
    <3>2. MaySucceed(q, b)
      BY <1>2, <2>2, <3>1 DEF MaySucceed, Passed
    <3>3. View' = Without(b, p)
      <4>1. View = b /\ DOMAIN b = DOMAIN tree /\ p \in DOMAIN tree
        BY <1>2, <2>2
      <4> HIDE DEF b, p
      <4> QED
        BY <1>2, <1>3, <2>2, <4>1, RemovedView
    <3> QED
      BY <3>2, <3>3
  <2> QED
    BY <1>2, <2>1, <2>2 DEF EndsRight, Tells, Effect
<1>4. CASE ~(Has(p) /\ ~IsDir(p)) /\ Says(r, "error")
  BY <1>2, <1>4, AnswerAlone DEF EndsRight, Says, Has
<1> QED
  BY <1>3, <1>4 DEF RemoveFile

LEMMA RemoveDirAlone ==
    ASSUME TreeOK, RequestsOK, NEW r \in Threads, AloneOK(r), RemoveDir(r), Note(r)
    PROVE  AloneOK(r)' /\ EndsRight(r)
<1> DEFINE q == ask[r]
           b == before[r]
           p == q.path
<1>1. at[r] = "rmdir" /\ p \in Paths
  BY AskPaths DEF RequestsOK, RequestOK, RemoveDir
<1>2. ASSUME b # <<>>
      PROVE  /\ View = b /\ Passed(q, b) /\ q.op = "remove" /\ ~q.recursive /\ DOMAIN b = DOMAIN tree
             /\ p \in DOMAIN tree /\ IsDir(p) /\ DOMAIN b \subseteq Paths
             /\ Names(p) = {} <=> Children(b, p) = {}
             /\ \A o \in DOMAIN tree : what[tree[o]] = b[o]
  <2>1. View = b /\ Passed(q, b) /\ q.op = "remove" /\ Dir(b, p) /\ ~q.recursive
    BY <1>1, <1>2 DEF AloneOK, Untouched
  <2>2. Names(p) = {Last(c) : c \in Children(b, p)}
    BY <2>1, Seen
  <2>3. Names(p) = {} <=> Children(b, p) = {}
    BY <2>2
  <2> QED
    BY <2>1, <2>3, Seen DEF Passed
<1>3. CASE IsDir(p) /\ Names(p) = {} /\ Unlink(p) /\ Answer(r, "ok", NoWork)
  <2>1. AloneOK(r)' /\ answer'[r] = <<"ok", NoWork>>
    BY <1>3, AnswerAlone
  <2>2. ASSUME b # <<>>
        PROVE  MaySucceed(q, b) /\ View' = Without(b, p)
    <3>1. MaySucceed(q, b)
      BY <1>2, <1>3, <2>2 DEF MaySucceed, Passed
    <3>2. View' = Without(b, p)
      <4>1. View = b /\ DOMAIN b = DOMAIN tree /\ p \in DOMAIN tree
        BY <1>2, <2>2
      <4> HIDE DEF b, p
      <4> QED
        BY <1>2, <1>3, <2>2, <4>1, RemovedView
    <3> QED
      BY <3>1, <3>2
  <2> QED
    BY <1>2, <2>1, <2>2 DEF EndsRight, Tells, Effect
<1>4. CASE ~(IsDir(p) /\ Names(p) = {}) /\ Says(r, "conflict")
  <2>1. AloneOK(r)' /\ answer'[r] = <<"conflict", NoWork>> /\ View' = View
    BY <1>4, AnswerAlone, ViewStays DEF Says
  <2>2. b # <<>> => ~MaySucceed(q, b)
    BY <1>2, <1>4 DEF MaySucceed
  <2> QED
    BY <1>2, <2>1, <2>2 DEF EndsRight
<1> QED
  BY <1>3, <1>4 DEF RemoveDir

-----------------------------------------------------------------------------
(* remove, of a directory with what is in it. *)

\* A path has one directory and one name.
LEMMA AppendOnce ==
    ASSUME NEW o \in Paths, NEW q \in Paths, NEW m \in STRING, NEW n \in STRING,
           Append(o, m) = Append(q, n)
    PROVE  o = q /\ m = n
<1>1. /\ Len(o) \in Nat /\ Len(q) \in Nat /\ Len(o) = Len(q) /\ m = n
  <2>1. /\ Last(Append(o, m)) = m /\ Len(Append(o, m)) = Len(o) + 1
        /\ Last(Append(q, n)) = n /\ Len(Append(q, n)) = Len(q) + 1
    BY LastAppend
  <2>2. Len(o) \in Nat /\ Len(q) \in Nat
    BY LenProperties DEF Paths
  <2> QED
    BY <2>1, <2>2
<1>2. /\ \A i \in 1..Len(o) : Append(o, m)[i] = o[i]
      /\ \A i \in 1..Len(q) : Append(q, n)[i] = q[i]
  BY AppendProperties DEF Paths
<1>3. \A i \in 1..Len(o) : o[i] = q[i]
  BY <1>1, <1>2
<1> QED
  BY <1>1, <1>3, SeqEqual DEF Paths

\* The names of the entries of a directory.
LEMMA NamesIn ==
    ASSUME NEW T, T \subseteq Paths, NEW o \in Paths
    PROVE  {Last(q) : q \in {q \in {q \in T : IsPrefix(o, q)} : Len(q) = Len(o) + 1}}
               = {n \in STRING : Append(o, n) \in T}
<1>1. \A q \in T : IsPrefix(o, q) /\ Len(q) = Len(o) + 1 =>
          Last(q) \in STRING /\ q = Append(o, Last(q))
  BY ChildPath
<1>2. \A n \in STRING : /\ IsPrefix(o, Append(o, n)) /\ Len(Append(o, n)) = Len(o) + 1
                        /\ Last(Append(o, n)) = n
  BY AppendChild, LastAppend
<1> QED
  BY <1>1, <1>2

LEMMA NamesDef ==
    ASSUME TreeOK, NEW o \in Paths
    PROVE  Names(o) = {n \in STRING : Append(o, n) \in DOMAIN tree}
BY NamesIn DEF TreeOK, Names, Subtree

\* When an entry goes, its directory has one name less, and no other has.
LEMMA NamesLess ==
    ASSUME TreeOK, NEW o \in Paths, NEW n \in STRING, DOMAIN tree' = DOMAIN tree \ {Append(o, n)}
    PROVE  \A q \in Paths : Names(q)' = IF q = o THEN Names(o) \ {n} ELSE Names(q)
<1> SUFFICES ASSUME NEW q \in Paths
             PROVE  Names(q)' = IF q = o THEN Names(o) \ {n} ELSE Names(q)
  OBVIOUS
<1>1. DOMAIN tree \subseteq Paths /\ DOMAIN tree' \subseteq Paths
  BY DEF TreeOK
<1>2. Names(q)' = {m \in STRING : Append(q, m) \in DOMAIN tree'}
  BY <1>1, NamesIn DEF Names, Subtree
<1>3. Names(q) = {m \in STRING : Append(q, m) \in DOMAIN tree}
  BY NamesDef
<1>4. \A m \in STRING : Append(q, m) = Append(o, n) <=> q = o /\ m = n
  BY AppendOnce
<1>5. \A m \in STRING : Append(q, m) \in DOMAIN tree' <=>
                            Append(q, m) \in DOMAIN tree /\ ~(q = o /\ m = n)
  BY <1>4
<1>6. \A m : m \in Names(q)' <=> m \in Names(q) /\ ~(q = o /\ m = n)
  BY <1>2, <1>3, <1>5
<1>7. CASE q = o
  <2>1. Names(q)' = Names(q) \ {n}
    BY <1>6, <1>7
  <2> QED
    BY <1>7, <2>1
<1>8. CASE q # o
  <2>1. Names(q)' = Names(q)
    BY <1>6, <1>8
  <2> QED
    BY <1>8, <2>1
<1> QED
  BY <1>7, <1>8

\* The stack of open directories.
LEMMA Stacked ==
    ASSUME NEW w \in Seq(Frames), w # <<>>
    PROVE  /\ Len(w) \in Nat /\ Len(w) >= 1 /\ Last(w) = w[Len(w)]
           /\ \A i \in 1..Len(w) : w[i] \in Frames
           /\ Front(w) \in Seq(Frames) /\ Len(Front(w)) = Len(w) - 1
           /\ \A i \in 1..Len(w) - 1 : Front(w)[i] = w[i]
           /\ Front(w) = <<>> <=> Len(w) = 1
<1>1. Len(w) \in Nat /\ Len(w) \in 1..Len(w) /\ \A i \in 1..Len(w) : w[i] \in Frames
  BY LenProperties, EmptySeq, ElementOfSeq
<1>2. /\ Front(w) \in Seq(Frames) /\ Len(Front(w)) = Len(w) - 1
      /\ \A i \in 1..Len(w) - 1 : Front(w)[i] = w[i]
  BY SMTT(30), <1>1, SubSeqProperties DEF Front
<1>3. Front(w) = <<>> <=> Len(w) = 1
  BY <1>1, <1>2, EmptySeq
<1> QED
  BY <1>1, <1>2, <1>3 DEF Last

LEMMA Pushed ==
    ASSUME NEW w \in Seq(Frames), NEW frame \in Frames
    PROVE  /\ Append(w, frame) \in Seq(Frames) /\ Append(w, frame) # <<>>
           /\ Len(Append(w, frame)) = Len(w) + 1 /\ Len(w) \in Nat
           /\ \A i \in 1..Len(w) : Append(w, frame)[i] = w[i]
           /\ Append(w, frame)[Len(w) + 1] = frame
BY AppendProperties, LenProperties

\* The last frame is replaced.
LEMMA Replaced ==
    ASSUME NEW w \in Seq(Frames), w # <<>>, NEW top \in Frames
    PROVE  /\ Append(Front(w), top) \in Seq(Frames) /\ Append(Front(w), top) # <<>>
           /\ Len(Append(Front(w), top)) = Len(w) /\ Append(Front(w), top)[Len(w)] = top
           /\ \A i \in 1..Len(w) - 1 : Append(Front(w), top)[i] = w[i]
<1> DEFINE rest == Append(Front(w), top)
<1>1. /\ Len(w) \in Nat /\ Len(w) >= 1 /\ Front(w) \in Seq(Frames) /\ Len(Front(w)) = Len(w) - 1
      /\ \A i \in 1..Len(w) - 1 : Front(w)[i] = w[i]
  BY Stacked
<1>2. /\ rest \in Seq(Frames) /\ rest # <<>> /\ Len(rest) = Len(Front(w)) + 1
      /\ \A i \in 1..Len(Front(w)) : rest[i] = Front(w)[i]
      /\ rest[Len(Front(w)) + 1] = top
  BY <1>1, Pushed
<1> HIDE DEF rest
<1>3. Len(Front(w)) + 1 = Len(w)
  BY <1>1
<1> QED
  BY <1>1, <1>2, <1>3 DEF rest

\* The directory that is open, and what is to be removed next: an entry of it.
LEMMA ChainTop ==
    ASSUME TreeOK, NEW w, NEW p \in Paths, Chain(w, p)
    PROVE  \E o \in DOMAIN tree :
              /\ o \in Paths /\ Level(w, p, Len(w), o)
              /\ Names(o) = Last(w).left /\ PathsOf(Last(w).dir) = {o}
              /\ \A n \in Last(w).left :
                    n \in STRING /\ Child(Last(w), n) = {Append(o, n)} /\ Append(o, n) \in DOMAIN tree
<1>1. Len(w) \in 1..Len(w) /\ Last(w) = w[Len(w)]
  BY Stacked DEF Chain
<1>2. PICK o \in DOMAIN tree : Level(w, p, Len(w), o)
  BY <1>1 DEF Chain
<1>3. o \in Paths /\ Names(o) = Last(w).left /\ tree[o] = Last(w).dir
  BY <1>1, <1>2 DEF Level, TreeOK
<1>4. PathsOf(Last(w).dir) = {o}
  BY <1>3 DEF PathsOf, TreeOK
<1>5. ASSUME NEW n \in Last(w).left
      PROVE  n \in STRING /\ Child(Last(w), n) = {Append(o, n)} /\ Append(o, n) \in DOMAIN tree
  <2>1. n \in STRING /\ Append(o, n) \in DOMAIN tree
    BY <1>3, <1>5, NamesDef
  <2> QED
    BY <1>4, <2>1 DEF Child
<1> QED
  BY <1>2, <1>3, <1>4, <1>5

\* A directory in it is opened.
LEMMA PushChain ==
    ASSUME TreeOK, NEW w, NEW p \in Paths, Chain(w, p),
           NEW n \in Last(w).left, NEW c \in Child(Last(w), n), IsDir(c), NEW v,
           v = Append(Append(Front(w), [Last(w) EXCEPT !.left = @ \ {n}]), Frame(c, n))
    PROVE  Chain(v, p)
<1> DEFINE k == Len(w)
           top == [Last(w) EXCEPT !.left = @ \ {n}]
           rest == Append(Front(w), top)
<1>1. /\ w \in Seq(Frames) /\ k \in Nat /\ k >= 1 /\ Last(w) = w[k] /\ w[k] \in Frames
      /\ Front(w) \in Seq(Frames) /\ Len(Front(w)) = k - 1
      /\ \A i \in 1..k - 1 : Front(w)[i] = w[i]
  BY Stacked DEF Chain
<1>2. PICK o \in DOMAIN tree :
          /\ o \in Paths /\ Level(w, p, k, o) /\ Names(o) = Last(w).left
          /\ n \in STRING /\ Child(Last(w), n) = {Append(o, n)} /\ Append(o, n) \in DOMAIN tree
  BY ChainTop
<1>3. c = Append(o, n) /\ c \in DOMAIN tree /\ c \in Paths
  BY <1>2 DEF TreeOK
<1>4. Frame(c, n) \in Frames /\ Frame(c, n).dir = tree[c] /\ Frame(c, n).left = Names(c) /\ Frame(c, n).name = n
  BY <1>2, <1>3, FrameStep DEF Frame
<1>5. top \in Frames /\ top.dir = w[k].dir /\ top.name = w[k].name /\ top.left = w[k].left \ {n}
  BY <1>1 DEF Frames
<1> HIDE DEF top
<1>6. /\ rest \in Seq(Frames) /\ Len(rest) = k /\ rest[k] = top
      /\ \A i \in 1..k - 1 : rest[i] = w[i]
  BY <1>1, <1>5, Replaced DEF rest
<1> HIDE DEF rest
<1>7. /\ v \in Seq(Frames) /\ v # <<>> /\ Len(v) = k + 1
      /\ v[k + 1] = Frame(c, n) /\ v[k] = top
      /\ \A i \in 1..k - 1 : v[i] = w[i]
  <2>1. v = Append(rest, Frame(c, n))
    BY DEF rest, top
  <2>2. /\ Append(rest, Frame(c, n)) \in Seq(Frames) /\ Append(rest, Frame(c, n)) # <<>>
        /\ Len(Append(rest, Frame(c, n))) = Len(rest) + 1
        /\ \A i \in 1..Len(rest) : Append(rest, Frame(c, n))[i] = rest[i]
        /\ Append(rest, Frame(c, n))[Len(rest) + 1] = Frame(c, n)
    BY <1>4, <1>6, Pushed
  <2>3. k \in 1..k /\ \A i \in 1..k - 1 : i \in 1..k
    BY <1>1
  <2> QED
    BY <1>6, <2>1, <2>2, <2>3
<1>8. ASSUME NEW i \in 1..k - 1
      PROVE  \E d \in DOMAIN tree : Level(v, p, i, d)
  <2>1. PICK d \in DOMAIN tree : Level(w, p, i, d)
    BY <1>1 DEF Chain
  <2>2. /\ i \in Nat /\ i < k /\ i < Len(v) /\ i + 1 \in 1..k /\ v[i] = w[i]
        /\ v[i + 1].name = w[i + 1].name /\ v[i + 1].dir = w[i + 1].dir
    <3>1. i + 1 = k \/ i + 1 \in 1..k - 1
      BY <1>1
    <3> QED
      BY <1>1, <1>5, <1>7, <3>1
  <2>3. Level(v, p, i, d)
    BY <1>1, <1>7, <2>1, <2>2 DEF Level
  <2> QED
    BY <2>3
<1>9. Level(v, p, k, o)
  BY <1>1, <1>2, <1>3, <1>4, <1>5, <1>7 DEF Level, Has
<1>10. Level(v, p, k + 1, c)
  <2>1. IsPrefix(o, c) /\ Len(c) = Len(o) + 1 /\ Len(p) \in Nat
    BY <1>2, <1>3, AppendChild, LastAppend, LenProperties DEF Paths
  <2>2. IsPrefix(p, o) /\ Len(o) = Len(p) + k - 1
    BY <1>2 DEF Level
  <2>3. IsPrefix(p, c)
    BY <1>2, <1>3, <2>1, <2>2, PrefixOrder
  <2> QED
    BY <1>1, <1>4, <1>7, <2>1, <2>2, <2>3 DEF Level
<1>11. \A i \in 1..k + 1 : i \in 1..k - 1 \/ i = k \/ i = k + 1
  BY <1>1
<1>12. \A i \in 1..Len(v) : \E d \in DOMAIN tree : Level(v, p, i, d)
  BY <1>3, <1>7, <1>8, <1>9, <1>10, <1>11
<1> QED
  BY <1>7, <1>12 DEF Chain

\* A removal leaves the directories further up as they were.
LEMMA LowerLevel ==
    ASSUME TreeOK, NEW p \in Paths, NEW w, NEW i \in Nat, i < Len(w), NEW d \in DOMAIN tree, Level(w, p, i, d),
           NEW o \in Paths, NEW n \in STRING, DOMAIN tree' = DOMAIN tree \ {Append(o, n)},
           \A q \in DOMAIN tree' : tree'[q] = tree[q] /\ what'[tree'[q]] = what[tree[q]],
           d # o, d # Append(o, n),
           NEW v, i < Len(v), v[i].dir = w[i].dir, v[i].left = w[i].left,
           v[i + 1].dir = w[i + 1].dir, v[i + 1].name = w[i + 1].name,
           Len(v) \in Nat, Len(w) \in Nat
    PROVE  d \in DOMAIN tree' /\ Level(v, p, i, d)'
<1>1. d \in DOMAIN tree' /\ d \in Paths
  BY DEF TreeOK
<1>2. /\ IsDir(d) /\ IsPrefix(p, d) /\ tree[d] = w[i].dir
      /\ Len(d) = Len(p) + i - 1 /\ (i = 1 => d = p)
      /\ Names(d) = w[i].left \cup {w[i + 1].name} /\ w[i + 1].name \notin w[i].left
      /\ Append(d, w[i + 1].name) \in DOMAIN tree /\ tree[Append(d, w[i + 1].name)] = w[i + 1].dir
  BY DEF Level, Has
<1>3. w[i + 1].name \in STRING
  BY <1>1, <1>2, NamesDef
<1>4. Append(d, w[i + 1].name) # Append(o, n)
  BY <1>1, <1>3, AppendOnce
<1>5. Names(d)' = Names(d)
  BY <1>1, NamesLess
<1>6. IsDir(d)' /\ tree'[d] = tree[d]
  BY <1>1, <1>2 DEF IsDir, Has
<1>7. Append(d, v[i + 1].name) \in DOMAIN tree' /\ tree'[Append(d, v[i + 1].name)] = v[i + 1].dir
  BY <1>2, <1>4
<1>8. i # Len(v)
  OBVIOUS
<1> QED
  BY <1>1, <1>2, <1>5, <1>6, <1>7, <1>8 DEF Level, Has

\* A file in it is removed.
LEMMA UnlinkChain ==
    ASSUME TreeOK, NEW w, NEW p \in Paths, Chain(w, p),
           NEW n \in Last(w).left, NEW c \in Child(Last(w), n), ~IsDir(c), Unlink(c),
           NEW v \in Seq(Frames), Len(v) = Len(w), \A i \in 1..Len(w) - 1 : v[i] = w[i],
           v[Len(w)] = [Last(w) EXCEPT !.left = @ \ {n}]
    PROVE  Chain(v, p)' /\ c \in DOMAIN tree /\ IsPrefix(p, c)
<1> DEFINE k == Len(w)
<1>1. /\ w \in Seq(Frames) /\ w # <<>> /\ k \in Nat /\ k >= 1 /\ Last(w) = w[k] /\ w[k] \in Frames
  BY Stacked DEF Chain
<1>2. PICK o \in DOMAIN tree :
          /\ o \in Paths /\ Level(w, p, k, o) /\ Names(o) = Last(w).left
          /\ n \in STRING /\ Child(Last(w), n) = {Append(o, n)} /\ Append(o, n) \in DOMAIN tree
  BY ChainTop
<1>3. c = Append(o, n) /\ c \in DOMAIN tree /\ c \in Paths
  BY <1>2 DEF TreeOK
<1>4. v[k].dir = w[k].dir /\ v[k].name = w[k].name /\ v[k].left = w[k].left \ {n}
  BY <1>1 DEF Frames
<1>6. v # <<>> /\ Len(v) = k /\ \A i \in 1..k - 1 : v[i] = w[i]
  BY <1>1
<1>7. /\ DOMAIN tree' = DOMAIN tree \ {Append(o, n)}
      /\ \A q \in DOMAIN tree' : tree'[q] = tree[q] /\ what'[tree'[q]] = what[tree[q]]
  BY <1>3, UnlinkView
<1>8. IsDir(o) /\ IsPrefix(p, o) /\ Len(o) = Len(p) + k - 1 /\ Len(p) \in Nat
  BY <1>2, LenProperties DEF Level, Paths
<1>9. ASSUME NEW i \in 1..k - 1
      PROVE  \E d \in DOMAIN tree' : Level(v, p, i, d)'
  <2>1. PICK d \in DOMAIN tree : Level(w, p, i, d)
    BY <1>1 DEF Chain
  <2>2. /\ i \in Nat /\ i < k /\ v[i] = w[i]
        /\ v[i + 1].name = w[i + 1].name /\ v[i + 1].dir = w[i + 1].dir
    <3>1. i \in Nat /\ i < k /\ (i + 1 = k \/ i + 1 \in 1..k - 1)
      BY <1>1
    <3>2. CASE i + 1 = k
      BY <1>4, <1>6, <3>1, <3>2
    <3>3. CASE i + 1 \in 1..k - 1
      BY <1>6, <3>1, <3>3
    <3> QED
      BY <3>1, <3>2, <3>3
  <2>3. d # o /\ d # Append(o, n)
    <3>1. IsDir(d) /\ Len(d) = Len(p) + i - 1
      BY <2>1 DEF Level
    <3> QED
      BY <1>1, <1>3, <1>8, <2>2, <3>1
  <2>4. /\ i < Len(w) /\ i < Len(v) /\ Len(v) \in Nat /\ Len(w) \in Nat
        /\ v[i].dir = w[i].dir /\ v[i].left = w[i].left
    BY <1>1, <1>6, <2>2
  <2>5. o \in Paths /\ n \in STRING /\ i \in Nat
    BY <1>2, <2>2
  <2>6. v[i + 1].dir = w[i + 1].dir /\ v[i + 1].name = w[i + 1].name
    BY <2>2
  <2> HIDE DEF k
  <2>7. d \in DOMAIN tree' /\ Level(v, p, i, d)'
    BY <1>7, <2>1, <2>3, <2>4, <2>5, <2>6, LowerLevel
  <2> QED
    BY <2>7
<1>10. o \in DOMAIN tree' /\ Level(v, p, k, o)'
  <2>1. o # Append(o, n) /\ Names(o)' = Names(o) \ {n}
    BY <1>2, <1>7, AppendChild, NamesLess
  <2>2. o \in DOMAIN tree' /\ IsDir(o)' /\ tree'[o] = tree[o]
    BY <1>7, <1>8, <2>1 DEF IsDir, Has
  <2> QED
    BY <1>1, <1>2, <1>4, <1>6, <2>1, <2>2 DEF Level
<1>11. \A i \in 1..k : i \in 1..k - 1 \/ i = k
  BY <1>1
<1>12. \A i \in 1..Len(v) : \E d \in DOMAIN tree' : Level(v, p, i, d)'
  BY <1>6, <1>9, <1>10, <1>11
<1>13. IsPrefix(p, c)
  BY <1>2, <1>3, <1>8, AppendChild, PrefixOrder
<1> QED
  BY <1>3, <1>6, <1>12, <1>13 DEF Chain

\* The empty directory that is open is the entry of the one above that has its name.
LEMMA ChainPop ==
    ASSUME TreeOK, NEW w, NEW p \in Paths, Chain(w, p), Last(w).left = {}, Front(w) # <<>>
    PROVE  /\ Len(w) \in Nat /\ Len(w) >= 2
           /\ \E o \in DOMAIN tree :
                /\ o \in Paths /\ Level(w, p, Len(w) - 1, o) /\ Last(w).name \in STRING
                /\ Child(Last(Front(w)), Last(w).name) = {Append(o, Last(w).name)}
                /\ IsDir(Append(o, Last(w).name)) /\ Names(Append(o, Last(w).name)) = {}
<1> DEFINE k == Len(w)
<1>1. /\ w \in Seq(Frames) /\ k \in Nat /\ k >= 1 /\ Last(w) = w[k] /\ w[k] \in Frames
      /\ Front(w) \in Seq(Frames) /\ Len(Front(w)) = k - 1
      /\ \A i \in 1..k - 1 : Front(w)[i] = w[i]
      /\ k # 1
  BY Stacked DEF Chain
<1>2. k >= 2 /\ Last(Front(w)) = w[k - 1]
  BY <1>1, Stacked
<1>3. PICK o \in DOMAIN tree : Level(w, p, k - 1, o)
  BY <1>1, <1>2 DEF Chain
<1>4. /\ tree[o] = w[k - 1].dir
      /\ Names(o) = w[k - 1].left \cup {w[k].name}
      /\ Append(o, w[k].name) \in DOMAIN tree /\ tree[Append(o, w[k].name)] = w[k].dir
  <2>1. k - 1 < Len(w) /\ (k - 1) + 1 = k
    BY <1>1
  <2> QED
    BY <1>3, <2>1 DEF Level, Has
<1>5. o \in Paths /\ w[k].name \in STRING
  <2>1. o \in Paths
    BY DEF TreeOK
  <2> QED
    BY <1>4, <2>1, NamesDef
<1>6. PathsOf(w[k - 1].dir) = {o}
  BY <1>4 DEF PathsOf, TreeOK
<1>7. Child(Last(Front(w)), w[k].name) = {Append(o, w[k].name)}
  <2>1. PathsOf(Last(Front(w)).dir) = {o}
    BY <1>2, <1>6
  <2>2. {Append(q, w[k].name) : q \in PathsOf(Last(Front(w)).dir)} = {Append(o, w[k].name)}
    BY <2>1
  <2> QED
    BY <1>4, <2>2 DEF Child
<1>8. PICK d \in DOMAIN tree : Level(w, p, k, d) /\ Names(d) = Last(w).left
  BY ChainTop
<1>9. d = Append(o, w[k].name) /\ IsDir(d) /\ Names(d) = {}
  BY <1>4, <1>8 DEF Level, TreeOK
<1> QED
  BY <1>1, <1>2, <1>3, <1>5, <1>7, <1>9

LEMMA PopChain ==
    ASSUME TreeOK, NEW w, NEW p \in Paths, Chain(w, p), Last(w).left = {}, Front(w) # <<>>,
           NEW c \in Child(Last(Front(w)), Last(w).name), Unlink(c), NEW v, v = Front(w)
    PROVE  Chain(v, p)' /\ c \in DOMAIN tree /\ IsPrefix(p, c)
<1> DEFINE k == Len(w)
           n == Last(w).name
<1>1. /\ w \in Seq(Frames) /\ k \in Nat /\ k >= 2 /\ Last(w) = w[k]
      /\ v \in Seq(Frames) /\ v # <<>> /\ Len(v) = k - 1
      /\ \A i \in 1..k - 1 : v[i] = w[i]
  BY Stacked, ChainPop DEF Chain
<1>2. PICK o \in DOMAIN tree :
          /\ o \in Paths /\ Level(w, p, k - 1, o) /\ n \in STRING
          /\ Child(Last(Front(w)), n) = {Append(o, n)}
          /\ IsDir(Append(o, n)) /\ Names(Append(o, n)) = {}
  BY ChainPop
<1>3. c = Append(o, n) /\ c \in DOMAIN tree
  BY <1>2 DEF IsDir, Has
<1>4. /\ DOMAIN tree' = DOMAIN tree \ {Append(o, n)}
      /\ \A q \in DOMAIN tree' : tree'[q] = tree[q] /\ what'[tree'[q]] = what[tree[q]]
  BY <1>2, <1>3, UnlinkView
<1>5. /\ IsDir(o) /\ IsPrefix(p, o) /\ tree[o] = w[k - 1].dir
      /\ Len(o) = Len(p) + (k - 1) - 1 /\ (k - 1 = 1 => o = p) /\ Len(p) \in Nat
      /\ Names(o) = w[k - 1].left \cup {n} /\ n \notin w[k - 1].left
  <2>1. k - 1 < Len(w) /\ (k - 1) + 1 = k
    BY <1>1
  <2> QED
    BY <1>1, <1>2, <2>1, LenProperties DEF Level, Paths
<1>6. Len(Append(o, n)) = Len(o) + 1 /\ IsPrefix(o, Append(o, n)) /\ Append(o, n) \in Paths /\ o # Append(o, n)
  BY <1>2, AppendChild, LastAppend
<1>7. ASSUME NEW i \in 1..k - 2
      PROVE  \E d \in DOMAIN tree' : Level(v, p, i, d)'
  <2>1. i \in 1..k /\ i \in Nat /\ i < k /\ i < Len(v) /\ i \in 1..k - 1 /\ i + 1 \in 1..k - 1
    BY <1>1
  <2>2. PICK d \in DOMAIN tree : Level(w, p, i, d)
    BY <2>1 DEF Chain
  <2>3. v[i] = w[i] /\ v[i + 1] = w[i + 1]
    BY <1>1, <2>1
  <2>4. d # o /\ d # Append(o, n)
    <3>1. Len(d) = Len(p) + i - 1
      BY <2>2 DEF Level
    <3> QED
      BY <1>1, <1>5, <1>6, <2>1, <3>1
  <2>5. /\ i < Len(w) /\ Len(v) \in Nat /\ Len(w) \in Nat
        /\ v[i].dir = w[i].dir /\ v[i].left = w[i].left
        /\ v[i + 1].dir = w[i + 1].dir /\ v[i + 1].name = w[i + 1].name
    BY <1>1, <2>1, <2>3
  <2> HIDE DEF n
  <2>6. d \in DOMAIN tree' /\ Level(v, p, i, d)'
    BY <1>2, <1>4, <2>1, <2>2, <2>4, <2>5, LowerLevel
  <2> QED
    BY <2>6
<1>8. o \in DOMAIN tree' /\ Level(v, p, k - 1, o)'
  <2>1. Names(o)' = w[k - 1].left
    <3>1. Names(o)' = Names(o) \ {n}
      BY <1>2, <1>4, NamesLess
    <3> QED
      BY <1>5, <3>1
  <2>2. o \in DOMAIN tree' /\ IsDir(o)' /\ tree'[o] = tree[o]
    BY <1>4, <1>5, <1>6 DEF IsDir, Has
  <2>3. v[k - 1] = w[k - 1] /\ k - 1 = Len(v)
    BY <1>1
  <2> QED
    BY <1>5, <2>1, <2>2, <2>3 DEF Level
<1>9. \A i \in 1..Len(v) : i \in 1..k - 2 \/ i = k - 1
  BY <1>1
<1>10. \A i \in 1..Len(v) : \E d \in DOMAIN tree' : Level(v, p, i, d)'
  BY <1>7, <1>8, <1>9
<1>11. IsPrefix(p, c)
  BY <1>2, <1>3, <1>5, <1>6, PrefixOrder
<1> QED
  BY <1>1, <1>3, <1>10, <1>11 DEF Chain

\* The first directory is opened.
LEMMA ChainStart ==
    ASSUME TreeOK, NEW p \in DOMAIN tree, IsDir(p), NEW v, v = <<Frame(p, "/")>>
    PROVE  Chain(v, p)
<1>1. /\ Frame(p, "/") \in Frames /\ Frame(p, "/").dir = tree[p] /\ Frame(p, "/").left = Names(p)
      /\ p \in Paths
  BY FrameStep DEF Frame, TreeOK
<1>2. /\ v \in Seq(Frames) /\ v # <<>> /\ Len(v) = 1 /\ v[1] = Frame(p, "/")
  BY <1>1
<1>3. IsPrefix(p, p) /\ Len(p) \in Nat
  BY <1>1, PrefixOrder, LenProperties DEF Paths
<1>4. Level(v, p, 1, p)
  BY <1>1, <1>2, <1>3 DEF Level
<1>5. \A i \in 1..Len(v) : i = 1
  BY <1>2
<1> QED
  BY <1>2, <1>4, <1>5 DEF Chain

LEMMA ChainStays ==
    ASSUME UNCHANGED disk, NEW v, NEW p, Chain(v, p)
    PROVE  Chain(v, p)'
BY DEF disk, Chain, Level, IsDir, Has, Names, Subtree

LEMMA RemovingNext ==
    ASSUME NEW r, NEW b, NEW p, NEW v,
           before'[r] = b, ask'[r].path = p, work'[r] = v,
           DOMAIN tree' \subseteq DOMAIN b, DOMAIN b \ Under(b, p) \subseteq DOMAIN tree',
           \A q \in DOMAIN tree' : what'[tree'[q]] = b[q], Chain(v, p)'
    PROVE  Removing(r)'
BY DEF Removing

\* With its history lost, a request is not looked at any more.
LEMMA NotAlone ==
    ASSUME NEW r \in Threads, before[r] = <<>>, at[r] # "open", Note(r)
    PROVE  AloneOK(r)' /\ EndsRight(r)
<1>1. before'[r] = <<>>
  BY DEF Note
<1> QED
  BY <1>1 DEF AloneOK, EndsRight

\* It goes on removing.
LEMMA GoesOnRemoving ==
    ASSUME RequestsOK, NEW r \in Threads, before[r] # <<>>, AloneOK(r), Note(r),
           at[r] \in {"rmtree", "sweep"}, NEW p, p = ask[r].path, NEW b, b = before[r],
           NEW v, Goto(r, "sweep", v),
           DOMAIN tree' \subseteq DOMAIN b, DOMAIN b \ Under(b, p) \subseteq DOMAIN tree',
           \A q \in DOMAIN tree' : what'[tree'[q]] = b[q], Chain(v, p)'
    PROVE  AloneOK(r)' /\ EndsRight(r)
<1>1. at'[r] = "sweep" /\ work'[r] = v /\ ask' = ask /\ before'[r] = before[r] /\ EndsRight(r)
  BY GotoAlone
<1>2. Removing(r)'
  BY <1>1, RemovingNext
<1>3. Workspace(b) /\ Passed(ask[r], b) /\ ask[r].op = "remove"
  BY DEF AloneOK
<1>4. AloneOK(r)'
  BY <1>1, <1>2, <1>3 DEF AloneOK, Untouched
<1> QED
  BY <1>1, <1>4

LEMMA RmTreeAlone ==
    ASSUME TreeOK, RequestsOK, NEW r \in Threads, AloneOK(r), RmTree(r), Note(r)
    PROVE  AloneOK(r)' /\ EndsRight(r)
<1>1. CASE before[r] = <<>>
  BY <1>1, NotAlone DEF RmTree
<1>2. CASE before[r] # <<>>
  <2> SUFFICES ASSUME NEW p, p = ask[r].path, NEW b, b = before[r], NEW v, v = <<Frame(p, "/")>>
               PROVE  AloneOK(r)' /\ EndsRight(r)
    OBVIOUS
  <2>1. at[r] = "rmtree" /\ View = b /\ Dir(b, p)
    BY <1>2 DEF RmTree, AloneOK, Untouched
  <2>2. /\ IsDir(p) /\ p \in DOMAIN tree /\ DOMAIN b = DOMAIN tree
        /\ \A q \in DOMAIN tree : what[tree[q]] = b[q]
    BY <2>1, Seen DEF IsDir, Has
  <2>3. Goto(r, "sweep", v) /\ UNCHANGED disk
    BY <2>2 DEF RmTree
  <2>4. tree' = tree /\ what' = what
    BY <2>3 DEF disk
  <2>5. Chain(v, p)
    BY <2>2, ChainStart
  <2>6. Chain(v, p)'
    BY <2>3, <2>5, ChainStays
  <2> QED
    BY <1>2, <2>1, <2>2, <2>3, <2>4, <2>6, GoesOnRemoving
<1> QED
  BY <1>1, <1>2

\* An entry of the directory, which has nothing below it, goes.
LEMMA RemovingLess ==
    ASSUME TreeOK, NEW b, NEW p, NEW c \in DOMAIN tree, IsPrefix(p, c), Unlink(c),
           ~IsDir(c) \/ Names(c) = {},
           DOMAIN tree \subseteq DOMAIN b, DOMAIN b \ Under(b, p) \subseteq DOMAIN tree,
           \A q \in DOMAIN tree : what[tree[q]] = b[q]
    PROVE  /\ DOMAIN tree' \subseteq DOMAIN b
           /\ DOMAIN b \ Under(b, p) \subseteq DOMAIN tree'
           /\ \A q \in DOMAIN tree' : what'[tree'[q]] = b[q]
<1>1. /\ DOMAIN tree' = DOMAIN tree \ {c}
      /\ \A q \in DOMAIN tree' : tree'[q] = tree[q] /\ what'[tree'[q]] = what[tree[q]]
  BY UnlinkView
<1>2. c \in Under(b, p)
  BY DEF Under
<1> QED
  BY <1>1, <1>2

\* How far a removal is.
LEMMA RemovingIs ==
    ASSUME RequestsOK, NEW r \in Threads, AloneOK(r), before[r] # <<>>, at[r] = "sweep",
           NEW p, p = ask[r].path, NEW b, b = before[r], NEW w, w = work[r]
    PROVE  /\ p \in Paths /\ Workspace(b) /\ Passed(ask[r], b)
           /\ ask[r].op = "remove" /\ ask[r].recursive /\ p # <<>>
           /\ DOMAIN tree \subseteq DOMAIN b /\ DOMAIN b \ Under(b, p) \subseteq DOMAIN tree
           /\ \A q \in DOMAIN tree : what[tree[q]] = b[q]
           /\ Chain(w, p)
BY AskPaths DEF AloneOK, Removing, RequestsOK, RequestOK

LEMMA SweepAlone ==
    ASSUME TreeOK, RequestsOK, NEW r \in Threads, AloneOK(r), Sweep(r), Note(r)
    PROVE  AloneOK(r)' /\ EndsRight(r)
<1>1. CASE before[r] = <<>>
  BY <1>1, NotAlone DEF Sweep
<1>2. CASE before[r] # <<>>
  <2> SUFFICES ASSUME NEW p, p = ask[r].path, NEW b, b = before[r], NEW w, w = work[r]
               PROVE  AloneOK(r)' /\ EndsRight(r)
    OBVIOUS
  <2>1. at[r] = "sweep"
    BY DEF Sweep
  <2>2. /\ p \in Paths
        /\ DOMAIN tree \subseteq DOMAIN b /\ DOMAIN b \ Under(b, p) \subseteq DOMAIN tree
        /\ \A q \in DOMAIN tree : what[tree[q]] = b[q]
        /\ Chain(w, p)
    BY <1>2, <2>1, RemovingIs
  <2>3. PICK name \in Last(w).left :
            LET top == Last(w)
                rest == Append(Front(w), [top EXCEPT !.left = @ \ {name}])
            IN \/ Child(top, name) = {} /\ SweepFails(r)
               \/ \E c \in Child(top, name) :
                    IF IsDir(c)
                    THEN Goto(r, "sweep", Append(rest, Frame(c, name))) /\ UNCHANGED disk
                    ELSE Goto(r, "sweep", rest) /\ Unlink(c)
    BY DEF Sweep
  <2> DEFINE rest == Append(Front(w), [Last(w) EXCEPT !.left = @ \ {name}])
  <2>4. Child(Last(w), name) # {}
    <3>1. PICK o \in DOMAIN tree : \A n \in Last(w).left : Child(Last(w), n) = {Append(o, n)}
      BY <2>2, ChainTop
    <3> QED
      BY <3>1
  <2>5. PICK c \in Child(Last(w), name) :
            IF IsDir(c)
            THEN Goto(r, "sweep", Append(rest, Frame(c, name))) /\ UNCHANGED disk
            ELSE Goto(r, "sweep", rest) /\ Unlink(c)
    BY <2>3, <2>4
  <2>6. CASE IsDir(c)
    <3> SUFFICES ASSUME NEW v, v = Append(rest, Frame(c, name))
                 PROVE  AloneOK(r)' /\ EndsRight(r)
      OBVIOUS
    <3>1. Goto(r, "sweep", v) /\ UNCHANGED disk
      BY <2>5, <2>6
    <3>2. tree' = tree /\ what' = what
      BY <3>1 DEF disk
    <3>3. Chain(v, p)
      BY <2>2, <2>6, PushChain
    <3> HIDE DEF rest
    <3>4. Chain(v, p)'
      BY <3>1, <3>3, ChainStays
    <3> QED
      BY <1>2, <2>1, <2>2, <3>1, <3>2, <3>4, GoesOnRemoving
  <2>7. CASE ~IsDir(c)
    <3> SUFFICES ASSUME NEW v, v = rest
                 PROVE  AloneOK(r)' /\ EndsRight(r)
      OBVIOUS
    <3>1. Goto(r, "sweep", v) /\ Unlink(c)
      BY <2>5, <2>7
    <3>2. /\ v \in Seq(Frames) /\ Len(v) = Len(w) /\ v[Len(w)] = [Last(w) EXCEPT !.left = @ \ {name}]
          /\ \A i \in 1..Len(w) - 1 : v[i] = w[i]
      <4>1. w \in Seq(Frames) /\ w # <<>> /\ Last(w) \in Frames
        BY <2>2, Stacked DEF Chain
      <4>2. [Last(w) EXCEPT !.left = @ \ {name}] \in Frames
        BY <4>1 DEF Frames
      <4> QED
        BY <4>1, <4>2, Replaced
    <3> HIDE DEF rest
    <3>3. Chain(v, p)' /\ c \in DOMAIN tree /\ IsPrefix(p, c)
      BY <2>2, <2>7, <3>1, <3>2, UnlinkChain
    <3>4. /\ DOMAIN tree' \subseteq DOMAIN b
          /\ DOMAIN b \ Under(b, p) \subseteq DOMAIN tree'
          /\ \A q \in DOMAIN tree' : what'[tree'[q]] = b[q]
      BY <2>2, <2>7, <3>1, <3>3, RemovingLess
    <3> QED
      BY <1>2, <2>1, <3>1, <3>3, <3>4, GoesOnRemoving
  <2> QED
    BY <2>6, <2>7
<1> QED
  BY <1>1, <1>2

\* The last directory of a removal is the one it was asked for.
LEMMA ChainEnds ==
    ASSUME TreeOK, NEW w, NEW p \in Paths, Chain(w, p), Last(w).left = {}, Front(w) = <<>>
    PROVE  p \in DOMAIN tree /\ IsDir(p) /\ Names(p) = {}
<1>1. PICK o \in DOMAIN tree : Level(w, p, Len(w), o) /\ Names(o) = Last(w).left
  BY ChainTop
<1>2. Len(w) = 1
  BY Stacked DEF Chain
<1> QED
  BY <1>1, <1>2 DEF Level

LEMMA SweepDirAlone ==
    ASSUME TreeOK, RequestsOK, NEW r \in Threads, AloneOK(r), SweepDir(r), Note(r)
    PROVE  AloneOK(r)' /\ EndsRight(r)
<1>1. CASE before[r] = <<>>
  BY <1>1, NotAlone DEF SweepDir
<1>2. CASE before[r] # <<>>
  <2> SUFFICES ASSUME NEW p, p = ask[r].path, NEW b, b = before[r], NEW w, w = work[r],
                      NEW v, v = Front(w)
               PROVE  AloneOK(r)' /\ EndsRight(r)
    OBVIOUS
  <2>1. at[r] = "sweep" /\ Last(w).left = {} /\ r # Deleter
    BY FilesystemAssumption DEF SweepDir
  <2>2. /\ p \in Paths /\ Workspace(b) /\ Passed(ask[r], b)
        /\ ask[r].op = "remove" /\ ask[r].recursive
        /\ DOMAIN tree \subseteq DOMAIN b /\ DOMAIN b \ Under(b, p) \subseteq DOMAIN tree
        /\ \A q \in DOMAIN tree : what[tree[q]] = b[q]
        /\ Chain(w, p)
    BY <1>2, <2>1, RemovingIs
  <2> DEFINE empty == {c \in IF v = <<>> THEN {p} ELSE Child(Last(v), Last(w).name) :
                          IsDir(c) /\ Names(c) = {}}
  <2>3. \/ empty = {} /\ SweepFails(r)
        \/ \E c \in empty : /\ Unlink(c)
                            /\ IF v = <<>> THEN SweepEnds(r) ELSE Goto(r, "sweep", v)
    BY DEF SweepDir
  <2>4. CASE v = <<>>
    <3>1. p \in DOMAIN tree /\ IsDir(p) /\ Names(p) = {}
      BY <2>1, <2>2, <2>4, ChainEnds
    <3>2. Unlink(p) /\ SweepEnds(r)
      BY <2>3, <2>4, <3>1
    <3>3. AloneOK(r)' /\ answer'[r] = <<"ok", NoWork>>
      BY <2>1, <2>2, <3>2, AnswerAlone DEF SweepEnds
    <3>4. View' = Without(b, p)
      BY <2>2, <3>1, <3>2, RemovedView DEF Workspace
    <3>5. MaySucceed(ask[r], b)
      BY <2>2 DEF MaySucceed, Passed
    <3> QED
      BY <2>2, <3>3, <3>4, <3>5 DEF EndsRight, Tells, Effect
  <2>5. CASE v # <<>>
    <3>1. empty # {}
      <4>1. PICK o \in DOMAIN tree :
                /\ Child(Last(Front(w)), Last(w).name) = {Append(o, Last(w).name)}
                /\ IsDir(Append(o, Last(w).name)) /\ Names(Append(o, Last(w).name)) = {}
        BY <2>1, <2>2, <2>5, ChainPop
      <4> QED
        BY <2>5, <4>1
    <3>2. PICK c \in empty : Unlink(c) /\ Goto(r, "sweep", v)
      BY <2>3, <2>5, <3>1
    <3>3. c \in Child(Last(Front(w)), Last(w).name) /\ Names(c) = {} /\ Front(w) # <<>>
      BY <2>5
    <3> HIDE DEF empty
    <3>4. Chain(v, p)' /\ c \in DOMAIN tree /\ IsPrefix(p, c)
      BY <2>1, <2>2, <3>2, <3>3, PopChain
    <3>5. /\ DOMAIN tree' \subseteq DOMAIN b
          /\ DOMAIN b \ Under(b, p) \subseteq DOMAIN tree'
          /\ \A q \in DOMAIN tree' : what'[tree'[q]] = b[q]
      BY <2>2, <3>2, <3>3, <3>4, RemovingLess
    <3> QED
      BY <1>2, <2>1, <3>2, <3>4, <3>5, GoesOnRemoving
  <2> QED
    BY <2>4, <2>5
<1> QED
  BY <1>1, <1>2

-----------------------------------------------------------------------------
(* move, and the look with which a change ends. *)

\* What is moved is where it was to go.
LEMMA MovedSelf ==
    ASSUME NEW s \in Paths, NEW d \in Paths
    PROVE  Moved(s, s, d) = d
<1>1. /\ Moved(s, s, d) \in Paths /\ IsPrefix(d, Moved(s, s, d))
      /\ Len(Moved(s, s, d)) = Len(d) + Len(s) - Len(s)
  BY PrefixOrder, MovedDef
<1>2. Len(s) \in Nat /\ Len(d) \in Nat
  BY LenProperties DEF Paths
<1>3. Len(Moved(s, s, d)) = Len(d)
  BY <1>1, <1>2
<1>4. \A i \in 1..Len(d) : Moved(s, s, d)[i] = d[i]
  BY <1>1, <1>2, <1>3, PrefixDef
<1> QED
  BY <1>1, <1>3, <1>4, SeqEqual DEF Paths

\* rename, as the reference sees it.
LEMMA MoveView ==
    ASSUME TreeOK, NEW c, View = c, NEW s \in Paths, NEW d \in Paths,
           s \in DOMAIN c, d \notin DOMAIN c, ~IsPrefix(s, d), Rename(s, d)
    PROVE  View' = WithMoved(c, s, d)
<1> DEFINE moves == {q \in DOMAIN tree : IsPrefix(s, q)}
           dom == (DOMAIN tree \ moves) \cup {Moved(q, s, d) : q \in moves}
           new == WithMoved(c, s, d)
<1>1. /\ DOMAIN c = DOMAIN tree /\ DOMAIN c \subseteq Paths
      /\ \A q \in DOMAIN c : c[q] = what[tree[q]]
      /\ \A q \in DOMAIN c : \A o \in Ancestors(q) : o \in DOMAIN c
      /\ Subtree(s) = moves /\ Under(c, s) = moves
  BY Seen DEF Subtree, Dir
<1>2. /\ DOMAIN tree' = dom
      /\ \A q \in dom : tree'[q] = IF IsPrefix(d, q) THEN tree[Moved(q, d, s)] ELSE tree[q]
      /\ \A n \in Nodes : what'[n] = what[n]
  <2>1. ~Has(d)
    BY <1>1 DEF Has
  <2> QED
    BY <1>1, <2>1 DEF Rename
<1>3. /\ DOMAIN new = dom /\ new = [q \in DOMAIN new |-> new[q]]
      /\ \A q \in dom : new[q] = IF IsPrefix(d, q) THEN c[Moved(q, d, s)] ELSE c[q]
  <2>1. DOMAIN Without(c, s) \cup {Moved(q, s, d) : q \in Under(c, s)} = dom
    BY <1>1 DEF Without, Restrict
  <2> HIDE DEF dom
  <2>2. new = [q \in dom |-> IF IsPrefix(d, q) THEN c[Moved(q, d, s)] ELSE c[q]]
    BY <2>1 DEF WithMoved
  <2> QED
    BY <2>2
<1> HIDE DEF new
\* Where each entry came from.
<1>4. ASSUME NEW q \in dom
      PROVE  IF IsPrefix(d, q) THEN Moved(q, d, s) \in DOMAIN tree ELSE q \in DOMAIN tree
  <2>1. CASE q \in DOMAIN tree \ moves
    <3>1. ~IsPrefix(d, q)
      <4>1. d # q => (IsPrefix(d, q) => d \in Ancestors(q))
        BY <1>1, <2>1, AncestorsDef DEF Above
      <4> QED
        BY <1>1, <2>1, <4>1
    <3> QED
      BY <2>1, <3>1
  <2>2. CASE q \in {Moved(o, s, d) : o \in moves}
    <3>1. PICK o \in moves : q = Moved(o, s, d)
      BY <2>2
    <3>2. o \in Paths /\ IsPrefix(s, o)
      BY <1>1
    <3>3. IsPrefix(d, q) /\ Moved(q, d, s) = o
      BY <3>1, <3>2, MovedDef
    <3> QED
      BY <3>3
  <2> QED
    BY <2>1, <2>2
<1> HIDE DEF dom
<1>5. ASSUME NEW q \in dom
      PROVE  what'[tree'[q]] = new[q]
  <2>1. \A o \in DOMAIN tree : tree[o] \in Nodes
    BY DEF TreeOK
  <2>2. CASE IsPrefix(d, q)
    <3>1. Moved(q, d, s) \in DOMAIN tree /\ tree'[q] = tree[Moved(q, d, s)] /\ new[q] = c[Moved(q, d, s)]
      BY <1>2, <1>3, <1>4, <2>2
    <3> QED
      BY <1>1, <1>2, <2>1, <3>1
  <2>3. CASE ~IsPrefix(d, q)
    <3>1. q \in DOMAIN tree /\ tree'[q] = tree[q] /\ new[q] = c[q]
      BY <1>2, <1>3, <1>4, <2>3
    <3> QED
      BY <1>1, <1>2, <2>1, <3>1
  <2> QED
    BY <2>2, <2>3
<1>6. View' = new
  <2>1. DOMAIN new = DOMAIN tree' /\ \A q \in DOMAIN tree' : what'[tree'[q]] = new[q]
    BY <1>2, <1>3, <1>5
  <2> QED
    BY <1>3, <2>1, ViewNextIs
<1> QED
  BY <1>6 DEF new

LEMMA MoveAlone ==
    ASSUME TreeOK, RequestsOK, NEW r \in Threads, AloneOK(r), Move(r), Note(r)
    PROVE  AloneOK(r)' /\ EndsRight(r)
<1>1. CASE before[r] = <<>>
  BY <1>1, NotAlone DEF Move
<1>2. CASE before[r] # <<>>
  <2> SUFFICES ASSUME NEW q, q = ask[r], NEW b, b = before[r], NEW s, s = q.path, NEW d, d = q.dest,
                      NEW c, c = WithDirs(b, d)
               PROVE  AloneOK(r)' /\ EndsRight(r)
    OBVIOUS
  <2>1. at[r] = "rename" /\ q \in Asks /\ q.op = "move"
    BY DEF Move, RequestsOK, RequestOK
  <2>2. s \in Paths /\ d \in Paths
    BY <2>1, AskPaths
  <2>3. /\ Workspace(b) /\ Passed(q, b) /\ Room(b, d) /\ View = c
        /\ Free(b, s) /\ s \in DOMAIN b /\ s # <<>> /\ Free(b, d) /\ d \notin DOMAIN b
    BY <1>2, <2>1 DEF AloneOK, Subject, Passed
  <2>4. d \notin DOMAIN c /\ s \in DOMAIN c /\ \A o \in Ancestors(d) : Dir(c, o)
    <3>1. s \in DOMAIN c
      BY <2>3 DEF WithDirs
    <3>2. d \notin DOMAIN c /\ \A o \in Ancestors(d) : Dir(c, o)
      BY <2>2, <2>3, WithDirsRoom
    <3> QED
      BY <3>1, <3>2
  <2>5. ~Has(d) /\ ~IsDir(d) /\ Has(s) /\ Missing(d) = {} /\ ~Blocked(d)
    <3>1. /\ Has(s) /\ ~Has(d) /\ ~IsDir(d)
          /\ Missing(d) = Ancestors(d) \ DOMAIN c /\ (Blocked(d) <=> ~Room(c, d))
      BY <2>3, <2>4, Seen DEF Dir
    <3> QED
      BY <2>4, <3>1 DEF Room, Dir
  <2>6. Target(q) = d /\ (Renames(s, d) <=> ~IsPrefix(s, d)) /\ ~Copies(s, d)
    BY <2>5 DEF Target, Renames, Copies
  <2>7. \/ ~IsPrefix(s, d) /\ Rename(s, d) /\ Goto(r, "stat", NoWork)
        \/ IsPrefix(s, d) /\ Says(r, "conflict")
    BY <2>5, <2>6 DEF Move
  <2>8. CASE ~IsPrefix(s, d) /\ Rename(s, d) /\ Goto(r, "stat", NoWork)
    <3>1. View' = WithMoved(c, s, d)
      BY <2>2, <2>3, <2>4, <2>8, MoveView
    <3>2. MaySucceed(q, b) /\ Effect(q, b, r) = WithMoved(c, s, d)
      BY <2>1, <2>3, <2>8 DEF MaySucceed, Effect
    <3>3. at'[r] = "stat" /\ ask' = ask /\ before'[r] = before[r] /\ EndsRight(r)
      BY <2>1, <2>8, GotoAlone
    <3>4. AloneOK(r)'
      BY <2>3, <3>1, <3>2, <3>3 DEF AloneOK, Untouched
    <3> QED
      BY <3>3, <3>4
  <2>9. CASE IsPrefix(s, d) /\ Says(r, "conflict")
    <3>1. AloneOK(r)' /\ answer'[r] = <<"conflict", NoWork>> /\ View' = c
      BY <2>3, <2>9, AnswerAlone, ViewStays DEF Says
    <3>2. ~MaySucceed(q, b)
      BY <2>1, <2>9 DEF MaySucceed
    <3>3. Dir(b, s)
      <4>1. s \in Ancestors(d)
        BY <2>2, <2>3, <2>9, AncestorsDef DEF Above
      <4> QED
        BY <2>3, <4>1 DEF Room
    <3> QED
      BY <2>1, <2>3, <2>9, <3>1, <3>2, <3>3 DEF EndsRight
  <2> QED
    BY <2>7, <2>8, <2>9
<1> QED
  BY <1>1, <1>2

\* What is made in directories is reachable.
LEMMA WithFree ==
    ASSUME NEW b, NEW p \in Paths, Room(b, p), ".." \notin Range(p), NEW v, v # "escape"
    PROVE  /\ Free(With(WithDirs(b, p), p, v), p) /\ p \in DOMAIN With(WithDirs(b, p), p, v)
           /\ With(WithDirs(b, p), p, v)[p] = v
<1> DEFINE e == With(WithDirs(b, p), p, v)
<1>1. e[p] = v /\ p \in DOMAIN e /\ \A q \in DOMAIN WithDirs(b, p) : q # p => e[q] = WithDirs(b, p)[q]
  BY DEF With
<1>2. \A q \in Ancestors(p) : q # p /\ q \in DOMAIN WithDirs(b, p) /\ WithDirs(b, p)[q] = "dir"
  BY WithDirsRoom DEF Dir
<1>3. \A q \in Prefixes(p) : q = p \/ q \in Ancestors(p)
  BY DEF Ancestors
<1>4. \A q \in Prefixes(p) : e[q] # "escape"
  BY <1>1, <1>2, <1>3
<1> HIDE DEF e
<1>5. Free(e, p)
  BY <1>4 DEF Free
<1> QED
  BY <1>1, <1>5 DEF e

\* What a move has made.
LEMMA MovedFree ==
    ASSUME NEW b, NEW s \in Paths, NEW d \in Paths, Free(b, s), s \in DOMAIN b, Room(b, d), Free(b, d),
           d \notin DOMAIN b, DOMAIN b \subseteq Paths, NEW e, e = WithMoved(WithDirs(b, d), s, d)
    PROVE  Free(e, d) /\ d \in DOMAIN e /\ e[d] = b[s]
<1> DEFINE c == WithDirs(b, d)
<1>1. /\ s \in DOMAIN c /\ c[s] = b[s] /\ DOMAIN c = DOMAIN b \cup Ancestors(d)
  BY DEF WithDirs
<1>2. /\ d \notin Ancestors(d) /\ \A q \in Ancestors(d) : Dir(c, q)
  BY WithDirsRoom
<1> HIDE DEF c
<1>3. e = WithMoved(c, s, d)
  BY DEF c
<1>4. Moved(s, s, d) = d /\ Moved(d, d, s) = s
  BY MovedSelf
<1>5. s \in Under(c, s) /\ IsPrefix(d, d)
  BY <1>1, PrefixOrder DEF Under
<1>6. d \in DOMAIN e
  BY <1>3, <1>4, <1>5 DEF WithMoved
<1>7. \A q \in DOMAIN e : e[q] = IF IsPrefix(d, q) THEN c[Moved(q, d, s)] ELSE c[q]
  BY <1>3 DEF WithMoved
<1>8. e[d] = b[s]
  BY <1>1, <1>4, <1>5, <1>6, <1>7
<1>9. b[s] # "escape"
  BY FreeHere
<1>10. ASSUME NEW q \in Prefixes(d) \cap DOMAIN e
       PROVE  e[q] # "escape"
  <2>1. CASE q = d
    BY <1>8, <1>9, <2>1
  <2>2. CASE q # d
    <3>1. q \in Ancestors(d)
      BY <2>2 DEF Ancestors
    <3>2. ~IsPrefix(d, q)
      BY <2>2, <3>1, AncestorsDef, PrefixOrder DEF Above
    <3> QED
      BY <1>2, <1>7, <3>1, <3>2 DEF Dir
  <2> QED
    BY <2>1, <2>2
<1>11. Free(e, d)
  BY <1>10 DEF Free
<1> QED
  BY <1>6, <1>8, <1>11

LEMMA StatAlone ==
    ASSUME TreeOK, RequestsOK, NEW r \in Threads, AloneOK(r), Stat(r), Note(r)
    PROVE  AloneOK(r)' /\ EndsRight(r)
<1>1. CASE before[r] = <<>>
  BY <1>1, NotAlone DEF Stat
<1>2. CASE before[r] # <<>>
  <2> SUFFICES ASSUME NEW q, q = ask[r], NEW b, b = before[r], NEW e, e = Effect(q, b, r)
               PROVE  AloneOK(r)' /\ EndsRight(r)
    OBVIOUS
  <2>1. /\ at[r] = "stat" /\ q \in Asks /\ q.op \in {"stat", "write", "mkdir", "move"}
        /\ UNCHANGED disk
    BY DEF Stat, RequestsOK, RequestOK
  <2>2. MaySucceed(q, b) /\ View = e /\ Workspace(b)
    BY <1>2, <2>1 DEF AloneOK
  <2>3. q.path \in Paths /\ (q.op = "move" => q.dest \in Paths)
    BY <2>1, AskPaths
  <2>4. /\ Free(e, Subject(q)) /\ Subject(q) \in DOMAIN e
        /\ TypeIn(e, Subject(q)) = Tells(q, b)
    <3>1. CASE q.op = "stat"
      BY <2>2, <3>1 DEF MaySucceed, Effect, Tells, Subject
    <3>2. CASE q.op = "write"
      <4>1. e = With(WithDirs(b, q.path), q.path, r) /\ Room(b, q.path) /\ ".." \notin Range(q.path)
        BY <2>2, <3>2 DEF MaySucceed, Effect, Free
      <4>2. r # "escape" /\ r # "dir"
        BY FilesystemAssumption
      <4>3. Free(e, q.path) /\ q.path \in DOMAIN e /\ e[q.path] = r
        BY <2>3, <4>1, <4>2, WithFree
      <4> QED
        BY <3>2, <4>2, <4>3 DEF Tells, Subject, TypeIn, Dir
    <3>3. CASE q.op = "mkdir"
      <4>1. e = With(WithDirs(b, q.path), q.path, "dir") /\ Room(b, q.path) /\ ".." \notin Range(q.path)
        BY <2>2, <3>3 DEF MaySucceed, Effect, Free
      <4>2. Free(e, q.path) /\ q.path \in DOMAIN e /\ e[q.path] = "dir"
        BY <2>3, <4>1, WithFree
      <4> QED
        BY <3>3, <4>2 DEF Tells, Subject, TypeIn, Dir
    <3>4. CASE q.op = "move"
      <4>1. /\ e = WithMoved(WithDirs(b, q.dest), q.path, q.dest)
            /\ Free(b, q.path) /\ q.path \in DOMAIN b /\ Room(b, q.dest) /\ Free(b, q.dest)
            /\ q.dest \notin DOMAIN b /\ DOMAIN b \subseteq Paths
        BY <2>2, <3>4 DEF MaySucceed, Effect, Workspace
      <4>2. Free(e, q.dest) /\ q.dest \in DOMAIN e /\ e[q.dest] = b[q.path]
        BY <2>3, <3>4, <4>1, MovedFree
      <4> QED
        BY <3>4, <4>1, <4>2 DEF Tells, Subject, TypeIn, Dir
    <3> QED
      BY <2>1, <3>1, <3>2, <3>3, <3>4
  <2>5. Existing(Subject(q)) = "ok" /\ Kind(Subject(q)) = TypeIn(e, Subject(q))
    BY <2>2, <2>4, Seen DEF Existing, Kind, TypeIn
  <2>6. Answer(r, "ok", Tells(q, b))
    BY <2>4, <2>5 DEF Stat
  <2>7. AloneOK(r)' /\ answer'[r] = <<"ok", Tells(q, b)>> /\ View' = e
    BY <2>1, <2>2, <2>6, AnswerAlone, ViewStays
  <2> QED
    BY <2>2, <2>7 DEF EndsRight
<1> QED
  BY <1>1, <1>2

-----------------------------------------------------------------------------
(* The steps together. *)

LEMMA StepAlone ==
    ASSUME TreeOK, TreeOK', RequestsOK, NEW r \in Threads, AloneOK(r),
           Serve(r) \/ RemoveTree(r), Note(r)
    PROVE  AloneOK(r)' /\ EndsRight(r)
<1>1. CASE at[r] = "new"
  <2>1. before[r] = <<>>
    BY <1>1 DEF AloneOK
  <2> QED
    BY <1>1, <2>1, NotAlone
<1>2. CASE at[r] # "new"
  <2>1. ~(\E q \in Asks : Admit(r, q)) /\ ~Decline(r)
    BY <1>2 DEF Admit, Decline
  <2>2. CASE Serve(r)
    <3>1. \/ Open(r) \/ Look(r)
          \/ ReadBytes(r) \/ Stat(r) \/ IterDir(r) \/ Entry(r) \/ ListEnds(r)
          \/ Parents(r) \/ OpenFile(r) \/ Fill(r) \/ MakeDir(r) \/ Move(r)
          \/ RemoveFile(r) \/ RemoveDir(r)
      BY <2>1, <2>2 DEF Serve
    <3>2. CASE Open(r) \/ Look(r)
      BY <3>2, OpenAlone, LookAlone
    <3>3. CASE ReadBytes(r) \/ Stat(r) \/ IterDir(r) \/ Entry(r) \/ ListEnds(r)
      BY <3>3, ReadAlone, StatAlone, IterDirAlone, EntryAlone, ListEndsAlone
    <3>4. CASE Parents(r) \/ OpenFile(r) \/ Fill(r) \/ MakeDir(r) \/ Move(r)
      BY <3>4, ParentsAlone, OpenFileAlone, FillAlone, MakeDirAlone, MoveAlone
    <3>5. CASE RemoveFile(r) \/ RemoveDir(r)
      BY <3>5, RemoveFileAlone, RemoveDirAlone
    <3> QED
      BY <3>1, <3>2, <3>3, <3>4, <3>5
  <2>3. CASE RemoveTree(r)
    BY <2>3, RmTreeAlone, SweepAlone, SweepDirAlone DEF RemoveTree
  <2> QED
    BY <2>2, <2>3
<1> QED
  BY <1>1, <1>2

\* A request that nobody else has changed the tree of is as far as it was.
LEMMA StaysAlone ==
    ASSUME NEW r \in Threads, AloneOK(r), UNCHANGED disk, before'[r] = before[r],
           at'[r] = at[r], work'[r] = work[r], ask'[r] = ask[r]
    PROVE  AloneOK(r)'
<1>1. View' = View /\ tree' = tree /\ what' = what
  BY ViewStays DEF disk
<1>2. Listing(r) => Listing(r)'
  BY DEF Listing
<1>3. Removing(r) => Removing(r)'
  <2> SUFFICES ASSUME Removing(r), NEW w, w = work[r], NEW p, p = ask[r].path, NEW b, b = before[r]
               PROVE  Removing(r)'
    OBVIOUS
  <2>1. /\ DOMAIN tree \subseteq DOMAIN b /\ DOMAIN b \ Under(b, p) \subseteq DOMAIN tree
        /\ \A q \in DOMAIN tree : what[tree[q]] = b[q]
        /\ Chain(w, p)
    BY DEF Removing
  <2>2. Chain(w, p)'
    BY <2>1, ChainStays
  <2> QED
    BY <1>1, <2>1, <2>2, RemovingNext
<1> QED
  BY <1>1, <1>2, <1>3 DEF AloneOK, Has

LEMMA OtherAlone ==
    ASSUME NEW r \in Threads, AloneOK(r), NEW x \in Actors, x # r, Elsewhere(x), Note(x)
    PROVE  AloneOK(r)' /\ at'[r] = at[r]
<1>1. at'[r] = at[r] /\ work'[r] = work[r] /\ ask'[r] = ask[r]
  BY DEF Elsewhere
<1>2. before'[r] = IF disk' = disk THEN before[r] ELSE <<>>
  BY DEF Note
<1>3. CASE disk' = disk
  BY <1>1, <1>2, <1>3, StaysAlone
<1>4. CASE disk' # disk
  BY <1>1, <1>2, <1>4 DEF AloneOK
<1> QED
  BY <1>1, <1>3, <1>4

LEMMA AloneInit == Init => AllAlone
BY DEF Init, AllAlone, AloneOK

\* And what a step makes of a request is right.
LEMMA AloneStep ==
    ASSUME FsInv, FsInv', AllAlone, Next
    PROVE  /\ AllAlone'
           /\ \A r \in Threads : EndsRight(r)
<1> USE DEF FsInv
<1>1. ASSUME NEW x \in Threads, Serve(x) \/ RemoveTree(x), Note(x), NEW r \in Threads
      PROVE  AloneOK(r)' /\ EndsRight(r)
  <2>1. AloneOK(r) /\ AloneOK(x) /\ x \in Actors
    BY DEF AllAlone, Actors
  <2>2. CASE r = x
    BY <1>1, <2>1, <2>2, StepAlone
  <2>3. CASE r # x
    <3>1. AloneOK(r)' /\ at'[r] = at[r]
      BY <1>1, <2>1, <2>3, RequestStep, OtherAlone
    <3> QED
      BY <3>1 DEF EndsRight
  <2> QED
    BY <2>2, <2>3
<1>2. ASSUME Delete \/ RemoveTree(Deleter), Note(Deleter), NEW r \in Threads
      PROVE  AloneOK(r)' /\ EndsRight(r)
  <2>1. AloneOK(r) /\ Deleter \in Actors /\ Deleter # r
    BY FilesystemAssumption DEF AllAlone, Actors
  <2>2. Elsewhere(Deleter)
    BY <1>2, DeleterStep
  <2>3. AloneOK(r)' /\ at'[r] = at[r]
    BY <1>2, <2>1, <2>2, OtherAlone
  <2> QED
    BY <2>3 DEF EndsRight
<1>3. ASSUME UNCHANGED vars, NEW r \in Threads
      PROVE  AloneOK(r)' /\ EndsRight(r)
  <2>1. AloneOK(r) /\ UNCHANGED disk /\ at' = at /\ work' = work /\ ask' = ask /\ before' = before
    BY <1>3 DEF AllAlone, vars, disk
  <2>2. AloneOK(r)'
    BY <2>1, StaysAlone
  <2> QED
    BY <2>1, <2>2 DEF EndsRight
<1>4. \A r \in Threads : AloneOK(r)' /\ EndsRight(r)
  BY <1>1, <1>2, <1>3 DEF Next, Quiet
<1> QED
  BY <1>4 DEF AllAlone

LEMMA AloneInvariant == Spec => []AllAlone
<1>1. FsInv /\ FsInv' /\ AllAlone /\ [Next]_vars => AllAlone'
  <2> SUFFICES ASSUME FsInv, FsInv', AllAlone, [Next]_vars
               PROVE  AllAlone'
    OBVIOUS
  <2>1. CASE Next
    BY <2>1, AloneStep
  <2>2. CASE UNCHANGED vars
    <3>1. UNCHANGED disk /\ at' = at /\ work' = work /\ ask' = ask /\ before' = before
      BY <2>2 DEF vars, disk
    <3> QED
      BY <3>1, StaysAlone DEF AllAlone
  <2> QED
    BY <2>1, <2>2
<1> QED
  BY <1>1, AloneInit, FilesystemInvariant, PTL DEF Spec

\* A request during which nobody else changes the workspace does what the reference
\* says of it at once, though it is many steps: it succeeds whenever it may, with the
\* answer and the effect the reference has, and is stopped otherwise with nothing
\* changed (but the directories above the destination of a move into itself).
THEOREM RequestsActAlone == Spec => AsAlone
<1>1. FsInv /\ FsInv' /\ AllAlone /\ [Next]_vars => [\A r \in Threads : EndsRight(r)]_vars
  BY AloneStep
<1> QED
  BY <1>1, FilesystemInvariant, AloneInvariant, PTL DEF Spec, AsAlone

=============================================================================
