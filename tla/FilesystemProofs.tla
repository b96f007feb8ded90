-------------------------- MODULE FilesystemProofs --------------------------
(***************************************************************************)
(* Theorems about Filesystem, for any requests, threads and workspaces:    *)
(* the tree stays a tree, a refused request has changed no file, and the   *)
(* workspace follows the sandbox.                                          *)
(***************************************************************************)
EXTENDS Filesystem, SequenceTheorems, TLAPS

-----------------------------------------------------------------------------
(* Paths.  Once these are proved, a path is a point in an order. *)

\* A prefix agrees with the path as far as it goes.
LEMMA PrefixDef ==
    ASSUME NEW p \in Paths, NEW q \in Paths
    PROVE  IsPrefix(p, q) <=> Len(p) <= Len(q) /\ \A i \in 1..Len(p) : p[i] = q[i]
<1>1. /\ Len(p) \in Nat /\ Len(q) \in Nat
      /\ p \in [1..Len(p) -> STRING] /\ q \in [1..Len(q) -> STRING]
  BY LenProperties DEF Paths
<1>2. SubSeq(p, 1, Len(p)) = p
  BY SubSeqFull DEF Paths
<1>3. CASE Len(p) <= Len(q)
  <2>1. \A i \in 1..Len(p) : q[i] \in STRING
    BY <1>1, <1>3
  <2>2. /\ SubSeq(q, 1, Len(p)) \in Paths
        /\ Len(SubSeq(q, 1, Len(p))) = Len(p)
        /\ \A i \in 1..Len(p) : SubSeq(q, 1, Len(p))[i] = q[i]
    BY <1>1, <2>1, SubSeqProperties DEF Paths
  <2>3. SubSeq(q, 1, Len(p)) = p <=> \A i \in 1..Len(p) : p[i] = q[i]
    BY <1>1, <2>2, SeqEqual DEF Paths
  <2> QED
    BY <1>2, <1>3, <2>3 DEF IsPrefix
<1>4. CASE ~(Len(p) <= Len(q))
  BY <1>4 DEF IsPrefix
<1> QED
  BY <1>3, <1>4

\* Prefixes collects them.
LEMMA PrefixesDef ==
    ASSUME NEW p \in Paths
    PROVE  Prefixes(p) = {q \in Paths : IsPrefix(q, p)}
<1>1. Len(p) \in Nat /\ p \in [1..Len(p) -> STRING]
  BY LenProperties DEF Paths
<1>2. ASSUME NEW l \in 0..Len(p)
      PROVE  SubSeq(p, 1, l) \in Paths /\ IsPrefix(SubSeq(p, 1, l), p)
  <2> DEFINE c == SubSeq(p, 1, l)
  <2>1. \A i \in 1..l : p[i] \in STRING
    BY <1>1
  <2>2. c \in Paths /\ Len(c) = l /\ \A i \in 1..l : c[i] = p[i]
    BY <1>1, <2>1, SubSeqProperties DEF Paths
  <2> HIDE DEF c
  <2>3. IsPrefix(c, p)
    BY <1>1, <2>2, PrefixDef
  <2> QED
    BY <2>2, <2>3 DEF c
<1>3. ASSUME NEW q \in Paths, IsPrefix(q, p)
      PROVE  Len(q) \in 0..Len(p) /\ q = SubSeq(p, 1, Len(q))
  BY <1>1, <1>3, LenProperties, SubSeqFull DEF IsPrefix, Paths
<1> QED
  BY <1>2, <1>3 DEF Prefixes

\* They are ordered, and those of one path linearly.
LEMMA PrefixOrder ==
    ASSUME NEW p \in Paths
    PROVE  /\ <<>> \in Paths /\ IsPrefix(<<>>, p) /\ IsPrefix(p, p)
           /\ IsPrefix(p, <<>>) => p = <<>>
           /\ \A q \in Paths :
               /\ IsPrefix(p, q) /\ IsPrefix(q, p) => p = q
               /\ \A o \in Paths :
                   /\ IsPrefix(p, q) /\ IsPrefix(q, o) => IsPrefix(p, o)
                   /\ IsPrefix(p, o) /\ IsPrefix(q, o) => IsPrefix(p, q) \/ IsPrefix(q, p)
<1>0. <<>> \in Paths /\ Len(<<>>) = 0
  BY DEF Paths
<1>1. \A q \in Paths : Len(q) \in Nat
  BY LenProperties DEF Paths
<1>2. \A q \in Paths : Len(p) = Len(q) /\ (\A i \in 1..Len(p) : p[i] = q[i]) => p = q
  BY SeqEqual DEF Paths
<1>3. ASSUME NEW q \in Paths
      PROVE  /\ IsPrefix(p, q) /\ IsPrefix(q, p) => p = q
             /\ \A o \in Paths :
                   /\ IsPrefix(p, q) /\ IsPrefix(q, o) => IsPrefix(p, o)
                   /\ IsPrefix(p, o) /\ IsPrefix(q, o) => IsPrefix(p, q) \/ IsPrefix(q, p)
  <2>1. IsPrefix(p, q) /\ IsPrefix(q, p) => p = q
    BY <1>1, <1>2, PrefixDef
  <2>2. ASSUME NEW o \in Paths, IsPrefix(p, q), IsPrefix(q, o)
        PROVE  IsPrefix(p, o)
    BY <1>1, <2>2, PrefixDef
  <2>3. ASSUME NEW o \in Paths, IsPrefix(p, o), IsPrefix(q, o)
        PROVE  IsPrefix(p, q) \/ IsPrefix(q, p)
    BY <1>1, <2>3, PrefixDef
  <2> QED
    BY <2>1, <2>2, <2>3
<1>4. IsPrefix(<<>>, p) /\ IsPrefix(p, p)
  BY <1>0, <1>1, PrefixDef
<1> QED
  BY <1>0, <1>3, <1>4

\* A proper extension goes through an entry of the directory.
LEMMA StepDown ==
    ASSUME NEW p \in Paths, NEW q \in Paths, IsPrefix(p, q), p # q
    PROVE  \E c \in Paths : IsPrefix(p, c) /\ IsPrefix(c, q) /\ Len(c) = Len(p) + 1
<1>1. /\ Len(p) \in Nat /\ Len(q) \in Nat /\ q \in [1..Len(q) -> STRING]
      /\ Len(p) <= Len(q) /\ \A i \in 1..Len(p) : p[i] = q[i]
  BY LenProperties, PrefixDef DEF Paths
<1>2. Len(p) < Len(q)
  BY <1>1, SeqEqual DEF Paths
<1> DEFINE c == SubSeq(q, 1, Len(p) + 1)
<1>3. \A i \in 1..Len(p) + 1 : q[i] \in STRING
  BY <1>1, <1>2
<1>4. /\ c \in Paths
      /\ Len(c) = Len(p) + 1
      /\ \A i \in 1..Len(p) + 1 : c[i] = q[i]
  BY <1>1, <1>3, SubSeqProperties DEF Paths
<1> HIDE DEF c
<1>5. IsPrefix(p, c) /\ IsPrefix(c, q)
  BY <1>1, <1>2, <1>4, PrefixDef
<1> QED
  BY <1>4, <1>5

\* What is below s goes to the same place below d, and back.
LEMMA MovedDef ==
    ASSUME NEW s \in Paths, NEW d \in Paths, NEW p \in Paths, IsPrefix(s, p)
    PROVE  /\ Moved(p, s, d) \in Paths
           /\ IsPrefix(d, Moved(p, s, d))
           /\ Moved(Moved(p, s, d), d, s) = p
           /\ Len(Moved(p, s, d)) = Len(d) + Len(p) - Len(s)
           /\ \A i \in 1..Len(d) + Len(p) - Len(s) :
                 Moved(p, s, d)[i] = IF i <= Len(d) THEN d[i] ELSE p[i - Len(d) + Len(s)]
<1>1. /\ Len(s) \in Nat /\ Len(d) \in Nat /\ Len(p) \in Nat
      /\ Len(s) <= Len(p) /\ \A i \in 1..Len(s) : s[i] = p[i]
  BY LenProperties, PrefixDef DEF Paths
<1>2. ASSUME NEW a \in Paths, NEW b \in Paths, NEW q \in Paths, IsPrefix(a, q)
      PROVE  /\ Moved(q, a, b) \in Paths
             /\ Len(Moved(q, a, b)) = Len(b) + Len(q) - Len(a)
             /\ \A i \in 1..Len(b) + Len(q) - Len(a) :
                   Moved(q, a, b)[i] = IF i <= Len(b) THEN b[i] ELSE q[i - Len(b) + Len(a)]
  <2> DEFINE rest == SubSeq(q, Len(a) + 1, Len(q))
  <2>1. /\ Len(a) \in Nat /\ Len(b) \in Nat /\ Len(q) \in Nat /\ Len(a) <= Len(q)
        /\ q \in [1..Len(q) -> STRING]
    BY <1>2, LenProperties, PrefixDef DEF Paths
  <2>2. \A i \in Len(a) + 1..Len(q) : q[i] \in STRING
    BY <2>1
  <2>3. /\ rest \in Paths
        /\ Len(rest) = IF Len(a) + 1 <= Len(q) THEN Len(q) - (Len(a) + 1) + 1 ELSE 0
        /\ \A i \in 1..Len(q) - (Len(a) + 1) + 1 : rest[i] = q[Len(a) + 1 + i - 1]
    BY <2>1, <2>2, SubSeqProperties DEF Paths
  <2> HIDE DEF rest
  <2>4. Len(rest) = Len(q) - Len(a) /\ \A i \in 1..Len(rest) : rest[i] = q[Len(a) + i]
    <3>1. Len(rest) = Len(q) - Len(a)
      <4>1. CASE Len(a) + 1 <= Len(q)
        <5>1. Len(rest) = Len(q) - (Len(a) + 1) + 1
          BY <2>3, <4>1
        <5> QED
          BY <2>1, <5>1
      <4>2. CASE ~(Len(a) + 1 <= Len(q))
        <5>1. Len(rest) = 0
          BY <2>3, <4>2
        <5> QED
          BY <2>1, <4>2, <5>1
      <4> QED
        BY <4>1, <4>2
    <3>2. ASSUME NEW i \in 1..Len(rest)
          PROVE  rest[i] = q[Len(a) + i]
      <4>1. i \in 1..Len(q) - (Len(a) + 1) + 1 /\ Len(a) + 1 + i - 1 = Len(a) + i
        BY <2>1, <3>1
      <4> QED
        BY <2>3, <4>1
    <3> QED
      BY <3>1, <3>2
  <2>5. /\ b \o rest \in Paths
        /\ Len(b \o rest) = Len(b) + Len(rest)
        /\ \A i \in 1..Len(b) + Len(rest) :
              (b \o rest)[i] = IF i <= Len(b) THEN b[i] ELSE rest[i - Len(b)]
    BY <2>3, ConcatProperties DEF Paths
  <2>6. ASSUME NEW i \in 1..Len(b) + Len(q) - Len(a)
        PROVE  (b \o rest)[i] = IF i <= Len(b) THEN b[i] ELSE q[i - Len(b) + Len(a)]
    <3>1. CASE i <= Len(b)
      BY <2>1, <2>4, <2>5, <3>1
    <3>2. CASE i > Len(b)
      <4>1. i - Len(b) \in 1..Len(rest)
        BY <2>1, <2>4, <3>2
      <4>2. rest[i - Len(b)] = q[Len(a) + (i - Len(b))]
        BY <2>4, <4>1
      <4>3. Len(a) + (i - Len(b)) = i - Len(b) + Len(a)
        BY <2>1
      <4> QED
        BY <2>1, <2>4, <2>5, <3>2, <4>2, <4>3
    <3>3. i \in Int /\ Len(b) \in Int
      BY <2>1
    <3>4. i <= Len(b) \/ i > Len(b)
      BY <3>3
    <3> QED
      BY <3>1, <3>2, <3>4
  <2>7. Moved(q, a, b) = b \o rest
    BY DEF Moved, rest
  <2> QED
    BY <2>1, <2>4, <2>5, <2>6, <2>7
<1> DEFINE m == Moved(p, s, d)
<1>3. /\ m \in Paths
      /\ Len(m) = Len(d) + Len(p) - Len(s)
      /\ \A i \in 1..Len(d) + Len(p) - Len(s) :
            m[i] = IF i <= Len(d) THEN d[i] ELSE p[i - Len(d) + Len(s)]
  BY <1>2
<1> HIDE DEF m
<1>4. IsPrefix(d, m)
  <2>1. Len(d) <= Len(m)
    BY <1>1, <1>3
  <2>2. \A i \in 1..Len(d) : d[i] = m[i]
    BY <1>1, <1>3
  <2> QED
    BY <1>3, <2>1, <2>2, PrefixDef
<1>5. /\ Moved(m, d, s) \in Paths
      /\ Len(Moved(m, d, s)) = Len(s) + Len(m) - Len(d)
      /\ \A i \in 1..Len(s) + Len(m) - Len(d) :
            Moved(m, d, s)[i] = IF i <= Len(s) THEN s[i] ELSE m[i - Len(s) + Len(d)]
  BY <1>2, <1>3, <1>4
<1>6. Len(Moved(m, d, s)) = Len(p)
  BY <1>1, <1>3, <1>5
<1>7. ASSUME NEW i \in 1..Len(p)
      PROVE  Moved(m, d, s)[i] = p[i]
  <2>1. Moved(m, d, s)[i] = IF i <= Len(s) THEN s[i] ELSE m[i - Len(s) + Len(d)]
    BY <1>1, <1>3, <1>5
  <2>2. CASE i <= Len(s)
    BY <1>1, <2>1, <2>2
  <2>3. CASE i > Len(s)
    <3>1. /\ i - Len(s) + Len(d) \in 1..Len(d) + Len(p) - Len(s)
          /\ i - Len(s) + Len(d) > Len(d)
          /\ (i - Len(s) + Len(d)) - Len(d) + Len(s) = i
      BY <1>1, <2>3
    <3>2. m[i - Len(s) + Len(d)] = p[i]
      <4> DEFINE j == i - Len(s) + Len(d)
      <4>1. j \in 1..Len(d) + Len(p) - Len(s) /\ ~(j <= Len(d)) /\ j - Len(d) + Len(s) = i
        BY <1>1, <3>1
      <4> HIDE DEF j
      <4>2. m[j] = p[i]
        BY <1>3, <4>1
      <4> QED
        BY <4>2 DEF j
    <3> QED
      BY <1>1, <2>1, <2>3, <3>2
  <2> QED
    BY <1>1, <2>2, <2>3
<1>8. Moved(m, d, s) = p
  BY <1>5, <1>6, <1>7, SeqEqual DEF Paths
<1> QED
  BY <1>3, <1>4, <1>8 DEF m

\* Moving keeps the order, in both directions.
LEMMA MovedOrder ==
    ASSUME NEW s \in Paths, NEW d \in Paths,
           NEW p \in Paths, NEW q \in Paths, IsPrefix(s, p), IsPrefix(s, q)
    PROVE  /\ IsPrefix(Moved(q, s, d), Moved(p, s, d)) <=> IsPrefix(q, p)
           /\ Moved(q, s, d) = Moved(p, s, d) => q = p
<1>1. /\ Len(s) \in Nat /\ Len(d) \in Nat /\ Len(p) \in Nat /\ Len(q) \in Nat
      /\ Len(s) <= Len(p) /\ Len(s) <= Len(q)
      /\ \A i \in 1..Len(s) : s[i] = p[i] /\ s[i] = q[i]
  BY LenProperties, PrefixDef DEF Paths
<1>2. ASSUME NEW a \in Paths, NEW b \in Paths, NEW o \in Paths, NEW r \in Paths,
             IsPrefix(a, o), IsPrefix(a, r), IsPrefix(o, r)
      PROVE  IsPrefix(Moved(o, a, b), Moved(r, a, b))
  <2>1. /\ Len(a) \in Nat /\ Len(b) \in Nat /\ Len(o) \in Nat /\ Len(r) \in Nat
        /\ Len(a) <= Len(o) /\ Len(o) <= Len(r) /\ \A i \in 1..Len(o) : o[i] = r[i]
    BY <1>2, LenProperties, PrefixDef DEF Paths
  <2>2. /\ Moved(o, a, b) \in Paths
        /\ Len(Moved(o, a, b)) = Len(b) + Len(o) - Len(a)
        /\ \A i \in 1..Len(b) + Len(o) - Len(a) :
              Moved(o, a, b)[i] = IF i <= Len(b) THEN b[i] ELSE o[i - Len(b) + Len(a)]
    BY <1>2, MovedDef
  <2>3. /\ Moved(r, a, b) \in Paths
        /\ Len(Moved(r, a, b)) = Len(b) + Len(r) - Len(a)
        /\ \A i \in 1..Len(b) + Len(r) - Len(a) :
              Moved(r, a, b)[i] = IF i <= Len(b) THEN b[i] ELSE r[i - Len(b) + Len(a)]
    BY <1>2, MovedDef
  <2>4. Len(Moved(o, a, b)) <= Len(Moved(r, a, b))
    BY <2>1, <2>2, <2>3
  <2>5. ASSUME NEW i \in 1..Len(Moved(o, a, b))
        PROVE  Moved(o, a, b)[i] = Moved(r, a, b)[i]
    <3>1. i \in 1..Len(b) + Len(o) - Len(a) /\ i \in 1..Len(b) + Len(r) - Len(a)
      BY <2>1, <2>2
    <3>2. CASE i <= Len(b)
      BY <2>2, <2>3, <3>1, <3>2
    <3>3. CASE i > Len(b)
      <4>1. i - Len(b) + Len(a) \in 1..Len(o)
        BY <2>1, <3>1, <3>3
      <4> QED
        BY <2>1, <2>2, <2>3, <3>1, <3>3, <4>1
    <3> QED
      BY <2>1, <3>2, <3>3
  <2> QED
    BY <2>2, <2>3, <2>4, <2>5, PrefixDef
<1>3. /\ Moved(p, s, d) \in Paths /\ IsPrefix(d, Moved(p, s, d))
      /\ Moved(Moved(p, s, d), d, s) = p
      /\ Moved(q, s, d) \in Paths /\ IsPrefix(d, Moved(q, s, d))
      /\ Moved(Moved(q, s, d), d, s) = q
  BY MovedDef
<1>4. ASSUME IsPrefix(Moved(q, s, d), Moved(p, s, d))
      PROVE  IsPrefix(q, p)
  <2>1. IsPrefix(Moved(Moved(q, s, d), d, s), Moved(Moved(p, s, d), d, s))
    BY <1>2, <1>3, <1>4
  <2> QED
    BY <1>3, <2>1
<1>5. IsPrefix(q, p) => IsPrefix(Moved(q, s, d), Moved(p, s, d))
  BY <1>2
<1> QED
  BY <1>3, <1>4, <1>5


-----------------------------------------------------------------------------
(* The inductive invariant. *)

Live(n) == what[n] \notin {"free", "gone"}
Above(q, p) == IsPrefix(q, p) /\ q # p

\* The tree: what is above an entry is a directory, an entry has its own node, and
\* the nodes in use are those of entries.
TreeOK ==
    /\ tree \in [DOMAIN tree -> Nodes] /\ DOMAIN tree \subseteq Paths
    /\ what \in [Nodes -> Contents \cup {"dir", "escape", "free", "gone"}]
    /\ \A p \in DOMAIN tree :
        /\ Live(tree[p])
        /\ \A q \in DOMAIN tree : tree[p] = tree[q] => p = q
        /\ \A q \in Ancestors(p) : IsDir(q)
    /\ \A n \in Nodes : Live(n) => \E p \in DOMAIN tree : tree[p] = n

\* A request is where its kind takes it: none gets to remove or move the root, and
\* a write fills a file.
RequestOK(r) ==
    /\ at[r] \notin {"new", "done"} => ask[r] \in Asks
    /\ at[r] \in {"write", "fill"} => ask[r].op = "write"
    /\ at[r] = "parents" => ask[r].op \in {"write", "move"}
    /\ at[r] = "rename" => ask[r].op = "move"
    /\ at[r] \in {"unlink", "rmdir"} => ask[r].op = "remove" /\ ask[r].path # <<>>
    /\ at[r] \in {"parents", "rename"} /\ ask[r].op = "move" => ask[r].path # <<>>
    /\ at[r] \in {"rmtree", "sweep"} =>
          /\ ask[r].op \in {"remove", "move"} /\ ask[r].path # <<>>
          /\ ask[r].op = "remove" => ask[r].recursive
    /\ at[r] = "stat" => ask[r].op \in {"stat", "write", "mkdir", "move"}
    /\ at[r] = "mkdir" => ask[r].op = "mkdir"
    /\ at[r] = "fill" => work[r] \in Nodes /\ what[work[r]] \notin {"dir", "free"}
    /\ at[r] = "done" => answer[r][1] \in Statuses

RequestsOK ==
    /\ DOMAIN at = Actors /\ DOMAIN work = Actors /\ DOMAIN ask = Actors
    /\ DOMAIN answer = Threads
    /\ \A r \in Threads : RequestOK(r)

\* How far the delete is, and what requests it found.
DeleteOK ==
    /\ sandbox \in {"running", "killing", "gone"} /\ late \in BOOLEAN
    /\ at[Deleter] \in {"new", "rmtree", "sweep", "done"} /\ ask[Deleter].path = <<>>
    /\ sandbox = "killing" <=> at[Deleter] \in {"rmtree", "sweep"}
    /\ sandbox = "gone" => at[Deleter] = "done"
    /\ sandbox # "gone" => IsDir(<<>>)
    /\ sandbox = "gone" /\ Has(<<>>) => late
    /\ sandbox # "running" /\ ~late => \A r \in Threads : at[r] \in {"new", "done"}

\* What a request that has changed files may be, and what it may have answered.
ChangeOK(r) ==
    /\ at[r] # "new"
    /\ \/ ask[r].op = "move"
       \/ ask[r].op = "remove" /\ ask[r].recursive
       \/ ask[r].op = "remove" /\ at[r] = "done" /\ answer[r][1] = "ok"
       \/ ask[r].op = "write" /\ at[r] \in {"fill", "stat"}
       \/ ask[r].op = "write" /\ at[r] = "done" /\ answer[r][1] # "conflict"

ChangesOK ==
    /\ did \subseteq Actors
    /\ \A r \in Threads \cap did : ChangeOK(r)

\* What a removal has open: directories, or what were.
Frames == [dir : Nodes, name : STRING \cup {"/"}, left : SUBSET STRING]
Opened(w) == {w[i].dir : i \in 1..Len(w)}
SweepOK(r) ==
    at[r] = "sweep" =>
        /\ work[r] \in Seq(Frames) /\ work[r] # <<>>
        /\ \A n \in Opened(work[r]) : what[n] \in {"dir", "gone"}

\* What is in the source of a move is somewhere else too.
Copied(r) ==
    \A f \in Files : IsPrefix(ask[r].path, f[1]) =>
        \E g \in Files : ~IsPrefix(ask[r].path, g[1]) /\ g[3] = f[3]

\* The files that the removal of its source could meet are in the source.
Within(r) ==
    \A n \in Opened(work[r]) : \A p \in PathsOf(n) :
        \A f \in Files : IsPrefix(p, f[1]) => IsPrefix(ask[r].path, f[1])

\* What a move has seen, and what it may remove if no one else has changed a file.
MoveOK(r) ==
    /\ seen[r] # {} => /\ ask[r].op = "move"
                      /\ at[r] \in {"parents", "rename", "rmtree", "sweep", "stat"}
    /\ at[r] \in {"parents", "rename"} => \A f \in seen[r] : f[1] # ask[r].dest
    /\ SweepOK(r)
    /\ did \subseteq {r} /\ at[r] \in {"rmtree", "sweep"} /\ ask[r].op = "move" => Copied(r)
    /\ did \subseteq {r} /\ at[r] = "sweep" /\ ask[r].op = "move" => Within(r)

MovesOK == \A r \in Threads : MoveOK(r)

FsInv == TreeOK /\ RequestsOK /\ DeleteOK /\ ChangesOK /\ MovesOK

-----------------------------------------------------------------------------
(* The operations on the tree keep it one. *)

\* The ancestors of a path are its proper prefixes.
LEMMA AncestorsDef ==
    ASSUME NEW p \in Paths
    PROVE  Ancestors(p) = {q \in Paths : Above(q, p)}
BY PrefixesDef DEF Ancestors, Above

\* What a file may hold is no mark.
LEMMA Marks ==
    /\ \A c \in Contents : c \notin {"dir", "escape", "free", "gone"}
    /\ "empty" \in Contents /\ "mixed" \in Contents
    /\ \A r \in Threads : r \in Contents
BY FilesystemAssumption DEF Contents

\* What a step that only makes entries, or fills files, does to the rest.
Grows ==
    /\ \A p \in DOMAIN tree : p \in DOMAIN tree' /\ tree'[p] = tree[p]
    /\ \A p \in DOMAIN tree : what[tree[p]] = "dir" => what'[tree[p]] = "dir"

\* What every step does to the nodes: an open file does not become a directory, nor
\* an open directory a file; and a directory that has moved has no file that was
\* there before and is still there in the same place.
NodesKeep ==
    \A n \in Nodes :
        /\ what[n] \notin {"dir", "free"} => what'[n] \notin {"dir", "free"}
        /\ what[n] \in {"dir", "gone"} =>
              /\ what'[n] \in {"dir", "gone"}
              /\ \A p \in DOMAIN tree' : tree'[p] = n =>
                    \/ p \in DOMAIN tree /\ tree[p] = n
                    \/ \A f \in Files \cap Files' : ~IsPrefix(p, f[1])

\* A file is an entry that is no directory.
LEMMA FilesDef ==
    /\ \A f \in Files : /\ f[1] \in DOMAIN tree /\ what[tree[f[1]]] # "dir"
                        /\ f = <<f[1], tree[f[1]], what[tree[f[1]]]>>
                        /\ f[3] = what[tree[f[1]]]
    /\ \A p \in DOMAIN tree : what[tree[p]] # "dir" =>
          <<p, tree[p], what[tree[p]]>> \in Files
BY DEF Files, FilesIn

LEMMA FilesDefNext ==
    /\ \A f \in Files' : /\ f[1] \in DOMAIN tree' /\ what'[tree'[f[1]]] # "dir"
                         /\ f = <<f[1], tree'[f[1]], what'[tree'[f[1]]]>>
                         /\ f[3] = what'[tree'[f[1]]]
    /\ \A p \in DOMAIN tree' : what'[tree'[p]] # "dir" =>
          <<p, tree'[p], what'[tree'[p]]>> \in Files'
BY DEF Files, FilesIn

\* Make, where the directories above are there or made too.
LEMMA MakeTree ==
    ASSUME TreeOK, NEW kinds, Make(kinds),
           DOMAIN kinds \subseteq Paths, DOMAIN kinds \cap DOMAIN tree = {},
           \A p \in DOMAIN kinds : kinds[p] \in Contents \cup {"dir", "escape"},
           \A p \in DOMAIN kinds : \A q \in Ancestors(p) :
              IsDir(q) \/ (q \in DOMAIN kinds /\ kinds[q] = "dir")
    PROVE  /\ TreeOK' /\ Grows /\ NodesKeep
           /\ DOMAIN tree' = DOMAIN tree \cup DOMAIN kinds
           /\ \A p \in DOMAIN tree : what'[tree[p]] = what[tree[p]]
           /\ \A p \in DOMAIN kinds :
                 tree'[p] \in Nodes /\ what'[tree'[p]] = kinds[p]
<1> DEFINE node == CHOOSE f \in [DOMAIN kinds -> Fresh] : IsInjective(f)
<1>1. /\ node \in [DOMAIN kinds -> Fresh] /\ IsInjective(node)
      /\ tree' = [p \in DOMAIN tree \cup DOMAIN kinds |->
             IF p \in DOMAIN tree THEN tree[p] ELSE node[p]]
      /\ what' = [n \in Nodes |->
             IF n \in Range(node) THEN kinds[CHOOSE p \in DOMAIN kinds : node[p] = n]
                                  ELSE what[n]]
  BY DEF Make, Has
<1> HIDE DEF node
<1>2. /\ DOMAIN tree' = DOMAIN tree \cup DOMAIN kinds
      /\ tree' = [p \in DOMAIN tree' |-> tree'[p]]
      /\ \A p \in DOMAIN tree : tree'[p] = tree[p]
      /\ \A p \in DOMAIN kinds : tree'[p] = node[p]
  BY <1>1
<1>3. \A p \in DOMAIN kinds :
         /\ node[p] \in Nodes /\ what[node[p]] = "free"
         /\ \A q \in DOMAIN kinds : node[p] = node[q] => p = q
  BY <1>1 DEF Fresh, IsInjective
<1>4. \A n \in Nodes : n \in Range(node) <=> \E p \in DOMAIN kinds : node[p] = n
  BY <1>1 DEF Range
<1>5. ASSUME NEW p \in DOMAIN kinds
      PROVE  what'[node[p]] = kinds[p]
  <2>1. (CHOOSE o \in DOMAIN kinds : node[o] = node[p]) = p
    BY <1>3
  <2>2. node[p] \in Nodes /\ node[p] \in Range(node)
    BY <1>3, <1>4
  <2> QED
    BY <1>1, <2>1, <2>2
<1>6. \A n \in Nodes : (\A p \in DOMAIN kinds : node[p] # n) => what'[n] = what[n]
  BY <1>1, <1>4
<1>7. ASSUME NEW p \in DOMAIN tree
      PROVE  tree[p] \in Nodes /\ what[tree[p]] # "free" /\ what'[tree[p]] = what[tree[p]]
  <2>1. tree[p] \in Nodes /\ what[tree[p]] # "free"
    BY DEF TreeOK, Live
  <2> QED
    BY <1>3, <1>6, <2>1
<1>8. what' \in [Nodes -> Contents \cup {"dir", "escape", "free", "gone"}]
  <2>1. \A n \in Nodes : what'[n] \in Contents \cup {"dir", "escape", "free", "gone"}
    BY <1>5, <1>6 DEF TreeOK
  <2> QED
    BY <1>1, <2>1
<1>9. ASSUME NEW p \in DOMAIN tree', NEW q \in DOMAIN tree', tree'[p] = tree'[q]
      PROVE  p = q
  BY <1>2, <1>3, <1>7, <1>9 DEF TreeOK
<1>10. ASSUME NEW p \in DOMAIN tree', NEW q \in Ancestors(p)
       PROVE  IsDir(q)'
  BY <1>2, <1>5, <1>7, <1>10 DEF TreeOK, IsDir, Has
<1>11. ASSUME NEW p \in DOMAIN tree'
       PROVE  tree'[p] \in Nodes /\ Live(tree[p])'
  BY <1>2, <1>3, <1>5, <1>7, Marks DEF TreeOK, Live
<1>12. ASSUME NEW n \in Nodes, Live(n)'
       PROVE  \E p \in DOMAIN tree' : tree'[p] = n
  BY <1>2, <1>6, <1>12 DEF TreeOK, Live
<1>13. Grows /\ NodesKeep
  <2>1. \A n \in Nodes : what[n] # "free" => what'[n] = what[n]
    BY <1>3, <1>6
  <2>2. \A n \in Nodes : what[n] # "free" =>
            \A p \in DOMAIN tree' : tree'[p] = n => p \in DOMAIN tree /\ tree[p] = n
    BY <1>2, <1>3
  <2> QED
    BY <1>2, <1>7, <2>1, <2>2 DEF Grows, NodesKeep
<1>14. TreeOK'
  <2>1. (tree \in [DOMAIN tree -> Nodes] /\ DOMAIN tree \subseteq Paths)'
    BY <1>2, <1>11 DEF TreeOK
  <2> QED
    BY <1>8, <1>9, <1>10, <1>11, <1>12, <2>1 DEF TreeOK, Ancestors
<1> QED
  BY <1>2, <1>3, <1>5, <1>7, <1>13, <1>14

\* Unlink, of what has nothing below it.
LEMMA UnlinkTree ==
    ASSUME TreeOK, NEW p \in DOMAIN tree, Unlink(p),
           \A q \in DOMAIN tree : p \notin Ancestors(q)
    PROVE  /\ TreeOK' /\ NodesKeep
           /\ DOMAIN tree' = DOMAIN tree \ {p}
           /\ \A q \in DOMAIN tree' :
                 tree'[q] = tree[q] /\ what'[tree[q]] = what[tree[q]]
<1>1. /\ DOMAIN tree' = DOMAIN tree \ {p}
      /\ tree' = [q \in DOMAIN tree' |-> tree'[q]]
      /\ \A q \in DOMAIN tree' : tree'[q] = tree[q]
  BY DEF Unlink, Restrict
<1>2. /\ tree[p] \in Nodes
      /\ \A n \in Nodes : what'[n] = IF n = tree[p] THEN "gone" ELSE what[n]
      /\ what' \in [Nodes -> Contents \cup {"dir", "escape", "free", "gone"}]
  BY DEF Unlink, TreeOK
<1>3. \A q \in DOMAIN tree' : tree[q] \in Nodes /\ what'[tree[q]] = what[tree[q]]
  BY <1>1, <1>2 DEF TreeOK
<1>4. ASSUME NEW n \in Nodes, Live(n)'
      PROVE  \E q \in DOMAIN tree' : tree'[q] = n
  BY <1>1, <1>2, <1>4 DEF TreeOK, Live
<1>5. NodesKeep
  BY <1>1, <1>2 DEF NodesKeep
<1>6. \A q \in DOMAIN tree' : Live(tree[q])'
  BY <1>1, <1>3 DEF TreeOK, Live
<1>7. ASSUME NEW q \in DOMAIN tree', NEW o \in Ancestors(q)
      PROVE  IsDir(o)'
  BY <1>1, <1>3, <1>7 DEF TreeOK, IsDir, Has
<1>8. \A q \in DOMAIN tree' : \A o \in DOMAIN tree' : tree'[q] = tree'[o] => q = o
  BY <1>1 DEF TreeOK
<1>9. (tree \in [DOMAIN tree -> Nodes] /\ DOMAIN tree \subseteq Paths)'
  BY <1>1, <1>3 DEF TreeOK
<1>10. TreeOK'
  BY <1>2, <1>4, <1>6, <1>7, <1>8, <1>9 DEF TreeOK, Ancestors
<1> QED
  BY <1>1, <1>3, <1>5, <1>10

\* A file, or an empty directory, has nothing below it.
LEMMA Leaf ==
    ASSUME TreeOK, NEW p \in DOMAIN tree, ~IsDir(p) \/ Names(p) = {}
    PROVE  \A q \in DOMAIN tree : p \notin Ancestors(q)
<1> SUFFICES ASSUME NEW q \in DOMAIN tree, p \in Ancestors(q)
             PROVE  FALSE
  OBVIOUS
<1>1. p \in Paths /\ q \in Paths /\ IsPrefix(p, q) /\ p # q
  BY AncestorsDef DEF TreeOK, Above
<1>2. IsDir(p)
  BY DEF TreeOK
<1>3. PICK c \in Paths : IsPrefix(p, c) /\ IsPrefix(c, q) /\ Len(c) = Len(p) + 1
  BY <1>1, StepDown
<1>4. c \in DOMAIN tree
  <2>1. CASE c = q
    BY <2>1
  <2>2. CASE c # q
    <3>1. c \in Ancestors(q)
      BY <1>1, <1>3, <2>2, AncestorsDef DEF Above
    <3> QED
      BY <3>1 DEF TreeOK, IsDir, Has
  <2> QED
    BY <2>1, <2>2
<1>5. Last(c) \in Names(p)
  BY <1>3, <1>4 DEF Names, Subtree
<1> QED
  BY <1>2, <1>5

\* Rename, to a place in a directory that is not below the source.
LEMMA RenameTree ==
    ASSUME TreeOK, NEW s \in DOMAIN tree, NEW t \in Paths, Rename(s, t),
           s # <<>>, ~IsPrefix(s, t),
           \A q \in Ancestors(t) : IsDir(q),
           t \in DOMAIN tree => ~IsDir(s) /\ ~IsDir(t)
    PROVE  /\ TreeOK' /\ NodesKeep /\ (IsDir(<<>>) => IsDir(<<>>)')
           /\ \A f \in Files : f[1] # t => \E g \in Files' : g[3] = f[3]
<1> DEFINE moves == {p \in DOMAIN tree : IsPrefix(s, p)}
           New == (DOMAIN tree \ moves) \cup {Moved(q, s, t) : q \in moves}
<1>1. /\ DOMAIN tree' = New
      /\ tree' = [p \in DOMAIN tree' |-> tree'[p]]
      /\ \A p \in New : tree'[p] = IF IsPrefix(t, p) THEN tree[Moved(p, t, s)] ELSE tree[p]
      /\ \A n \in Nodes : what'[n] = IF t \in DOMAIN tree /\ n = tree[t] THEN "gone" ELSE what[n]
      /\ what' = [n \in Nodes |-> what'[n]]
  BY DEF Rename, Subtree, Has
<1>2. s \in Paths /\ DOMAIN tree \subseteq Paths /\ <<>> \in Paths
  BY PrefixOrder DEF TreeOK
<1>3. ASSUME NEW p \in DOMAIN tree, IsPrefix(t, p)
      PROVE  p = t
  <2>1. CASE t \in DOMAIN tree
    BY <1>2, <1>3, <2>1, Leaf, AncestorsDef DEF Above
  <2>2. CASE t \notin DOMAIN tree
    <3>1. t \in Ancestors(p)
      BY <1>2, <1>3, <2>2, AncestorsDef DEF Above
    <3> QED
      BY <2>2, <3>1 DEF TreeOK, IsDir, Has
  <2> QED
    BY <2>1, <2>2
<1>0. ASSUME NEW o \in moves
      PROVE  /\ Moved(o, s, t) \in New /\ Moved(o, s, t) \in Paths
             /\ IsPrefix(t, Moved(o, s, t)) /\ Moved(Moved(o, s, t), t, s) = o
             /\ tree'[Moved(o, s, t)] = tree[o]
  <2>1. o \in Paths /\ IsPrefix(s, o) /\ Moved(o, s, t) \in New
    BY <1>2
  <2>2. /\ Moved(o, s, t) \in Paths /\ IsPrefix(t, Moved(o, s, t))
        /\ Moved(Moved(o, s, t), t, s) = o
    BY <1>2, <2>1, MovedDef
  <2>3. tree'[Moved(o, s, t)] = tree[Moved(Moved(o, s, t), t, s)]
    BY <1>1, <2>1, <2>2
  <2> QED
    BY <2>1, <2>2, <2>3
\* What is at a path of the new tree: what was there, or at the moved one.
<1>4. ASSUME NEW p \in New
      PROVE  \/ /\ p \in DOMAIN tree /\ ~IsPrefix(s, p) /\ ~IsPrefix(t, p)
                /\ tree'[p] = tree[p]
             \/ \E o \in moves : /\ p = Moved(o, s, t) /\ o = Moved(p, t, s)
                                 /\ p \in Paths /\ IsPrefix(t, p)
                                 /\ tree'[p] = tree[o]
  <2>1. ASSUME NEW o \in moves, p = Moved(o, s, t)
        PROVE  o = Moved(p, t, s) /\ p \in Paths /\ IsPrefix(t, p) /\ tree'[p] = tree[o]
    BY <1>0, <2>1
  <2>2. CASE p \in DOMAIN tree \ moves /\ ~IsPrefix(t, p)
    BY <1>1, <2>2
  <2>3. CASE p \in DOMAIN tree \ moves /\ IsPrefix(t, p)
    <3>1. p = t
      BY <1>3, <2>3
    <3>2. s \in moves
      BY <1>2, PrefixOrder
    <3>3. Moved(s, s, t) = t
      <4>1. /\ Moved(s, s, t) \in Paths /\ IsPrefix(t, Moved(s, s, t))
            /\ Len(Moved(s, s, t)) = Len(t) + Len(s) - Len(s)
        BY <1>2, PrefixOrder, MovedDef
      <4>2. Len(s) \in Nat /\ Len(t) \in Nat
        BY <1>2, LenProperties DEF Paths
      <4>3. Len(Moved(s, s, t)) = Len(t) /\ \A i \in 1..Len(t) : t[i] = Moved(s, s, t)[i]
        BY <4>1, <4>2, PrefixDef
      <4> QED
        BY <4>1, <4>3, SeqEqual DEF Paths
    <3> QED
      BY <2>1, <3>1, <3>2, <3>3
  <2> QED
    BY <2>1, <2>2, <2>3
<1>5. \A o \in moves : Moved(o, s, t) \in New /\ tree'[Moved(o, s, t)] = tree[o]
  BY <1>0
<1>6. \A p \in DOMAIN tree : ~IsPrefix(s, p) /\ ~IsPrefix(t, p) =>
          p \in New /\ tree'[p] = tree[p]
  BY <1>1
<1> HIDE DEF New
\* The node a file at the destination had is the only one that is lost.
<1>7. ASSUME NEW p \in DOMAIN tree, p # t
      PROVE  tree[p] \in Nodes /\ what'[tree[p]] = what[tree[p]]
  BY <1>1, <1>7 DEF TreeOK
<1>8. t \notin moves
  OBVIOUS
<1>9. ASSUME NEW p \in New
      PROVE  /\ p \in Paths
             /\ \E o \in DOMAIN tree : o # t /\ tree'[p] = tree[o]
  <2>1. CASE p \in DOMAIN tree /\ ~IsPrefix(s, p) /\ ~IsPrefix(t, p) /\ tree'[p] = tree[p]
    BY <1>2, <2>1, PrefixOrder
  <2>2. CASE \E o \in moves : p \in Paths /\ tree'[p] = tree[o]
    BY <1>8, <2>2
  <2> QED
    BY <1>4, <2>1, <2>2
<1>10. (tree \in [DOMAIN tree -> Nodes] /\ DOMAIN tree \subseteq Paths)'
  BY <1>1, <1>7, <1>9
<1>11. what' \in [Nodes -> Contents \cup {"dir", "escape", "free", "gone"}]
  BY <1>1 DEF TreeOK
<1>12. \A p \in New : Live(tree[p])'
  BY <1>7, <1>9 DEF TreeOK, Live
<1>13. ASSUME NEW p \in New, NEW q \in New, tree'[p] = tree'[q]
       PROVE  p = q
  <2>1. \A o \in DOMAIN tree : \A r \in DOMAIN tree : tree[o] = tree[r] => o = r
    BY DEF TreeOK
  <2>2. CASE p \in DOMAIN tree /\ ~IsPrefix(s, p) /\ tree'[p] = tree[p]
    BY ZenonT(60), <1>4, <1>13, <2>1, <2>2
  <2>3. CASE \E o \in moves : p = Moved(o, s, t) /\ tree'[p] = tree[o]
    BY <1>4, <1>13, <2>1, <2>3
  <2> QED
    BY <1>4, <2>2, <2>3
<1>14. ASSUME NEW n \in Nodes, Live(n)'
       PROVE  \E p \in New : tree'[p] = n
  <2>1. Live(n) /\ ~(t \in DOMAIN tree /\ n = tree[t])
    BY <1>1, <1>14 DEF Live
  <2>2. PICK p \in DOMAIN tree : tree[p] = n
    BY <2>1 DEF TreeOK
  <2>3. CASE IsPrefix(s, p)
    BY <1>5, <2>2, <2>3
  <2>4. CASE ~IsPrefix(s, p)
    BY <1>3, <1>6, <2>1, <2>2, <2>4
  <2> QED
    BY <2>3, <2>4
<1>15. ASSUME NEW p \in New, NEW q \in Ancestors(p)
       PROVE  q \in New /\ what'[tree'[q]] = "dir"
  <2>1. p \in Paths /\ q \in Paths /\ IsPrefix(q, p) /\ q # p
    BY <1>9, AncestorsDef DEF Above
  \* A directory that is neither below the source nor below the destination stays.
  <2>2. ASSUME IsDir(q), ~IsPrefix(s, q), ~IsPrefix(t, q)
        PROVE  q \in New /\ what'[tree'[q]] = "dir"
    <3>1. q \in DOMAIN tree /\ what[tree[q]] = "dir" /\ q # t
      BY <2>1, <2>2, PrefixOrder DEF IsDir, Has
    <3>2. q \in New /\ tree'[q] = tree[q]
      BY <1>6, <2>2, <3>1
    <3> QED
      BY <1>7, <3>1, <3>2
  <2>3. CASE p \in DOMAIN tree /\ ~IsPrefix(s, p) /\ ~IsPrefix(t, p)
    <3>1. IsDir(q)
      BY <2>3 DEF TreeOK
    <3>2. ~IsPrefix(s, q) /\ ~IsPrefix(t, q)
      BY <1>2, <2>1, <2>3, PrefixOrder
    <3> QED
      BY <2>2, <3>1, <3>2
  <2>4. ASSUME NEW o \in moves, p = Moved(o, s, t), IsPrefix(t, p)
        PROVE  q \in New /\ what'[tree'[q]] = "dir"
    <3>1. CASE IsPrefix(t, q)
      <4> DEFINE r == Moved(q, t, s)
      <4>1. r \in Paths /\ IsPrefix(s, r) /\ q = Moved(r, s, t)
        BY <1>2, <2>1, <3>1, MovedDef
      <4> HIDE DEF r
      <4>2. o \in Paths /\ IsPrefix(s, o)
        BY <1>2
      <4>3. IsPrefix(r, o) /\ r # o
        BY <1>2, <2>1, <2>4, <4>1, <4>2, MovedOrder
      <4>4. r \in Ancestors(o)
        BY <4>1, <4>2, <4>3, AncestorsDef DEF Above
      <4>5. r \in DOMAIN tree /\ what[tree[r]] = "dir"
        BY <4>4 DEF TreeOK, IsDir, Has
      <4>6. r \in moves
        BY <4>1, <4>5
      <4> QED
        BY <1>5, <1>7, <1>8, <4>1, <4>5, <4>6
    <3>2. CASE ~IsPrefix(t, q)
      <4>1. IsPrefix(q, t) /\ q # t
        BY <2>1, <2>4, <3>2, PrefixOrder
      <4>2. IsDir(q)
        BY <2>1, <4>1, AncestorsDef DEF Above
      <4>3. ~IsPrefix(s, q)
        BY <1>2, <2>1, <4>1, PrefixOrder
      <4> QED
        BY <2>2, <3>2, <4>2, <4>3
    <3> QED
      BY <3>1, <3>2
  <2> QED
    BY <1>4, <2>3, <2>4
<1>16. NodesKeep
  <2>1. ASSUME NEW p \in New, what[tree'[p]] = "dir" \/ what[tree'[p]] = "gone"
        PROVE  \/ p \in DOMAIN tree /\ tree[p] = tree'[p]
               \/ \A f \in Files \cap Files' : ~IsPrefix(p, f[1])
    <3>1. ASSUME NEW o \in moves, p = Moved(o, s, t), p \in Paths, IsPrefix(t, p),
                 tree'[p] = tree[o],
                 NEW f \in Files \cap Files', IsPrefix(p, f[1])
          PROVE  FALSE
      <4>1. f[1] \in DOMAIN tree /\ f[1] \in Paths
        BY <1>2, FilesDef
      <4>2. IsPrefix(t, f[1])
        BY <3>1, <4>1, PrefixOrder
      <4>3. f[1] = t /\ p = t
        BY <1>3, <3>1, <4>1, <4>2, PrefixOrder
      <4>4. o = s
        <5>1. o \in Paths /\ IsPrefix(s, o) /\ s \in Paths /\ IsPrefix(s, s)
          BY <1>2, PrefixOrder
        <5>2. /\ Moved(o, s, t) \in Paths /\ Moved(s, s, t) \in Paths
              /\ IsPrefix(t, Moved(s, s, t))
          BY <5>1, MovedDef
        <5>3. IsPrefix(Moved(s, s, t), Moved(o, s, t))
          BY <5>1, MovedOrder
        <5>4. Moved(s, s, t) = Moved(o, s, t)
          BY <3>1, <4>3, <5>2, <5>3, PrefixOrder
        <5> QED
          BY <5>1, <5>4, MovedOrder
      <4>5. t \in DOMAIN tree /\ what[tree[s]] # "dir"
        BY <4>1, <4>3 DEF IsDir, Has
      <4>6. what[tree[s]] # "gone"
        BY DEF TreeOK, Live
      <4> QED
        BY <2>1, <3>1, <4>4, <4>5, <4>6
    <3> QED
      BY <1>4, <3>1
  <2> QED
    BY <1>1, <2>1 DEF NodesKeep
<1>17. TreeOK'
  BY <1>1, <1>10, <1>11, <1>12, <1>13, <1>14, <1>15 DEF TreeOK, Ancestors, IsDir, Has
<1>18. ASSUME IsDir(<<>>)
       PROVE  IsDir(<<>>)'
  <2>1. <<>> # t /\ <<>> \in DOMAIN tree /\ what[tree[<<>>]] = "dir"
    BY <1>18 DEF IsDir, Has
  <2>2. ~IsPrefix(s, <<>>) /\ ~IsPrefix(t, <<>>)
    BY <1>2, <2>1, PrefixOrder
  <2> QED
    BY <1>1, <1>6, <1>7, <2>1, <2>2 DEF IsDir, Has
<1>19. ASSUME NEW f \in Files, f[1] # t
       PROVE  \E g \in Files' : g[3] = f[3]
  <2>1. f[1] \in DOMAIN tree /\ what[tree[f[1]]] # "dir" /\ f[3] = what[tree[f[1]]]
    BY FilesDef
  <2>2. what'[tree[f[1]]] = what[tree[f[1]]]
    BY <1>7, <1>19, <2>1
  <2>3. \E p \in DOMAIN tree' : tree'[p] = tree[f[1]]
    BY <1>1, <1>3, <1>5, <1>6, <1>19, <2>1
  <2> QED
    BY <2>1, <2>2, <2>3, FilesDefNext
<1> QED
  BY <1>16, <1>17, <1>18, <1>19

\* MakeDirs, which changes no file.
LEMMA MakeDirsTree ==
    ASSUME TreeOK, NEW paths, MakeDirs(paths), paths \subseteq Paths,
           \A p \in paths : ~Has(p) /\ \A q \in Ancestors(p) : IsDir(q) \/ q \in paths
    PROVE  TreeOK' /\ Grows /\ NodesKeep /\ Files' = Files
<1> DEFINE kinds == [p \in paths |-> "dir"]
<1>1. Make(kinds)
  BY DEF MakeDirs
<1>2. DOMAIN kinds = paths /\ \A p \in paths : kinds[p] = "dir"
  OBVIOUS
<1> HIDE DEF kinds
<1>3. /\ TreeOK' /\ Grows /\ NodesKeep
      /\ DOMAIN tree' = DOMAIN tree \cup paths
      /\ \A p \in DOMAIN tree : what'[tree[p]] = what[tree[p]]
      /\ \A p \in paths : what'[tree'[p]] = "dir"
  <2>1. DOMAIN kinds \cap DOMAIN tree = {}
    BY <1>2 DEF Has
  <2>2. \A p \in DOMAIN kinds : kinds[p] \in Contents \cup {"dir", "escape"}
    BY <1>2
  <2>3. \A p \in DOMAIN kinds : \A q \in Ancestors(p) :
            IsDir(q) \/ (q \in DOMAIN kinds /\ kinds[q] = "dir")
    BY <1>2
  <2>4. DOMAIN kinds \subseteq Paths
    BY <1>2
  <2>5. /\ TreeOK' /\ Grows /\ NodesKeep
        /\ DOMAIN tree' = DOMAIN tree \cup DOMAIN kinds
        /\ \A p \in DOMAIN tree : what'[tree[p]] = what[tree[p]]
        /\ \A p \in DOMAIN kinds : what'[tree'[p]] = kinds[p]
    BY <1>1, <2>1, <2>2, <2>3, <2>4, MakeTree
  <2> QED
    BY <1>2, <2>5
<1>4. \A p \in DOMAIN tree : tree'[p] = tree[p]
  BY <1>3 DEF Grows
<1>5. Files' = Files
  <2>1. {p \in DOMAIN tree' : what'[tree'[p]] # "dir"} = {p \in DOMAIN tree : what[tree[p]] # "dir"}
    BY <1>3, <1>4
  <2> QED
    BY <1>3, <1>4, <2>1 DEF Files, FilesIn
<1> QED
  BY <1>3, <1>5

\* The directories above a path can be made unless a file is in the way.
LEMMA MissingDirs ==
    ASSUME TreeOK, NEW p \in Paths, ~Blocked(p)
    PROVE  /\ Missing(p) \subseteq Paths
           /\ \A q \in Missing(p) : ~Has(q) /\ \A o \in Ancestors(q) : IsDir(o) \/ o \in Missing(p)
           /\ \A q \in Ancestors(p) : IsDir(q) \/ q \in Missing(p)
<1>1. \A q \in Ancestors(p) : q \in Paths /\ (IsDir(q) \/ q \in Missing(p))
  BY AncestorsDef DEF Blocked, Missing
<1>2. ASSUME NEW q \in Missing(p), NEW o \in Ancestors(q)
      PROVE  o \in Ancestors(p)
  <2>1. q \in Paths /\ Above(q, p)
    BY <1>2, AncestorsDef DEF Missing
  <2>2. o \in Paths /\ Above(o, q)
    BY <1>2, <2>1, AncestorsDef
  <2>3. IsPrefix(o, p) /\ o # p
    BY <2>1, <2>2, PrefixOrder DEF Above
  <2> QED
    BY <2>2, <2>3, AncestorsDef DEF Above
<1> QED
  BY <1>1, <1>2 DEF Missing

\* A file is emptied or filled.
LEMMA WriteTree ==
    ASSUME TreeOK, NEW n \in Nodes, what[n] \notin {"dir", "free"},
           NEW v \in Contents \cup {"escape", "gone"}, v = "gone" <=> what[n] = "gone",
           tree' = tree, what' = [what EXCEPT ![n] = v]
    PROVE  TreeOK' /\ Grows /\ NodesKeep
<1>1. /\ what' \in [Nodes -> Contents \cup {"dir", "escape", "free", "gone"}]
      /\ what'[n] = v /\ \A m \in Nodes : m # n => what'[m] = what[m]
  BY DEF TreeOK
<1>2. v \notin {"dir", "free"}
  BY Marks
<1>3. \A m \in Nodes : /\ what'[m] = "dir" <=> what[m] = "dir"
                       /\ what'[m] = "gone" <=> what[m] = "gone"
                       /\ what'[m] = "free" <=> what[m] = "free"
                       /\ Live(m)' <=> Live(m)
  BY <1>1, <1>2 DEF Live
<1>4. \A p : IsDir(p)' <=> IsDir(p)
  BY <1>3 DEF IsDir, Has, TreeOK
<1>5. \A p \in DOMAIN tree' : tree'[p] \in Nodes
  BY DEF TreeOK
<1>6. TreeOK'
  BY <1>1, <1>3, <1>4, <1>5 DEF TreeOK, Ancestors
<1> QED
  BY <1>3, <1>5, <1>6 DEF Grows, NodesKeep

\* What is there is not changed by a step that leaves the disk alone.
LEMMA SameTree ==
    ASSUME TreeOK, UNCHANGED disk
    PROVE  /\ TreeOK' /\ Grows /\ NodesKeep /\ Files' = Files
           /\ \A p : IsDir(p)' <=> IsDir(p)
BY DEF disk, TreeOK, Grows, NodesKeep, Files, FilesIn, IsDir, Has, Live, Ancestors

-----------------------------------------------------------------------------
(* What the steps do to the tree. *)

RootStays == IsDir(<<>>) => IsDir(<<>>)'

LEMMA GrowsRoot ==
    ASSUME TreeOK, Grows
    PROVE  RootStays
BY DEF Grows, RootStays, IsDir, Has

\* Paths that requests are about.
LEMMA AskPaths ==
    ASSUME NEW q \in Asks
    PROVE  /\ q.path \in Paths /\ Subject(q) \in Paths
           /\ q.op = "move" => q.dest \in Paths
BY FilesystemAssumption DEF Subject

\* A step into a directory.
LEMMA AppendPath ==
    ASSUME NEW p \in Paths, NEW name, Append(p, name) \in Paths
    PROVE  Append(p, name) # <<>> /\ Append(p, name) # p
<1>1. p \in Seq(STRING \cup {name})
  BY SeqMonotonic DEF Paths
<1>2. Len(Append(p, name)) = Len(p) + 1 /\ Append(p, name) # <<>>
  BY <1>1, AppendProperties
<1>3. Len(p) \in Nat
  BY LenProperties DEF Paths
<1> QED
  BY <1>2, <1>3

LEMMA TargetPath ==
    ASSUME NEW q \in Asks, q.op = "move", q.path # <<>>
    PROVE  /\ Target(q) \in Paths
           /\ Target(q) = q.dest => ~IsDir(q.dest)
<1>1. q.path \in Paths /\ q.dest \in Paths
  BY AskPaths
<1>2. Len(q.path) \in 1..Len(q.path) /\ q.path \in [1..Len(q.path) -> STRING]
  BY <1>1, LenProperties, EmptySeq DEF Paths
<1>3. Last(q.path) \in STRING
  BY <1>2 DEF Last
<1>4. Append(q.dest, Last(q.path)) \in Paths
  BY <1>1, <1>3, AppendProperties DEF Paths
<1>5. Append(q.dest, Last(q.path)) # q.dest
  BY <1>1, <1>4, AppendPath
<1> QED
  BY <1>1, <1>4, <1>5 DEF Target

\* The root has nothing above it.
LEMMA RootAncestors == Ancestors(<<>>) = {}
<1>1. <<>> \in Paths
  BY DEF Paths
<1>2. \A q \in Paths : IsPrefix(q, <<>>) => q = <<>>
  BY PrefixOrder
<1> QED
  BY <1>1, <1>2, AncestorsDef DEF Above

LEMMA ParentsTree ==
    ASSUME TreeOK, RequestsOK, NEW r \in Threads, Parents(r)
    PROVE  TreeOK' /\ NodesKeep /\ RootStays /\ Files' = Files
<1> DEFINE p == Subject(ask[r])
<1>1. p \in Paths
  BY AskPaths DEF RequestsOK, RequestOK, Parents
<1>2. CASE Blocked(p)
  <2>1. UNCHANGED disk
    BY <1>2 DEF Parents, Says
  <2> QED
    BY <2>1, SameTree DEF RootStays
<1>3. CASE ~Blocked(p)
  <2>1. MakeDirs(Missing(p))
    BY <1>3 DEF Parents
  <2>2. TreeOK' /\ Grows /\ NodesKeep /\ Files' = Files
    BY <1>1, <1>3, <2>1, MissingDirs, MakeDirsTree
  <2> QED
    BY <2>2, GrowsRoot
<1> QED
  BY <1>2, <1>3

LEMMA OpenTree ==
    ASSUME TreeOK, NEW r \in Threads, Open(r)
    PROVE  TreeOK' /\ NodesKeep /\ RootStays /\ Files' = Files
<1>1. CASE Has(<<>>)
  <2>1. UNCHANGED disk
    BY <1>1 DEF Open
  <2> QED
    BY <2>1, SameTree DEF RootStays
<1>2. CASE ~Has(<<>>)
  <2>1. MakeDirs({<<>>})
    BY <1>2 DEF Open
  <2>2. TreeOK' /\ Grows /\ NodesKeep /\ Files' = Files
    <3>1. <<>> \in Paths
      BY DEF Paths
    <3> QED
      BY <1>2, <2>1, <3>1, MakeDirsTree, RootAncestors
  <2> QED
    BY <2>2, GrowsRoot
<1> QED
  BY <1>1, <1>2

LEMMA MakeDirTree ==
    ASSUME TreeOK, RequestsOK, NEW r \in Threads, MakeDir(r)
    PROVE  TreeOK' /\ NodesKeep /\ RootStays /\ Files' = Files
<1> DEFINE p == ask[r].path
<1>1. p \in Paths
  BY AskPaths DEF RequestsOK, RequestOK, MakeDir
<1>2. CASE UNCHANGED disk
  BY <1>2, SameTree DEF RootStays
<1>3. CASE ~Has(p) /\ ~Blocked(p) /\ MakeDirs(Missing(p) \cup {p})
  <2> DEFINE paths == Missing(p) \cup {p}
  <2>1. /\ paths \subseteq Paths /\ MakeDirs(paths)
        /\ \A q \in paths : ~Has(q) /\ \A o \in Ancestors(q) : IsDir(o) \/ o \in paths
    BY <1>1, <1>3, MissingDirs
  <2> HIDE DEF paths
  <2>2. TreeOK' /\ Grows /\ NodesKeep /\ Files' = Files
    BY <2>1, MakeDirsTree
  <2> QED
    BY <2>2, GrowsRoot
<1> QED
  BY <1>2, <1>3 DEF MakeDir, Says

LEMMA OpenFileTree ==
    ASSUME TreeOK, RequestsOK, NEW r \in Threads, OpenFile(r)
    PROVE  /\ TreeOK' /\ NodesKeep /\ RootStays
           /\ \/ UNCHANGED disk /\ Says(r, "conflict")
              \/ UNCHANGED disk /\ Says(r, "error")
              \/ \E n \in Nodes : Goto(r, "fill", n) /\ what'[n] \notin {"dir", "free"}
<1> DEFINE p == ask[r].path
<1>1. p \in Paths
  BY AskPaths DEF RequestsOK, RequestOK, OpenFile
<1>2. CASE Says(r, "conflict") \/ Says(r, "error")
  <2>1. UNCHANGED disk
    BY <1>2 DEF Says
  <2> QED
    BY <1>2, <2>1, SameTree DEF RootStays
<1>3. CASE /\ ~Blocked(p) /\ Missing(p) = {} /\ ~Has(p)
           /\ Make([q \in {p} |-> "empty"]) /\ Goto(r, "fill", tree'[p])
  <2> DEFINE kinds == [q \in {p} |-> "empty"]
  <2>1. DOMAIN kinds = {p} /\ kinds[p] = "empty" /\ Make(kinds)
    BY <1>3
  <2> HIDE DEF kinds
  <2>2. DOMAIN kinds \subseteq Paths /\ DOMAIN kinds \cap DOMAIN tree = {}
    BY <1>1, <1>3, <2>1 DEF Has
  <2>3. \A q \in DOMAIN kinds : kinds[q] \in Contents \cup {"dir", "escape"}
    BY <2>1, Marks
  <2>4. \A q \in DOMAIN kinds : \A o \in Ancestors(q) :
            IsDir(o) \/ (o \in DOMAIN kinds /\ kinds[o] = "dir")
    BY <1>1, <1>3, <2>1, MissingDirs
  <2>5. /\ TreeOK' /\ Grows /\ NodesKeep
        /\ \A q \in DOMAIN kinds : tree'[q] \in Nodes /\ what'[tree'[q]] = kinds[q]
    BY <2>1, <2>2, <2>3, <2>4, MakeTree
  <2> QED
    BY <1>3, <2>1, <2>5, GrowsRoot
<1>4. CASE /\ Has(p) /\ ~IsDir(p) /\ tree' = tree /\ Goto(r, "fill", tree[p])
           /\ what' = [what EXCEPT ![tree[p]] = IF @ = "escape" THEN @ ELSE "empty"]
  <2>1. tree[p] \in Nodes /\ what[tree[p]] \notin {"dir", "free", "gone"}
    BY <1>4 DEF TreeOK, Has, IsDir, Live
  <2> DEFINE v == IF what[tree[p]] = "escape" THEN "escape" ELSE "empty"
  <2>2. what' = [what EXCEPT ![tree[p]] = v] /\ v \in Contents \cup {"escape", "gone"}
    BY <1>4, Marks
  <2>3. v \notin {"dir", "free", "gone"} /\ what'[tree[p]] = v
    BY <2>1, <2>2 DEF TreeOK
  <2> HIDE DEF v
  <2>4. TreeOK' /\ Grows /\ NodesKeep
    BY <1>4, <2>1, <2>2, <2>3, WriteTree
  <2> QED
    BY <1>4, <2>1, <2>3, <2>4, GrowsRoot
<1> QED
  BY <1>2, <1>3, <1>4 DEF OpenFile

LEMMA FillTree ==
    ASSUME TreeOK, RequestsOK, NEW r \in Threads, Fill(r)
    PROVE  TreeOK' /\ NodesKeep /\ RootStays
<1> DEFINE n == work[r]
<1>1. n \in Nodes /\ what[n] \notin {"dir", "free"} /\ tree' = tree
  BY DEF RequestsOK, RequestOK, Fill
<1>2. PICK result \in {r, "mixed"} :
          what' = [what EXCEPT ![n] = IF @ \in {"gone", "escape"} THEN @ ELSE result]
  BY DEF Fill
<1> DEFINE v == IF what[n] \in {"gone", "escape"} THEN what[n] ELSE result
<1>3. what' = [what EXCEPT ![n] = v] /\ v \in Contents \cup {"escape", "gone"}
  BY <1>2, Marks
<1>4. v = "gone" <=> what[n] = "gone"
  BY Marks
<1> HIDE DEF v
<1>5. TreeOK' /\ Grows /\ NodesKeep
  BY <1>1, <1>3, <1>4, WriteTree
<1> QED
  BY <1>5, GrowsRoot

\* What is made leaves the files there were.
LEMMA FilesStay ==
    ASSUME \A p \in DOMAIN tree : /\ p \in DOMAIN tree' /\ tree'[p] = tree[p]
                                   /\ what'[tree[p]] = what[tree[p]]
    PROVE  Files \subseteq Files'
BY FilesDef, FilesDefNext

\* The copy of a directory, with the directories above it: the source has nothing
\* that is not elsewhere too.
LEMMA CopyTree ==
    ASSUME TreeOK, NEW s \in Paths, NEW t \in Paths, Copies(s, t),
           Make([p \in Missing(t) \cup {Moved(q, s, t) : q \in Subtree(s)} |->
                    IF IsPrefix(t, p) THEN what[tree[Moved(p, t, s)]] ELSE "dir"])
    PROVE  /\ TreeOK' /\ NodesKeep /\ RootStays /\ Files \subseteq Files'
           /\ \A f \in Files' : IsPrefix(s, f[1]) =>
                 \E g \in Files' : ~IsPrefix(s, g[1]) /\ g[3] = f[3]
<1> DEFINE kinds == [p \in Missing(t) \cup {Moved(q, s, t) : q \in Subtree(s)} |->
                        IF IsPrefix(t, p) THEN what[tree[Moved(p, t, s)]] ELSE "dir"]
<1>1. /\ IsDir(s) /\ ~IsPrefix(s, t) /\ ~Has(t) /\ ~Blocked(t)
      /\ Make(kinds)
      /\ DOMAIN kinds = Missing(t) \cup {Moved(q, s, t) : q \in Subtree(s)}
      /\ \A p \in DOMAIN kinds : kinds[p] = IF IsPrefix(t, p) THEN what[tree[Moved(p, t, s)]] ELSE "dir"
  BY DEF Copies
<1>2. DOMAIN tree \subseteq Paths
  BY DEF TreeOK
<1> HIDE DEF kinds
<1>3. ASSUME NEW q \in Subtree(s)
      PROVE  /\ q \in DOMAIN tree /\ q \in Paths /\ IsPrefix(s, q)
             /\ Moved(q, s, t) \in Paths /\ IsPrefix(t, Moved(q, s, t))
             /\ Moved(Moved(q, s, t), t, s) = q
             /\ Moved(q, s, t) \in DOMAIN kinds
             /\ kinds[Moved(q, s, t)] = what[tree[q]]
  <2>1. q \in DOMAIN tree /\ q \in Paths /\ IsPrefix(s, q)
    BY <1>2 DEF Subtree
  <2>2. /\ Moved(q, s, t) \in Paths /\ IsPrefix(t, Moved(q, s, t))
        /\ Moved(Moved(q, s, t), t, s) = q
    BY <2>1, MovedDef
  <2> QED
    BY <1>1, <2>1, <2>2
<1>4. /\ Missing(t) \subseteq Paths
      /\ \A q \in Missing(t) : ~Has(q) /\ \A o \in Ancestors(q) : IsDir(o) \/ o \in Missing(t)
      /\ \A q \in Ancestors(t) : IsDir(q) \/ q \in Missing(t)
  BY <1>1, MissingDirs
<1>5. \A q \in Missing(t) : q \in DOMAIN kinds /\ ~IsPrefix(t, q) /\ kinds[q] = "dir"
  <2>1. \A q \in Missing(t) : q \in Paths /\ IsPrefix(q, t) /\ q # t
    BY AncestorsDef DEF Missing, Above
  <2> QED
    BY <1>1, <2>1, PrefixOrder
<1>6. DOMAIN kinds \subseteq Paths
  BY <1>1, <1>3, <1>4
<1>7. \A p \in DOMAIN tree : ~IsPrefix(t, p)
  <2> SUFFICES ASSUME NEW p \in DOMAIN tree, IsPrefix(t, p)
               PROVE  FALSE
    OBVIOUS
  <2>1. t # p
    BY <1>1 DEF Has
  <2>2. t \in Ancestors(p)
    BY <1>2, <2>1, AncestorsDef DEF Above
  <2> QED
    BY <1>1, <2>2 DEF TreeOK, IsDir
<1>8. DOMAIN kinds \cap DOMAIN tree = {}
  BY <1>1, <1>3, <1>4, <1>7 DEF Has
<1>9. \A p \in DOMAIN kinds : kinds[p] \in Contents \cup {"dir", "escape"}
  <2>1. \A q \in DOMAIN tree : what[tree[q]] \in Contents \cup {"dir", "escape"}
    BY DEF TreeOK, Live
  <2> QED
    BY <1>1, <1>3, <1>5, <2>1
<1>10. ASSUME NEW p \in DOMAIN kinds, NEW q \in Ancestors(p)
       PROVE  IsDir(q) \/ (q \in DOMAIN kinds /\ kinds[q] = "dir")
  <2>1. CASE p \in Missing(t)
    BY <1>4, <1>5, <1>10, <2>1
  <2>2. ASSUME NEW o \in Subtree(s), p = Moved(o, s, t)
        PROVE  IsDir(q) \/ (q \in DOMAIN kinds /\ kinds[q] = "dir")
    <3>1. q \in Paths /\ IsPrefix(q, p) /\ q # p /\ p \in Paths /\ IsPrefix(t, p)
      BY <1>3, <1>10, <2>2, AncestorsDef DEF Above
    <3>2. CASE IsPrefix(t, q)
      <4> DEFINE u == Moved(q, t, s)
      <4>1. u \in Paths /\ IsPrefix(s, u) /\ q = Moved(u, s, t)
        BY <3>1, <3>2, MovedDef
      <4> HIDE DEF u
      <4>2. o \in Paths /\ IsPrefix(s, o) /\ o \in DOMAIN tree
        BY <1>3
      <4>3. IsPrefix(u, o) /\ u # o
        BY <2>2, <3>1, <4>1, <4>2, MovedOrder
      <4>4. u \in Ancestors(o)
        BY <4>1, <4>2, <4>3, AncestorsDef DEF Above
      <4>5. u \in DOMAIN tree /\ what[tree[u]] = "dir"
        BY <4>2, <4>4 DEF TreeOK, IsDir, Has
      <4>6. u \in Subtree(s)
        BY <4>1, <4>5 DEF Subtree
      <4> QED
        BY <1>3, <4>1, <4>5, <4>6
    <3>3. CASE ~IsPrefix(t, q)
      <4>1. IsPrefix(q, t) /\ q # t
        BY <3>1, <3>3, PrefixOrder
      <4>2. q \in Ancestors(t)
        BY <3>1, <4>1, AncestorsDef DEF Above
      <4> QED
        BY <1>4, <1>5, <4>2
    <3> QED
      BY <3>2, <3>3
  <2> QED
    BY <1>1, <2>1, <2>2
<1>11. /\ TreeOK' /\ Grows /\ NodesKeep
       /\ DOMAIN tree' = DOMAIN tree \cup DOMAIN kinds
       /\ \A p \in DOMAIN tree : what'[tree[p]] = what[tree[p]]
       /\ \A p \in DOMAIN kinds : what'[tree'[p]] = kinds[p]
  BY <1>1, <1>6, <1>8, <1>9, <1>10, MakeTree
<1>12. Files \subseteq Files'
  BY <1>11, FilesStay DEF Grows
<1>13. ASSUME NEW f \in Files', IsPrefix(s, f[1])
       PROVE  \E g \in Files' : ~IsPrefix(s, g[1]) /\ g[3] = f[3]
  <2>1. f[1] \in DOMAIN tree' /\ what'[tree'[f[1]]] # "dir" /\ f[3] = what'[tree'[f[1]]]
    BY FilesDefNext
  \* What is new is at or below the destination, which is not in the source.
  <2>2. ASSUME NEW p \in DOMAIN kinds, kinds[p] # "dir"
        PROVE  ~IsPrefix(s, p)
    <3>1. PICK q \in Subtree(s) : p = Moved(q, s, t)
      BY <1>1, <1>5, <2>2
    <3>2. p \in Paths /\ IsPrefix(t, p)
      BY <1>3, <3>1
    <3>3. ~IsPrefix(t, s)
      BY <1>1, <1>7 DEF IsDir, Has
    <3> QED
      BY <1>1, <3>2, <3>3, PrefixOrder
  <2>3. f[1] \in Subtree(s) /\ tree'[f[1]] = tree[f[1]] /\ what[tree[f[1]]] = f[3]
    <3>1. f[1] \in DOMAIN tree
      BY <1>11, <1>13, <2>1, <2>2
    <3> QED
      BY <1>11, <1>13, <2>1, <3>1 DEF Grows, Subtree
  <2> DEFINE p == Moved(f[1], s, t)
  <2>4. p \in DOMAIN kinds /\ kinds[p] = f[3]
    BY <1>3, <2>3
  <2>5. ~IsPrefix(s, p) /\ p \in DOMAIN tree' /\ what'[tree'[p]] = f[3]
    BY <1>11, <2>1, <2>2, <2>4
  <2>6. <<p, tree'[p], what'[tree'[p]]>> \in Files'
    BY <2>1, <2>5, FilesDefNext
  <2> QED
    BY <2>5, <2>6
<1> QED
  BY <1>11, <1>12, <1>13, GrowsRoot

LEMMA MoveTree ==
    ASSUME TreeOK, RequestsOK, NEW r \in Threads, Move(r)
    PROVE  TreeOK' /\ NodesKeep /\ RootStays
<1> DEFINE s == ask[r].path
           t == Target(ask[r])
           kinds == [p \in Missing(t) \cup {Moved(q, s, t) : q \in Subtree(s)} |->
                        IF IsPrefix(t, p) THEN what[tree[Moved(p, t, s)]] ELSE "dir"]
<1>1. ask[r] \in Asks /\ ask[r].op = "move" /\ s # <<>>
  BY DEF RequestsOK, RequestOK, Move
<1>2. s \in Paths /\ t \in Paths /\ (t = ask[r].dest => ~IsDir(ask[r].dest))
  BY <1>1, AskPaths, TargetPath
<1>3. CASE Says(r, "conflict")
  <2>1. UNCHANGED disk
    BY <1>3 DEF Says
  <2> QED
    BY <2>1, SameTree DEF RootStays
<1>4. CASE ~(t # ask[r].dest /\ Has(t)) /\ Renames(s, t) /\ Rename(s, t)
  <2>1. /\ s \in DOMAIN tree /\ ~IsPrefix(s, t)
        /\ Missing(t) = {} /\ ~Blocked(t) /\ (Has(t) => ~IsDir(s))
    BY <1>4 DEF Renames, Has
  <2>2. \A q \in Ancestors(t) : IsDir(q)
    BY <1>2, <2>1, MissingDirs
  <2>3. t \in DOMAIN tree => ~IsDir(s) /\ ~IsDir(t)
    BY <1>2, <1>4, <2>1 DEF Has
  <2> HIDE DEF s, t
  <2>4. TreeOK' /\ NodesKeep /\ (IsDir(<<>>) => IsDir(<<>>)')
    BY <1>1, <1>2, <1>4, <2>1, <2>2, <2>3, RenameTree
  <2> QED
    BY <2>4 DEF RootStays
<1>5. CASE Copies(s, t) /\ Make(kinds)
  <2> HIDE DEF s, t
  <2> QED
    BY <1>2, <1>5, CopyTree
<1> QED
  BY <1>3, <1>4, <1>5 DEF Move

\* The other steps of a request, but for those of rmtree.
LEMMA ServeTree ==
    ASSUME TreeOK, RequestsOK, NEW r \in Threads, Serve(r)
    PROVE  TreeOK' /\ NodesKeep /\ RootStays
<1>1. CASE UNCHANGED disk
  BY <1>1, SameTree DEF RootStays
<1>2. CASE \E q \in Asks : Admit(r, q)
  BY <1>1, <1>2 DEF Admit
<1>3. CASE Decline(r) \/ Look(r) \/ ReadBytes(r) \/ Stat(r) \/ IterDir(r) \/ Entry(r) \/ ListEnds(r)
  <2>1. UNCHANGED disk
    BY <1>3 DEF Decline, Look, ReadBytes, Stat, IterDir, Entry, ListEnds, Says
  <2> QED
    BY <1>1, <2>1
<1>4. CASE Open(r) \/ Parents(r) \/ MakeDir(r)
  BY <1>4, OpenTree, ParentsTree, MakeDirTree
<1>5. CASE OpenFile(r) \/ Fill(r) \/ Move(r)
  BY <1>5, OpenFileTree, FillTree, MoveTree
<1>6. CASE RemoveFile(r) \/ RemoveDir(r)
  <2> DEFINE p == ask[r].path
  <2>1. p # <<>>
    BY <1>6 DEF RequestsOK, RequestOK, RemoveFile, RemoveDir
  <2>2. CASE Unlink(p) /\ p \in DOMAIN tree /\ (~IsDir(p) \/ Names(p) = {})
    <3>1. \A q \in DOMAIN tree : p \notin Ancestors(q)
      BY <2>2, Leaf
    <3>2. /\ TreeOK' /\ NodesKeep /\ DOMAIN tree' = DOMAIN tree \ {p}
          /\ \A q \in DOMAIN tree' : tree'[q] = tree[q] /\ what'[tree[q]] = what[tree[q]]
      BY <2>2, <3>1, UnlinkTree
    <3> QED
      BY <2>1, <3>2 DEF RootStays, IsDir, Has
  <2>3. \/ Unlink(p) /\ p \in DOMAIN tree /\ (~IsDir(p) \/ Names(p) = {})
        \/ UNCHANGED disk
    BY <1>6 DEF RemoveFile, RemoveDir, Says, IsDir, Has
  <2> QED
    BY <1>1, <2>2, <2>3
<1> QED
  BY <1>2, <1>3, <1>4, <1>5, <1>6 DEF Serve

\* The steps of rmtree.  The root is the last that a delete removes.
LEMMA SweepTree ==
    ASSUME TreeOK, RequestsOK, DeleteOK, NEW x \in Actors, RemoveTree(x)
    PROVE  /\ TreeOK' /\ NodesKeep
           /\ \/ RootStays /\ SweepFails(x)
              \/ RootStays /\ \E w : Goto(x, "sweep", w)
              \/ RootStays /\ x # Deleter /\ SweepEnds(x)
              \/ x = Deleter /\ DeleteEnds("gone") /\ ~Has(<<>>)'
<1>1. ASSUME NEW p \in DOMAIN tree, Unlink(p), ~IsDir(p) \/ Names(p) = {}
      PROVE  TreeOK' /\ NodesKeep /\ (p # <<>> => RootStays) /\ (p = <<>> => ~Has(<<>>)')
  <2>1. \A q \in DOMAIN tree : p \notin Ancestors(q)
    BY <1>1, Leaf
  <2>2. /\ TreeOK' /\ NodesKeep /\ DOMAIN tree' = DOMAIN tree \ {p}
        /\ \A q \in DOMAIN tree' : tree'[q] = tree[q] /\ what'[tree[q]] = what[tree[q]]
    BY <1>1, <2>1, UnlinkTree
  <2> QED
    BY <2>2 DEF RootStays, IsDir, Has
<1>2. ASSUME UNCHANGED disk
      PROVE  TreeOK' /\ NodesKeep /\ RootStays
  BY <1>2, SameTree DEF RootStays
\* An entry is below its directory.
<1>3. ASSUME NEW frame, NEW name, NEW p \in Child(frame, name)
      PROVE  p \in DOMAIN tree /\ p # <<>>
  <2>1. PICK o \in DOMAIN tree : p = Append(o, name)
    BY DEF Child, PathsOf
  <2>2. p \in DOMAIN tree /\ p \in Paths /\ o \in Paths
    BY DEF Child, TreeOK
  <2> QED
    BY <2>1, <2>2, AppendPath
<1>4. CASE UNCHANGED disk /\ SweepFails(x)
  BY <1>2, <1>4
<1>5. CASE UNCHANGED disk /\ \E w : Goto(x, "sweep", w)
  BY <1>2, <1>5
<1>6. CASE RmTree(x)
  BY <1>4, <1>5, <1>6 DEF RmTree, SweepFails
<1>7. CASE Sweep(x)
  <2>1. PICK name \in Last(work[x]).left :
          LET top == Last(work[x])
              rest == Append(Front(work[x]), [top EXCEPT !.left = @ \ {name}])
          IN \/ /\ Child(top, name) = {}
                /\ SweepFails(x)
             \/ \E p \in Child(top, name) :
                  IF IsDir(p)
                  THEN Goto(x, "sweep", Append(rest, Frame(p, name))) /\ UNCHANGED disk
                  ELSE Goto(x, "sweep", rest) /\ Unlink(p)
    BY <1>7 DEF Sweep
  <2>2. CASE SweepFails(x)
    BY <1>4, <2>2 DEF SweepFails
  <2>3. CASE UNCHANGED disk /\ \E w : Goto(x, "sweep", w)
    BY <1>5, <2>3
  <2>4. ASSUME NEW p \in Child(Last(work[x]), name), ~IsDir(p), Unlink(p),
               \E w : Goto(x, "sweep", w)
        PROVE  TreeOK' /\ NodesKeep /\ RootStays /\ \E w : Goto(x, "sweep", w)
    BY <1>1, <1>3, <2>4
  <2> QED
    BY <2>1, <2>2, <2>3, <2>4
<1>8. CASE SweepDir(x)
  <2> DEFINE above == Front(work[x])
             places == IF above = <<>> THEN {ask[x].path}
                                       ELSE Child(Last(above), Last(work[x]).name)
  <2>1. CASE SweepFails(x)
    BY <1>4, <2>1 DEF SweepFails
  <2>2. ASSUME NEW p \in places, IsDir(p), Names(p) = {}, Unlink(p),
               IF above = <<>> THEN SweepEnds(x) ELSE Goto(x, "sweep", above)
        PROVE  /\ TreeOK' /\ NodesKeep
               /\ \/ RootStays /\ \E w : Goto(x, "sweep", w)
                  \/ RootStays /\ x # Deleter /\ SweepEnds(x)
                  \/ x = Deleter /\ DeleteEnds("gone") /\ ~Has(<<>>)'
    <3>1. /\ TreeOK' /\ NodesKeep
          /\ p # <<>> => RootStays
          /\ p = <<>> => ~Has(<<>>)'
      BY <1>1, <2>2 DEF IsDir, Has
    <3>2. CASE above # <<>>
      BY <1>3, <2>2, <3>1, <3>2
    <3>3. CASE above = <<>> /\ x = Deleter
      <4>1. p = <<>>
        BY <3>3 DEF DeleteOK
      <4>2. SweepEnds(x)
        BY <2>2, <3>3
      <4>3. DeleteEnds("gone")
        BY <3>3, <4>2 DEF SweepEnds
      <4> QED
        BY <3>1, <3>3, <4>1, <4>3
    <3>4. CASE above = <<>> /\ x # Deleter
      <4>1. p # <<>>
        BY <1>8, <3>4 DEF RequestsOK, RequestOK, SweepDir, Actors
      <4> QED
        BY <2>2, <3>1, <3>4, <4>1
    <3> QED
      BY <3>2, <3>3, <3>4
  <2>3. \/ SweepFails(x)
        \/ \E p \in places : /\ IsDir(p) /\ Names(p) = {} /\ Unlink(p)
                             /\ IF above = <<>> THEN SweepEnds(x) ELSE Goto(x, "sweep", above)
    BY <1>8 DEF SweepDir
  <2> QED
    BY <2>1, <2>2, <2>3
<1> QED
  BY <1>6, <1>7, <1>8 DEF RemoveTree

-----------------------------------------------------------------------------
(* What the steps do to the requests and to the delete. *)

\* The step is one of x.
Elsewhere(x) ==
    /\ DOMAIN at' = Actors /\ DOMAIN work' = Actors /\ DOMAIN ask' = Actors
    /\ DOMAIN answer' = Threads
    /\ \A o \in Threads \ {x} :
        /\ at'[o] = at[o] /\ work'[o] = work[o]
        /\ ask'[o] = ask[o] /\ answer'[o] = answer[o]

LEMMA GotoStep ==
    ASSUME RequestsOK, NEW x \in Actors, NEW stage, NEW w, Goto(x, stage, w)
    PROVE  /\ Elsewhere(x) /\ at'[x] = stage /\ work'[x] = w
           /\ ask' = ask /\ sandbox' = sandbox /\ late' = late /\ answer' = answer
           /\ x # Deleter => at'[Deleter] = at[Deleter]
BY DEF RequestsOK, Goto, Elsewhere, request, Actors

LEMMA AnswerStep ==
    ASSUME RequestsOK, NEW r \in Threads, NEW status, NEW result, Answer(r, status, result)
    PROVE  /\ Elsewhere(r) /\ at'[r] = "done" /\ answer'[r][1] = status
           /\ ask' = ask /\ sandbox' = sandbox /\ late' = late
           /\ at'[Deleter] = at[Deleter]
<1>1. r # Deleter /\ r \in Actors /\ Deleter \in Actors
  BY FilesystemAssumption DEF Actors
<1>2. answer'[r] = <<status, result>>
  BY DEF RequestsOK, Answer
<1> QED
  BY <1>1, <1>2 DEF RequestsOK, Answer, Elsewhere, request, Actors

LEMMA DeleteEndsStep ==
    ASSUME RequestsOK, NEW state, DeleteEnds(state)
    PROVE  /\ Elsewhere(Deleter) /\ at'[Deleter] = "done" /\ sandbox' = state
           /\ ask' = ask /\ late' = late /\ answer' = answer
           /\ \A r \in Threads : at'[r] = at[r]
<1>1. Deleter \notin Threads /\ Deleter \in Actors
  BY FilesystemAssumption DEF Actors
<1> QED
  BY <1>1 DEF RequestsOK, DeleteEnds, Elsewhere, Actors

\* The requests of the others are as they were.
LEMMA OthersOK ==
    ASSUME RequestsOK, NodesKeep, NEW x \in Actors, Elsewhere(x),
           x \in Threads => RequestOK(x)'
    PROVE  RequestsOK'
<1>1. ASSUME NEW o \in Threads, o # x
      PROVE  RequestOK(o)'
  <2>1. RequestOK(o) /\ (at[o] = "fill" => what'[work[o]] \notin {"dir", "free"})
    BY DEF RequestsOK, RequestOK, NodesKeep
  <2>2. at'[o] = at[o] /\ work'[o] = work[o] /\ ask'[o] = ask[o] /\ answer'[o] = answer[o]
    BY <1>1 DEF Elsewhere
  <2> QED
    BY <2>1, <2>2 DEF RequestOK
<1> QED
  BY <1>1 DEF RequestsOK, Elsewhere

\* A look ends the request with one of the statuses, or lets it go on where a
\* request of its kind may be.
LEMMA LookStep ==
    ASSUME NEW q \in Asks
    PROVE  /\ Verdict(q) \in Statuses
           /\ Verdict(q) = "ok" =>
                 /\ Begins(q) \in {"bytes", "stat", "iterdir", "parents", "mkdir",
                                   "rmtree", "rmdir", "unlink"}
                 /\ Begins(q) = "parents" => q.op \in {"write", "move"}
                 /\ Begins(q) = "stat" => q.op = "stat"
                 /\ Begins(q) = "mkdir" => q.op = "mkdir"
                 /\ q.op \in {"move", "remove"} => q.path # <<>>
                 /\ Begins(q) \in {"rmtree", "rmdir", "unlink"} => q.op = "remove"
                 /\ Begins(q) = "rmtree" => q.recursive
<1>1. q.op \in {"read", "stat", "list", "write", "mkdir", "move", "remove"}
  BY FilesystemAssumption
<1>2. CASE q.op \in {"read", "stat", "list"}
  BY <1>2 DEF Verdict, Begins, Existing, AndThen, Unless, Statuses
<1>3. CASE q.op \in {"write", "mkdir"}
  BY <1>3 DEF Verdict, Begins, AndThen, Unless, Statuses
<1>4. CASE q.op = "move"
  BY <1>4 DEF Verdict, Begins, Existing, Movable, AndThen, Unless, Statuses
<1>5. CASE q.op = "remove"
  BY <1>5 DEF Verdict, Begins, Existing, RemovalOf, AndThen, Unless, Statuses
<1> QED
  BY <1>1, <1>2, <1>3, <1>4, <1>5

LEMMA ServeRequests ==
    ASSUME TreeOK, RequestsOK, NodesKeep, NEW r \in Threads, Serve(r)
    PROVE  RequestsOK'
<1>1. r \in Actors /\ RequestOK(r) /\ (at[r] \notin {"new", "done"} => ask[r] \in Asks)
  BY DEF Actors, RequestsOK, RequestOK
<1>2. ASSUME NEW status \in Statuses, NEW result, Answer(r, status, result)
      PROVE  RequestsOK'
  <2>1. Elsewhere(r) /\ at'[r] = "done" /\ answer'[r][1] = status
    BY <1>2, AnswerStep
  <2>2. RequestOK(r)'
    BY <2>1 DEF RequestOK
  <2> QED
    BY <1>1, <2>1, <2>2, OthersOK
<1>3. ASSUME NEW stage, NEW w, Goto(r, stage, w), ask[r] \in Asks,
             stage \in {"write", "fill"} => ask[r].op = "write",
             stage = "parents" => ask[r].op \in {"write", "move"},
             stage = "rename" => ask[r].op = "move",
             stage \in {"unlink", "rmdir"} => ask[r].op = "remove" /\ ask[r].path # <<>>,
             stage \in {"parents", "rename"} /\ ask[r].op = "move" => ask[r].path # <<>>,
             stage \in {"rmtree", "sweep"} =>
                /\ ask[r].op \in {"remove", "move"} /\ ask[r].path # <<>>
                /\ ask[r].op = "remove" => ask[r].recursive,
             stage = "stat" => ask[r].op \in {"stat", "write", "mkdir", "move"},
             stage = "mkdir" => ask[r].op = "mkdir",
             stage = "fill" => w \in Nodes /\ what'[w] \notin {"dir", "free"},
             stage # "done"
      PROVE  RequestsOK'
  <2>1. Elsewhere(r) /\ at'[r] = stage /\ work'[r] = w /\ ask' = ask
    BY <1>1, <1>3, GotoStep
  <2>2. RequestOK(r)'
    BY <1>3, <2>1 DEF RequestOK
  <2> QED
    BY <1>1, <2>1, <2>2, OthersOK
<1>4. Statuses = {"ok", "not_found", "conflict", "refused", "error"}
      /\ \A p : Existing(p) \in Statuses
  BY DEF Statuses, Existing
<1>5. CASE \E q \in Asks : Admit(r, q)
  <2>1. PICK q \in Asks : Admit(r, q)
    BY <1>5
  <2>2. Elsewhere(r) /\ at'[r] = "open" /\ ask'[r] = q
    BY <1>1, <2>1 DEF Admit, Elsewhere, RequestsOK
  <2>3. RequestOK(r)'
    BY <2>2 DEF RequestOK
  <2> QED
    BY <1>1, <2>2, <2>3, OthersOK
<1>6. CASE Decline(r)
  BY <1>2, <1>4, <1>6 DEF Decline, Says
<1>7. CASE Open(r)
  BY <1>1, <1>3, <1>7 DEF Open
<1>8. CASE Look(r)
  <2>1. CASE Verdict(ask[r]) = "ok"
    BY <1>1, <1>3, <1>8, <2>1, LookStep DEF Look
  <2>2. CASE Verdict(ask[r]) # "ok"
    BY <1>1, <1>2, <1>8, <2>2, LookStep DEF Look
  <2> QED
    BY <2>1, <2>2
<1>9. CASE ReadBytes(r) \/ Stat(r) \/ RemoveFile(r) \/ RemoveDir(r) \/ ListEnds(r)
  <2>1. \E status \in Statuses : \E result : Answer(r, status, result)
    BY <1>4, <1>9 DEF ReadBytes, Stat, RemoveFile, RemoveDir, ListEnds, Says
  <2> QED
    BY <1>2, <2>1
<1>10. CASE IterDir(r) \/ Entry(r)
  <2>1. \/ \E status \in Statuses : \E result : Answer(r, status, result)
        \/ \E w : Goto(r, "entries", w)
    BY <1>4, <1>10 DEF IterDir, Entry, Says
  <2>2. ask[r] \in Asks
    BY <1>1, <1>10 DEF IterDir, Entry
  <2> QED
    BY <1>2, <1>3, <2>1, <2>2
<1>11. CASE Parents(r)
  <2>1. CASE Says(r, "conflict")
    BY <1>2, <1>4, <2>1 DEF Says
  <2>2. CASE Goto(r, IF ask[r].op = "write" THEN "write" ELSE "rename", NoWork)
    BY <1>1, <1>3, <1>11, <2>2 DEF Parents, RequestOK
  <2> QED
    BY <1>11, <2>1, <2>2 DEF Parents
<1>12. CASE OpenFile(r)
  <2>1. CASE Says(r, "conflict") \/ Says(r, "error")
    BY <1>2, <1>4, <2>1 DEF Says
  <2>2. CASE \E n \in Nodes : Goto(r, "fill", n) /\ what'[n] \notin {"dir", "free"}
    BY <1>1, <1>3, <1>12, <2>2 DEF OpenFile, RequestOK
  <2> QED
    BY <1>12, <2>1, <2>2, OpenFileTree
<1>13. CASE Fill(r)
  BY <1>1, <1>3, <1>13 DEF Fill, RequestOK
<1>14. CASE MakeDir(r)
  <2>1. CASE Says(r, "conflict") \/ Says(r, "not_found")
    BY <1>2, <1>4, <2>1 DEF Says
  <2>2. CASE Goto(r, "stat", NoWork)
    BY <1>1, <1>3, <1>14, <2>2 DEF MakeDir, RequestOK
  <2> QED
    BY <1>14, <2>1, <2>2 DEF MakeDir
<1>15. CASE Move(r)
  <2>1. CASE Says(r, "conflict")
    BY <1>2, <1>4, <2>1 DEF Says
  <2>2. CASE Goto(r, "stat", NoWork) \/ Goto(r, "rmtree", NoWork)
    BY <1>1, <1>3, <1>15, <2>2 DEF Move, RequestOK
  <2> QED
    BY <1>15, <2>1, <2>2 DEF Move
<1> QED
  BY <1>5, <1>6, <1>7, <1>8, <1>9, <1>10, <1>11, <1>12, <1>13, <1>14, <1>15 DEF Serve

LEMMA SweepRequests ==
    ASSUME RequestsOK, NodesKeep, NEW r \in Threads, at[r] \in {"rmtree", "sweep"},
           SweepFails(r) \/ (\E w : Goto(r, "sweep", w)) \/ SweepEnds(r)
    PROVE  RequestsOK'
<1>1. /\ r \in Actors /\ r # Deleter /\ RequestOK(r) /\ ask[r] \in Asks
      /\ ask[r].op \in {"remove", "move"} /\ ask[r].path # <<>>
      /\ ask[r].op = "remove" => ask[r].recursive
  BY FilesystemAssumption DEF Actors, RequestsOK, RequestOK
<1>2. CASE \E status \in Statuses : Answer(r, status, NoWork)
  <2>1. Elsewhere(r) /\ at'[r] = "done" /\ answer'[r][1] \in Statuses
    BY <1>2, AnswerStep
  <2>2. RequestOK(r)'
    BY <2>1 DEF RequestOK
  <2> QED
    BY <1>1, <2>1, <2>2, OthersOK
<1>3. CASE \E w : Goto(r, "sweep", w)
  <2>1. Elsewhere(r) /\ at'[r] = "sweep" /\ ask' = ask
    BY <1>1, <1>3, GotoStep
  <2>2. RequestOK(r)'
    BY <1>1, <2>1 DEF RequestOK
  <2> QED
    BY <1>1, <2>1, <2>2, OthersOK
<1>4. CASE ask[r].op = "move" /\ Goto(r, "stat", NoWork)
  <2>1. Elsewhere(r) /\ at'[r] = "stat" /\ ask' = ask
    BY <1>1, <1>4, GotoStep
  <2>2. RequestOK(r)'
    BY <1>1, <1>4, <2>1 DEF RequestOK
  <2> QED
    BY <1>1, <2>1, <2>2, OthersOK
<1> QED
  BY <1>1, <1>2, <1>3, <1>4 DEF SweepFails, SweepEnds, Statuses

\* A step of a request admits it, answers it, or takes it a step further.
LEMMA RequestStep ==
    ASSUME RequestsOK, NEW r \in Threads, Serve(r) \/ RemoveTree(r)
    PROVE  /\ Elsewhere(r)
           /\ \/ \E q \in Asks : Admit(r, q)
              \/ \E status, result : Answer(r, status, result)
              \/ \E stage, w : Goto(r, stage, w) /\ stage # "new"
<1>1. r \in Actors /\ r # Deleter /\ (at[r] \notin {"new", "done"} => ask[r] \in Asks)
  BY FilesystemAssumption DEF Actors, RequestsOK, RequestOK
<1>2. \/ \E q \in Asks : Admit(r, q)
      \/ \E status, result : Answer(r, status, result)
      \/ \E stage, w : Goto(r, stage, w) /\ stage # "new"
  <2>1. CASE \E q \in Asks : Admit(r, q)
    BY <2>1
  <2>2. CASE Decline(r) \/ Open(r) \/ ReadBytes(r) \/ Stat(r) \/ IterDir(r) \/ Entry(r) \/ ListEnds(r)
    BY <2>2 DEF Decline, Open, ReadBytes, Stat, IterDir, Entry, ListEnds, Says
  <2>3. CASE Look(r)
    <3>1. ask[r] \in Asks /\ (Verdict(ask[r]) = "ok" => Begins(ask[r]) # "new")
      BY <1>1, <2>3, LookStep DEF Look
    <3> QED
      BY <2>3, <3>1 DEF Look
  <2>4. CASE Parents(r)
    BY <2>4 DEF Parents, Says
  <2>5. CASE OpenFile(r)
    BY <2>5 DEF OpenFile, Says
  <2>6. CASE Fill(r) \/ MakeDir(r) \/ Move(r)
    BY <2>6 DEF Fill, MakeDir, Move, Says
  <2>7. CASE RemoveFile(r) \/ RemoveDir(r)
    BY <2>7 DEF RemoveFile, RemoveDir, Says
  <2>8. CASE RemoveTree(r)
    <3>1. SweepFails(r) => \E status, result : Answer(r, status, result)
      BY <1>1 DEF SweepFails
    <3>2. SweepEnds(r) => \/ \E status, result : Answer(r, status, result)
                          \/ \E stage, w : Goto(r, stage, w) /\ stage # "new"
      BY <1>1 DEF SweepEnds
    <3>3. CASE RmTree(r)
      BY <3>1, <3>3 DEF RmTree
    <3>4. CASE Sweep(r)
      BY <3>1, <3>4 DEF Sweep
    <3>5. CASE SweepDir(r)
      BY <3>1, <3>2, <3>5 DEF SweepDir
    <3> QED
      BY <2>8, <3>3, <3>4, <3>5 DEF RemoveTree
  <2> QED
    BY <2>1, <2>2, <2>3, <2>4, <2>5, <2>6, <2>7, <2>8 DEF Serve
<1>3. (\E q \in Asks : Admit(r, q)) => Elsewhere(r)
  BY <1>1 DEF Admit, Elsewhere, RequestsOK
<1> QED
  BY <1>1, <1>2, <1>3, AnswerStep, GotoStep

\* A request only starts, and goes on, while the sandbox runs or when the delete
\* found it under way.
LEMMA RequestDelete ==
    ASSUME TreeOK, RequestsOK, DeleteOK, RootStays, NEW r \in Threads,
           \/ Serve(r)
           \/ /\ at[r] \in {"rmtree", "sweep"}
              /\ SweepFails(r) \/ (\E w : Goto(r, "sweep", w)) \/ SweepEnds(r)
    PROVE  DeleteOK'
<1>1. r \in Actors /\ r # Deleter /\ Deleter \in Actors
  BY FilesystemAssumption DEF Actors
<1>2. CASE \E q \in Asks : Admit(r, q)
  <2>1. PICK q \in Asks : Admit(r, q)
    BY <1>2
  <2>2. /\ sandbox = "running" /\ sandbox' = "running" /\ late' = late
        /\ at'[Deleter] = at[Deleter] /\ ask'[Deleter] = ask[Deleter]
    BY <1>1, <2>1 DEF Admit, RequestsOK
  <2> QED
    BY <2>2 DEF DeleteOK, RootStays
<1>3. CASE Decline(r)
  <2>1. UNCHANGED disk /\ at[r] = "new"
        /\ Answer(r, IF sandbox = "gone" THEN "not_found" ELSE "refused", NoWork)
    BY <1>3 DEF Decline, Says
  <2>2. /\ Elsewhere(r) /\ at'[r] = "done" /\ ask' = ask /\ sandbox' = sandbox
        /\ late' = late /\ at'[Deleter] = at[Deleter]
    BY <2>1, AnswerStep
  <2>3. \A o \in Threads : at[o] \in {"new", "done"} => at'[o] \in {"new", "done"}
    BY <2>2 DEF Elsewhere
  <2>4. Has(<<>>)' <=> Has(<<>>)
    BY <2>1 DEF disk, Has
  <2> QED
    BY <2>2, <2>3, <2>4 DEF DeleteOK, RootStays
<1>4. CASE at[r] \notin {"new", "done"} /\
           ((\E status, result : Answer(r, status, result)) \/ \E stage, w : Goto(r, stage, w))
  <2>1. /\ ask' = ask /\ sandbox' = sandbox /\ late' = late
        /\ at'[Deleter] = at[Deleter]
    BY <1>1, <1>4, AnswerStep, GotoStep
  <2>2. sandbox # "running" => late
    BY <1>4 DEF DeleteOK
  <2> QED
    BY <2>1, <2>2 DEF DeleteOK, RootStays
<1>5. CASE Serve(r) /\ at[r] # "new"
  <2>1. /\ at[r] \notin {"new", "done"}
        /\ (\E status, result : Answer(r, status, result)) \/ \E stage, w : Goto(r, stage, w)
    <3>1. CASE Open(r) \/ Look(r) \/ ReadBytes(r) \/ Stat(r) \/ IterDir(r) \/ Entry(r) \/ ListEnds(r)
      BY <3>1 DEF Open, Look, ReadBytes, Stat, IterDir, Entry, ListEnds, Says
    <3>2. CASE Parents(r) \/ OpenFile(r) \/ Fill(r) \/ MakeDir(r) \/ Move(r)
      BY <3>2 DEF Parents, OpenFile, Fill, MakeDir, Move, Says
    <3>3. CASE RemoveFile(r) \/ RemoveDir(r)
      BY <3>3 DEF RemoveFile, RemoveDir, Says
    <3> QED
      BY <1>5, <3>1, <3>2, <3>3 DEF Serve, Admit, Decline
  <2> QED
    BY <1>4, <2>1
<1>6. CASE Serve(r) /\ at[r] = "new"
  <2>1. (\E q \in Asks : Admit(r, q)) \/ Decline(r)
    BY <1>6 DEF Serve, Open, Look, ReadBytes, Stat, IterDir, Entry, ListEnds, Parents,
                OpenFile, Fill, MakeDir, Move, RemoveFile, RemoveDir
  <2> QED
    BY <1>2, <1>3, <2>1
<1>7. CASE /\ at[r] \in {"rmtree", "sweep"}
           /\ SweepFails(r) \/ (\E w : Goto(r, "sweep", w)) \/ SweepEnds(r)
  BY <1>1, <1>4, <1>7 DEF SweepFails, SweepEnds
<1> QED
  BY <1>5, <1>6, <1>7

\* The delete notes what is under way, and the sandbox is gone when its root is.
LEMMA DeleterStep ==
    ASSUME TreeOK, RequestsOK, DeleteOK, Delete \/ RemoveTree(Deleter)
    PROVE  /\ TreeOK' /\ RequestsOK' /\ DeleteOK' /\ NodesKeep /\ Elsewhere(Deleter)
           /\ \A r \in Threads : at'[r] = at[r] /\ ask'[r] = ask[r] /\ answer'[r] = answer[r]
<1>1. Deleter \in Actors /\ Deleter \notin Threads
  BY FilesystemAssumption DEF Actors
<1>2. CASE Delete
  <2>1. UNCHANGED disk /\ TreeOK' /\ NodesKeep /\ RootStays
    BY <1>2, SameTree DEF Delete, RootStays
  <2>2. /\ at[Deleter] = "new" /\ at'[Deleter] = "rmtree" /\ Elsewhere(Deleter)
        /\ sandbox' = "killing" /\ late' \in BOOLEAN /\ ask' = ask
        /\ \A r \in Threads : at'[r] = at[r]
        /\ late' <=> \E r \in Threads : at[r] \notin {"new", "done"}
    BY <1>1, <1>2 DEF Delete, Elsewhere, RequestsOK
  <2>3. sandbox # "gone"
    BY <2>2 DEF DeleteOK
  <2>4. DeleteOK'
    BY <2>1, <2>2, <2>3 DEF DeleteOK, RootStays
  <2>5. RequestsOK'
    BY <1>1, <2>1, <2>2, OthersOK
  <2> QED
    BY <1>1, <2>1, <2>2, <2>4, <2>5 DEF Elsewhere
<1>3. CASE RemoveTree(Deleter)
  <2>1. sandbox = "killing" /\ at[Deleter] \in {"rmtree", "sweep"}
    BY <1>3 DEF DeleteOK, RemoveTree, RmTree, Sweep, SweepDir
  <2>2. /\ TreeOK' /\ NodesKeep
        /\ \/ RootStays /\ DeleteEnds("running")
           \/ RootStays /\ \E w : Goto(Deleter, "sweep", w)
           \/ DeleteEnds("gone") /\ ~Has(<<>>)'
    BY <1>1, <1>3, SweepTree DEF SweepFails
  <2>3. CASE \E w : Goto(Deleter, "sweep", w)
    <3>1. /\ Elsewhere(Deleter) /\ at'[Deleter] = "sweep"
          /\ ask' = ask /\ sandbox' = sandbox /\ late' = late
      BY <1>1, <2>3, GotoStep
    <3>2. RootStays
      <4>1. ~DeleteEnds("gone")
        BY <2>1, <3>1 DEF DeleteEnds
      <4> QED
        BY <2>2, <4>1
    <3>3. \A r \in Threads : at'[r] = at[r]
      BY <1>1, <3>1 DEF Elsewhere
    <3>4. DeleteOK'
      BY <2>1, <3>1, <3>2, <3>3 DEF DeleteOK, RootStays
    <3> QED
      BY <1>1, <2>2, <3>1, <3>4, OthersOK DEF Elsewhere
  <2>4. ASSUME NEW state \in {"running", "gone"}, DeleteEnds(state),
               state = "running" => RootStays, state = "gone" => ~Has(<<>>)'
        PROVE  DeleteOK' /\ Elsewhere(Deleter)
    <3>1. /\ Elsewhere(Deleter) /\ at'[Deleter] = "done" /\ sandbox' = state
          /\ ask' = ask /\ late' = late
          /\ \A r \in Threads : at'[r] = at[r]
      BY <2>4, DeleteEndsStep
    <3>2. IsDir(<<>>)
      BY <2>1 DEF DeleteOK
    <3> QED
      BY <2>1, <2>4, <3>1, <3>2 DEF DeleteOK, RootStays
  <2> QED
    BY <1>1, <2>2, <2>3, <2>4, OthersOK DEF Elsewhere
<1> QED
  BY <1>2, <1>3

\* A request that has changed files stays one that may have, and a step that
\* changes files belongs to one.
LEMMA ServeChanges ==
    ASSUME TreeOK, RequestsOK, ChangesOK, NEW r \in Threads,
           Serve(r) \/ RemoveTree(r), r \in did \/ Files' # Files
    PROVE  ChangeOK(r)'
<1>1. r \in Actors /\ RequestOK(r) /\ (r \in did => ChangeOK(r))
  BY DEF Actors, RequestsOK, ChangesOK
<1>2. UNCHANGED disk => Files' = Files
  BY SameTree
<1>3. \A w, stage : Goto(r, stage, w) => at'[r] = stage /\ ask' = ask
  BY <1>1, GotoStep
<1>4. \A status, result : Answer(r, status, result) =>
          at'[r] = "done" /\ ask' = ask /\ answer'[r][1] = status
  BY AnswerStep
\* It has a licence for whatever it does.
<1>5. CASE /\ ask[r].op = "move" \/ (ask[r].op = "remove" /\ ask[r].recursive)
           /\ at[r] # "new"
  <2>1. ask'[r] = ask[r] /\ at'[r] # "new"
    <3>1. /\ ~Decline(r) /\ \A q \in Asks : ~Admit(r, q)
      BY <1>5 DEF Decline, Admit
    <3> QED
      BY <1>3, <1>4, <3>1, RequestStep
  <2> QED
    BY <1>5, <2>1 DEF ChangeOK
<1>6. CASE ~(ask[r].op = "move" \/ (ask[r].op = "remove" /\ ask[r].recursive)) \/ at[r] = "new"
  <2>1. ~RemoveTree(r)
    BY <1>1, <1>6 DEF RemoveTree, RmTree, Sweep, SweepDir, RequestOK
  <2>2. r \in did => (ask[r].op = "write" /\ at[r] \in {"fill", "stat"}) \/ at[r] = "done"
    BY <1>1, <1>6 DEF ChangeOK
  <2>3. CASE (\E q \in Asks : Admit(r, q)) \/ Decline(r) \/ Look(r) \/ ReadBytes(r)
             \/ IterDir(r) \/ Entry(r) \/ ListEnds(r)
    <3>1. UNCHANGED disk
      BY <2>3 DEF Admit, Decline, Look, ReadBytes, IterDir, Entry, ListEnds, Says
    <3>2. at[r] \notin {"fill", "stat", "done"}
      BY <2>3 DEF Admit, Decline, Look, ReadBytes, IterDir, Entry, ListEnds
    <3> QED
      BY <1>2, <2>2, <3>1, <3>2
  <2>4. CASE Open(r) \/ Parents(r) \/ MakeDir(r)
    <3>1. Files' = Files
      BY <2>4, OpenTree, ParentsTree, MakeDirTree
    <3>2. at[r] \notin {"fill", "stat", "done"}
      BY <2>4 DEF Open, Parents, MakeDir
    <3> QED
      BY <2>2, <3>1, <3>2
  <2>5. CASE Stat(r)
    <3>1. UNCHANGED disk /\ at[r] = "stat"
      BY <2>5 DEF Stat
    <3>2. r \in did /\ ask[r].op = "write"
      BY <1>2, <2>2, <3>1
    <3>3. \E result : Answer(r, Existing(Subject(ask[r])), result)
      BY <2>5 DEF Stat
    <3>4. at'[r] = "done" /\ ask' = ask /\ answer'[r][1] # "conflict"
      BY <1>4, <3>3 DEF Existing
    <3> QED
      BY <3>2, <3>4 DEF ChangeOK
  <2>6. CASE OpenFile(r)
    <3>1. at[r] = "write" /\ ask[r].op = "write" /\ r \notin did
      BY <1>1, <2>2, <2>6 DEF OpenFile, RequestOK
    <3>2. \E n \in Nodes : Goto(r, "fill", n)
      BY <1>2, <2>6, <3>1, OpenFileTree
    <3> QED
      BY <1>3, <3>1, <3>2 DEF ChangeOK
  <2>7. CASE Fill(r)
    <3>1. ask[r].op = "write" /\ Goto(r, "stat", NoWork)
      BY <1>1, <2>7 DEF Fill, RequestOK
    <3> QED
      BY <1>3, <3>1 DEF ChangeOK
  <2>8. CASE Move(r)
    BY <1>1, <1>6, <2>8 DEF Move, RequestOK
  <2>9. CASE RemoveFile(r) \/ RemoveDir(r)
    <3>1. at[r] \in {"unlink", "rmdir"} /\ ask[r].op = "remove" /\ r \notin did
      BY <1>1, <2>2, <2>9 DEF RemoveFile, RemoveDir, RequestOK
    <3>2. Answer(r, "ok", NoWork)
      BY <1>2, <2>9, <3>1 DEF RemoveFile, RemoveDir, Says
    <3> QED
      BY <1>4, <3>1, <3>2 DEF ChangeOK
  <2> QED
    BY <2>1, <2>3, <2>4, <2>5, <2>6, <2>7, <2>8, <2>9 DEF Serve
<1> QED
  BY <1>5, <1>6

-----------------------------------------------------------------------------
(* What the steps do to the moves. *)

\* A stack of open directories.
LEMMA Stack ==
    ASSUME NEW w \in Seq(Frames), w # <<>>
    PROVE  /\ Last(w) \in Frames /\ Last(w).dir \in Opened(w)
           /\ Front(w) \in Seq(Frames) /\ Opened(Front(w)) \subseteq Opened(w)
<1>1. Len(w) \in Nat /\ Len(w) \in 1..Len(w) /\ \A i \in 1..Len(w) : w[i] \in Frames
  BY LenProperties, EmptySeq, ElementOfSeq
<1>2. /\ Front(w) \in Seq(Frames) /\ Len(Front(w)) = Len(w) - 1
      /\ \A i \in 1..Len(w) - 1 : Front(w)[i] = w[i]
  BY SMTT(30), <1>1, SubSeqProperties DEF Front
<1> QED
  BY <1>1, <1>2 DEF Last, Opened

LEMMA OpenedNodes ==
    ASSUME NEW w \in Seq(Frames)
    PROVE  Opened(w) \subseteq Nodes
<1>1. \A i \in 1..Len(w) : w[i] \in Frames
  BY ElementOfSeq
<1> QED
  BY <1>1 DEF Opened, Frames

LEMMA Push ==
    ASSUME NEW w \in Seq(Frames), NEW frame \in Frames
    PROVE  /\ Append(w, frame) \in Seq(Frames) /\ Append(w, frame) # <<>>
           /\ Opened(Append(w, frame)) \subseteq Opened(w) \cup {frame.dir}
<1>1. Len(w) \in Nat
  BY LenProperties
<1>2. /\ Append(w, frame) \in Seq(Frames) /\ Append(w, frame) # <<>>
      /\ Len(Append(w, frame)) = Len(w) + 1
      /\ \A i \in 1..Len(w) : Append(w, frame)[i] = w[i]
      /\ Append(w, frame)[Len(w) + 1] = frame
  BY AppendProperties
<1>3. \A i \in 1..Len(w) + 1 : i \in 1..Len(w) \/ i = Len(w) + 1
  BY <1>1
<1> QED
  BY <1>2, <1>3 DEF Opened

\* What a removal opens.
LEMMA FrameStep ==
    ASSUME TreeOK, NEW p \in DOMAIN tree, IsDir(p), NEW name \in STRING \cup {"/"}
    PROVE  /\ Frame(p, name) \in Frames /\ Frame(p, name).dir = tree[p]
           /\ what[tree[p]] = "dir" /\ PathsOf(tree[p]) = {p}
<1>1. p \in Paths /\ tree[p] \in Nodes /\ Len(p) \in Nat
  BY LenProperties DEF TreeOK, Paths
<1>2. ASSUME NEW q \in Subtree(p), Len(q) = Len(p) + 1
      PROVE  Last(q) \in STRING
  <2>1. q \in Seq(STRING)
    BY DEF Subtree, TreeOK, Paths
  <2>2. Len(q) \in 1..Len(q)
    BY <1>1, <1>2
  <2> QED
    BY <2>1, <2>2, ElementOfSeq DEF Last
<1>3. Names(p) \subseteq STRING
  BY <1>2 DEF Names
<1>4. PathsOf(tree[p]) = {p}
  BY DEF PathsOf, TreeOK
<1> QED
  BY <1>1, <1>3, <1>4 DEF Frame, Frames, IsDir

\* An entry of an open directory is below it.
LEMMA ChildStep ==
    ASSUME TreeOK, NEW frame, NEW name \in STRING, NEW p \in Child(frame, name)
    PROVE  p \in DOMAIN tree /\ \E o \in PathsOf(frame.dir) : o \in Paths /\ IsPrefix(o, p)
<1>1. p \in DOMAIN tree
  BY DEF Child
<1>2. PICK o \in PathsOf(frame.dir) : p = Append(o, name)
  BY DEF Child
<1>3. o \in Paths /\ Len(o) \in Nat
  BY LenProperties DEF PathsOf, TreeOK, Paths
<1>4. p \in Paths /\ Len(p) = Len(o) + 1 /\ \A i \in 1..Len(o) : p[i] = o[i]
  BY <1>2, <1>3, AppendProperties DEF Paths
<1>5. IsPrefix(o, p)
  BY <1>3, <1>4, PrefixDef
<1> QED
  BY <1>1, <1>3, <1>5

\* A removed file is one file less, and a removed directory none.
LEMMA UnlinkFiles ==
    ASSUME TreeOK, NEW p \in DOMAIN tree, Unlink(p), ~IsDir(p) \/ Names(p) = {}
    PROVE  /\ \A f : f \in Files' <=> f \in Files /\ f[1] # p
           /\ IsDir(p) => Files' = Files
           /\ \A n \in Nodes : /\ what[n] \in {"dir", "gone"} => what'[n] \in {"dir", "gone"}
                               /\ PathsOf(n)' \subseteq PathsOf(n)
<1>1. /\ NodesKeep /\ DOMAIN tree' = DOMAIN tree \ {p}
      /\ \A q \in DOMAIN tree' : tree'[q] = tree[q] /\ what'[tree[q]] = what[tree[q]]
  BY Leaf, UnlinkTree
<1>2. ASSUME NEW f
      PROVE  f \in Files' <=> f \in Files /\ f[1] # p
  <2>1. ASSUME f \in Files'
        PROVE  f \in Files /\ f[1] # p
    BY <1>1, <2>1, FilesDef, FilesDefNext
  <2>2. ASSUME f \in Files, f[1] # p
        PROVE  f \in Files'
    BY <1>1, <2>2, FilesDef, FilesDefNext
  <2> QED
    BY <2>1, <2>2
<1>3. IsDir(p) => \A f \in Files : f[1] # p
  BY FilesDef DEF IsDir
<1>4. IsDir(p) => Files' = Files
  <2>1. IsDir(p) => \A f : f \in Files' <=> f \in Files
    BY <1>2, <1>3
  <2>2. Files' \subseteq Files
    BY <1>2
  <2>3. IsDir(p) => Files \subseteq Files'
    BY <2>1
  <2> QED
    BY <2>2, <2>3
<1> QED
  BY <1>1, <1>2, <1>4 DEF NodesKeep, PathsOf

\* The files that a move has seen outlast its steps, but for those that remove its
\* source (SweepMoves).
LEMMA ServeKeeps ==
    ASSUME TreeOK, RequestsOK, NEW r \in Threads, MoveOK(r), Serve(r),
           NEW f \in Files \cap seen[r]
    PROVE  \E g \in Files' : g[3] = f[3]
<1> DEFINE s == ask[r].path
           t == Target(ask[r])
<1>1. at[r] \in {"parents", "rename", "rmtree", "sweep", "stat"} /\ ask[r].op = "move"
  BY DEF MoveOK
<1>2. Parents(r) \/ Stat(r) \/ Move(r)
  BY <1>1 DEF Serve, Admit, Decline, Open, Look, ReadBytes, IterDir, Entry, ListEnds,
              OpenFile, Fill, MakeDir, RemoveFile, RemoveDir
<1>3. CASE Files' = Files
  BY <1>3
<1>4. CASE Parents(r)
  BY <1>3, <1>4, ParentsTree
<1>5. CASE UNCHANGED disk
  BY <1>3, <1>5, SameTree
<1>6. CASE Move(r)
  <2>1. /\ ask[r] \in Asks /\ s # <<>> /\ s \in Paths /\ t \in Paths
        /\ t = ask[r].dest => ~IsDir(ask[r].dest)
    <3>1. ask[r] \in Asks /\ s # <<>>
      BY <1>1, <1>6 DEF Move, RequestsOK, RequestOK
    <3> QED
      BY <1>1, <3>1, AskPaths, TargetPath
  \* The file was not at the destination when the move looked.
  <2>2. CASE ~(t # ask[r].dest /\ Has(t)) /\ Renames(s, t) /\ Rename(s, t)
    <3>1. /\ s \in DOMAIN tree /\ ~IsPrefix(s, t)
          /\ Missing(t) = {} /\ ~Blocked(t) /\ (Has(t) => ~IsDir(s))
      BY <2>2 DEF Renames, Has
    <3>2. \A q \in Ancestors(t) : IsDir(q)
      BY <2>1, <3>1, MissingDirs
    <3>3. t \in DOMAIN tree => ~IsDir(s) /\ ~IsDir(t)
      BY <2>1, <2>2, <3>1 DEF Has
    <3>4. f[1] # t
      <4>1. f[1] # ask[r].dest
        BY <1>6 DEF Move, MoveOK
      <4>2. Has(f[1])
        BY FilesDef DEF Has
      <4> QED
        BY <2>2, <4>1, <4>2
    <3> HIDE DEF s, t
    <3> QED
      BY <2>1, <2>2, <3>1, <3>2, <3>3, <3>4, RenameTree
  <2>3. CASE /\ Copies(s, t)
             /\ Make([p \in Missing(t) \cup {Moved(q, s, t) : q \in Subtree(s)} |->
                         IF IsPrefix(t, p) THEN what[tree[Moved(p, t, s)]] ELSE "dir"])
    <3> HIDE DEF s, t
    <3> QED
      BY <2>1, <2>3, CopyTree
  <2> QED
    BY <1>5, <1>6, <2>2, <2>3 DEF Move, Says
<1> QED
  BY <1>2, <1>4, <1>5, <1>6 DEF Stat

\* A move goes on from what it has seen, and removes what it has copied.
LEMMA ServeMoves ==
    ASSUME TreeOK, RequestsOK, NEW r \in Threads, MoveOK(r), Serve(r), Note(r)
    PROVE  MoveOK(r)'
<1>1. r \in Actors /\ RequestOK(r)
  BY DEF Actors, RequestsOK
<1>2. seen'[r] = IF at'[r] = "done" THEN {}
                 ELSE IF at[r] = "look" /\ ask[r].op = "move" THEN Files
                 ELSE seen[r]
  BY DEF Note
<1>3. \A stage, w : Goto(r, stage, w) => at'[r] = stage /\ ask' = ask
  BY <1>1, GotoStep
<1>4. \A status, result : Answer(r, status, result) => at'[r] = "done" /\ ask' = ask
  BY AnswerStep
<1>5. ASSUME seen'[r] = {}, at'[r] \notin {"rmtree", "sweep"}
      PROVE  MoveOK(r)'
  BY <1>5 DEF MoveOK, SweepOK
<1>6. ASSUME at'[r] = "done"
      PROVE  MoveOK(r)'
  BY <1>2, <1>5, <1>6
<1>7. CASE (\E q \in Asks : Admit(r, q)) \/ Open(r) \/ IterDir(r) \/ Entry(r) \/ MakeDir(r)
  <2>1. at[r] \in {"new", "open", "iterdir", "entries", "mkdir"}
    BY <1>7 DEF Admit, Open, IterDir, Entry, MakeDir
  <2>2. at'[r] \in {"open", "look", "entries", "stat", "done"}
    <3>1. CASE \E q \in Asks : Admit(r, q)
      BY <1>1, <3>1 DEF Admit, RequestsOK
    <3>2. CASE Open(r) \/ IterDir(r) \/ Entry(r) \/ MakeDir(r)
      BY <1>3, <1>4, <3>2 DEF Open, IterDir, Entry, MakeDir, Says
    <3> QED
      BY <1>7, <3>1, <3>2
  <2>3. seen'[r] = {}
    BY <1>2, <2>1 DEF MoveOK
  <2> QED
    BY <1>5, <2>2, <2>3
<1>8. CASE Decline(r) \/ ReadBytes(r) \/ Stat(r) \/ ListEnds(r) \/ RemoveFile(r) \/ RemoveDir(r)
  <2>1. at'[r] = "done"
    BY <1>4, <1>8 DEF Decline, ReadBytes, Stat, ListEnds, RemoveFile, RemoveDir, Says
  <2> QED
    BY <1>6, <2>1
<1>9. CASE OpenFile(r) \/ Fill(r)
  <2>1. at[r] \in {"write", "fill"}
    BY <1>9 DEF OpenFile, Fill
  <2>2. at'[r] \in {"fill", "stat", "done"}
    BY <1>3, <1>4, <1>9 DEF OpenFile, Fill, Says
  <2>3. seen'[r] = {}
    BY <1>2, <2>1 DEF MoveOK
  <2> QED
    BY <1>5, <2>2, <2>3
<1>10. CASE Look(r)
  <2>1. ask[r] \in Asks /\ at[r] = "look" /\ seen[r] = {}
    BY <1>1, <1>10 DEF Look, RequestOK, MoveOK
  <2>2. CASE Verdict(ask[r]) # "ok"
    BY <1>4, <1>6, <1>10, <2>2 DEF Look
  <2>3. CASE Verdict(ask[r]) = "ok" /\ ask[r].op # "move"
    <3>1. at'[r] = Begins(ask[r]) /\ ask' = ask
      BY <1>3, <1>10, <2>3 DEF Look
    <3>2. seen'[r] = {} /\ at'[r] # "sweep"
      BY <1>2, <2>1, <2>3, <3>1, LookStep
    <3> QED
      BY <2>3, <3>1, <3>2 DEF MoveOK, SweepOK
  \* Nothing is at the destination of a move that goes on.
  <2>4. CASE Verdict(ask[r]) = "ok" /\ ask[r].op = "move"
    <3>1. ask' = ask /\ at'[r] = "parents"
      BY <1>3, <1>10, <2>4 DEF Look, Begins
    <3>2. ~Has(ask[r].dest)
      BY <2>4 DEF Verdict, AndThen, Existing, Movable, Unless
    <3>3. \A f \in Files : f[1] # ask[r].dest
      BY <3>2, FilesDef DEF Has
    <3>4. seen'[r] = Files
      BY <1>2, <2>1, <2>4, <3>1
    <3> QED
      BY <2>1, <2>4, <3>1, <3>3, <3>4 DEF MoveOK, SweepOK
  <2> QED
    BY <2>2, <2>3, <2>4
<1>11. CASE Parents(r)
  <2>1. CASE at'[r] = "done"
    BY <1>6, <2>1
  <2>2. CASE Goto(r, IF ask[r].op = "write" THEN "write" ELSE "rename", NoWork)
    <3>1. /\ at'[r] = IF ask[r].op = "write" THEN "write" ELSE "rename"
          /\ ask' = ask /\ at[r] = "parents"
      BY <1>3, <1>11, <2>2 DEF Parents
    <3>2. seen'[r] = seen[r]
      BY <1>2, <3>1
    <3> QED
      BY <3>1, <3>2 DEF MoveOK, SweepOK
  <2> QED
    BY <1>4, <1>11, <2>1, <2>2 DEF Parents, Says
<1>12. CASE Move(r) /\ at'[r] \in {"done", "stat"}
  <2>1. seen'[r] = {} \/ (seen'[r] = seen[r] /\ ask'[r] = ask[r])
    BY <1>2, <1>3, <1>4, <1>12 DEF Move, Says
  <2> QED
    BY <1>2, <1>12, <2>1 DEF MoveOK, SweepOK
<1>13. CASE Move(r) /\ at'[r] \notin {"done", "stat"}
  <2> DEFINE s == ask[r].path
             t == Target(ask[r])
  <2>1. /\ Copies(s, t) /\ Goto(r, "rmtree", NoWork)
        /\ Make([p \in Missing(t) \cup {Moved(q, s, t) : q \in Subtree(s)} |->
                    IF IsPrefix(t, p) THEN what[tree[Moved(p, t, s)]] ELSE "dir"])
    BY <1>3, <1>4, <1>13 DEF Move, Says
  <2>2. ask' = ask /\ at'[r] = "rmtree" /\ at[r] = "rename" /\ seen'[r] = seen[r]
    BY <1>2, <1>3, <1>13, <2>1 DEF Move
  <2>3. s \in Paths /\ t \in Paths
    BY <1>1, <2>2, AskPaths, TargetPath DEF RequestOK
  <2>4. \A f \in Files' : IsPrefix(ask'[r].path, f[1]) =>
            \E g \in Files' : ~IsPrefix(ask'[r].path, g[1]) /\ g[3] = f[3]
    <3> HIDE DEF t
    <3> QED
      BY <2>1, <2>2, <2>3, CopyTree
  <2>5. Copied(r)'
    BY <2>4 DEF Copied
  <2> QED
    BY <2>2, <2>5 DEF MoveOK, SweepOK
<1> QED
  BY <1>7, <1>8, <1>9, <1>10, <1>11, <1>12, <1>13 DEF Serve

\* A move that removes its source loses no file, if nobody else has changed one:
\* what it has open is in the source, and all there is in the source is elsewhere too.
LEMMA SweepMoves ==
    ASSUME TreeOK, RequestsOK, NEW r \in Threads, MoveOK(r), RemoveTree(r), Note(r)
    PROVE  /\ MoveOK(r)'
           /\ did \subseteq {r} /\ ask[r].op = "move" =>
                 \A f \in Files : \E g \in Files' : g[3] = f[3]
<1> DEFINE s == ask[r].path
           w == work[r]
           Alone == did \subseteq {r} /\ ask[r].op = "move"
           Kept == \A f \in Files : \E g \in Files' : g[3] = f[3]
<1>1. r \in Actors /\ r # Deleter /\ at[r] \in {"rmtree", "sweep"}
  BY FilesystemAssumption DEF Actors, RemoveTree, RmTree, Sweep, SweepDir
<1>2. s \in Paths /\ ask[r].op \in {"move", "remove"}
  BY <1>1, AskPaths DEF RequestsOK, RequestOK
<1>3. /\ seen'[r] = IF at'[r] = "done" THEN {} ELSE seen[r]
      /\ did \subseteq did'
  BY <1>1 DEF Note
<1>4. Alone => Copied(r)
  BY <1>1 DEF MoveOK
<1>5. at[r] = "sweep" => /\ w \in Seq(Frames) /\ w # <<>>
                         /\ \A n \in Opened(w) : n \in Nodes /\ what[n] \in {"dir", "gone"}
                         /\ Alone => Within(r)
  BY OpenedNodes DEF MoveOK, SweepOK
\* It ends.
<1>6. ASSUME \/ \E status, result : Answer(r, status, result)
             \/ Goto(r, "stat", NoWork)
      PROVE  MoveOK(r)'
  <2>1. ask' = ask /\ at'[r] \in {"done", "stat"}
    BY <1>1, <1>6, AnswerStep, GotoStep
  <2> QED
    BY <1>1, <1>3, <2>1 DEF MoveOK, SweepOK
\* It goes on, with v open.
<1>7. ASSUME NEW v, Goto(r, "sweep", v), v \in Seq(Frames), v # <<>>,
             \A n \in Opened(v) : what'[n] \in {"dir", "gone"},
             Alone => /\ \A f \in Files' : IsPrefix(s, f[1]) =>
                            \E g \in Files' : ~IsPrefix(s, g[1]) /\ g[3] = f[3]
                      /\ \A n \in Opened(v) : \A p \in PathsOf(n)' :
                            \A f \in Files' : IsPrefix(p, f[1]) => IsPrefix(s, f[1])
      PROVE  MoveOK(r)'
  <2>1. ask' = ask /\ at'[r] = "sweep" /\ work'[r] = v
    BY <1>1, <1>7, GotoStep
  <2>2. SweepOK(r)'
    BY <1>7, <2>1 DEF SweepOK, Opened
  <2>3. Alone => Copied(r)' /\ Within(r)'
    BY <1>7, <2>1 DEF Copied, Within, Opened
  <2> QED
    BY <1>1, <1>3, <2>1, <2>2, <2>3 DEF MoveOK
<1>8. UNCHANGED disk =>
          /\ Files' = Files /\ what' = what /\ Kept
          /\ \A n : PathsOf(n)' = PathsOf(n)
  BY SameTree DEF disk, PathsOf
<1>9. CASE SweepFails(r)
  BY <1>1, <1>6, <1>8, <1>9 DEF SweepFails
<1>10. CASE RmTree(r)
  <2>1. CASE IsDir(s)
    <3> DEFINE frame == Frame(s, "/")
    <3>1. UNCHANGED disk /\ Goto(r, "sweep", <<frame>>)
      BY <1>10, <2>1 DEF RmTree
    <3>2. frame \in Frames /\ frame.dir = tree[s] /\ what[tree[s]] = "dir" /\ PathsOf(tree[s]) = {s}
      <4>1. s \in DOMAIN tree
        BY <2>1 DEF IsDir, Has
      <4> HIDE DEF s
      <4> QED
        BY <2>1, <4>1, FrameStep
    <3> DEFINE v == <<frame>>
    <3>3. v \in Seq(Frames) /\ v # <<>> /\ Opened(v) = {tree[s]} /\ Goto(r, "sweep", v)
      BY <3>1, <3>2 DEF Opened
    <3> HIDE DEF frame, v
    <3>4. \A n \in Opened(v) : what'[n] \in {"dir", "gone"}
      BY <1>8, <3>1, <3>2, <3>3
    <3>5. \A n \in Opened(v) : \A p \in PathsOf(n)' :
              \A f \in Files' : IsPrefix(p, f[1]) => IsPrefix(s, f[1])
      BY <1>8, <3>1, <3>2, <3>3
    <3>6. Alone => \A f \in Files' : IsPrefix(s, f[1]) =>
                       \E g \in Files' : ~IsPrefix(s, g[1]) /\ g[3] = f[3]
      BY <1>4, <1>8, <3>1 DEF Copied
    <3> QED
      BY <1>7, <1>8, <3>1, <3>3, <3>4, <3>5, <3>6
  <2> QED
    BY <1>9, <1>10, <2>1 DEF RmTree
<1>11. CASE Sweep(r)
  <2> DEFINE top == Last(w)
             cut(name) == [top EXCEPT !.left = @ \ {name}]
             rest(name) == Append(Front(w), cut(name))
  <2>1. PICK name \in top.left :
          \/ SweepFails(r)
          \/ \E p \in Child(top, name) :
                IF IsDir(p)
                THEN Goto(r, "sweep", Append(rest(name), Frame(p, name))) /\ UNCHANGED disk
                ELSE Goto(r, "sweep", rest(name)) /\ Unlink(p)
    BY <1>11 DEF Sweep
  <2>2. at[r] = "sweep" /\ w \in Seq(Frames) /\ w # <<>> /\ name \in STRING
        /\ top \in Frames /\ top.dir \in Opened(w)
    BY <1>5, <1>11, Stack DEF Sweep, Frames
  <2>3. rest(name) \in Seq(Frames) /\ rest(name) # <<>> /\ Opened(rest(name)) \subseteq Opened(w)
    <3>1. cut(name) \in Frames /\ cut(name).dir = top.dir
      BY <2>2 DEF Frames
    <3>2. Front(w) \in Seq(Frames) /\ Opened(Front(w)) \subseteq Opened(w)
      BY <2>2, Stack
    <3> HIDE DEF cut, top
    <3>3. /\ rest(name) \in Seq(Frames) /\ rest(name) # <<>>
          /\ Opened(rest(name)) \subseteq Opened(Front(w)) \cup {cut(name).dir}
      BY <3>1, <3>2, Push
    <3> QED
      BY <2>2, <3>1, <3>2, <3>3
  <2> HIDE DEF rest
  <2>4. ASSUME NEW p \in Child(top, name)
        PROVE  /\ p \in DOMAIN tree
               /\ Alone => \A f \in Files : IsPrefix(p, f[1]) => IsPrefix(s, f[1])
    <3>1. p \in DOMAIN tree /\ \E o \in PathsOf(top.dir) : o \in Paths /\ IsPrefix(o, p)
      BY <2>2, ChildStep
    <3>2. \A q \in DOMAIN tree : q \in Paths
      BY DEF TreeOK
    <3>3. \A f \in Files : f[1] \in DOMAIN tree
      BY FilesDef
    <3> QED
      BY <1>5, <2>2, <3>1, <3>2, <3>3, PrefixOrder DEF Within
  <2>5. ASSUME NEW p \in Child(top, name), IsDir(p), UNCHANGED disk,
               Goto(r, "sweep", Append(rest(name), Frame(p, name)))
        PROVE  MoveOK(r)' /\ Kept
    <3>1. /\ Frame(p, name) \in Frames /\ Frame(p, name).dir = tree[p]
          /\ what[tree[p]] = "dir" /\ PathsOf(tree[p]) = {p}
      BY <2>2, <2>4, <2>5, FrameStep
    <3> DEFINE v == Append(rest(name), Frame(p, name))
    <3>2. v \in Seq(Frames) /\ v # <<>> /\ Opened(v) \subseteq Opened(w) \cup {tree[p]}
      BY <2>3, <3>1, Push
    <3>3. Goto(r, "sweep", v)
      BY <2>5
    <3> HIDE DEF v
    <3>4. \A n \in Opened(v) : what'[n] \in {"dir", "gone"}
      BY <1>5, <1>8, <2>2, <2>5, <3>1, <3>2
    <3>5. Alone => \A n \in Opened(v) : \A q \in PathsOf(n)' :
                       \A f \in Files' : IsPrefix(q, f[1]) => IsPrefix(s, f[1])
      BY <1>5, <1>8, <2>2, <2>4, <2>5, <3>1, <3>2 DEF Within
    <3>6. Alone => \A f \in Files' : IsPrefix(s, f[1]) =>
                       \E g \in Files' : ~IsPrefix(s, g[1]) /\ g[3] = f[3]
      BY <1>4, <1>8, <2>5 DEF Copied
    <3> QED
      BY <1>7, <1>8, <2>5, <3>2, <3>3, <3>4, <3>5, <3>6
  <2>6. ASSUME NEW p \in Child(top, name), ~IsDir(p), Unlink(p), Goto(r, "sweep", rest(name))
        PROVE  MoveOK(r)' /\ (Alone => Kept)
    <3>1. /\ \A f : f \in Files' <=> f \in Files /\ f[1] # p
          /\ \A n \in Nodes : /\ what[n] \in {"dir", "gone"} => what'[n] \in {"dir", "gone"}
                              /\ PathsOf(n)' \subseteq PathsOf(n)
      BY <2>4, <2>6, UnlinkFiles
    <3>2. Alone => IsPrefix(s, p)
      <4>1. <<p, tree[p], what[tree[p]]>> \in Files
        BY <2>4, <2>6, FilesDef DEF IsDir, Has
      <4>2. p \in Paths /\ IsPrefix(p, p)
        BY <2>4, PrefixOrder DEF TreeOK
      <4> QED
        BY <2>4, <4>1, <4>2
    <3>3. Alone => \A f \in Files : IsPrefix(s, f[1]) =>
                       \E g \in Files' : ~IsPrefix(s, g[1]) /\ g[3] = f[3]
      BY <1>4, <3>1, <3>2 DEF Copied
    <3>4. Alone => Kept
      BY <3>1, <3>2, <3>3
    <3>5. Alone => \A n \in Opened(rest(name)) : \A q \in PathsOf(n)' :
                       \A f \in Files' : IsPrefix(q, f[1]) => IsPrefix(s, f[1])
      BY <1>5, <2>2, <2>3, <3>1 DEF Within
    <3>6. \A n \in Opened(rest(name)) : what'[n] \in {"dir", "gone"}
      BY <1>5, <2>2, <2>3, <3>1
    <3> QED
      BY <1>7, <2>3, <2>6, <3>1, <3>3, <3>4, <3>5, <3>6
  <2>7. CASE SweepFails(r)
    BY <1>9, <2>7
  <2> QED
    BY <2>1, <2>5, <2>6, <2>7
<1>12. CASE SweepDir(r)
  <2> DEFINE above == Front(w)
  <2>1. CASE SweepFails(r)
    BY <1>9, <2>1
  <2>2. ASSUME NEW p, IsDir(p), Names(p) = {}, Unlink(p),
               IF above = <<>> THEN SweepEnds(r) ELSE Goto(r, "sweep", above)
        PROVE  MoveOK(r)' /\ Kept
    <3>1. /\ Files' = Files
          /\ \A n \in Nodes : /\ what[n] \in {"dir", "gone"} => what'[n] \in {"dir", "gone"}
                              /\ PathsOf(n)' \subseteq PathsOf(n)
      BY <2>2, UnlinkFiles DEF IsDir, Has
    <3>2. at[r] = "sweep" /\ above \in Seq(Frames) /\ Opened(above) \subseteq Opened(w)
      BY <1>5, <1>12, Stack DEF SweepDir
    <3>3. CASE above = <<>>
      BY <1>1, <1>6, <2>2, <3>1, <3>3 DEF SweepEnds
    <3>4. CASE above # <<>>
      <4> HIDE DEF above
      <4>1. Alone => \A n \in Opened(above) : \A q \in PathsOf(n)' :
                         \A f \in Files' : IsPrefix(q, f[1]) => IsPrefix(s, f[1])
        BY <1>5, <3>1, <3>2 DEF Within
      <4>2. \A n \in Opened(above) : what'[n] \in {"dir", "gone"}
        BY <1>5, <3>1, <3>2
      <4>3. Alone => \A f \in Files' : IsPrefix(s, f[1]) =>
                         \E g \in Files' : ~IsPrefix(s, g[1]) /\ g[3] = f[3]
        BY <1>4, <3>1 DEF Copied
      <4> QED
        BY <1>7, <2>2, <3>1, <3>2, <3>4, <4>1, <4>2, <4>3
    <3> QED
      BY <3>3, <3>4
  <2>3. \/ SweepFails(r)
        \/ \E p : /\ IsDir(p) /\ Names(p) = {} /\ Unlink(p)
                  /\ IF above = <<>> THEN SweepEnds(r) ELSE Goto(r, "sweep", above)
    BY <1>12 DEF SweepDir
  <2> QED
    BY <2>1, <2>2, <2>3
<1> QED
  BY <1>10, <1>11, <1>12 DEF RemoveTree

\* The moves of the others are as they were, unless the step changes a file.
LEMMA OthersMoves ==
    ASSUME NodesKeep, NEW x \in Actors, Elsewhere(x), Note(x),
           NEW o \in Threads, o # x, MoveOK(o)
    PROVE  MoveOK(o)'
<1>1. /\ at'[o] = at[o] /\ work'[o] = work[o] /\ ask'[o] = ask[o] /\ seen'[o] = seen[o]
      /\ did' \subseteq {o} => did \subseteq {o} /\ Files' = Files
  BY DEF Elsewhere, Note
<1>2. at[o] = "sweep" => \A n \in Opened(work[o]) : n \in Nodes /\ what[n] \in {"dir", "gone"}
  BY OpenedNodes DEF MoveOK, SweepOK
<1>3. SweepOK(o)'
  <2>1. at[o] = "sweep" => \A n \in Opened(work[o]) : what'[n] \in {"dir", "gone"}
    BY <1>2 DEF NodesKeep
  <2> QED
    BY <1>1, <2>1 DEF MoveOK, SweepOK, Opened
<1>4. Files' = Files /\ Copied(o) => Copied(o)'
  BY <1>1 DEF Copied
<1>5. Files' = Files /\ Within(o) /\ at[o] = "sweep" => Within(o)'
  <2> SUFFICES ASSUME Files' = Files, Within(o), at[o] = "sweep",
                      NEW n \in Opened(work[o]), NEW p \in PathsOf(n)',
                      NEW f \in Files, IsPrefix(p, f[1])
               PROVE  IsPrefix(ask[o].path, f[1])
    BY <1>1 DEF Within, Opened
  <2>1. p \in PathsOf(n)
    BY <1>2 DEF NodesKeep, PathsOf
  <2> QED
    BY <2>1 DEF Within
<1> QED
  BY <1>1, <1>3, <1>4, <1>5 DEF MoveOK

-----------------------------------------------------------------------------
(* The invariant holds. *)

LEMMA FsInit == Init => FsInv
<1> SUFFICES ASSUME Init
             PROVE  FsInv
  OBVIOUS
<1>1. PICK t \in Trees :
        /\ tree = CHOOSE f \in [DOMAIN t -> Nodes] : IsInjective(f)
        /\ what = [n \in Nodes |->
              IF n \notin Range(tree) THEN "free"
              ELSE LET kind == t[CHOOSE p \in DOMAIN t : tree[p] = n]
                   IN IF kind = "file" THEN n ELSE kind]
  BY DEF Init
<1>2. /\ DOMAIN t \subseteq Paths /\ <<>> \in DOMAIN t /\ t[<<>>] = "dir"
      /\ \A p \in DOMAIN t : /\ t[p] \in {"dir", "escape", "file"}
                             /\ \A q \in Ancestors(p) : q \in DOMAIN t /\ t[q] = "dir"
      /\ \E f \in [DOMAIN t -> Nodes] : IsInjective(f)
  BY FilesystemAssumption DEF Ancestors
<1>3. tree \in [DOMAIN t -> Nodes] /\ IsInjective(tree)
  BY <1>1, <1>2
<1>4. \A n \in Nodes : n \in Range(tree) <=> \E p \in DOMAIN tree : tree[p] = n
  BY <1>3 DEF Range
<1>5. ASSUME NEW p \in DOMAIN tree
      PROVE  what[tree[p]] = IF t[p] = "file" THEN tree[p] ELSE t[p]
  <2>1. (CHOOSE o \in DOMAIN t : tree[o] = tree[p]) = p
    BY <1>3 DEF IsInjective
  <2>2. tree[p] \in Nodes /\ tree[p] \in Range(tree)
    BY <1>3, <1>4
  <2> DEFINE o == CHOOSE o \in DOMAIN t : tree[o] = tree[p]
  <2>3. what[tree[p]] = IF t[o] = "file" THEN tree[p] ELSE t[o]
    BY <1>1, <2>2
  <2> QED
    BY <2>1, <2>3
<1>6. \A n \in Nodes : (\A p \in DOMAIN tree : tree[p] # n) => what[n] = "free"
  BY <1>1, <1>4
<1>7. \A p \in DOMAIN tree : what[tree[p]] \in Nodes \cup {"dir", "escape"}
  BY <1>2, <1>3, <1>5
<1>8. \A n \in Nodes : n \notin {"dir", "escape", "free", "gone"}
  BY FilesystemAssumption
<1>9. TreeOK
  <2>1. \A n \in Nodes : what[n] \in Contents \cup {"dir", "escape", "free", "gone"}
    BY <1>6, <1>7 DEF Contents
  <2>2. what \in [Nodes -> Contents \cup {"dir", "escape", "free", "gone"}]
    BY <1>1, <2>1
  <2>3. \A p \in DOMAIN tree : Live(tree[p])
    BY <1>7, <1>8 DEF Live
  <2>4. \A n \in Nodes : Live(n) => \E p \in DOMAIN tree : tree[p] = n
    BY <1>6 DEF Live
  <2>5. \A p \in DOMAIN tree : \A q \in Ancestors(p) : IsDir(q)
    BY <1>2, <1>3, <1>5 DEF IsDir, Has
  <2>6. tree \in [DOMAIN tree -> Nodes] /\ DOMAIN tree \subseteq Paths
    BY <1>2, <1>3
  <2> QED
    BY <1>3, <2>2, <2>3, <2>4, <2>5, <2>6 DEF TreeOK, IsInjective
<1>10. IsDir(<<>>)
  BY <1>2, <1>3, <1>5 DEF IsDir, Has
<1>11. Deleter \in Actors /\ Deleter \notin Threads /\ Threads \subseteq Actors
  BY FilesystemAssumption DEF Actors
<1>12. RequestsOK
  BY <1>11 DEF Init, RequestsOK, RequestOK
<1>13. DeleteOK
  BY <1>10, <1>11 DEF Init, DeleteOK
<1>14. ChangesOK
  BY DEF Init, ChangesOK
<1>15. MovesOK
  BY <1>11 DEF Init, MovesOK, MoveOK, SweepOK
<1> QED
  BY <1>9, <1>12, <1>13, <1>14, <1>15 DEF FsInv

LEMMA FsStep == FsInv /\ [Next]_vars => FsInv'
<1> SUFFICES ASSUME FsInv, [Next]_vars
             PROVE  FsInv'
  OBVIOUS
<1> USE DEF FsInv
<1>1. ASSUME NEW r \in Threads, Serve(r) \/ RemoveTree(r), Note(r)
      PROVE  FsInv'
  <2>1. r \in Actors /\ r # Deleter
    BY FilesystemAssumption DEF Actors
  <2>2. /\ TreeOK' /\ NodesKeep /\ RootStays
        /\ \/ Serve(r)
           \/ /\ at[r] \in {"rmtree", "sweep"}
              /\ SweepFails(r) \/ (\E w : Goto(r, "sweep", w)) \/ SweepEnds(r)
    <3>1. CASE Serve(r)
      BY <3>1, ServeTree
    <3>2. CASE RemoveTree(r)
      <4>1. at[r] \in {"rmtree", "sweep"}
        BY <3>2 DEF RemoveTree, RmTree, Sweep, SweepDir
      <4> QED
        BY <2>1, <3>2, <4>1, SweepTree
    <3> QED
      BY <1>1, <3>1, <3>2
  <2>3. RequestsOK'
    BY <2>2, ServeRequests, SweepRequests
  <2>4. DeleteOK'
    BY <2>2, RequestDelete
  <2>5. /\ did' \subseteq did \cup {r}
        /\ r \in did' => r \in did \/ Files' # Files
    BY <1>1 DEF Note
  <2>6. ASSUME NEW o \in Threads, o \in did'
        PROVE  ChangeOK(o)'
    <3>1. CASE o = r
      BY <1>1, <2>5, <2>6, <3>1, ServeChanges
    <3>2. CASE o # r
      <4>1. ChangeOK(o)
        BY <2>5, <2>6, <3>2 DEF ChangesOK
      <4>2. at'[o] = at[o] /\ ask'[o] = ask[o] /\ answer'[o] = answer[o]
        BY <1>1, <3>2, RequestStep DEF Elsewhere
      <4> QED
        BY <4>1, <4>2 DEF ChangeOK
    <3> QED
      BY <3>1, <3>2
  <2>7. ChangesOK'
    BY <2>1, <2>5, <2>6 DEF ChangesOK
  <2>8. ASSUME NEW o \in Threads
        PROVE  MoveOK(o)'
    <3>1. MoveOK(o) /\ MoveOK(r)
      BY <2>8 DEF MovesOK
    <3>2. CASE o = r
      BY <1>1, <3>1, <3>2, ServeMoves, SweepMoves
    <3>3. CASE o # r
      BY <1>1, <2>1, <2>2, <3>1, <3>3, RequestStep, OthersMoves
    <3> QED
      BY <3>2, <3>3
  <2> QED
    BY <2>2, <2>3, <2>4, <2>7, <2>8 DEF MovesOK
<1>2. CASE (Delete \/ RemoveTree(Deleter)) /\ Note(Deleter)
  <2>1. /\ TreeOK' /\ RequestsOK' /\ DeleteOK'
        /\ \A r \in Threads : at'[r] = at[r] /\ ask'[r] = ask[r] /\ answer'[r] = answer[r]
    BY <1>2, DeleterStep
  <2>2. Deleter \in Actors /\ Deleter \notin Threads
    BY FilesystemAssumption DEF Actors
  <2>3. did' \subseteq did \cup {Deleter}
    BY <1>2 DEF Note
  <2>4. ChangesOK'
    BY <2>1, <2>2, <2>3 DEF ChangesOK, ChangeOK
  <2>5. MovesOK'
    <3>1. NodesKeep /\ Elsewhere(Deleter)
      BY <1>2, DeleterStep
    <3> QED
      BY <1>2, <2>2, <3>1, OthersMoves DEF MovesOK
  <2> QED
    BY <2>1, <2>4, <2>5
<1>3. CASE UNCHANGED vars
  <2>1. UNCHANGED disk
    BY <1>3 DEF vars, disk
  <2>2. TreeOK' /\ \A p : IsDir(p)' <=> IsDir(p)
    BY <2>1, SameTree
  <2>3. RequestsOK'
    BY <1>3 DEF vars, RequestsOK, RequestOK
  <2>4. DeleteOK'
    BY <1>3, <2>2 DEF vars, DeleteOK, Has
  <2>5. ChangesOK'
    BY <1>3 DEF vars, ChangesOK, ChangeOK
  <2>6. MovesOK'
    <3>1. Files' = Files /\ \A n : PathsOf(n)' = PathsOf(n)
      BY <2>1, SameTree DEF disk, PathsOf
    <3>2. \A r \in Threads : Copied(r)' = Copied(r) /\ Within(r)' = Within(r) /\ SweepOK(r)' = SweepOK(r)
      BY <1>3, <3>1 DEF vars, Copied, Within, SweepOK, Opened
    <3> QED
      BY <1>3, <3>2 DEF vars, MovesOK, MoveOK
  <2> QED
    BY <2>2, <2>3, <2>4, <2>5, <2>6
<1> QED
  BY <1>1, <1>2, <1>3 DEF Next, Quiet

\* FsInv is an invariant of every workspace.
THEOREM FilesystemInvariant == Spec => []FsInv
BY FsInit, FsStep, PTL DEF Spec

\* Whatever requests, an rmtree and the delete do to it in between, the tree stays a
\* tree: every entry is in a directory, has a node of its own, and no node is in
\* use without an entry; and every answer is one of the statuses of the API.
THEOREM TreeStaysATree == Spec => []TypeOK
<1>1. FsInv => TypeOK
  <2> SUFFICES ASSUME FsInv
               PROVE  TypeOK
    OBVIOUS
  <2> USE DEF FsInv
  <2>1. \A p \in DOMAIN tree : IsPrefix(<<>>, p) /\ ~Blocked(p) /\ Missing(p) = {}
    <3> SUFFICES ASSUME NEW p \in DOMAIN tree
                 PROVE  IsPrefix(<<>>, p) /\ ~Blocked(p) /\ Missing(p) = {}
      OBVIOUS
    <3>1. p \in Paths /\ \A q \in Ancestors(p) : IsDir(q)
      BY DEF TreeOK
    <3> QED
      BY <3>1, PrefixOrder DEF Blocked, Missing, IsDir
  <2>2. IsInjective(tree) /\ Range(tree) \subseteq Nodes
    BY DEF TreeOK, IsInjective, Range
  <2>3. \A n \in Nodes : n \in Range(tree) <=> what[n] \notin {"free", "gone"}
    BY DEF TreeOK, Live, Range
  <2> QED
    BY <2>1, <2>2, <2>3 DEF TypeOK, TreeOK, RequestsOK, RequestOK, DeleteOK, ChangesOK
<1> QED
  BY <1>1, FilesystemInvariant, PTL

\* Whoever else is at work, a request that was refused, or met a conflict, has
\* changed no file: but for a recursive removal, a move, and a write whose file
\* others have put a link in the place of.
THEOREM RefusedRequestsChangeNothing == Spec => []RefusalsKeepFiles
<1>1. FsInv => RefusalsKeepFiles
  BY DEF FsInv, ChangesOK, ChangeOK, RefusalsKeepFiles
<1> QED
  BY <1>1, FilesystemInvariant, PTL

\* A running sandbox has its workspace, and what brings back the workspace of a
\* deleted one is a request that the delete found under way.
THEOREM WorkspaceGoesWithItsSandbox == Spec => []WorkspaceFollowsSandbox
<1>1. FsInv => WorkspaceFollowsSandbox
  BY DEF FsInv, DeleteOK, WorkspaceFollowsSandbox
<1> QED
  BY <1>1, FilesystemInvariant, PTL

\* A move loses no file that was there when it looked.  Its rename, or its copying,
\* replaces no such file, whatever others have done since; when it removes what it
\* has copied, the copy has all of them, as long as no other request has changed a
\* file.
THEOREM MovesLoseNothing == Spec => MoveKeepsFiles
<1>1. FsInv /\ [Next]_vars =>
          [\A r \in Threads :
              <<at[r], work[r]>>' # <<at[r], work[r]>> /\ (at[r] = "rename" \/ did \subseteq {r}) =>
                 Held(Files \cap seen[r]) \subseteq Held(Files')]_vars
  <2> SUFFICES ASSUME FsInv, Next, NEW r \in Threads,
                      <<at[r], work[r]>>' # <<at[r], work[r]>>,
                      at[r] = "rename" \/ did \subseteq {r},
                      NEW f \in Files \cap seen[r]
               PROVE  \E g \in Files' : g[3] = f[3]
    BY DEF Held
  <2>1. TreeOK /\ RequestsOK /\ DeleteOK /\ MoveOK(r) /\ ask[r].op = "move"
    BY DEF FsInv, MovesOK, MoveOK
  <2>2. r # Deleter
    BY FilesystemAssumption
  \* Steps of the others leave the request as it is.
  <2>3. (Serve(r) \/ RemoveTree(r)) /\ Note(r)
    <3>1. CASE (Delete \/ RemoveTree(Deleter)) /\ Note(Deleter)
      BY <2>1, <2>2, <3>1, DeleterStep DEF Elsewhere
    <3>2. ASSUME NEW o \in Threads, (Serve(o) \/ RemoveTree(o)) /\ Note(o), o # r
          PROVE  FALSE
      BY <2>1, <3>2, RequestStep DEF Elsewhere
    <3> QED
      BY <3>1, <3>2 DEF Next, Quiet, vars
  <2>4. CASE Serve(r)
    BY <2>1, <2>4, ServeKeeps
  <2>5. CASE RemoveTree(r)
    <3>1. did \subseteq {r}
      BY <2>5 DEF RemoveTree, RmTree, Sweep, SweepDir
    <3> QED
      BY <2>1, <2>3, <2>5, <3>1, SweepMoves
  <2> QED
    BY <2>3, <2>4, <2>5
<1> QED
  BY <1>1, FilesystemInvariant, PTL DEF Spec, MoveKeepsFiles

=============================================================================
