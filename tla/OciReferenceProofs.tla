------------------------- MODULE OciReferenceProofs -------------------------
(***************************************************************************)
(* A theorem about OciReference: whatever words there are and however long  *)
(* a reference is, what is stored of it reads back as the same image.      *)
(***************************************************************************)
EXTENDS OciReference, FiniteSetTheorems, WellFoundedInduction, SequenceTheorems, TLAPS

-----------------------------------------------------------------------------
(* The least and the greatest of a set of positions. *)

\* Of intervals that begin at zero, one that contains no other begins the others.
LEMMA Least ==
    ASSUME NEW n \in Nat, NEW T \in SUBSET (0..n), T # {}
    PROVE  \E m \in T : \A k \in T : m <= k
<1> DEFINE all == 0..n
           down == {0..m : m \in T}
<1>1. IsWellFoundedOn(StrictSubsetOrdering(all), SUBSET all)
  <2>1. IsFiniteSet(all)
    BY FS_Interval
  <2> HIDE DEF all
  <2>2. FiniteSubsetsOf(all) = SUBSET all
    BY <2>1, FS_FiniteSubsetsOfFinite
  <2> QED
    BY <2>2, FS_StrictSubsetOrderingWellFounded
<1>2. down \subseteq SUBSET all /\ down # {}
  <2>1. \A m \in T : 0..m \subseteq all
    OBVIOUS
  <2> HIDE DEF all
  <2> QED
    BY <2>1
<1>3. PICK d \in down : \A e \in down : ~(<<e, d>> \in StrictSubsetOrdering(all))
  <2> HIDE DEF all, down
  <2> QED
    BY <1>1, <1>2, WFMin
<1>4. PICK m \in T : d = 0..m
  BY <1>3
<1>5. ASSUME NEW k \in T, k < m
      PROVE  FALSE
  <2>1. 0..k \in down /\ 0..k \subseteq 0..m /\ 0..k # 0..m /\ 0..k \subseteq all /\ 0..m \subseteq all
    BY <1>5
  <2> HIDE DEF all, down
  <2> QED
    BY <1>3, <1>4, <2>1 DEF StrictSubsetOrdering
<1> QED
  BY <1>5

LEMMA MinIs ==
    ASSUME NEW n \in Nat, NEW T \in SUBSET (0..n), T # {}
    PROVE  Min(T) \in T /\ \A k \in T : Min(T) <= k
<1>1. \E m \in T : \A k \in T : m <= k
  BY Least
<1> QED
  BY <1>1 DEF Min

LEMMA MaxIs ==
    ASSUME NEW n \in Nat, NEW T \in SUBSET (0..n), T # {}
    PROVE  Max(T) \in T /\ \A k \in T : k <= Max(T)
<1> DEFINE above == {u \in 0..n : \A k \in T : k <= u}
<1>1. n \in above /\ above \in SUBSET (0..n)
  OBVIOUS
<1>2. PICK m \in above : \A u \in above : m <= u
  <2> HIDE DEF above
  <2> QED
    BY <1>1, Least
<1>3. m \in T
  <2> SUFFICES ASSUME m \notin T
               PROVE  FALSE
    OBVIOUS
  <2>1. PICK k \in T : TRUE
    OBVIOUS
  <2>2. m - 1 \in above
    BY <2>1
  <2> QED
    BY <1>2, <2>2
<1> QED
  BY <1>2, <1>3 DEF Max

-----------------------------------------------------------------------------
(* References that are put together, and taken apart at a token. *)

\* A token between two parts.
Join(a, t, b) == a \o <<t>> \o b

LEMMA Joined ==
    ASSUME NEW S, NEW a \in Seq(S), NEW b \in Seq(S), NEW t \in S
    PROVE  /\ Len(a) \in Nat /\ Len(b) \in Nat /\ Join(a, t, b) \in Seq(S) /\ Len(Join(a, t, b)) = Len(a) + 1 + Len(b)
           /\ Join(a, t, b)[Len(a) + 1] = t
           /\ \A i \in 1..Len(a) : Join(a, t, b)[i] = a[i]
           /\ \A i \in 1..Len(b) : Join(a, t, b)[Len(a) + 1 + i] = b[i]
<1> SUFFICES ASSUME NEW s, s = a \o <<t>> \o b
             PROVE  /\ Len(a) \in Nat /\ Len(b) \in Nat /\ s \in Seq(S) /\ Len(s) = Len(a) + 1 + Len(b)
                    /\ s[Len(a) + 1] = t
                    /\ \A i \in 1..Len(a) : s[i] = a[i]
                    /\ \A i \in 1..Len(b) : s[Len(a) + 1 + i] = b[i]
  BY DEF Join
<1> DEFINE c == a \o <<t>>
<1>1. Len(a) \in Nat /\ Len(b) \in Nat
  BY LenProperties
<1>2. <<t>> \in Seq(S) /\ Len(<<t>>) = 1 /\ <<t>>[1] = t
  OBVIOUS
<1>3. /\ c \in Seq(S) /\ Len(c) = Len(a) + 1
      /\ \A i \in 1..Len(a) + 1 : c[i] = IF i <= Len(a) THEN a[i] ELSE <<t>>[i - Len(a)]
  BY <1>2, ConcatProperties
<1> HIDE DEF c
<1>4. c[Len(a) + 1] = t /\ \A i \in 1..Len(a) : c[i] = a[i]
  BY <1>1, <1>2, <1>3
<1>5. /\ s \in Seq(S) /\ Len(s) = Len(c) + Len(b)
      /\ \A i \in 1..Len(c) + Len(b) : s[i] = IF i <= Len(c) THEN c[i] ELSE b[i - Len(c)]
  <2>1. s = c \o b
    BY DEF c
  <2> QED
    BY <1>3, <2>1, ConcatProperties
<1> QED
  BY <1>1, <1>3, <1>4, <1>5

\* The parts are parts of it.
LEMMA Parts ==
    ASSUME NEW S, NEW a \in Seq(S), NEW b \in Seq(S), NEW t \in S
    PROVE  SubSeq(Join(a, t, b), 1, Len(a)) = a /\ SubSeq(Join(a, t, b), Len(a) + 2, Len(Join(a, t, b))) = b
<1> DEFINE s == Join(a, t, b)
<1>1. /\ Len(a) \in Nat /\ Len(b) \in Nat /\ s \in Seq(S) /\ Len(s) = Len(a) + 1 + Len(b)
      /\ \A i \in 1..Len(a) : s[i] = a[i]
      /\ \A i \in 1..Len(b) : s[Len(a) + 1 + i] = b[i]
  <2>1. Len(a) \in Nat /\ Len(b) \in Nat /\ s \in Seq(S) /\ Len(s) = Len(a) + 1 + Len(b)
    BY Joined
  <2>2. \A i \in 1..Len(a) : s[i] = a[i]
    BY Joined
  <2>3. \A i \in 1..Len(b) : s[Len(a) + 1 + i] = b[i]
    BY Joined
  <2> HIDE DEF s
  <2> QED
    BY <2>1, <2>2, <2>3
<1> HIDE DEF s
<1>2. \A i \in 1..Len(s) : s[i] \in S
  BY <1>1, ElementOfSeq
<1> DEFINE x == SubSeq(s, 1, Len(a))
           y == SubSeq(s, Len(a) + 2, Len(s))
<1>3. x \in Seq(S) /\ Len(x) = Len(a) /\ \A i \in 1..Len(a) : x[i] = a[i]
  <2>1. \A i \in 1..Len(a) : s[i] \in S
    BY <1>1, <1>2
  <2>2. /\ x \in Seq(S) /\ Len(x) = IF 1 <= Len(a) THEN Len(a) - 1 + 1 ELSE 0
        /\ \A i \in 1..Len(a) - 1 + 1 : x[i] = s[1 + i - 1]
    BY <1>1, <2>1, SubSeqProperties
  <2> HIDE DEF x
  <2> QED
    BY <1>1, <2>2
<1>4. y \in Seq(S) /\ Len(y) = Len(b) /\ \A i \in 1..Len(b) : y[i] = b[i]
  <2> SUFFICES ASSUME NEW m \in Int, m = Len(a) + 2, NEW n \in Int, n = Len(s), NEW z, z = SubSeq(s, m, n)
               PROVE  z \in Seq(S) /\ Len(z) = Len(b) /\ \A i \in 1..Len(b) : z[i] = b[i]
    BY <1>1
  <2>1. \A i \in m..n : s[i] \in S
    BY <1>1, <1>2
  <2>2. /\ z \in Seq(S) /\ Len(z) = IF m <= n THEN n - m + 1 ELSE 0
        /\ \A i \in 1..n - m + 1 : z[i] = s[m + i - 1]
    BY <2>1, SubSeqProperties
  <2>3. /\ n - m + 1 = Len(b) /\ (m <= n \/ Len(b) = 0)
        /\ \A i \in 1..Len(b) : m + i - 1 = Len(a) + 1 + i
    BY <1>1
  <2>4. Len(z) = Len(b)
    BY <1>1, <2>2, <2>3
  <2>5. \A i \in 1..Len(b) : z[i] = b[i]
    BY <1>1, <2>2, <2>3
  <2> QED
    BY <2>2, <2>4, <2>5
<1> HIDE DEF x, y
<1>5. x = a /\ y = b
  BY <1>3, <1>4, SeqEqual
<1> QED
  BY <1>5 DEF s, x, y

LEMMA HasDef ==
    ASSUME NEW s, NEW t
    PROVE  Has(s, t) <=> \E i \in 1..Len(s) : s[i] = t
BY DEF Has, Positions

LEMMA HasJoined ==
    ASSUME NEW S, NEW a \in Seq(S), NEW b \in Seq(S), NEW t \in S, NEW u
    PROVE  Has(Join(a, t, b), u) <=> Has(a, u) \/ u = t \/ Has(b, u)
<1> DEFINE s == Join(a, t, b)
<1>1. /\ Len(a) \in Nat /\ Len(b) \in Nat /\ s \in Seq(S) /\ Len(s) = Len(a) + 1 + Len(b)
      /\ s[Len(a) + 1] = t
      /\ \A i \in 1..Len(a) : s[i] = a[i]
      /\ \A i \in 1..Len(b) : s[Len(a) + 1 + i] = b[i]
  <2>1. Len(a) \in Nat /\ Len(b) \in Nat /\ s \in Seq(S) /\ Len(s) = Len(a) + 1 + Len(b)
    BY Joined
  <2>2. s[Len(a) + 1] = t /\ \A i \in 1..Len(a) : s[i] = a[i]
    <3>1. s[Len(a) + 1] = t
      BY Joined
    <3>2. \A i \in 1..Len(a) : s[i] = a[i]
      BY Joined
    <3> QED
      BY <3>1, <3>2
  <2>3. \A i \in 1..Len(b) : s[Len(a) + 1 + i] = b[i]
    BY Joined
  <2> HIDE DEF s
  <2> QED
    BY <2>1, <2>2, <2>3
<1> HIDE DEF s
<1>2. ASSUME NEW i \in 1..Len(s)
      PROVE  s[i] = t \/ (i \in 1..Len(a) /\ s[i] = a[i]) \/ \E j \in 1..Len(b) : s[i] = b[j]
  <2>1. i \in 1..Len(a) \/ i = Len(a) + 1 \/ i - (Len(a) + 1) \in 1..Len(b)
    BY <1>1
  <2>2. CASE i - (Len(a) + 1) \in 1..Len(b)
    <3>1. s[Len(a) + 1 + (i - (Len(a) + 1))] = b[i - (Len(a) + 1)]
      BY <1>1, <2>2
    <3>2. Len(a) + 1 + (i - (Len(a) + 1)) = i
      BY <1>1
    <3> QED
      BY <2>2, <3>1, <3>2
  <2> QED
    BY <1>1, <2>1, <2>2
<1>3. Has(s, u) => Has(a, u) \/ u = t \/ Has(b, u)
  BY <1>2, HasDef
<1>4. Has(a, u) => Has(s, u)
  <2>1. 1..Len(a) \subseteq 1..Len(s)
    BY <1>1
  <2> QED
    BY <1>1, <2>1, HasDef
<1>5. u = t => Has(s, u)
  <2>1. Len(a) + 1 \in 1..Len(s)
    BY <1>1
  <2> QED
    BY <1>1, <2>1, HasDef
<1>6. Has(b, u) => Has(s, u)
  <2>1. \A j \in 1..Len(b) : Len(a) + 1 + j \in 1..Len(s)
    BY <1>1
  <2> QED
    BY <1>1, <2>1, HasDef
<1> QED
  BY <1>3, <1>4, <1>5, <1>6 DEF s

\* A reference without the token is taken as a whole.
LEMMA NotFound ==
    ASSUME NEW s, NEW t, ~Has(s, t)
    PROVE  Before(s, t) = s /\ After(s, t) = <<>>
BY DEF Before, After

\* One with the token is taken apart at its first one.
LEMMA Found ==
    ASSUME NEW S, NEW a \in Seq(S), NEW b \in Seq(S), NEW t \in S,
           ~Has(a, t)
    PROVE  Has(Join(a, t, b), t) /\ Before(Join(a, t, b), t) = a /\ After(Join(a, t, b), t) = b
<1> DEFINE s == Join(a, t, b)
<1>1. /\ Len(a) \in Nat /\ Len(b) \in Nat /\ Len(s) = Len(a) + 1 + Len(b)
      /\ s[Len(a) + 1] = t /\ \A i \in 1..Len(a) : s[i] = a[i]
  BY Joined
<1> HIDE DEF s
<1> DEFINE P == Positions(s, t)
<1>2. Len(a) + 1 \in P /\ P \in SUBSET (0..Len(s)) /\ Len(s) \in Nat
  BY <1>1 DEF Positions
<1>3. \A i \in P : Len(a) + 1 <= i
  <2>1. \A i \in 1..Len(a) : s[i] # t
    BY <1>1, HasDef
  <2> QED
    BY <1>1, <2>1 DEF Positions
<1>4. Min(P) \in P /\ \A i \in P : Min(P) <= i
  <2> HIDE DEF P
  <2> QED
    BY <1>2, MinIs
<1>5. Min(P) = Len(a) + 1
  <2>1. Min(P) <= Len(a) + 1 /\ Len(a) + 1 <= Min(P) /\ Min(P) \in Nat
    BY <1>2, <1>3, <1>4
  <2> HIDE DEF P
  <2> QED
    BY <1>1, <2>1
<1>6. Has(s, t)
  BY <1>2 DEF Has
<1>7. Min(P) - 1 = Len(a) /\ Min(P) + 1 = Len(a) + 2
  BY <1>1, <1>5
<1>8. SubSeq(s, 1, Len(a)) = a /\ SubSeq(s, Len(a) + 2, Len(s)) = b
  BY Parts DEF s
<1>9. SubSeq(s, 1, Min(P) - 1) = a /\ SubSeq(s, Min(P) + 1, Len(s)) = b
  <2> HIDE DEF P
  <2> QED
    BY <1>7, <1>8
<1> QED
  BY <1>6, <1>9 DEF s, Before, After

\* The last of a token.
LEMMA LastIs ==
    ASSUME NEW S, NEW s \in Seq(S), NEW t
    PROVE  /\ LastPosition(s, t) \in 0..Len(s) /\ LastPosition(s, t) \in Nat
           /\ \A i \in 1..Len(s) : s[i] = t => i <= LastPosition(s, t)
           /\ LastPosition(s, t) # 0 => s[LastPosition(s, t)] = t
<1> DEFINE P == Positions(s, t) \cup {0}
<1>1. Len(s) \in Nat
  BY LenProperties
<1>2. P \in SUBSET (0..Len(s)) /\ P # {}
  BY <1>1 DEF Positions
<1>3. Max(P) \in P /\ \A i \in P : i <= Max(P)
  <2> HIDE DEF P
  <2> QED
    BY <1>1, <1>2, MaxIs
<1>4. LastPosition(s, t) = Max(P)
  BY DEF LastPosition
<1> QED
  BY <1>1, <1>2, <1>3, <1>4 DEF Positions

LEMMA LastJoined ==
    ASSUME NEW S, NEW a \in Seq(S), NEW b \in Seq(S), NEW t \in S
    PROVE  /\ LastPosition(Join(a, t, b), t) >= Len(a) + 1
           /\ ~Has(b, t) => LastPosition(Join(a, t, b), t) = Len(a) + 1
           /\ \A u : u # t /\ ~Has(b, u) => LastPosition(Join(a, t, b), u) <= Len(a)
<1> DEFINE s == Join(a, t, b)
<1>1. /\ Len(a) \in Nat /\ Len(b) \in Nat /\ s \in Seq(S) /\ Len(s) = Len(a) + 1 + Len(b)
      /\ s[Len(a) + 1] = t
      /\ \A i \in 1..Len(b) : s[Len(a) + 1 + i] = b[i]
  BY Joined
<1> HIDE DEF s
<1>2. LastPosition(s, t) >= Len(a) + 1
  <2>1. Len(a) + 1 \in 1..Len(s) /\ s[Len(a) + 1] = t
    BY <1>1
  <2> QED
    BY <1>1, <2>1, LastIs
<1>3. ASSUME NEW u, ~Has(b, u)
      PROVE  LastPosition(s, u) <= Len(a) + 1 /\ (u # t => LastPosition(s, u) <= Len(a))
  <2> DEFINE l == LastPosition(s, u)
  <2>1. l \in 0..Len(s) /\ (l # 0 => s[l] = u)
    BY <1>1, LastIs
  <2> HIDE DEF l
  <2>2. CASE l - (Len(a) + 1) \in 1..Len(b)
    <3>1. s[Len(a) + 1 + (l - (Len(a) + 1))] = b[l - (Len(a) + 1)]
      BY <1>1, <2>2
    <3>2. Len(a) + 1 + (l - (Len(a) + 1)) = l /\ l # 0
      BY <1>1, <2>1, <2>2
    <3>3. b[l - (Len(a) + 1)] = u
      BY <2>1, <3>1, <3>2
    <3> QED
      BY <1>3, <2>2, <3>3, HasDef
  <2>3. CASE ~(l - (Len(a) + 1) \in 1..Len(b))
    <3>1. l <= Len(a) + 1
      BY <1>1, <2>1, <2>3
    <3>2. l = Len(a) + 1 => u = t
      BY <1>1, <2>1
    <3> QED
      BY <1>1, <2>1, <3>1, <3>2 DEF l
  <2> QED
    BY <2>2, <2>3
<1>4. ~Has(b, t) => LastPosition(s, t) = Len(a) + 1
  <2>1. LastPosition(s, t) \in Nat
    BY <1>1, LastIs
  <2>2. ~Has(b, t) => LastPosition(s, t) <= Len(a) + 1
    BY <1>3
  <2> HIDE DEF LastPosition
  <2> QED
    BY <1>1, <1>2, <2>1, <2>2
<1> QED
  BY <1>2, <1>3, <1>4 DEF s

-----------------------------------------------------------------------------
(* Parse of a reference that is put together. *)

Marked(mark, part) == IF part # <<>> THEN <<mark>> \o part ELSE <<>>

Hosted(first) ==
    \/ Has(first, ":") \/ first = <<"localhost">>
    \/ \E i \in 1..Len(first) : first[i] \in DottedWords

\* The image with a name, a tag and a digest.
Image(name, tag, digest) ==
    LET first == Before(name, "/")
        registry == IF Hosted(first) THEN first ELSE <<"docker.io">>
        repository == InLibrary(registry, IF Hosted(first) THEN After(name, "/") ELSE name)
    IN IF ValidRepository(repository)
       THEN [valid |-> TRUE, registry |-> registry, repository |-> repository,
             tag |-> IF tag = <<>> /\ digest = <<>> THEN <<"latest">> ELSE tag,
             digest |-> digest]
       ELSE Invalid

Tags == {<<>>} \cup {<<w>> : w \in TagWords}
Digests == {<<>>} \cup {<<w>> : w \in DigestWords}

\* A tag or a digest is one word.
LEMMA OneWord ==
    ASSUME NEW part \in Tags \cup Digests, part # <<>>
    PROVE  /\ Len(part) = 1 /\ part[1] \in TagWords \cup DigestWords
           /\ \A m \in {"/", ":", "@"} : ~Has(part, m)
<1>1. PICK w \in TagWords \cup DigestWords : part = <<w>>
  BY DEF Tags, Digests
<1>2. Len(part) = 1 /\ part[1] = w
  BY <1>1
<1>3. \A m \in {"/", ":", "@"} : \A i \in 1..Len(part) : part[i] # m
  BY <1>2, OciAssumption
<1> QED
  BY <1>2, <1>3, HasDef

\* A name with a tag, and that with a digest.
Tagged(name, tag) == name \o Marked(":", tag)
Digested(named, digest) == named \o Marked("@", digest)

\* The name and the tag are found again.
LEMMA TagFound ==
    ASSUME NEW S, {"/", ":", "@"} \subseteq S, NEW name \in Seq(S), NEW tag \in Tags \cap Seq(S),
           ~(LastPosition(name, ":") > LastPosition(name, "/"))
    PROVE  LET named == Tagged(name, tag)
           IN  /\ named \in Seq(S)
               /\ ~Has(name, "@") => ~Has(named, "@")
               /\ LastPosition(named, ":") > LastPosition(named, "/") <=> tag # <<>>
               /\ tag # <<>> => /\ SubSeq(named, 1, LastPosition(named, ":") - 1) = name
                                /\ SubSeq(named, LastPosition(named, ":") + 1, Len(named)) = tag
               /\ tag = <<>> => named = name
<1> DEFINE named == Tagged(name, tag)
<1>1. CASE tag = <<>>
  <2>1. named = name
    BY <1>1, ConcatEmptySeq DEF Marked, Tagged
  <2> QED
    BY <1>1, <2>1
<1>2. CASE tag # <<>>
  <2> DEFINE joined == Join(name, ":", tag)
  <2>0. tag \in Seq(S) /\ ":" \in S
    OBVIOUS
  <2>1. named = joined
    <3>1. named = name \o (<<":">> \o tag)
      BY <1>2 DEF Marked, Tagged
    <3>2. <<":">> \in Seq(S) /\ tag \in Seq(S)
      OBVIOUS
    <3>3. (name \o <<":">>) \o tag = name \o (<<":">> \o tag)
      BY <3>2, ConcatAssociative
    <3> QED
      BY <3>1, <3>2, <3>3 DEF Join
  <2>2. ~Has(tag, "/") /\ ~Has(tag, ":") /\ ~Has(tag, "@")
    BY <1>2, OneWord
  <2>3. LastPosition(joined, ":") = Len(name) + 1 /\ LastPosition(joined, "/") <= Len(name)
    BY <2>0, <2>2, LastJoined
  <2>4. joined \in Seq(S) /\ Len(name) \in Nat
    BY <2>0, Joined
  <2>5. LastPosition(joined, "/") \in Nat
    BY <2>4, LastIs
  <2>6. ~Has(name, "@") => ~Has(joined, "@")
    BY <2>0, <2>2, HasJoined
  <2>7. SubSeq(joined, 1, Len(name)) = name /\ SubSeq(joined, Len(name) + 2, Len(joined)) = tag
    BY <2>0, Parts
  <2> HIDE DEF joined
  <2>8. LastPosition(joined, ":") - 1 = Len(name) /\ LastPosition(joined, ":") + 1 = Len(name) + 2
    BY <2>3, <2>4
  <2>9. LastPosition(joined, ":") > LastPosition(joined, "/")
    BY <2>3, <2>4, <2>5
  <2>10. /\ SubSeq(joined, 1, LastPosition(joined, ":") - 1) = name
         /\ SubSeq(joined, LastPosition(joined, ":") + 1, Len(joined)) = tag
    BY <2>7, <2>8
  <2> HIDE DEF named
  <2>11. /\ joined \in Seq(S) /\ (~Has(name, "@") => ~Has(joined, "@"))
         /\ (LastPosition(joined, ":") > LastPosition(joined, "/") <=> tag # <<>>)
         /\ tag # <<>> => /\ SubSeq(joined, 1, LastPosition(joined, ":") - 1) = name
                          /\ SubSeq(joined, LastPosition(joined, ":") + 1, Len(joined)) = tag
         /\ tag = <<>> => joined = name
    BY <1>2, <2>4, <2>6, <2>9, <2>10
  <2> QED
    BY <2>1, <2>11 DEF named
<1> QED
  BY <1>1, <1>2

LEMMA DigestFound ==
    ASSUME NEW S, {"/", ":", "@"} \subseteq S, NEW named \in Seq(S), NEW digest \in Digests \cap Seq(S),
           ~Has(named, "@")
    PROVE  /\ Before(Digested(named, digest), "@") = named
           /\ After(Digested(named, digest), "@") = digest
           /\ Has(Digested(named, digest), "@") <=> digest # <<>>
<1>1. CASE digest = <<>>
  <2>1. Digested(named, digest) = named
    BY <1>1, ConcatEmptySeq DEF Marked, Digested
  <2> QED
    BY <1>1, <2>1, NotFound
<1>2. CASE digest # <<>>
  <2>1. digest \in Seq(S) /\ "@" \in S
    OBVIOUS
  <2>2. Digested(named, digest) = Join(named, "@", digest)
    <3>1. Digested(named, digest) = named \o (<<"@">> \o digest)
      BY <1>2 DEF Marked, Digested
    <3>2. <<"@">> \in Seq(S) /\ digest \in Seq(S)
      OBVIOUS
    <3>3. (named \o <<"@">>) \o digest = named \o (<<"@">> \o digest)
      BY <3>2, ConcatAssociative
    <3> QED
      BY <3>1, <3>2, <3>3 DEF Join
  <2> DEFINE joined == Join(named, "@", digest)
  <2>3. Has(joined, "@") /\ Before(joined, "@") = named /\ After(joined, "@") = digest
    BY <2>1, Found
  <2> HIDE DEF joined
  <2> QED
    BY <1>2, <2>2, <2>3 DEF joined
<1> QED
  BY <1>1, <1>2

\* What Parse does with the parts it has found.
ImageOf(separated, tagged, name, tag, digest) ==
    IF /\ separated => Len(digest) = 1 /\ digest[1] \in DigestWords
       /\ tagged => Len(tag) = 1 /\ tag[1] \in TagWords
    THEN Image(name, tag, digest)
    ELSE Invalid

LEMMA ParseOf ==
    ASSUME NEW value
    PROVE  LET named == Before(value, "@")
               tagged == LastPosition(named, ":") > LastPosition(named, "/")
           IN  Parse(value) =
                   ImageOf(Has(value, "@"), tagged,
                           IF tagged THEN SubSeq(named, 1, LastPosition(named, ":") - 1) ELSE named,
                           IF tagged THEN SubSeq(named, LastPosition(named, ":") + 1, Len(named)) ELSE <<>>,
                           After(value, "@"))
BY Zenon DEF Parse, ImageOf, Image, Hosted

LEMMA ParseImage ==
    ASSUME NEW S, {"/", ":", "@"} \subseteq S, NEW name \in Seq(S),
           NEW tag \in Tags \cap Seq(S), NEW digest \in Digests \cap Seq(S),
           ~Has(name, "@"), ~(LastPosition(name, ":") > LastPosition(name, "/"))
    PROVE  Parse(Digested(Tagged(name, tag), digest)) = Image(name, tag, digest)
<1> DEFINE named == Tagged(name, tag)
           value == Digested(named, digest)
<1>1. /\ named \in Seq(S) /\ ~Has(named, "@")
      /\ (LastPosition(named, ":") > LastPosition(named, "/") <=> tag # <<>>)
      /\ tag # <<>> => /\ SubSeq(named, 1, LastPosition(named, ":") - 1) = name
                       /\ SubSeq(named, LastPosition(named, ":") + 1, Len(named)) = tag
      /\ tag = <<>> => named = name
  BY TagFound
<1> HIDE DEF named
<1>2. /\ Before(value, "@") = named /\ After(value, "@") = digest
      /\ Has(value, "@") <=> digest # <<>>
  BY <1>1, DigestFound
<1>3. /\ tag # <<>> => Len(tag) = 1 /\ tag[1] \in TagWords
      /\ digest # <<>> => Len(digest) = 1 /\ digest[1] \in DigestWords
  BY DEF Tags, Digests
<1> HIDE DEF value
<1> DEFINE tagged == LastPosition(named, ":") > LastPosition(named, "/")
<1>4. /\ (IF tagged THEN SubSeq(named, 1, LastPosition(named, ":") - 1) ELSE named) = name
      /\ (IF tagged THEN SubSeq(named, LastPosition(named, ":") + 1, Len(named)) ELSE <<>>) = tag
  BY <1>1
<1>5. Parse(value) = ImageOf(Has(value, "@"), tagged, name, tag, digest)
  BY <1>2, <1>4, ParseOf
<1>6. ImageOf(Has(value, "@"), tagged, name, tag, digest) = Image(name, tag, digest)
  BY <1>1, <1>2, <1>3 DEF ImageOf
<1> QED
  BY <1>5, <1>6 DEF value, named

-----------------------------------------------------------------------------
(* What is found in a reference. *)

\* A part of a reference has no tokens of its own.
LEMMA PartIs ==
    ASSUME NEW S, NEW s \in Seq(S), NEW m \in Nat, NEW n \in Nat, m >= 1, n <= Len(s)
    PROVE  /\ SubSeq(s, m, n) \in Seq(S)
           /\ \A u : Has(SubSeq(s, m, n), u) => \E i \in m..n : s[i] = u
<1> DEFINE x == SubSeq(s, m, n)
<1>1. Len(s) \in Nat /\ \A i \in 1..Len(s) : s[i] \in S
  BY LenProperties, ElementOfSeq
<1>2. \A i \in m..n : s[i] \in S
  BY <1>1
<1>3. /\ x \in Seq(S) /\ Len(x) = IF m <= n THEN n - m + 1 ELSE 0
      /\ \A i \in 1..n - m + 1 : x[i] = s[m + i - 1]
  BY <1>2, SubSeqProperties
<1> HIDE DEF x
<1>4. ASSUME NEW i \in 1..Len(x)
      PROVE  m + i - 1 \in m..n /\ x[i] = s[m + i - 1]
  BY <1>3
<1>5. \A u : Has(x, u) => \E i \in m..n : s[i] = u
  BY <1>4, HasDef
<1> QED
  BY <1>3, <1>5 DEF x

LEMMA BeforeAfter ==
    ASSUME NEW S, NEW s \in Seq(S), NEW t
    PROVE  /\ Before(s, t) \in Seq(S) /\ After(s, t) \in Seq(S) /\ ~Has(Before(s, t), t)
           /\ \A u : Has(Before(s, t), u) => Has(s, u)
<1>1. CASE ~Has(s, t)
  <2>1. Before(s, t) = s /\ After(s, t) = <<>>
    BY <1>1, NotFound
  <2> QED
    BY <1>1, <2>1, EmptySeq
<1>2. CASE Has(s, t)
  <2> DEFINE P == Positions(s, t)
             l == Min(P)
             x == SubSeq(s, 1, l - 1)
  <2>1. Len(s) \in Nat /\ P # {} /\ P \in SUBSET (0..Len(s))
    BY <1>2, LenProperties DEF Has, Positions
  <2>2. l \in P /\ \A i \in P : l <= i
    <3> HIDE DEF P
    <3> QED
      BY <2>1, MinIs
  <2>3. l \in 1..Len(s)
    BY <2>2 DEF Positions
  <2>4. ASSUME NEW i \in 1..(l - 1)
        PROVE  i \in 1..Len(s) /\ s[i] # t
    BY <2>1, <2>2, <2>3 DEF Positions
  <2>5. Before(s, t) = x /\ After(s, t) = SubSeq(s, l + 1, Len(s))
    BY <1>2 DEF Before, After
  <2>6. l - 1 \in Nat /\ l + 1 \in Nat /\ l + 1 >= 1 /\ l - 1 <= Len(s)
    BY <2>1, <2>3
  <2> HIDE DEF P, l
  <2>7. x \in Seq(S) /\ \A u : Has(x, u) => \E i \in 1..(l - 1) : s[i] = u
    BY <2>6, PartIs
  <2>8. SubSeq(s, l + 1, Len(s)) \in Seq(S)
    BY <2>1, <2>6, PartIs
  <2> HIDE DEF x
  <2>9. ~Has(x, t)
    BY <2>4, <2>7
  <2>10. \A u : Has(x, u) => Has(s, u)
    BY <2>4, <2>7, HasDef
  <2> QED
    BY <2>5, <2>7, <2>8, <2>9, <2>10
<1> QED
  BY <1>1, <1>2

\* A valid reference is read as the image of a name, a tag and a digest.
LEMMA Read ==
    ASSUME NEW S, NEW r \in Seq(S), Parse(r).valid
    PROVE  \E name \in Seq(S), tag \in Tags \cap Seq(S), digest \in Digests \cap Seq(S) :
               ~Has(name, "@") /\ Parse(r) = Image(name, tag, digest)
<1> DEFINE named == Before(r, "@")
           digest == After(r, "@")
           colon == LastPosition(named, ":")
           tagged == colon > LastPosition(named, "/")
           name == IF tagged THEN SubSeq(named, 1, colon - 1) ELSE named
           tag == IF tagged THEN SubSeq(named, colon + 1, Len(named)) ELSE <<>>
<1>1. Parse(r) = ImageOf(Has(r, "@"), tagged, name, tag, digest)
  BY ParseOf
<1>2. named \in Seq(S) /\ digest \in Seq(S) /\ ~Has(named, "@")
  BY BeforeAfter
<1>3. ~Has(r, "@") => digest = <<>>
  BY NotFound
<1> HIDE DEF named, digest
<1>4. /\ colon \in 0..Len(named) /\ colon \in Nat /\ LastPosition(named, "/") \in Nat
      /\ Len(named) \in Nat
  BY <1>2, LastIs, LenProperties
<1> HIDE DEF colon
<1>5. name \in Seq(S) /\ tag \in Seq(S) /\ ~Has(name, "@")
  <2>1. CASE ~tagged
    BY <1>2, <2>1, EmptySeq
  <2>2. CASE tagged
    <3>1. /\ colon - 1 \in Nat /\ colon + 1 \in Nat /\ colon + 1 >= 1
          /\ colon - 1 <= Len(named)
      BY <1>4, <2>2
    <3>2. /\ SubSeq(named, 1, colon - 1) \in Seq(S)
          /\ Has(SubSeq(named, 1, colon - 1), "@") => \E i \in 1..(colon - 1) : named[i] = "@"
      BY <1>2, <3>1, PartIs
    <3>3. SubSeq(named, colon + 1, Len(named)) \in Seq(S)
      BY <1>2, <1>4, <3>1, PartIs
    <3>4. ~Has(SubSeq(named, 1, colon - 1), "@")
      <4>1. 1..(colon - 1) \subseteq 1..Len(named)
        BY <1>4, <3>1
      <4> QED
        BY <1>2, <3>2, <4>1, HasDef
    <3> QED
      BY <2>2, <3>2, <3>3, <3>4
  <2> QED
    BY <2>1, <2>2
<1> HIDE DEF name
<1>6. ~tagged => tag = <<>>
  OBVIOUS
<1> HIDE DEF tag, tagged
<1>7. /\ Has(r, "@") => Len(digest) = 1 /\ digest[1] \in DigestWords
      /\ tagged => Len(tag) = 1 /\ tag[1] \in TagWords
      /\ Parse(r) = Image(name, tag, digest)
  <2>1. ~Invalid.valid
    BY DEF Invalid
  <2> QED
    BY <1>1, <2>1 DEF ImageOf
<1>8. \A q \in Seq(S) : Len(q) = 1 => q = <<q[1]>>
  OBVIOUS
<1>9. tag \in Tags /\ digest \in Digests
  BY <1>2, <1>3, <1>5, <1>6, <1>7, <1>8 DEF Tags, Digests
<1> QED
  BY <1>2, <1>5, <1>7, <1>9

-----------------------------------------------------------------------------
(* The canonical form. *)

LEMMA RepositoryIs ==
    ASSUME NEW P, ValidRepository(P), NEW m \in {":", "@"}
    PROVE  ~Has(P, m)
<1>1. \A i \in 1..Len(P) : P[i] \in RepositoryWords \/ P[i] = "/"
  BY DEF ValidRepository
<1>2. m \notin RepositoryWords /\ m # "/"
  BY OciAssumption
<1> QED
  BY <1>1, <1>2, HasDef

\* What has been given its prefix is given no second one.
LEMMA InLibraryOnce ==
    ASSUME NEW S, {"library", "/"} \subseteq S, NEW registry, NEW x \in Seq(S)
    PROVE  /\ InLibrary(registry, x) \in Seq(S)
           /\ InLibrary(registry, InLibrary(registry, x)) = InLibrary(registry, x)
<1> DEFINE y == <<"library", "/">> \o x
<1>1. y \in Seq(S) /\ Has(y, "/")
  <2>1. <<"library", "/">> \in Seq(S) /\ Len(<<"library", "/">>) = 2 /\ <<"library", "/">>[2] = "/"
    OBVIOUS
  <2>2. Len(x) \in Nat
    BY LenProperties
  <2>3. y \in Seq(S) /\ Len(y) = 2 + Len(x) /\ y[2] = "/"
    BY <2>1, <2>2, ConcatProperties
  <2> HIDE DEF y
  <2>4. 2 \in 1..Len(y)
    BY <2>2, <2>3
  <2> QED
    BY <2>3, <2>4, HasDef
<1> QED
  BY <1>1 DEF InLibrary

\* What a valid image is made of.
LEMMA ImageIs ==
    ASSUME NEW S, {"library", "/", "docker.io", "latest"} \subseteq S, NEW name \in Seq(S),
           NEW tag \in Tags \cap Seq(S), NEW digest \in Digests \cap Seq(S),
           ~Has(name, "@"), Image(name, tag, digest).valid
    PROVE  \E registry \in Seq(S), repository \in Seq(S), shown \in Tags \cap Seq(S) :
               /\ ~Has(registry, "/") /\ ~Has(registry, "@") /\ Hosted(registry)
               /\ ValidRepository(repository) /\ InLibrary(registry, repository) = repository
               /\ shown # <<>> \/ digest # <<>>
               /\ Image(name, tag, digest) =
                     [valid |-> TRUE, registry |-> registry, repository |-> repository,
                      tag |-> shown, digest |-> digest]
<1> DEFINE first == Before(name, "/")
           registry == IF Hosted(first) THEN first ELSE <<"docker.io">>
           rest == IF Hosted(first) THEN After(name, "/") ELSE name
           repository == InLibrary(registry, rest)
           shown == IF tag = <<>> /\ digest = <<>> THEN <<"latest">> ELSE tag
<1>1. /\ Image(name, tag, digest) =
            [valid |-> TRUE, registry |-> registry, repository |-> repository,
             tag |-> shown, digest |-> digest]
      /\ ValidRepository(repository)
  <2>1. ~Invalid.valid
    BY DEF Invalid
  <2> QED
    BY <2>1 DEF Image
<1>2. first \in Seq(S) /\ After(name, "/") \in Seq(S) /\ ~Has(first, "/") /\ ~Has(first, "@")
  BY BeforeAfter
<1> HIDE DEF first
<1>3. /\ <<"docker.io">> \in Seq(S) /\ Hosted(<<"docker.io">>)
      /\ ~Has(<<"docker.io">>, "/") /\ ~Has(<<"docker.io">>, "@")
  <2> DEFINE d == <<"docker.io">>
  <2>1. Len(d) = 1 /\ d[1] = "docker.io" /\ d \in Seq(S)
    OBVIOUS
  <2>2. 1 \in 1..1 /\ \A i \in 1..1 : i = 1
    OBVIOUS
  <2>3. Hosted(d)
    <3>1. d[1] \in DottedWords
      BY <2>1, OciAssumption
    <3> HIDE DEF d
    <3> QED
      BY <2>1, <2>2, <3>1 DEF Hosted
  <2> HIDE DEF d
  <2>4. ~Has(d, "/") /\ ~Has(d, "@")
    BY <2>1, <2>2, HasDef
  <2> QED
    BY <2>1, <2>3, <2>4 DEF d
<1>4. /\ registry \in Seq(S) /\ rest \in Seq(S)
      /\ ~Has(registry, "/") /\ ~Has(registry, "@") /\ Hosted(registry)
  BY <1>2, <1>3
<1> HIDE DEF registry, rest
<1>5. repository \in Seq(S) /\ InLibrary(registry, repository) = repository
  BY <1>4, InLibraryOnce
<1>6. shown \in Tags \cap Seq(S) /\ (shown # <<>> \/ digest # <<>>)
  <2>1. <<"latest">> \in Tags /\ <<"latest">> \in Seq(S) /\ <<"latest">> # <<>>
    BY OciAssumption DEF Tags
  <2> QED
    BY <2>1
<1> HIDE DEF repository, shown
<1> QED
  BY <1>1, <1>4, <1>5, <1>6

\* The image of the registry and the repository, as they are written.
LEMMA ImageAgain ==
    ASSUME NEW S, "/" \in S, NEW registry \in Seq(S), NEW repository \in Seq(S), NEW tag, NEW digest,
           ~Has(registry, "/"), Hosted(registry),
           ValidRepository(repository), InLibrary(registry, repository) = repository,
           tag # <<>> \/ digest # <<>>
    PROVE  Image(Join(registry, "/", repository), tag, digest) =
               [valid |-> TRUE, registry |-> registry, repository |-> repository,
                tag |-> tag, digest |-> digest]
<1> DEFINE name == Join(registry, "/", repository)
<1>1. Before(name, "/") = registry /\ After(name, "/") = repository
  BY Found
<1> HIDE DEF name
<1>2. Image(name, tag, digest) =
         [valid |-> TRUE, registry |-> registry, repository |-> repository,
          tag |-> tag, digest |-> digest]
  BY <1>1 DEF Image
<1> QED
  BY <1>2 DEF name

\* A canonical form is read as what it was made from.
LEMMA CanonicalReads ==
    ASSUME NEW S, {"/", ":", "@", "library", "docker.io", "latest"} \subseteq S, NEW r \in Seq(S),
           Parse(r).valid
    PROVE  Parse(Canonical(Parse(r))) = Parse(r)
<1>1. PICK n \in Seq(S), t \in Tags \cap Seq(S), digest \in Digests \cap Seq(S) :
         ~Has(n, "@") /\ Parse(r) = Image(n, t, digest)
  BY Read
<1>2. PICK registry \in Seq(S), repository \in Seq(S), tag \in Tags \cap Seq(S) :
         /\ ~Has(registry, "/") /\ ~Has(registry, "@") /\ Hosted(registry)
         /\ ValidRepository(repository) /\ InLibrary(registry, repository) = repository
         /\ tag # <<>> \/ digest # <<>>
         /\ Image(n, t, digest) =
               [valid |-> TRUE, registry |-> registry, repository |-> repository,
                tag |-> tag, digest |-> digest]
  BY <1>1, ImageIs
<1> DEFINE name == Join(registry, "/", repository)
<1>3. Canonical(Parse(r)) = Digested(Tagged(name, tag), digest)
  <2>1. /\ Parse(r).registry = registry /\ Parse(r).repository = repository
        /\ Parse(r).tag = tag /\ Parse(r).digest = digest
    BY <1>1, <1>2
  <2>2. Canonical(Parse(r)) =
           registry \o <<"/">> \o repository
               \o (IF tag # <<>> THEN <<":">> \o tag ELSE <<>>)
               \o (IF digest # <<>> THEN <<"@">> \o digest ELSE <<>>)
    BY <2>1 DEF Canonical
  <2> QED
    BY <2>2 DEF Digested, Tagged, Marked, Join
<1>4. "/" \in S /\ ~Has(repository, ":") /\ ~Has(repository, "@")
  BY <1>2, RepositoryIs
<1>5. name \in Seq(S) /\ Len(registry) \in Nat
  BY <1>4, Joined
<1>6. ~Has(name, "@")
  BY <1>2, <1>4, HasJoined
<1>7. LastPosition(name, "/") >= Len(registry) + 1 /\ LastPosition(name, ":") <= Len(registry)
  BY <1>4, LastJoined
<1>8. Image(name, tag, digest) = Parse(r)
  BY <1>1, <1>2, <1>4, ImageAgain
<1> HIDE DEF name
<1>9. LastPosition(name, "/") \in Nat /\ LastPosition(name, ":") \in Nat
  BY <1>5, LastIs
<1>10. ~(LastPosition(name, ":") > LastPosition(name, "/"))
  BY <1>5, <1>7, <1>9
<1>11. Parse(Digested(Tagged(name, tag), digest)) = Image(name, tag, digest)
  BY <1>5, <1>6, <1>10, ParseImage
<1> QED
  BY <1>3, <1>8, <1>11

-----------------------------------------------------------------------------
(* The ways to write an official image. *)

\* A name without a port or a digest is read as itself.
LEMMA PlainName ==
    ASSUME NEW S, {"/", ":", "@", "latest"} \subseteq S, NEW name \in Seq(S),
           ~Has(name, "@"), ~Has(name, ":")
    PROVE  /\ Parse(name) = Image(name, <<>>, <<>>)
           /\ Parse(Tagged(name, <<"latest">>)) = Image(name, <<"latest">>, <<>>)
<1> DEFINE none == <<>>
           latest == <<"latest">>
<1>1. none \in Tags /\ none \in Seq(S) /\ none \in Digests /\ none = <<>>
  BY EmptySeq DEF Tags, Digests
<1>2. latest \in Tags /\ latest \in Seq(S)
  BY OciAssumption DEF Tags
<1> HIDE DEF none, latest
<1>3. ~(LastPosition(name, ":") > LastPosition(name, "/"))
  <2>1. /\ LastPosition(name, ":") \in 0..Len(name) /\ LastPosition(name, "/") \in Nat
        /\ LastPosition(name, ":") # 0 => name[LastPosition(name, ":")] = ":"
    BY LastIs
  <2>2. LastPosition(name, ":") = 0
    <3>1. ASSUME LastPosition(name, ":") # 0
          PROVE  FALSE
      <4>1. LastPosition(name, ":") \in 1..Len(name)
        BY <2>1, <3>1, LenProperties
      <4> QED
        BY <2>1, <3>1, <4>1, HasDef
    <3> QED
      BY <3>1
  <2> QED
    BY <2>1, <2>2
<1>4. /\ Parse(Digested(Tagged(name, none), none)) = Image(name, none, none)
      /\ Parse(Digested(Tagged(name, latest), none)) = Image(name, latest, none)
  <2>1. {"/", ":", "@"} \subseteq S
    OBVIOUS
  <2>2. none \in Tags \cap Seq(S) /\ none \in Digests \cap Seq(S) /\ latest \in Tags \cap Seq(S)
    BY <1>1, <1>2
  <2>3. Parse(Digested(Tagged(name, none), none)) = Image(name, none, none)
    BY <1>3, <2>1, <2>2, ParseImage
  <2>4. Parse(Digested(Tagged(name, latest), none)) = Image(name, latest, none)
    BY <1>3, <2>1, <2>2, ParseImage
  <2> QED
    BY <2>3, <2>4
<1>5. Tagged(name, none) = name /\ Digested(name, none) = name
  BY <1>1, ConcatEmptySeq DEF Tagged, Digested, Marked
<1>6. Digested(Tagged(name, latest), none) = Tagged(name, latest)
  <2>1. Tagged(name, latest) \in Seq(S)
    BY <1>2, <1>3, TagFound
  <2> QED
    BY <1>1, <2>1, ConcatEmptySeq DEF Digested, Marked
<1> QED
  BY <1>1, <1>4, <1>5, <1>6 DEF none, latest

\* The image is the same whether its tag is left out or not.
LEMMA LatestIsDefault ==
    ASSUME NEW name
    PROVE  Image(name, <<"latest">>, <<>>) = Image(name, <<>>, <<>>)
<1>1. <<"latest">> # <<>>
  OBVIOUS
<1> QED
  BY <1>1 DEF Image

\* References of three tokens and of five, as they are written.
LEMMA WrittenOne ==
    ASSUME NEW S, NEW a \in Seq(S), NEW b \in Seq(S), NEW t \in S
    PROVE  Len(a) = 1 /\ Len(b) = 1 => Join(a, t, b) = <<a[1], t, b[1]>>
<1> DEFINE j == Join(a, t, b)
           e == <<a[1], t, b[1]>>
<1>1. j \in Seq(S) /\ Len(j) = Len(a) + 1 + Len(b)
  BY Joined
<1>2. j[Len(a) + 1] = t /\ \A i \in 1..Len(a) : j[i] = a[i]
  <2>1. j[Len(a) + 1] = t
    BY Joined
  <2>2. \A i \in 1..Len(a) : j[i] = a[i]
    BY Joined
  <2> QED
    BY <2>1, <2>2
<1>3. \A i \in 1..Len(b) : j[Len(a) + 1 + i] = b[i]
  BY Joined
<1> HIDE DEF j
<1> SUFFICES ASSUME Len(a) = 1, Len(b) = 1
             PROVE  j = e
  BY DEF j
<1>4. 1 \in 1..Len(a) /\ 1 \in 1..Len(b) /\ Len(a) + 1 = 2 /\ Len(a) + 1 + 1 = 3
  OBVIOUS
<1>5. j[1] = a[1] /\ j[2] = t /\ j[3] = b[1] /\ Len(j) = 3
  BY <1>1, <1>2, <1>3, <1>4
<1>6. a[1] \in S /\ b[1] \in S
  BY <1>4, ElementOfSeq
<1>7. e \in Seq(S) /\ Len(e) = 3 /\ e[1] = a[1] /\ e[2] = t /\ e[3] = b[1]
  BY <1>6
<1> HIDE DEF e
<1>8. \A i \in 1..3 : j[i] = e[i]
  BY <1>5, <1>7
<1> QED
  BY <1>1, <1>5, <1>7, <1>8, SeqEqual DEF j, e

LEMMA WrittenThree ==
    ASSUME NEW S, NEW a \in Seq(S), NEW b \in Seq(S), NEW t \in S
    PROVE  Len(a) = 1 /\ Len(b) = 3 => Join(a, t, b) = <<a[1], t, b[1], b[2], b[3]>>
<1> DEFINE j == Join(a, t, b)
           e == <<a[1], t, b[1], b[2], b[3]>>
<1>1. j \in Seq(S) /\ Len(j) = Len(a) + 1 + Len(b)
  BY Joined
<1>2. j[Len(a) + 1] = t /\ \A i \in 1..Len(a) : j[i] = a[i]
  <2>1. j[Len(a) + 1] = t
    BY Joined
  <2>2. \A i \in 1..Len(a) : j[i] = a[i]
    BY Joined
  <2> QED
    BY <2>1, <2>2
<1>3. \A i \in 1..Len(b) : j[Len(a) + 1 + i] = b[i]
  BY Joined
<1> HIDE DEF j
<1> SUFFICES ASSUME Len(a) = 1, Len(b) = 3
             PROVE  j = e
  BY DEF j
<1>4. /\ 1 \in 1..Len(a) /\ 1 \in 1..Len(b) /\ 2 \in 1..Len(b) /\ 3 \in 1..Len(b)
      /\ Len(a) + 1 = 2 /\ Len(a) + 1 + 1 = 3 /\ Len(a) + 1 + 2 = 4 /\ Len(a) + 1 + 3 = 5
  OBVIOUS
<1>5. /\ j[1] = a[1] /\ j[2] = t /\ Len(j) = 5
      /\ j[3] = b[1] /\ j[4] = b[2] /\ j[5] = b[3]
  BY <1>1, <1>2, <1>3, <1>4
<1>6. a[1] \in S /\ b[1] \in S /\ b[2] \in S /\ b[3] \in S
  BY <1>4, ElementOfSeq
<1>7. /\ e \in Seq(S) /\ Len(e) = 5
      /\ e[1] = a[1] /\ e[2] = t /\ e[3] = b[1] /\ e[4] = b[2] /\ e[5] = b[3]
  BY <1>6
<1> HIDE DEF e
<1>8. \A i \in 1..5 : j[i] = e[i]
  BY <1>5, <1>7
<1> QED
  BY <1>1, <1>5, <1>7, <1>8, SeqEqual DEF j, e

\* The longer ways to write an official image are read as the short one.
LEMMA ShortForms ==
    ASSUME NEW w \in RepositoryWords \ (DottedWords \cup {"localhost"}),
           NEW r \in {<<"docker.io", "/", w>>, <<"library", "/", w>>,
                      <<"docker.io", "/", "library", "/", w>>, <<w, ":", "latest">>}
    PROVE  Parse(r) = Parse(<<w>>)
<1> SUFFICES ASSUME NEW S, S = {"/", ":", "@", "docker.io", "library", "latest", w}
             PROVE  Parse(r) = Parse(<<w>>)
  OBVIOUS
<1>0. {"/", ":", "@", "docker.io", "library", "latest", w} \subseteq S
  OBVIOUS
<1> DEFINE hub == <<"docker.io">>
           lib == <<"library">>
           short == <<w>>
           long == Join(lib, "/", short)
<1>1. /\ hub \in Seq(S) /\ lib \in Seq(S) /\ short \in Seq(S)
      /\ Len(hub) = 1 /\ Len(lib) = 1 /\ Len(short) = 1
      /\ hub[1] = "docker.io" /\ lib[1] = "library" /\ short[1] = w
  BY <1>0
<1>2. /\ hub = <<"docker.io">>
      /\ long = <<"library", "/", w>> /\ long = <<"library", "/">> \o short
      /\ Join(hub, "/", short) = <<"docker.io", "/", w>>
      /\ Join(hub, "/", long) = <<"docker.io", "/", "library", "/", w>>
      /\ Tagged(short, <<"latest">>) = <<w, ":", "latest">>
  <2>0. /\ "docker.io" \in S /\ "library" \in S /\ w \in S /\ "/" \in S /\ ":" \in S
        /\ "latest" \in S
    OBVIOUS
  <2> DEFINE latest == <<"latest">>
  <2>1. latest \in Seq(S) /\ Len(latest) = 1 /\ latest[1] = "latest" /\ latest # <<>>
    OBVIOUS
  <2>2. long = <<"library", "/">> \o short
    BY DEF Join
  <2> HIDE DEF hub, lib, short, latest
  <2>3. Join(lib, "/", short) = <<lib[1], "/", short[1]>>
    BY <1>1, <2>0, WrittenOne
  <2>4. long = <<"library", "/", w>>
    BY <1>1, <2>3
  <2>5. long \in Seq(S) /\ Len(long) = 3 /\ long[1] = "library" /\ long[2] = "/" /\ long[3] = w
    <3>1. <<"library", "/", w>> \in Seq(S)
      BY <2>0
    <3>2. \A x, y, z : LET q == <<x, y, z>> IN Len(q) = 3 /\ q[1] = x /\ q[2] = y /\ q[3] = z
      OBVIOUS
    <3> QED
      BY <2>4, <3>1, <3>2
  <2> HIDE DEF long
  <2>6. Join(hub, "/", short) = <<hub[1], "/", short[1]>>
    BY <1>1, <2>0, WrittenOne
  <2>7. Join(hub, "/", long) = <<hub[1], "/", long[1], long[2], long[3]>>
    BY <1>1, <2>0, <2>5, WrittenThree
  <2>8. Join(hub, "/", long) = <<"docker.io", "/", "library", "/", w>>
    BY <1>1, <2>5, <2>7
  <2>9. Join(short, ":", latest) = <<short[1], ":", latest[1]>>
    BY <1>1, <2>0, <2>1, WrittenOne
  <2>10. Tagged(short, latest) = Join(short, ":", latest)
    <3>1. Tagged(short, latest) = short \o (<<":">> \o latest)
      BY <2>1 DEF Tagged, Marked
    <3>2. <<":">> \in Seq(S)
      BY <2>0
    <3>3. (short \o <<":">>) \o latest = short \o (<<":">> \o latest)
      BY <1>1, <2>1, <3>2, ConcatAssociative
    <3> QED
      BY <3>1, <3>3 DEF Join
  <2>11. Tagged(short, latest) = <<w, ":", "latest">>
    BY <1>1, <2>1, <2>9, <2>10
  <2> QED
    BY <1>1, <2>2, <2>4, <2>6, <2>8, <2>11 DEF hub, latest
<1>3. long \in Seq(S) /\ Join(hub, "/", short) \in Seq(S) /\ Join(hub, "/", long) \in Seq(S)
  <2>1. "/" \in S
    OBVIOUS
  <2> HIDE DEF hub, lib, short
  <2>2. long \in Seq(S)
    BY <1>1, <2>1, Joined
  <2> HIDE DEF long
  <2>3. Join(hub, "/", short) \in Seq(S)
    BY <1>1, <2>1, Joined
  <2>4. Join(hub, "/", long) \in Seq(S)
    BY <1>1, <2>1, <2>2, Joined
  <2> QED
    BY <2>2, <2>3, <2>4
<1>4. w \notin {":", "@", "/", "localhost"} \cup DottedWords
  BY OciAssumption
<1> HIDE DEF hub, lib, short
<1>5. \A u : /\ Has(hub, u) <=> u = "docker.io"
             /\ Has(lib, u) <=> u = "library"
             /\ Has(short, u) <=> u = w
  BY <1>1, HasDef
<1>6. \A u : Has(long, u) <=> u \in {"library", "/", w}
  BY <1>0, <1>1, <1>5, HasJoined
<1>7. /\ Hosted(hub) /\ ~Hosted(lib) /\ ~Hosted(short)
  <2>1. hub[1] \in DottedWords /\ lib[1] \notin DottedWords /\ short[1] \notin DottedWords
    BY <1>1, <1>4, OciAssumption
  <2>2. 1 \in 1..1 /\ \A i \in 1..1 : i = 1
    OBVIOUS
  <2>3. <<"localhost">>[1] = "localhost"
    OBVIOUS
  <2>4. lib # <<"localhost">> /\ short # <<"localhost">>
    BY <1>1, <1>4, <2>3
  <2>5. ~Has(lib, ":") /\ ~Has(short, ":")
    BY <1>4, <1>5
  <2> QED
    BY <1>1, <2>1, <2>2, <2>4, <2>5 DEF Hosted
<1> HIDE DEF long
<1> DEFINE image == IF ValidRepository(long)
                    THEN [valid |-> TRUE, registry |-> hub, repository |-> long,
                          tag |-> <<"latest">>, digest |-> <<>>]
                    ELSE Invalid
<1>8. InLibrary(hub, short) = long /\ InLibrary(hub, long) = long
  BY <1>2, <1>4, <1>5, <1>6 DEF InLibrary
<1>9. Image(short, <<>>, <<>>) = image
  <2>1. Before(short, "/") = short
    BY <1>4, <1>5, NotFound
  <2> QED
    BY <1>2, <1>7, <1>8, <2>1 DEF Image
<1>10. Image(long, <<>>, <<>>) = image
  <2>1. Before(long, "/") = lib
    BY <1>0, <1>1, <1>5, Found DEF long
  <2> QED
    BY <1>2, <1>7, <1>8, <2>1 DEF Image
<1>11. Image(Join(hub, "/", short), <<>>, <<>>) = image
  <2>1. Before(Join(hub, "/", short), "/") = hub /\ After(Join(hub, "/", short), "/") = short
    BY <1>0, <1>1, <1>5, Found
  <2> QED
    BY <1>2, <1>7, <1>8, <2>1 DEF Image
<1>12. Image(Join(hub, "/", long), <<>>, <<>>) = image
  <2>1. Before(Join(hub, "/", long), "/") = hub /\ After(Join(hub, "/", long), "/") = long
    BY <1>0, <1>1, <1>3, <1>5, Found
  <2> QED
    BY <1>2, <1>7, <1>8, <2>1 DEF Image
<1>13. Image(short, <<"latest">>, <<>>) = image
  BY <1>9, LatestIsDefault
<1> HIDE DEF image
<1>14. /\ \A u : Has(Join(hub, "/", short), u) <=> u \in {"docker.io", "/", w}
       /\ \A u : Has(Join(hub, "/", long), u) <=> u \in {"docker.io", "/", "library", w}
  <2>1. "/" \in S
    BY <1>0
  <2>2. \A u : Has(Join(hub, "/", short), u) <=> Has(hub, u) \/ u = "/" \/ Has(short, u)
    BY <1>1, <2>1, HasJoined
  <2>3. \A u : Has(Join(hub, "/", long), u) <=> Has(hub, u) \/ u = "/" \/ Has(long, u)
    BY <1>1, <1>3, <2>1, HasJoined
  <2> QED
    BY <1>5, <1>6, <2>2, <2>3
<1>15. \A n \in {short, long, Join(hub, "/", short), Join(hub, "/", long)} :
          n \in Seq(S) /\ ~Has(n, "@") /\ ~Has(n, ":")
  <2>1. ~Has(short, "@") /\ ~Has(short, ":") /\ ~Has(long, "@") /\ ~Has(long, ":")
    BY <1>4, <1>5, <1>6
  <2>2. /\ ~Has(Join(hub, "/", short), "@") /\ ~Has(Join(hub, "/", short), ":")
        /\ ~Has(Join(hub, "/", long), "@") /\ ~Has(Join(hub, "/", long), ":")
    BY <1>4, <1>14
  <2> QED
    BY <1>1, <1>3, <2>1, <2>2
<1>16. \A n \in {short, long, Join(hub, "/", short), Join(hub, "/", long)} :
          /\ Parse(n) = Image(n, <<>>, <<>>)
          /\ Parse(Tagged(n, <<"latest">>)) = Image(n, <<"latest">>, <<>>)
  BY <1>0, <1>15, PlainName
<1>17. /\ Parse(short) = image /\ Parse(long) = image
       /\ Parse(Join(hub, "/", short)) = image /\ Parse(Join(hub, "/", long)) = image
       /\ Parse(Tagged(short, <<"latest">>)) = image
  BY <1>9, <1>10, <1>11, <1>12, <1>13, <1>16
<1> QED
  BY <1>2, <1>17 DEF short

-----------------------------------------------------------------------------
(* The theorem. *)

\* Every reference a template may name: whatever tokens it is made of and however
\* long it is, its canonical form is read as the same image, and the four longer
\* ways to write an official image are read as the short one.
THEOREM CanonicalReferences ==
    ASSUME NEW S, NEW references \in SUBSET Seq(S)
    PROVE  CanonicalForms(references)
<1>1. ASSUME NEW r \in references, Parse(r).valid
      PROVE  Parse(Canonical(Parse(r))) = Parse(r)
  <2> SUFFICES ASSUME NEW U, U = S \cup {"/", ":", "@", "library", "docker.io", "latest"}
               PROVE  Parse(Canonical(Parse(r))) = Parse(r)
    OBVIOUS
  <2>1. {"/", ":", "@", "library", "docker.io", "latest"} \subseteq U /\ S \subseteq U
    OBVIOUS
  <2>2. r \in Seq(U)
    BY <2>1, SeqMonotonic
  <2> QED
    BY <1>1, <2>1, <2>2, CanonicalReads
<1> QED
  BY <1>1, ShortForms DEF CanonicalForms

=============================================================================
