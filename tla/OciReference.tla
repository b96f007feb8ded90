----------------------------- MODULE OciReference -----------------------------
(***************************************************************************)
(* OCIReference.parse and .canonical (src/src/agentenv/oci.py), by which a *)
(* docker template's source becomes the image reference that is stored.    *)
(* A reference is a sequence of tokens: the separators "/", ":" and "@",   *)
(* and words, no two of them adjacent.  What the regular expressions and   *)
(* the tests for "." tell apart is given as sets of words.                 *)
(***************************************************************************)
EXTENDS Naturals, Sequences, FiniteSetsExt

CONSTANTS
    RepositoryWords,   \* may be a component of a repository
    TagWords,          \* may be a tag
    DigestWords,       \* may be a digest
    DottedWords        \* contain a "."

ASSUME OciAssumption ==
    /\ \A w \in {"/", ":", "@"} : w \notin RepositoryWords \cup TagWords \cup DigestWords
    /\ "library" \in RepositoryWords \ DottedWords
    /\ "docker.io" \in DottedWords
    /\ "latest" \in TagWords

Positions(s, token) == {i \in 1..Len(s) : s[i] = token}
Has(s, token) == Positions(s, token) # {}
\* rfind, with 0 for "not there".
LastPosition(s, token) == Max(Positions(s, token) \cup {0})
\* The part before the first occurrence of a token, and the part after it.
Before(s, token) ==
    IF Has(s, token) THEN SubSeq(s, 1, Min(Positions(s, token)) - 1) ELSE s
After(s, token) ==
    IF Has(s, token) THEN SubSeq(s, Min(Positions(s, token)) + 1, Len(s)) ELSE <<>>

\* The _NAME expression.
ValidRepository(s) ==
    /\ Len(s) % 2 = 1
    /\ \A i \in 1..Len(s) : IF i % 2 = 1 THEN s[i] \in RepositoryWords ELSE s[i] = "/"

Invalid == [valid |-> FALSE]

\* Mutant: names on docker.io always get the prefix.
AlwaysInLibrary(registry, repository) ==
    IF registry = <<"docker.io">> THEN <<"library", "/">> \o repository ELSE repository

\* Official images have a prefix that may be left out.
InLibrary(registry, repository) ==
    IF registry = <<"docker.io">> /\ ~Has(repository, "/")
    THEN <<"library", "/">> \o repository
    ELSE repository

Parse(value) ==
    LET named == Before(value, "@")
        digest == After(value, "@")
        tagged == LastPosition(named, ":") > LastPosition(named, "/")
        name == IF tagged THEN SubSeq(named, 1, LastPosition(named, ":") - 1) ELSE named
        tag == IF tagged THEN SubSeq(named, LastPosition(named, ":") + 1, Len(named)) ELSE <<>>
        first == Before(name, "/")
        hosted == \/ Has(first, ":") \/ first = <<"localhost">>
                  \/ \E i \in 1..Len(first) : first[i] \in DottedWords
        registry == IF hosted THEN first ELSE <<"docker.io">>
        repository == InLibrary(registry, IF hosted THEN After(name, "/") ELSE name)
    IN  IF /\ Has(value, "@") => Len(digest) = 1 /\ digest[1] \in DigestWords
           /\ tagged => Len(tag) = 1 /\ tag[1] \in TagWords
           /\ ValidRepository(repository)
        THEN [valid |-> TRUE, registry |-> registry, repository |-> repository,
              tag |-> IF tag = <<>> /\ digest = <<>> THEN <<"latest">> ELSE tag,
              digest |-> digest]
        ELSE Invalid

Canonical(ref) ==
    ref.registry \o <<"/">> \o ref.repository
        \o (IF ref.tag # <<>> THEN <<":">> \o ref.tag ELSE <<>>)
        \o (IF ref.digest # <<>> THEN <<"@">> \o ref.digest ELSE <<>>)

-----------------------------------------------------------------------------

\* What is stored as a template's image, and given to docker, reads back as the
\* same image: a canonical form is its own canonical form.  Leaving out the
\* registry, the prefix or the tag of an official image makes no difference.
CanonicalForms(references) ==
    /\ \A r \in references :
           LET ref == Parse(r) IN ref.valid => Parse(Canonical(ref)) = ref
    /\ \A w \in RepositoryWords \ (DottedWords \cup {"localhost"}) :
           \A r \in {<<"docker.io", "/", w>>, <<"library", "/", w>>,
                     <<"docker.io", "/", "library", "/", w>>, <<w, ":", "latest">>} :
               Parse(r) = Parse(<<w>>)

=============================================================================
