------------------------------ MODULE MCStorage ------------------------------
(* Storage with the bounds TLC uses, and the image references it tries. *)
EXTENDS Storage, OciReference

TheValues == [src : Items \cup {NoItem}, st : States]

Words == RepositoryWords \cup TagWords \cup DigestWords \cup DottedWords \cup {"Bad"}
Tokens == {"/", ":", "@"} \cup Words

\* All references of at most five tokens.
References ==
    {r \in UNION {[1..n -> Tokens] : n \in 1..5} :
        \A i \in 2..Len(r) : r[i] \notin Words \/ r[i - 1] \notin Words}

AreCanonical == CanonicalForms(References)

\* The image of a template that has been recorded reads back as the same image,
\* and is the same for all the ways to write its reference.
ImagesAreCanonical == \A t \in Templates : Known(t) => AreCanonical

=============================================================================
