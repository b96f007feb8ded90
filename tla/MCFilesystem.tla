---------------------------- MODULE MCFilesystem ----------------------------
(* Filesystem with the trees and the requests TLC uses. *)
EXTENDS Filesystem

A == <<"a">>
B == <<"b">>
AA == <<"a", "a">>
AB == <<"a", "b">>
BB == <<"b", "b">>
AAB == <<"a", "a", "b">>
Root == <<>> :> "dir"

TheTrees ==
    {Root @@ (A :> "file"),
     Root @@ (A :> "dir") @@ (AB :> "escape"),
     Root @@ (A :> "dir") @@ (AA :> "file"),
     Root @@ (A :> "dir") @@ (AA :> "dir") @@ (AAB :> "file") @@ (B :> "dir")}

TheAsks ==
    [op : {"read"}, path : {AA}] \cup
    [op : {"stat"}, path : {A, AB}] \cup
    [op : {"list"}, path : {<<>>, A}] \cup
    [op : {"write"}, path : {A, AA, BB}] \cup
    [op : {"mkdir"}, path : {A, AA, AB}, parents : BOOLEAN, exist_ok : BOOLEAN] \cup
    [op : {"move"}, path : {<<>>, A, AA}, dest : {B, BB, AAB}] \cup
    [op : {"move"}, path : {B}, dest : {A, <<"..">>}] \cup
    [op : {"remove"}, path : {<<>>, A, AA}, recursive : BOOLEAN]

\* The threads are alike.
Symmetry == Permutations(Threads)

=============================================================================
