------------------------------ MODULE Catalogue ------------------------------
(***************************************************************************)
(* What the metadata store promises: a map from ids to records in which    *)
(* one record is put or deleted at a time, and nothing else ever changes,  *)
(* whoever else writes and wherever the process dies.                      *)
(***************************************************************************)
CONSTANTS
    Keys,       \* ids of templates, snapshots, sandboxes and events
    Values,     \* records
    NoRecord

VARIABLE records

Init == records = [k \in Keys |-> NoRecord]

Put(k, v) == records' = [records EXCEPT ![k] = v]
Delete(k) == records' = [records EXCEPT ![k] = NoRecord]

Next == \E k \in Keys : Delete(k) \/ \E v \in Values : Put(k, v)

Spec == Init /\ [][Next]_records

=============================================================================
