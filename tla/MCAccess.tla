------------------------------ MODULE MCAccess ------------------------------
(***************************************************************************)
(* Access for TLC: a superuser and an admin, who may be removed, demoted,  *)
(* reset and made again, and two requests at a time.                       *)
(***************************************************************************)
EXTENDS Access, TLC

CONSTANTS root, guest, k1, p1

Hashes == [pw : Password, salt : 0 .. Salts]

Claimed2 ==
  [ users |-> { [name |-> root, role |-> "superuser", hash |-> HashOf(p1, 0)],
                [name |-> guest, role |-> "admin", hash |-> HashOf(p1, 0)] },
    groups |-> <<[id |-> Primary, enabled |-> TRUE, models |-> {}]>>,
    keys |-> {[key |-> k1, group |-> Primary, owner |-> root, enabled |-> TRUE]},
    clients |-> {}, mode |-> "keyed", disabled |-> {}, limits |-> CHOOSE l \in InRange : TRUE ]

Symmetry == Permutations(Task)
=============================================================================
