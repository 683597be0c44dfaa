------------------------------ MODULE MCProxy -------------------------------
(***************************************************************************)
(* Proxy for TLC: one user with a key of each of three groups, of which    *)
(* the second pins a model.                                                *)
(***************************************************************************)
EXTENDS Proxy, TLC

CONSTANTS root, k1, k2, k3, m1, h1, first, second, one, two

Owning(k, g) == [key |-> k, group |-> g, owner |-> root, enabled |-> TRUE]

InUse ==
  [ users |-> {[name |-> root, role |-> "superuser", hash |-> h1]},
    groups |-> << [id |-> Primary, enabled |-> TRUE, models |-> {}],
                  [id |-> first, enabled |-> TRUE, models |-> {m1}],
                  [id |-> second, enabled |-> TRUE, models |-> {}] >>,
    keys |-> {Owning(k1, Primary), Owning(k2, first), Owning(k3, second)},
    clients |-> {}, mode |-> "open", disabled |-> {}, limits |-> one ]

FoundInUse == {InUse}
CapOf == [l \in Limits |-> IF l = one THEN 1 ELSE 2]
Symmetry == Permutations(Request)
=============================================================================
