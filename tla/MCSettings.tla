----------------------------- MODULE MCSettings -----------------------------
(***************************************************************************)
(* Settings for TLC: a fresh store, one whose users were emptied by hand   *)
(* for recovery, and one in use with a second group and a second user.     *)
(***************************************************************************)
EXTENDS Settings, TLC

CONSTANTS root, guest, k1, k2, m1, h1, c1, extra

PrimaryGroup == [id |-> Primary, enabled |-> TRUE, models |-> {}]

Fresh ==
  [ users |-> {}, groups |-> <<PrimaryGroup>>, keys |-> {}, clients |-> {},
    mode |-> "keyed", disabled |-> {}, limits |-> CHOOSE l \in InRange : TRUE ]

Orphan == [key |-> k1, group |-> Primary, owner |-> guest, enabled |-> TRUE]

Recovered == [Fresh EXCEPT !.keys = {Orphan}, !.clients = {[name |-> c1, owner |-> guest]}]

InUse ==
  [ Fresh EXCEPT
      !.users = { [name |-> root, role |-> "superuser", hash |-> h1],
                  [name |-> guest, role |-> "user", hash |-> h1] },
      !.groups = Append(@, [id |-> extra, enabled |-> TRUE, models |-> {m1}]),
      !.keys = { [key |-> k1, group |-> Primary, owner |-> root, enabled |-> TRUE],
                 [key |-> k2, group |-> extra, owner |-> guest, enabled |-> TRUE] } ]

Symmetry == Permutations(Handler)

FoundAtFirst == {Fresh, Recovered, InUse}
FoundOrphaned == {[Fresh EXCEPT !.groups = InUse.groups, !.keys = {[Orphan EXCEPT !.group = extra]}]}
=============================================================================
