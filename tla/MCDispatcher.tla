---------------------------- MODULE MCDispatcher ----------------------------
(* The dispatcher on two keys of two groups, two requests and four           *)
(* blueprints: both keys, a lowered budget, a disabled key, a removed key.   *)
EXTENDS Dispatcher, TLC

CONSTANTS k1, k2

Blueprint(keys, enabled, r1, r2) ==
  [ keys |-> keys, enabled |-> enabled,
    rpm |-> (k1 :> r1 @@ k2 :> r2), endpoint |-> (k1 :> 0 @@ k2 :> 1) ]

Full     == Blueprint(<<k1, k2>>, {k1, k2}, 2, 1)
Lowered  == Blueprint(<<k1, k2>>, {k1, k2}, 1, 1)
Disabled == Blueprint(<<k1, k2>>, {k2}, 2, 1)
Removed  == Blueprint(<<k1>>, {k1}, 2, 1)

MCSpecs == {Full, Lowered, Disabled, Removed}
MCKey == {k1, k2}
MCEndpoint == {0, 1}
MCFilters == {{1}, {0, 1}}
MCPrefs == {0, 1}
MCPatience == {2}
MCBackoffs == {2}
Symmetry == Permutations(Req)
=============================================================================
