\* Safety: four requests nobody pins, on one model.
SPECIFICATION Spec
CONSTANTS
  Model = {m1}
  Req = {r1, r2, r3, r4}
  Overrides = {0}
  Poll = 1
  Backoff = 2
  Grow = 3
  Dissolve = 4
  MaxLimit = 4
  Patience = {1}
  MaxPatience = 1
INVARIANTS PermitAccounting OverloadBounded
SYMMETRY Symmetry
