\* An exhaustion recorded by a request that holds no permit.
SPECIFICATION Spec
CONSTANTS
  Model = {m1}
  Req = {r1, r2}
  Overrides = {0, 2}
  Poll = 1
  Backoff = 1
  Grow = 2
  Dissolve = 3
  MaxLimit = 4
  Patience = {1}
  MaxPatience = 1
PROPERTIES NotedUnderPermit
