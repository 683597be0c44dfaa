\* Liveness, and the rules pinned requests share with others: admission always
\* ends, and the governor always lets go.
SPECIFICATION FairSpec
CONSTANTS
  Model = {m1}
  Req = {r1, r2}
  Overrides = {0, 1}
  Poll = 1
  Backoff = 1
  Grow = 2
  Dissolve = 3
  MaxLimit = 3
  Patience = {1}
  MaxPatience = 1
INVARIANTS PinnedCapHolds
PROPERTIES DrainHonoured EveryAdmissionEnds UngovernedInTheEnd
