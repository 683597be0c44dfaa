\* All interleavings of two requests, four blueprints and the clock: what may not
\* happen, and that nobody waits for ever.
SPECIFICATION FairSpec
CONSTANTS
  k1 = k1
  k2 = k2
  Key <- MCKey
  Endpoint <- MCEndpoint
  Window = 2
  MaxRpm = 2
  MaxCool = 2
  Req = {r1, r2}
  None = None
  PoolSpecs <- MCSpecs
  FirstSpec <- Full
  Prefs <- MCPrefs
  Filters <- MCFilters
  Patience <- MCPatience
  MaxPatience = 2
  Backoffs <- MCBackoffs
  SleepCap = 1
INVARIANTS WindowCoversSpent
PROPERTIES RefusedOnlyWhenHopeless GrantAllowed ImplementsSlotService EveryWaiterAnswered
