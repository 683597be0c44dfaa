\* A slot granted after the deadline of its waiter, by a dispatcher that is never
\* late itself.
SPECIFICATION PromptSpec
CONSTANTS
  k1 = k1
  k2 = k2
  Key <- MCKey
  Endpoint <- MCEndpoint
  Window = 2
  MaxRpm = 2
  MaxCool = 2
  Req = {r1, r2}
  None = None
  PoolSpecs <- MCSpecs
  FirstSpec <- Full
  Prefs <- MCPrefs
  Filters <- MCFilters
  Patience <- MCPatience
  MaxPatience = 2
  Backoffs <- MCBackoffs
  SleepCap = 1
PROPERTIES GrantedInTime
