\* One counter over two starts: compactions at every cutoff, a clock that is set
\* back, failed appends and crashes in every order.
SPECIFICATION IndexSpec
CONSTANTS
  requests = requests
  Series = {requests}
  Retention = {0, 1}
  MaxTime = 3
  MaxCount = 1
  Boots = 2
  Samples = 3
  Revisions = 2
INVARIANTS TotalsExact Tiles
PROPERTIES NothingTwice
CHECK_DEADLOCK FALSE
