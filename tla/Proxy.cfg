CONSTANTS
  root = root
  k1 = k1
  k2 = k2
  k3 = k3
  m1 = m1
  h1 = h1
  first = first
  second = second
  one = one
  two = two
  Primary = nvidia
  Name = {root}
  Hash = {h1}
  Key = {k1, k2, k3}
  Client = {}
  Extra = {first, second}
  Model = {m1}
  Limits = {one, two}
  InRange = {one, two}
  Request = {r1, r2}
  Handler = {h}
  Found <- FoundInUse
  MaxInflight <- CapOf
  Saves = 1
  Unnamed = none
  Nothing = Nothing
SPECIFICATION FairSpec
INVARIANTS LoadBounded
PROPERTIES RoutedWhereServed SavesEnd
CHECK_DEADLOCK FALSE
