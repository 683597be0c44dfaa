CONSTANTS
  root = root
  guest = guest
  k1 = k1
  k2 = k2
  m1 = m1
  h1 = h1
  c1 = c1
  extra = extra
  Primary = nvidia
  Name = {root, guest}
  Hash = {h1}
  Key = {k1, k2}
  Client = {c1}
  Extra = {extra}
  Model = {m1}
  Limits = {narrow, out}
  InRange = {narrow}
  Handler = {a, b}
  Found <- FoundOrphaned
  Saves = 1
  Nothing = Nothing
SPECIFICATION Spec
INVARIANT ClaimPossible
