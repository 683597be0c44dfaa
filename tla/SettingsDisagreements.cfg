\* What the sources say of saves and the code does not do: TLC refutes the invariant that
\* is not commented out; uncomment another in its place.
\* LaneForEveryRoute: a group without an enabled key is routed to.
\* OldOrNew: a second save while the directory has yet to be synced after the first.
CONSTANTS
  root = root
  guest = guest
  k1 = k1
  k2 = k2
  m1 = m1
  h1 = h1
  c1 = c1
  extra = extra
  Primary = nvidia
  Name = {root, guest}
  Hash = {h1}
  Key = {k1, k2}
  Client = {c1}
  Extra = {extra}
  Model = {m1}
  Limits = {narrow, out}
  InRange = {narrow}
  Handler = {a, b}
  Found <- FoundAtFirst
  Saves = 2
  Nothing = Nothing
SPECIFICATION Spec
INVARIANT LaneForEveryRoute
\* INVARIANT OldOrNew
