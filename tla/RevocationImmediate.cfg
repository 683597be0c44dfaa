CONSTANTS
  root = root
  guest = guest
  k1 = k1
  p1 = p1
  Primary = nvidia
  Name = {root, guest}
  Password = {p1, p2}
  Salts = 2
  Hash <- Hashes
  Key = {k1}
  Client = {}
  Extra = {}
  Model = {}
  Limits = {narrow}
  InRange = {narrow}
  Task = {a, b}
  MaxFailures = 1
  Boot <- Claimed2
  Nobody = Nobody
SPECIFICATION Spec
INVARIANT RevocationImmediate
SYMMETRY Symmetry
