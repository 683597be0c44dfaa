SPECIFICATION Spec
CONSTANTS
  Sampler = Sampler
  Settings = Settings
  Worker = {w1, w2}
  Retention = {0, 1, 2}
  Oldest = 3
INVARIANTS OneCompaction QuietMeansCompacted
SYMMETRY Symmetry
