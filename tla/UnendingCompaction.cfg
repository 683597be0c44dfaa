SPECIFICATION FairSpec
CONSTANTS
  Sampler = Sampler
  Settings = Settings
  Worker = {w1, w2}
  Retention = {0, 1}
  Oldest = 2
PROPERTIES UnlimitedSettles
