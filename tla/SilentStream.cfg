SPECIFICATION FairSpec
CONSTANTS
  Lane = {l1, l2}
  Plain = {l2}
  None = None
  MaxWait = 3
  Deadlines = {0, 2, 4}
  Attempt = 1
  Cooldown = 2
  RetryAfter = {1, 3}
  StreamIdle = 2
PROPERTY SilentStreamsEnd
