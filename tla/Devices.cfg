SPECIFICATION Spec
CONSTANTS
  Tracks = 2
  Frames = 2
  BufFrames = 2
  Rates = {1, 2}
  DefaultRate = 1
  Block = 2
  Ops = {"aude", "stop", "close"}
  MaxOps = 1
  MaxMishaps = 1
  MaxRecovers = 1
  Streams = {1, 2}
  Monitors = {"first", "second"}
  Kinds = {"alsa", "pa", "pulse", "stdout"}
INVARIANTS HandleLive
PROPERTIES RateMatches Settles CloseReturns
CHECK_DEADLOCK FALSE
