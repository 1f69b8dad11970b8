SPECIFICATION ProcessSpec
CONSTANTS
  Slots = 3
  CrossSlots = 6
  Rest = 2
  Tracks = 2
  Lengths = {1, 7}
  Rates = {1, 2}
  DefaultRate = 1
  FadeModes = {"NONE", "IN", "OUT", "INOUT", "CROSSFADE"}
  FadeFrames = 3
  Delay = 1
  Period = 2
  Android = FALSE
  Ops = {"flush", "process"}
  MaxFrames = 2
  Latency = 1
  Tries = 1
PROPERTIES PlayedInOrder StartReported NothingHeldBack Drains
