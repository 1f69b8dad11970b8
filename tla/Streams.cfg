SPECIFICATION Spec
CONSTANTS
  Streams = {1, 2}
  Builds <- AnyBuild
  Requests <- FewRequests
  Asked <- AnyRequest
  Faults = {"engine", "open", "state", "record", "stuck", "start", "disconnect"}
  MaxMishaps = 1
  MaxInits = 2
  NDEBUG = TRUE
  Tame = TRUE
  numberOfBuffers = 2
  MaxPosts = 2
  Many = {"AAudio"}
INVARIANTS Defined BufferIsOurs NothingLeaks DevicesServe
PROPERTIES KeepsPromise GoesOn
CHECK_DEADLOCK FALSE
