SPECIFICATION Spec
CONSTANTS
  Files <- MCFiles
  MinRead = 5
  Burst = 2
  AtomHead = 2
  Magic = 1
  ChunkHead = 1
  ReadSize = 4
  Id3Head = 1
  MmshHead = 3
INVARIANTS InStep NothingLeft NoFalseError
PROPERTY DecodeEnds
