SPECIFICATION Spec
CONSTANTS
    Byte = {0, 1}
    Junk = junk
    InitSize = 4
    Mods = {1, 2, 3}
    NewSizes = {5}
    UMod = 256
INVARIANTS LoopsWork FrameNeverStraddles UnwrapWorks
PROPERTIES ImplementsFifo
