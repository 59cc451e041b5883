SPECIFICATION FairSpec
CONSTANTS
    FrameSymbols = 8
    Fluct = 2
    SyncOffset = 3
    SmallestSync = 1
    SymPerByte = 2
    ShortReads = FALSE
    MaxErrors = 0
    Length = 44
    Streams <- FadedStreams
INVARIANTS
    OnePlaceholderPerLostSlot
