SPECIFICATION FairSpec
CONSTANTS
    FrameSymbols = 8
    Fluct = 2
    SyncOffset = 3
    SmallestSync = 1
    SymPerByte = 2
    ShortReads = TRUE
    MaxErrors = 1
    Length = 30
    Streams <- AllStreams
INVARIANTS
    TypeOK
    NoFrameLost
    FramesInOrder
    FramesIntact
    PlaceholderFillsHole
    SyncedFraming
PROPERTIES
    ImplementsFrameSequence
    Terminates
