SPECIFICATION FairSpec
CONSTANTS
    FrameBytes = 6
    HeaderByte = 0
    SyncByte = 1
    PipeBytes = 8
    MaxFrames = 2
    Windows <- WindowsOnAir
INVARIANTS
    TypeOK
    FramesAligned
    SlicerDecoderAgree
    CompleteAtEof
PROPERTIES
    ImplementsFrameChannel
    EveryFrameArrives
    NobodyIsLeft
