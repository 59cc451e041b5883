SPECIFICATION Spec
CONSTANTS
    RchEnd = 2
    Sacch0End = 5
    Sacch1End = 8
    CellLen = 6
    MaxCells = 4
    LastLen = 3
    MaxMessages = 3
    MaxUnits = 4
    MaxFaults = 2
    RchIds = {1, 2, 3, 4}
    IdleUnit = IdleUnit
    Garbled = Garbled
    Failed = Failed
    Zeroes = Zeroes
    Pieces <- AllPieces
    Plans <- SomePlans
INVARIANTS
    SFTypeOK
    GenuineMessages
    Resynchronised
    RchInOrder
    RepackedFromCurrent
