SPECIFICATION Spec
CONSTANTS
    CellLen = 12
    MaxCells = 4
    LastLen = 3
    MaxRuns = 6
    MaxUnits = 4
    MaxFaults = 3
    Nothing = Nothing
    Failed = Failed
    Zeroes = Zeroes
    Pieces <- AllPieces
    Voices <- AllVoices
    Plans <- SomePlans
INVARIANTS
    PPTypeOK
    GenuineMessages
    NoBlockOutsideLayer2
    Resynchronised
    NothingTwice
