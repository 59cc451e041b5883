SPECIFICATION Spec
CONSTANTS
    RchEnd = 1
    Sacch0End = 2
    Sacch1End = 3
    RchIds = {1}
    MaxCells = 2
    Pieces = {1, 2}
    MaxFrames = 5
    IdleUnit = IdleUnit
    Garbled = Garbled
    Failed = Failed
    Zeroes = Zeroes
    Nothing = Nothing
    Modes = {"Json", "CelpOnly"}
    Voices <- SomeVoices
    Inputs <- SomeFrames
INVARIANTS
    TypeOK
    PairsAreNeighbours
    CountsSinceTop
