SPECIFICATION FairSpec
CONSTANTS
    Length = 8
    States = 32
    MaxEc = 5
    MaxNoise = 4
    Table <- Table26
    Valid <- EvenParity
    Words <- NoisyWords
INVARIANTS
    TypeOK
    OnlyOpenFlips
    Nearest
    CorrectsThree
PROPERTIES
    Terminates
