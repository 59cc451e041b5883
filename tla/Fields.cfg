SPECIFICATION Spec
CONSTANTS
    CellLens = {6, 12}
    Lens <- SixBits
    Totals <- Short
    Bytes = {0, 1, 2, 3, 4, 5, 6, 7, 8, 9, 12, 13, 64, 255}
    BodyLens = {12, 39, 40, 41, 42, 43, 44, 45, 48, 50, 55, 56, 57, 60, 61, 63, 64, 79, 81, 84, 121, 255, 312, 400}
    InfoTypes = {0, 1, 2, 16, 17, 37, 47, 49, 50, 51, 56, 61, 63, 64, 96, 105, 109, 160}
    InfoBytes = {0, 1, 4, 8, 14, 16, 17, 18, 27, 32, 44, 128, 131, 221, 255}
    Counts = {0, 1, 2, 3, 255}
    Latitudes <- LatitudesOfJapan
    Longitudes <- LongitudesOfJapan
INVARIANTS
    TypeOK
    RecordTilesBody
    StopsOnlyOnBadLengths
    FieldsInOrder
    InfoTypeIsShown
    GatesLoseNothing
    PositionAsSent
