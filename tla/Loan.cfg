SPECIFICATION Spec
CONSTANTS
    j1 = j1
    j2 = j2
    Jobs = {j1, j2}
    Inputs <- MCInputs
    MaxRuns = 1
    Width <- MCWidth
    Holidays <- MCHolidays
    RateUnit = 100
    DailyUnit = 100
    PctUnit = 100
INVARIANTS
    TypeOK
    CleanMeansSame
    ByteIdentical
    TrailerAddsUp
PROPERTIES
    RunEnds
CHECK_DEADLOCK FALSE
