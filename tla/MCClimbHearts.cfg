\* Three climbers and three requests between them, after whatever else they have done.
CONSTANTS
    Climber = {a, b, c}
    None = None
    Regular = Regular
    MaxActs = 3
SPECIFICATION OpenSpec
SYMMETRY Interchangeable
INVARIANTS
    HeartsAreSound
    MutualWhenQuiet
PROPERTY EndedByTheTwo
CHECK_DEADLOCK FALSE
