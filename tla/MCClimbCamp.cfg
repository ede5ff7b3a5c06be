\* Three climbers, four requests between them, two days.
CONSTANTS
    Climber = {a, b, c}
    None = None
    DuelsPerDay = 2
    Start = 1
    MaxDay = 1
    MaxActs = 4
SPECIFICATION EveningSpec
SYMMETRY Interchangeable
INVARIANTS
    CampIsSound
    CoinIsOnlyMoved
PROPERTY EachDuelAnotherSleeper
CHECK_DEADLOCK FALSE
