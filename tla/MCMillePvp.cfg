\* One game with ten cards, hands of two and three, a race of 250 miles.
CONSTANTS
    accident = accident
    repairs = repairs
    ace = ace
    stop = stop
    limit = limit
    row = row
    roll1 = roll1
    roll2 = roll2
    d200 = d200
    d50 = d50
    Card <- MCCard
    Face <- MCFace
    Goal = 250
    HandSize = 2
SPECIFICATION Spec
SYMMETRY RollsAlike
INVARIANTS
    TableIsSound
    TurnHolderHasCard
    CoupIsSound
PROPERTIES
    TurnPasses
    EveryMoveSpends
