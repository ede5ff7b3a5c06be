\* One game against the computer: nine cards, hands of two and three.
CONSTANTS
    accident = accident
    repairs = repairs
    ace = ace
    stop = stop
    limit = limit
    row = row
    roll = roll
    d200 = d200
    d50 = d50
    Card <- MCCard
    Face <- MCFace
    Goal = 250
    HandSize = 2
SPECIFICATION CpuSpec
INVARIANTS
    CpuTableIsSound
    StrandedGameFinishes
PROPERTY EveryRequestSpends
