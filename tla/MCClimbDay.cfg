\* Three levels, small hit points, two coins at most.
CONSTANTS
    Levels = 3
    HpAt <- SmallHp
    SlopeFights = 1
    SkillUses = 1
    None = None
    MaxBlow = 2
    FoeHp = 3
    MaxPurse = 2
    MaxFights = 2
    MaxGift = 1
SPECIFICATION Spec
INVARIANTS
    ClimberIsSound
    SceneHasItsMatter
PROPERTIES
    EveryRoundCounts
    MercySaves
