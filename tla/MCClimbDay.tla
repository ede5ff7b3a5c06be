------------------------------ MODULE MCClimbDay ------------------------------
EXTENDS ClimbDay

\* Two hit points to begin with, four at the garden wall
SmallHp == <<2, 3, 4>>

=============================================================================
