---------------------------- MODULE MCClimbHearts ----------------------------
EXTENDS ClimbHearts, TLC

\* Climbers are interchangeable.
Interchangeable == Permutations(Climber)

\* Every heart is open to begin with, and all but one pair know each other well
\* enough to propose: whatever else is needed is a request away.  Nobody is
\* married, or two climbers are.
OpenInit ==
    /\ Init
    /\ \A c \in Climber : heart[c] # Regular
    /\ \A c \in Climber : open[c]
    /\ Cardinality({p \in Pair : ~bonds[p].warm}) = 1

OpenSpec == OpenInit /\ [][Next]_vars

=============================================================================
