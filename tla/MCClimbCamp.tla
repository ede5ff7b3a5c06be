----------------------------- MODULE MCClimbCamp -----------------------------
EXTENDS ClimbCamp, TLC

\* Climbers are interchangeable.
Interchangeable == Permutations(Climber)

\* An evening of the first day: one may have gone to the Camp and be in a
\* fight.
EveningInit ==
    \E foe \in [Climber -> Climber \cup {None}] :
        /\ \A c \in Climber : foe[c] # c
        /\ \A c, d \in Climber : foe[c] # None /\ foe[d] # None => c = d
        /\ row = [c \in Climber |->
                     [NewRow(0) EXCEPT !.fight = foe[c],
                                       !.duels = IF foe[c] = None THEN @ ELSE @ - 1]]
        /\ attempted = {r \in {0} \X Climber \X Climber : foe[r[2]] = r[3]}
        /\ robberies = attempted
        /\ today = 0
        /\ pending = [c \in Climber |-> Nothing]
        /\ tasks = {}
        /\ coin = Start * Cardinality(Climber)
        /\ interrupted = FALSE
        /\ acts = 0

EveningSpec == EveningInit /\ [][Next]_vars

=============================================================================
