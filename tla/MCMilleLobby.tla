---------------------------- MODULE MCMilleLobby ----------------------------
EXTENDS MilleLobby, TLC

\* Users and games are interchangeable.
Interchangeable == Permutations(User) \cup Permutations(Game)

\* A game that is out of the registry and in no handler's hands is garbage: no
\* action reads more of it than that it was born, and of the properties only
\* those on its players, which never change, and its scores look at it.
Garbage(g) == games[g].phase # "unborn" /\ g \notin registry /\ saving[g] = Idle

Reachable ==
    <<invites, cpu, registry, link, inviting,
      [g \in Game |-> IF Garbage(g) THEN PostedOnce(g)
                      ELSE <<games[g], saving[g], posted[g]>>]>>

=============================================================================
