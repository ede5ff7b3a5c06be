\* Three users, two games between users, at most two invites outstanding or being sent.
\* The lobby may fall silent: once both games are over nobody has to act.
CONSTANTS
    User = {u1, u2, u3}
    Game = {g1, g2}
    Nobody = Nobody
    MaxInviting = 1
    MaxChallenges = 2
SPECIFICATION LobbySpec
SYMMETRY Interchangeable
VIEW Reachable
INVARIANTS
    LobbyIsSound
    BothPlayersStay
    OneGameAtATime
    ScorePostedOnce
PROPERTY ResultNotTakenAway
CHECK_DEADLOCK FALSE
