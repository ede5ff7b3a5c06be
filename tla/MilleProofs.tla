----------------------------- MODULE MilleProofs -----------------------------
(***************************************************************************)
(* Proofs about Mille Bornes: its lobby, for any number of users and games *)
(* and any number of handlers suspended at once; a game between two users  *)
(* and a game against the computer, for any deck with one card of each     *)
(* safety, any size of the hands and any goal.                             *)
(***************************************************************************)
EXTENDS MilleLobby, MillePvp, MilleCpu, FiniteSetTheorems, NaturalsInduction,
        WellFoundedInduction, TLAPS

-----------------------------------------------------------------------------
(* The lobby *)

\* The links and the registry agree about who is in which game.
LinkInv == LinksAreLive /\ BothPlayersStay /\ NoOrphanGame

\* Registered games are on or over, and nobody challenges themselves, which
\* is what keeps the two players of a game apart.
PlayersInv ==
    /\ \A g \in registry : games[g].phase \in {"on", "over"}
    /\ \A u \in User : invites[u] # u /\ <<u, u>> \notin inviting
    /\ TwoDifferentPlayers

\* score_saved is set before the first await of the handler that saves, so at
\* most one handler ever saves the score of a game, and it goes through the
\* players in order.
ScoreInv ==
    \A g \in Game :
        /\ ~games[g].score_saved =>
              saving[g].by = Nobody /\ \A s \in Chair : posted[g][s] = 0
        /\ games[g].score_saved => games[g].phase = "over"
        /\ saving[g].by # Nobody =>
              /\ posted[g]["player2"] = 0
              /\ saving[g].next = "player1" => posted[g]["player1"] = 0
        /\ \A s \in Chair : posted[g][s] <= 1

LobbyInv == LobbyTypeOK /\ LinkInv /\ PlayersInv /\ OneGameAtATime /\ ScoreInv

-----------------------------------------------------------------------------

\* The lobby starts empty, and everything holds of nothing.
LEMMA InitInv == LobbyInit => LobbyInv
  <1> SUFFICES ASSUME LobbyInit PROVE LobbyInv
    OBVIOUS
  <1> USE DEF LobbyInit, Unborn, Idle, Phase, Chair, PvpGameState
  <1>1. LobbyTypeOK
    BY DEF LobbyTypeOK
  <1>2. LinkInv
    BY NobodyAssumption DEF LinkInv, LinksAreLive, BothPlayersStay, NoOrphanGame
  <1>3. PlayersInv
    BY NobodyAssumption DEF PlayersInv, TwoDifferentPlayers
  <1>4. OneGameAtATime
    BY DEF OneGameAtATime
  <1>5. ScoreInv
    BY DEF ScoreInv
  <1> QED
    BY <1>1, <1>2, <1>3, <1>4, <1>5 DEF LobbyInv

-----------------------------------------------------------------------------
(* Invites: they touch no game, unless one is accepted. *)

\* What TwoDifferentPlayers, the links and the scores say is about games,
\* registry, link, saving and posted alone.
LEMMA GamesUntouched ==
    ASSUME LobbyInv, UNCHANGED <<games, registry, link, saving, posted>>
    PROVE  LinkInv' /\ ScoreInv' /\ TwoDifferentPlayers'
  BY DEF LobbyInv, LinkInv, LinksAreLive, BothPlayersStay, NoOrphanGame, PlayersInv,
         TwoDifferentPlayers, ScoreInv, Linked, Players

\* The handlers that only send or withdraw invites.
LEMMA InviteStep ==
    ASSUME LobbyInv,
           \/ \E u, v \in User : Invite(u, v) \/ SendInvite(u, v) \/ Decline(u, v)
           \/ \E u \in User : CancelInvite(u)
    PROVE  LobbyInv'
  <1> USE DEF LobbyInv
  <1>1. UNCHANGED <<cpu, games, registry, link, saving, posted>>
    BY DEF Invite, SendInvite, Decline, CancelInvite
  <1>2. /\ invites' \in [User -> User \cup {Nobody}]
        /\ inviting' \subseteq User \X User
        /\ \A u \in User : invites'[u] # u /\ <<u, u>> \notin inviting'
    <2>1. CASE \E u, v \in User : Invite(u, v)
      BY <2>1, NobodyAssumption DEF LobbyTypeOK, PlayersInv, Invite, Cancel
    <2>2. CASE \E u, v \in User : SendInvite(u, v)
      BY <2>2, NobodyAssumption DEF LobbyTypeOK, PlayersInv, SendInvite
    <2>3. CASE \E u, v \in User : Decline(u, v)
      BY <2>3, NobodyAssumption DEF LobbyTypeOK, PlayersInv, Decline, Cancel
    <2>4. CASE \E u \in User : CancelInvite(u)
      BY <2>4, NobodyAssumption DEF LobbyTypeOK, PlayersInv, CancelInvite, Cancel
    <2> QED
      BY <2>1, <2>2, <2>3, <2>4
  <1>3. LobbyTypeOK'
    BY <1>1, <1>2 DEF LobbyTypeOK
  <1>4. PlayersInv'
    BY <1>1, <1>2, GamesUntouched DEF PlayersInv
  <1>5. OneGameAtATime'
    BY <1>1 DEF OneGameAtATime
  <1> QED
    BY <1>1, <1>3, <1>4, <1>5, GamesUntouched

-----------------------------------------------------------------------------
(* Games *)

\* A challenge is accepted: neither player had a game, so the new links replace
\* none, and the games against the computer are gone.
LEMMA AcceptStep ==
    ASSUME LobbyInv, NEW u \in User, NEW from \in User, Accept(u, from)
    PROVE  LobbyInv'
  <1> USE DEF LobbyInv
  <1>1. CASE UNCHANGED <<cpu, games, registry, link>>
    <2>1. UNCHANGED <<games, registry, link, inviting, saving, posted>>
      BY <1>1 DEF Accept
    <2>2. LobbyTypeOK'
      BY <1>1, <2>1 DEF LobbyTypeOK, Accept, Cancel
    <2>3. PlayersInv'
      BY <2>1, NobodyAssumption, GamesUntouched DEF PlayersInv, Accept, Cancel, LobbyTypeOK
    <2>4. OneGameAtATime'
      BY <1>1 DEF OneGameAtATime
    <2> QED
      BY <2>1, <2>2, <2>3, <2>4, GamesUntouched
  <1>2. ASSUME ~InPvp(u), ~InPvp(from), cpu' = cpu \ {u, from},
               NEW g \in Game, StartPvp(g, from, u)
        PROVE  LobbyInv'
    <2>1. /\ u # from
          /\ link[u] = Nobody /\ link[from] = Nobody
          /\ g \notin registry /\ games[g] = Unborn
      <3>1. u # from
        BY DEF Accept, PlayersInv
      <3>2. link[u] = Nobody /\ link[from] = Nobody
        BY <1>2 DEF InPvp, LinkInv, LinksAreLive, LobbyTypeOK
      <3>3. games[g] = Unborn /\ games[g].phase = "unborn"
        BY <1>2 DEF StartPvp, Unborn
      <3>4. g \notin registry
        BY <3>3 DEF PlayersInv
      <3> QED
        BY <3>1, <3>2, <3>3, <3>4
    <2>2. /\ games' = [games EXCEPT ![g] = [Unborn EXCEPT !.phase = "on",
                                            !.player1 = from, !.player2 = u]]
          /\ registry' = registry \cup {g}
          /\ link' = [link EXCEPT ![from] = g, ![u] = g]
          /\ invites' = [invites EXCEPT ![from] = Nobody]
          /\ UNCHANGED <<inviting, saving, posted>>
      BY <1>2 DEF Accept, StartPvp, Cancel
    <2>3. LobbyTypeOK'
      BY <1>2, <2>2 DEF LobbyTypeOK, Unborn, Phase, PvpGameState
    <2>4. /\ games'[g].phase = "on" /\ ~games'[g].score_saved
          /\ games'[g].player1 = from /\ games'[g].player2 = u
          /\ \A h \in Game \ {g} : games'[h] = games[h]
      BY <2>2 DEF LobbyTypeOK, Unborn, PvpGameState
    <2>5. /\ Players(g)' = {u, from}
          /\ \A h \in Game \ {g} : Players(h)' = Players(h)
      BY <2>4, NobodyAssumption DEF Players
    <2>6. \A w \in User : link'[w] = IF w \in {u, from} THEN g ELSE link[w]
      BY <2>2 DEF LobbyTypeOK
    <2>7. /\ Linked(g)' = {u, from}
          /\ \A h \in Game \ {g} : Linked(h)' = Linked(h)
      BY <2>1, <2>6, NobodyAssumption DEF Linked, LinkInv, LinksAreLive
    <2>8. LinkInv'
      <3>1. LinksAreLive'
        <4> SUFFICES ASSUME NEW w \in User, NEW h \in Game, link'[w] = h
                     PROVE  h \in registry' /\ w \in Players(h)'
          BY DEF LinksAreLive
        <4>1. CASE w \in {u, from}
          <5>1. h = g
            BY <4>1, <2>6
          <5> QED
            BY <4>1, <5>1, <2>2, <2>5
        <4>2. CASE w \notin {u, from}
          <5>1. link[w] = h /\ h # g
            BY <4>2, <2>1, <2>6 DEF LinkInv, LinksAreLive
          <5> QED
            BY <5>1, <2>2, <2>5 DEF LinkInv, LinksAreLive
        <4> QED
          BY <4>1, <4>2
      <3>2. BothPlayersStay'
        <4> SUFFICES ASSUME NEW h \in registry', games'[h].phase = "on"
                     PROVE  Linked(h)' = Players(h)'
          BY DEF BothPlayersStay
        <4>1. CASE h = g
          BY <4>1, <2>5, <2>7
        <4>2. CASE h # g
          BY <4>2, <2>2, <2>4, <2>5, <2>7 DEF LinkInv, BothPlayersStay, LobbyTypeOK
        <4> QED
          BY <4>1, <4>2
      <3>3. NoOrphanGame'
        BY <2>2, <2>7 DEF LinkInv, NoOrphanGame, LobbyTypeOK
      <3> QED
        BY <3>1, <3>2, <3>3 DEF LinkInv
    <2>9. PlayersInv'
      BY <2>1, <2>2, <2>4, NobodyAssumption DEF PlayersInv, TwoDifferentPlayers, LobbyTypeOK
    <2>10. OneGameAtATime'
      BY <1>2, <2>6 DEF OneGameAtATime
    <2>11. ScoreInv'
      BY <2>1, <2>2, <2>4 DEF ScoreInv, Unborn
    <2> QED
      BY <2>3, <2>8, <2>9, <2>10, <2>11
  <1> QED
    BY <1>1, <1>2 DEF Accept

-----------------------------------------------------------------------------
(* Steps of a game between users *)

\* The links of a step that changes a game's record but none of its players
\* and does not turn it on.
LEMMA LinksKept ==
    ASSUME LobbyInv, UNCHANGED <<registry, link>>,
           \A g \in Game : /\ games'[g].player1 = games[g].player1
                           /\ games'[g].player2 = games[g].player2
                           /\ games'[g].phase = "on" => games[g].phase = "on"
    PROVE  LinkInv'
  <1> USE DEF LobbyInv, LinkInv
  <1>1. \A g \in Game : Players(g)' = Players(g) /\ Linked(g)' = Linked(g)
    BY DEF Players, Linked
  <1>2. LinksAreLive'
    BY <1>1 DEF LinksAreLive, LobbyTypeOK
  <1>3. BothPlayersStay'
    BY <1>1 DEF BothPlayersStay, LobbyTypeOK
  <1>4. NoOrphanGame'
    BY <1>1 DEF NoOrphanGame, LobbyTypeOK
  <1> QED
    BY <1>2, <1>3, <1>4

\* A move ends the game its player is linked to.
LEMMA GameEndsStep ==
    ASSUME LobbyInv, NEW u \in User, GameEnds(u)
    PROVE  LobbyInv'
  <1> USE DEF LobbyInv
  <1> DEFINE g == link[u]
  <1>1. /\ g \in Game /\ games[g].phase = "on"
        /\ games' = [games EXCEPT ![g].phase = "over"]
        /\ UNCHANGED <<invites, cpu, registry, link, inviting, saving, posted>>
    BY DEF GameEnds, InPvp, LobbyTypeOK
  <1>2. LobbyTypeOK'
    <2>1. games[g] \in PvpGameState
      BY <1>1 DEF LobbyTypeOK
    <2>2. [games[g] EXCEPT !.phase = "over"] \in PvpGameState
      BY <2>1 DEF PvpGameState, Phase
    <2> QED
      BY <1>1, <2>2 DEF LobbyTypeOK
  <1>3. \A h \in Game :
           /\ games'[h].player1 = games[h].player1
           /\ games'[h].player2 = games[h].player2
           /\ games'[h].score_saved = games[h].score_saved
           /\ games'[h].phase = IF h = g THEN "over" ELSE games[h].phase
    BY <1>1 DEF LobbyTypeOK, PvpGameState
  <1>4. LinkInv'
    BY <1>1, <1>3, LinksKept
  <1>5. PlayersInv'
    BY <1>1, <1>3 DEF PlayersInv, TwoDifferentPlayers, LobbyTypeOK
  <1>6. OneGameAtATime'
    BY <1>1 DEF OneGameAtATime
  <1>7. ScoreInv'
    BY <1>1, <1>3 DEF ScoreInv
  <1> QED
    BY <1>2, <1>4, <1>5, <1>6, <1>7

\* remove_pvp_game pops both players' links without looking: it is called for
\* a game still on, whose players are both linked to it and to no other.
LEMMA RemoveLinks ==
    ASSUME LobbyInv, NEW u \in User, InPvp(u), games[link[u]].phase = "on", Remove(link[u])
    PROVE  /\ link' \in [User -> Game \cup {Nobody}]
           /\ \A w \in User : link'[w] = IF link[w] = link[u] THEN Nobody ELSE link[w]
  <1> USE DEF LobbyInv
  <1> DEFINE g == link[u]
  <1>1. g \in Game /\ Linked(g) = Players(g)
    BY DEF LinkInv, BothPlayersStay, LobbyTypeOK, InPvp
  <1>2. \A w \in User : link'[w] = IF link[w] = g THEN Nobody ELSE link[w]
    BY <1>1 DEF Remove, Linked
  <1>3. link' \in [User -> Game \cup {Nobody}]
    BY DEF Remove, LobbyTypeOK
  <1> QED
    BY <1>2, <1>3

\* leave_pvp_game takes one user out of a game.
LEMMA LeaveLinks ==
    ASSUME LobbyInv, NEW u \in User, InPvp(u), Leave(u)
    PROVE  /\ link' \in [User -> Game \cup {Nobody}]
           /\ \A w \in User : link'[w] = IF w = u THEN Nobody ELSE link[w]
           /\ \A h \in Game : Linked(h)' = Linked(h) \ {u}
           /\ \A h \in registry : h \notin registry' => Linked(h)' = {}
           /\ \A h \in registry' : h \in registry /\ Linked(h)' # {}
  <1> USE DEF LobbyInv
  <1>1. link' = [link EXCEPT ![u] = Nobody]
    BY DEF Leave
  <1>2. \A w \in User : link'[w] = IF w = u THEN Nobody ELSE link[w]
    BY <1>1 DEF LobbyTypeOK
  <1>3. \A h \in Game : Linked(h)' = Linked(h) \ {u}
    BY <1>2, NobodyAssumption DEF Linked
  <1>4. \A h \in registry : h # link[u] => u \notin Linked(h) /\ Linked(h) # {}
    BY DEF Linked, LinkInv, NoOrphanGame
  <1>5. link[u] \in Game /\ u \in Linked(link[u])
    BY DEF InPvp, Linked, LobbyTypeOK
  <1>6. CASE Linked(link[u]) = {u}
    BY <1>1, <1>2, <1>3, <1>4, <1>5, <1>6 DEF Leave, LobbyTypeOK
  <1>7. CASE Linked(link[u]) # {u}
    BY <1>1, <1>2, <1>3, <1>4, <1>5, <1>7 DEF Leave, LobbyTypeOK
  <1> QED
    BY <1>6, <1>7

\* Leaving a game that is not on keeps the registry and the links in step.
LEMMA LeaveStep ==
    ASSUME LobbyInv, NEW u \in User, InPvp(u), Leave(u), games[link[u]].phase # "on",
           UNCHANGED games
    PROVE  LinkInv'
  <1> USE DEF LobbyInv
  <1>1. \A h \in Game : Players(h)' = Players(h)
    BY DEF Players
  <1>2. LinksAreLive'
    BY <1>1, LeaveLinks, NobodyAssumption DEF LinksAreLive, LinkInv, Linked, LobbyTypeOK
  <1>3. NoOrphanGame'
    BY LeaveLinks DEF NoOrphanGame
  <1>4. BothPlayersStay'
    <2> SUFFICES ASSUME NEW h \in registry', games[h].phase = "on"
                 PROVE  Linked(h)' = Players(h)'
      BY DEF BothPlayersStay
    <2>1. h \in registry /\ h \in Game /\ u \notin Linked(h)
      BY LeaveLinks DEF Linked, LobbyTypeOK
    <2>2. Linked(h)' = Linked(h) \ {u}
      BY <2>1, LeaveLinks
    <2>3. Linked(h)' = Linked(h)
      BY <2>1, <2>2
    <2> QED
      BY <1>1, <2>1, <2>3 DEF LinkInv, BothPlayersStay
  <1> QED
    BY <1>2, <1>3, <1>4 DEF LinkInv

\* A forfeit takes both players out; leaving a finished game takes one.
LEMMA QuitStep ==
    ASSUME LobbyInv, NEW u \in User, Quit(u)
    PROVE  LobbyInv'
  <1> USE DEF LobbyInv
  <1>0. PICK g \in registry : link[u] = g
    BY DEF Quit, InPvp
  <1>1. /\ InPvp(u) /\ g \in Game /\ link[u] = g
        /\ UNCHANGED <<invites, cpu, inviting, saving, posted>>
    BY <1>0 DEF Quit, LobbyTypeOK
  <1>2. CASE games[g].phase = "on" /\ games' = [games EXCEPT ![g].phase = "forfeited"] /\ Remove(g)
    <2>1. /\ link' \in [User -> Game \cup {Nobody}]
          /\ Linked(g)' = {}
          /\ \A h \in Game \ {g} : Linked(h)' = Linked(h)
      <3>1. /\ link' \in [User -> Game \cup {Nobody}]
            /\ \A w \in User : link'[w] = IF link[w] = g THEN Nobody ELSE link[w]
        BY <1>1, <1>2, RemoveLinks
      <3> QED
        BY <3>1, <1>1, NobodyAssumption DEF Linked
    <2>2. games[g] \in PvpGameState
      BY <1>1 DEF LobbyTypeOK
    <2>3. [games[g] EXCEPT !.phase = "forfeited"] \in PvpGameState
      BY <2>2 DEF PvpGameState, Phase
    <2>4. LobbyTypeOK'
      BY <1>1, <1>2, <2>1, <2>3 DEF LobbyTypeOK, Remove
    <2>5. \A h \in Game :
             /\ games'[h].player1 = games[h].player1
             /\ games'[h].player2 = games[h].player2
             /\ games'[h].score_saved = games[h].score_saved
             /\ games'[h].phase = IF h = g THEN "forfeited" ELSE games[h].phase
      BY <1>1, <1>2 DEF LobbyTypeOK, PvpGameState
    <2>6. /\ \A h \in Game : Players(h)' = Players(h)
          /\ registry' = registry \ {g}
      BY <1>2, <2>5 DEF Players, Remove
    <2>7. LinkInv'
      <3>1. LinksAreLive'
        <4> SUFFICES ASSUME NEW w \in User, NEW h \in Game, link'[w] = h
                     PROVE  h \in registry' /\ w \in Players(h)'
          BY DEF LinksAreLive
        <4>1. w \in Linked(h)'
          BY DEF Linked
        <4>2. h # g /\ link[w] = h
          BY <4>1, <2>1 DEF Linked
        <4> QED
          BY <4>2, <2>6 DEF LinkInv, LinksAreLive
      <3>2. BothPlayersStay'
        <4> SUFFICES ASSUME NEW h \in registry', games'[h].phase = "on"
                     PROVE  Linked(h)' = Players(h)'
          BY DEF BothPlayersStay
        <4> QED
          BY <2>1, <2>5, <2>6 DEF LinkInv, BothPlayersStay, LobbyTypeOK
      <3>3. NoOrphanGame'
        BY <2>1, <2>6 DEF LinkInv, NoOrphanGame, LobbyTypeOK
      <3> QED
        BY <3>1, <3>2, <3>3 DEF LinkInv
    <2>8. PlayersInv'
      BY <1>1, <2>5, <2>6 DEF PlayersInv, TwoDifferentPlayers, LobbyTypeOK
    <2>9. OneGameAtATime'
      BY <1>1, <1>2 DEF OneGameAtATime, Remove
    <2>10. ScoreInv'
      BY <1>1, <1>2, <2>5 DEF ScoreInv
    <2> QED
      BY <2>4, <2>7, <2>8, <2>9, <2>10
  <1>3. CASE games[g].phase # "on" /\ Leave(u) /\ UNCHANGED games
    <2>1. LinkInv'
      BY <1>1, <1>3, LeaveStep
    <2>2. /\ link' \in [User -> Game \cup {Nobody}]
          /\ registry' \subseteq registry
          /\ \A w \in User : link'[w] = IF w = u THEN Nobody ELSE link[w]
      BY <1>1, <1>3, LeaveLinks
    <2>3. LobbyTypeOK'
      BY <1>1, <1>3, <2>2 DEF LobbyTypeOK
    <2>4. PlayersInv'
      BY <1>1, <1>3, <2>2 DEF PlayersInv, TwoDifferentPlayers
    <2>5. OneGameAtATime'
      BY <1>1, <2>2 DEF OneGameAtATime
    <2>6. ScoreInv'
      BY <1>1, <1>3 DEF ScoreInv
    <2> QED
      BY <2>1, <2>3, <2>4, <2>5, <2>6
  <1> QED
    BY <1>1, <1>2, <1>3 DEF Quit

\* A game against the computer is started only outside a game between users.
LEMMA NewCpuStep ==
    ASSUME LobbyInv, NEW u \in User, NewCpu(u)
    PROVE  LobbyInv'
  <1> USE DEF LobbyInv
  <1>1. /\ ~InPvp(u) /\ cpu' = cpu \cup {u}
        /\ invites' = [invites EXCEPT ![u] = Nobody]
        /\ UNCHANGED <<games, registry, link, inviting, saving, posted>>
    BY DEF NewCpu, Cancel
  <1>2. link[u] = Nobody
    BY <1>1 DEF InPvp, LinkInv, LinksAreLive, LobbyTypeOK
  <1>3. LobbyTypeOK'
    BY <1>1 DEF LobbyTypeOK
  <1>4. PlayersInv'
    BY <1>1, NobodyAssumption, GamesUntouched DEF PlayersInv, LobbyTypeOK
  <1>5. OneGameAtATime'
    BY <1>1, <1>2 DEF OneGameAtATime
  <1> QED
    BY <1>1, <1>3, <1>4, <1>5, GamesUntouched

-----------------------------------------------------------------------------
(* Pages and scores *)

\* A page view only shows the result, leaves a result seen before, or finishes
\* a game against the computer.
LEMMA PageStep ==
    ASSUME LobbyInv, NEW u \in User, OpensPage(u)
    PROVE  LobbyInv'
  <1> USE DEF LobbyInv
  <1> DEFINE g == link[u]
  <1>1. /\ invites' \in [User -> User \cup {Nobody}]
        /\ \A w \in User : invites'[w] # w
        /\ UNCHANGED <<inviting, posted>>
    BY NobodyAssumption DEF OpensPage, ExpireInvites, LobbyTypeOK, PlayersInv
  <1>2. ASSUME InPvp(u), games[g].phase = "over", ShowResult(u, g),
               UNCHANGED <<cpu, registry, link>>
        PROVE  LobbyInv'
    <2>1. g \in Game /\ games[g] \in PvpGameState
      BY <1>2 DEF InPvp, LobbyTypeOK
    <2>2. /\ [games[g] EXCEPT !.score_saved = TRUE] \in PvpGameState
          /\ [games[g] EXCEPT !.seen_game_over = @ \cup {u}] \in PvpGameState
          /\ [by |-> u, next |-> "player1"] \in [by: User \cup {Nobody}, next: Chair]
      BY <2>1 DEF PvpGameState, Chair
    <2>3. LobbyTypeOK'
      BY <1>1, <1>2, <2>1, <2>2 DEF LobbyTypeOK, ShowResult
    <2>4. \A h \in Game :
             /\ games'[h].player1 = games[h].player1
             /\ games'[h].player2 = games[h].player2
             /\ games'[h].phase = games[h].phase
             /\ h # g => games'[h].score_saved = games[h].score_saved
      BY <1>2, <2>1 DEF LobbyTypeOK, PvpGameState, ShowResult
    <2>5. LinkInv'
      BY <1>2, <2>4, LinksKept
    <2>6. PlayersInv'
      BY <1>1, <1>2, <2>4 DEF PlayersInv, TwoDifferentPlayers, LobbyTypeOK
    <2>7. OneGameAtATime'
      BY <1>2 DEF OneGameAtATime
    <2>8. ScoreInv'
      <3>1. CASE games[g].score_saved
        <4>1. /\ UNCHANGED saving
              /\ games'[g].score_saved = games[g].score_saved
          BY <3>1, <1>2, <2>1 DEF ShowResult, LobbyTypeOK, PvpGameState
        <4> QED
          BY <1>1, <2>1, <2>4, <4>1 DEF ScoreInv
      <3>2. CASE ~games[g].score_saved
        <4>1. /\ games'[g].score_saved
              /\ saving'[g] = [by |-> u, next |-> "player1"]
              /\ \A h \in Game \ {g} : saving'[h] = saving[h]
          BY <3>2, <1>2, <2>1 DEF ShowResult, LobbyTypeOK, PvpGameState
        <4>2. \A s \in Chair : posted[g][s] = 0
          BY <3>2, <2>1 DEF ScoreInv
        <4> QED
          BY <1>1, <1>2, <2>1, <2>4, <4>1, <4>2 DEF ScoreInv, Chair
      <3> QED
        BY <3>1, <3>2
    <2> QED
      BY <2>3, <2>5, <2>6, <2>7, <2>8
  <1>3. ASSUME InPvp(u), games[g].phase = "over", Leave(u), cpu' \in {cpu, cpu \ {u}},
               UNCHANGED <<games, saving>>
        PROVE  LobbyInv'
    <2>1. LinkInv'
      BY <1>3, LeaveStep
    <2>2. /\ link' \in [User -> Game \cup {Nobody}]
          /\ registry' \subseteq registry
          /\ \A w \in User : link'[w] = IF w = u THEN Nobody ELSE link[w]
      BY <1>3, LeaveLinks
    <2>3. LobbyTypeOK'
      BY <1>1, <1>3, <2>2 DEF LobbyTypeOK
    <2>4. PlayersInv'
      BY <1>1, <1>3, <2>2 DEF PlayersInv, TwoDifferentPlayers
    <2>5. OneGameAtATime'
      BY <1>3, <2>2 DEF OneGameAtATime
    <2>6. ScoreInv'
      BY <1>1, <1>3 DEF ScoreInv
    <2> QED
      BY <2>1, <2>3, <2>4, <2>5, <2>6
  <1>4. ASSUME cpu' \in {cpu, cpu \ {u}}, UNCHANGED <<games, registry, link, saving>>
        PROVE  LobbyInv'
    <2>1. LobbyTypeOK'
      BY <1>1, <1>4 DEF LobbyTypeOK
    <2>2. PlayersInv'
      BY <1>1, <1>4, GamesUntouched DEF PlayersInv
    <2>3. OneGameAtATime'
      BY <1>4 DEF OneGameAtATime
    <2> QED
      BY <1>1, <1>4, <2>1, <2>2, <2>3, GamesUntouched
  <1> QED
    BY <1>2, <1>3, <1>4 DEF OpensPage

\* A score comes back to the one handler that saves for its game.
LEMMA SaveStep ==
    ASSUME LobbyInv, NEW g \in Game, SaveScore(g) \/ SaveFails(g)
    PROVE  LobbyInv'
  <1> USE DEF LobbyInv
  <1>1. /\ saving[g] \in [by: User \cup {Nobody}, next: Chair] /\ saving[g].by # Nobody
        /\ games[g] \in PvpGameState /\ games[g].score_saved
        /\ UNCHANGED <<invites, cpu, registry, link, inviting>>
    BY DEF SaveScore, SaveFails, LobbyTypeOK, ScoreInv
  <1>2. /\ [saving[g] EXCEPT !.next = "player2"] \in [by: User \cup {Nobody}, next: Chair]
        /\ Idle \in [by: User \cup {Nobody}, next: Chair]
        /\ [games[g] EXCEPT !.seen_game_over = @ \cup {saving[g].by}] \in PvpGameState
    BY <1>1 DEF PvpGameState, Chair, Idle
  <1>3. \A s \in Chair : [posted[g] EXCEPT ![s] = @ + 1] \in [Chair -> Nat]
    BY DEF LobbyTypeOK
  <1>4. saving[g].next \in Chair
    BY <1>1
  <1>5. LobbyTypeOK'
    <2>1. posted' \in [Game -> [Chair -> Nat]]
      BY <1>3, <1>4 DEF LobbyTypeOK, SaveScore, SaveFails
    <2>2. saving' \in [Game -> [by: User \cup {Nobody}, next: Chair]]
      BY <1>2 DEF LobbyTypeOK, SaveScore, SaveFails
    <2>3. games' \in [Game -> PvpGameState]
      BY <1>2 DEF LobbyTypeOK, SaveScore, SaveFails
    <2> QED
      BY <1>1, <2>1, <2>2, <2>3 DEF LobbyTypeOK
  <1>6. \A h \in Game :
           /\ games'[h].player1 = games[h].player1
           /\ games'[h].player2 = games[h].player2
           /\ games'[h].phase = games[h].phase
           /\ games'[h].score_saved = games[h].score_saved
    <2>1. CASE UNCHANGED games
      BY <2>1
    <2>2. CASE games' = [games EXCEPT ![g].seen_game_over = @ \cup {saving[g].by}]
      BY <2>2 DEF LobbyTypeOK, PvpGameState
    <2> QED
      BY <2>1, <2>2 DEF SaveScore, SaveFails
  <1>7. LinkInv'
    BY <1>1, <1>6, LinksKept
  <1>8. PlayersInv'
    BY <1>1, <1>6 DEF PlayersInv, TwoDifferentPlayers, LobbyTypeOK
  <1>9. OneGameAtATime'
    BY <1>1 DEF OneGameAtATime
  <1>10. ScoreInv'
    <2>1. \A h \in Game \ {g} : saving'[h] = saving[h] /\ posted'[h] = posted[h]
      BY DEF LobbyTypeOK, SaveScore, SaveFails
    <2>2. CASE SaveFails(g)
      <3>1. saving'[g].by = Nobody /\ posted'[g] = posted[g]
        BY <2>2 DEF SaveFails, Idle, LobbyTypeOK
      <3> QED
        BY <1>1, <1>6, <2>1, <3>1 DEF ScoreInv
    <2>3. CASE SaveScore(g) /\ saving[g].next = "player1"
      <3>1. /\ saving'[g].next = "player2"
            /\ posted'[g]["player1"] = posted[g]["player1"] + 1
            /\ posted'[g]["player2"] = posted[g]["player2"]
        BY <1>1, <2>3 DEF SaveScore, LobbyTypeOK, Chair
      <3>2. posted[g]["player1"] = 0 /\ posted[g]["player2"] = 0
        BY <1>1, <2>3 DEF ScoreInv
      <3> QED
        BY <1>1, <1>6, <2>1, <3>1, <3>2 DEF ScoreInv, Chair
    <2>4. CASE SaveScore(g) /\ saving[g].next = "player2"
      <3>1. /\ saving'[g].by = Nobody
            /\ posted'[g]["player1"] = posted[g]["player1"]
            /\ posted'[g]["player2"] = posted[g]["player2"] + 1
        BY <1>1, <2>4 DEF SaveScore, LobbyTypeOK, Chair, Idle
      <3>2. posted[g]["player1"] <= 1 /\ posted[g]["player2"] = 0
        BY <1>1 DEF ScoreInv, Chair
      <3> QED
        BY <1>1, <1>6, <2>1, <3>1, <3>2 DEF ScoreInv, Chair
    <2> QED
      BY <1>4, <2>2, <2>3, <2>4 DEF Chair
  <1> QED
    BY <1>5, <1>7, <1>8, <1>9, <1>10

-----------------------------------------------------------------------------
(* The theorems *)

\* Every step of the lobby keeps the invariant.
LEMMA NextInv == LobbyInv /\ [LobbyNext]_lobbyVars => LobbyInv'
  <1> SUFFICES ASSUME LobbyInv, [LobbyNext]_lobbyVars PROVE LobbyInv'
    OBVIOUS
  <1>1. ASSUME NEW u \in User, NEW v \in User,
               Invite(u, v) \/ SendInvite(u, v) \/ Decline(u, v)
        PROVE  LobbyInv'
    BY <1>1, InviteStep
  <1>2. ASSUME NEW u \in User, CancelInvite(u) PROVE LobbyInv'
    BY <1>2, InviteStep
  <1>3. ASSUME NEW u \in User, NEW v \in User, Accept(u, v) PROVE LobbyInv'
    BY <1>3, AcceptStep
  <1>4. ASSUME NEW u \in User, NewCpu(u) \/ GameEnds(u) \/ Quit(u) \/ OpensPage(u)
        PROVE  LobbyInv'
    BY <1>4, NewCpuStep, GameEndsStep, QuitStep, PageStep
  <1>5. ASSUME NEW g \in Game, SaveScore(g) \/ SaveFails(g) PROVE LobbyInv'
    BY <1>5, SaveStep
  <1>6. CASE UNCHANGED lobbyVars
    <2>1. LobbyTypeOK'
      BY <1>6 DEF lobbyVars, LobbyInv, LobbyTypeOK
    <2>2. PlayersInv' /\ OneGameAtATime'
      BY <1>6, GamesUntouched DEF lobbyVars, LobbyInv, PlayersInv, OneGameAtATime
    <2> QED
      BY <1>6, <2>1, <2>2, GamesUntouched DEF lobbyVars, LobbyInv
  <1> QED
    BY <1>1, <1>2, <1>3, <1>4, <1>5, <1>6 DEF LobbyNext

\* The invariant holds of every state the lobby reaches.
THEOREM Invariant == LobbySpec => []LobbyInv
  BY InitInv, NextInv, PTL DEF LobbySpec

\* The tables keep the types lib/mille.py declares.
THEOREM TypeCorrect == LobbySpec => []LobbyTypeOK
  <1>1. LobbyInv => LobbyTypeOK
    BY DEF LobbyInv
  <1> QED
    BY <1>1, Invariant, PTL

\* A link always leads to a registered game of that user: every route that
\* looks a game up by the session's user finds that user's own.
THEOREM LinksLive == LobbySpec => []LinksAreLive
  <1>1. LobbyInv => LinksAreLive
    BY DEF LobbyInv, LinkInv
  <1> QED
    BY <1>1, Invariant, PTL

\* Neither player of a running game is ever taken out of it by anything but the
\* end of that game.
THEOREM PlayersStay == LobbySpec => []BothPlayersStay
  <1>1. LobbyInv => BothPlayersStay
    BY DEF LobbyInv, LinkInv
  <1> QED
    BY <1>1, Invariant, PTL

\* The registry holds no game that nobody can reach.
THEOREM NoOrphans == LobbySpec => []NoOrphanGame
  <1>1. LobbyInv => NoOrphanGame
    BY DEF LobbyInv, LinkInv
  <1> QED
    BY <1>1, Invariant, PTL

\* A user is never in a game with another user and one with the computer.
THEOREM OneGame == LobbySpec => []OneGameAtATime
  <1>1. LobbyInv => OneGameAtATime
    BY DEF LobbyInv
  <1> QED
    BY <1>1, Invariant, PTL

\* Nobody ever plays themselves, invites that outlived their checks included.
THEOREM NobodyPlaysThemselves == LobbySpec => []TwoDifferentPlayers
  <1>1. LobbyInv => TwoDifferentPlayers
    BY DEF LobbyInv, PlayersInv
  <1> QED
    BY <1>1, Invariant, PTL

\* The registry, the links into it and the games agree for any number of users
\* and games, whatever is awaited meanwhile.
THEOREM LobbySound == LobbySpec => []LobbyIsSound
  BY TypeCorrect, LinksLive, NoOrphans, NobodyPlaysThemselves, PTL DEF LobbyIsSound

\* However the pages of the two players interleave at the awaits of
\* save_score, no score of a game is posted twice, and none of a forfeit.
THEOREM ScoresPostedOnce == LobbySpec => []ScorePostedOnce
  <1>1. LobbyInv => ScorePostedOnce
    BY DEF LobbyInv, LobbyTypeOK, ScoreInv, ScorePostedOnce, PostedOnce
  <1> QED
    BY <1>1, Invariant, PTL

\* Of two players on the result screen, the first to leave does not take the
\* other along.
THEOREM ResultStays == LobbySpec => ResultNotTakenAway
  <1> DEFINE Stays == \A g \in Game : games[g].phase = "over" =>
                        \A u, v \in Linked(g) \ Linked(g)' : u = v
  <1>1. LobbyInv /\ [LobbyNext]_lobbyVars => [Stays]_lobbyVars
    <2> SUFFICES ASSUME LobbyInv, [LobbyNext]_lobbyVars PROVE Stays
      OBVIOUS
    <2>1. ASSUME UNCHANGED link PROVE Stays
      BY <2>1 DEF Linked
    <2>2. ASSUME NEW w \in User, InPvp(w), Leave(w) PROVE Stays
      BY <2>2, LeaveLinks DEF Linked
    <2>3. ASSUME NEW w \in User, InPvp(w), games[link[w]].phase = "on", Remove(link[w])
          PROVE  Stays
      BY <2>3, RemoveLinks DEF Linked
    <2>4. ASSUME NEW w \in User, NEW from \in User, Accept(w, from) PROVE Stays
      <3>1. CASE UNCHANGED link
        BY <3>1, <2>1
      <3>2. ASSUME ~InPvp(w), ~InPvp(from),
                   NEW g \in Game, link' = [link EXCEPT ![from] = g, ![w] = g]
            PROVE  Stays
        <4>1. link[w] = Nobody /\ link[from] = Nobody
          BY <3>2 DEF LobbyInv, InPvp, LinkInv, LinksAreLive, LobbyTypeOK
        <4> QED
          BY <3>2, <4>1, NobodyAssumption DEF Linked, LobbyInv, LobbyTypeOK
      <3> QED
        BY <2>4, <3>1, <3>2 DEF Accept, StartPvp
    <2> QED
      BY <2>1, <2>2, <2>3, <2>4
      DEF LobbyNext, lobbyVars, Invite, SendInvite, Decline, CancelInvite, NewCpu, GameEnds,
          Quit, OpensPage, SaveScore, SaveFails
  <1> QED
    BY <1>1, Invariant, PTL DEF LobbySpec, ResultNotTakenAway

-----------------------------------------------------------------------------
(* A game between two users *)

\* No safety of p has been played in vain.
Protected(p) ==
    /\ p.hazard # None => SAFETY_FOR[p.hazard] \notin p.safeties
    /\ RightOfWay(p) => ~p.speed_limited

\* The cards of the players ps and of the deck are in one place each.
Apart(ps) ==
    /\ \A s \in Seat : deck \cap ps[s].hand = {}
    /\ ps["player1"].hand \cap ps["player2"].hand = {}

Sound(ps) == ps \in [Seat -> Player] /\ Apart(ps) /\ \A s \in Seat : Protected(ps[s])

\* The cards of the game that have not been spent.
Unplayed(ps) == deck \cup ps["player1"].hand \cup ps["player2"].hand

\* A Stop is played on a player who moves, so on one without a breakdown: the
\* coup fourre that answers it lifts nothing else.
StopOnTheMove ==
    winner = None /\ coup_fourre_pending # None /\ coup_fourre_hazard = "Stop" =>
        players[coup_fourre_pending].hazard = None

Inv == TableIsSound /\ TurnHolderHasCard /\ CoupCanBeAnswered /\ StopOnTheMove

USE DeckAssumption, HandSizeAssumption

-----------------------------------------------------------------------------
(* What is printed on cards *)

LEMMA Printed ==
    ASSUME NEW c \in Card
    PROVE  /\ Face[c].kind \in {"distance", "hazard", "remedy", "safety"}
           /\ Face[c].kind = "distance" => Face[c].miles \in Nat
           /\ Face[c].kind = "hazard" => Face[c].name \in Hazard
           /\ Face[c].kind = "remedy" => Face[c].name \in Remedy
           /\ Face[c].kind = "safety" => Face[c].name \in Safety
  <1>1. Face[c] \in Faces
    OBVIOUS
  <1> QED
    BY <1>1 DEF Faces

\* Each hazard has its safety, and only the Right of Way answers two.
LEMMA Answers ==
    /\ \A h \in Hazard : SAFETY_FOR[h] \in Safety
    /\ \A h \in Breakdown : h \in Hazard /\ SAFETY_FOR[h] # "Right of Way" /\ h # None
    /\ SAFETY_FOR["Stop"] = "Right of Way" /\ SAFETY_FOR["Speed Limit"] = "Right of Way"
    /\ \A h \in Hazard : h \in Breakdown \/ h = "Stop" \/ h = "Speed Limit"
    /\ "Stop" \notin Breakdown /\ "Speed Limit" \notin Breakdown
    /\ \A g, h \in Breakdown : SAFETY_FOR[g] = SAFETY_FOR[h] => g = h
  BY DEF SAFETY_FOR, Hazard, Breakdown, Safety, None

-----------------------------------------------------------------------------
(* What a card does to a player *)

LEMMA SafetyPlayed ==
    ASSUME NEW p \in Player, Protected(p), NEW x \in Safety
    PROVE  /\ WithSafety(p, x) \in Player /\ Protected(WithSafety(p, x))
           /\ WithSafety(p, x).hand = p.hand
  <1> DEFINE q == WithSafety(p, x)
             hz == IF p.hazard # None /\ SAFETY_FOR[p.hazard] = x THEN None ELSE p.hazard
  <1>1. /\ q.hand = p.hand /\ q.safeties = p.safeties \cup {x}
        /\ q.speed_limited <=> p.speed_limited /\ x # "Right of Way"
        /\ q.hazard = hz
    <2>1. q.hand = p.hand /\ q.safeties = p.safeties \cup {x}
      BY DEF WithSafety, Player
    <2>2. q.speed_limited <=> p.speed_limited /\ x # "Right of Way"
      BY DEF WithSafety, Player
    <2>3. q.hazard = hz
      BY DEF WithSafety, Player
    <2> QED
      BY <2>1, <2>2, <2>3
  <1>2. q \in Player
    BY DEF WithSafety, Player
  <1>3. q.hazard # None => SAFETY_FOR[q.hazard] \notin q.safeties
    BY <1>1 DEF Protected
  <1>4. RightOfWay(q) => ~q.speed_limited
    BY <1>1 DEF Protected, RightOfWay
  <1> QED
    BY <1>1, <1>2, <1>3, <1>4 DEF Protected

LEMMA DistanceDriven ==
    ASSUME NEW p \in Player, Protected(p), NEW n \in Nat
    PROVE  /\ Driven(p, n) \in Player /\ Protected(Driven(p, n))
           /\ Driven(p, n).hand = p.hand
  <1> DEFINE m == p.miles + n
             t == IF n = 200 THEN p.count_200 + 1 ELSE p.count_200
  <1>1. m \in Nat /\ t \in Nat
    BY DEF Player
  <1>2. Driven(p, n) = [p EXCEPT !.miles = m, !.count_200 = t]
    BY DEF Driven
  <1> HIDE DEF m, t
  <1> QED
    BY <1>1, <1>2 DEF Player, Protected, RightOfWay

LEMMA RemedyPlayed ==
    ASSUME NEW p \in Player, Protected(p), NEW r \in Remedy
    PROVE  /\ Remedied(p, r) \in Player /\ Protected(Remedied(p, r))
           /\ Remedied(p, r).hand = p.hand
  <1>1. CASE r = "Roll"
    BY <1>1 DEF Remedied, Player, Protected, RightOfWay
  <1>2. CASE r = "End of Limit"
    BY <1>2 DEF Remedied, Player, Protected, RightOfWay
  <1>3. CASE r # "Roll" /\ r # "End of Limit"
    <2>1. Remedied(p, r) = [p EXCEPT !.hazard = None, !.rolling = FALSE]
      BY <1>3 DEF Remedied
    <2> QED
      BY <2>1 DEF Player, Protected, RightOfWay
  <1> QED
    BY <1>1, <1>2, <1>3

\* do_play on the player of a card, whose hand the card has left.
LEMMA OwnCard ==
    ASSUME NEW p \in Player, Protected(p), NEW c \in Card
    PROVE  /\ AfterOwn(c, p) \in Player /\ Protected(AfterOwn(c, p))
           /\ AfterOwn(c, p).hand = p.hand
  <1>1. CASE Face[c].kind = "safety"
    BY <1>1, SafetyPlayed, Printed DEF AfterOwn
  <1>2. CASE Face[c].kind = "distance"
    BY <1>2, DistanceDriven, Printed DEF AfterOwn
  <1>3. CASE Face[c].kind = "remedy"
    BY <1>3, RemedyPlayed, Printed DEF AfterOwn
  <1>4. CASE Face[c].kind = "hazard"
    BY <1>4 DEF AfterOwn
  <1> QED
    BY <1>1, <1>2, <1>3, <1>4, Printed

\* do_play on the player a hazard is played on, who may be attacked with it.
LEMMA Attacked ==
    ASSUME NEW p \in Player, Protected(p), NEW h \in Hazard, CanAttack(h, p)
    PROVE  /\ Hit(p, h) \in Player /\ Protected(Hit(p, h))
           /\ Hit(p, h).hand = p.hand
           /\ h \in Breakdown => Hit(p, h).hazard = h
           /\ h = "Stop" => Hit(p, h).hazard = None
  <1>1. CASE h = "Speed Limit"
    <2>1. ~RightOfWay(p)
      BY <1>1 DEF CanAttack, Breakdown
    <2> QED
      BY <1>1, <2>1, Answers DEF Hit, Player, Protected, RightOfWay
  <1>2. CASE h = "Stop"
    <2>1. p.hazard = None
      BY <1>2 DEF CanAttack, CanMove, Breakdown
    <2> QED
      BY <1>2, <2>1, Answers DEF Hit, Player, Protected, RightOfWay
  <1>3. CASE h \in Breakdown
    <2>1. SAFETY_FOR[h] \notin p.safeties
      BY <1>3 DEF CanAttack, Breakdown
    <2>2. Hit(p, h) = [p EXCEPT !.hazard = h, !.rolling = FALSE]
      BY <1>3, Answers DEF Hit
    <2> QED
      BY <1>3, <2>1, <2>2, Answers DEF Player, Protected, RightOfWay
  <1> QED
    BY <1>1, <1>2, <1>3, Answers

\* apply_coup_fourre.
LEMMA CoupTaken ==
    ASSUME NEW p \in Player, Protected(p), NEW h \in Hazard
    PROVE  /\ CoupFourre(p, h) \in Player /\ Protected(CoupFourre(p, h))
           /\ CoupFourre(p, h).hand \subseteq p.hand
  <1> DEFINE q == CoupFourre(p, h)
             x == SAFETY_FOR[h]
  <1>0. x \in Safety
    BY Answers
  <1>1. /\ q.hand \subseteq p.hand /\ q.safeties = p.safeties \cup {x}
        /\ q.hazard = IF h \in Breakdown THEN None ELSE p.hazard
        /\ q.speed_limited <=> p.speed_limited /\ x # "Right of Way"
    <2>1. q.hand \subseteq p.hand /\ q.safeties = p.safeties \cup {x}
      BY DEF CoupFourre, Player
    <2>2. q.speed_limited <=> p.speed_limited /\ x # "Right of Way"
      BY DEF CoupFourre, Player
    <2>3. q.hazard = IF h \in Breakdown THEN None ELSE p.hazard
      BY DEF CoupFourre, Player
    <2> QED
      BY <2>1, <2>2, <2>3
  <1>2. q \in Player
    <2> DEFINE n == p.coups + 1
               hz == IF h \in Breakdown THEN None ELSE p.hazard
               hand == {c \in p.hand : ~IsSafety(c, x)}
               limit == p.speed_limited /\ x # "Right of Way"
    <2>1. /\ n \in Nat /\ hz \in Breakdown \cup {None}
          /\ hand \in SUBSET Card /\ limit \in BOOLEAN
          /\ p.safeties \cup {x} \in SUBSET Safety
      BY <1>0 DEF Player
    <2>2. q = [p EXCEPT !.hand = hand, !.safeties = p.safeties \cup {x}, !.coups = n,
                        !.hazard = hz, !.rolling = TRUE, !.speed_limited = limit]
      BY DEF CoupFourre
    <2> HIDE DEF n, hz, hand, limit, q, x
    <2> QED
      BY <2>1, <2>2 DEF Player
  <1>3. q.hazard # None => SAFETY_FOR[q.hazard] \notin q.safeties
    <2>1. p.hazard \in Breakdown \cup {None}
      BY DEF Player
    <2>2. CASE h \in Breakdown
      BY <1>1, <2>2
    <2>3. CASE h \notin Breakdown
      <3>1. x = "Right of Way"
        BY <2>3, Answers
      <3> QED
        BY <1>1, <2>1, <2>3, <3>1, Answers DEF Protected
    <2> QED
      BY <2>2, <2>3
  <1>4. RightOfWay(q) => ~q.speed_limited
    BY <1>1 DEF Protected, RightOfWay
  <1> QED
    BY <1>1, <1>2, <1>3, <1>4 DEF Protected

-----------------------------------------------------------------------------
(* Handing over the turn *)

LEMMA Others ==
    \A s \in Seat : /\ Other(s) \in Seat /\ Other(s) # s /\ Other(Other(s)) = s
                    /\ \A t \in Seat : t = s \/ t = Other(s)
                    /\ s # None
  BY DEF Seat, Other, None

\* _check_pvp_game_over leaves a game without a winner only if the race is on
\* and there is a card somewhere.
LEMMA GoesOn ==
    ASSUME NEW ps \in [Seat -> Player]
    PROVE  /\ Outcome(ps) \in Seat \cup {None}
           /\ Outcome(ps) = None => deck # {} \/ \E s \in Seat : ps[s].hand # {}
  <1>1. /\ "player1" \in Seat /\ "player2" \in Seat /\ Seat = {"player1", "player2"}
        /\ "player1" # None /\ "player2" # None
    BY DEF Seat, None
  <1>2. /\ ps["player1"].miles \in Int /\ ps["player2"].miles \in Int /\ Goal \in Int
    BY <1>1 DEF Player
  <1> DEFINE far(s) == ps[s].miles >= Goal
  <1>3. /\ ps["player1"].miles < Goal <=> ~far("player1")
        /\ ps["player2"].miles < Goal <=> ~far("player2")
    BY <1>2
  <1>4. CASE far("player1")
    BY <1>1, <1>3, <1>4 DEF Outcome
  <1>5. CASE ~far("player1") /\ far("player2")
    BY <1>1, <1>3, <1>5 DEF Outcome
  <1>6. CASE ~far("player1") /\ ~far("player2")
    <2>1. \A s \in Seat : ps[s].miles < Goal
      BY <1>1, <1>3, <1>6
    <2>2. CASE deck = {} /\ \A s \in Seat : ps[s].hand = {}
      <3>1. Outcome(ps) = IF Score(ps["player1"], ps["player2"], FALSE)
                               >= Score(ps["player2"], ps["player1"], FALSE)
                          THEN "player1" ELSE "player2"
        BY <1>3, <1>6, <2>1, <2>2 DEF Outcome
      <3> QED
        BY <1>1, <3>1
    <2>3. CASE ~(deck = {} /\ \A s \in Seat : ps[s].hand = {})
      <3>1. Outcome(ps) = None
        BY <1>3, <1>6, <2>3 DEF Outcome
      <3> QED
        BY <2>3, <3>1
    <2> QED
      BY <2>2, <2>3
  <1> QED
    BY <1>4, <1>5, <1>6

\* _give_turn: whoever has the turn has a card, the one it was meant for has it
\* unless they have none, and what is unspent stays unspent.
LEMMA TurnGiven ==
    ASSUME NEW ps, Sound(ps), NEW to \in Seat, deck \subseteq Card, Outcome(ps) = None,
           GiveTurn(ps, to)
    PROVE  /\ Sound(players)' /\ deck' \subseteq Card
           /\ current_turn' \in Seat /\ players'[current_turn'].hand # {}
           /\ current_turn' = to \/ players'[to].hand = {}
           /\ Unplayed(players)' = Unplayed(ps)
  <1>1. /\ ps \in [Seat -> Player] /\ Apart(ps)
        /\ \A s \in Seat : Protected(ps[s]) /\ ps[s] \in Player
        /\ "player1" \in Seat /\ "player2" \in Seat /\ Seat = {"player1", "player2"}
    BY DEF Sound, Seat
  <1>2. CASE deck = {} /\ players' = ps /\ deck' = deck
             /\ current_turn' = IF ps[to].hand # {} \/ ps[Other(to)].hand = {}
                                THEN to ELSE Other(to)
    <2>1. Sound(players)'
      BY <1>1, <1>2 DEF Sound, Apart, Protected, RightOfWay
    <2>2. Unplayed(players)' = Unplayed(ps)
      BY <1>2 DEF Unplayed
    <2>3. ps[to].hand # {} \/ ps[Other(to)].hand # {}
      BY <1>1, <1>2, GoesOn, Others
    <2> QED
      BY <1>2, <2>1, <2>2, <2>3, Others
  <1>3. CASE \E c \in deck :
                /\ players' = [ps EXCEPT ![to].hand = @ \cup {c}]
                /\ deck' = deck \ {c}
                /\ current_turn' = to
    <2>1. PICK c \in deck : /\ players' = [ps EXCEPT ![to].hand = @ \cup {c}]
                            /\ deck' = deck \ {c}
                            /\ current_turn' = to
      BY <1>3
    <2> DEFINE p == ps[to]
               q == [p EXCEPT !.hand = @ \cup {c}]
    <2>2. /\ p \in Player /\ Protected(p) /\ c \in Card
      BY <1>1
    <2>3. q \in Player /\ q.hand = p.hand \cup {c} /\ Protected(q)
      BY <2>2 DEF Player, Protected, RightOfWay
    <2>4. \A s \in Seat : players'[s] = IF s = to THEN q ELSE ps[s]
      BY <1>1, <2>1
    <2>5. players' \in [Seat -> Player]
      BY <1>1, <2>1, <2>3
    <2> HIDE DEF p, q
    <2>6. \A s \in Seat : Protected(players'[s])
      BY <1>1, <2>3, <2>4
    <2>7. \A s \in Seat : players'[s].hand = IF s = to THEN ps[to].hand \cup {c} ELSE ps[s].hand
      BY <2>3, <2>4 DEF p
    <2>8. Apart(players)'
      BY <1>1, <2>1, <2>7 DEF Apart
    <2>9. Unplayed(players)' = Unplayed(ps)
      BY <1>1, <2>1, <2>7 DEF Unplayed
    <2>10. Sound(players)'
      BY <2>5, <2>6, <2>8 DEF Sound, Protected, RightOfWay
    <2> QED
      BY <2>1, <2>7, <2>9, <2>10
  <1> QED
    BY <1>2, <1>3 DEF GiveTurn

-----------------------------------------------------------------------------
(* What is left of the deck and the hands *)

LEMMA Counted ==
    ASSUME NEW S \in SUBSET Card, NEW T \in SUBSET S
    PROVE  /\ Cardinality(S) \in Nat /\ Cardinality(T) \in Nat
           /\ Cardinality(T) <= Cardinality(S)
           /\ \A c \in S : T = S \ {c} => Cardinality(T) = Cardinality(S) - 1
  <1>1. IsFiniteSet(S) /\ IsFiniteSet(T) /\ Cardinality(T) <= Cardinality(S)
    BY FS_Subset
  <1>2. Cardinality(S) \in Nat /\ Cardinality(T) \in Nat
    BY <1>1, FS_CardinalityType
  <1>3. \A c \in S : Cardinality(S \ {c}) = Cardinality(S) - 1
    BY <1>1, FS_RemoveElement
  <1> QED
    BY <1>1, <1>2, <1>3

\* What a step may not do with the turn, and what it must spend.
TurnRule ==
    current_turn' = current_turn =>
        \/ winner' # None
        \/ coup_fourre_pending' # None
        \/ players'[Other(current_turn)].hand = {}

SpendRule == winner' = None => Remaining' < Remaining

LEMMA Types ==
    ASSUME Inv
    PROVE  /\ Sound(players) /\ deck \subseteq Card /\ Unplayed(players) \subseteq Card
           /\ Remaining = 2 * Cardinality(Unplayed(players))
                            + (IF coup_fourre_pending = None THEN 0 ELSE 1)
  BY DEF Inv, TableIsSound, TypeOK, CardsApart, SafetyProtects, Sound, Apart, Protected,
         Unplayed, Remaining, Player, Seat

\* The table after a step.
LEMMA TableAfter ==
    ASSUME Sound(players)', deck' \subseteq Card, current_turn' \in Seat,
           coup_fourre_pending' \in Seat \cup {None},
           coup_fourre_hazard' \in Hazard \cup {None}, winner' \in Seat \cup {None}
    PROVE  TableIsSound'
  BY DEF TableIsSound, TypeOK, CardsApart, SafetyProtects, Sound, Apart, Protected, RightOfWay

\* A move that has ended the game or passed the turn: ps are the players once
\* the card is played or discarded.
LEMMA Moved ==
    ASSUME Inv, NEW s \in Seat, MayMove(s), NEW c \in Unplayed(players), NEW ps, Sound(ps),
           Unplayed(ps) = Unplayed(players) \ {c},
           Finish(ps) \/ PassTurn(ps, Other(s))
    PROVE  Inv' /\ TurnRule /\ SpendRule
  <1>1. /\ TypeOK /\ deck \subseteq Card /\ ps \in [Seat -> Player]
        /\ winner = None /\ current_turn = s /\ coup_fourre_pending = None
        /\ coup_fourre_hazard \in Hazard \cup {None}
    BY Types DEF Inv, TableIsSound, TypeOK, MayMove, Sound
  <1>2. CASE Finish(ps)
    <2>1. /\ winner' \in Seat /\ winner' # None /\ players' = ps /\ deck' = deck
          /\ current_turn' = s /\ coup_fourre_pending' = None
          /\ coup_fourre_hazard' = coup_fourre_hazard
      BY <1>1, <1>2, GoesOn DEF Finish
    <2>2. Sound(players)'
      BY <2>1 DEF Sound, Apart, Protected, RightOfWay
    <2>3. TableIsSound'
      BY <1>1, <2>1, <2>2, TableAfter
    <2> QED
      BY <2>1, <2>3
         DEF Inv, TurnHolderHasCard, CoupCanBeAnswered, StopOnTheMove, TurnRule, SpendRule
  <1>3. CASE PassTurn(ps, Other(s))
    <2>1. /\ Outcome(ps) = None /\ GiveTurn(ps, Other(s)) /\ winner' = None
          /\ coup_fourre_pending' = None /\ coup_fourre_hazard' = coup_fourre_hazard
      BY <1>1, <1>3 DEF PassTurn
    <2>2. Other(s) \in Seat /\ Other(s) # s
      BY Others
    <2>3. /\ Sound(players)' /\ deck' \subseteq Card
          /\ current_turn' \in Seat /\ players'[current_turn'].hand # {}
          /\ current_turn' = Other(s) \/ players'[Other(s)].hand = {}
          /\ Unplayed(players)' = Unplayed(ps)
      BY <1>1, <2>1, <2>2, TurnGiven
    <2>4. TableIsSound'
      BY <1>1, <2>1, <2>3, TableAfter
    <2>5. Inv'
      BY <2>1, <2>3, <2>4 DEF Inv, TurnHolderHasCard, CoupCanBeAnswered, StopOnTheMove
    <2>6. TurnRule
      BY <1>1, <2>2, <2>3 DEF TurnRule
    <2>7. /\ Remaining = 2 * Cardinality(Unplayed(players))
          /\ Remaining' = 2 * Cardinality(Unplayed(players)')
      <3>1. Remaining = 2 * Cardinality(Unplayed(players)) + 0
        BY <1>1, Types
      <3>2. Remaining' = 2 * Cardinality(Unplayed(players)') + 0
        BY <2>1 DEF Remaining, Unplayed
      <3>3. Cardinality(Unplayed(players)) \in Nat
        BY Types, Counted
      <3>4. Cardinality(Unplayed(players)') \in Nat
        BY <2>3, Types, Counted
      <3> QED
        BY <3>1, <3>2, <3>3, <3>4
    <2>8. /\ Cardinality(Unplayed(players)) \in Nat
          /\ Cardinality(Unplayed(players)') = Cardinality(Unplayed(players)) - 1
      BY <2>3, Types, Counted
    <2> QED
      BY <2>5, <2>6, <2>7, <2>8 DEF SpendRule
  <1> QED
    BY <1>2, <1>3

-----------------------------------------------------------------------------
(* The actions *)

LEMMA DiscardKeeps ==
    ASSUME Inv, NEW s \in Seat, NEW c \in Card, Discard(s, c)
    PROVE  Inv' /\ TurnRule /\ SpendRule
  <1> DEFINE ps == [players EXCEPT ![s].hand = @ \ {c}]
             q == [players[s] EXCEPT !.hand = @ \ {c}]
  <1>1. /\ MayMove(s) /\ c \in players[s].hand /\ Sound(players)
        /\ Finish(ps) \/ PassTurn(ps, Other(s))
    BY Types DEF Discard
  <1>2. /\ players \in [Seat -> Player] /\ Apart(players)
        /\ \A t \in Seat : players[t] \in Player /\ Protected(players[t])
    BY <1>1 DEF Sound
  <1>3. q \in Player /\ q.hand = players[s].hand \ {c} /\ Protected(q)
    BY <1>2 DEF Player, Protected, RightOfWay
  <1>4. ps \in [Seat -> Player] /\ \A t \in Seat : ps[t] = IF t = s THEN q ELSE players[t]
    BY <1>2, <1>3
  <1> HIDE DEF ps, q
  <1>5. \A t \in Seat : ps[t].hand = IF t = s THEN players[s].hand \ {c} ELSE players[t].hand
    BY <1>3, <1>4
  <1>6. Sound(ps)
    BY <1>2, <1>3, <1>4, <1>5 DEF Sound, Apart, Seat
  <1>7. c \in Unplayed(players) /\ Unplayed(ps) = Unplayed(players) \ {c}
    BY <1>1, <1>2, <1>5 DEF Unplayed, Apart, Seat
  <1> QED
    BY <1>1, <1>6, <1>7, Moved

LEMMA PlayKeeps ==
    ASSUME Inv, NEW s \in Seat, NEW c \in Card, Play(s, c)
    PROVE  Inv' /\ TurnRule /\ SpendRule
  <1> DEFINE opp == Other(s)
             p == [players[s] EXCEPT !.hand = @ \ {c}]
             ps == [t \in Seat |-> IF t = s THEN AfterOwn(c, p) ELSE AfterTheirs(c, players[t])]
             offered == Face[c].kind = "hazard" /\ Holds(players[opp], SAFETY_FOR[Face[c].name])
  <1>1. /\ MayMove(s) /\ c \in players[s].hand /\ Sound(players)
        /\ CanPlay(c, players[s], players[opp])
        /\ \/ Finish(ps)
           \/ offered /\ OfferCoup(ps, opp, Face[c].name)
           \/ ~offered /\ PassTurn(ps, opp)
    BY Types DEF Play
  <1>2. /\ players \in [Seat -> Player] /\ Apart(players)
        /\ \A t \in Seat : players[t] \in Player /\ Protected(players[t])
        /\ opp \in Seat /\ opp # s /\ \A t \in Seat : t = s \/ t = opp
    BY <1>1, Others DEF Sound
  <1>3. p \in Player /\ p.hand = players[s].hand \ {c} /\ Protected(p)
    BY <1>2 DEF Player, Protected, RightOfWay
  <1>4. /\ AfterOwn(c, p) \in Player /\ Protected(AfterOwn(c, p))
        /\ AfterOwn(c, p).hand = players[s].hand \ {c}
    BY <1>3, OwnCard
  <1>5. Face[c].kind = "hazard" =>
            Face[c].name \in Hazard /\ CanAttack(Face[c].name, players[opp])
    BY <1>1, Printed DEF CanPlay
  <1>6. /\ AfterTheirs(c, players[opp]) \in Player /\ Protected(AfterTheirs(c, players[opp]))
        /\ AfterTheirs(c, players[opp]).hand = players[opp].hand
        /\ Face[c].kind = "hazard" =>
              /\ Face[c].name \in Breakdown =>
                    AfterTheirs(c, players[opp]).hazard = Face[c].name
              /\ Face[c].name = "Stop" => AfterTheirs(c, players[opp]).hazard = None
    <2>1. CASE Face[c].kind = "hazard"
      <3>1. AfterTheirs(c, players[opp]) = Hit(players[opp], Face[c].name)
        BY <2>1 DEF AfterTheirs
      <3> QED
        BY <1>2, <1>5, <2>1, <3>1, Attacked
    <2>2. CASE Face[c].kind # "hazard"
      BY <1>2, <2>2 DEF AfterTheirs
    <2> QED
      BY <2>1, <2>2
  <1> HIDE DEF p
  <1>7. /\ ps \in [Seat -> Player] /\ ps[s] = AfterOwn(c, p)
        /\ ps[opp] = AfterTheirs(c, players[opp])
        /\ ps[s].hand = players[s].hand \ {c} /\ ps[opp].hand = players[opp].hand
    BY <1>2, <1>4, <1>6
  <1> HIDE DEF ps
  <1>8. Sound(ps)
    BY <1>2, <1>4, <1>6, <1>7 DEF Sound, Apart, Seat
  <1>9. c \in Unplayed(players) /\ Unplayed(ps) = Unplayed(players) \ {c}
    BY <1>1, <1>2, <1>7 DEF Unplayed, Apart, Seat, Other
  <1>10. CASE Finish(ps) \/ PassTurn(ps, opp)
    BY <1>1, <1>8, <1>9, <1>10, Moved
  <1>11. CASE offered /\ OfferCoup(ps, opp, Face[c].name)
    <2> DEFINE h == Face[c].name
    <2>1. /\ players' = ps /\ coup_fourre_pending' = opp /\ coup_fourre_hazard' = h
          /\ deck' = deck /\ current_turn' = s /\ winner' = None /\ h \in Hazard
          /\ Face[c].kind = "hazard" /\ Holds(players[opp], SAFETY_FOR[h])
          /\ deck \subseteq Card /\ coup_fourre_pending = None /\ opp # None
      BY <1>1, <1>2, <1>5, <1>11, Types, Others DEF OfferCoup, MayMove
    <2>2. Sound(players)'
      BY <1>8, <2>1 DEF Sound, Apart, Protected, RightOfWay
    <2>3. TableIsSound'
      BY <1>2, <2>1, <2>2, TableAfter
    <2>4. CoupCanBeAnswered'
      <3>1. Holds(players'[opp], SAFETY_FOR[h])
        BY <1>7, <2>1 DEF Holds
      <3>2. h \in Breakdown => players'[opp].hazard = h
        BY <1>6, <1>7, <2>1
      <3> QED
        BY <2>1, <3>1, <3>2 DEF CoupCanBeAnswered, Holds
    <2>5. StopOnTheMove'
      BY <1>6, <1>7, <2>1 DEF StopOnTheMove
    <2>6. Inv' /\ TurnRule
      BY <2>1, <2>3, <2>4, <2>5 DEF Inv, TurnHolderHasCard, TurnRule
    <2>7. SpendRule
      <3>1. Remaining = 2 * Cardinality(Unplayed(players)) + 0
        BY <2>1, Types
      <3>2. Remaining' = 2 * Cardinality(Unplayed(ps)) + 1
        BY <2>1 DEF Remaining, Unplayed
      <3>3. /\ Cardinality(Unplayed(players)) \in Nat
            /\ Cardinality(Unplayed(ps)) = Cardinality(Unplayed(players)) - 1
        BY <1>9, Types, Counted
      <3> QED
        BY <3>1, <3>2, <3>3 DEF SpendRule
    <2> QED
      BY <2>6, <2>7
  <1> QED
    BY <1>1, <1>10, <1>11

LEMMA AnswerKeeps ==
    ASSUME Inv, NEW s \in Seat, NEW accept \in BOOLEAN, AnswerCoup(s, accept)
    PROVE  Inv' /\ TurnRule /\ SpendRule
  <1> DEFINE h == coup_fourre_hazard
             ps == [players EXCEPT ![s] = IF accept THEN CoupFourre(@, h) ELSE @]
  <1>1. /\ winner = None /\ coup_fourre_pending = s /\ coup_fourre_pending' = None
        /\ coup_fourre_hazard' = None /\ winner' = Outcome(ps)
        /\ IF Outcome(ps) = None THEN GiveTurn(ps, s)
           ELSE players' = ps /\ UNCHANGED <<deck, current_turn>>
    BY DEF AnswerCoup
  <1>2. /\ players \in [Seat -> Player] /\ Apart(players) /\ deck \subseteq Card
        /\ \A t \in Seat : players[t] \in Player /\ Protected(players[t])
        /\ current_turn \in Seat /\ s # None
    BY Types, Others DEF Sound, Inv, TableIsSound, TypeOK
  <1>3. s = Other(current_turn) /\ h \in Hazard /\ s # current_turn
    BY <1>1, <1>2, Others DEF Inv, CoupCanBeAnswered
  <1> DEFINE q == IF accept THEN CoupFourre(players[s], h) ELSE players[s]
  <1>4. q \in Player /\ Protected(q) /\ q.hand \subseteq players[s].hand
    BY <1>2, <1>3, CoupTaken
  <1>5. ps \in [Seat -> Player] /\ \A t \in Seat : ps[t] = IF t = s THEN q ELSE players[t]
    BY <1>2, <1>4
  <1> HIDE DEF ps, q
  <1>6. Sound(ps)
    BY <1>2, <1>4, <1>5 DEF Sound, Apart, Seat
  <1>7. Unplayed(ps) \subseteq Unplayed(players)
    BY <1>4, <1>5 DEF Unplayed, Seat
  <1>8. Remaining = 2 * Cardinality(Unplayed(players)) + 1
    BY <1>1, <1>2, Types
  <1>9. CASE Outcome(ps) # None
    <2>1. /\ winner' \in Seat /\ winner' # None /\ players' = ps /\ deck' = deck
          /\ current_turn' = current_turn
      BY <1>1, <1>5, <1>9, GoesOn
    <2>2. Sound(players)'
      BY <1>6, <2>1 DEF Sound, Apart, Protected, RightOfWay
    <2>3. TableIsSound'
      BY <1>1, <1>2, <2>1, <2>2, TableAfter
    <2> QED
      BY <2>1, <2>3
         DEF Inv, TurnHolderHasCard, CoupCanBeAnswered, StopOnTheMove, TurnRule, SpendRule
  <1>10. CASE Outcome(ps) = None
    <2>1. /\ Sound(players)' /\ deck' \subseteq Card
          /\ current_turn' \in Seat /\ players'[current_turn'].hand # {}
          /\ current_turn' = s \/ players'[s].hand = {}
          /\ Unplayed(players)' = Unplayed(ps)
      BY <1>1, <1>2, <1>6, <1>10, TurnGiven
    <2>2. TableIsSound'
      BY <1>1, <1>10, <2>1, TableAfter
    <2>3. Inv'
      BY <1>1, <2>1, <2>2 DEF Inv, TurnHolderHasCard, CoupCanBeAnswered, StopOnTheMove
    <2>4. TurnRule
      BY <1>3, <2>1 DEF TurnRule
    <2>5. Remaining' = 2 * Cardinality(Unplayed(ps)) + 0
      BY <1>1, <2>1 DEF Remaining, Unplayed
    <2>6. /\ Cardinality(Unplayed(players)) \in Nat /\ Cardinality(Unplayed(ps)) \in Nat
          /\ Cardinality(Unplayed(ps)) <= Cardinality(Unplayed(players))
      BY <1>7, Types, Counted
    <2> QED
      BY <1>8, <2>3, <2>4, <2>5, <2>6 DEF SpendRule
  <1> QED
    BY <1>9, <1>10

LEMMA ForfeitKeeps ==
    ASSUME Inv, NEW s \in Seat, Forfeit(s)
    PROVE  Inv' /\ TurnRule /\ SpendRule
  <1>1. /\ winner' \in Seat /\ winner' # None
        /\ UNCHANGED <<deck, players, current_turn, coup_fourre_pending, coup_fourre_hazard>>
    BY Others DEF Forfeit
  <1>2. TableIsSound'
    BY <1>1 DEF Inv, TableIsSound, TypeOK, CardsApart, SafetyProtects, RightOfWay
  <1> QED
    BY <1>1, <1>2
       DEF Inv, TurnHolderHasCard, CoupCanBeAnswered, StopOnTheMove, TurnRule, SpendRule

LEMMA NextKeeps == Inv /\ [Next]_vars => Inv'
  <1> SUFFICES ASSUME Inv, [Next]_vars PROVE Inv'
    OBVIOUS
  <1>1. CASE UNCHANGED vars
    BY <1>1 DEF vars, Inv, TableIsSound, TypeOK, CardsApart, SafetyProtects, RightOfWay,
                TurnHolderHasCard, CoupCanBeAnswered, StopOnTheMove, Holds
  <1>2. CASE Next
    BY <1>1, <1>2, PlayKeeps, DiscardKeeps, AnswerKeeps, ForfeitKeeps DEF Next, Over
  <1> QED
    BY <1>1, <1>2

\* A step that moves at all obeys both rules.
LEMMA NextObeys == Inv /\ Next => UNCHANGED vars \/ (TurnRule /\ SpendRule)
  BY PlayKeeps, DiscardKeeps, AnswerKeeps, ForfeitKeeps DEF Next, Over

-----------------------------------------------------------------------------
(* Theorems *)

LEMMA InitKeeps == Init => Inv
  <1> SUFFICES ASSUME Init PROVE Inv
    OBVIOUS
  <1>1. PICK h1 \in Deals(Card, HandSize + 1) : \E h2 \in Deals(Card \ h1, HandSize) :
            /\ players = [s \in Seat |-> NewPlayer(IF s = "player1" THEN h1 ELSE h2)]
            /\ deck = (Card \ h1) \ h2
    BY DEF Init
  <1>2. PICK h2 \in Deals(Card \ h1, HandSize) :
            /\ players = [s \in Seat |-> NewPlayer(IF s = "player1" THEN h1 ELSE h2)]
            /\ deck = (Card \ h1) \ h2
    BY <1>1
  <1>3. /\ h1 \subseteq Card /\ h2 \subseteq Card /\ h1 \cap h2 = {} /\ Cardinality(h1) = HandSize + 1
        /\ current_turn = "player1" /\ coup_fourre_pending = None
        /\ coup_fourre_hazard = None /\ winner = None
    BY <1>2 DEF Deals, Init
  <1>4. \A h \in SUBSET Card : /\ NewPlayer(h) \in Player /\ NewPlayer(h).hand = h
                               /\ Protected(NewPlayer(h))
    BY DEF NewPlayer, Player, Protected, RightOfWay
  <1>5. /\ players \in [Seat -> Player] /\ players["player1"].hand = h1
        /\ players["player2"].hand = h2 /\ \A s \in Seat : Protected(players[s])
    BY <1>2, <1>3, <1>4 DEF Seat
  <1>6. h1 # {}
    <2>1. Cardinality(h1) \in Nat \ {0}
      BY <1>3
    <2>2. Cardinality({}) = 0
      BY FS_EmptySet
    <2> QED
      BY <2>1, <2>2
  <1>7. TableIsSound
    BY <1>2, <1>3, <1>5 DEF TableIsSound, TypeOK, CardsApart, SafetyProtects, Protected, Seat
  <1> QED
    BY <1>3, <1>5, <1>6, <1>7 DEF Inv, TurnHolderHasCard, CoupCanBeAnswered, StopOnTheMove

LEMMA InvAlways == Spec => []Inv
  BY InitKeeps, NextKeeps, PTL DEF Spec

\* Every card is in one place, and no player is broken down by, or limited by, a
\* hazard they hold the safety for (do_play, apply_coup_fourre).
THEOREM TableSound == Spec => []TableIsSound
  BY InvAlways, PTL DEF Inv

\* The game never stalls: whoever has the turn has a card (_give_turn).
THEOREM NoStall == Spec => []TurnHolderHasCard
  BY InvAlways, PTL DEF Inv

\* An offered coup fourre can be taken, and taking it undoes the whole hazard
\* (mille_pvp_coup, apply_coup_fourre).
THEOREM CoupSound == Spec => []CoupIsSound
  <1>1. Inv => CoupIsSound
    <2> SUFFICES ASSUME Inv, winner = None, coup_fourre_pending # None
                 PROVE  CoupUndoesHazard
      BY DEF Inv, CoupIsSound, CoupUndoesHazard
    <2> DEFINE p == players[coup_fourre_pending]
               h == coup_fourre_hazard
               q == CoupFourre(p, h)
    <2>1. p \in Player /\ h \in Hazard
      BY DEF Inv, TableIsSound, TypeOK, CoupCanBeAnswered
    <2>2. h = "Stop" => p.hazard = None
      BY DEF Inv, StopOnTheMove
    <2>3. /\ q.rolling = TRUE /\ q.hazard = IF h \in Breakdown THEN None ELSE p.hazard
      BY <2>1 DEF CoupFourre, Player
    <2>4. h = "Speed Limit" => ~q.speed_limited
      BY <2>1, Answers DEF CoupFourre, Player
    <2> HIDE DEF q
    <2>5. h # "Speed Limit" => CanMove(q)
      BY <2>1, <2>2, <2>3, Answers DEF CanMove
    <2> QED
      BY <2>4, <2>5 DEF CoupUndoesHazard, q
  <1> QED
    BY <1>1, InvAlways, PTL

\* After a move the turn is the opponent's, unless the game is over, an answer is
\* awaited or the opponent has nothing to play (_give_turn, mille_pvp_coup).
THEOREM TurnAlwaysPasses == Spec => TurnPasses
  <1>1. Inv /\ [Next]_vars =>
          [current_turn' = current_turn =>
              \/ winner' # None
              \/ coup_fourre_pending' # None
              \/ players'[Other(current_turn)].hand = {}]_vars
    BY NextObeys DEF TurnRule
  <1> QED
    BY <1>1, InvAlways, PTL DEF Spec, TurnPasses

\* Every move spends a card or settles an answer: with NoStall, a game whose
\* players go on playing comes to an end.
THEOREM GameRunsDown == Spec => EveryMoveSpends
  <1>1. Inv /\ [Next]_vars => [winner' = None => Remaining' < Remaining]_vars
    BY NextObeys DEF SpendRule
  <1> QED
    BY <1>1, InvAlways, PTL DEF Spec, EveryMoveSpends

-----------------------------------------------------------------------------
(* A game against the computer *)

\* What every game record a request passes through keeps: it is a game, its
\* cards are in one place, no safety was played in vain, and there is a row
\* for it exactly if its score is stored.
Good(g) ==
    /\ g \in GameState
    /\ g.deck \cap g.human.hand = {} /\ g.deck \cap g.cpu.hand = {}
    /\ g.human.hand \cap g.cpu.hand = {}
    /\ Protected(g.human) /\ Protected(g.cpu)
    /\ g.rows = IF g.score_saved THEN 1 ELSE 0

\* Nobody has won a race that is still on.
Racing(g) == g.human.miles < Goal /\ g.cpu.miles < Goal

\* The question put to the human can be answered.
Asked(g, h) ==
    /\ g.winner = None
    /\ Holds(g.human, SAFETY_FOR[h])
    /\ h \in Breakdown => g.human.hazard = h

\* A game between two draws: the race is on while nobody has won, and what the
\* human is asked can be answered.
Settled(g) ==
    /\ Good(g)
    /\ g.winner = None => Racing(g)
    /\ g.coup_fourre_pending # None => Asked(g, g.coup_fourre_pending)

\* A human without a card means a deck without one: it is drawn from otherwise.
Fed(g) == g.winner = None /\ g.human.hand = {} => g.deck = {}

CpuInv == Settled(game) /\ Fed(game)

\* The cards that have not been spent.
LeftCards(g) == g.deck \cup g.human.hand \cup g.cpu.hand

-----------------------------------------------------------------------------
(* What a request's steps do to the game *)

LEMMA Fields ==
    ASSUME NEW g \in GameState
    PROVE  /\ g.human \in Player /\ g.cpu \in Player /\ g.deck \subseteq Card
           /\ g.human.hand \subseteq Card /\ g.cpu.hand \subseteq Card
           /\ g.coup_fourre_pending \in Hazard \cup {None}
           /\ g.winner \in Side \cup {None} /\ g.score_saved \in BOOLEAN /\ g.rows \in 0..1
           /\ g.human.miles \in Nat /\ g.cpu.miles \in Nat
  BY DEF GameState, Player

\* A card played, on whoever plays it and on whoever it is played on.
LEMMA CardPlayed ==
    ASSUME NEW p \in Player, NEW c \in Card
    PROVE  /\ AfterOwn(c, p) \in Player /\ AfterOwn(c, p).hand = p.hand
           /\ AfterTheirs(c, p) \in Player /\ AfterTheirs(c, p).hand = p.hand
           /\ AfterTheirs(c, p).miles = p.miles
           /\ Face[c].kind = "hazard" => AfterOwn(c, p) = p
  <1>1. Face[c].kind = "safety" =>
            /\ WithSafety(p, Face[c].name) \in Player
            /\ WithSafety(p, Face[c].name).hand = p.hand
    BY Printed DEF WithSafety, Player
  <1>2. Face[c].kind = "distance" =>
            /\ Driven(p, Face[c].miles) \in Player
            /\ Driven(p, Face[c].miles).hand = p.hand
    <2> DEFINE m == p.miles + Face[c].miles
               t == IF Face[c].miles = 200 THEN p.count_200 + 1 ELSE p.count_200
    <2>1. Face[c].kind = "distance" => m \in Nat /\ t \in Nat
      BY Printed DEF Player
    <2>2. Driven(p, Face[c].miles) = [p EXCEPT !.miles = m, !.count_200 = t]
      BY DEF Driven
    <2> HIDE DEF m, t
    <2> QED
      BY <2>1, <2>2 DEF Player
  <1>3. Face[c].kind = "remedy" =>
            /\ Remedied(p, Face[c].name) \in Player
            /\ Remedied(p, Face[c].name).hand = p.hand
    BY DEF Remedied, Player
  <1>4. \A n \in Hazard :
            Hit(p, n) \in Player /\ Hit(p, n).hand = p.hand /\ Hit(p, n).miles = p.miles
    <2> TAKE n \in Hazard
    <2>1. CASE n \in Breakdown
      <3>1. Hit(p, n) = [p EXCEPT !.hazard = n, !.rolling = FALSE]
        BY <2>1, Answers DEF Hit
      <3> QED
        BY <2>1, <3>1 DEF Player
    <2>2. CASE n = "Stop"
      BY <2>2 DEF Hit, Player
    <2>3. CASE n = "Speed Limit"
      BY <2>3 DEF Hit, Player
    <2> QED
      BY <2>1, <2>2, <2>3, Answers
  <1> QED
    BY <1>1, <1>2, <1>3, <1>4, Printed DEF AfterOwn, AfterTheirs

\* Checked changes nothing but the winner, and leaves the game without one only
\* if the race is on and there is a card somewhere.
LEMMA CheckedOnly ==
    ASSUME NEW g \in GameState
    PROVE  \E w \in Side \cup {None} :
              /\ Checked(g) = [g EXCEPT !.winner = w]
              /\ g.winner # None => w # None
              /\ w = None => /\ Checked(g) = g /\ Racing(g)
                             /\ g.deck # {} \/ g.human.hand # {} \/ g.cpu.hand # {}
  <1>1. g.human.miles \in Int /\ g.cpu.miles \in Int /\ Goal \in Int
    BY Fields
  <1>2. "human" \in Side /\ "cpu" \in Side /\ "human" # None /\ "cpu" # None
    BY DEF Side, None
  <1> DEFINE out == g.deck = {} /\ g.human.hand = {} /\ g.cpu.hand = {}
             ahead == Score(g.human, g.cpu, FALSE) >= Score(g.cpu, g.human, FALSE)
             last == IF ahead THEN "human" ELSE "cpu"
  <1>3. CASE g.human.miles >= Goal
    <2>1. Checked(g) = [g EXCEPT !.winner = "human"]
      BY <1>1, <1>3 DEF Checked
    <2> QED
      BY <1>2, <2>1
  <1>4. CASE g.human.miles < Goal /\ g.cpu.miles >= Goal
    <2>1. Checked(g) = [g EXCEPT !.winner = "cpu"]
      BY <1>1, <1>4 DEF Checked
    <2> QED
      BY <1>2, <2>1
  <1>5. CASE Racing(g) /\ out
    <2>1. Checked(g) = [g EXCEPT !.winner = last]
      BY <1>1, <1>5 DEF Checked, Racing
    <2>2. last \in Side /\ last # None
      BY <1>2
    <2> HIDE DEF last
    <2> QED
      BY <2>1, <2>2
  <1>6. CASE Racing(g) /\ ~out
    <2>0. ~(g.human.miles >= Goal) /\ ~(g.cpu.miles >= Goal)
      BY <1>1, <1>6 DEF Racing
    <2>1. Checked(g) = g
      BY <1>6, <2>0 DEF Checked
    <2>2. g = [g EXCEPT !.winner = g.winner] /\ g.winner \in Side \cup {None}
      BY DEF GameState
    <2> QED
      BY <1>6, <2>1, <2>2
  <1> QED
    BY <1>1, <1>3, <1>4, <1>5, <1>6 DEF Racing

\* The end of a game leaves it good, and settled if nobody was asked anything.
LEMMA CheckedKeeps ==
    ASSUME NEW g, Good(g)
    PROVE  LET k == Checked(g)
           IN  /\ Good(k) /\ k.human = g.human /\ k.cpu = g.cpu /\ k.deck = g.deck
               /\ k.coup_fourre_pending = g.coup_fourre_pending
               /\ k.score_saved = g.score_saved /\ k.rows = g.rows
               /\ g.winner # None => k.winner # None
               /\ k.winner = None =>
                      /\ k = g /\ Racing(g)
                      /\ g.deck # {} \/ g.human.hand # {} \/ g.cpu.hand # {}
  <1>1. g \in GameState
    BY DEF Good
  <1>2. PICK w \in Side \cup {None} :
              /\ Checked(g) = [g EXCEPT !.winner = w]
              /\ g.winner # None => w # None
              /\ w = None => /\ Checked(g) = g /\ Racing(g)
                             /\ g.deck # {} \/ g.human.hand # {} \/ g.cpu.hand # {}
    BY <1>1, CheckedOnly
  <1> DEFINE k == Checked(g)
  <1>3. /\ k \in GameState /\ k.winner = w /\ k.human = g.human /\ k.cpu = g.cpu
        /\ k.deck = g.deck /\ k.coup_fourre_pending = g.coup_fourre_pending
        /\ k.score_saved = g.score_saved /\ k.rows = g.rows
    BY <1>1, <1>2 DEF GameState
  <1> HIDE DEF k
  <1>4. Good(k)
    BY <1>3 DEF Good
  <1> QED
    BY <1>2, <1>3, <1>4 DEF k

\* A draw moves a card from the deck to a hand.
LEMMA DrawKeeps ==
    ASSUME NEW g, Good(g), NEW who \in Side, NEW k \in Draws(g, who)
    PROVE  /\ Good(k) /\ LeftCards(k) = LeftCards(g)
           /\ k.coup_fourre_pending = g.coup_fourre_pending
           /\ k.winner = g.winner /\ k.score_saved = g.score_saved /\ k.rows = g.rows
           /\ Racing(g) => Racing(k)
           /\ \A h \in Hazard : Asked(g, h) => Asked(k, h)
           /\ k.deck = {} \/ k[who].hand # {}
  <1>1. g \in GameState /\ g.human \in Player /\ g.cpu \in Player
    BY Fields DEF Good
  <1>2. CASE g.deck = {}
    BY <1>2 DEF Draws
  <1>3. CASE g.deck # {}
    <2>1. PICK c \in g.deck : k = [g EXCEPT ![who].hand = @ \cup {c}, !.deck = @ \ {c}]
      BY <1>3 DEF Draws
    <2> DEFINE p == g[who]
               q == [p EXCEPT !.hand = @ \cup {c}]
    <2>2. c \in Card /\ p \in Player
      BY <1>1, Fields DEF Side
    <2>3. /\ q \in Player /\ q.hand = p.hand \cup {c} /\ q.miles = p.miles
          /\ q.hazard = p.hazard
          /\ Protected(p) => Protected(q)
          /\ \A s \in Safety : Holds(p, s) => Holds(q, s)
      BY <2>2 DEF Player, Protected, RightOfWay, Holds
    <2>4. CASE who = "human"
      <3>1. k = [g EXCEPT !.human = q, !.deck = g.deck \ {c}]
        BY <1>1, <2>1, <2>4 DEF GameState
      <3> HIDE DEF q
      <3>2. /\ k \in GameState /\ k.human = q /\ k.cpu = g.cpu /\ k.deck = g.deck \ {c}
            /\ k.coup_fourre_pending = g.coup_fourre_pending
            /\ k.winner = g.winner /\ k.score_saved = g.score_saved /\ k.rows = g.rows
        BY <1>1, <2>3, <3>1 DEF GameState
      <3>3. Good(k)
        BY <1>1, <2>1, <2>3, <2>4, <3>2 DEF Good
      <3>4. LeftCards(k) = LeftCards(g)
        BY <2>1, <2>3, <2>4, <3>2 DEF LeftCards
      <3>5. \A h \in Hazard : Asked(g, h) => Asked(k, h)
        BY <2>3, <2>4, <3>2, Answers DEF Asked
      <3> QED
        BY <2>3, <2>4, <3>2, <3>3, <3>4, <3>5 DEF Racing
    <2>5. CASE who = "cpu"
      <3>1. k = [g EXCEPT !.cpu = q, !.deck = g.deck \ {c}]
        BY <1>1, <2>1, <2>5 DEF GameState
      <3> HIDE DEF q
      <3>2. /\ k \in GameState /\ k.cpu = q /\ k.human = g.human /\ k.deck = g.deck \ {c}
            /\ k.coup_fourre_pending = g.coup_fourre_pending
            /\ k.winner = g.winner /\ k.score_saved = g.score_saved /\ k.rows = g.rows
        BY <1>1, <2>3, <3>1 DEF GameState
      <3>3. Good(k)
        BY <1>1, <2>1, <2>3, <2>5, <3>2 DEF Good
      <3>4. LeftCards(k) = LeftCards(g)
        BY <2>1, <2>3, <2>5, <3>2 DEF LeftCards
      <3>5. \A h \in Hazard : Asked(g, h) => Asked(k, h)
        BY <3>2 DEF Asked
      <3> QED
        BY <2>3, <2>5, <3>2, <3>3, <3>4, <3>5 DEF Racing
    <2> QED
      BY <2>4, <2>5 DEF Side
  <1> QED
    BY <1>2, <1>3

\* A player without one of the cards in hand
Without(p, c) == [p EXCEPT !.hand = @ \ {c}]

LEMMA CardGone ==
    ASSUME NEW p \in Player, NEW c
    PROVE  /\ Without(p, c) \in Player /\ Without(p, c).hand = p.hand \ {c}
           /\ Without(p, c).miles = p.miles
           /\ Protected(p) => Protected(Without(p, c))
           /\ \A h \in Hazard : CanAttack(h, Without(p, c)) <=> CanAttack(h, p)
  BY DEF Without, Player, Protected, RightOfWay, CanAttack, CanMove

\* What Spent and Played do, player by player.
LEMMA SpentIs ==
    ASSUME NEW g \in GameState, NEW c
    PROVE  /\ Spent(g, "human", c) = [g EXCEPT !.human = Without(g.human, c)]
           /\ Spent(g, "cpu", c) = [g EXCEPT !.cpu = Without(g.cpu, c)]
  BY DEF Spent, Without, GameState

\* The fields a card spent or played leaves alone.
SameBook(k, g) ==
    /\ k.deck = g.deck /\ k.coup_fourre_pending = g.coup_fourre_pending
    /\ k.winner = g.winner /\ k.score_saved = g.score_saved /\ k.rows = g.rows

\* One player put in place of another
LEMMA OneSeated ==
    ASSUME NEW g \in GameState, NEW p \in Player, NEW k
    PROVE  /\ k = [g EXCEPT !.human = p] =>
                 k \in GameState /\ k.human = p /\ k.cpu = g.cpu /\ SameBook(k, g)
           /\ k = [g EXCEPT !.cpu = p] =>
                 k \in GameState /\ k.cpu = p /\ k.human = g.human /\ SameBook(k, g)
  BY DEF GameState, SameBook

LEMMA SpentTyped ==
    ASSUME NEW g \in GameState, NEW c
    PROVE  /\ Spent(g, "human", c) \in GameState /\ SameBook(Spent(g, "human", c), g)
           /\ Spent(g, "human", c).human = Without(g.human, c)
           /\ Spent(g, "human", c).cpu = g.cpu
           /\ Spent(g, "cpu", c) \in GameState /\ SameBook(Spent(g, "cpu", c), g)
           /\ Spent(g, "cpu", c).cpu = Without(g.cpu, c)
           /\ Spent(g, "cpu", c).human = g.human
  <1>1. Without(g.human, c) \in Player /\ Without(g.cpu, c) \in Player
    BY Fields, CardGone
  <1> QED
    BY <1>1, SpentIs, OneSeated

LEMMA PlayedTyped ==
    ASSUME NEW g \in GameState, NEW c \in Card
    PROVE  /\ Played(g, "human", c) \in GameState /\ SameBook(Played(g, "human", c), g)
           /\ Played(g, "human", c).human = AfterOwn(c, Without(g.human, c))
           /\ Played(g, "human", c).cpu = AfterTheirs(c, g.cpu)
           /\ Played(g, "cpu", c) \in GameState /\ SameBook(Played(g, "cpu", c), g)
           /\ Played(g, "cpu", c).cpu = AfterOwn(c, Without(g.cpu, c))
           /\ Played(g, "cpu", c).human = AfterTheirs(c, g.human)
  <1> DEFINE a == Spent(g, "human", c)
             b == Spent(g, "cpu", c)
             p == AfterOwn(c, Without(g.human, c))
             q == AfterTheirs(c, g.cpu)
             r == AfterOwn(c, Without(g.cpu, c))
             t == AfterTheirs(c, g.human)
  <1>1. p \in Player /\ q \in Player /\ r \in Player /\ t \in Player
    BY Fields, CardGone, CardPlayed
  <1>2. /\ a \in GameState /\ SameBook(a, g)
        /\ a.human = Without(g.human, c) /\ a.cpu = g.cpu
        /\ b \in GameState /\ SameBook(b, g)
        /\ b.cpu = Without(g.cpu, c) /\ b.human = g.human
    BY SpentTyped
  <1>3. /\ (CHOOSE s \in Side : s # "human") = "cpu"
        /\ (CHOOSE s \in Side : s # "cpu") = "human"
    BY DEF Side
  <1>4. Played(g, "human", c) = [a EXCEPT !.human = p, !.cpu = q]
    <2>1. Played(g, "human", c) =
              [a EXCEPT !.human = AfterOwn(c, a.human), !.cpu = AfterTheirs(c, a.cpu)]
      BY <1>2, <1>3 DEF Played, GameState
    <2> QED
      BY <1>2, <2>1
  <1>5. Played(g, "cpu", c) = [b EXCEPT !.cpu = r, !.human = t]
    <2>1. Played(g, "cpu", c) =
              [b EXCEPT !.cpu = AfterOwn(c, b.cpu), !.human = AfterTheirs(c, b.human)]
      BY <1>2, <1>3 DEF Played, GameState
    <2> QED
      BY <1>2, <2>1
  <1> HIDE DEF a, b, p, q, r, t
  <1>6. Played(g, "human", c) \in GameState /\ Played(g, "human", c).human = p
        /\ Played(g, "human", c).cpu = q /\ SameBook(Played(g, "human", c), a)
    BY <1>1, <1>2, <1>4 DEF GameState, SameBook
  <1>7. Played(g, "cpu", c) \in GameState /\ Played(g, "cpu", c).human = t
        /\ Played(g, "cpu", c).cpu = r /\ SameBook(Played(g, "cpu", c), b)
    BY <1>1, <1>2, <1>5 DEF GameState, SameBook
  <1> QED
    BY <1>2, <1>6, <1>7 DEF SameBook, p, q, r, t

LEMMA StaysGood ==
    ASSUME NEW g, Good(g), NEW k \in GameState, SameBook(k, g),
           k.human.hand \subseteq g.human.hand, k.cpu.hand \subseteq g.cpu.hand,
           Protected(k.human), Protected(k.cpu)
    PROVE  Good(k)
  BY DEF Good, SameBook

LEMMA SpentKeeps ==
    ASSUME NEW g, Good(g), NEW c
    PROVE  /\ Good(Spent(g, "human", c)) /\ Good(Spent(g, "cpu", c))
           /\ c \in g.human.hand => LeftCards(Spent(g, "human", c)) = LeftCards(g) \ {c}
           /\ Racing(g) => Racing(Spent(g, "cpu", c))
  <1> DEFINE a == Spent(g, "human", c)
             b == Spent(g, "cpu", c)
  <1>1. g \in GameState /\ g.human \in Player /\ g.cpu \in Player
    BY Fields DEF Good
  <1>2. /\ a \in GameState /\ SameBook(a, g) /\ a.human = Without(g.human, c) /\ a.cpu = g.cpu
        /\ b \in GameState /\ SameBook(b, g) /\ b.cpu = Without(g.cpu, c) /\ b.human = g.human
    BY <1>1, SpentTyped
  <1> HIDE DEF a, b
  <1>3. /\ Protected(a.human) /\ Protected(a.cpu) /\ Protected(b.human) /\ Protected(b.cpu)
        /\ a.human.hand = g.human.hand \ {c} /\ b.cpu.hand = g.cpu.hand \ {c}
        /\ b.cpu.miles = g.cpu.miles
    BY <1>1, <1>2, CardGone DEF Good
  <1>4. Good(a) /\ Good(b)
    BY <1>2, <1>3, StaysGood
  <1>5. c \in g.human.hand => LeftCards(a) = LeftCards(g) \ {c}
    BY <1>2, <1>3 DEF LeftCards, Good, SameBook
  <1>6. Racing(g) => Racing(b)
    BY <1>2, <1>3 DEF Racing
  <1> QED
    BY <1>4, <1>5, <1>6 DEF a, b

\* A card played by one player on the other, as can_play allows it.
LEMMA BothProtected ==
    ASSUME NEW me \in Player, NEW opp \in Player, Protected(me), Protected(opp),
           NEW c \in Card, CanPlay(c, me, opp)
    PROVE  /\ Protected(AfterOwn(c, Without(me, c))) /\ Protected(AfterTheirs(c, opp))
           /\ Face[c].kind = "hazard" /\ Face[c].name \in Breakdown =>
                  AfterTheirs(c, opp).hazard = Face[c].name
  <1>1. Protected(AfterOwn(c, Without(me, c)))
    BY CardGone, OwnCard
  <1>2. CASE Face[c].kind = "hazard"
    <2>1. Face[c].name \in Hazard /\ CanAttack(Face[c].name, opp)
      BY <1>2, Printed DEF CanPlay
    <2> QED
      BY <1>1, <1>2, <2>1, Attacked DEF AfterTheirs
  <1>3. CASE Face[c].kind # "hazard"
    BY <1>1, <1>3 DEF AfterTheirs
  <1> QED
    BY <1>2, <1>3

LEMMA PlayedKeeps ==
    ASSUME NEW g, Good(g), NEW c \in Card
    PROVE  /\ c \in g.human.hand /\ CanPlay(c, g.human, g.cpu) =>
                  /\ Good(Played(g, "human", c))
                  /\ LeftCards(Played(g, "human", c)) = LeftCards(g) \ {c}
           /\ CanPlay(c, g.cpu, g.human) =>
                  /\ Good(Played(g, "cpu", c))
                  /\ Face[c].kind = "hazard" =>
                        /\ Racing(g) => Racing(Played(g, "cpu", c))
                        /\ Face[c].name \in Breakdown =>
                               Played(g, "cpu", c).human.hazard = Face[c].name
  <1> DEFINE a == Played(g, "human", c)
             b == Played(g, "cpu", c)
  <1>1. /\ g \in GameState /\ g.human \in Player /\ g.cpu \in Player
        /\ Protected(g.human) /\ Protected(g.cpu)
    BY Fields DEF Good
  <1>2. /\ a \in GameState /\ SameBook(a, g)
        /\ a.human = AfterOwn(c, Without(g.human, c)) /\ a.cpu = AfterTheirs(c, g.cpu)
        /\ b \in GameState /\ SameBook(b, g)
        /\ b.cpu = AfterOwn(c, Without(g.cpu, c)) /\ b.human = AfterTheirs(c, g.human)
    BY <1>1, PlayedTyped
  <1> HIDE DEF a, b
  <1>3. /\ a.human.hand = g.human.hand \ {c} /\ a.cpu.hand = g.cpu.hand
        /\ b.cpu.hand = g.cpu.hand \ {c} /\ b.human.hand = g.human.hand
        /\ Face[c].kind = "hazard" => b.cpu.miles = g.cpu.miles /\ b.human.miles = g.human.miles
    <2>1. /\ Without(g.human, c) \in Player /\ Without(g.human, c).hand = g.human.hand \ {c}
          /\ Without(g.cpu, c) \in Player /\ Without(g.cpu, c).hand = g.cpu.hand \ {c}
          /\ Without(g.cpu, c).miles = g.cpu.miles
      BY <1>1, CardGone
    <2>2. /\ AfterOwn(c, Without(g.human, c)).hand = Without(g.human, c).hand
          /\ AfterOwn(c, Without(g.cpu, c)).hand = Without(g.cpu, c).hand
          /\ Face[c].kind = "hazard" => AfterOwn(c, Without(g.cpu, c)) = Without(g.cpu, c)
      BY <2>1, CardPlayed
    <2>3. /\ AfterTheirs(c, g.cpu).hand = g.cpu.hand
          /\ AfterTheirs(c, g.human).hand = g.human.hand
          /\ AfterTheirs(c, g.human).miles = g.human.miles
      BY <1>1, CardPlayed
    <2> QED
      BY <1>2, <2>1, <2>2, <2>3
  <1>4. ASSUME c \in g.human.hand, CanPlay(c, g.human, g.cpu)
        PROVE  Good(a) /\ LeftCards(a) = LeftCards(g) \ {c}
    <2>1. Protected(a.human) /\ Protected(a.cpu)
      BY <1>1, <1>2, <1>4, BothProtected
    <2>2. Good(a)
      BY <1>2, <1>3, <2>1, StaysGood
    <2>3. LeftCards(a) = LeftCards(g) \ {c}
      BY <1>2, <1>3, <1>4 DEF LeftCards, Good, SameBook
    <2> QED
      BY <2>2, <2>3
  <1>5. ASSUME CanPlay(c, g.cpu, g.human)
        PROVE  /\ Good(b)
               /\ Face[c].kind = "hazard" =>
                     /\ Racing(g) => Racing(b)
                     /\ Face[c].name \in Breakdown => b.human.hazard = Face[c].name
    <2>1. /\ Protected(b.human) /\ Protected(b.cpu)
          /\ Face[c].kind = "hazard" /\ Face[c].name \in Breakdown =>
                 b.human.hazard = Face[c].name
      BY <1>1, <1>2, <1>5, BothProtected
    <2>2. Good(b)
      BY <1>2, <1>3, <2>1, StaysGood
    <2>3. Face[c].kind = "hazard" => (Racing(g) => Racing(b))
      BY <1>3 DEF Racing
    <2> QED
      BY <2>1, <2>2, <2>3
  <1> QED
    BY <1>4, <1>5 DEF a, b

-----------------------------------------------------------------------------
(* The computer's choice *)

\* The computer chooses a card of its hand, and plays only what it may.
LEMMA Chosen ==
    ASSUME NEW me, NEW opp, NEW ch \in Choices(me, opp)
    PROVE  /\ ch[1] \in me.hand /\ ch[2] \in BOOLEAN
           /\ ch[2] => CanPlay(ch[1], me, opp)
  <1> DEFINE pref == Preference(me, opp)
             hits == {i \in DOMAIN pref : pref[i] # {}}
             best == CHOOSE i \in hits : \A j \in hits : i <= j
             playable == {c \in me.hand : CanPlay(c, me, opp)}
  <1>1. CASE hits = {}
    <2>1. ch \in WorstCards(me, opp) \X {FALSE}
      BY <1>1 DEF Choices
    <2> QED
      BY <2>1 DEF WorstCards
  <1>2. CASE hits # {}
    <2>1. ch \in pref[best] \X {TRUE}
      BY <1>2 DEF Choices
    <2>2. DOMAIN pref = 1..6 /\ \A i \in 1..6 : pref[i] \subseteq playable
      <3>1. DOMAIN pref = 1..6
        BY DEF Preference
      <3>2. /\ pref[1] \subseteq playable /\ pref[2] \subseteq playable
            /\ pref[3] \subseteq playable /\ pref[4] \subseteq playable
            /\ pref[5] \subseteq playable /\ pref[6] \subseteq playable
        BY DEF Preference
      <3> HIDE DEF pref, playable
      <3> QED
        BY <3>1, <3>2
    <2> HIDE DEF pref
    <2>3. \E i \in hits : \A j \in hits : i <= j
      BY <1>2, <2>2
    <2>4. best \in hits
      BY <2>3
    <2>5. pref[best] \subseteq playable
      BY <2>2, <2>4
    <2> QED
      BY <2>1, <2>5
  <1> QED
    BY <1>1, <1>2

\* The game once the computer has put down its card
Carded(g, ch) == IF ch[2] THEN Played(g, "cpu", ch[1]) ELSE Spent(g, "cpu", ch[1])

\* The card is a hazard that the human can answer.
Asks(g, ch) ==
    /\ ch[2] /\ Face[ch[1]].kind = "hazard"
    /\ Holds(g.human, SAFETY_FOR[Face[ch[1]].name])

LEMMA CardedTyped ==
    ASSUME NEW g \in GameState, NEW ch \in Choices(g.cpu, g.human)
    PROVE  /\ Carded(g, ch) \in GameState /\ SameBook(Carded(g, ch), g)
           /\ Carded(g, ch).human.hand = g.human.hand
           /\ ch[1] \in Card /\ ch[1] \in g.cpu.hand
           /\ Carded(g, ch).cpu.hand = g.cpu.hand \ {ch[1]}
  <1>1. /\ ch[1] \in g.cpu.hand /\ ch[2] \in BOOLEAN /\ ch[1] \in Card
        /\ g.cpu \in Player /\ g.human \in Player
    BY Chosen, Fields
  <1>2. CASE ch[2]
    BY <1>1, <1>2, PlayedTyped, CardPlayed, CardGone DEF Carded
  <1>3. CASE ~ch[2]
    BY <1>1, <1>3, SpentTyped, CardGone DEF Carded
  <1> QED
    BY <1>2, <1>3

LEMMA MovedIs ==
    ASSUME NEW g, NEW ch
    PROVE  CpuMoved(g, ch) =
               IF Asks(g, ch)
               THEN [Carded(g, ch) EXCEPT !.coup_fourre_pending = Face[ch[1]].name]
               ELSE Checked(Carded(g, ch))
  BY DEF CpuMoved, Asks, Carded

\* A move of the computer is a game whose computer has a card less, and asks
\* the human a question only with a card in the human's hand.
LEMMA MovedTyped ==
    ASSUME NEW g \in GameState, NEW k \in CpuMoves(g)
    PROVE  /\ k \in GameState /\ k.deck = g.deck
           /\ k.score_saved = g.score_saved /\ k.rows = g.rows
           /\ k.human.hand = g.human.hand
           /\ \E c \in g.cpu.hand : k.cpu.hand = g.cpu.hand \ {c}
           /\ g.winner # None => k.winner # None
           /\ g.human.hand = {} => k.coup_fourre_pending = g.coup_fourre_pending
  <1>1. PICK ch \in Choices(g.cpu, g.human) : k = CpuMoved(g, ch)
    BY DEF CpuMoves
  <1> DEFINE h == Carded(g, ch)
  <1>2. /\ h \in GameState /\ SameBook(h, g) /\ h.human.hand = g.human.hand
        /\ ch[1] \in Card /\ ch[1] \in g.cpu.hand /\ h.cpu.hand = g.cpu.hand \ {ch[1]}
    BY CardedTyped
  <1>3. k = IF Asks(g, ch) THEN [h EXCEPT !.coup_fourre_pending = Face[ch[1]].name]
            ELSE Checked(h)
    BY <1>1, MovedIs
  <1> HIDE DEF h
  <1>4. CASE Asks(g, ch)
    <2>1. Face[ch[1]].name \in Hazard /\ g.human.hand # {}
      BY <1>2, <1>4, Printed DEF Asks, Holds
    <2>2. /\ k \in GameState /\ k.human = h.human /\ k.cpu = h.cpu /\ k.deck = h.deck
          /\ k.winner = h.winner /\ k.score_saved = h.score_saved /\ k.rows = h.rows
      BY <1>2, <1>3, <1>4, <2>1 DEF GameState
    <2> QED
      BY <1>2, <2>1, <2>2 DEF SameBook
  <1>5. CASE ~Asks(g, ch)
    <2>1. PICK w \in Side \cup {None} :
              k = [h EXCEPT !.winner = w] /\ (h.winner # None => w # None)
      BY <1>2, <1>3, <1>5, CheckedOnly
    <2>2. /\ k \in GameState /\ k.human = h.human /\ k.cpu = h.cpu /\ k.deck = h.deck
          /\ k.winner = w /\ k.score_saved = h.score_saved /\ k.rows = h.rows
          /\ k.coup_fourre_pending = h.coup_fourre_pending
      BY <1>2, <2>1 DEF GameState
    <2> QED
      BY <1>2, <2>1, <2>2 DEF SameBook
  <1> QED
    BY <1>4, <1>5

\* The computer's move leaves a good game good, and a race on which nobody is
\* asked anything settled.
LEMMA MovedKeeps ==
    ASSUME NEW g, Good(g), NEW k \in CpuMoves(g)
    PROVE  /\ Good(k)
           /\ g.winner = None /\ Racing(g) /\ g.coup_fourre_pending = None => Settled(k)
  <1>0. g \in GameState
    BY DEF Good
  <1>1. PICK ch \in Choices(g.cpu, g.human) : k = CpuMoved(g, ch)
    BY DEF CpuMoves
  <1> DEFINE h == Carded(g, ch)
             n == Face[ch[1]].name
  <1>2. /\ h \in GameState /\ SameBook(h, g) /\ h.human.hand = g.human.hand
        /\ ch[1] \in Card
    BY <1>0, CardedTyped
  <1>3. ch[2] \in BOOLEAN /\ (ch[2] => CanPlay(ch[1], g.cpu, g.human))
    BY Chosen
  <1>4. Good(h)
    BY <1>2, <1>3, PlayedKeeps, SpentKeeps DEF Carded
  <1>5. k = IF Asks(g, ch) THEN [h EXCEPT !.coup_fourre_pending = n] ELSE Checked(h)
    BY <1>1, MovedIs
  <1>6. CASE Asks(g, ch)
    <2>1. n \in Hazard /\ ch[2] /\ Face[ch[1]].kind = "hazard" /\ Holds(g.human, SAFETY_FOR[n])
      BY <1>2, <1>6, Printed DEF Asks
    <2>2. /\ Racing(g) => Racing(h)
          /\ n \in Breakdown => h.human.hazard = n
      BY <1>2, <1>3, <2>1, PlayedKeeps DEF Carded
    <2> HIDE DEF h, n
    <2>3. /\ k \in GameState /\ k.human = h.human /\ k.cpu = h.cpu /\ k.deck = h.deck
          /\ k.winner = h.winner /\ k.score_saved = h.score_saved /\ k.rows = h.rows
          /\ k.coup_fourre_pending = n
      BY <1>2, <1>5, <1>6, <2>1 DEF GameState
    <2>4. Good(k)
      BY <1>4, <2>3 DEF Good
    <2>5. g.winner = None => Asked(k, n)
      BY <1>2, <2>1, <2>2, <2>3 DEF Asked, SameBook, Holds
    <2> QED
      BY <2>2, <2>3, <2>4, <2>5 DEF Settled, Racing
  <1>7. CASE ~Asks(g, ch)
    <2> HIDE DEF h, n
    <2> DEFINE m == Checked(h)
    <2>1. /\ Good(m) /\ m.human = h.human /\ m.cpu = h.cpu
          /\ m.coup_fourre_pending = h.coup_fourre_pending
          /\ m.winner = None => Racing(h)
      BY <1>4, CheckedKeeps
    <2> HIDE DEF m
    <2>2. k = m
      BY <1>5, <1>7 DEF m
    <2> QED
      BY <1>2, <2>1, <2>2 DEF Settled, Racing, SameBook
  <1> QED
    BY <1>6, <1>7

-----------------------------------------------------------------------------
(* A hand played out *)

LEMMA Smallest ==
    ASSUME NEW S \in SUBSET Nat, S # {}
    PROVE  \E n \in S : \A k \in S : n <= k
  <1>1. PICK n \in S : \A k \in S : ~(<<k, n>> \in OpToRel(<, Nat))
    BY NatLessThanWellFounded, WFMin
  <1>2. \A k \in S : ~(k < n)
    BY <1>1 DEF OpToRel
  <1> QED
    BY <1>2

\* The computer plays nothing further.
Rests(g) == g.winner # None \/ g.human.hand # {} \/ g.deck # {} \/ g.cpu.hand = {}

\* The games whose computer has at most n cards
Short(n) == {g \in GameState : Cardinality(g.cpu.hand) <= n}

\* What PlayedOut says of one game, with p for what it says of the next ones
Onward(p, g) == IF Rests(g) THEN {g} ELSE UNION {p[h] : h \in CpuMoves(g)}

Unfolds(p, D) == p = [g \in D |-> Onward(p, g)]

LEMMA HandCounted ==
    ASSUME NEW g \in GameState
    PROVE  /\ Cardinality(g.cpu.hand) \in Nat /\ Cardinality(g.cpu.hand) <= Cardinality(Card)
           /\ Cardinality(Card) \in Nat
           /\ Cardinality(g.cpu.hand) = 0 => g.cpu.hand = {}
           /\ \A c \in g.cpu.hand :
                 Cardinality(g.cpu.hand \ {c}) = Cardinality(g.cpu.hand) - 1
  <1>1. g.cpu.hand \in SUBSET Card /\ Card \in SUBSET Card
    BY Fields
  <1>2. IsFiniteSet(g.cpu.hand)
    BY <1>1, FS_Subset
  <1>3. Cardinality(g.cpu.hand) = 0 => g.cpu.hand = {}
    BY <1>2, FS_EmptySet
  <1> QED
    BY <1>1, <1>3, Counted

LEMMA MovesShorten ==
    ASSUME NEW n \in Nat, NEW g \in Short(n), NEW h \in CpuMoves(g)
    PROVE  h \in GameState /\ Cardinality(h.cpu.hand) < Cardinality(g.cpu.hand)
           /\ n # 0 /\ h \in Short(n) /\ h \in Short(n - 1)
  <1>1. g \in GameState /\ Cardinality(g.cpu.hand) <= n
    BY DEF Short
  <1>2. h \in GameState /\ \E c \in g.cpu.hand : h.cpu.hand = g.cpu.hand \ {c}
    BY <1>1, MovedTyped
  <1>3. /\ Cardinality(h.cpu.hand) = Cardinality(g.cpu.hand) - 1
        /\ Cardinality(g.cpu.hand) \in Nat /\ Cardinality(h.cpu.hand) \in Nat
    BY <1>1, <1>2, HandCounted
  <1> DEFINE a == Cardinality(g.cpu.hand)
             b == Cardinality(h.cpu.hand)
  <1>4. a \in Nat /\ b \in Nat /\ a <= n /\ b = a - 1
    BY <1>1, <1>3
  <1> HIDE DEF a, b
  <1>5. b < a /\ n # 0 /\ b <= n /\ b <= n - 1
    BY <1>4
  <1> QED
    BY <1>2, <1>5 DEF Short, a, b

LEMMA UnfoldingExists ==
    ASSUME NEW n \in Nat
    PROVE  \E p : Unfolds(p, Short(n))
  <1> DEFINE Bad == {i \in Nat : ~\E p : Unfolds(p, Short(i))}
  <1>1. SUFFICES ASSUME Bad # {} PROVE FALSE
    OBVIOUS
  <1>2. PICK m \in Bad : \A k \in Bad : m <= k
    BY <1>1, Smallest
  <1>3. m # 0
    <2> DEFINE p == [g \in Short(0) |-> {g}]
    <2>1. \A g \in Short(0) : Onward(p, g) = {g}
      <3> TAKE g \in Short(0)
      <3>1. g \in GameState /\ Cardinality(g.cpu.hand) <= 0
        BY DEF Short
      <3>2. Rests(g)
        BY <3>1, HandCounted DEF Rests
      <3> QED
        BY <3>2 DEF Onward
    <2>2. Unfolds(p, Short(0))
      BY <2>1 DEF Unfolds
    <2> QED
      BY <2>2
  <1>4. m - 1 \in Nat /\ m - 1 \notin Bad
    BY <1>2, <1>3
  <1>5. PICK p : Unfolds(p, Short(m - 1))
    BY <1>4
  <1> DEFINE q == [g \in Short(m) |-> Onward(p, g)]
  <1>6. \A g \in Short(m) : Onward(p, g) = Onward(q, g)
    <2> TAKE g \in Short(m)
    <2>1. \A h \in CpuMoves(g) : h \in Short(m) /\ h \in Short(m - 1)
      BY <1>4, MovesShorten
    <2>2. \A h \in Short(m - 1) : p[h] = Onward(p, h)
      BY <1>5 DEF Unfolds
    <2>3. \A h \in Short(m) : q[h] = Onward(p, h)
      OBVIOUS
    <2>4. \A h \in CpuMoves(g) : q[h] = p[h]
      BY <2>1, <2>2, <2>3
    <2> HIDE DEF q
    <2>5. {p[h] : h \in CpuMoves(g)} = {q[h] : h \in CpuMoves(g)}
      BY <2>4
    <2> QED
      BY <2>5 DEF Onward
  <1>7. Unfolds(q, Short(m))
    BY <1>6 DEF Unfolds
  <1> QED
    BY <1>7

\* PlayedOut is what its recursive definition says.
LEMMA PlayedOutIs ==
    ASSUME NEW g \in GameState
    PROVE  /\ Rests(g) => PlayedOut[g] = {g}
           /\ ~Rests(g) => PlayedOut[g] = UNION {PlayedOut[h] : h \in CpuMoves(g)}
  <1>1. GameState = Short(Cardinality(Card)) /\ Cardinality(Card) \in Nat
    BY HandCounted DEF Short
  <1>2. \E p : Unfolds(p, GameState)
    BY <1>1, UnfoldingExists
  <1>3. PlayedOut = CHOOSE p : Unfolds(p, GameState)
    BY DEF PlayedOut, Unfolds, Onward, Rests
  <1>4. Unfolds(PlayedOut, GameState)
    BY <1>2, <1>3
  <1>5. PlayedOut[g] = Onward(PlayedOut, g)
    BY <1>4 DEF Unfolds
  <1> QED
    BY <1>5 DEF Onward

\* A game without a card for the human is one that ends when it is played out.
Finishes(g) ==
    \A k \in PlayedOut[g] :
        /\ Good(k) /\ k.rows = g.rows /\ k.score_saved = g.score_saved
        /\ k.coup_fourre_pending = g.coup_fourre_pending
        /\ Checked(k).winner # None

LEMMA StrandedFinishes ==
    ASSUME NEW g, Good(g), g.human.hand = {}, g.deck = {}
    PROVE  Finishes(g)
  <1> DEFINE Stuck(n) == \E f : /\ Good(f) /\ f.human.hand = {} /\ f.deck = {} /\ ~Finishes(f)
                                /\ Cardinality(f.cpu.hand) = n
             Bad == {n \in Nat : Stuck(n)}
  <1>1. SUFFICES Bad = {}
    <2>1. Cardinality(g.cpu.hand) \in Nat
      BY HandCounted DEF Good
    <2> QED
      BY <2>1
  <1>2. SUFFICES ASSUME Bad # {} PROVE FALSE
    OBVIOUS
  <1>3. PICK m \in Bad : \A k \in Bad : m <= k
    BY <1>2, Smallest
  <1>4. PICK f : /\ Good(f) /\ f.human.hand = {} /\ f.deck = {} /\ ~Finishes(f)
                 /\ Cardinality(f.cpu.hand) = m
    BY <1>3
  <1>5. f \in GameState
    BY <1>4 DEF Good
  <1>6. CASE Rests(f)
    <2>1. PlayedOut[f] = {f}
      BY <1>5, <1>6, PlayedOutIs
    <2>2. Checked(f).winner # None
      BY <1>4, <1>6, CheckedKeeps DEF Rests
    <2> QED
      BY <1>4, <2>1, <2>2 DEF Finishes
  <1>7. CASE ~Rests(f)
    <2>1. PlayedOut[f] = UNION {PlayedOut[h] : h \in CpuMoves(f)}
      BY <1>5, <1>7, PlayedOutIs
    <2>2. ASSUME NEW h \in CpuMoves(f)
          PROVE  /\ Finishes(h) /\ h.rows = f.rows /\ h.score_saved = f.score_saved
                 /\ h.coup_fourre_pending = f.coup_fourre_pending
      <3>1. /\ h.human.hand = {} /\ h.deck = {}
            /\ h.rows = f.rows /\ h.score_saved = f.score_saved
            /\ h.coup_fourre_pending = f.coup_fourre_pending
        BY <1>4, <1>5, MovedTyped
      <3>2. Good(h)
        BY <1>4, MovedKeeps
      <3>3. Cardinality(h.cpu.hand) \in Nat /\ Cardinality(h.cpu.hand) < m
        <4>1. m \in Nat /\ f \in Short(m) /\ h \in GameState
          BY <1>4, <1>5, MovedTyped DEF Short
        <4> QED
          BY <1>4, <4>1, MovesShorten, HandCounted
      <3>4. ~Stuck(Cardinality(h.cpu.hand))
        BY <1>3, <3>3
      <3> QED
        BY <3>1, <3>2, <3>4
    <2>3. Finishes(f)
      <3>1. SUFFICES ASSUME NEW k \in PlayedOut[f]
                     PROVE  /\ Good(k) /\ k.rows = f.rows /\ k.score_saved = f.score_saved
                            /\ k.coup_fourre_pending = f.coup_fourre_pending
                            /\ Checked(k).winner # None
        BY DEF Finishes
      <3>2. PICK h \in CpuMoves(f) : k \in PlayedOut[h]
        BY <2>1
      <3> QED
        BY <2>2, <3>2 DEF Finishes
    <2> QED
      BY <1>4, <2>3
  <1> QED
    BY <1>6, <1>7

-----------------------------------------------------------------------------
(* The rest of a request *)

\* A game somebody has won, or that puts a question, is one whose human may be
\* left without a draw.
LEMMA NoDrawNeeded ==
    ASSUME NEW g, Settled(g), g.winner # None \/ g.coup_fourre_pending # None
    PROVE  Fed(g)
  BY DEF Settled, Fed, Asked, Holds

LEMMA HumanDraws ==
    ASSUME NEW g, Settled(g), g.coup_fourre_pending = None, NEW k \in Draws(g, "human")
    PROVE  /\ Settled(k) /\ Fed(k) /\ LeftCards(k) = LeftCards(g)
           /\ k.coup_fourre_pending = None /\ k.rows = g.rows
  BY DrawKeeps DEF Settled, Fed, Side

LEMMA TurnKeeps ==
    ASSUME NEW g, Settled(g), g.coup_fourre_pending = None, NEW k \in CpuTurn(g)
    PROVE  Settled(k) /\ LeftCards(k) \subseteq LeftCards(g) /\ k.rows = g.rows
  <1>1. CASE g.winner # None \/ (g.cpu.hand = {} /\ g.deck = {})
    BY <1>1 DEF CpuTurn
  <1>2. CASE g.winner = None /\ ~(g.cpu.hand = {} /\ g.deck = {})
    <2>1. PICK d \in Draws(g, "cpu") : k \in CpuMoves(d)
      BY <1>2 DEF CpuTurn
    <2>2. /\ Good(d) /\ LeftCards(d) = LeftCards(g) /\ Racing(d) /\ d.winner = None
          /\ d.coup_fourre_pending = None /\ d.rows = g.rows
      BY <1>2, DrawKeeps DEF Settled, Side
    <2>3. Settled(k)
      BY <2>1, <2>2, MovedKeeps
    <2>4. /\ k.deck = d.deck /\ k.human.hand = d.human.hand /\ k.cpu.hand \subseteq d.cpu.hand
          /\ k.rows = d.rows
      BY <2>1, <2>2, MovedTyped DEF Good
    <2> QED
      BY <2>2, <2>3, <2>4 DEF LeftCards
  <1> QED
    BY <1>1, <1>2

LEMMA RestKeeps ==
    ASSUME NEW g, Good(g), g.coup_fourre_pending = None, NEW k \in RestOfTurn(g)
    PROVE  Settled(k) /\ Fed(k) /\ LeftCards(k) \subseteq LeftCards(g) /\ k.rows = g.rows
  <1> DEFINE c == Checked(g)
  <1>1. /\ Settled(c) /\ c.coup_fourre_pending = None
        /\ LeftCards(c) = LeftCards(g) /\ c.rows = g.rows
    BY CheckedKeeps DEF Settled, LeftCards
  <1>2. PICK h \in CpuTurn(c) :
            k \in IF h.winner = None /\ h.coup_fourre_pending = None
                  THEN Draws(h, "human") ELSE {h}
    BY DEF RestOfTurn
  <1> HIDE DEF c
  <1>3. Settled(h) /\ LeftCards(h) \subseteq LeftCards(g) /\ h.rows = g.rows
    BY <1>1, TurnKeeps
  <1>4. CASE h.winner = None /\ h.coup_fourre_pending = None
    BY <1>2, <1>3, <1>4, HumanDraws
  <1>5. CASE h.winner # None \/ h.coup_fourre_pending # None
    BY <1>2, <1>3, <1>5, NoDrawNeeded
  <1> QED
    BY <1>4, <1>5

\* What is left is counted by its cards and the question that is open.
LEMMA LeftIs ==
    ASSUME NEW g \in GameState
    PROVE  /\ LeftCards(g) \subseteq Card
           /\ Cardinality(LeftCards(g)) \in Nat
           /\ LeftOf(g) = 2 * Cardinality(LeftCards(g))
                            + (IF g.coup_fourre_pending = None THEN 0 ELSE 1)
           /\ \A S \in SUBSET LeftCards(g) :
                 Cardinality(S) \in Nat /\ Cardinality(S) <= Cardinality(LeftCards(g))
           /\ \A c \in LeftCards(g) :
                 Cardinality(LeftCards(g) \ {c}) = Cardinality(LeftCards(g)) - 1
  <1>1. LeftCards(g) \in SUBSET Card
    BY Fields DEF LeftCards
  <1>2. LeftOf(g) = 2 * Cardinality(LeftCards(g))
                      + (IF g.coup_fourre_pending = None THEN 0 ELSE 1)
    BY DEF LeftOf, LeftCards
  <1>3. \A c \in LeftCards(g) : LeftCards(g) \ {c} \in SUBSET LeftCards(g)
    OBVIOUS
  <1>4. LeftCards(g) \in SUBSET LeftCards(g)
    OBVIOUS
  <1> QED
    BY <1>1, <1>2, <1>3, <1>4, Counted

\* Two ways to have less left: a card fewer, or a question fewer.
LEMMA CardFewer ==
    ASSUME NEW g \in GameState, NEW k \in GameState, g.coup_fourre_pending = None,
           NEW c \in LeftCards(g), LeftCards(k) \subseteq LeftCards(g) \ {c}
    PROVE  LeftOf(k) < LeftOf(g)
  <1> DEFINE a == Cardinality(LeftCards(g))
             b == Cardinality(LeftCards(k))
             d == Cardinality(LeftCards(g) \ {c})
             q == IF k.coup_fourre_pending = None THEN 0 ELSE 1
  <1>1. a \in Nat /\ d = a - 1 /\ d \in Nat /\ LeftOf(g) = 2 * a
    <2>1. a \in Nat /\ d = a - 1 /\ d \in Nat
      BY LeftIs
    <2>2. LeftOf(g) = 2 * a + 0
      BY LeftIs
    <2> HIDE DEF a, d
    <2> QED
      BY <2>1, <2>2
  <1>2. b \in Nat /\ LeftOf(k) = 2 * b + q /\ q \in 0..1
    BY LeftIs
  <1>3. b <= d
    <2>1. LeftCards(g) \ {c} \in SUBSET Card
      BY LeftIs
    <2> QED
      BY <2>1, Counted
  <1> HIDE DEF a, b, d, q
  <1> QED
    BY <1>1, <1>2, <1>3

LEMMA QuestionFewer ==
    ASSUME NEW g \in GameState, NEW k \in GameState, g.coup_fourre_pending # None,
           k.coup_fourre_pending = None, LeftCards(k) \subseteq LeftCards(g)
    PROVE  LeftOf(k) < LeftOf(g)
  <1> DEFINE a == Cardinality(LeftCards(g))
             b == Cardinality(LeftCards(k))
  <1>1. a \in Nat /\ b \in Nat /\ b <= a
    BY LeftIs
  <1>2. LeftOf(g) = 2 * a + 1 /\ LeftOf(k) = 2 * b + 0
    BY LeftIs
  <1> HIDE DEF a, b
  <1> QED
    BY <1>1, <1>2

-----------------------------------------------------------------------------
(* The routes *)

Spends == game'.rows = game.rows => LeftOf(game') < LeftOf(game)

LEMMA PlaysKeeps ==
    ASSUME CpuInv, NEW c \in Card, HumanPlays(c)
    PROVE  CpuInv' /\ Spends
  <1> DEFINE h == Played(game, "human", c)
             n == Face[c].name
             coup == Face[c].kind = "hazard" /\ Holds(game.cpu, SAFETY_FOR[n])
             f == [h EXCEPT !.cpu = CoupFourre(@, n)]
             g == IF coup THEN f ELSE h
  <1>1. /\ game.coup_fourre_pending = None /\ c \in game.human.hand
        /\ CanPlay(c, game.human, game.cpu) /\ game' \in RestOfTurn(g)
    BY DEF HumanPlays, HumanMayMove
  <1>2. Good(game) /\ game \in GameState /\ c \in LeftCards(game)
    BY <1>1 DEF CpuInv, Settled, Good, LeftCards
  <1>3. /\ Good(h) /\ LeftCards(h) = LeftCards(game) \ {c} /\ h \in GameState
        /\ h.coup_fourre_pending = None /\ h.rows = game.rows
    BY <1>1, <1>2, PlayedKeeps, PlayedTyped DEF SameBook
  <1> HIDE DEF h
  <1>4. ASSUME coup
        PROVE  /\ Good(f) /\ f.coup_fourre_pending = None /\ f.rows = game.rows
               /\ LeftCards(f) \subseteq LeftCards(h)
    <2>1. n \in Hazard /\ h.cpu \in Player /\ Protected(h.cpu) /\ Protected(h.human)
      BY <1>3, <1>4, Printed, Fields DEF Good
    <2> DEFINE p == CoupFourre(h.cpu, n)
    <2>2. p \in Player /\ Protected(p) /\ p.hand \subseteq h.cpu.hand
      BY <2>1, CoupTaken
    <2>3. f = [h EXCEPT !.cpu = p]
      OBVIOUS
    <2> HIDE DEF f, p
    <2>4. f \in GameState /\ f.cpu = p /\ f.human = h.human /\ SameBook(f, h)
      BY <1>3, <2>2, <2>3, OneSeated
    <2>5. Good(f)
      BY <1>3, <2>1, <2>2, <2>4, StaysGood
    <2> QED
      BY <1>3, <2>2, <2>4, <2>5 DEF LeftCards, SameBook
  <1>5. /\ Good(g) /\ g.coup_fourre_pending = None /\ g.rows = game.rows
        /\ LeftCards(g) \subseteq LeftCards(game) \ {c}
    BY <1>3, <1>4
  <1> HIDE DEF g
  <1>6. /\ Settled(game') /\ Fed(game') /\ LeftCards(game') \subseteq LeftCards(game) \ {c}
    BY <1>1, <1>5, RestKeeps
  <1>7. CpuInv'
    BY <1>6 DEF CpuInv, Settled, Fed, Good, Protected, RightOfWay, Racing, Asked, Holds, IsSafety
  <1>8. game' \in GameState
    BY <1>6 DEF Settled, Good
  <1>9. LeftOf(game') < LeftOf(game)
    BY <1>1, <1>2, <1>6, <1>8, CardFewer
  <1> QED
    BY <1>7, <1>9 DEF Spends

LEMMA DiscardsKeeps ==
    ASSUME CpuInv, NEW c \in Card, HumanDiscards(c)
    PROVE  CpuInv' /\ Spends
  <1> DEFINE h == Spent(game, "human", c)
  <1>1. game.coup_fourre_pending = None /\ c \in game.human.hand /\ game' \in RestOfTurn(h)
    BY DEF HumanDiscards, HumanMayMove
  <1>2. Good(game) /\ game \in GameState /\ c \in LeftCards(game)
    BY <1>1 DEF CpuInv, Settled, Good, LeftCards
  <1>3. /\ Good(h) /\ LeftCards(h) = LeftCards(game) \ {c}
        /\ h.coup_fourre_pending = None /\ h.rows = game.rows
    BY <1>1, <1>2, SpentKeeps, SpentTyped DEF SameBook
  <1> HIDE DEF h
  <1>4. /\ Settled(game') /\ Fed(game') /\ LeftCards(game') \subseteq LeftCards(game) \ {c}
    BY <1>1, <1>3, RestKeeps
  <1>5. CpuInv'
    BY <1>4 DEF CpuInv, Settled, Fed, Good, Protected, RightOfWay, Racing, Asked, Holds, IsSafety
  <1>6. game' \in GameState
    BY <1>4 DEF Settled, Good
  <1>7. LeftOf(game') < LeftOf(game)
    BY <1>1, <1>2, <1>4, <1>6, CardFewer
  <1> QED
    BY <1>5, <1>7 DEF Spends

LEMMA AnswersKeeps ==
    ASSUME CpuInv, NEW accept \in BOOLEAN, HumanAnswers(accept)
    PROVE  CpuInv' /\ Spends
  <1> DEFINE n == game.coup_fourre_pending
             p == IF accept THEN CoupFourre(game.human, n) ELSE game.human
             h == [game EXCEPT !.coup_fourre_pending = None, !.human = p]
             g == Checked(h)
  <1>1. n # None /\ game' \in IF g.winner = None THEN Draws(g, "human") ELSE {g}
    BY DEF HumanAnswers
  <1>2. Good(game) /\ game \in GameState /\ n \in Hazard
    BY <1>1, Fields DEF CpuInv, Settled, Good
  <1>3. /\ game.human \in Player /\ Protected(game.human) /\ Protected(game.cpu)
    BY <1>2, Fields DEF Good
  <1>4. p \in Player /\ Protected(p) /\ p.hand \subseteq game.human.hand
    BY <1>2, <1>3, CoupTaken
  <1> HIDE DEF n, p
  <1>5. /\ h \in GameState /\ h.human = p /\ h.cpu = game.cpu /\ h.deck = game.deck
        /\ h.coup_fourre_pending = None /\ h.winner = game.winner
        /\ h.score_saved = game.score_saved /\ h.rows = game.rows
    BY <1>2, <1>4 DEF GameState
  <1> HIDE DEF h
  <1>6. Good(h) /\ LeftCards(h) \subseteq LeftCards(game)
    BY <1>2, <1>3, <1>4, <1>5 DEF Good, LeftCards
  <1>7. /\ Settled(g) /\ g.coup_fourre_pending = None
        /\ LeftCards(g) \subseteq LeftCards(game)
    BY <1>5, <1>6, CheckedKeeps DEF Settled, LeftCards
  <1> HIDE DEF g
  <1>8. /\ Settled(game') /\ Fed(game') /\ LeftCards(game') \subseteq LeftCards(game)
        /\ game'.coup_fourre_pending = None
    <2>1. CASE g.winner = None
      BY <1>1, <1>7, <2>1, HumanDraws
    <2>2. CASE g.winner # None
      BY <1>1, <1>7, <2>2, NoDrawNeeded
    <2> QED
      BY <2>1, <2>2
  <1>9. CpuInv'
    BY <1>8 DEF CpuInv, Settled, Fed, Good, Protected, RightOfWay, Racing, Asked, Holds, IsSafety
  <1>10. game' \in GameState
    BY <1>8 DEF Settled, Good
  <1>11. LeftOf(game') < LeftOf(game)
    BY <1>1, <1>2, <1>8, <1>10, QuestionFewer DEF n
  <1> QED
    BY <1>9, <1>11 DEF Spends

LEMMA StillOn ==
    ASSUME NEW g \in GameState, Racing(g), g.human.hand # {}
    PROVE  Checked(g) = g
  <1>1. ~(g.human.miles >= Goal) /\ ~(g.cpu.miles >= Goal)
    BY Fields DEF Racing
  <1> QED
    BY <1>1 DEF Checked

\* A page leaves the game as it is, or stores the score of one that is over.
LEMMA PageKeeps ==
    ASSUME CpuInv, Page
    PROVE  CpuInv' /\ (UNCHANGED cpuVars \/ game'.rows # game.rows)
  <1>1. Good(game) /\ Settled(game) /\ Fed(game) /\ game \in GameState
    BY DEF CpuInv, Settled, Good
  <1>2. PICK h \in PlayedOut[game] :
            /\ ~(Checked(h).winner # None /\ Checked(h).score_saved)
            /\ game' = IF Checked(h).winner = None THEN Checked(h)
                       ELSE [Checked(h) EXCEPT !.score_saved = TRUE, !.rows = @ + 1]
    BY DEF Page
  <1> DEFINE g == Checked(h)
  <1>3. /\ Good(h) /\ h.rows = game.rows
        /\ h = game \/ (g.winner # None /\ h.coup_fourre_pending = game.coup_fourre_pending
                          /\ game.human.hand = {})
    <2>1. CASE Rests(game)
      BY <1>1, <1>2, <2>1, PlayedOutIs
    <2>2. CASE ~Rests(game)
      <3>1. game.human.hand = {} /\ game.deck = {}
        BY <2>2 DEF Rests
      <3>2. Finishes(game)
        BY <1>1, <3>1, StrandedFinishes
      <3> QED
        BY <1>2, <3>1, <3>2 DEF Finishes
    <2> QED
      BY <2>1, <2>2
  <1>4. /\ Good(g) /\ g.coup_fourre_pending = h.coup_fourre_pending /\ g.rows = h.rows
        /\ g.winner = None => g = h
    BY <1>3, CheckedKeeps
  <1>5. CASE g.winner = None
    <2>1. game' = game
      BY <1>2, <1>3, <1>4, <1>5
    <2> QED
      BY <2>1 DEF CpuInv, Settled, Fed, Good, Protected, RightOfWay, Racing, Asked, Holds,
                  IsSafety, cpuVars
  <1>6. CASE g.winner # None
    <2>1. game.coup_fourre_pending = None
      <3>1. SUFFICES ASSUME game.coup_fourre_pending # None PROVE FALSE
        OBVIOUS
      <3>2. game.winner = None /\ game.human.hand # {} /\ Racing(game)
        BY <1>1, <3>1 DEF Settled, Asked, Holds
      <3> QED
        BY <1>1, <1>3, <1>6, <3>2, StillOn
    <2>2. g \in GameState /\ g.score_saved \in BOOLEAN /\ ~g.score_saved /\ g.rows = 0
      BY <1>2, <1>4, <1>6, Fields DEF Good
    <2>3. g.coup_fourre_pending = None
      BY <1>3, <1>4, <2>1
    <2>4. game' = [g EXCEPT !.score_saved = TRUE, !.rows = 1]
      <3>1. game' = [g EXCEPT !.score_saved = TRUE, !.rows = g.rows + 1]
        BY <1>2, <1>6
      <3>2. g.rows + 1 = 1
        BY <2>2
      <3> HIDE DEF g
      <3> QED
        BY <3>1, <3>2
    <2> HIDE DEF g
    <2>5. /\ game' \in GameState /\ game'.human = g.human /\ game'.cpu = g.cpu
          /\ game'.deck = g.deck /\ game'.winner = g.winner
          /\ game'.coup_fourre_pending = None
          /\ game'.score_saved = TRUE /\ game'.rows = 1
      <3>0. PICK one \in 0..1 : one = 1
        OBVIOUS
      <3>1. PICK yes \in BOOLEAN : yes = TRUE
        OBVIOUS
      <3>2. game' = [g EXCEPT !.score_saved = yes, !.rows = one]
        BY <2>4, <3>0, <3>1
      <3>3. /\ game' \in GameState /\ game'.human = g.human /\ game'.cpu = g.cpu
            /\ game'.deck = g.deck /\ game'.winner = g.winner
            /\ game'.coup_fourre_pending = g.coup_fourre_pending
            /\ game'.score_saved = yes /\ game'.rows = one
        BY <2>2, <3>2 DEF GameState
      <3> QED
        BY <2>3, <3>0, <3>1, <3>3
    <2>6. Good(game')
      BY <1>4, <2>5 DEF Good
    <2>7. Settled(game') /\ Fed(game')
      BY <1>6, <2>5, <2>6 DEF Settled, Fed
    <2>8. CpuInv'
      BY <2>7 DEF CpuInv, Settled, Fed, Good, Protected, RightOfWay, Racing, Asked, Holds, IsSafety
    <2> QED
      BY <1>3, <1>4, <2>2, <2>5, <2>8
  <1> QED
    BY <1>5, <1>6

LEMMA CpuNextKeeps == CpuInv /\ [CpuNext]_cpuVars => CpuInv'
  <1> SUFFICES ASSUME CpuInv, [CpuNext]_cpuVars PROVE CpuInv'
    OBVIOUS
  <1>1. ASSUME NEW c \in Card, HumanPlays(c) PROVE CpuInv'
    BY <1>1, PlaysKeeps
  <1>2. ASSUME NEW c \in Card, HumanDiscards(c) PROVE CpuInv'
    BY <1>2, DiscardsKeeps
  <1>3. ASSUME NEW accept \in BOOLEAN, HumanAnswers(accept) PROVE CpuInv'
    BY <1>3, AnswersKeeps
  <1>4. CASE Page
    BY <1>4, PageKeeps
  <1>5. CASE UNCHANGED cpuVars
    BY <1>5 DEF CpuInv, Settled, Fed, Good, Protected, RightOfWay, Racing, Asked, Holds,
                IsSafety, cpuVars
  <1> QED
    BY <1>1, <1>2, <1>3, <1>4, <1>5 DEF CpuNext, Dropped

LEMMA CpuInitKeeps == CpuInit => CpuInv
  <1> SUFFICES ASSUME CpuInit PROVE CpuInv
    OBVIOUS
  <1>1. PICK h \in Deals(Card, HandSize + 1) : \E c \in Deals(Card \ h, HandSize) : game = Dealt(h, c)
    BY DEF CpuInit, NewGames
  <1>2. PICK c \in Deals(Card \ h, HandSize) : game = Dealt(h, c)
    BY <1>1
  <1>3. h \subseteq Card /\ c \subseteq Card \ h /\ Cardinality(h) = HandSize + 1
    BY DEF Deals
  <1>4. h # {}
    <2>1. HandSize + 1 # 0
      OBVIOUS
    <2> QED
      BY <1>3, <2>1, FS_EmptySet
  <1>5. \A x \in SUBSET Card : /\ NewPlayer(x) \in Player /\ NewPlayer(x).hand = x
                               /\ NewPlayer(x).miles = 0 /\ Protected(NewPlayer(x))
    BY DEF NewPlayer, Player, Protected, RightOfWay, None
  <1>6. /\ game.human = NewPlayer(h) /\ game.cpu = NewPlayer(c) /\ game.deck = (Card \ h) \ c
        /\ game.coup_fourre_pending = None /\ game.winner = None /\ game.score_saved = FALSE
        /\ game.rows = 0
    BY <1>2 DEF Dealt
  <1>7. game \in GameState
    BY <1>2, <1>3, <1>5 DEF Dealt, GameState
  <1>8. Good(game)
    BY <1>3, <1>5, <1>6, <1>7 DEF Good
  <1> QED
    BY <1>3, <1>4, <1>5, <1>6, <1>8 DEF CpuInv, Settled, Fed, Racing

LEMMA CpuInvAlways == CpuSpec => []CpuInv
  BY CpuInitKeeps, CpuNextKeeps, PTL DEF CpuSpec

\* In every game against the computer, for any deck with one card of each
\* safety: between two requests no card is in two places, and what the human is
\* asked can be answered.
THEOREM CpuTableSound == CpuSpec => []CpuTableIsSound
  <1>1. CpuInv => CpuTableIsSound
    <2> SUFFICES ASSUME CpuInv PROVE CpuTableIsSound
      OBVIOUS
    <2>1. CpuTypeOK
      BY DEF CpuInv, Settled, Good, CpuTypeOK
    <2>2. CpuCardsApart
      BY DEF CpuInv, Settled, Good, CpuCardsApart, Side
    <2>3. QuestionCanBeAnswered
      BY DEF CpuInv, Settled, Asked, QuestionCanBeAnswered
    <2> QED
      BY <2>1, <2>2, <2>3 DEF CpuTableIsSound
  <1> QED
    BY <1>1, CpuInvAlways, PTL

\* A human who has run out of cards before the end is one for whom the next
\* page view ends the game, however the computer's hand is played out.
THEOREM StrandedGameEnds == CpuSpec => []StrandedGameFinishes
  <1>1. CpuInv => StrandedGameFinishes
    <2> SUFFICES ASSUME CpuInv, game.human.hand = {}, game.winner = None
                 PROVE  \A g \in PlayedOut[game] : Checked(g).winner # None
      BY DEF StrandedGameFinishes
    <2>1. Good(game) /\ game.deck = {}
      BY DEF CpuInv, Settled, Fed
    <2> QED
      BY <2>1, StrandedFinishes DEF Finishes
  <1> QED
    BY <1>1, CpuInvAlways, PTL

\* Every request that changes a game and stores no score leaves less to happen.
THEOREM CpuGameRunsDown == CpuSpec => EveryRequestSpends
  <1>1. CpuInv /\ [CpuNext]_cpuVars => [game'.rows = game.rows => LeftOf(game') < LeftOf(game)]_cpuVars
    <2> SUFFICES ASSUME CpuInv, CpuNext PROVE UNCHANGED cpuVars \/ Spends
      BY DEF Spends
    <2>1. ASSUME NEW c \in Card, HumanPlays(c) PROVE Spends
      BY <2>1, PlaysKeeps
    <2>2. ASSUME NEW c \in Card, HumanDiscards(c) PROVE Spends
      BY <2>2, DiscardsKeeps
    <2>3. ASSUME NEW accept \in BOOLEAN, HumanAnswers(accept) PROVE Spends
      BY <2>3, AnswersKeeps
    <2>4. CASE Page
      BY <2>4, PageKeeps DEF Spends
    <2> QED
      BY <2>1, <2>2, <2>3, <2>4 DEF CpuNext, Dropped
  <1> QED
    BY <1>1, CpuInvAlways, PTL DEF CpuSpec, EveryRequestSpends

=============================================================================
