------------------------------ MODULE MilleLobby ------------------------------
(***************************************************************************)
(* Who plays whom: the invites and the registry of games between users of  *)
(* lib/mille.py, under the routes of lib/routes/game_routes.py. The tables *)
(* live in the memory of one asyncio process, so a handler is atomic up to *)
(* its first await; the two handlers that await are split there:           *)
(* mille_invite around auth.get_user, mille_page around the two calls of   *)
(* save_score.                                                             *)
(*                                                                         *)
(* What happens inside a game is MillePvp's and MilleCpu's part.  Here a   *)
(* game between users is on, over or forfeited, and a game against the     *)
(* computer is there or not.                                               *)
(***************************************************************************)
EXTENDS Naturals, FiniteSets

CONSTANTS
    User,
    Game,        \* the games the model may create; game ids are never reused
    Nobody,        \* no user, no game
    MaxInviting,   \* bound on the invite handlers suspended at once
    MaxChallenges  \* bound on the invites outstanding and being sent

ASSUME NobodyAssumption == Nobody \notin User /\ Nobody \notin Game

VARIABLES
    invites,   \* _invites: whom each user has challenged
    cpu,       \* _games: the users with a game against the computer
    games,     \* every PvpGameState object created so far
    registry,  \* the keys of _pvp_games
    link,      \* _user_pvp
    inviting,  \* the handlers of mille_invite awaiting auth.get_user
    saving,    \* the page handler awaiting save_score, for each game
    posted     \* how often each player's score of a game was inserted

lobbyVars == <<invites, cpu, games, registry, link, inviting, saving, posted>>

Phase == {"unborn", "on", "over", "forfeited"}
Chair == {"player1", "player2"}

Idle == [by |-> Nobody, next |-> "player1"]   \* no handler is saving

PvpGameState ==
    [phase: Phase, player1: User \cup {Nobody}, player2: User \cup {Nobody},
     score_saved: BOOLEAN, seen_game_over: SUBSET User]

Unborn == [phase |-> "unborn", player1 |-> Nobody, player2 |-> Nobody,
           score_saved |-> FALSE, seen_game_over |-> {}]

Players(g) == {games[g].player1, games[g].player2} \ {Nobody}

Linked(g) == {u \in User : link[u] = g}

\* get_pvp_game(u) is not None
InPvp(u) == link[u] # Nobody /\ link[u] \in registry

LobbyInit ==
    /\ invites = [u \in User |-> Nobody]
    /\ cpu = {}
    /\ games = [g \in Game |-> Unborn]
    /\ registry = {}
    /\ link = [u \in User |-> Nobody]
    /\ inviting = {}
    /\ saving = [g \in Game |-> Idle]
    /\ posted = [g \in Game |-> [s \in Chair |-> 0]]

-----------------------------------------------------------------------------
(* Invites *)

\* cancel_invite
Cancel(u) == invites' = [invites EXCEPT ![u] = Nobody]

\* mille_invite up to its await.
Invite(u, v) ==
    /\ u # v
    /\ ~InPvp(u) /\ u \notin cpu
    /\ ~InPvp(v) /\ v \notin cpu
    /\ Cancel(u)
    /\ Cardinality(inviting) < MaxInviting
    /\ Cardinality(inviting) + Cardinality({s \in User : invites'[s] # Nobody}) < MaxChallenges
    /\ inviting' = inviting \cup {<<u, v>>}
    /\ UNCHANGED <<cpu, games, registry, link, saving, posted>>

\* mille_invite after it: nothing it checked is looked at again.  The account
\* may have been deleted meanwhile, and then nothing is sent.
SendInvite(u, v) ==
    /\ <<u, v>> \in inviting
    /\ inviting' = inviting \ {<<u, v>>}
    /\ \/ invites' = [invites EXCEPT ![u] = v]
       \/ UNCHANGED invites
    /\ UNCHANGED <<cpu, games, registry, link, saving, posted>>

\* mille_invite_cancel
CancelInvite(u) ==
    /\ invites[u] # Nobody
    /\ Cancel(u)
    /\ UNCHANGED <<cpu, games, registry, link, inviting, saving, posted>>

\* mille_invite_decline
Decline(u, from) ==
    /\ invites[from] = u
    /\ Cancel(from)
    /\ UNCHANGED <<cpu, games, registry, link, inviting, saving, posted>>

\* new_pvp_game: player1 is the inviter, and the id is a fresh one.
StartPvp(g, p1, p2) ==
    /\ games[g] = Unborn
    /\ games' = [games EXCEPT ![g] = [Unborn EXCEPT !.phase = "on",
                                                    !.player1 = p1, !.player2 = p2]]
    /\ registry' = registry \cup {g}
    /\ link' = [link EXCEPT ![p1] = g, ![p2] = g]

\* The slip of trusting the inviter to be still free.
AcceptUnchecked(u, from) ==
    /\ invites[from] = u
    /\ ~InPvp(u)
    /\ Cancel(from)
    /\ cpu' = cpu \ {u, from}
    /\ \E g \in Game : StartPvp(g, from, u)
    /\ UNCHANGED <<inviting, saving, posted>>

\* mille_invite_accept.  The accepter's own outgoing invite stays.
Accept(u, from) ==
    /\ invites[from] = u
    /\ Cancel(from)
    /\ \/ /\ InPvp(u) \/ InPvp(from)
          /\ UNCHANGED <<cpu, games, registry, link>>
       \/ /\ ~InPvp(u) /\ ~InPvp(from)
          /\ cpu' = cpu \ {u, from}
          /\ \E g \in Game : StartPvp(g, from, u)
    /\ UNCHANGED <<inviting, saving, posted>>

-----------------------------------------------------------------------------
(* Games *)

\* The slip of dealing a game to a user who is in one.
NewCpuAnyway(u) ==
    /\ Cancel(u)
    /\ cpu' = cpu \cup {u}
    /\ UNCHANGED <<games, registry, link, inviting, saving, posted>>

\* mille_new
NewCpu(u) ==
    /\ ~InPvp(u)
    /\ Cancel(u)
    /\ cpu' = cpu \cup {u}
    /\ UNCHANGED <<games, registry, link, inviting, saving, posted>>

\* A move ends a game: play, discard or an answered coup fourre (MillePvp).
GameEnds(u) ==
    /\ InPvp(u)
    /\ games[link[u]].phase = "on"
    /\ games' = [games EXCEPT ![link[u]].phase = "over"]
    /\ UNCHANGED <<invites, cpu, registry, link,
                   inviting, saving, posted>>

\* The slip of unlinking one of the two.
RemoveOneSide(g) ==
    /\ registry' = registry \ {g}
    /\ link' = [link EXCEPT ![games[g].player1] = Nobody]

\* remove_pvp_game
Remove(g) ==
    /\ registry' = registry \ {g}
    /\ link' = [u \in User |-> IF u \in Players(g) THEN Nobody ELSE link[u]]

\* The slip of dropping a finished game with the first player who leaves it.
LeaveTogether(u) == Remove(link[u])

\* leave_pvp_game
Leave(u) ==
    /\ link' = [link EXCEPT ![u] = Nobody]
    /\ registry' = IF Linked(link[u]) = {u} THEN registry \ {link[u]} ELSE registry

\* mille_pvp_quit
Quit(u) ==
    /\ InPvp(u)
    /\ LET g == link[u]
       IN  \/ /\ games[g].phase = "on"
              /\ games' = [games EXCEPT ![g].phase = "forfeited"]
              /\ Remove(g)
           \/ /\ games[g].phase # "on"
              /\ Leave(u)
              /\ UNCHANGED games
    /\ UNCHANGED <<invites, cpu, inviting, saving, posted>>

-----------------------------------------------------------------------------
(* The page *)

\* expire_invites.  An invite's age decides nothing else, so any invite may
\* have passed INVITE_TIMEOUT by the time of a page view.
ExpireInvites ==
    \E old \in SUBSET {s \in User : invites[s] # Nobody} :
        invites' = [s \in User |-> IF s \in old THEN Nobody ELSE invites[s]]

\* The slip of marking the score saved only once it is.
ShowResultUnmarked(u, g) ==
    IF \E s \in Chair : posted[g][s] = 0
    THEN /\ saving' = [saving EXCEPT ![g] = [by |-> u, next |-> "player1"]]
         /\ UNCHANGED games
    ELSE /\ games' = [games EXCEPT ![g].score_saved = TRUE, ![g].seen_game_over = @ \cup {u}]
         /\ UNCHANGED saving

\* The result screen: the first to see it stores the scores, and awaits.
ShowResult(u, g) ==
    IF ~games[g].score_saved
    THEN /\ games' = [games EXCEPT ![g].score_saved = TRUE]
         /\ saving' = [saving EXCEPT ![g] = [by |-> u, next |-> "player1"]]
    ELSE /\ games' = [games EXCEPT ![g].seen_game_over = @ \cup {u}]
         /\ UNCHANGED saving

\* mille_page: a game against the computer is finished, scored and at last
\* dropped by its own page views.
OpensPage(u) ==
    /\ ExpireInvites
    /\ \/ /\ InPvp(u)
          /\ games[link[u]].phase = "over" /\ u \notin games[link[u]].seen_game_over
          /\ ShowResult(u, link[u])
          /\ UNCHANGED <<cpu, registry, link>>
       \/ /\ InPvp(u) /\ games[link[u]].phase = "on"
          /\ UNCHANGED <<cpu, games, registry, link, saving>>
       \/ /\ InPvp(u)
          /\ games[link[u]].phase = "over" /\ u \in games[link[u]].seen_game_over
          /\ Leave(u)
          /\ cpu' \in {cpu, cpu \ {u}}
          /\ UNCHANGED <<games, saving>>
       \/ /\ ~InPvp(u)
          /\ cpu' \in {cpu, cpu \ {u}}
          /\ UNCHANGED <<games, registry, link, saving>>
    /\ UNCHANGED <<inviting, posted>>

\* One save_score of mille_page comes back; the second one ends the handler.
SaveScore(g) ==
    LET by == saving[g].by
        s  == saving[g].next
    IN  /\ by # Nobody
        /\ posted' = [posted EXCEPT ![g][s] = @ + 1]
        /\ IF s = "player1"
           THEN /\ saving' = [saving EXCEPT ![g].next = "player2"]
                /\ UNCHANGED games
           ELSE /\ saving' = [saving EXCEPT ![g] = Idle]
                /\ games' = [games EXCEPT ![g].seen_game_over = @ \cup {by}]
        /\ UNCHANGED <<invites, cpu, registry, link, inviting>>

\* One save_score is refused by its foreign key: the account was deleted
\* (auth.delete_user leaves the tables of this module alone).  The handler
\* ends there, with the score marked saved and the result not marked seen.
SaveFails(g) ==
    /\ saving[g].by # Nobody
    /\ saving' = [saving EXCEPT ![g] = Idle]
    /\ UNCHANGED <<invites, cpu, games, registry, link, inviting, posted>>

LobbyNext ==
    \/ \E u, v \in User : Invite(u, v) \/ SendInvite(u, v) \/ Accept(u, v) \/ Decline(u, v)
    \/ \E u \in User : CancelInvite(u) \/ NewCpu(u) \/ GameEnds(u)
    \/ \E u \in User : Quit(u) \/ OpensPage(u)
    \/ \E g \in Game : SaveScore(g) \/ SaveFails(g)

LobbySpec == LobbyInit /\ [][LobbyNext]_lobbyVars

-----------------------------------------------------------------------------
(* What is claimed of the lobby *)

\* Every table holds what its declaration in lib/mille.py says.
LobbyTypeOK ==
    /\ invites \in [User -> User \cup {Nobody}]
    /\ cpu \subseteq User
    /\ games \in [Game -> PvpGameState]
    /\ registry \subseteq Game
    /\ link \in [User -> Game \cup {Nobody}]
    /\ inviting \subseteq User \X User
    /\ saving \in [Game -> [by: User \cup {Nobody}, next: Chair]]
    /\ posted \in [Game -> [Chair -> Nat]]

\* A user's link leads to a game that is registered and theirs: nobody moves
\* in, watches or quits the game of two others.
LinksAreLive ==
    \A u \in User, g \in Game : link[u] = g => g \in registry /\ u \in Players(g)

\* A game still on has both its players: no sequence of invites, other games,
\* page views and forfeits takes one of them out of it, so remove_pvp_game,
\* which unlinks both without looking, never unlinks anyone from another game.
BothPlayersStay ==
    \A g \in registry : games[g].phase = "on" => Linked(g) = Players(g)

\* No game stays in memory once nobody is linked to it (leave_pvp_game's
\* docstring: drop the game once nobody is left).
NoOrphanGame == \A g \in registry : Linked(g) # {}

\* A user plays against one opponent at a time: with a game between users on
\* or on show, there is no game against the computer behind it, whatever an
\* invite that was being sent meanwhile brings.
OneGameAtATime == \A u \in User : link[u] # Nobody => u \notin cpu

\* Nobody plays themselves (the comment in mille_invite: playing both sides
\* would let one person post whatever score they like).
TwoDifferentPlayers ==
    \A g \in Game : games[g].phase # "unborn" =>
        /\ games[g].player1 # games[g].player2
        /\ Nobody \notin {games[g].player1, games[g].player2}

\* The registry, the links into it and the games agree: links lead to registered
\* games of that user, no game is kept for nobody, no game is against oneself.
LobbyIsSound == LobbyTypeOK /\ LinksAreLive /\ NoOrphanGame /\ TwoDifferentPlayers

\* The score of a game is posted at most once for each player and only for a
\* game that was played out, however many pages race on the result.
PostedOnce(g) ==
    \A s \in Chair :
        /\ posted[g][s] <= 1
        /\ posted[g][s] > 0 => games[g].phase = "over"

ScorePostedOnce == \A g \in Game : PostedOnce(g)

\* A player who returns to the lobby does not take the result screen away from
\* the other (leave_pvp_game's docstring): one step unlinks at most one player
\* from a game that is over.
ResultNotTakenAway ==
    [][\A g \in Game : games[g].phase = "over" =>
          \A u, v \in Linked(g) \ Linked(g)' : u = v]_lobbyVars

=============================================================================
