------------------------------- MODULE MillePvp -------------------------------
(***************************************************************************)
(* One game of Mille Bornes between two users, from new_pvp_game to a      *)
(* winner: lib/mille.py's PvpGameState as the routes of                    *)
(* lib/routes/game_routes.py drive it.  A request that a guard refuses     *)
(* changes nothing but the message shown, so it is a stuttering step here. *)
(* None of the handlers awaits between its guard and its last assignment,  *)
(* so each is one action.  Who is linked to the game, and when it is       *)
(* dropped, is MilleLobby's part.                                          *)
(***************************************************************************)
EXTENDS MilleRules

VARIABLES
    deck,                  \* cards not yet drawn; shuffled, so any may come next
    players,               \* player1 and player2
    current_turn,
    coup_fourre_pending,   \* who may answer the last hazard, or None
    coup_fourre_hazard,
    winner

vars == <<deck, players, current_turn, coup_fourre_pending, coup_fourre_hazard, winner>>

Seat == {"player1", "player2"}
Other(s) == IF s = "player1" THEN "player2" ELSE "player1"

\* new_pvp_game: player1 has the seventh card drawn and the first turn.
Init ==
    /\ \E h1 \in Deals(Card, HandSize + 1) : \E h2 \in Deals(Card \ h1, HandSize) :
          /\ players = [s \in Seat |-> NewPlayer(IF s = "player1" THEN h1 ELSE h2)]
          /\ deck = (Card \ h1) \ h2
    /\ current_turn = "player1"
    /\ coup_fourre_pending = None
    /\ coup_fourre_hazard = None
    /\ winner = None

-----------------------------------------------------------------------------
\* The turn handed over without asking whether there is a card to play.
GiveTurnBlindly(ps, to) ==
    /\ current_turn' = to
    /\ \/ deck = {} /\ players' = ps /\ UNCHANGED deck
       \/ \E c \in deck :
             /\ players' = [ps EXCEPT ![to].hand = @ \cup {c}]
             /\ deck' = deck \ {c}

\* _give_turn: ps are the players as the move has left them.
GiveTurn(ps, to) ==
    \/ /\ deck = {}
       /\ players' = ps
       /\ current_turn' = IF ps[to].hand # {} \/ ps[Other(to)].hand = {}
                          THEN to ELSE Other(to)
       /\ UNCHANGED deck
    \/ \E c \in deck :
          /\ players' = [ps EXCEPT ![to].hand = @ \cup {c}]
          /\ deck' = deck \ {c}
          /\ current_turn' = to

\* _check_pvp_game_over: the seat that has won, or None.
Outcome(ps) ==
    CASE ps["player1"].miles >= Goal -> "player1"
      [] ps["player1"].miles < Goal /\ ps["player2"].miles >= Goal -> "player2"
      [] /\ \A s \in Seat : ps[s].miles < Goal
         /\ deck = {} /\ \A s \in Seat : ps[s].hand = {} ->
            IF Score(ps["player1"], ps["player2"], FALSE)
                 >= Score(ps["player2"], ps["player1"], FALSE)
            THEN "player1" ELSE "player2"
      [] OTHER -> None

Finish(ps) ==
    /\ Outcome(ps) # None
    /\ winner' = Outcome(ps)
    /\ players' = ps
    /\ UNCHANGED <<deck, current_turn, coup_fourre_pending, coup_fourre_hazard>>

OfferCoup(ps, to, h) ==
    /\ Outcome(ps) = None
    /\ Holds(ps[to], SAFETY_FOR[h])
    /\ players' = ps
    /\ coup_fourre_pending' = to
    /\ coup_fourre_hazard' = h
    /\ UNCHANGED <<deck, current_turn, winner>>

PassTurn(ps, to) ==
    /\ Outcome(ps) = None
    /\ GiveTurn(ps, to)
    /\ UNCHANGED <<coup_fourre_pending, coup_fourre_hazard, winner>>

\* The guard mille_pvp_play and mille_pvp_discard share.
MayMove(s) ==
    winner = None /\ current_turn = s /\ coup_fourre_pending = None

\* mille_pvp_play
Play(s, c) ==
    LET opp == Other(s)
        ps == [t \in Seat |->
                 IF t = s THEN AfterOwn(c, [players[s] EXCEPT !.hand = @ \ {c}])
                 ELSE AfterTheirs(c, players[t])]
        offered == Face[c].kind = "hazard" /\ Holds(players[opp], SAFETY_FOR[Face[c].name])
    IN  /\ MayMove(s)
        /\ c \in players[s].hand
        /\ CanPlay(c, players[s], players[opp])
        /\ \/ Finish(ps)
           \/ offered /\ OfferCoup(ps, opp, Face[c].name)
           \/ ~offered /\ PassTurn(ps, opp)

\* The slip of a discard that forgets to take the card out of the hand.
DiscardKept(s, c) ==
    /\ MayMove(s)
    /\ c \in players[s].hand
    /\ PassTurn(players, Other(s))

\* mille_pvp_discard
Discard(s, c) ==
    LET ps == [players EXCEPT ![s].hand = @ \ {c}]
    IN  /\ MayMove(s)
        /\ c \in players[s].hand
        /\ Finish(ps) \/ PassTurn(ps, Other(s))

\* The turn as it went before the comment in mille_pvp_coup was written: a
\* declined coup fourre passed it back to the attacker.
AnswerCoupToAttacker(s, accept) ==
    LET ps == [players EXCEPT ![s] = IF accept THEN CoupFourre(@, coup_fourre_hazard) ELSE @]
    IN  /\ winner = None
        /\ coup_fourre_pending = s
        /\ coup_fourre_pending' = None
        /\ coup_fourre_hazard' = None
        /\ GiveTurn(ps, IF accept THEN s ELSE Other(s))
        /\ UNCHANGED winner

\* mille_pvp_coup.  A game with a winner by then is a forfeited one, which the
\* route no longer finds.  The answer may spend the last card of the game.
AnswerCoup(s, accept) ==
    LET ps == [players EXCEPT ![s] = IF accept THEN CoupFourre(@, coup_fourre_hazard) ELSE @]
    IN  /\ winner = None
        /\ coup_fourre_pending = s
        /\ coup_fourre_pending' = None
        /\ coup_fourre_hazard' = None
        /\ winner' = Outcome(ps)
        /\ IF Outcome(ps) = None
           THEN GiveTurn(ps, s)
           ELSE players' = ps /\ UNCHANGED <<deck, current_turn>>

\* mille_pvp_quit before the end: the opponent has won and the game is dropped,
\* with whatever was pending in it.
Forfeit(s) ==
    /\ winner = None
    /\ winner' = Other(s)
    /\ UNCHANGED <<deck, players, current_turn, coup_fourre_pending, coup_fourre_hazard>>

\* A finished game takes no more moves.
Over == winner # None /\ UNCHANGED vars

Next ==
    \/ \E s \in Seat, c \in Card : Play(s, c) \/ Discard(s, c)
    \/ \E s \in Seat, accept \in BOOLEAN : AnswerCoup(s, accept)
    \/ \E s \in Seat : Forfeit(s)
    \/ Over

Spec == Init /\ [][Next]_vars

-----------------------------------------------------------------------------
(* What is claimed of a game *)

\* Every variable holds what PvpGameState says it holds.
TypeOK ==
    /\ deck \subseteq Card
    /\ players \in [Seat -> Player]
    /\ current_turn \in Seat
    /\ coup_fourre_pending \in Seat \cup {None}
    /\ coup_fourre_hazard \in Hazard \cup {None}
    /\ winner \in Seat \cup {None}

\* No card is in two places: a draw takes it from the deck, a play from the
\* hand, and neither hand ever holds what the deck or the other hand holds.
CardsApart ==
    /\ \A s \in Seat : deck \cap players[s].hand = {}
    /\ players["player1"].hand \cap players["player2"].hand = {}

\* The game never stalls: while it goes on and no answer is awaited, the player
\* whose turn it is has a card, and play and discard need one (_give_turn's
\* docstring tells of the stall this avoids).
TurnHolderHasCard ==
    winner = None /\ coup_fourre_pending = None => players[current_turn].hand # {}

\* An offered coup fourre can be taken: the opponent of the player who just
\* moved is the one asked, the hazard is in force on them, and the safety that
\* hand.remove will look for is in their hand.
CoupCanBeAnswered ==
    winner = None /\ coup_fourre_pending # None =>
        /\ coup_fourre_pending = Other(current_turn)
        /\ coup_fourre_hazard \in Hazard
        /\ Holds(players[coup_fourre_pending], SAFETY_FOR[coup_fourre_hazard])
        /\ coup_fourre_hazard \in Breakdown =>
              players[coup_fourre_pending].hazard = coup_fourre_hazard

\* Taking an offered coup fourre undoes the whole hazard (apply_coup_fourre):
\* whatever was played before, the target of a breakdown or a Stop moves again
\* and the target of a Speed Limit is no longer limited.
CoupUndoesHazard ==
    winner = None /\ coup_fourre_pending # None =>
        LET p == CoupFourre(players[coup_fourre_pending], coup_fourre_hazard)
        IN  /\ coup_fourre_hazard # "Speed Limit" => CanMove(p)
            /\ coup_fourre_hazard = "Speed Limit" => ~p.speed_limited

\* A safety on the table keeps its hazards off for good: no player is broken
\* down by, or limited by, a hazard they hold the safety for.
SafetyProtects ==
    \A s \in Seat :
        LET p == players[s]
        IN  /\ p.hazard # None => SAFETY_FOR[p.hazard] \notin p.safeties
            /\ RightOfWay(p) => ~p.speed_limited

\* The table at any moment of a game: no card in two places, no safety played in
\* vain.
TableIsSound == TypeOK /\ CardsApart /\ SafetyProtects

\* A coup fourre that is offered can be taken, and taking it does what the rules
\* say (mille_pvp_coup, apply_coup_fourre).
CoupIsSound == CoupCanBeAnswered /\ CoupUndoesHazard

\* After a move the turn is the opponent's, unless the game is over, an answer
\* is awaited or the opponent has nothing to play; in particular a declined
\* coup fourre does not give the attacker a second turn (the comment in
\* mille_pvp_coup).
TurnPasses ==
    [][current_turn' = current_turn =>
          \/ winner' # None
          \/ coup_fourre_pending' # None
          \/ players'[Other(current_turn)].hand = {}]_vars

\* What is left to happen: a card counts twice while it is in the deck or a
\* hand, an awaited answer once.
Remaining ==
    2 * Cardinality(deck \cup players["player1"].hand \cup players["player2"].hand)
        + (IF coup_fourre_pending = None THEN 0 ELSE 1)

\* No move leaves the game where it was: each spends a card or settles the
\* answer it left open, so with TurnHolderHasCard every game ends if its
\* players go on playing.
EveryMoveSpends == [][winner' = None => Remaining' < Remaining]_vars

=============================================================================
