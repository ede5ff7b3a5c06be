------------------------------- MODULE MilleCpu -------------------------------
(***************************************************************************)
(* A game of Mille Bornes against the computer: GameState of lib/mille.py  *)
(* under the CPU routes of lib/routes/game_routes.py.  One request is one  *)
(* step, because no handler awaits before its last change to the game: the *)
(* human's move, the computer's whole turn and the human's draw happen     *)
(* together, and only a coup fourre left for the human to answer stops     *)
(* them half way.                                                          *)
(***************************************************************************)
EXTENDS MilleRules

VARIABLE game
    \* the GameState, whose coup_fourre_pending is a hazard: only the human is
    \* ever asked.  rows counts the scores it has put in game_scores.

cpuVars == <<game>>

Side == {"human", "cpu"}

GameState ==
    [human: Player, cpu: Player, deck: SUBSET Card,
     coup_fourre_pending: Hazard \cup {None}, winner: Side \cup {None},
     score_saved: BOOLEAN, rows: 0..1]

\* new_game
Dealt(h, c) ==
    [human |-> NewPlayer(h), cpu |-> NewPlayer(c), deck |-> (Card \ h) \ c,
     coup_fourre_pending |-> None, winner |-> None, score_saved |-> FALSE, rows |-> 0]

NewGames ==
    UNION {{Dealt(h, c) : c \in Deals(Card \ h, HandSize)} : h \in Deals(Card, HandSize + 1)}

CpuInit == game \in NewGames

-----------------------------------------------------------------------------
(* The computer's choice *)

\* What a card is worth keeping (the scores in _worst_card).
KeepValue(c, me, opp) ==
    CASE Face[c].kind = "safety"   -> 1000
      [] Face[c].kind = "distance" ->
            IF Face[c].miles = 200 /\ me.count_200 >= 2 THEN 0 ELSE Face[c].miles
      [] Face[c].kind = "remedy"   -> IF CanPlay(c, me, opp) THEN 50 ELSE 10
      [] OTHER                     -> IF CanPlay(c, me, opp) THEN 30 ELSE 0

WorstCards(me, opp) ==
    {c \in me.hand : \A d \in me.hand : KeepValue(c, me, opp) <= KeepValue(d, me, opp)}

\* cpu_choose: the kinds of playable card in the order it looks for them.
Preference(me, opp) ==
    LET playable == {c \in me.hand : CanPlay(c, me, opp)}
        Kind(k)  == {c \in playable : Face[c].kind = k}
        Named(n) == {c \in playable : Face[c].kind = "remedy" /\ Face[c].name = n}
    IN  << Kind("safety"),
           Kind("remedy") \ (Named("Roll") \cup Named("End of Limit")),
           Named("Roll"),
           {c \in Kind("distance") :
               \A d \in Kind("distance") : Face[d].miles <= Face[c].miles},
           Kind("hazard"),
           Named("End of Limit") >>

\* The choices cpu_choose may make, as <<card, is it played>>.
Choices(me, opp) ==
    LET pref == Preference(me, opp)
        hits == {i \in DOMAIN pref : pref[i] # {}}
        best == CHOOSE i \in hits : \A j \in hits : i <= j
    IN  IF hits = {} THEN WorstCards(me, opp) \X {FALSE} ELSE pref[best] \X {TRUE}

-----------------------------------------------------------------------------
(* Steps of a request, as functions on the game *)

\* The slip of ending a game only by its miles.
CheckedMilesOnly(g) ==
    CASE g.human.miles >= Goal -> [g EXCEPT !.winner = "human"]
      [] g.human.miles < Goal /\ g.cpu.miles >= Goal -> [g EXCEPT !.winner = "cpu"]
      [] OTHER -> g

\* _check_game_over
Checked(g) ==
    LET out == g.deck = {} /\ g.human.hand = {} /\ g.cpu.hand = {}
        ahead == Score(g.human, g.cpu, FALSE) >= Score(g.cpu, g.human, FALSE)
    IN  CASE g.human.miles >= Goal -> [g EXCEPT !.winner = "human"]
          [] g.human.miles < Goal /\ g.cpu.miles >= Goal -> [g EXCEPT !.winner = "cpu"]
          [] g.human.miles < Goal /\ g.cpu.miles < Goal /\ out ->
                [g EXCEPT !.winner = IF ahead THEN "human" ELSE "cpu"]
          [] OTHER -> g

\* The slip of a draw that leaves its card in the deck.
DrawsCopying(g, who) ==
    IF g.deck = {} THEN {g} ELSE {[g EXCEPT ![who].hand = @ \cup {c}] : c \in g.deck}

Draws(g, who) ==
    IF g.deck = {} THEN {g}
    ELSE {[g EXCEPT ![who].hand = @ \cup {c}, !.deck = @ \ {c}] : c \in g.deck}

\* The slip of a card that stays in the hand it is played from.
Unspent(g, who, c) == g

Spent(g, who, c) == [g EXCEPT ![who].hand = @ \ {c}]

\* do_play of a card out of who's hand
Played(g, who, c) ==
    LET opp == CHOOSE s \in Side : s # who
        h == Spent(g, who, c)
    IN  [h EXCEPT ![who] = AfterOwn(c, @), ![opp] = AfterTheirs(c, @)]

\* The computer's card, once chosen.  It may leave the human a question, and
\* then _run_cpu_turn returns before the check for the end.
CpuMoved(g, choice) ==
    LET c == choice[1]
        h == IF choice[2] THEN Played(g, "cpu", c) ELSE Spent(g, "cpu", c)
        asks == /\ choice[2] /\ Face[c].kind = "hazard"
                /\ Holds(g.human, SAFETY_FOR[Face[c].name])
    IN  IF asks THEN [h EXCEPT !.coup_fourre_pending = Face[c].name] ELSE Checked(h)

CpuMoves(g) == {CpuMoved(g, ch) : ch \in Choices(g.cpu, g.human)}

\* _run_cpu_turn
CpuTurn(g) ==
    IF g.winner # None \/ (g.cpu.hand = {} /\ g.deck = {}) THEN {g}
    ELSE UNION {CpuMoves(d) : d \in Draws(g, "cpu")}

\* What mille_play and mille_discard do after the human's own card.
RestOfTurn(g) ==
    UNION {IF h.winner = None /\ h.coup_fourre_pending = None THEN Draws(h, "human") ELSE {h} :
              h \in CpuTurn(Checked(g))}

\* _auto_advance_cpu: the computer plays its hand out, drawing nothing.
PlayedOut[g \in GameState] ==
    IF g.winner # None \/ g.human.hand # {} \/ g.deck # {} \/ g.cpu.hand = {} THEN {g}
    ELSE UNION {PlayedOut[h] : h \in CpuMoves(g)}

-----------------------------------------------------------------------------
(* The routes *)

HumanMayMove == game.winner = None /\ game.coup_fourre_pending = None

\* mille_play; the computer takes any coup fourre it can.
HumanPlays(c) ==
    /\ HumanMayMove /\ c \in game.human.hand /\ CanPlay(c, game.human, game.cpu)
    /\ LET h == Played(game, "human", c)
           n == Face[c].name
       IN  game' \in RestOfTurn(
               IF Face[c].kind = "hazard" /\ Holds(game.cpu, SAFETY_FOR[n])
               THEN [h EXCEPT !.cpu = CoupFourre(@, n)] ELSE h)

\* mille_discard
HumanDiscards(c) ==
    /\ HumanMayMove /\ c \in game.human.hand
    /\ game' \in RestOfTurn(Spent(game, "human", c))

\* mille_coup: the hazard was the computer's move, so the human draws.
HumanAnswers(accept) ==
    /\ game.coup_fourre_pending # None
    /\ LET h == [game EXCEPT !.coup_fourre_pending = None,
                    !.human = IF accept THEN CoupFourre(@, game.coup_fourre_pending) ELSE @]
           g == Checked(h)
       IN  game' \in IF g.winner = None THEN Draws(g, "human") ELSE {g}

\* mille_page, its CPU part: finish a stranded game, then store the score once.
\* A page that finds the score stored drops the game, and mille_new deals anew.
Page ==
    \E g \in {Checked(h) : h \in PlayedOut[game]} :
        /\ ~(g.winner # None /\ g.score_saved)
        /\ game' = IF g.winner = None THEN g
                   ELSE [g EXCEPT !.score_saved = TRUE, !.rows = @ + 1]

\* Over, scored and dropped; the next game starts from CpuInit.
Dropped == game.winner # None /\ game.score_saved /\ UNCHANGED cpuVars

CpuNext ==
    \/ \E c \in Card : HumanPlays(c) \/ HumanDiscards(c)
    \/ \E accept \in BOOLEAN : HumanAnswers(accept)
    \/ Page
    \/ Dropped

CpuSpec == CpuInit /\ [][CpuNext]_cpuVars

-----------------------------------------------------------------------------
(* What is claimed of a game *)

\* The game is what GameState says it is.
CpuTypeOK == game \in GameState

\* A card is in one place at a time, through the draws of a whole turn.
CpuCardsApart ==
    /\ \A s \in Side : game.deck \cap game[s].hand = {}
    /\ game.human.hand \cap game.cpu.hand = {}

\* A question put to the human can be answered: the game is still on, the
\* hazard is in force and the safety is in hand.
QuestionCanBeAnswered ==
    game.coup_fourre_pending # None =>
        LET h == game.coup_fourre_pending
        IN  /\ game.winner = None
            /\ Holds(game.human, SAFETY_FOR[h])
            /\ h \in Breakdown => game.human.hazard = h

\* The table between requests: no card in two places, and no question that the
\* human could not answer.
CpuTableIsSound == CpuTypeOK /\ CpuCardsApart /\ QuestionCanBeAnswered

\* A human left without a card is not left without a game: nothing can be
\* played or discarded then, and the next page view finishes it (mille_page
\* runs _auto_advance_cpu for that).
StrandedGameFinishes ==
    game.human.hand = {} /\ game.winner = None =>
        \A g \in PlayedOut[game] : Checked(g).winner # None

\* What is left to happen: a card counts twice while it is in the deck or a
\* hand, a question to the human once.
LeftOf(g) ==
    2 * Cardinality(g.deck \cup g.human.hand \cup g.cpu.hand)
        + (IF g.coup_fourre_pending = None THEN 0 ELSE 1)

\* Every request that moves spends a card or settles a question, so a game
\* lasts no longer than its deck.
EveryRequestSpends == [][game'.rows = game.rows => LeftOf(game') < LeftOf(game)]_cpuVars

=============================================================================
