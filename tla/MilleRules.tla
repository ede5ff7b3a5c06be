------------------------------ MODULE MilleRules ------------------------------
(***************************************************************************)
(* The rules of Mille Bornes as lib/mille.py plays them: which card may be *)
(* played on which table, what it does to either player, the coup fourre,  *)
(* the computer's choice and the score.  Everything here is a pure         *)
(* operator on player records; MillePvp and MilleCpu run the games.        *)
(*                                                                         *)
(* A card is an identity with a face, so that two cards with equal faces   *)
(* stay two cards.  Hands are sets: the order of a hand decides nothing    *)
(* but which of two equal cards the computer picks, and the model lets it  *)
(* pick either.  The names of fields are those of the Player class.        *)
(***************************************************************************)
EXTENDS Integers, FiniteSets

CONSTANTS
    Card,   \* the cards of the deck; 106 of them in build_deck
    Face,   \* what is printed on each card
    Goal,   \* the miles that win the race; 1000 in the code
    HandSize   \* cards dealt to each player; 6 in the code

None == "None"

Breakdown == {"Accident", "Out of Gas", "Flat Tire"}
Hazard == Breakdown \cup {"Stop", "Speed Limit"}
Safety == {"Driving Ace", "Extra Tank", "Puncture-Proof", "Right of Way"}
Remedy == {"Repairs", "Gasoline", "Spare Tire", "End of Limit", "Roll"}

SAFETY_FOR ==
    [h \in Hazard |->
        CASE h = "Accident"   -> "Driving Ace"
          [] h = "Out of Gas" -> "Extra Tank"
          [] h = "Flat Tire"  -> "Puncture-Proof"
          [] OTHER            -> "Right of Way"]

\* The breakdown each repairing remedy lifts (hazard_map in can_play).
Repairs ==
    [r \in {"Repairs", "Gasoline", "Spare Tire"} |->
        CASE r = "Repairs"  -> "Accident"
          [] r = "Gasoline" -> "Out of Gas"
          [] OTHER          -> "Flat Tire"]

Faces ==
    [kind: {"distance"}, miles: Nat, name: {None}]
        \cup [kind: {"hazard"}, miles: {0}, name: Hazard]
        \cup [kind: {"remedy"}, miles: {0}, name: Remedy]
        \cup [kind: {"safety"}, miles: {0}, name: Safety]

IsSafety(c, s) == Face[c].kind = "safety" /\ Face[c].name = s

\* build_deck: finitely many cards, and one of each safety.
ASSUME DeckAssumption ==
    /\ IsFiniteSet(Card)
    /\ Face \in [Card -> Faces]
    /\ \A c, d \in Card, s \in Safety : IsSafety(c, s) /\ IsSafety(d, s) => c = d
    /\ Goal \in Nat \ {0}

ASSUME HandSizeAssumption ==
    HandSize \in Nat \ {0} /\ 2 * HandSize + 1 <= Cardinality(Card)

-----------------------------------------------------------------------------
(* Players *)

Player ==
    [hand: SUBSET Card, miles: Nat, rolling: BOOLEAN,
     hazard: Breakdown \cup {None}, speed_limited: BOOLEAN,
     safeties: SUBSET Safety, coups: Nat, count_200: Nat]

NewPlayer(hand) ==
    [hand |-> hand, miles |-> 0, rolling |-> FALSE, hazard |-> None,
     speed_limited |-> FALSE, safeties |-> {}, coups |-> 0, count_200 |-> 0]

\* The hands of n cards that S deals
Deals(S, n) == {h \in SUBSET S : Cardinality(h) = n}

RightOfWay(p) == "Right of Way" \in p.safeties

CanMove(p) == p.hazard = None /\ (p.rolling \/ RightOfWay(p))

Holds(p, s) == \E c \in p.hand : IsSafety(c, s)

-----------------------------------------------------------------------------
(* can_play *)

CanDrive(n, p) ==
    /\ CanMove(p)
    /\ p.speed_limited /\ ~RightOfWay(p) => n <= 50
    /\ n = 200 => p.count_200 < 2
    /\ p.miles + n <= Goal

CanRemedy(r, p) ==
    \/ r = "Roll" /\ ~p.rolling /\ p.hazard = None /\ ~RightOfWay(p)
    \/ r = "End of Limit" /\ p.speed_limited /\ ~RightOfWay(p)
    \/ r \in DOMAIN Repairs /\ p.hazard = Repairs[r]

CanAttack(h, opp) ==
    \/ h = "Speed Limit" /\ ~opp.speed_limited /\ ~RightOfWay(opp)
    \/ h = "Stop" /\ CanMove(opp) /\ ~RightOfWay(opp)
    \/ h \in Breakdown /\ CanMove(opp) /\ SAFETY_FOR[h] \notin opp.safeties

CanPlay(c, me, opp) ==
    \/ Face[c].kind = "safety"
    \/ Face[c].kind = "distance" /\ CanDrive(Face[c].miles, me)
    \/ Face[c].kind = "remedy" /\ CanRemedy(Face[c].name, me)
    \/ Face[c].kind = "hazard" /\ CanAttack(Face[c].name, opp)

-----------------------------------------------------------------------------
(* do_play: what a card does to the player of it and to the opponent *)

\* The plausible slip of a safety that protects but does not repair.
WithSafetyOnly(p, s) ==
    [p EXCEPT !.safeties = @ \cup {s},
              !.rolling = @ \/ s = "Right of Way",
              !.speed_limited = @ /\ s # "Right of Way"]

WithSafety(p, s) ==
    [p EXCEPT !.safeties = @ \cup {s},
              !.rolling = @ \/ s = "Right of Way",
              !.speed_limited = @ /\ s # "Right of Way",
              !.hazard = IF @ # None /\ SAFETY_FOR[@] = s THEN None ELSE @]

Driven(p, n) ==
    [p EXCEPT !.miles = @ + n, !.count_200 = IF n = 200 THEN @ + 1 ELSE @]

Remedied(p, r) ==
    CASE r = "Roll"         -> [p EXCEPT !.rolling = TRUE]
      [] r = "End of Limit" -> [p EXCEPT !.speed_limited = FALSE]
      [] OTHER              -> [p EXCEPT !.hazard = None, !.rolling = FALSE]

Hit(p, h) ==
    CASE h = "Speed Limit" -> [p EXCEPT !.speed_limited = TRUE]
      [] h = "Stop"        -> [p EXCEPT !.rolling = FALSE]
      [] OTHER             -> [p EXCEPT !.hazard = h, !.rolling = FALSE]

AfterOwn(c, p) ==
    CASE Face[c].kind = "safety"   -> WithSafety(p, Face[c].name)
      [] Face[c].kind = "distance" -> Driven(p, Face[c].miles)
      [] Face[c].kind = "remedy"   -> Remedied(p, Face[c].name)
      [] OTHER                     -> p

AfterTheirs(c, p) == IF Face[c].kind = "hazard" THEN Hit(p, Face[c].name) ELSE p

\* The slip of answering a hazard without lifting what it did.
CoupFourreUnrepaired(p, h) ==
    LET s == SAFETY_FOR[h]
    IN  [p EXCEPT !.hand = {c \in @ : ~IsSafety(c, s)},
                  !.safeties = @ \cup {s},
                  !.coups = @ + 1,
                  !.rolling = TRUE,
                  !.speed_limited = @ /\ s # "Right of Way"]

\* apply_coup_fourre.  Every hazard's branch ends with the target rolling: the
\* Speed Limit's through the Right of Way that answers it.
CoupFourre(p, h) ==
    LET s == SAFETY_FOR[h]
    IN  [p EXCEPT !.hand = {c \in @ : ~IsSafety(c, s)},
                  !.safeties = @ \cup {s},
                  !.coups = @ + 1,
                  !.hazard = IF h \in Breakdown THEN None ELSE @,
                  !.rolling = TRUE,
                  !.speed_limited = @ /\ s # "Right of Way"]

-----------------------------------------------------------------------------
(* calc_score; won says that the winner named in the call is this player *)

Score(p, opp, won) ==
    LET trip == won /\ p.miles = Goal
    IN  p.miles + 100 * Cardinality(p.safeties) + 300 * p.coups
          + (IF p.safeties = Safety THEN 700 ELSE 0)
          + (IF trip THEN 400 ELSE 0)
          + (IF trip /\ p.count_200 = 0 THEN 300 ELSE 0)
          + (IF trip /\ opp.miles = 0 THEN 500 ELSE 0)

=============================================================================
