------------------------------- MODULE ClimbDay -------------------------------
(***************************************************************************)
(* A climber alone on the mountain: the screens and choices of             *)
(* lib/climb/scenes.py (screen, act, _after_blows) with the rules of       *)
(* lib/climb/rules.py they apply.  Requests on one climber's row come one  *)
(* after another, which is what ClimbStore shows; what passes between      *)
(* climbers, and the Vault, are in ClimbCamp and ClimbHearts.              *)
(*                                                                         *)
(* Numbers are small: a blow takes 1 to MaxBlow, a price is a coin, an     *)
(* amount of coin or experience is some or none.  Experience is whether    *)
(* there is enough for the gatekeeper.  Charm, rank and seeds decide only  *)
(* chances, and any chance may come up; so does who is wed, and to whom.   *)
(* Armour is bought as weapons are.  Screens that only speak are one, the  *)
(* Stele.                                                                  *)
(***************************************************************************)
EXTENDS Integers

CONSTANTS
    Levels,
    HpAt,        \* MAX_HP, by level
    SlopeFights, \* fights a dawn brings
    SkillUses,   \* uses of a skill a dawn brings
    None,
    MaxBlow,     \* bound on a blow
    FoeHp,       \* bound on the foe's hit points
    MaxPurse,    \* bound on the purse
    MaxFights,   \* bound on the fights left, songs and shrines included
    MaxGift      \* bound on the hit points given for good

ASSUME DayAssumption ==
    /\ Levels \in Nat \ {0} /\ HpAt \in [1..Levels -> Nat \ {0}]
    /\ SlopeFights \in Nat /\ SkillUses \in Nat
    /\ MaxBlow \in Nat \ {0} /\ FoeHp \in Nat \ {0}
    /\ MaxPurse \in Nat \ {0} /\ MaxFights \in Nat /\ MaxFights >= SlopeFights
    /\ MaxGift \in Nat

VARIABLES
    climber,
    scene,
    event,     \* the Slopes event that waits for an answer, or the suitor looked at
    fight

vars == <<climber, scene, event, fight>>

Calling == {"spear", "torch", "sandal"}
Kind == {"creature", "gatekeeper", "ladon"}
Event == {"boulder", "wall", "satyr", "kid", "shrine", "hive", "toll"}
Suitor == "suitor"
Scene == {"agora", "slopes", "fight", "event", "dead", "hygieia", "forge", "palaestra", "orchard",
          "lethe", "corner", "hearts", "suitor", "fire", "summit", "stele"}
FightRecord == [kind: Kind, hp: 1..FoeHp, mercy: BOOLEAN, picked: BOOLEAN]

ASSUME NoneAssumption == None \notin FightRecord /\ None \notin Event /\ None # Suitor

-----------------------------------------------------------------------------
(* The rules *)

\* max_hp
FullHp(c) == HpAt[c.level] + c.gift + c.boost

Fewer(a, b) == IF a < b THEN a ELSE b

\* What a purse may be after something was earned
Richer(p) == {p, p + 1} \cap (0..MaxPurse)

\* new_climber
Newcomer(k) ==
    [alive |-> TRUE, calling |-> k, level |-> 1, ready |-> FALSE, hp |-> HpAt[1], boost |-> 0,
     gift |-> 0, purse |-> 1, weapon |-> 1, fights |-> SlopeFights, skill |-> SkillUses,
     gate |-> FALSE, sung |-> FALSE, mercy |-> FALSE, fire |-> FALSE]

\* The slip of closing wounds before the day's boost is gone.
RestedBoosted(c) ==
    [c EXCEPT !.alive = TRUE, !.boost = 0, !.hp = FullHp(c), !.fights = SlopeFights,
              !.skill = SkillUses, !.gate = FALSE, !.sung = FALSE, !.mercy = FALSE]

\* apply_dawn
Rested(c) ==
    [c EXCEPT !.alive = TRUE, !.boost = 0, !.hp = HpAt[c.level] + c.gift, !.fights = SlopeFights,
              !.skill = SkillUses, !.gate = FALSE, !.sung = FALSE, !.mercy = FALSE]

\* apply_death; a tenth of the experience may be what the gatekeeper asks for.
Dead(c) ==
    {[c EXCEPT !.alive = FALSE, !.hp = 0, !.purse = 0, !.ready = r] : r \in {c.ready, FALSE}}

\* apply_level_up
LevelUp(c) ==
    LET up == [c EXCEPT !.level = @ + 1, !.ready = FALSE] IN [up EXCEPT !.hp = FullHp(up)]

\* apply_ascent, and the end of the day it brings
Ascended(c) ==
    LET down == [c EXCEPT !.level = 1, !.ready = FALSE, !.weapon = 1, !.purse = 1, !.fights = 0]
    IN  [down EXCEPT !.hp = FullHp(down)]

\* _lose_share: never the last point
Hurt(c) == {[c EXCEPT !.hp = h] : h \in IF c.hp = 1 THEN {1} ELSE 1..(c.hp - 1)}

\* apply_victory's spoils, and whatever else adds to purse or experience
Paid(c) == {[c EXCEPT !.purse = p] : p \in Richer(c.purse)}
Wiser(c) == {[c EXCEPT !.ready = r] : r \in {c.ready, TRUE}}

-----------------------------------------------------------------------------
(* A fight *)

CanRun(f) == f.kind = "creature"
Lethal(f) == f.kind # "gatekeeper"

\* The slip of letting armour turn a blow into less than none.
StruckThroughArmour(c, f) ==
    {IF b < c.hp THEN [hp |-> c.hp - b, outcome |-> "ongoing"]
     ELSE IF f.mercy THEN [hp |-> 1, outcome |-> "fled"]
     ELSE [hp |-> IF Lethal(f) THEN 0 ELSE 1, outcome |-> "lost"] : b \in (-1)..MaxBlow}

\* _foe_strikes: what a blow makes of the climber's hit points and of the fight
Struck(c, f) ==
    {IF b < c.hp THEN [hp |-> c.hp - b, outcome |-> "ongoing"]
     ELSE IF f.mercy THEN [hp |-> 1, outcome |-> "fled"]
     ELSE [hp |-> IF Lethal(f) THEN 0 ELSE 1, outcome |-> "lost"] : b \in 1..MaxBlow}

\* _you_strike: what a blow leaves of the foe
Strike(f) == {IF b < f.hp THEN f.hp - b ELSE 0 : b \in 1..MaxBlow}

\* skills, and actions.  How much a Torch knows depends on the rank.
Known(c) ==
    CASE c.calling = "spear"  -> {"fury"}
      [] c.calling = "torch"  -> {"flame", "mend", "shadow"}
      [] c.calling = "sandal" -> {"quick_hands"}

Blows(c, f) ==
    {"attack"}
    \cup {a \in {"run"} : CanRun(f)}
    \cup {a \in Known(c) : /\ c.skill > 0
                           /\ a = "shadow" => CanRun(f)
                           /\ a = "quick_hands" => ~f.picked}

\* _after_blows: the climber c, in the fight f, after what has just happened
Standing(c, f) ==
    /\ climber' = c /\ fight' = f /\ scene' = "fight"

Over(C, where) ==
    /\ climber' \in C /\ fight' = None /\ scene' = where

AfterBlows(c, f, outcome) ==
    \/ outcome = "ongoing" /\ Standing(c, f)
    \/ outcome = "fled" /\ Over({c}, "slopes")
    \/ f.kind = "gatekeeper" /\ outcome = "won" /\ Over({LevelUp(c)}, "palaestra")
    \/ f.kind = "gatekeeper" /\ outcome = "lost" /\ Over({c}, "palaestra")
    \/ f.kind = "ladon" /\ outcome = "won" /\ Over({Ascended(c)}, "summit")
    \/ f.kind = "creature" /\ outcome = "won" /\ Over(UNION {Wiser(d) : d \in Paid(c)}, "slopes")
    \/ f.kind # "gatekeeper" /\ outcome = "lost" /\ Over(Dead(c), "dead")

\* The foe's blow, and what comes of it
FoeStrikes(c, f) ==
    \E s \in Struck(c, f) : AfterBlows([c EXCEPT !.hp = s.hp], f, s.outcome)

\* The climber's blow, and the foe's if it still stands
YouStrike(c, f) ==
    \E h \in Strike(f) :
        IF h = 0 THEN AfterBlows(c, [f EXCEPT !.hp = 0], "won")
        ELSE FoeStrikes(c, [f EXCEPT !.hp = h])

\* The slip of an ambush that comes before the blessing.
OpenFightTooFast(c, kind) ==
    LET blessed == c.mercy /\ kind # "gatekeeper"
        d == [c EXCEPT !.mercy = @ /\ ~blessed]
    IN  \E h \in 1..FoeHp :
            LET f == [kind |-> kind, hp |-> h, mercy |-> blessed, picked |-> FALSE]
            IN  \/ Standing(d, f)
                \/ c.calling # "sandal" /\ FoeStrikes(d, [f EXCEPT !.mercy = FALSE])

\* open_fight: a mercy is taken into the fight before the first blow can fall.
OpenFight(c, kind) ==
    LET blessed == c.mercy /\ kind # "gatekeeper"
        d == [c EXCEPT !.mercy = @ /\ ~blessed]
    IN  \E h \in 1..FoeHp :
            LET f == [kind |-> kind, hp |-> h, mercy |-> blessed, picked |-> FALSE]
            IN  \/ Standing(d, f)
                \/ c.calling # "sandal" /\ FoeStrikes(d, f)

-----------------------------------------------------------------------------
(* The screens *)

\* Where each screen leads.  Nothing leads out of a fight or away from an event.
Doors ==
    [agora     |-> {"slopes", "forge", "hygieia", "lethe", "palaestra", "orchard", "stele"},
     slopes    |-> {"agora", "fire"},
     forge     |-> {"agora"},
     hygieia   |-> {"agora"},
     orchard   |-> {"agora"},
     lethe     |-> {"agora", "corner"},
     corner    |-> {"lethe", "hearts"},
     hearts    |-> {"corner"},
     suitor    |-> {"hearts", "corner"}, \* a suitor who has gone falls back to the list
     palaestra |-> {"agora"},
     fire      |-> {"slopes"},
     summit    |-> {"agora"},
     stele     |-> {"agora", "dead"},
     dead      |-> {"stele"},
     fight     |-> {},
     event     |-> {}]

\* The dead read and go back to their cot; the fire is for those who know it.
Go(s) ==
    /\ s \in Doors[scene]
    /\ s = "dead" <=> ~climber.alive /\ scene = "stele"
    /\ s = "fire" => climber.fire
    /\ scene' = s
    /\ event' = None
    /\ UNCHANGED <<climber, fight>>

Here(s) == scene = s /\ climber.alive

\* The climber is one of C now, and still where they were.
Becomes(C) ==
    /\ climber' \in C
    /\ UNCHANGED <<scene, event, fight>>

\* What an instant event does, and back to the Slopes
Instant(c) ==
    {[c EXCEPT !.hp = FullHp(c)], [c EXCEPT !.fire = TRUE], c} \cup Hurt(c) \cup Paid(c)

\* seek: an event that happens at once, one that asks, or a creature
Seek ==
    /\ Here("slopes") /\ climber.fights > 0
    /\ LET c == [climber EXCEPT !.fights = @ - 1]
       IN  \/ climber' \in Instant(c) /\ UNCHANGED <<scene, event, fight>>
           \/ /\ event' \in Event
              /\ scene' = "event"
              /\ climber' = c
              /\ UNCHANGED fight
           \/ OpenFight(c, "creature") /\ UNCHANGED event

\* resolve_event: what the answers that cost or bring something come to
Answered(c, e) ==
    CASE e = "boulder" -> UNION {Wiser(d) : d \in Hurt(c)}
      [] e = "wall"    -> {c}
      [] e = "satyr"   -> IF c.purse < 1 THEN {}
                          ELSE Paid(c) \cup {[c EXCEPT !.purse = p] : p \in 0..(c.purse - 1)}
      [] e = "kid"     -> Paid(c)
      [] e = "shrine"  -> IF c.purse < 1 THEN {}
                          ELSE {[c EXCEPT !.purse = @ - 1, !.fights = f] :
                                   f \in {c.fights, c.fights + 1} \cap (0..MaxFights)}
      [] e = "hive"    -> Hurt(c) \cup
                          (IF c.gift < MaxGift THEN {[c EXCEPT !.gift = @ + 1, !.hp = @ + 1]} ELSE {})
      [] e = "toll"    -> IF c.purse < 1 THEN {} ELSE {[c EXCEPT !.purse = @ - 1]}

\* event: walk away, take what comes, or (the gardener, the toll-taker) fight.
\* A stake the satyr will not take leaves everything as it was.
Answer ==
    /\ Here("event")
    /\ event' = None
    /\ \/ climber' \in {climber} \cup Answered(climber, event) /\ scene' = "slopes" /\ UNCHANGED fight
       \/ event \in {"wall", "toll"} /\ OpenFight(climber, "creature")

\* fight:attack, fight:run and the skills
Fight ==
    /\ Here("fight")
    /\ UNCHANGED event
    /\ \E a \in Blows(climber, fight) :
          LET c == [climber EXCEPT !.skill = IF a \in {"attack", "run"} THEN @ ELSE @ - 1]
          IN  \/ a = "run" /\ (AfterBlows(c, fight, "fled") \/ FoeStrikes(c, fight))
              \/ a = "shadow" /\ AfterBlows(c, fight, "fled")
              \/ a = "mend" /\ \E h \in c.hp..FullHp(c) : FoeStrikes([c EXCEPT !.hp = h], fight)
              \/ a = "quick_hands" /\ YouStrike(c, [fight EXCEPT !.picked = TRUE])
              \/ a \in {"attack", "fury", "flame"} /\ YouStrike(c, fight)

\* gate
FaceGatekeeper ==
    /\ Here("palaestra")
    /\ climber.ready /\ climber.level < Levels /\ ~climber.gate
    /\ OpenFight([climber EXCEPT !.gate = TRUE], "gatekeeper")
    /\ UNCHANGED event

\* garden
SeekLadon ==
    /\ Here("slopes")
    /\ climber.level = Levels /\ climber.fights > 0 /\ ~climber.gate
    /\ OpenFight([climber EXCEPT !.gate = TRUE, !.fights = @ - 1], "ladon")
    /\ UNCHANGED event

\* heal:all and heal:some
Heal ==
    /\ Here("hygieia")
    /\ \E n \in 1..Fewer(FullHp(climber) - climber.hp, climber.purse) :
          Becomes({[climber EXCEPT !.hp = @ + n, !.purse = @ - n]})

\* buy: better than what one carries, and at most one tier above one's level
Buy ==
    /\ Here("forge") /\ climber.purse >= 1
    /\ \E tier \in (climber.weapon + 1)..Fewer(Levels, climber.level + 1) :
          Becomes({[climber EXCEPT !.weapon = tier, !.purse = @ - 1]})

\* song: what Orpheus may sing, once a day
Song ==
    /\ Here("lethe") /\ ~climber.sung
    /\ LET c == [climber EXCEPT !.sung = TRUE]
           bronze == [c EXCEPT !.boost = 1]
       IN  Becomes({c,
                    [c EXCEPT !.fights = Fewer(@ + 1, MaxFights)],
                    [bronze EXCEPT !.hp = FullHp(bronze)],
                    [c EXCEPT !.skill = @ + 1],
                    [c EXCEPT !.mercy = TRUE]} \cup Paid(c) \cup Wiser(c))

\* wine, or a room or a key, which heal nobody
Drink ==
    /\ Here("lethe") /\ climber.purse >= 1
    /\ \E h \in climber.hp..FullHp(climber) :
          Becomes({[climber EXCEPT !.purse = @ - 1, !.hp = h]})

\* gift:vigour, for two seeds.  Strength and defence change no number here.
Plant ==
    /\ Here("orchard") /\ climber.gift < MaxGift
    /\ Becomes({[climber EXCEPT !.gift = @ + 1, !.hp = @ + 1]})

\* court: the step that takes a gift costs it either way.
Court ==
    /\ Here("corner")
    /\ \/ Becomes(Wiser(climber))
       \/ climber.purse >= 1 /\ Becomes(Wiser([climber EXCEPT !.purse = @ - 1]))

\* suitor, from the list of hearts or where a suitor who has gone falls back to it
Approach ==
    /\ Here("hearts") \/ Here("suitor")
    /\ event' = Suitor
    /\ scene' = "suitor"
    /\ UNCHANGED <<climber, fight>>

\* divorce.  What else is done to a suitor is ClimbHearts' part, and leads nowhere.
Divorce ==
    /\ Here("suitor")
    /\ event' = None
    /\ scene' = "hearts"
    /\ UNCHANGED <<climber, fight>>

\* knucklebones
Throw ==
    /\ Here("fire") /\ climber.purse >= 1
    /\ \E stake \in 1..climber.purse :
          Becomes(Paid(climber) \cup {[climber EXCEPT !.purse = @ - stake]})

\* calling: half the rank, and no more uses than that leaves
NewCalling ==
    /\ Here("fire")
    /\ \E k \in Calling \ {climber.calling} :
          Becomes({[climber EXCEPT !.calling = k, !.skill = Fewer(@, SkillUses)]})

\* What a spouse may bring at dawn: a coin, more fights, or nothing
WithSpouse(c) == Paid(c) \cup {[c EXCEPT !.fights = Fewer(@ + 1, MaxFights)]}

\* The slip of waking up with a fight still on.
DawnMidFight ==
    /\ climber' \in WithSpouse(Rested(climber))
    /\ event' = None
    /\ scene' = "agora"
    /\ UNCHANGED fight

\* dawn, on the first request of a day
Dawn ==
    /\ climber' \in WithSpouse(Rested(climber))
    /\ fight' = None
    /\ event' = None
    /\ scene' = "agora"

Init ==
    /\ \E k \in Calling : climber = Newcomer(k)
    /\ scene = "agora"
    /\ event = None
    /\ fight = None

Next ==
    \/ \E s \in Scene : Go(s)
    \/ Seek \/ Answer \/ Fight \/ FaceGatekeeper \/ SeekLadon
    \/ Heal \/ Buy \/ Plant \/ Song \/ Drink \/ Court \/ Approach \/ Divorce \/ Throw \/ NewCalling
    \/ Dawn

Spec == Init /\ [][Next]_vars

-----------------------------------------------------------------------------
(* What is claimed of a climber *)

ClimberType ==
    [alive: BOOLEAN, calling: Calling, level: 1..Levels, ready: BOOLEAN, hp: Nat, boost: {0, 1},
     gift: 0..MaxGift, purse: 0..MaxPurse, weapon: 1..Levels, fights: 0..MaxFights, skill: Nat,
     gate: BOOLEAN, sung: BOOLEAN, mercy: BOOLEAN, fire: BOOLEAN]

\* A climber, a screen, an event and a fight are what the code declares them to be.
TypeOK ==
    /\ climber \in ClimberType
    /\ scene \in Scene
    /\ event \in Event \cup {Suitor, None}
    /\ fight = None \/ fight \in FightRecord

\* Hit points tell the living from the dead, and nobody has more than fit:
\* through ambushes, stings, gifts, a song's boost that ends at dawn, a new band
\* and the way down from the garden.
HpFits ==
    /\ climber.alive <=> climber.hp > 0
    /\ climber.hp <= FullHp(climber)

\* The row is what rules.py declares and its hit points fit the climber.
ClimberIsSound == TypeOK /\ HpFits

\* A screen and what it is about come and go together: who is in a fight or has
\* a choice to make can go nowhere else before it is settled, or the day is
\* over, and no fight, event or suitor is left behind for a later screen to find
\* (events and suitors share one column).
SceneHasItsMatter ==
    /\ scene = "fight" <=> fight # None
    /\ scene = "event" <=> event \in Event
    /\ scene = "suitor" <=> event = Suitor
    /\ ~climber.alive <=> scene = "dead" \/ (scene = "stele" /\ climber.hp = 0)

\* Every round brings a fight nearer to its end, a healing or a failed flight
\* included: hit points and uses of skills on both sides, a use counting for more
\* than it can heal.
RoundsLeft == fight.hp + climber.hp + climber.skill * (FullHp(climber) + 1)

EveryRoundCounts ==
    [][fight # None /\ fight' # None => RoundsLeft' < RoundsLeft]_vars

\* A Stone Remembers (rules.py: the next lethal fight cannot kill): nobody dies
\* with the blessing on them, whether the blow is the first of an ambush or a
\* later one, and a gatekeeper does not use it up.
MercySaves ==
    [][climber.alive /\ ~climber'.alive =>
          ~climber.mercy /\ (fight # None => ~fight.mercy)]_vars

=============================================================================
