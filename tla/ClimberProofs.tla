----------------------------- MODULE ClimberProofs -----------------------------
(***************************************************************************)
(* One climber alone.  What ClimbDay claims of hit points, screens and     *)
(* fights, for a mountain of any height and blows, prices and purses of    *)
(* any size; and what ClimbStore claims of the row they are kept in, for   *)
(* any number of requests of each kind, of tries and of resets.            *)
(***************************************************************************)
EXTENDS ClimbDay, ClimbStore, FiniteSetTheorems, TLAPS

(* The climber *)

\* A climber whose numbers fit, and one who is alive besides
Sound(c) == c \in ClimberType /\ (c.alive <=> c.hp > 0) /\ c.hp <= FullHp(c)
Living(c) == Sound(c) /\ c.alive

\* A fight for the gate is fought below it: LevelUp never leaves the mountain.
GateHasAnotherSide == fight # None /\ fight.kind = "gatekeeper" => climber.level < Levels

Inv == TypeOK /\ HpFits /\ SceneHasItsMatter /\ GateHasAnotherSide

-----------------------------------------------------------------------------
(* What the rules make of a climber *)

LEMMA FullHpType ==
    ASSUME NEW c \in ClimberType
    PROVE  FullHp(c) \in Nat \ {0} /\ HpAt[c.level] \in Nat \ {0} /\ c.gift \in Nat
  BY DayAssumption DEF FullHp, ClimberType

LEMMA NewcomerLives == ASSUME NEW k \in Calling PROVE Living(Newcomer(k))
  BY DayAssumption DEF Newcomer, Living, Sound, ClimberType, FullHp

LEMMA RestedLives == ASSUME NEW c, Sound(c) PROVE Living(Rested(c))
  <1>1. c \in ClimberType
    BY DEF Sound
  <1>2. HpAt[c.level] + c.gift \in Nat \ {0}
    BY <1>1, FullHpType
  <1>3. Rested(c) \in ClimberType
    <2>1. ASSUME NEW y \in BOOLEAN, NEW n \in BOOLEAN, NEW b \in {0, 1}, NEW h \in Nat,
                 NEW f \in 0..MaxFights, NEW s \in Nat
          PROVE  [c EXCEPT !.alive = y, !.boost = b, !.hp = h, !.fights = f, !.skill = s,
                           !.gate = n, !.sung = n, !.mercy = n] \in ClimberType
      BY <1>1 DEF ClimberType
    <2>2. SlopeFights \in 0..MaxFights /\ SkillUses \in Nat
      BY DayAssumption
    <2> QED
      BY <1>2, <2>1, <2>2 DEF Rested
  <1>4. /\ Rested(c).alive /\ Rested(c).hp = HpAt[c.level] + c.gift
        /\ Rested(c).level = c.level /\ Rested(c).gift = c.gift /\ Rested(c).boost = 0
    BY <1>1 DEF Rested, ClimberType
  <1> QED
    BY <1>2, <1>3, <1>4, FullHpType DEF Living, Sound, FullHp

LEMMA PaidLives == ASSUME NEW c, Living(c), NEW d \in Paid(c) PROVE Living(d) /\ d.level = c.level
  BY DayAssumption DEF Paid, Richer, Living, Sound, ClimberType, FullHp

LEMMA WiserLives == ASSUME NEW c, Living(c), NEW d \in Wiser(c) PROVE Living(d) /\ d.level = c.level
  BY DayAssumption DEF Wiser, Living, Sound, ClimberType, FullHp

\* A climber with other hit points, as long as some are left and they fit
LEMMA HpLives ==
    ASSUME NEW c, Living(c), NEW h \in Nat \ {0}, h <= FullHp(c)
    PROVE  Living([c EXCEPT !.hp = h]) /\ FullHp([c EXCEPT !.hp = h]) = FullHp(c)
  <1>1. [c EXCEPT !.hp = h] \in ClimberType
    BY DEF Living, Sound, ClimberType
  <1>2. FullHp([c EXCEPT !.hp = h]) = FullHp(c)
    BY DEF FullHp, Living, Sound, ClimberType
  <1> QED
    BY <1>1, <1>2 DEF Living, Sound, ClimberType

LEMMA HurtLives == ASSUME NEW c, Living(c), NEW d \in Hurt(c) PROVE Living(d) /\ d.level = c.level
  <1>1. PICK h \in IF c.hp = 1 THEN {1} ELSE 1..(c.hp - 1) : d = [c EXCEPT !.hp = h]
    BY DEF Hurt
  <1>2. c \in ClimberType /\ c.hp \in Nat /\ c.hp <= FullHp(c) /\ c.hp > 0 /\ FullHp(c) \in Nat
    BY FullHpType DEF Living, Sound, ClimberType
  <1>3. h \in Nat \ {0} /\ h <= FullHp(c)
    BY <1>1, <1>2
  <1>4. d.level = c.level
    BY <1>1, <1>2 DEF ClimberType
  <1> QED
    BY <1>1, <1>3, <1>4, HpLives

\* Whoever is alive and filled up to the brim is sound, wherever they are.
LEMMA FilledLives ==
    ASSUME NEW c \in ClimberType, c.alive
    PROVE  Living([c EXCEPT !.hp = FullHp(c)])
  <1>1. FullHp(c) \in Nat \ {0}
    BY FullHpType
  <1>2. [c EXCEPT !.hp = FullHp(c)] \in ClimberType
    BY <1>1 DEF ClimberType
  <1>3. FullHp([c EXCEPT !.hp = FullHp(c)]) = FullHp(c)
    BY DEF FullHp, ClimberType
  <1> QED
    BY <1>1, <1>2, <1>3 DEF Living, Sound, ClimberType

LEMMA LevelUpLives == ASSUME NEW c, Living(c), c.level < Levels PROVE Living(LevelUp(c))
  <1> DEFINE up == [c EXCEPT !.level = @ + 1, !.ready = FALSE]
  <1>1. c \in ClimberType /\ c.level \in 1..Levels
    BY DEF Living, Sound, ClimberType
  <1>2. up \in ClimberType /\ up.alive
    <2>1. ASSUME NEW l \in 1..Levels, NEW n \in BOOLEAN
          PROVE  /\ [c EXCEPT !.level = l, !.ready = n] \in ClimberType
                 /\ [c EXCEPT !.level = l, !.ready = n].alive = c.alive
      BY <1>1 DEF ClimberType
    <2>2. c.level + 1 \in 1..Levels
      BY <1>1, DayAssumption
    <2> QED
      BY <2>1, <2>2 DEF Living
  <1>3. Living([up EXCEPT !.hp = FullHp(up)])
    BY <1>2, FullHpType, FilledLives
  <1> QED
    BY <1>3 DEF LevelUp

LEMMA AscendedLives == ASSUME NEW c, Living(c) PROVE Living(Ascended(c))
  <1> DEFINE down == [c EXCEPT !.level = 1, !.ready = FALSE, !.weapon = 1, !.purse = 1,
                               !.fights = 0]
  <1>1. down \in ClimberType /\ down.alive
    <2>1. ASSUME NEW l \in 1..Levels, NEW n \in BOOLEAN, NEW p \in 0..MaxPurse,
                 NEW f \in 0..MaxFights
          PROVE  LET d == [c EXCEPT !.level = l, !.ready = n, !.weapon = l, !.purse = p, !.fights = f]
                 IN  d \in ClimberType /\ d.alive = c.alive
      BY DEF ClimberType, Living, Sound
    <2>2. 1 \in 1..Levels /\ 1 \in 0..MaxPurse /\ 0 \in 0..MaxFights
      BY DayAssumption
    <2> QED
      BY <2>1, <2>2 DEF Living
  <1> QED
    BY <1>1, FilledLives DEF Ascended

\* The blow that kills leaves a climber with no hit points who is dead only when
\* _after_blows has said so.
LEMMA DeadIsSound ==
    ASSUME NEW c \in ClimberType, NEW d \in Dead(c)
    PROVE  Sound(d) /\ ~d.alive /\ d.hp = 0
  <1>1. PICK r \in BOOLEAN :
            d = [c EXCEPT !.alive = FALSE, !.hp = 0, !.purse = 0, !.ready = r]
    BY DEF Dead, ClimberType
  <1>2. d \in ClimberType /\ ~d.alive /\ d.hp = 0
    <2>1. ASSUME NEW n \in BOOLEAN, NEW z \in Nat, NEW p \in 0..MaxPurse
          PROVE  LET e == [c EXCEPT !.alive = n, !.hp = z, !.purse = p, !.ready = r]
                 IN  e \in ClimberType /\ e.alive = n /\ e.hp = z
      BY DEF ClimberType
    <2>2. 0 \in 0..MaxPurse
      BY DayAssumption
    <2> QED
      BY <1>1, <2>1, <2>2
  <1> QED
    BY <1>2, FullHpType DEF Sound

-----------------------------------------------------------------------------
(* What a fight makes of the day *)

\* A climber who lives, on a screen that asks nothing
LEMMA QuietInv ==
    ASSUME Living(climber'), fight' = None, event' = None,
           scene' \in Scene \ {"fight", "event", "suitor", "dead"}
    PROVE  Inv'
  <1>1. climber'.hp > 0
    BY DEF Living, Sound
  <1> QED
    BY <1>1, NoneAssumption
    DEF Inv, TypeOK, HpFits, SceneHasItsMatter, GateHasAnotherSide, Living, Sound, FullHp

LEMMA OverInv ==
    ASSUME NEW C, \A c \in C : Living(c), event' = None,
           NEW where \in {"slopes", "palaestra", "summit"}, Over(C, where)
    PROVE  Inv'
  BY QuietInv DEF Over, Scene

LEMMA DeathInv ==
    ASSUME NEW c \in ClimberType, Over(Dead(c), "dead"), event' = None
    PROVE  Inv'
  <1>1. Sound(climber') /\ ~climber'.alive /\ climber'.hp = 0
    BY DeadIsSound DEF Over
  <1> QED
    BY <1>1, NoneAssumption
    DEF Over, Inv, TypeOK, HpFits, SceneHasItsMatter, GateHasAnotherSide, Sound, Scene, FullHp

LEMMA StandingInv ==
    ASSUME NEW c, Living(c), NEW f \in FightRecord, Standing(c, f), event' = None,
           f.kind = "gatekeeper" => c.level < Levels
    PROVE  Inv'
  <1>1. climber'.hp > 0
    BY DEF Living, Sound, Standing
  <1> QED
    BY <1>1, NoneAssumption
    DEF Standing, Inv, TypeOK, HpFits, SceneHasItsMatter, GateHasAnotherSide, Living, Sound,
        Scene, FullHp

\* However a fight stands, the climber is alive, or has been killed in earnest
\* and is about to be told so.
LEMMA AfterBlowsInv ==
    ASSUME NEW c \in ClimberType, NEW f, NEW outcome, f.kind \in Kind,
           f.kind = "gatekeeper" => c.level < Levels,
           Living(c) \/ (outcome = "lost" /\ Lethal(f)),
           outcome = "ongoing" => f \in FightRecord,
           AfterBlows(c, f, outcome), event' = None
    PROVE  Inv'
  <1>1. CASE outcome = "lost" /\ Lethal(f)
    <2>1. Over(Dead(c), "dead")
      BY <1>1 DEF AfterBlows, Lethal
    <2> QED
      BY <2>1, DeathInv
  <1>2. CASE Living(c) /\ ~(outcome = "lost" /\ Lethal(f))
    <2>1. CASE outcome = "ongoing" /\ Standing(c, f)
      BY <1>2, <2>1, StandingInv
    <2>2. CASE Over({c}, "slopes") \/ Over({c}, "palaestra")
      BY <1>2, <2>2, OverInv
    <2>3. CASE f.kind = "gatekeeper" /\ Over({LevelUp(c)}, "palaestra")
      BY <1>2, <2>3, LevelUpLives, OverInv
    <2>4. CASE Over({Ascended(c)}, "summit")
      BY <1>2, <2>4, AscendedLives, OverInv
    <2>5. CASE Over(UNION {Wiser(d) : d \in Paid(c)}, "slopes")
      <3>1. \A e \in UNION {Wiser(d) : d \in Paid(c)} : Living(e)
        BY <1>2, PaidLives, WiserLives
      <3> QED
        BY <2>5, <3>1, OverInv
    <2> QED
      BY <1>2, <2>1, <2>2, <2>3, <2>4, <2>5 DEF AfterBlows, Lethal
  <1> QED
    BY <1>1, <1>2

LEMMA FoeStrikesInv ==
    ASSUME NEW c, Living(c), NEW f \in FightRecord, f.kind = "gatekeeper" => c.level < Levels,
           FoeStrikes(c, f), event' = None
    PROVE  Inv'
  <1>1. PICK s \in Struck(c, f) : AfterBlows([c EXCEPT !.hp = s.hp], f, s.outcome)
    BY DEF FoeStrikes
  <1> DEFINE d == [c EXCEPT !.hp = s.hp]
  <1>2. c \in ClimberType /\ c.hp \in Nat \ {0} /\ c.hp <= FullHp(c) /\ FullHp(c) \in Nat
    BY FullHpType DEF Living, Sound, ClimberType
  <1>3. /\ s.hp \in Nat /\ s.hp <= c.hp
        /\ s.hp # 0 \/ (s.outcome = "lost" /\ Lethal(f))
    BY <1>2, DayAssumption DEF Struck
  <1>4. d \in ClimberType /\ d.level = c.level
    BY <1>2, <1>3 DEF ClimberType
  <1>5. Living(d) \/ (s.outcome = "lost" /\ Lethal(f))
    BY <1>2, <1>3, HpLives
  <1>6. f.kind \in Kind
    BY DEF FightRecord
  <1> QED
    BY <1>1, <1>4, <1>5, <1>6, AfterBlowsInv

LEMMA YouStrikeInv ==
    ASSUME NEW c, Living(c), NEW f \in FightRecord, f.kind = "gatekeeper" => c.level < Levels,
           YouStrike(c, f), event' = None
    PROVE  Inv'
  <1>1. PICK h \in Strike(f) : IF h = 0 THEN AfterBlows(c, [f EXCEPT !.hp = 0], "won")
                               ELSE FoeStrikes(c, [f EXCEPT !.hp = h])
    BY DEF YouStrike
  <1>2. h \in 0..FoeHp
    BY DayAssumption DEF Strike, FightRecord
  <1>3. c \in ClimberType
    BY DEF Living, Sound
  <1>4. CASE h = 0
    <2>1. [f EXCEPT !.hp = 0].kind = f.kind /\ f.kind \in Kind
      BY DEF FightRecord
    <2> QED
      BY <1>1, <1>3, <1>4, <2>1, AfterBlowsInv
  <1>5. CASE h # 0
    <2>1. [f EXCEPT !.hp = h] \in FightRecord /\ [f EXCEPT !.hp = h].kind = f.kind
      BY <1>2, <1>5, DayAssumption DEF FightRecord
    <2> QED
      BY <1>1, <1>5, <2>1, FoeStrikesInv
  <1> QED
    BY <1>4, <1>5

LEMMA OpenFightInv ==
    ASSUME NEW c, Living(c), NEW kind \in Kind, kind = "gatekeeper" => c.level < Levels,
           OpenFight(c, kind), event' = None
    PROVE  Inv'
  <1> DEFINE blessed == c.mercy /\ kind # "gatekeeper"
             d == [c EXCEPT !.mercy = @ /\ ~blessed]
             f(h) == [kind |-> kind, hp |-> h, mercy |-> blessed, picked |-> FALSE]
  <1>1. PICK h \in 1..FoeHp : Standing(d, f(h)) \/ FoeStrikes(d, f(h))
    BY Zenon DEF OpenFight
  <1>2. Living(d) /\ d.level = c.level
    <2>1. ASSUME NEW m \in BOOLEAN
          PROVE  Living([c EXCEPT !.mercy = m]) /\ [c EXCEPT !.mercy = m].level = c.level
      BY DEF Living, Sound, ClimberType, FullHp
    <2>2. (c.mercy /\ ~blessed) \in BOOLEAN
      OBVIOUS
    <2> QED
      BY <2>1, <2>2, Zenon
  <1>3. f(h) \in FightRecord /\ f(h).kind = kind
    <2>1. ASSUME NEW m \in BOOLEAN, NEW p \in BOOLEAN
          PROVE  [kind |-> kind, hp |-> h, mercy |-> m, picked |-> p] \in FightRecord
      BY <1>1 DEF FightRecord
    <2>2. blessed \in BOOLEAN /\ FALSE \in BOOLEAN
      OBVIOUS
    <2> QED
      BY <2>1, <2>2, Zenon
  <1> HIDE DEF d, f
  <1> QED
    BY <1>1, <1>2, <1>3, StandingInv, FoeStrikesInv

-----------------------------------------------------------------------------
(* One lemma for each kind of request *)

\* Where the climber stands when a screen of the living is not a fight
LEMMA HereIsQuiet ==
    ASSUME Inv, NEW s \in Scene \ {"fight", "event", "suitor", "dead"}, Here(s)
    PROVE  Living(climber) /\ fight = None /\ event = None
  BY DEF Inv, TypeOK, HpFits, SceneHasItsMatter, Here, Living, Sound

LEMMA BecomesInv ==
    ASSUME Inv, NEW s \in Scene \ {"fight", "event", "suitor", "dead"}, Here(s),
           NEW C, \A c \in C : Living(c), Becomes(C)
    PROVE  Inv'
  BY HereIsQuiet, QuietInv DEF Becomes, Here

\* No door leads into a fight, an event or a suitor, nor out of the first two.
LEMMA DoorsLead ==
    ASSUME NEW x \in Scene, NEW s \in Doors[x]
    PROVE  /\ s \in Scene \ {"fight", "event", "suitor"} /\ x \notin {"fight", "event"}
           /\ x = "dead" => s = "stele"
  BY DEF Scene, Doors

LEMMA GoInv == ASSUME Inv, NEW s \in Scene, Go(s) PROVE Inv'
  <1>1. scene \in Scene /\ s \in Doors[scene] /\ fight' = None /\ event' = None /\ scene' = s
    BY DoorsLead DEF Inv, TypeOK, SceneHasItsMatter, Go
  <1>2. s \in Scene \ {"fight", "event", "suitor"}
    BY <1>1, DoorsLead
  <1>3. CASE climber.alive
    <2>1. Living(climber') /\ s # "dead"
      BY <1>3 DEF Inv, TypeOK, HpFits, Go, Living, Sound, FullHp
    <2> QED
      BY <1>1, <1>2, <2>1, QuietInv
  <1>4. CASE ~climber.alive
    <2>1. s = "dead" \/ (s = "stele" /\ climber.hp = 0)
      BY <1>1, <1>4, DoorsLead DEF Inv, TypeOK, HpFits, SceneHasItsMatter, ClimberType, Go
    <2> QED
      BY <1>1, <1>2, <1>4, <2>1, NoneAssumption
      DEF Inv, TypeOK, HpFits, SceneHasItsMatter, GateHasAnotherSide, Go, FullHp
  <1> QED
    BY <1>3, <1>4

LEMMA SpentLives ==
    ASSUME NEW c, Living(c), c.fights > 0
    PROVE  Living([c EXCEPT !.fights = @ - 1]) /\ [c EXCEPT !.fights = @ - 1].level = c.level
  <1>1. c.fights - 1 \in 0..MaxFights
    BY DayAssumption DEF Living, Sound, ClimberType
  <1>2. ASSUME NEW n \in 0..MaxFights
        PROVE  Living([c EXCEPT !.fights = n]) /\ [c EXCEPT !.fights = n].level = c.level
    BY DEF Living, Sound, ClimberType, FullHp
  <1> QED
    BY <1>1, <1>2

LEMMA InstantLives == ASSUME NEW c, Living(c), NEW d \in Instant(c) PROVE Living(d)
  <1>1. c \in ClimberType /\ c.alive
    BY DEF Living, Sound
  <1>2. Living([c EXCEPT !.hp = FullHp(c)])
    BY <1>1, FilledLives
  <1>3. Living([c EXCEPT !.fire = TRUE])
    <2>1. ASSUME NEW y \in BOOLEAN PROVE Living([c EXCEPT !.fire = y])
      BY DEF Living, Sound, ClimberType, FullHp
    <2> QED
      BY <2>1
  <1> QED
    BY <1>2, <1>3, HurtLives, PaidLives DEF Instant

LEMMA SeekInv == ASSUME Inv, Seek PROVE Inv'
  <1> DEFINE c == [climber EXCEPT !.fights = @ - 1]
  <1>1. Living(climber) /\ fight = None /\ event = None
    BY HereIsQuiet DEF Seek, Scene
  <1>2. Living(c)
    BY <1>1, SpentLives DEF Seek
  <1>3. CASE climber' \in Instant(c) /\ UNCHANGED <<scene, event, fight>>
    BY <1>1, <1>2, <1>3, InstantLives, QuietInv DEF Seek, Here, Scene
  <1>4. CASE event' \in Event /\ scene' = "event" /\ climber' = c /\ UNCHANGED fight
    <2>1. climber'.hp > 0
      BY <1>2, <1>4 DEF Living, Sound
    <2>2. event' # Suitor
      BY <1>4 DEF Event, Suitor
    <2> QED
      BY <1>1, <1>2, <1>4, <2>1, <2>2, NoneAssumption
      DEF Inv, TypeOK, HpFits, SceneHasItsMatter, GateHasAnotherSide, Living, Sound, Scene, FullHp
  <1>5. CASE OpenFight(c, "creature") /\ UNCHANGED event
    BY <1>1, <1>2, <1>5, OpenFightInv DEF Kind
  <1> QED
    BY <1>3, <1>4, <1>5 DEF Seek

\* The honey, and a seed's gift of vigour
LEMMA GiftLives ==
    ASSUME NEW c, Living(c), c.gift < MaxGift
    PROVE  Living([c EXCEPT !.gift = @ + 1, !.hp = @ + 1])
  <1>1. c.gift + 1 \in 0..MaxGift /\ c.hp + 1 \in Nat /\ c.gift \in Nat /\ c.hp \in Nat
    BY DayAssumption DEF Living, Sound, ClimberType
  <1>2. ASSUME NEW g \in 0..MaxGift, NEW h \in Nat
        PROVE  LET d == [c EXCEPT !.gift = g, !.hp = h]
               IN  /\ d \in ClimberType /\ d.alive = c.alive /\ d.hp = h
                   /\ d.gift = g /\ d.level = c.level /\ d.boost = c.boost
    BY DEF Living, Sound, ClimberType
  <1>3. HpAt[c.level] \in Nat /\ c.boost \in Nat
    BY FullHpType DEF Living, Sound, ClimberType
  <1> DEFINE d == [c EXCEPT !.gift = @ + 1, !.hp = @ + 1]
  <1>4. /\ d \in ClimberType /\ d.alive = c.alive /\ d.hp = c.hp + 1
        /\ d.gift = c.gift + 1 /\ d.level = c.level /\ d.boost = c.boost
    BY <1>1, <1>2
  <1> HIDE DEF d
  <1>5. FullHp(d) = FullHp(c) + 1
    BY <1>1, <1>3, <1>4 DEF FullHp
  <1>6. c.alive /\ c.hp <= FullHp(c) /\ FullHp(c) \in Nat
    BY FullHpType DEF Living, Sound
  <1>7. Living(d)
    BY <1>1, <1>4, <1>5, <1>6 DEF Living, Sound
  <1> QED
    BY <1>7 DEF d

\* A climber with another purse
LEMMA PurseLives ==
    ASSUME NEW c, Living(c), NEW p \in 0..MaxPurse
    PROVE  Living([c EXCEPT !.purse = p]) /\ FullHp([c EXCEPT !.purse = p]) = FullHp(c)
  BY DEF Living, Sound, ClimberType, FullHp

LEMMA PaysLives ==
    ASSUME NEW c, Living(c), NEW n \in 1..c.purse
    PROVE  c.purse - n \in 0..MaxPurse /\ Living([c EXCEPT !.purse = @ - n])
  <1>1. c.purse - n \in 0..MaxPurse
    BY DayAssumption DEF Living, Sound, ClimberType
  <1> QED
    BY <1>1, PurseLives

LEMMA AnsweredLives ==
    ASSUME NEW c, Living(c), NEW e \in Event, NEW d \in Answered(c, e)
    PROVE  Living(d)
  <1>0. c.purse \in 0..MaxPurse /\ c.fights \in 0..MaxFights
    BY DEF Living, Sound, ClimberType
  <1>1. CASE e = "boulder"
    BY <1>1, HurtLives, WiserLives DEF Answered
  <1>2. CASE e = "wall"
    BY <1>2 DEF Answered
  <1>3. CASE e = "satyr"
    <2>1. ASSUME NEW p \in 0..(c.purse - 1) PROVE p \in 0..MaxPurse
      BY <1>0, DayAssumption
    <2> QED
      BY <1>3, <2>1, PaidLives, PurseLives DEF Answered
  <1>4. CASE e = "kid"
    BY <1>4, PaidLives DEF Answered
  <1>5. CASE e = "shrine"
    <2>1. ~(c.purse < 1)
      <3> SUFFICES ASSUME c.purse < 1 PROVE FALSE
        OBVIOUS
      <3>1. Answered(c, e) = {}
        BY <1>5 DEF Answered
      <3> QED
        BY <3>1
    <2>2. c.purse - 1 \in 0..MaxPurse
      BY <1>0, <2>1, DayAssumption
    <2>3. ASSUME NEW p \in 0..MaxPurse, NEW n \in 0..MaxFights
          PROVE  Living([c EXCEPT !.purse = p, !.fights = n])
      BY DEF Living, Sound, ClimberType, FullHp
    <2>4. PICK n \in {c.fights, c.fights + 1} \cap (0..MaxFights) :
              d = [c EXCEPT !.purse = @ - 1, !.fights = n]
      BY <1>5, <2>1 DEF Answered
    <2> QED
      BY <2>2, <2>3, <2>4
  <1>6. CASE e = "hive"
    BY <1>6, HurtLives, GiftLives DEF Answered
  <1>7. CASE e = "toll"
    <2>1. 1 \in 1..c.purse /\ d = [c EXCEPT !.purse = @ - 1]
      BY <1>0, <1>7, DayAssumption DEF Answered
    <2> QED
      BY <2>1, PaysLives
  <1> QED
    BY <1>1, <1>2, <1>3, <1>4, <1>5, <1>6, <1>7 DEF Event

LEMMA AnswerInv == ASSUME Inv, Answer PROVE Inv'
  <1>1. Living(climber) /\ fight = None /\ event \in Event /\ event' = None
    BY DEF Answer, Here, Inv, TypeOK, HpFits, SceneHasItsMatter, Living, Sound
  <1>2. CASE /\ climber' \in {climber} \cup Answered(climber, event)
             /\ scene' = "slopes" /\ UNCHANGED fight
    BY <1>1, <1>2, AnsweredLives, QuietInv DEF Scene
  <1>3. CASE OpenFight(climber, "creature")
    BY <1>1, <1>3, OpenFightInv DEF Kind
  <1> QED
    BY <1>2, <1>3 DEF Answer

LEMMA FightInv == ASSUME Inv, Fight PROVE Inv'
  <1>1. /\ Living(climber) /\ fight \in FightRecord /\ event = None /\ event' = None
        /\ fight.kind = "gatekeeper" => climber.level < Levels
    BY DEF Fight, Here, Inv, TypeOK, HpFits, SceneHasItsMatter, GateHasAnotherSide, Living, Sound
  <1>2. PICK a \in Blows(climber, fight) :
          LET c == [climber EXCEPT !.skill = IF a \in {"attack", "run"} THEN @ ELSE @ - 1]
          IN  \/ a = "run" /\ (AfterBlows(c, fight, "fled") \/ FoeStrikes(c, fight))
              \/ a = "shadow" /\ AfterBlows(c, fight, "fled")
              \/ a = "mend" /\ \E h \in c.hp..FullHp(c) : FoeStrikes([c EXCEPT !.hp = h], fight)
              \/ a = "quick_hands" /\ YouStrike(c, [fight EXCEPT !.picked = TRUE])
              \/ a \in {"attack", "fury", "flame"} /\ YouStrike(c, fight)
    BY DEF Fight
  <1> DEFINE c == [climber EXCEPT !.skill = IF a \in {"attack", "run"} THEN @ ELSE @ - 1]
  <1>3. Living(c) /\ c.level = climber.level
    <2>1. ASSUME NEW n \in Nat
          PROVE  Living([climber EXCEPT !.skill = n]) /\ [climber EXCEPT !.skill = n].level = climber.level
      BY <1>1 DEF Living, Sound, ClimberType, FullHp
    <2>2. (IF a \in {"attack", "run"} THEN climber.skill ELSE climber.skill - 1) \in Nat
      <3>1. climber.skill \in Nat
        BY <1>1 DEF Living, Sound, ClimberType
      <3>2. a \in {"attack", "run"} \/ climber.skill > 0
        BY DEF Blows
      <3> QED
        BY <3>1, <3>2
    <2> QED
      BY <2>1, <2>2
  <1>4. c \in ClimberType /\ fight.kind \in Kind /\ "fled" # "ongoing"
    BY <1>1, <1>3 DEF Living, Sound, FightRecord
  <1> HIDE DEF c
  <1>5. CASE AfterBlows(c, fight, "fled")
    BY <1>1, <1>3, <1>4, <1>5, AfterBlowsInv
  <1>6. CASE FoeStrikes(c, fight)
    BY <1>1, <1>3, <1>6, FoeStrikesInv
  <1>7. CASE \E h \in c.hp..FullHp(c) : FoeStrikes([c EXCEPT !.hp = h], fight)
    <2>1. PICK h \in c.hp..FullHp(c) : FoeStrikes([c EXCEPT !.hp = h], fight)
      BY <1>7
    <2>2. h \in Nat \ {0} /\ h <= FullHp(c) /\ [c EXCEPT !.hp = h].level = c.level
      BY <1>3, <1>4, FullHpType DEF Living, Sound, ClimberType
    <2> QED
      BY <1>1, <1>3, <2>1, <2>2, HpLives, FoeStrikesInv
  <1>8. CASE YouStrike(c, [fight EXCEPT !.picked = TRUE])
    <2>1. ASSUME NEW y \in BOOLEAN
          PROVE  [fight EXCEPT !.picked = y] \in FightRecord /\ [fight EXCEPT !.picked = y].kind = fight.kind
      BY <1>1 DEF FightRecord
    <2> QED
      BY <1>1, <1>3, <1>8, <2>1, YouStrikeInv
  <1>9. CASE YouStrike(c, fight)
    BY <1>1, <1>3, <1>9, YouStrikeInv
  <1> QED
    BY <1>2, <1>5, <1>6, <1>7, <1>8, <1>9 DEF c

LEMMA GateInv == ASSUME Inv, FaceGatekeeper \/ SeekLadon PROVE Inv'
  <1>1. ASSUME NEW c, Living(c), NEW y \in BOOLEAN
        PROVE  Living([c EXCEPT !.gate = y]) /\ [c EXCEPT !.gate = y].level = c.level
    BY <1>1 DEF Living, Sound, ClimberType, FullHp
  <1>2. Living(climber) /\ fight = None /\ event = None /\ event' = None
    BY HereIsQuiet DEF FaceGatekeeper, SeekLadon, Scene
  <1>3. CASE FaceGatekeeper
    BY <1>1, <1>2, <1>3, OpenFightInv DEF FaceGatekeeper, Kind
  <1>4. CASE SeekLadon
    <2>1. ASSUME NEW y \in BOOLEAN, NEW n \in 0..MaxFights
          PROVE  Living([climber EXCEPT !.gate = y, !.fights = n])
      BY <1>2 DEF Living, Sound, ClimberType, FullHp
    <2>2. climber.fights - 1 \in 0..MaxFights
      BY <1>2, <1>4, DayAssumption DEF SeekLadon, Living, Sound, ClimberType
    <2>3. Living([climber EXCEPT !.gate = TRUE, !.fights = @ - 1])
      BY <2>1, <2>2
    <2>4. OpenFight([climber EXCEPT !.gate = TRUE, !.fights = @ - 1], "ladon")
      BY <1>4 DEF SeekLadon
    <2> QED
      BY <1>2, <2>3, <2>4, OpenFightInv DEF Kind
  <1> QED
    BY <1>3, <1>4

LEMMA TownInv == ASSUME Inv, Heal \/ Buy \/ Plant PROVE Inv'
  <1>1. Living(climber) /\ climber.purse \in 0..MaxPurse /\ climber.hp \in Nat
    BY HereIsQuiet DEF Heal, Buy, Plant, Scene, Living, Sound, ClimberType
  <1>2. CASE Heal
    <2>1. PICK n \in 1..Fewer(FullHp(climber) - climber.hp, climber.purse) :
              Becomes({[climber EXCEPT !.hp = @ + n, !.purse = @ - n]})
      BY <1>2 DEF Heal
    <2>2. FullHp(climber) \in Nat
      BY <1>1, FullHpType DEF Living, Sound
    <2>3. /\ climber.hp + n \in Nat \ {0} /\ climber.hp + n <= FullHp(climber)
          /\ climber.purse - n \in 0..MaxPurse
      BY <1>1, <2>2, DayAssumption DEF Fewer
    <2>4. Living([climber EXCEPT !.hp = @ + n])
      BY <1>1, <2>3, HpLives
    <2>5. ASSUME NEW h \in Nat \ {0}, h <= FullHp(climber), NEW p \in 0..MaxPurse
          PROVE  Living([climber EXCEPT !.hp = h, !.purse = p])
      <3>1. Living([climber EXCEPT !.hp = h])
        BY <1>1, <2>5, HpLives
      <3>2. Living([[climber EXCEPT !.hp = h] EXCEPT !.purse = p])
        BY <3>1, PurseLives
      <3> QED
        BY <3>2
    <2> QED
      BY <1>2, <2>1, <2>3, <2>5, BecomesInv DEF Heal, Scene
  <1>3. CASE Buy
    <2>1. PICK tier \in (climber.weapon + 1)..Fewer(Levels, climber.level + 1) :
              Becomes({[climber EXCEPT !.weapon = tier, !.purse = @ - 1]})
      BY <1>3 DEF Buy
    <2>2. climber.weapon \in 1..Levels /\ climber.level \in 1..Levels
      BY <1>1 DEF Living, Sound, ClimberType
    <2>3. tier \in 1..Levels
      BY <2>1, <2>2, DayAssumption DEF Fewer
    <2>4. climber.purse - 1 \in 0..MaxPurse
      <3>1. climber.purse >= 1
        BY <1>3 DEF Buy
      <3> QED
        BY <1>1, <3>1, DayAssumption
    <2>5. ASSUME NEW t \in 1..Levels, NEW p \in 0..MaxPurse
          PROVE  Living([climber EXCEPT !.weapon = t, !.purse = p])
      BY <1>1 DEF Living, Sound, ClimberType, FullHp
    <2> QED
      BY <1>3, <2>1, <2>3, <2>4, <2>5, BecomesInv DEF Buy, Scene
  <1>4. CASE Plant
    BY <1>1, <1>4, GiftLives, BecomesInv DEF Plant, Scene
  <1> QED
    BY <1>2, <1>3, <1>4

LEMMA SongInv == ASSUME Inv, Song PROVE Inv'
  <1> DEFINE c == [climber EXCEPT !.sung = TRUE]
             bronze == [c EXCEPT !.boost = 1]
  <1>1. Living(climber)
    BY HereIsQuiet DEF Song, Scene
  <1>2. Living(c)
    <2>1. ASSUME NEW y \in BOOLEAN PROVE Living([climber EXCEPT !.sung = y])
      BY <1>1 DEF Living, Sound, ClimberType, FullHp
    <2> QED
      BY <2>1
  <1>3. bronze \in ClimberType /\ bronze.alive
    <2>1. ASSUME NEW b \in {0, 1}
          PROVE  [c EXCEPT !.boost = b] \in ClimberType /\ [c EXCEPT !.boost = b].alive = c.alive
      BY <1>2 DEF Living, Sound, ClimberType
    <2> QED
      BY <1>2, <2>1 DEF Living
  <1>4. ASSUME NEW f \in 0..MaxFights, NEW n \in Nat, NEW y \in BOOLEAN
        PROVE  /\ Living([c EXCEPT !.fights = f]) /\ Living([c EXCEPT !.skill = n])
               /\ Living([c EXCEPT !.mercy = y])
    BY <1>2 DEF Living, Sound, ClimberType, FullHp
  <1>5. Fewer(c.fights + 1, MaxFights) \in 0..MaxFights /\ c.skill + 1 \in Nat
    <2>1. c.fights \in 0..MaxFights /\ c.skill \in Nat
      BY <1>2 DEF Living, Sound, ClimberType
    <2> HIDE DEF c
    <2> QED
      BY <2>1, DayAssumption DEF Fewer
  <1>6. Becomes({c,
                 [c EXCEPT !.fights = Fewer(@ + 1, MaxFights)],
                 [bronze EXCEPT !.hp = FullHp(bronze)],
                 [c EXCEPT !.skill = @ + 1],
                 [c EXCEPT !.mercy = TRUE]} \cup Paid(c) \cup Wiser(c))
    BY DEF Song
  <1>7. Living([bronze EXCEPT !.hp = FullHp(bronze)])
    BY <1>3, FilledLives
  <1> HIDE DEF c, bronze
  <1> QED
    BY <1>2, <1>4, <1>5, <1>6, <1>7, PaidLives, WiserLives, BecomesInv DEF Song, Scene

LEMMA LetheInv == ASSUME Inv, Drink \/ Court \/ Approach \/ Divorce PROVE Inv'
  <1>1. CASE Drink
    <2>1. PICK h \in climber.hp..FullHp(climber) :
              Becomes({[climber EXCEPT !.purse = @ - 1, !.hp = h]})
      BY <1>1 DEF Drink
    <2>2. Living(climber) /\ climber.purse - 1 \in 0..MaxPurse
      <3>1. Living(climber)
        BY <1>1, HereIsQuiet DEF Drink, Scene
      <3>2. climber.purse \in 0..MaxPurse
        BY <3>1 DEF Living, Sound, ClimberType
      <3>3. climber.purse >= 1
        BY <1>1 DEF Drink
      <3> QED
        BY <3>1, <3>2, <3>3, DayAssumption
    <2>3. h \in Nat \ {0} /\ h <= FullHp(climber)
      BY <2>1, <2>2, FullHpType DEF Living, Sound, ClimberType
    <2>4. ASSUME NEW p \in 0..MaxPurse
          PROVE  Living([climber EXCEPT !.purse = p, !.hp = h])
      <3>1. Living([[climber EXCEPT !.purse = p] EXCEPT !.hp = h])
        BY <2>2, <2>3, PurseLives, HpLives
      <3> QED
        BY <3>1
    <2> QED
      BY <1>1, <2>1, <2>2, <2>4, BecomesInv DEF Drink, Scene
  <1>2. CASE Court
    <2>1. Living(climber)
      BY <1>2, HereIsQuiet DEF Court, Scene
    <2>2. climber.purse >= 1 => Living([climber EXCEPT !.purse = @ - 1])
      <3>1. climber.purse >= 1 => 1 \in 1..climber.purse
        BY <2>1 DEF Living, Sound, ClimberType
      <3> QED
        BY <2>1, <3>1, PaysLives
    <2> QED
      BY <1>2, <2>1, <2>2, WiserLives, BecomesInv DEF Court, Scene
  <1>3. CASE Approach
    <2>1. Living(climber) /\ climber.hp > 0 /\ fight = None
      BY <1>3 DEF Approach, Here, Inv, TypeOK, HpFits, SceneHasItsMatter, Living, Sound
    <2> QED
      BY <1>3, <2>1, NoneAssumption
      DEF Approach, Inv, TypeOK, HpFits, SceneHasItsMatter, GateHasAnotherSide, Living, Sound,
          Scene, Event, Suitor, FullHp
  <1>4. CASE Divorce
    <2>1. Living(climber') /\ fight' = None
      BY <1>4 DEF Divorce, Here, Inv, TypeOK, HpFits, SceneHasItsMatter, Living, Sound, FullHp
    <2> QED
      BY <1>4, <2>1, QuietInv DEF Divorce, Scene
  <1> QED
    BY <1>1, <1>2, <1>3, <1>4

LEMMA FireInv == ASSUME Inv, Throw \/ NewCalling PROVE Inv'
  <1>1. Living(climber)
    BY HereIsQuiet DEF Throw, NewCalling, Scene
  <1>2. CASE Throw
    <2>1. PICK stake \in 1..climber.purse :
              Becomes(Paid(climber) \cup {[climber EXCEPT !.purse = @ - stake]})
      BY <1>2 DEF Throw
    <2> QED
      BY <1>1, <1>2, <2>1, PaidLives, PaysLives, BecomesInv DEF Throw, Scene
  <1>3. CASE NewCalling
    <2>1. PICK k \in Calling :
              Becomes({[climber EXCEPT !.calling = k, !.skill = Fewer(@, SkillUses)]})
      BY <1>3 DEF NewCalling
    <2>2. Fewer(climber.skill, SkillUses) \in Nat
      BY <1>1, DayAssumption DEF Fewer, Living, Sound, ClimberType
    <2>3. ASSUME NEW n \in Nat
          PROVE  Living([climber EXCEPT !.calling = k, !.skill = n])
      BY <1>1 DEF Living, Sound, ClimberType, FullHp
    <2> QED
      BY <1>3, <2>1, <2>2, <2>3, BecomesInv DEF NewCalling, Scene
  <1> QED
    BY <1>2, <1>3

LEMMA DawnInv == ASSUME Inv, Dawn PROVE Inv'
  <1> DEFINE r == Rested(climber)
  <1>1. Living(r)
    BY RestedLives DEF Inv, TypeOK, HpFits, Sound
  <1> HIDE DEF r
  <1>2. Living([r EXCEPT !.fights = Fewer(@ + 1, MaxFights)])
    <2>1. ASSUME NEW f \in 0..MaxFights PROVE Living([r EXCEPT !.fights = f])
      BY <1>1 DEF Living, Sound, ClimberType, FullHp
    <2>2. Fewer(r.fights + 1, MaxFights) \in 0..MaxFights
      BY <1>1, DayAssumption DEF Fewer, Living, Sound, ClimberType
    <2> QED
      BY <2>1, <2>2
  <1>3. climber' \in WithSpouse(r)
    BY DEF Dawn, r
  <1>4. Living(climber')
    BY <1>1, <1>2, <1>3, PaidLives DEF WithSpouse
  <1> QED
    BY <1>4, QuietInv DEF Dawn, Scene

-----------------------------------------------------------------------------
(* The theorems *)

LEMMA InitInv == Init => Inv
  <1> SUFFICES ASSUME Init PROVE Inv
    OBVIOUS
  <1>1. Living(climber) /\ climber.hp > 0
    BY NewcomerLives DEF Init, Living, Sound
  <1> QED
    BY <1>1, NoneAssumption
    DEF Init, Inv, TypeOK, HpFits, SceneHasItsMatter, GateHasAnotherSide, Living, Sound, Scene,
        Event, Suitor

LEMMA NextInv == Inv /\ [Next]_vars => Inv'
  <1> SUFFICES ASSUME Inv, [Next]_vars PROVE Inv'
    OBVIOUS
  <1>1. ASSUME NEW s \in Scene, Go(s) PROVE Inv'
    BY <1>1, GoInv
  <1>2. CASE Seek \/ Answer \/ Fight
    BY <1>2, SeekInv, AnswerInv, FightInv
  <1>3. CASE FaceGatekeeper \/ SeekLadon
    BY <1>3, GateInv
  <1>4. CASE Heal \/ Buy \/ Plant
    BY <1>4, TownInv
  <1>5. CASE Song \/ Dawn
    BY <1>5, SongInv, DawnInv
  <1>6. CASE Drink \/ Court \/ Approach \/ Divorce
    BY <1>6, LetheInv
  <1>7. CASE Throw \/ NewCalling
    BY <1>7, FireInv
  <1>8. CASE UNCHANGED vars
    BY <1>8 DEF vars, Inv, TypeOK, HpFits, SceneHasItsMatter, GateHasAnotherSide, FullHp
  <1> QED
    BY <1>1, <1>2, <1>3, <1>4, <1>5, <1>6, <1>7, <1>8 DEF Next

\* Whatever a climber does, day after day and ascent after ascent, the row holds
\* what lib/climb/rules.py and scenes.py declare.
THEOREM TypeCorrect == Spec => []TypeOK
  <1>1. Inv => TypeOK
    BY DEF Inv
  <1> QED
    BY <1>1, InitInv, NextInv, PTL DEF Spec

\* On a mountain of any height and with blows of any force, the living have hit
\* points and the dead have none, and nobody has more than fit.
THEOREM HitPointsFit == Spec => []HpFits
  <1>1. Inv => HpFits
    BY DEF Inv
  <1> QED
    BY <1>1, InitInv, NextInv, PTL DEF Spec

\* The row of a climber is as rules.py declares it, on a mountain of any height.
THEOREM ClimberSound == Spec => []ClimberIsSound
  BY TypeCorrect, HitPointsFit, PTL DEF ClimberIsSound

\* No sequence of requests separates a screen from the fight, event or suitor it
\* is about, or leaves one behind.
THEOREM ScenesMatter == Spec => []SceneHasItsMatter
  <1>1. Inv => SceneHasItsMatter
    BY DEF Inv
  <1> QED
    BY <1>1, InitInv, NextInv, PTL DEF Spec

-----------------------------------------------------------------------------
(* The blessing *)

\* In a fight that can kill, the blessing is on the fight and no longer on the
\* climber.
BlessingIsInTheFight == fight # None /\ Lethal(fight) => ~climber.mercy

\* Whoever was alive before a request and is not after it lies in the cot.
LEMMA DeadLieThere == ASSUME Inv', ~climber'.alive PROVE scene' \in {"dead", "stele"}
  BY DEF Inv, SceneHasItsMatter

LEMMA AfterBlowsTells ==
    ASSUME NEW c, NEW f, f.kind \in Kind, NEW outcome, AfterBlows(c, f, outcome)
    PROVE  /\ scene' \in {"dead", "stele"} => outcome = "lost" /\ Lethal(f)
           /\ fight' = None \/ (fight' = f /\ climber' = c)
  BY DEF AfterBlows, Standing, Over, Lethal, Kind

LEMMA FoeStrikesTells ==
    ASSUME NEW c \in ClimberType, NEW f, f.kind \in Kind, FoeStrikes(c, f)
    PROVE  /\ scene' \in {"dead", "stele"} => ~f.mercy /\ Lethal(f)
           /\ fight' = None \/ (fight'.kind = f.kind /\ climber'.mercy = c.mercy)
  <1>1. PICK s \in Struck(c, f) : AfterBlows([c EXCEPT !.hp = s.hp], f, s.outcome)
    BY DEF FoeStrikes
  <1>2. s.outcome = "lost" => ~f.mercy
    BY DEF Struck
  <1>3. [c EXCEPT !.hp = s.hp].mercy = c.mercy
    BY DEF ClimberType
  <1> QED
    BY <1>1, <1>2, <1>3, AfterBlowsTells

LEMMA YouStrikeTells ==
    ASSUME NEW c \in ClimberType, NEW f \in FightRecord, YouStrike(c, f)
    PROVE  /\ scene' \in {"dead", "stele"} => ~f.mercy /\ Lethal(f)
           /\ fight' = None \/ (fight'.kind = f.kind /\ climber'.mercy = c.mercy)
  <1>1. PICK h \in Strike(f) : IF h = 0 THEN AfterBlows(c, [f EXCEPT !.hp = 0], "won")
                               ELSE FoeStrikes(c, [f EXCEPT !.hp = h])
    BY DEF YouStrike
  <1> DEFINE g == [f EXCEPT !.hp = h]
  <1>2. g.kind = f.kind /\ g.mercy = f.mercy /\ (Lethal(g) <=> Lethal(f))
    BY DEF FightRecord, Lethal
  <1>3. f.kind \in Kind /\ "won" # "lost"
    BY DEF FightRecord
  <1>4. AfterBlows(c, g, "won") \/ FoeStrikes(c, g)
    BY <1>1
  <1> HIDE DEF g
  <1>5. CASE AfterBlows(c, g, "won")
    BY <1>2, <1>3, <1>5, AfterBlowsTells
  <1>6. CASE FoeStrikes(c, g)
    BY <1>2, <1>3, <1>6, FoeStrikesTells
  <1> QED
    BY <1>4, <1>5, <1>6

LEMMA OpenFightTells ==
    ASSUME NEW c, Living(c), NEW kind \in Kind, OpenFight(c, kind)
    PROVE  /\ scene' \in {"dead", "stele"} => ~c.mercy
           /\ fight' = None \/ (Lethal(fight') => ~climber'.mercy)
  <1> DEFINE blessed == c.mercy /\ kind # "gatekeeper"
             d == [c EXCEPT !.mercy = @ /\ ~blessed]
             f(h) == [kind |-> kind, hp |-> h, mercy |-> blessed, picked |-> FALSE]
  <1>1. PICK h \in 1..FoeHp : Standing(d, f(h)) \/ FoeStrikes(d, f(h))
    BY Zenon DEF OpenFight
  <1>2. d \in ClimberType /\ (d.mercy <=> c.mercy /\ ~blessed)
    <2>1. ASSUME NEW m \in BOOLEAN
          PROVE  [c EXCEPT !.mercy = m] \in ClimberType /\ [c EXCEPT !.mercy = m].mercy = m
      BY DEF Living, Sound, ClimberType
    <2>2. (c.mercy /\ ~blessed) \in BOOLEAN
      OBVIOUS
    <2> QED
      BY <2>1, <2>2, Zenon
  <1>3. f(h).kind = kind /\ (f(h).mercy <=> blessed)
    BY Zenon
  <1>4. CASE Standing(d, f(h))
    BY <1>2, <1>3, <1>4 DEF Standing, Lethal
  <1>5. CASE FoeStrikes(d, f(h))
    BY <1>2, <1>3, <1>5, FoeStrikesTells DEF Lethal
  <1> QED
    BY <1>1, <1>4, <1>5

LEMMA FightTells ==
    ASSUME Inv, Fight
    PROVE  /\ scene' \in {"dead", "stele"} => ~fight.mercy /\ Lethal(fight)
           /\ fight' = None \/ (fight'.kind = fight.kind /\ climber'.mercy = climber.mercy)
  <1>1. climber \in ClimberType /\ fight \in FightRecord /\ fight.kind \in Kind
    BY DEF Fight, Here, Inv, TypeOK, SceneHasItsMatter, FightRecord
  <1>2. PICK a \in Blows(climber, fight) :
          LET c == [climber EXCEPT !.skill = IF a \in {"attack", "run"} THEN @ ELSE @ - 1]
          IN  \/ a = "run" /\ (AfterBlows(c, fight, "fled") \/ FoeStrikes(c, fight))
              \/ a = "shadow" /\ AfterBlows(c, fight, "fled")
              \/ a = "mend" /\ \E h \in c.hp..FullHp(c) : FoeStrikes([c EXCEPT !.hp = h], fight)
              \/ a = "quick_hands" /\ YouStrike(c, [fight EXCEPT !.picked = TRUE])
              \/ a \in {"attack", "fury", "flame"} /\ YouStrike(c, fight)
    BY DEF Fight
  <1> DEFINE c == [climber EXCEPT !.skill = IF a \in {"attack", "run"} THEN @ ELSE @ - 1]
  <1>3. c \in ClimberType /\ c.mercy = climber.mercy /\ "fled" # "lost"
    <2>1. ASSUME NEW n \in Nat
          PROVE  /\ [climber EXCEPT !.skill = n] \in ClimberType
                 /\ [climber EXCEPT !.skill = n].mercy = climber.mercy
      BY <1>1 DEF ClimberType
    <2>2. (IF a \in {"attack", "run"} THEN climber.skill ELSE climber.skill - 1) \in Nat
      <3>1. climber.skill \in Nat
        BY <1>1 DEF ClimberType
      <3>2. a \in {"attack", "run"} \/ climber.skill > 0
        BY DEF Blows
      <3> QED
        BY <3>1, <3>2
    <2> QED
      BY <2>1, <2>2
  <1> HIDE DEF c
  <1>4. CASE AfterBlows(c, fight, "fled")
    BY <1>1, <1>3, <1>4, AfterBlowsTells
  <1>5. CASE FoeStrikes(c, fight)
    BY <1>1, <1>3, <1>5, FoeStrikesTells
  <1>6. CASE \E h \in c.hp..FullHp(c) : FoeStrikes([c EXCEPT !.hp = h], fight)
    <2>1. PICK h \in c.hp..FullHp(c) : FoeStrikes([c EXCEPT !.hp = h], fight)
      BY <1>6
    <2>2. c.hp \in Nat /\ FullHp(c) \in Nat
      BY <1>3, FullHpType DEF ClimberType
    <2>3. [c EXCEPT !.hp = h] \in ClimberType /\ [c EXCEPT !.hp = h].mercy = c.mercy
      BY <1>3, <2>2 DEF ClimberType
    <2> QED
      BY <1>1, <1>3, <2>1, <2>3, FoeStrikesTells
  <1>7. CASE YouStrike(c, [fight EXCEPT !.picked = TRUE])
    <2> DEFINE g == [fight EXCEPT !.picked = TRUE]
    <2>1. g \in FightRecord /\ g.kind = fight.kind /\ g.mercy = fight.mercy
      <3>1. ASSUME NEW y \in BOOLEAN
            PROVE  LET e == [fight EXCEPT !.picked = y]
                   IN  e \in FightRecord /\ e.kind = fight.kind /\ e.mercy = fight.mercy
        BY <1>1 DEF FightRecord
      <3> QED
        BY <3>1
    <2>2. YouStrike(c, g)
      BY <1>7
    <2> HIDE DEF g
    <2> QED
      BY <1>3, <2>1, <2>2, YouStrikeTells DEF Lethal
  <1>8. CASE YouStrike(c, fight)
    BY <1>1, <1>3, <1>8, YouStrikeTells
  <1> QED
    BY <1>2, <1>4, <1>5, <1>6, <1>7, <1>8 DEF c

\* What else there is to do is done out of a fight, and starts or kills nobody.
Errand ==
    \/ \E s \in Scene : Go(s)
    \/ Heal \/ Buy \/ Plant \/ Song \/ Drink \/ Court \/ Approach \/ Divorce \/ Throw \/ NewCalling
    \/ Dawn

LEMMA ErrandTells ==
    ASSUME Inv, Errand
    PROVE  /\ fight' = None
           /\ climber.alive => climber'.alive \/ scene' \notin {"dead", "stele"} \/ climber' = climber
  <1>1. CASE \E s \in Scene : Go(s)
    BY <1>1, GoInv, DoorsLead DEF Inv, TypeOK, SceneHasItsMatter, Go
  <1>2. CASE Heal \/ Buy \/ Plant \/ Song \/ Drink \/ Court \/ Throw \/ NewCalling
    <2>1. PICK s \in Scene \ {"fight", "event", "suitor", "dead", "stele"} : Here(s)
      BY <1>2 DEF Heal, Buy, Plant, Song, Drink, Court, Throw, NewCalling, Scene
    <2>2. UNCHANGED <<scene, fight>>
      BY <1>2 DEF Heal, Buy, Plant, Song, Drink, Court, Throw, NewCalling, Becomes
    <2> QED
      BY <2>1, <2>2, HereIsQuiet DEF Here
  <1>3. CASE Approach \/ Divorce \/ Dawn
    BY <1>3 DEF Approach, Divorce, Dawn, Here, Inv, SceneHasItsMatter
  <1> QED
    BY <1>1, <1>2, <1>3 DEF Errand

\* Who goes looking for a fight, or is found by one, was in none before.
Adventure == Seek \/ Answer \/ FaceGatekeeper \/ SeekLadon

LEMMA AdventureTells ==
    ASSUME Inv, Adventure
    PROVE  /\ fight = None /\ climber.alive
           /\ climber'.alive \/ ~climber.mercy
           /\ fight' = None \/ (Lethal(fight') => ~climber'.mercy)
  <1>0. Inv'
    BY SeekInv, AnswerInv, GateInv DEF Adventure
  <1>1. Living(climber) /\ climber.alive /\ fight = None
    BY DEF Adventure, Seek, Answer, FaceGatekeeper, SeekLadon, Here, Inv, TypeOK, HpFits,
           SceneHasItsMatter, Living, Sound
  <1>2. climber'.alive \/ scene' \in {"dead", "stele"}
    BY <1>0, DeadLieThere
  <1>3. ASSUME NEW c, Living(c), c.mercy = climber.mercy, NEW kind \in Kind, OpenFight(c, kind)
        PROVE  /\ climber'.alive \/ ~climber.mercy
               /\ fight' = None \/ (Lethal(fight') => ~climber'.mercy)
    BY <1>2, <1>3, OpenFightTells
  <1>4. ASSUME NEW y \in BOOLEAN, NEW n \in 0..MaxFights
        PROVE  /\ Living([climber EXCEPT !.gate = y])
               /\ [climber EXCEPT !.gate = y].mercy = climber.mercy
               /\ Living([climber EXCEPT !.fights = n])
               /\ [climber EXCEPT !.fights = n].mercy = climber.mercy
               /\ Living([climber EXCEPT !.gate = y, !.fights = n])
               /\ [climber EXCEPT !.gate = y, !.fights = n].mercy = climber.mercy
    BY <1>1 DEF Living, Sound, ClimberType, FullHp
  <1>5. climber.fights > 0 => climber.fights - 1 \in 0..MaxFights
    <2>1. climber.fights \in 0..MaxFights
      BY <1>1 DEF Living, Sound, ClimberType
    <2> QED
      BY <2>1, DayAssumption
  <1>6. {"creature", "gatekeeper", "ladon"} = Kind
    BY DEF Kind
  <1>7. CASE Seek
    <2>1. CASE scene' = "slopes" /\ UNCHANGED fight
      BY <1>1, <1>2, <2>1
    <2>2. CASE scene' = "event" /\ UNCHANGED fight
      BY <1>1, <1>2, <2>2
    <2>3. CASE OpenFight([climber EXCEPT !.fights = @ - 1], "creature")
      <3>1. climber.fights - 1 \in 0..MaxFights
        BY <1>5, <1>7 DEF Seek
      <3> DEFINE c == [climber EXCEPT !.fights = @ - 1]
      <3>2. Living(c) /\ c.mercy = climber.mercy /\ OpenFight(c, "creature")
        BY <1>4, <2>3, <3>1
      <3> HIDE DEF c
      <3> QED
        BY <1>1, <1>3, <1>6, <3>2
    <2> QED
      BY <1>7, <2>1, <2>2, <2>3 DEF Seek, Here
  <1>8. CASE Answer
    <2>1. CASE scene' = "slopes" /\ UNCHANGED fight
      BY <1>1, <1>2, <2>1
    <2>2. CASE OpenFight(climber, "creature")
      BY <1>1, <1>3, <1>6, <2>2
    <2> QED
      BY <1>8, <2>1, <2>2 DEF Answer
  <1>9. CASE FaceGatekeeper
    <2> DEFINE c == [climber EXCEPT !.gate = TRUE]
    <2>1. Living(c) /\ c.mercy = climber.mercy
      <3>1. 0 \in 0..MaxFights
        BY DayAssumption
      <3> QED
        BY <1>4, <3>1
    <2>2. OpenFight(c, "gatekeeper")
      BY <1>9 DEF FaceGatekeeper
    <2> HIDE DEF c
    <2> QED
      BY <1>1, <1>3, <1>6, <2>1, <2>2
  <1>10. CASE SeekLadon
    <2>1. climber.fights - 1 \in 0..MaxFights
      BY <1>5, <1>10 DEF SeekLadon
    <2> DEFINE c == [climber EXCEPT !.gate = TRUE, !.fights = @ - 1]
    <2>2. Living(c) /\ c.mercy = climber.mercy
      BY <1>4, <2>1
    <2>3. OpenFight(c, "ladon")
      BY <1>10 DEF SeekLadon
    <2> HIDE DEF c
    <2> QED
      BY <1>1, <1>3, <1>6, <2>2, <2>3
  <1> QED
    BY <1>1, <1>7, <1>8, <1>9, <1>10 DEF Adventure, Living

LEMMA Steps == Next <=> Errand \/ Adventure \/ Fight
  BY Zenon DEF Next, Errand, Adventure

LEMMA BlessingInv == Inv /\ BlessingIsInTheFight /\ [Next]_vars => BlessingIsInTheFight'
  <1> SUFFICES ASSUME Inv, BlessingIsInTheFight, [Next]_vars PROVE BlessingIsInTheFight'
    OBVIOUS
  <1>1. CASE Errand
    BY <1>1, ErrandTells DEF BlessingIsInTheFight
  <1>2. CASE Adventure
    BY <1>2, AdventureTells DEF BlessingIsInTheFight
  <1>3. CASE Fight
    <2>1. fight # None
      BY <1>3, NoneAssumption DEF Fight, Here, Inv, SceneHasItsMatter
    <2> QED
      BY <1>3, <2>1, FightTells DEF BlessingIsInTheFight, Lethal
  <1>4. CASE UNCHANGED vars
    BY <1>4 DEF vars, BlessingIsInTheFight, Lethal
  <1> QED
    BY <1>1, <1>2, <1>3, <1>4, Steps

LEMMA DeathStep ==
    ASSUME Inv, BlessingIsInTheFight, Next, climber.alive, ~climber'.alive
    PROVE  ~climber.mercy /\ (fight # None => ~fight.mercy)
  <1>1. scene' \in {"dead", "stele"}
    BY NextInv, DeadLieThere
  <1>2. CASE Errand
    BY <1>1, <1>2, ErrandTells
  <1>3. CASE Adventure
    BY <1>3, AdventureTells
  <1>4. CASE Fight
    <2>1. fight # None
      BY <1>4, NoneAssumption DEF Fight, Here, Inv, SceneHasItsMatter
    <2> QED
      BY <1>1, <1>4, <2>1, FightTells DEF BlessingIsInTheFight
  <1> QED
    BY <1>2, <1>3, <1>4, Steps

\* Nobody dies with A Stone Remembers on them, in any fight against any foe.
THEOREM MercyHolds == Spec => MercySaves
  <1>1. Init => BlessingIsInTheFight
    BY DEF Init, BlessingIsInTheFight
  <1>2. Inv /\ BlessingIsInTheFight /\ [Next]_vars =>
            [climber.alive /\ ~climber'.alive =>
                ~climber.mercy /\ (fight # None => ~fight.mercy)]_vars
    BY DeathStep
  <1> QED
    BY <1>1, <1>2, InitInv, NextInv, BlessingInv, PTL DEF Spec, MercySaves

-----------------------------------------------------------------------------
(* Rounds *)

\* What a fight that goes on owes to the climber's uses of skills.
LEMMA SkillTold ==
    ASSUME NEW n \in Nat \ {0}, NEW m \in Nat
    PROVE  (n - 1) * (m + 1) = n * (m + 1) - (m + 1) /\ n * (m + 1) \in Nat
  OBVIOUS

LEMMA FoeStrikesRound ==
    ASSUME NEW c \in ClimberType, NEW f \in FightRecord, FoeStrikes(c, f), fight' # None
    PROVE  /\ fight' = f /\ climber'.skill = c.skill /\ FullHp(climber') = FullHp(c)
           /\ climber'.hp \in Nat /\ climber'.hp < c.hp
  <1>1. PICK b \in 1..MaxBlow :
            LET s == IF b < c.hp THEN [hp |-> c.hp - b, outcome |-> "ongoing"]
                     ELSE IF f.mercy THEN [hp |-> 1, outcome |-> "fled"]
                     ELSE [hp |-> IF Lethal(f) THEN 0 ELSE 1, outcome |-> "lost"]
            IN  AfterBlows([c EXCEPT !.hp = s.hp], f, s.outcome)
    BY DEF FoeStrikes, Struck
  <1>2. b < c.hp
    BY <1>1 DEF AfterBlows, Over
  <1>3. AfterBlows([c EXCEPT !.hp = c.hp - b], f, "ongoing")
    BY <1>1, <1>2
  <1>4. fight' = f /\ climber' = [c EXCEPT !.hp = c.hp - b]
    BY <1>3 DEF AfterBlows, Over, Standing
  <1>5. c.hp \in Nat /\ b \in Nat \ {0}
    BY DayAssumption DEF ClimberType
  <1>6. /\ climber'.hp = c.hp - b /\ climber'.skill = c.skill /\ climber'.level = c.level
        /\ climber'.gift = c.gift /\ climber'.boost = c.boost
    BY <1>4 DEF ClimberType
  <1> QED
    BY <1>2, <1>4, <1>5, <1>6 DEF FullHp

LEMMA YouStrikeRound ==
    ASSUME NEW c \in ClimberType, NEW f \in FightRecord, YouStrike(c, f), fight' # None
    PROVE  /\ fight'.hp < f.hp /\ fight'.hp \in Nat
           /\ climber'.skill = c.skill /\ FullHp(climber') = FullHp(c)
           /\ climber'.hp \in Nat /\ climber'.hp < c.hp
  <1>1. PICK b \in 1..MaxBlow : LET h == IF b < f.hp THEN f.hp - b ELSE 0
                                IN  IF h = 0 THEN AfterBlows(c, [f EXCEPT !.hp = 0], "won")
                                    ELSE FoeStrikes(c, [f EXCEPT !.hp = h])
    BY DEF YouStrike, Strike
  <1>2. ~AfterBlows(c, [f EXCEPT !.hp = 0], "won")
    BY DEF AfterBlows, Over
  <1>3. b < f.hp /\ FoeStrikes(c, [f EXCEPT !.hp = f.hp - b])
    BY <1>1, <1>2
  <1> DEFINE n == f.hp - b
             g == [f EXCEPT !.hp = n]
  <1>4. n \in 1..FoeHp /\ n < f.hp
    BY <1>3, DayAssumption DEF FightRecord
  <1>5. FoeStrikes(c, g)
    BY <1>3
  <1> HIDE DEF n
  <1>6. g \in FightRecord /\ g.hp = n
    BY <1>4 DEF FightRecord
  <1> HIDE DEF g
  <1> QED
    BY <1>4, <1>5, <1>6, FoeStrikesRound

\* A fight that goes on has been through a round of fight.
LEMMA OnlyFightGoesOn ==
    ASSUME Inv, Next, fight # None, fight' # None
    PROVE  Fight
  <1>1. scene = "fight"
    BY DEF Inv, SceneHasItsMatter
  <1>2. CASE \E s \in Scene : Go(s)
    BY <1>1, <1>2, DoorsLead DEF Go, Inv, TypeOK
  <1>3. CASE Seek \/ Answer \/ FaceGatekeeper \/ SeekLadon
    BY <1>1, <1>3 DEF Seek, Answer, FaceGatekeeper, SeekLadon, Here
  <1>4. CASE Heal \/ Buy \/ Plant \/ Song \/ Drink \/ Court \/ Approach \/ Divorce \/ Throw
                \/ NewCalling
    BY <1>1, <1>4 DEF Heal, Buy, Plant, Song, Drink, Court, Approach, Divorce, Throw, NewCalling, Here
  <1>5. CASE Dawn
    BY <1>5 DEF Dawn
  <1> QED
    BY <1>2, <1>3, <1>4, <1>5 DEF Next

LEMMA RoundStep ==
    ASSUME Inv, Fight, fight' # None
    PROVE  RoundsLeft' < RoundsLeft
  <1>1. climber \in ClimberType /\ fight \in FightRecord
    BY DEF Fight, Here, Inv, TypeOK, SceneHasItsMatter, FightRecord
  <1> DEFINE full == FullHp(climber)
  <1>2. /\ climber.hp \in Nat /\ climber.skill \in Nat /\ full \in Nat /\ fight.hp \in Nat
        /\ climber.hp <= full
    BY <1>1, FullHpType DEF ClimberType, FightRecord, Inv, HpFits
  <1>3. PICK a \in Blows(climber, fight) :
          LET c == [climber EXCEPT !.skill = IF a \in {"attack", "run"} THEN @ ELSE @ - 1]
          IN  \/ a = "run" /\ (AfterBlows(c, fight, "fled") \/ FoeStrikes(c, fight))
              \/ a = "shadow" /\ AfterBlows(c, fight, "fled")
              \/ a = "mend" /\ \E h \in c.hp..FullHp(c) : FoeStrikes([c EXCEPT !.hp = h], fight)
              \/ a = "quick_hands" /\ YouStrike(c, [fight EXCEPT !.picked = TRUE])
              \/ a \in {"attack", "fury", "flame"} /\ YouStrike(c, fight)
    BY DEF Fight
  <1> DEFINE n == IF a \in {"attack", "run"} THEN climber.skill ELSE climber.skill - 1
             c == [climber EXCEPT !.skill = n]
  <1>4. /\ n \in Nat /\ (n = climber.skill \/ a \notin {"attack", "run"})
        /\ a \notin {"attack", "run"} => climber.skill \in Nat \ {0} /\ n = climber.skill - 1
    <2>1. a \in {"attack", "run"} \/ climber.skill > 0
      BY DEF Blows
    <2> QED
      BY <1>2, <2>1
  <1>5. \/ a = "run" /\ (AfterBlows(c, fight, "fled") \/ FoeStrikes(c, fight))
        \/ a = "shadow" /\ AfterBlows(c, fight, "fled")
        \/ a = "mend" /\ \E h \in c.hp..FullHp(c) : FoeStrikes([c EXCEPT !.hp = h], fight)
        \/ a = "quick_hands" /\ YouStrike(c, [fight EXCEPT !.picked = TRUE])
        \/ a \in {"attack", "fury", "flame"} /\ YouStrike(c, fight)
    BY <1>3
  <1> HIDE DEF n
  <1>6. c \in ClimberType /\ c.skill = n /\ c.hp = climber.hp /\ FullHp(c) = full
    BY <1>1, <1>4 DEF ClimberType, FullHp
  <1> HIDE DEF c, full
  <1>7. ~AfterBlows(c, fight, "fled")
    BY DEF AfterBlows, Over
  <1>8. SUFFICES /\ climber'.skill = n /\ FullHp(climber') = full
                 /\ fight'.hp \in Nat /\ climber'.hp \in Nat /\ fight'.hp <= fight.hp
                 /\ climber'.hp < climber.hp \/ (n = climber.skill - 1 /\ climber'.hp < full)
    <2>1. /\ RoundsLeft = fight.hp + climber.hp + climber.skill * (full + 1)
          /\ RoundsLeft' = fight'.hp + climber'.hp + n * (full + 1)
      BY <1>8 DEF RoundsLeft, full
    <2>2. CASE n = climber.skill
      BY <1>2, <1>8, <2>1, <2>2
    <2>3. CASE n # climber.skill
      <3>1. n = climber.skill - 1 /\ climber.skill \in Nat \ {0}
        BY <1>2, <1>4, <2>3
      <3>2. /\ n * (full + 1) = climber.skill * (full + 1) - (full + 1)
            /\ climber.skill * (full + 1) \in Nat
        BY <1>2, <3>1, SkillTold
      <3>3. climber'.hp <= full
        BY <1>2, <1>8
      <3> QED
        BY <1>2, <1>8, <2>1, <3>2, <3>3
    <2> QED
      BY <2>2, <2>3
  <1>9. CASE FoeStrikes(c, fight)
    BY <1>1, <1>2, <1>6, <1>9, FoeStrikesRound
  <1>10. CASE a = "mend" /\ \E h \in c.hp..FullHp(c) : FoeStrikes([c EXCEPT !.hp = h], fight)
    <2>1. PICK h \in c.hp..FullHp(c) : FoeStrikes([c EXCEPT !.hp = h], fight)
      BY <1>10
    <2> DEFINE d == [c EXCEPT !.hp = h]
    <2>2. h \in Nat /\ h <= full
      BY <1>2, <1>6
    <2>3. d \in ClimberType /\ d.skill = n /\ d.hp = h /\ FullHp(d) = full
      BY <1>6, <2>2 DEF ClimberType, FullHp
    <2>4. FoeStrikes(d, fight)
      BY <2>1
    <2> HIDE DEF d
    <2>5. /\ fight' = fight /\ climber'.skill = n /\ FullHp(climber') = full
          /\ climber'.hp \in Nat /\ climber'.hp < h
      BY <1>1, <2>3, <2>4, FoeStrikesRound
    <2> QED
      BY <1>2, <1>4, <1>10, <2>2, <2>5
  <1>11. CASE YouStrike(c, [fight EXCEPT !.picked = TRUE])
    <2> DEFINE g == [fight EXCEPT !.picked = TRUE]
    <2>1. g \in FightRecord /\ g.hp = fight.hp
      <3>1. ASSUME NEW y \in BOOLEAN
            PROVE  LET e == [fight EXCEPT !.picked = y] IN e \in FightRecord /\ e.hp = fight.hp
        BY <1>1 DEF FightRecord
      <3> QED
        BY <3>1
    <2>2. YouStrike(c, g)
      BY <1>11
    <2> HIDE DEF g
    <2> QED
      BY <1>2, <1>6, <2>1, <2>2, YouStrikeRound
  <1>12. CASE YouStrike(c, fight)
    BY <1>1, <1>2, <1>6, <1>12, YouStrikeRound
  <1> QED
    BY <1>5, <1>7, <1>9, <1>10, <1>11, <1>12

\* Every round brings a fight nearer to its end, whatever the blows, a healing or
\* a failed flight included (attack, run, skill).
THEOREM RoundsCount == Spec => EveryRoundCounts
  <1>1. Inv /\ [Next]_vars => [fight # None /\ fight' # None => RoundsLeft' < RoundsLeft]_vars
    BY OnlyFightGoesOn, RoundStep
  <1> QED
    BY <1>1, InitInv, NextInv, PTL DEF Spec, EveryRoundCounts

-----------------------------------------------------------------------------
(* The row *)

\* A copy of the present climber with the present turn is the present row:
\* that is what comparing turns is worth.
CopyInv ==
    \A r \in Req : req[r].copy # NoRow =>
        /\ req[r].copy.life <= lives
        /\ row # NoRow /\ req[r].copy.life = row.life =>
              /\ req[r].copy.turn <= row.turn
              /\ req[r].copy.turn = row.turn => req[r].copy.done = row.done

\* What has been saved into the present climber was loaded at an earlier turn.
SavedInv ==
    \A r \in Req :
        /\ req[r].pc \in {"loaded", "saved"} => req[r].copy # NoRow
        /\ req[r].pc = "saved" =>
              /\ req[r].into \in Nat /\ req[r].into <= lives
              /\ row # NoRow /\ req[r].into = row.life => req[r].copy.turn < row.turn

StoreInv ==
    /\ StoreTypeOK
    /\ row # NoRow => row.life = lives
    /\ CopyInv
    /\ SavedInv
    /\ OneActionPerScreen

-----------------------------------------------------------------------------

\* Nothing has been begun and no request has looked.
LEMMA StoreInitInv == StoreInit => StoreInv
  BY StoreAssumption
  DEF StoreInit, StoreInv, StoreTypeOK, Row, Pc, Fresh, CopyInv, SavedInv, OneActionPerScreen

\* A new climber is one nobody has loaded.
LEMMA CreateStep ==
    ASSUME StoreInv, Create
    PROVE  StoreInv'
  <1> USE StoreAssumption DEF StoreInv
  <1>1. /\ row = NoRow /\ row' = [turn |-> 0, done |-> {}, life |-> lives + 1]
        /\ lives' = lives + 1 /\ UNCHANGED req
        /\ lives \in Nat /\ row' \in Row /\ row' # NoRow /\ row'.life = lives + 1
    BY DEF Create, StoreTypeOK, Row
  <1>2. StoreTypeOK'
    BY <1>1 DEF StoreTypeOK, Row
  <1>3. \A r \in Req : /\ req[r].copy # NoRow => req[r].copy.life \in Nat
                       /\ req[r].into # NoRow => req[r].into \in Nat
    BY DEF StoreTypeOK, Row
  <1>4. CopyInv'
    BY <1>1, <1>3 DEF CopyInv
  <1>5. SavedInv'
    BY <1>1, <1>3 DEF SavedInv
  <1>6. OneActionPerScreen'
    BY <1>1 DEF OneActionPerScreen
  <1> QED
    BY <1>1, <1>2, <1>4, <1>5, <1>6

\* A deleted climber leaves nothing to compare with.
LEMMA DeleteStep ==
    ASSUME StoreInv, Delete
    PROVE  StoreInv'
  BY DEF StoreInv, Delete, StoreTypeOK, CopyInv, SavedInv, OneActionPerScreen

\* A load takes the row as it is.
LEMMA LoadStep ==
    ASSUME StoreInv, NEW r \in Req, Load(r)
    PROVE  StoreInv'
  <1> USE StoreAssumption DEF StoreInv
  <1>1. /\ req[r].pc = "ready" /\ UNCHANGED <<row, lives>>
        /\ req' \in [Req -> [pc: Pc, copy: Row \cup {NoRow}, tries: 0..Tries,
                             into: Nat \cup {NoRow}]]
        /\ \A q \in Req \ {r} : req'[q] = req[q]
        /\ req'[r].pc \in {"loaded", "gone", "stale"}
        /\ req'[r].copy = req[r].copy \/ (row # NoRow /\ req'[r].copy = row)
        /\ req'[r].pc = "loaded" => row # NoRow /\ req'[r].copy = row
    BY DEF Load, StoreTypeOK, Pc
  <1>2. StoreTypeOK'
    BY <1>1 DEF StoreTypeOK
  <1>3. CopyInv'
    BY <1>1 DEF CopyInv, StoreTypeOK, Row
  <1>4. SavedInv'
    BY <1>1 DEF SavedInv
  <1>5. OneActionPerScreen'
    BY <1>1 DEF OneActionPerScreen
  <1> QED
    BY <1>1, <1>2, <1>3, <1>4, <1>5

\* A save that finds its turn raises it, so nothing else is saved from there.
LEMMA SaveStep ==
    ASSUME StoreInv, NEW r \in Req, Save(r)
    PROVE  StoreInv'
  <1> USE StoreAssumption DEF StoreInv
  <1>1. /\ req[r].pc = "loaded" /\ req[r].copy \in Row
        /\ row \in Row /\ row.turn = req[r].copy.turn /\ row.life = lives
        /\ row # NoRow /\ lives \in Nat /\ UNCHANGED lives
    BY DEF Save, Current, StoreTypeOK, SavedInv
  <1>2. /\ row' = [row EXCEPT !.turn = @ + 1, !.done = req[r].copy.done \cup {r}]
        /\ row' \in Row
    <2>1. row.turn + 1 \in Nat /\ req[r].copy.done \cup {r} \in SUBSET Req
      BY <1>1 DEF Row
    <2>2. row' = [row EXCEPT !.turn = @ + 1, !.done = req[r].copy.done \cup {r}]
      BY DEF Save
    <2> QED
      BY <1>1, <2>1, <2>2 DEF Row
  <1>3. /\ row' # NoRow /\ row'.turn = row.turn + 1 /\ row'.life = row.life
    BY <1>1, <1>2 DEF Row
  <1>4. /\ req' \in [Req -> [pc: Pc, copy: Row \cup {NoRow}, tries: 0..Tries,
                             into: Nat \cup {NoRow}]]
        /\ \A q \in Req \ {r} : req'[q] = req[q]
        /\ req'[r].pc = "saved" /\ req'[r].copy = req[r].copy
        /\ req'[r].into = row.life
    <2> DEFINE new == [req[r] EXCEPT !.pc = "saved", !.into = row.life]
    <2>1. row.life \in Nat /\ req[r] \in [pc: Pc, copy: Row \cup {NoRow}, tries: 0..Tries,
                                         into: Nat \cup {NoRow}]
      BY <1>1 DEF StoreTypeOK, Row
    <2>2. /\ new \in [pc: Pc, copy: Row \cup {NoRow}, tries: 0..Tries, into: Nat \cup {NoRow}]
          /\ new.pc = "saved" /\ new.copy = req[r].copy /\ new.into = row.life
      BY <2>1 DEF Pc
    <2>3. req' = [req EXCEPT ![r] = new]
      BY DEF Save
    <2> QED
      BY <2>2, <2>3 DEF StoreTypeOK
  <1>5. StoreTypeOK'
    BY <1>1, <1>2, <1>4 DEF StoreTypeOK
  <1>6. \A q \in Req : req[q].copy # NoRow => req[q].copy.turn \in Nat
    BY DEF StoreTypeOK, Row
  <1>7. row.turn \in Nat
    BY <1>1 DEF Row
  <1>8. CopyInv'
    BY <1>1, <1>3, <1>4, <1>6, <1>7 DEF CopyInv
  <1>9. SavedInv'
    BY <1>1, <1>3, <1>4, <1>6, <1>7 DEF SavedInv, Row
  <1>10. OneActionPerScreen'
    <2> SUFFICES ASSUME NEW p \in Req, NEW q \in Req, p # q,
                        req'[p].pc = "saved", req'[q].pc = "saved",
                        req'[p].into = req'[q].into
                 PROVE  req'[p].copy.turn # req'[q].copy.turn
      BY DEF OneActionPerScreen
    <2>1. CASE p # r /\ q # r
      BY <2>1, <1>4 DEF OneActionPerScreen
    <2>2. CASE p = r
      BY <2>2, <1>1, <1>4, <1>6, <1>7 DEF SavedInv
    <2>3. CASE q = r
      BY <2>3, <1>1, <1>4, <1>6, <1>7 DEF SavedInv
    <2> QED
      BY <2>1, <2>2, <2>3
  <1> QED
    BY <1>1, <1>3, <1>5, <1>8, <1>9, <1>10

\* A save that does not find its turn changes only the request.
LEMMA SaveLostStep ==
    ASSUME StoreInv, NEW r \in Req, SaveLost(r)
    PROVE  StoreInv'
  <1> USE StoreAssumption DEF StoreInv
  <1>1. /\ req[r].pc = "loaded" /\ UNCHANGED <<row, lives>>
        /\ req' \in [Req -> [pc: Pc, copy: Row \cup {NoRow}, tries: 0..Tries,
                             into: Nat \cup {NoRow}]]
        /\ \A q \in Req \ {r} : req'[q] = req[q]
        /\ req'[r].pc \in {"ready", "stale", "failed"}
        /\ req'[r].copy = req[r].copy
    BY DEF SaveLost, StoreTypeOK, Pc
  <1>2. StoreTypeOK'
    BY <1>1 DEF StoreTypeOK
  <1>3. CopyInv'
    BY <1>1 DEF CopyInv
  <1>4. SavedInv'
    BY <1>1 DEF SavedInv
  <1>5. OneActionPerScreen'
    BY <1>1 DEF OneActionPerScreen
  <1> QED
    BY <1>1, <1>2, <1>3, <1>4, <1>5

\* Every step of the row and its requests keeps the invariant.
LEMMA StoreNextInv == StoreInv /\ [StoreNext]_storeVars => StoreInv'
  <1> SUFFICES ASSUME StoreInv, [StoreNext]_storeVars PROVE StoreInv'
    OBVIOUS
  <1>1. CASE UNCHANGED storeVars
    BY <1>1 DEF storeVars, StoreInv, StoreTypeOK, CopyInv, SavedInv, OneActionPerScreen
  <1>2. CASE \E r \in Req : Load(r) \/ Save(r) \/ SaveLost(r)
    BY <1>2, LoadStep, SaveStep, SaveLostStep
  <1> QED
    BY <1>1, <1>2, CreateStep, DeleteStep DEF StoreNext, Done

\* The invariant holds of every state the row and its requests reach.
THEOREM StoreInvariant == StoreSpec => []StoreInv
  BY StoreInitInv, StoreNextInv, PTL DEF StoreSpec

\* The row and its copies are well-formed.
THEOREM StoreTypeCorrect == StoreSpec => []StoreTypeOK
  <1>1. StoreInv => StoreTypeOK
    BY DEF StoreInv
  <1> QED
    BY <1>1, StoreInvariant, PTL

\* However many tabs act at once, one screen brings one action.
THEOREM OneAction == StoreSpec => []OneActionPerScreen
  <1>1. StoreInv => OneActionPerScreen
    BY DEF StoreInv
  <1> QED
    BY <1>1, StoreInvariant, PTL

-----------------------------------------------------------------------------
(* Giving up *)

Saved == {q \in Req : req[q].pc = "saved"}

\* How often a request can have been overtaken: by a save or by a reset.
Overtakings == Cardinality(Saved) + lives - (IF row = NoRow THEN 0 ELSE 1)

\* The row is no longer the one r has loaded.
Overtaken(r) ==
    row = NoRow \/ row.life # req[r].copy.life \/ row.turn # req[r].copy.turn

\* Each try that a request has lost, or is about to lose, somebody has won.
TriesInv ==
    /\ IsFiniteSet(Saved)
    /\ row # NoRow => lives >= 1
    /\ \A r \in Req :
          /\ req[r].tries <= Overtakings
          /\ req[r].pc = "loaded" /\ Overtaken(r) => req[r].tries + 1 <= Overtakings
          /\ req[r].pc = "failed" => req[r].tries = Tries

\* Nobody has tried yet.
LEMMA TriesInit == StoreInit => TriesInv
  <1> SUFFICES ASSUME StoreInit PROVE TriesInv
    OBVIOUS
  <1>1. Saved = {}
    BY DEF StoreInit, Fresh, Saved
  <1> QED
    BY <1>1, FS_EmptySet DEF StoreInit, Fresh, TriesInv, Overtakings

\* Only a lost save raises the tries, and only an overtaken request loses one.
LEMMA TriesNext == StoreInv /\ TriesInv /\ [StoreNext]_storeVars => TriesInv'
  <1> SUFFICES ASSUME StoreInv, TriesInv, [StoreNext]_storeVars PROVE TriesInv'
    OBVIOUS
  <1> USE StoreAssumption
  <1>1. /\ lives \in Nat /\ Tries \in Nat /\ Cardinality(Saved) \in Nat
        /\ \A r \in Req : req[r].tries \in Nat
    BY FS_CardinalityType DEF StoreInv, StoreTypeOK, TriesInv
  <1>2. CASE UNCHANGED storeVars
    BY <1>2 DEF storeVars, TriesInv, Saved, Overtakings, Overtaken
  <1>3. CASE Create
    <2>1. row = NoRow /\ row' # NoRow /\ lives' = lives + 1 /\ UNCHANGED req
      BY <1>1, <1>3 DEF Create, Row
    <2>2. Saved' = Saved /\ Overtakings' = Overtakings
      BY <1>1, <2>1 DEF Saved, Overtakings
    <2> QED
      BY <1>1, <2>1, <2>2 DEF TriesInv, Overtaken
  <1>4. CASE Delete
    <2>1. row # NoRow /\ row' = NoRow /\ UNCHANGED <<lives, req>>
      BY <1>4 DEF Delete
    <2>2. Saved' = Saved /\ Overtakings' = Overtakings + 1 /\ Overtakings \in Int
      BY <1>1, <2>1 DEF Saved, Overtakings
    <2> QED
      BY <1>1, <2>1, <2>2 DEF TriesInv
  <1>5. ASSUME NEW r \in Req, Load(r) PROVE TriesInv'
    <2>1. /\ req[r].pc = "ready" /\ UNCHANGED <<row, lives>>
          /\ \A q \in Req \ {r} : req'[q] = req[q]
          /\ req'[r].pc \in {"loaded", "gone", "stale"} /\ req'[r].tries = req[r].tries
          /\ req'[r].pc = "loaded" => row # NoRow /\ req'[r].copy = row
      BY <1>5 DEF Load, StoreInv, StoreTypeOK
    <2>2. Saved' = Saved
      BY <2>1 DEF Saved
    <2>3. Overtakings' = Overtakings
      BY <2>1, <2>2 DEF Overtakings
    <2> QED
      BY <2>1, <2>2, <2>3 DEF TriesInv, Overtaken
  <1>6. ASSUME NEW r \in Req, Save(r) PROVE TriesInv'
    <2>1. /\ req[r].pc = "loaded" /\ row # NoRow /\ UNCHANGED lives
          /\ \A q \in Req \ {r} : req'[q] = req[q]
          /\ req'[r].pc = "saved" /\ req'[r].tries = req[r].tries
      BY <1>6 DEF Save, Current, StoreInv, StoreTypeOK
    <2>2. row' # NoRow
      <3>1. row \in Row /\ req[r].copy \in Row
        BY <2>1 DEF StoreInv, StoreTypeOK, SavedInv
      <3>2. row.turn + 1 \in Nat /\ req[r].copy.done \cup {r} \in SUBSET Req
        BY <3>1 DEF Row
      <3>3. row' = [row EXCEPT !.turn = @ + 1, !.done = req[r].copy.done \cup {r}]
        BY <1>6 DEF Save
      <3>4. row' \in Row
        BY <3>1, <3>2, <3>3 DEF Row
      <3> QED
        BY <3>4
    <2>3. Saved' = Saved \cup {r} /\ r \notin Saved
      BY <2>1 DEF Saved
    <2>4. IsFiniteSet(Saved') /\ Cardinality(Saved') = Cardinality(Saved) + 1
      BY <2>3, FS_AddElement DEF TriesInv
    <2>5. Overtakings' = Overtakings + 1
      BY <1>1, <2>1, <2>2, <2>4 DEF Overtakings
    <2>6. Overtakings \in Int
      BY <1>1 DEF Overtakings
    <2> QED
      BY <1>1, <2>1, <2>4, <2>5, <2>6 DEF TriesInv
  <1>7. ASSUME NEW r \in Req, SaveLost(r) PROVE TriesInv'
    <2>1. /\ req[r].pc = "loaded" /\ UNCHANGED <<row, lives>>
          /\ \A q \in Req \ {r} : req'[q] = req[q]
          /\ req'[r].pc \in {"ready", "stale", "failed"}
          /\ req'[r].tries \in {req[r].tries, req[r].tries + 1}
          /\ req'[r].pc = "failed" => req'[r].tries = Tries
      BY <1>7 DEF SaveLost, StoreInv, StoreTypeOK
    <2>2. req[r].tries + 1 <= Overtakings
      BY <1>7, <2>1 DEF SaveLost, Current, Overtaken, TriesInv
    <2>3. Saved' = Saved
      BY <2>1 DEF Saved
    <2>4. Overtakings' = Overtakings /\ Overtakings \in Int
      BY <1>1, <2>1, <2>3 DEF Overtakings
    <2> QED
      BY <1>1, <2>1, <2>2, <2>3, <2>4 DEF TriesInv, Overtaken
  <1> QED
    BY <1>2, <1>3, <1>4, <1>5, <1>6, <1>7 DEF StoreNext, Done

\* A change fails only when as many saves and resets as it has tries came
\* between, whatever other requests do.
THEOREM OnlyContention == StoreSpec => []ContentionIsReal
  <1>1. StoreInv /\ TriesInv => ContentionIsReal
    <2> SUFFICES ASSUME StoreInv, TriesInv, NEW r \in Change, req[r].pc = "failed"
                 PROVE  Cardinality(Saved) + lives >= Tries
      BY DEF ContentionIsReal, Saved
    <2>1. lives \in Nat /\ Tries \in Nat /\ Cardinality(Saved) \in Nat
      BY StoreAssumption, FS_CardinalityType DEF StoreInv, StoreTypeOK, TriesInv
    <2>2. Tries <= Overtakings
      BY DEF TriesInv, Req
    <2> QED
      BY <2>1, <2>2 DEF Overtakings
  <1> QED
    BY <1>1, StoreInvariant, TriesInit, TriesNext, PTL DEF StoreSpec

\* For any requests and tries, a screen brings one action and a change that gives
\* up has been beaten often enough.
THEOREM RequestsSound == StoreSpec => []RequestsAreSound
  BY StoreTypeCorrect, OneAction, OnlyContention, PTL DEF RequestsAreSound

-----------------------------------------------------------------------------
(* The refinement *)

\* An empty table keeps the promise.
LEMMA RefinesInit == StoreInit => Promise!Init
  BY DEF StoreInit, Fresh, Promise!Init

\* Comparing turns makes a load and a save one step.
LEMMA RefinesNext == StoreInv /\ [StoreNext]_storeVars => [Promise!Next]_(Promise!rowVars)
  <1> SUFFICES ASSUME StoreInv, [StoreNext]_storeVars PROVE [Promise!Next]_(Promise!rowVars)
    OBVIOUS
  <1> USE StoreAssumption DEF StoreInv, Promise!Next, Promise!rowVars
  <1>0. /\ row # NoRow => row \in Row /\ row.life \in Nat /\ row.life = lives
        /\ \A q \in Req : req[q].copy # NoRow => req[q].copy.life \in Nat
    BY DEF StoreTypeOK, Row
  <1>1. ASSUME Create PROVE Promise!Begin
    <2>1. /\ row = NoRow /\ row' = [turn |-> 0, done |-> {}, life |-> lives + 1]
          /\ row' # NoRow /\ UNCHANGED req /\ lives \in Nat
      BY <1>1 DEF Create, StoreTypeOK, Row
    <2>2. \A q \in Req : req[q].copy # NoRow => req[q].copy.life < lives + 1
      BY <1>0, <2>1 DEF CopyInv
    <2> QED
      BY <2>1, <2>2 DEF Promise!Begin
  <1>2. ASSUME Delete PROVE Promise!Delete
    BY <1>2 DEF Delete, Promise!Delete
  <1>3. ASSUME NEW r \in Req, Load(r) PROVE [Promise!Next]_(Promise!rowVars)
    <2>1. /\ req[r].pc = "ready" /\ UNCHANGED row
          /\ \A q \in Req \ {r} : req'[q] = req[q]
      BY <1>3 DEF Load, StoreTypeOK
    <2>2. CASE row # NoRow /\ req' = [req EXCEPT ![r].pc = "loaded", ![r].copy = row]
      <3>1. req'[r].pc = "loaded" /\ req'[r].copy = row
        BY <2>2 DEF StoreTypeOK
      <3>2. Promise!Look(r)
        <4>1. row # NoRow /\ row.life # NoRow /\ UNCHANGED row
          BY <1>0, <2>1, <2>2
        <4>2. \A q \in Req : /\ req'[q].copy = IF q = r THEN row ELSE req[q].copy
                             /\ req'[q].pc = IF q = r THEN "loaded" ELSE req[q].pc
          BY <2>1, <3>1
        <4> QED
          BY <2>1, <4>1, <4>2 DEF Promise!Look
      <3> QED
        BY <3>2
    <2>3. CASE req' = [req EXCEPT ![r].pc = "gone"] \/ req' = [req EXCEPT ![r].pc = "stale"]
      <3>1. req'[r].pc \in {"gone", "stale"} /\ req'[r].copy = req[r].copy
        BY <2>3 DEF StoreTypeOK
      <3>2. Promise!Refuse(r)
        BY <2>1, <3>1 DEF Promise!Refuse, Promise!Answer
      <3> QED
        BY <3>2
    <2> QED
      BY <1>3, <2>2, <2>3 DEF Load
  <1>4. ASSUME NEW r \in Req, Save(r) PROVE [Promise!Next]_(Promise!rowVars)
    <2>1. /\ req[r].pc = "loaded" /\ req[r].copy # NoRow /\ row # NoRow
          /\ row.turn = req[r].copy.turn
          /\ row' = [row EXCEPT !.turn = @ + 1, !.done = req[r].copy.done \cup {r}]
          /\ row' # NoRow /\ row'.life = row.life /\ row'.done = req[r].copy.done \cup {r}
          /\ req[r].copy.done \subseteq Req
          /\ req[r].copy.life <= row.life
      <3>1. req[r].copy \in Row /\ row \in Row
        BY <1>4 DEF Save, Current, SavedInv, StoreTypeOK
      <3>2. row' = [row EXCEPT !.turn = @ + 1, !.done = req[r].copy.done \cup {r}]
        BY <1>4 DEF Save
      <3>3. /\ req[r].pc = "loaded" /\ req[r].copy # NoRow /\ row # NoRow
            /\ row.turn = req[r].copy.turn
        BY <1>4 DEF Save, Current, SavedInv
      <3>4. /\ req[r].copy.done \subseteq Req /\ row.turn + 1 \in Nat
            /\ req[r].copy.life <= row.life
        BY <3>1, <3>3 DEF Row, CopyInv
      <3>5. /\ row' \in Row /\ row'.life = row.life
            /\ row'.done = req[r].copy.done \cup {r}
        BY <3>1, <3>2, <3>4 DEF Row
      <3> QED
        BY <3>2, <3>3, <3>4, <3>5
    <2>2. /\ \A q \in Req \ {r} : req'[q] = req[q]
          /\ req'[r].pc = "saved" /\ req'[r].copy = req[r].copy
      BY <1>4 DEF Save, StoreTypeOK
    <2>3. CASE req[r].copy.life = row.life
      <3>1. req[r].copy.done = row.done
        BY <2>1, <2>3 DEF CopyInv
      <3>2. Promise!Apply(r)
        BY <1>0, <2>1, <2>2, <2>3, <3>1 DEF Promise!Apply
      <3> QED
        BY <3>2
    <2>4. CASE req[r].copy.life < row.life
      <3>1. Promise!Revive(r)
        BY <1>0, <2>1, <2>2, <2>4 DEF Promise!Revive
      <3> QED
        BY <3>1
    <2> QED
      BY <1>0, <2>1, <2>3, <2>4
  <1>5. ASSUME NEW r \in Req, SaveLost(r) PROVE [Promise!Next]_(Promise!rowVars)
    <2>1. /\ req[r].pc = "loaded" /\ UNCHANGED row
          /\ \A q \in Req \ {r} : req'[q] = req[q]
          /\ req'[r].pc \in {"ready", "stale", "failed"} /\ req'[r].copy = req[r].copy
      BY <1>5 DEF SaveLost, StoreTypeOK
    <2>2. CASE req'[r].pc = "ready"
      BY <2>1, <2>2
    <2>3. CASE req'[r].pc \in {"stale", "failed"}
      <3>1. Promise!Refuse(r)
        BY <2>1, <2>3 DEF Promise!Refuse, Promise!Answer
      <3> QED
        BY <3>1
    <2> QED
      BY <2>1, <2>2, <2>3
  <1>6. CASE UNCHANGED storeVars
    BY <1>6 DEF storeVars
  <1> QED
    BY <1>1, <1>2, <1>3, <1>4, <1>5, <1>6 DEF StoreNext, Done

\* Load, compare and save with retries implement changes that happen at once,
\* but for climbers who come back from a reset.
THEOREM Refinement == StoreSpec => ChangesAreAtomic
  <1>1. StoreInit => Promise!Init
    BY RefinesInit
  <1>2. StoreInv /\ [StoreNext]_storeVars => [Promise!Next]_(Promise!rowVars)
    BY RefinesNext
  <1> QED
    BY <1>1, <1>2, StoreInvariant, PTL DEF StoreSpec, ChangesAreAtomic, Promise!Spec

=============================================================================
