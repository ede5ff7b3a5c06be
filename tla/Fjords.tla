-------------------------------- MODULE Fjords --------------------------------
(***************************************************************************)
(* Nine Fjords: the rules of lib/fjords/rules.py with the numbers of       *)
(* lib/fjords/data.py, on a coast played as lib/fjords/sim.py plays it by  *)
(* the habits of lib/fjords/npc.py, one turn of a while loop at a time.    *)
(* What a habit does not foresee is a surprise: an event, a day away, luck,*)
(* the weather, or a player who takes the first move of a day and may do   *)
(* anything the rules allow.                                               *)
(*                                                                         *)
(* A rule is the set of what it may make of a realm: {} where the code     *)
(* raises NotAllowed.  Silver, grain and timber are floats in the code and *)
(* whole here, rounded down; prices are in ten-thousandths.                *)
(***************************************************************************)
EXTENDS Integers, Sequences, SequencesExt

CONSTANTS
    Jarl,
    Casts,          \* the habits of the jarls, in the years that are played
    LastDay,        \* bound: the last day that is played
    MaxSurprises,   \* bound on surprises in a year
    Levies,         \* how many a player trains, dismisses or sends at a time
    Loads           \* how much a player sells or buys at a time

ASSUME FjordsAssumption ==
    /\ Casts \subseteq [Jarl -> {"farmer", "turtle", "raider", "conqueror", "trader", ""}]
    /\ LastDay \in 1..31 /\ MaxSurprises \in Nat
    /\ Levies \subseteq Nat \ {0} /\ Loads \subseteq Nat \ {0}

VARIABLES
    realms, market, day,
    order,          \* who has still to play today, in the order of the shuffle
    fresh,          \* nobody has played today
    surprises

vars == <<realms, market, day, order, fresh, surprises>>

-----------------------------------------------------------------------------
(* Numbers about a realm *)

Least(a, b) == IF a <= b THEN a ELSE b
Most(a, b) == IF a >= b THEN a ELSE b
Clamp(a, x, b) == Most(a, Least(x, b))

Uses == {"farms", "woods", "longhouses", "boatyards"}
Events == {"", "whale", "hard_frost", "skald", "shipwright", "sickness", "good_year", "landslip",
           "missionary", "stranger", "wolves", "driftwood", "wedding"}
DaysInYear == 30
TurnsPerDay == 12
TurnCap == 36
FolkFloor == 50
BasePrice == [grain |-> 4000, timber |-> 10000]

Season(d) == CASE d <= 10 -> "thaw" [] d \in 11..20 -> "sailing" [] OTHER -> "frost"

NewRealm(d, npc) ==
    [farms |-> 20, woods |-> 5, longhouses |-> 5, boatyards |-> 0, wild |-> 10,
     folk |-> 400, silver |-> 300, grain |-> 200, timber |-> 50, huscarls |-> 0, ships |-> 1,
     palisade |-> 0, watchers |-> 0, honour |-> 10, turns |-> TurnsPerDay, joined |-> d, last |-> d,
     sailings |-> <<>>, feasted |-> FALSE, sung |-> 0, raided |-> 0, crowns |-> 0, npc |-> npc]

Land(r) == r.farms + r.woods + r.longhouses + r.boatyards + r.wild
Levy(r) == r.folk \div 10
Roofs(r) == r.longhouses * 100 + r.farms * 10
Renown(r) == (500 * Land(r) + 5 * r.folk + 50 * r.huscarls + 100 * r.honour + r.silver) \div 50

\* In tenths.
AtHome(r) == (3 * r.huscarls + Levy(r)) * (12 + r.palisade)

\* The slip of a peace for newcomers only.
PeaceForTheNew(r, d) == d - r.joined < 5

UnderPeace(r, d) == Land(r) < 30 \/ d - r.joined < 5
Absent(r, d) == d - r.last >= 3

Eaten(r, d) == ((r.folk + 3 * r.huscarls) * (IF Season(d) = "frost" THEN 3 ELSE 2)) \div 20

\* _clamp_honour
Honoured(r, n) == [r EXCEPT !.honour = Clamp(-50, @ + n, 50)]

-----------------------------------------------------------------------------
(* Dawn *)

\* Income and upkeep.
Earned(r, d, e) ==
    [r EXCEPT !.grain = @ + r.farms * 12 * (IF e = "good_year" THEN 2 ELSE 1)
                          - Eaten(r, d) * (IF e = "hard_frost" THEN 2 ELSE 1),
              !.timber = @ + 6 * r.woods,
              !.silver = @ + r.folk - r.huscarls - 5 * r.ships - r.watchers]

\* Unpaid huscarls walk, unpaid ships rot, in that order.
Unpaid(r) ==
    LET walk == Least(r.huscarls, Most(0, -r.silver))
        rot == Least(r.ships, (Most(0, -r.silver - walk) + 4) \div 5)
    IN  [r EXCEPT !.huscarls = @ - walk, !.ships = @ - rot, !.silver = Most(0, @ + walk + 5 * rot)]

\* The hungry starve and desert; the fed and housed grow.
Fed(r) ==
    IF r.grain < 0
    THEN [r EXCEPT !.grain = 0, !.folk = (@ * 94) \div 100, !.huscarls = (@ * 9) \div 10]
    ELSE IF r.folk < Roofs(r)
    THEN [r EXCEPT !.folk = Least(Roofs(r), (@ * (IF r.feasted THEN 110 ELSE 105)) \div 100 + 1)]
    ELSE r

\* What will not keep is sold to Orm.
Surplus(r, d, m) ==
    LET grain == Most(0, r.grain - (5 * Eaten(r, d) + 100))
        timber == Most(0, r.timber - 200)
    IN  [r EXCEPT !.grain = @ - grain, !.timber = @ - timber,
                  !.silver = @ + (grain * m.grain + timber * m.timber) \div 10000]

\* apply_event
Befallen(r, e) ==
    LET above == Most(0, r.folk - FolkFloor) IN
    CASE e = "whale" -> [r EXCEPT !.grain = @ + 150]
      [] e = "skald" -> Honoured(r, 2)
      [] e = "shipwright" /\ r.boatyards > 0 -> [r EXCEPT !.ships = @ + 1]
      [] e = "shipwright" /\ r.boatyards = 0 -> [r EXCEPT !.silver = @ + 50]
      [] e = "sickness" -> [r EXCEPT !.folk = @ - Least(@ \div 25, above)]
      [] e = "landslip" /\ r.woods > 1 -> [r EXCEPT !.woods = @ - 1, !.wild = @ + 1]
      [] e = "stranger" -> [r EXCEPT !.silver = @ + 100]
      [] e = "wolves" -> [r EXCEPT !.folk = @ - Least(@ \div 100, above)]
      [] e = "driftwood" -> [r EXCEPT !.timber = @ + 80]
      [] e = "wedding" -> [r EXCEPT !.folk = Least(Roofs(r), @ + (@ * 3) \div 100)]
      [] OTHER -> r

\* The slip of hoarding turns.
RestedOn(r) == r.turns + TurnsPerDay

\* The turns of a new day.
Rested(r) == Least(TurnCap, r.turns + TurnsPerDay)

\* apply_dawn
Dawn(r, d, e, m) ==
    IF d <= r.last THEN r
    ELSE LET s == Befallen(Surplus(Fed(Unpaid(Earned(r, d, e))), d, m), e)
         IN  [s EXCEPT !.turns = Rested(s), !.sailings = <<>>, !.feasted = FALSE,
                       !.sung = Most(0, @ - 1), !.last = d]

\* Every missed dawn in order.  Bound: something happens on the last only.
Dawns(r, d, e, m) ==
    LET upto[n \in r.last..d] ==
            IF n = r.last THEN r ELSE Dawn(upto[n - 1], n, IF n = d THEN e ELSE "", m)
    IN  upto[d]

\* apply_song
Sung(r, d) == IF d % 10 = 0 /\ r.honour > 30 THEN [r EXCEPT !.sung = DaysInYear - d + 1] ELSE r

\* apply_market_dawn
Recovered(m) == [g \in DOMAIN m |-> m[g] + (BasePrice[g] - m[g]) \div 3]

-----------------------------------------------------------------------------
(* The hall and Saltvik *)

Spend(r, turns, silver, grain, timber) ==
    IF r.turns >= turns /\ r.silver >= silver /\ r.grain >= grain /\ r.timber >= timber
    THEN {[r EXCEPT !.turns = @ - turns, !.silver = @ - silver, !.grain = @ - grain, !.timber = @ - timber]}
    ELSE {}

Clear(r, d) ==
    IF Season(d) = "frost" THEN {}
    ELSE {[s EXCEPT !.wild = @ + 1] :
            s \in Spend(r, 1, Land(r) \div (IF Season(d) = "thaw" THEN 4 ELSE 2), 0, 0)}

\* n times.
Raise(r, use, n) ==
    IF r.wild < n THEN {}
    ELSE {[s EXCEPT !.wild = @ - n, ![use] = @ + n] : s \in Spend(r, n, 30 * n, 0, 10 * n)}

\* n times.
PullDown(r, use, n) ==
    IF r[use] < n THEN {}
    ELSE {[r EXCEPT ![use] = @ - n, !.wild = @ + n, !.timber = @ + 5 * n]}

Train(r, n) ==
    IF r.folk - n < 100 THEN {}
    ELSE {[s EXCEPT !.folk = @ - n, !.huscarls = @ + n] : s \in Spend(r, (n + 9) \div 10, 15 * n, 5 * n, 0)}

Dismiss(r, n) ==
    IF n > r.huscarls THEN {}
    ELSE {[r EXCEPT !.huscarls = @ - n, !.folk = IF @ < Roofs(r) THEN Least(Roofs(r), @ + n) ELSE @]}

Ship(r) == {[s EXCEPT !.ships = @ + 1] : s \in Spend(r, 2, 40, 0, IF r.boatyards > 0 THEN 30 ELSE 60)}

WallCost(r) == 100 * (r.palisade + 1)

Palisade(r) ==
    IF r.palisade >= 5 THEN {} ELSE {[s EXCEPT !.palisade = @ + 1] : s \in Spend(r, 2, WallCost(r), 0, 0)}

Feast(r) ==
    IF r.feasted THEN {} ELSE {Honoured([s EXCEPT !.feasted = TRUE], 1) : s \in Spend(r, 2, 50, 100, 0)}

KeepWatchers(r, n) == IF n > 10 THEN {} ELSE {[r EXCEPT !.watchers = n]}

Sell(r, m, good, n) ==
    IF n > r[good] THEN {}
    ELSE {[s EXCEPT ![good] = @ - n, !.silver = @ + (n * m[good]) \div 10000] : s \in Spend(r, 1, 0, 0, 0)}

\* A big sale pushes the price down for everyone.
Sold(m, good, n) ==
    [m EXCEPT ![good] = Most(BasePrice[good] \div 2, (@ * (10000 - Least(2000, n))) \div 10000)]

Buy(r, m, good, n) == {[s EXCEPT ![good] = @ + n] : s \in Spend(r, 1, (3 * n * m[good]) \div 20000, 0, 0)}

-----------------------------------------------------------------------------
(* The sea *)

\* r sails against e, the realm of who.
MaySail(r, e, who, d) ==
    /\ ~UnderPeace(e, d) /\ ~Absent(e, d)
    /\ Len(r.sailings) < 3 /\ ~Contains(r.sailings, who)
    /\ r.ships >= 1

\* The slip of a taking that may have the last of anything.
Everything(e) ==
    LET n == Most(1, Land(e) \div 10)
        wild == Least(n, e.wild)
        woods == Least(n - wild, e.woods)
        farms == Least(n - wild - woods, e.farms)
        longhouses == Least(n - wild - woods - farms, e.longhouses)
    IN  [wild |-> wild, woods |-> woods, farms |-> farms, longhouses |-> longhouses]

\* The steadings a taking takes, in TAKE_ORDER.
Steadings(e) ==
    LET n == Most(1, Land(e) \div 10)
        wild == Least(n, e.wild)
        woods == Least(n - wild, Most(0, e.woods - 1))
        farms == Least(n - wild - woods, Most(0, e.farms - 1))
        longhouses == Least(n - wild - woods - farms, Most(0, e.longhouses - 1))
    IN  [wild |-> wild, woods |-> woods, farms |-> farms, longhouses |-> longhouses]

Nothing == [silver |-> 0, grain |-> 0, timber |-> 0, huscarls |-> 0, folk |-> 0,
            steadings |-> [u \in {"wild", "woods", "farms", "longhouses"} |-> 0]]

\* apply_settlement
Settled(e, s) ==
    [e EXCEPT !.huscarls = Most(0, @ - s.huscarls),
              !.folk = IF @ > FolkFloor THEN Most(FolkFloor, @ - s.folk) ELSE @,
              !.silver = Most(0, @ - s.silver),
              !.grain = Most(0, @ - s.grain),
              !.timber = Most(0, @ - s.timber),
              !.wild = Most(0, @ - s.steadings.wild),
              !.woods = IF s.steadings.woods > 0 THEN Most(1, @ - s.steadings.woods) ELSE @,
              !.farms = IF s.steadings.farms > 0 THEN Most(1, @ - s.steadings.farms) ELSE @,
              !.longhouses = IF s.steadings.longhouses > 0 THEN Most(1, @ - s.steadings.longhouses) ELSE @]

\* The folk a sailing or a whisper may cost a realm.
Mortal(e, n) == Least(n, Most(0, e.folk - FolkFloor))

SailTurns(kind, d) == CASE kind = "take" -> 4 [] Season(d) = "sailing" -> 2 [] OTHER -> 3

\* What every sailing begins with, and where bad weather ends it.
PutOut(kind, r, e, who, party, d) ==
    IF /\ MaySail(r, e, who, d)
       /\ party >= (IF kind = "raid" THEN 10 ELSE 20)
       /\ party <= r.huscarls /\ party <= 40 * r.ships
    THEN {[s EXCEPT !.sailings = Append(@, who)] : s \in Spend(r, SailTurns(kind, d), 0, 0, 0)}
    ELSE {}

\* sail, and the settlement applied: what becomes of the two.  luck: each side's, in tenths.
Sail(kind, r, e, who, party, d, luck) ==
    LET attack == 30 * party * luck[1]
        defence == Most(100, AtHome(e) * luck[2])
        won == attack >= (IF kind = "take" THEN 2 ELSE 1) * defence
        bully == 2 * Renown(e) < Renown(r)
        lost == IF attack >= defence THEN (15 * party * defence) \div (100 * attack) ELSE (35 * party) \div 100
        share == IF Season(d) = "sailing" THEN 3 ELSE 4
        harm == IF attack >= defence
                THEN [Nothing EXCEPT !.huscarls = (e.huscarls * 3) \div 10, !.folk = Mortal(e, Levy(e) \div 10)]
                ELSE [Nothing EXCEPT !.huscarls = e.huscarls \div 10]
        s == CASE won /\ kind = "raid" -> [harm EXCEPT !.silver = e.silver \div share,
                                                       !.grain = e.grain \div share,
                                                       !.timber = e.timber \div share]
               [] won /\ kind = "take" -> [harm EXCEPT !.steadings = Steadings(e)]
               [] OTHER -> harm
        glory == CASE won /\ kind = "raid" /\ bully -> -2
                   [] won /\ kind = "take" -> IF bully THEN -3 ELSE 2
                   [] OTHER -> 0
        taken == s.steadings.wild + s.steadings.woods + s.steadings.farms + s.steadings.longhouses
    IN  {<<Honoured([p EXCEPT !.huscarls = @ - lost, !.silver = @ + s.silver, !.grain = @ + s.grain,
                              !.timber = @ + s.timber, !.wild = @ + taken], glory),
           [Settled(e, s) EXCEPT !.raided = Most(@, d)]>> : p \in PutOut(kind, r, e, who, party, d)}

-----------------------------------------------------------------------------
(* The watchers and the Thing *)

Shame == [look |-> 0, burn |-> -2, steal |-> -3, whisper |-> -3]

Caught(errand, r) == {Honoured(s, Shame[errand]) : s \in Spend(r, 1, 20, 0, 0)}

\* send_watcher, and the settlement applied.
Errand(errand, r, e) ==
    LET s == CASE errand = "burn" -> [Nothing EXCEPT !.grain = e.grain \div 10]
               [] errand = "steal" -> [Nothing EXCEPT !.silver = Least(e.silver \div 10, 200)]
               [] errand = "whisper" -> [Nothing EXCEPT !.folk = Mortal(e, (e.folk * 3) \div 100)]
               [] OTHER -> Nothing
    IN  {<<[p EXCEPT !.silver = @ + s.silver,
                     !.folk = IF errand = "whisper" THEN Least(Roofs(p), @ + s.folk \div 2) ELSE @],
           Settled(e, s)>> : p \in Spend(r, 1, 20, 0, 0)}

PactBroken(r) == {Honoured(r, -10)}

-----------------------------------------------------------------------------
(* The habits *)

Or(first, second) == IF first # {} THEN first ELSE second
When(cond, first) == IF cond THEN first ELSE {}

Hold(r) == 40 * r.ships
Party(r) == Least(r.huscarls, Hold(r))
Raided(r, d) == r.raided > 0 /\ d - r.raided <= 5

\* halves: the share of the land, in halves
GuardWanted(r, halves) == (Land(r) * halves) \div 2

WallUp(r, d) == When(Raided(r, d) /\ r.palisade < 2 /\ r.silver >= WallCost(r), Palisade(r))

Guarded(r, d) == When(r.huscarls < GuardWanted(r, IF Raided(r, d) THEN 2 ELSE 1), Train(r, 10))

Grow(r, d, wantWoods) ==
    LET use == IF wantWoods /\ r.woods < r.farms \div 3 THEN "woods" ELSE "farms"
    IN  Or(When(10 * r.folk >= 9 * Roofs(r), Or(Raise(r, "longhouses", 1), Clear(r, d))),
           Or(Raise(r, use, 1), Clear(r, d)))

\* others: their realms
Armed(r, others, ratio) ==
    LET softest == CHOOSE n \in {AtHome(e) : e \in others} : \A e \in others : n <= AtHome(e)
        army == Most(40, (softest * ratio * 115) \div 3000 + 1)
    IN  Or(When(Hold(r) < r.huscarls, Ship(r)),
           When(r.folk > 300 /\ r.huscarls < army, Train(r, 20)))

\* What a habit does before it thinks of sailing.
First(r, others, d) ==
    CASE r.npc = "farmer" -> Or(Or(WallUp(r, d), Guarded(r, d)), When(~r.feasted /\ r.silver > 400, Feast(r)))
      [] r.npc = "trader" -> Or(WallUp(r, d), Guarded(r, d))
      [] r.npc = "turtle" -> Or(When(r.palisade < 5 /\ r.silver >= WallCost(r) + 100, Palisade(r)),
                                When(r.huscarls < GuardWanted(r, 2), Train(r, 10)))
      [] r.npc = "" -> {}
      [] r.npc = "raider" -> Armed(r, others, 1)
      [] r.npc = "conqueror" -> Armed(r, others, 2)

Kind == [raider |-> "raid", conqueror |-> "take"]

\* Whom a sailor expects to beat, and may sail against.
Targets(j) ==
    LET r == realms[j]
        margin == IF r.npc = "raider" THEN 115 ELSE 220
    IN  IF r.npc \notin DOMAIN Kind THEN {}
        ELSE {d \in Jarl \ {j} : /\ 3000 * Party(r) >= margin * AtHome(realms[d])
                                 /\ PutOut(Kind[r.npc], r, realms[d], d, Party(r), day) # {}}

\* The raider's order is by wealth, the conqueror's by weakness.
Prefers(j, d, e) ==
    LET x == realms[d]
        y == realms[e]
    IN  IF realms[j].npc = "raider"
        THEN x.silver + x.grain + x.timber >= y.silver + y.grain + y.timber
        ELSE AtHome(x) <= AtHome(y)

-----------------------------------------------------------------------------
(* A year on the coast *)

Everybody == SetToSeq(Jarl)

Init ==
    /\ \E cast \in Casts : realms = [j \in Jarl |-> NewRealm(1, cast[j])]
    /\ market = BasePrice /\ day = 1
    /\ order = Everybody /\ fresh = TRUE /\ surprises = 0

Surprise == surprises < MaxSurprises /\ surprises' = surprises + 1

\* play_day up to the turns.
Dawned(absent, lucky, e, seq) ==
    /\ order = <<>> /\ day < Least(LastDay, DaysInYear)
    /\ day' = day + 1 /\ fresh' = TRUE
    /\ market' = Recovered(market)
    /\ realms' = [j \in Jarl |->
          IF j \in absent THEN realms[j]
          ELSE Sung(Dawns(realms[j], day', IF j = lucky THEN e ELSE "", market'), day')]
    /\ order' = seq

Morning == \E j \in Jarl : Dawned({}, j, "", Everybody) /\ UNCHANGED surprises

\* Bound: they play in another order, or one is away for a day, or something happens to one.
Shuffled(j) == \E seq \in SetToSeqs(Jarl) : Dawned({}, j, "", seq) /\ Surprise
Away(j) == Dawned({j}, j, "", SelectSeq(Everybody, LAMBDA i : i # j)) /\ Surprise
Event(j, e) == Dawned({}, j, e, Everybody) /\ Surprise

\* apply_yule: crowns and nothing else survive.
Yule(king) ==
    /\ order = <<>> /\ day = DaysInYear /\ LastDay > DaysInYear
    /\ day' = 1 /\ fresh' = TRUE /\ market' = market
    /\ realms' = [j \in Jarl |-> [NewRealm(1, realms[j].npc) EXCEPT
          !.crowns = realms[j].crowns + (IF j = king THEN 1 ELSE 0)]]
    /\ order' = Everybody /\ Surprise

Becomes(j, r) == realms' = [realms EXCEPT ![j] = r]
Meet(j, d, pair) == realms' = [realms EXCEPT ![j] = pair[1], ![d] = pair[2]]

\* One turn of the loop of a habit, of whoever is to play.
Play(j) ==
    LET r == realms[j]
        first == First(r, {realms[d] : d \in Jarl \ {j}}, day)
        grow == When(r.npc # "", Grow(r, day, r.npc \in {"raider", "trader"}))
        targets == Targets(j)
    IN  /\ order # <<>> /\ j = Head(order) /\ fresh' = FALSE
        /\ UNCHANGED <<market, day>>
        /\ \/ /\ r.turns > 0 /\ first # {}
              /\ \E s \in first : Becomes(j, s)
              /\ UNCHANGED <<order, surprises>>
           \/ /\ r.turns > 0 /\ first = {} /\ targets # {}
              /\ \E d \in targets :
                    /\ \A e \in targets : Prefers(j, d, e)
                    /\ \/ /\ UNCHANGED surprises
                          /\ \E p \in Sail(Kind[r.npc], r, realms[d], d, Party(r), day, <<10, 10>>) :
                                Meet(j, d, p)
                       \/ /\ Surprise
                          /\ \E luck \in {<<9, 11>>, <<11, 9>>} :
                             \E p \in Sail(Kind[r.npc], r, realms[d], d, Party(r), day, luck) :
                                Meet(j, d, p)
                       \/ /\ Season(day) = "frost" /\ Surprise
                          /\ \E s \in PutOut(Kind[r.npc], r, realms[d], d, Party(r), day) : Becomes(j, s)
              /\ UNCHANGED order
           \/ /\ r.turns > 0 /\ first = {} /\ targets = {} /\ grow # {}
              /\ \E s \in grow : Becomes(j, s)
              /\ UNCHANGED <<order, surprises>>
           \/ /\ r.turns = 0 \/ (first = {} /\ targets = {} /\ grow = {})
              /\ order' = Tail(order)
              /\ UNCHANGED <<realms, surprises>>

\* What a player may do at home.
Whims(r, d) ==
    UNION ({Clear(r, d), Ship(r), Palisade(r), Feast(r), PactBroken(r)}
           \cup {Raise(r, use, n) : use \in Uses, n \in {1, r.wild} \ {0}}
           \cup (UNION {{PullDown(r, use, n) : n \in {1, r[use]} \ {0}} : use \in Uses})
           \cup {Train(r, n) : n \in Levies} \cup {Dismiss(r, n) : n \in Levies}
           \cup {KeepWatchers(r, n) : n \in Levies})

\* A player's move.
Player(j) ==
    LET r == realms[j]
    IN  /\ fresh /\ Contains(order, j) /\ Surprise
        /\ UNCHANGED <<day, order, fresh>>
        /\ \/ \E s \in Whims(r, day) : Becomes(j, s) /\ UNCHANGED market
           \/ \E good \in {"grain", "timber"}, n \in Loads :
                 \/ \E s \in Sell(r, market, good, n) : Becomes(j, s) /\ market' = Sold(market, good, n)
                 \/ \E s \in Buy(r, market, good, n) : Becomes(j, s) /\ UNCHANGED market
           \/ /\ UNCHANGED market
              /\ \E d \in Jarl \ {j} :
                    \/ \E kind \in {"raid", "take"}, n \in Levies :
                       \E p \in Sail(kind, r, realms[d], d, n, day, <<10, 10>>) : Meet(j, d, p)
                    \/ \E errand \in DOMAIN Shame :
                          \/ \E s \in Caught(errand, r) : Becomes(j, s)
                          \/ \E p \in Errand(errand, r, realms[d]) : Meet(j, d, p)

Next ==
    \/ Morning
    \/ \E j \in Jarl :
          \/ Shuffled(j) \/ Away(j) \/ Yule(j) \/ Play(j) \/ Player(j)
          \/ \E e \in Events : Event(j, e)

Spec == Init /\ [][Next]_vars

-----------------------------------------------------------------------------
(* What is claimed of the coast *)

\* Nothing is ever owed or overdrawn, and turns, honour, walls and prices stay
\* within what data.py allows, whatever is bought, lost or taken.
RealmsOK ==
    /\ \A j \in Jarl :
          LET r == realms[j] IN
          /\ \A f \in {"farms", "woods", "longhouses", "boatyards", "wild", "folk", "silver", "grain",
                       "timber", "huscarls", "ships", "sung", "raided", "crowns"} : r[f] \in Nat
          /\ r.turns \in 0..TurnCap /\ r.honour \in -50..50
          /\ r.palisade \in 0..5 /\ r.watchers \in 0..10
          /\ IsInjective(r.sailings) /\ r.feasted \in BOOLEAN
          /\ r.last \in 1..day /\ r.joined <= r.last
    /\ \A g \in DOMAIN market : market[g] \in BasePrice[g] \div 2 .. BasePrice[g]
    /\ day \in 1..DaysInYear

\* A step in which a does something to d.
Meets(a, d) == day' = day /\ realms'[a].turns < realms[a].turns /\ a # d /\ realms'[d] # realms[d]

\* Two jarls cannot make anything between them: whatever one does to another,
\* there is no more of anything on the coast than before, and no land is lost.
NothingIsMadeAtSea ==
    [][\A a, d \in Jarl : Meets(a, d) =>
          /\ \A f \in {"silver", "grain", "timber", "folk", "huscarls"} :
                realms'[a][f] + realms'[d][f] <= realms[a][f] + realms[d][f]
          /\ Land(realms'[a]) + Land(realms'[d]) = Land(realms[a]) + Land(realms[d])]_vars

\* Nobody is erased by another: nobody's last farm, wood or longhouse is taken,
\* nobody's folk are brought below the floor, and the peace returns before a
\* realm has lost all it began with.
NobodyIsErased ==
    [][\A a, d \in Jarl : Meets(a, d) =>
          /\ \A f \in {"farms", "woods", "longhouses"} : realms[d][f] > 0 => realms'[d][f] > 0
          /\ realms'[d].folk >= Least(realms[d].folk, FolkFloor)
          /\ Land(realms'[d]) >= Least(Land(realms[d]), 27)]_vars

=============================================================================
