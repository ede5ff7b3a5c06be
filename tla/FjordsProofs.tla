----------------------------- MODULE FjordsProofs -----------------------------
(***************************************************************************)
(* What is proved of Nine Fjords, for any jarls, casts, levies and loads:  *)
(* every realm stays within the bounds of data.py through every rule, dawn *)
(* and year, and no step makes anything at sea or erases anybody.          *)
(*                                                                         *)
(* Each rule gets a lemma: what it makes of a realm is a realm, with the   *)
(* same days and sailings behind it.  A meeting of two gets one more, that *)
(* it is Dealt: what the mover has more of the other has less of.          *)
(***************************************************************************)
EXTENDS Fjords, WellFoundedInduction, TLAPS

Habit == {"farmer", "turtle", "raider", "conqueror", "trader", ""}

Walls == 0..5
Watches == 0..10
Honours == -50..50
TurnsHeld == 0..36

\* A realm whose silver is in S and whose grain is in G.
RealmWith(S, G) ==
    [farms: Nat, woods: Nat, longhouses: Nat, boatyards: Nat, wild: Nat, folk: Nat,
     silver: S, grain: G, timber: Nat, huscarls: Nat, ships: Nat, palisade: Walls,
     watchers: Watches, honour: Honours, turns: TurnsHeld, joined: Nat, last: Nat,
     sailings: Seq(Jarl), feasted: BOOLEAN, sung: Nat, raided: Nat, crowns: Nat, npc: Habit]

Realm == RealmWith(Nat, Nat)

\* s has seen the days and the sailings of r.
Like(s, r) == s.last = r.last /\ s.joined = r.joined /\ s.sailings = r.sailings

\* The numbers of a realm are numbers.
LEMMA Fields ==
    ASSUME NEW r \in Realm
    PROVE  /\ r.farms \in Nat /\ r.woods \in Nat /\ r.longhouses \in Nat /\ r.boatyards \in Nat
           /\ r.wild \in Nat /\ r.folk \in Nat /\ r.silver \in Nat /\ r.grain \in Nat
           /\ r.timber \in Nat /\ r.huscarls \in Nat /\ r.ships \in Nat /\ r.palisade \in 0..5
           /\ r.watchers \in 0..10 /\ r.honour \in -50..50 /\ r.turns \in 0..36
           /\ r.joined \in Nat /\ r.last \in Nat /\ r.sung \in Nat /\ r.raided \in Nat
           /\ r.crowns \in Nat
  <1>1. /\ r.farms \in Nat /\ r.woods \in Nat /\ r.longhouses \in Nat /\ r.boatyards \in Nat
        /\ r.wild \in Nat /\ r.folk \in Nat /\ r.silver \in Nat /\ r.grain \in Nat
        /\ r.timber \in Nat /\ r.huscarls \in Nat /\ r.ships \in Nat /\ r.palisade \in Walls
        /\ r.watchers \in Watches /\ r.honour \in Honours /\ r.turns \in TurnsHeld
        /\ r.joined \in Nat /\ r.last \in Nat /\ r.sung \in Nat /\ r.raided \in Nat
        /\ r.crowns \in Nat
    BY DEF Realm, RealmWith
  <1> QED BY <1>1 DEF Walls, Watches, Honours, TurnsHeld

\* So is what the rules count of it.
LEMMA NumbersOfARealm ==
    ASSUME NEW r \in Realm
    PROVE  Land(r) \in Nat /\ Roofs(r) \in Nat /\ Levy(r) \in Nat /\ WallCost(r) \in Nat
  BY Fields DEF Land, Roofs, Levy, WallCost

\* A realm with other land is a realm.
LEMMA Rebuilt ==
    ASSUME NEW r \in Realm, NEW use \in Uses, NEW w \in Nat, NEW u \in Nat, NEW t \in Nat
    PROVE  /\ [r EXCEPT !.wild = w, ![use] = u] \in Realm
           /\ Like([r EXCEPT !.wild = w, ![use] = u], r)
           /\ [r EXCEPT ![use] = u, !.wild = w, !.timber = t] \in Realm
           /\ Like([r EXCEPT ![use] = u, !.wild = w, !.timber = t], r)
  BY DEF Realm, RealmWith, Like, Uses

\* _spend leaves nothing overdrawn.
LEMMA Spent ==
    ASSUME NEW r \in Realm, NEW t \in Nat, NEW a \in Nat, NEW b \in Nat, NEW c \in Nat,
           NEW s \in Spend(r, t, a, b, c)
    PROVE  s \in Realm /\ Like(s, r)
  <1>1. s = [r EXCEPT !.turns = @ - t, !.silver = @ - a, !.grain = @ - b, !.timber = @ - c]
        /\ r.turns >= t /\ r.silver >= a /\ r.grain >= b /\ r.timber >= c
    BY DEF Spend
  <1>2. PICK tt \in TurnsHeld : tt = r.turns - t
    BY <1>1, Fields DEF TurnsHeld
  <1>3. PICK aa \in Nat, bb \in Nat, cc \in Nat : aa = r.silver - a /\ bb = r.grain - b /\ cc = r.timber - c
    BY <1>1, Fields
  <1>4. s = [r EXCEPT !.turns = tt, !.silver = aa, !.grain = bb, !.timber = cc]
    BY <1>1, <1>2, <1>3
  <1> QED BY <1>4 DEF Realm, RealmWith, Like

\* Honour stays within what _clamp_honour allows.
LEMMA HonourIsClamped ==
    ASSUME NEW r \in Realm, NEW n \in Int
    PROVE  Honoured(r, n) \in Realm /\ Like(Honoured(r, n), r)
  <1>1. PICK h \in Honours : h = Clamp(-50, r.honour + n, 50)
    BY Fields DEF Honours, Clamp, Most, Least
  <1>2. Honoured(r, n) = [r EXCEPT !.honour = h]
    BY <1>1 DEF Honoured
  <1> QED BY <1>2 DEF Realm, RealmWith, Like

\* apply_clear.
LEMMA Cleared ==
    ASSUME NEW r \in Realm, NEW d, NEW s \in Clear(r, d)
    PROVE  s \in Realm /\ Like(s, r)
  <1> DEFINE cost == Land(r) \div (IF Season(d) = "thaw" THEN 4 ELSE 2)
  <1>1. cost \in Nat
    BY NumbersOfARealm
  <1>2. PICK p \in Spend(r, 1, cost, 0, 0) : s = [p EXCEPT !.wild = @ + 1]
    BY DEF Clear
  <1> HIDE DEF cost
  <1>3. p \in Realm /\ Like(p, r)
    BY <1>1, <1>2, Spent
  <1>4. PICK w \in Nat : w = p.wild + 1
    BY <1>3, Fields
  <1>5. s = [p EXCEPT !.wild = w]
    BY <1>2, <1>4
  <1> QED BY <1>3, <1>5 DEF Realm, RealmWith, Like

\* apply_raise, from wild land only.
LEMMA Raised ==
    ASSUME NEW r \in Realm, NEW use \in Uses, NEW n \in Nat, NEW s \in Raise(r, use, n)
    PROVE  s \in Realm /\ Like(s, r)
  <1>1. PICK p \in Spend(r, n, 30 * n, 0, 10 * n) : s = [p EXCEPT !.wild = @ - n, ![use] = @ + n]
    BY DEF Raise
  <1>2. ~(r.wild < n)
    BY DEF Raise
  <1>3. p \in Realm /\ Like(p, r) /\ p.wild = r.wild
    <2>1. 30 * n \in Nat /\ 10 * n \in Nat /\ 0 \in Nat
      OBVIOUS
    <2>2. p.wild = r.wild
      BY <1>1 DEF Spend, Realm, RealmWith
    <2> QED BY <2>1, <2>2, <1>1, Spent
  <1>4. PICK w \in Nat, u \in Nat : w = p.wild - n /\ u = p[use] + n
    BY <1>2, <1>3, Fields DEF Uses
  <1>5. s = [p EXCEPT !.wild = w, ![use] = u]
    BY <1>1, <1>4
  <1>6. s \in Realm /\ Like(s, p)
    BY <1>3, <1>5, Rebuilt
  <1> QED BY <1>3, <1>6 DEF Like

\* apply_pull_down, of what stands.
LEMMA PulledDown ==
    ASSUME NEW r \in Realm, NEW use \in Uses, NEW n \in Nat, NEW s \in PullDown(r, use, n)
    PROVE  s \in Realm /\ Like(s, r)
  <1>1. s = [r EXCEPT ![use] = @ - n, !.wild = @ + n, !.timber = @ + 5 * n] /\ ~(r[use] < n)
    BY DEF PullDown
  <1>2. PICK u \in Nat, w \in Nat, t \in Nat : u = r[use] - n /\ w = r.wild + n /\ t = r.timber + 5 * n
    <2>1. ~(r[use] < n) /\ r[use] \in Nat
      BY <1>1, Fields DEF Uses
    <2>2. r[use] - n \in Nat
      BY <2>1
    <2>3. r.wild + n \in Nat /\ r.timber + 5 * n \in Nat
      BY Fields
    <2> QED BY <2>2, <2>3
  <1>3. s = [r EXCEPT ![use] = u, !.wild = w, !.timber = t]
    BY <1>1, <1>2
  <1> QED BY <1>3, Rebuilt

\* apply_train, with a hundred folk left.
LEMMA Trained ==
    ASSUME NEW r \in Realm, NEW n \in Nat, NEW s \in Train(r, n)
    PROVE  s \in Realm /\ Like(s, r)
  <1>1. PICK p \in Spend(r, (n + 9) \div 10, 15 * n, 5 * n, 0) :
          s = [p EXCEPT !.folk = @ - n, !.huscarls = @ + n]
    BY DEF Train
  <1>2. p \in Realm /\ Like(p, r) /\ p.folk = r.folk
    <2>1. (n + 9) \div 10 \in Nat /\ 15 * n \in Nat /\ 5 * n \in Nat /\ 0 \in Nat
      OBVIOUS
    <2>2. p.folk = r.folk
      BY <1>1 DEF Spend, Realm, RealmWith
    <2> QED BY <2>1, <2>2, <1>1, Spent
  <1>3. ~(r.folk - n < 100)
    BY DEF Train
  <1>4. PICK f \in Nat, h \in Nat : f = p.folk - n /\ h = p.huscarls + n
    BY <1>2, <1>3, Fields
  <1>5. s = [p EXCEPT !.folk = f, !.huscarls = h]
    BY <1>1, <1>4
  <1> QED BY <1>2, <1>5 DEF Realm, RealmWith, Like

\* apply_dismiss, of the huscarls there are.
LEMMA Dismissed ==
    ASSUME NEW r \in Realm, NEW n \in Nat, NEW s \in Dismiss(r, n)
    PROVE  s \in Realm /\ Like(s, r)
  <1>1. PICK h \in Nat : h = r.huscarls - n
    BY Fields DEF Dismiss
  <1>2. PICK f \in Nat : f = IF r.folk < Roofs(r) THEN Least(Roofs(r), r.folk + n) ELSE r.folk
    BY NumbersOfARealm, Fields DEF Least
  <1>3. s = [r EXCEPT !.huscarls = h, !.folk = f]
    BY <1>1, <1>2 DEF Dismiss
  <1> QED BY <1>3 DEF Realm, RealmWith, Like

\* apply_ship.
LEMMA Shipped ==
    ASSUME NEW r \in Realm, NEW s \in Ship(r)
    PROVE  s \in Realm /\ Like(s, r)
  <1> DEFINE wood == IF r.boatyards > 0 THEN 30 ELSE 60
  <1>1. wood \in Nat
    OBVIOUS
  <1>2. PICK p \in Spend(r, 2, 40, 0, wood) : s = [p EXCEPT !.ships = @ + 1]
    BY DEF Ship
  <1> HIDE DEF wood
  <1>3. p \in Realm /\ Like(p, r)
    BY <1>1, <1>2, Spent
  <1>4. PICK w \in Nat : w = p.ships + 1
    BY <1>3, Fields
  <1>5. s = [p EXCEPT !.ships = w]
    BY <1>2, <1>4
  <1> QED BY <1>3, <1>5 DEF Realm, RealmWith, Like

\* apply_palisade, no higher than the top.
LEMMA Walled ==
    ASSUME NEW r \in Realm, NEW s \in Palisade(r)
    PROVE  s \in Realm /\ Like(s, r)
  <1>1. PICK p \in Spend(r, 2, WallCost(r), 0, 0) : s = [p EXCEPT !.palisade = @ + 1]
    BY DEF Palisade
  <1>2. p \in Realm /\ Like(p, r)
    BY <1>1, Spent, NumbersOfARealm
  <1>3. p.palisade = r.palisade
    BY <1>1 DEF Spend, Realm, RealmWith
  <1>4. PICK w \in Walls : w = p.palisade + 1
    BY <1>3, Fields DEF Walls, Palisade
  <1>5. s = [p EXCEPT !.palisade = w]
    BY <1>1, <1>4
  <1> QED BY <1>2, <1>5 DEF Realm, RealmWith, Like

\* apply_feast.
LEMMA Feasted ==
    ASSUME NEW r \in Realm, NEW s \in Feast(r)
    PROVE  s \in Realm /\ Like(s, r)
  <1>1. PICK p \in Spend(r, 2, 50, 100, 0) : s = Honoured([p EXCEPT !.feasted = TRUE], 1)
    BY DEF Feast
  <1>2. p \in Realm /\ Like(p, r)
    BY <1>1, Spent
  <1> DEFINE q == [p EXCEPT !.feasted = TRUE]
  <1>3. q \in Realm /\ Like(q, p)
    BY <1>2 DEF Realm, RealmWith, Like
  <1> HIDE DEF q
  <1>4. Honoured(q, 1) \in Realm /\ Like(Honoured(q, 1), q)
    BY <1>3, HonourIsClamped
  <1>5. s = Honoured(q, 1)
    BY <1>1 DEF q
  <1> QED BY <1>2, <1>3, <1>4, <1>5 DEF Like

\* apply_keep_watchers, ten at most.
LEMMA Watched ==
    ASSUME NEW r \in Realm, NEW n \in Nat, NEW s \in KeepWatchers(r, n)
    PROVE  s \in Realm /\ Like(s, r)
  <1>1. s = [r EXCEPT !.watchers = n] /\ n \in Watches
    BY DEF Watches, KeepWatchers
  <1> QED BY <1>1 DEF Realm, RealmWith, Like

-----------------------------------------------------------------------------
(* The market *)

PriceList == [grain: Nat, timber: Nat]
Fair(m) == 2000 <= m.grain /\ m.grain <= 4000 /\ 5000 <= m.timber /\ m.timber <= 10000

\* The prices are numbers,
LEMMA PriceFields == ASSUME NEW m \in PriceList PROVE m.grain \in Nat /\ m.timber \in Nat
  BY DEF PriceList

\* one for each good,
LEMMA PriceOf == ASSUME NEW m \in PriceList, NEW good \in {"grain", "timber"}
   PROVE m[good] = IF good = "grain" THEN m.grain ELSE m.timber
  BY DEF PriceList

\* whichever it is,
LEMMA PriceIsNat == ASSUME NEW m \in PriceList, NEW good \in {"grain", "timber"}
   PROVE m[good] \in Nat
  BY PriceOf, PriceFields

\* and so are the base prices.
LEMMA BasePriceOf == ASSUME NEW good \in {"grain", "timber"}
   PROVE BasePrice[good] = IF good = "grain" THEN 4000 ELSE 10000
  BY DEF BasePrice

\* A price that recovers stays between half its base and its base.
LEMMA Recovering ==
  ASSUME NEW b \in Nat, NEW x \in Nat, b \div 2 <= x, x <= b
  PROVE  x + (b - x) \div 3 \in Nat /\ b \div 2 <= x + (b - x) \div 3 /\ x + (b - x) \div 3 <= b
  OBVIOUS

\* apply_market_dawn keeps both prices fair.
LEMMA PricesRecover == ASSUME NEW m \in PriceList, Fair(m) PROVE Recovered(m) \in PriceList /\ Fair(Recovered(m))
  <1>1. PICK x \in Nat, y \in Nat : x = m.grain /\ y = m.timber
    BY PriceFields
  <1>2. 2000 <= x /\ x <= 4000 /\ 5000 <= y /\ y <= 10000
    BY <1>1 DEF Fair
  <1>3. PICK u \in Nat, v \in Nat : u = x + (4000 - x) \div 3 /\ v = y + (10000 - y) \div 3
    BY <1>2
  <1>4. 2000 <= u /\ u <= 4000 /\ 5000 <= v /\ v <= 10000
    BY <1>2, <1>3
  <1>5. m = [grain |-> x, timber |-> y]
    BY <1>1 DEF PriceList
  <1>6. Recovered(m) = [grain |-> u, timber |-> v]
    BY <1>3, <1>5 DEF Recovered, BasePrice
  <1> QED BY <1>4, <1>6 DEF PriceList, Fair

\* A sale takes a price down, and no lower than nothing.
LEMMA Discounted ==
    ASSUME NEW x \in Nat, NEW n \in Nat
    PROVE  (x * (10000 - Least(2000, n))) \div 10000 \in 0..x
  <1>1. PICK k \in Nat : k = 10000 - Least(2000, n) /\ k <= 10000
    BY DEF Least
  <1>2. x * k \in Nat /\ x * k <= x * 10000
    <2>1. x * k = x * 10000 - x * (10000 - k)
      OBVIOUS
    <2>2. x * (10000 - k) \in Nat
      BY <1>1
    <2>3. x * k \in Nat
      OBVIOUS
    <2> QED BY <2>1, <2>2, <2>3
  <1> DEFINE y == x * k
  <1>3. y \in Nat /\ y <= x * 10000
    BY <1>2
  <1> HIDE DEF y
  <1>4. y \div 10000 \in 0..x
    BY <1>3
  <1> QED BY <1>1, <1>4 DEF y

\* A sale keeps both prices fair.
LEMMA PricesFall ==
    ASSUME NEW m \in PriceList, Fair(m), NEW good \in {"grain", "timber"}, NEW n \in Nat
    PROVE  Sold(m, good, n) \in PriceList /\ Fair(Sold(m, good, n))
  <1> DEFINE fall == (m[good] * (10000 - Least(2000, n))) \div 10000
             base == BasePrice[good] \div 2
             price == Most(base, fall)
  <1>1. PICK x \in Nat : x = m[good]
    BY PriceIsNat
  <1>2. fall \in 0..x
    <2>1. (x * (10000 - Least(2000, n))) \div 10000 \in 0..x
      BY Discounted
    <2> QED BY <1>1, <2>1
  <1>3. base = IF good = "grain" THEN 2000 ELSE 5000
    BY BasePriceOf
  <1>4. Sold(m, good, n) = [m EXCEPT ![good] = price]
    BY DEF Sold
  <1>5. x <= IF good = "grain" THEN 4000 ELSE 10000
    BY <1>1, PriceOf DEF Fair
  <1>6. base <= x
    BY <1>1, <1>3, PriceOf DEF Fair
  <1> HIDE DEF fall, base
  <1>7. price \in Nat /\ base <= price /\ price <= x
    BY <1>2, <1>3, <1>6 DEF Most
  <1>8. PICK p \in Nat : p = price
    BY <1>7
  <1> HIDE DEF price
  <1>9. base <= p /\ p <= x
    BY <1>7, <1>8
  <1>10. CASE good = "grain"
    <2>1. 2000 <= p /\ p <= 4000
      BY <1>3, <1>5, <1>9, <1>10
    <2>2. Sold(m, good, n) = [m EXCEPT !.grain = p]
      BY <1>4, <1>8, <1>10
    <2> QED BY <2>1, <2>2 DEF PriceList, Fair
  <1>11. CASE good = "timber"
    <2>1. 5000 <= p /\ p <= 10000
      BY <1>3, <1>5, <1>9, <1>11
    <2>2. Sold(m, good, n) = [m EXCEPT !.timber = p]
      BY <1>4, <1>8, <1>11
    <2> QED BY <2>1, <2>2 DEF PriceList, Fair
  <1> QED BY <1>10, <1>11

\* What is paid for a load is a number of silver.
LEMMA PriceOfALoad ==
    ASSUME NEW m \in PriceList, NEW good \in {"grain", "timber"}, NEW n \in Nat
    PROVE  (n * m[good]) \div 10000 \in Nat /\ (3 * n * m[good]) \div 20000 \in Nat
  <1>1. PICK p \in Nat : p = m[good]
    BY PriceIsNat
  <1>2. n * p \in Nat /\ 3 * n * p \in Nat
    OBVIOUS
  <1> DEFINE a == n * p
             b == 3 * n * p
  <1>3. a \in Nat /\ b \in Nat
    BY <1>2
  <1> HIDE DEF a, b
  <1>4. a \div 10000 \in Nat /\ b \div 20000 \in Nat
    BY <1>3
  <1> QED BY <1>1, <1>4 DEF a, b

\* There is so much of a good.
LEMMA GoodIsNat == ASSUME NEW r \in Realm, NEW good \in {"grain", "timber"} PROVE r[good] \in Nat
  BY Fields

\* A realm with another stock of a good is a realm.
LEMMA Sale ==
    ASSUME NEW r \in Realm, NEW good \in {"grain", "timber"}
    PROVE  /\ \A g, c \in Nat : LET s == [r EXCEPT ![good] = g, !.silver = c] IN s \in Realm /\ Like(s, r)
           /\ \A g \in Nat : LET s == [r EXCEPT ![good] = g] IN s \in Realm /\ Like(s, r)
  <1>2. \A g, c \in Nat : LET s == [r EXCEPT ![good] = g, !.silver = c] IN s \in Realm /\ Like(s, r)
    BY DEF Realm, RealmWith, Like
  <1>3. \A g \in Nat : LET s == [r EXCEPT ![good] = g] IN s \in Realm /\ Like(s, r)
    BY DEF Realm, RealmWith, Like
  <1> QED BY <1>2, <1>3

\* apply_sell, of what there is.
LEMMA SoldToOrm ==
    ASSUME NEW r \in Realm, NEW m \in PriceList, NEW good \in {"grain", "timber"}, NEW n \in Nat,
           NEW s \in Sell(r, m, good, n)
    PROVE  s \in Realm /\ Like(s, r)
  <1> DEFINE price == (n * m[good]) \div 10000
  <1>12. s \in {[p EXCEPT ![good] = @ - n, !.silver = @ + price] : p \in Spend(r, 1, 0, 0, 0)}
    BY DEF Sell
  <1>2. ~(n > r[good])
    BY DEF Sell
  <1>3. price \in Nat
    BY PriceOfALoad
  <1> HIDE DEF price
  <1>1. PICK p \in Spend(r, 1, 0, 0, 0) : s = [p EXCEPT ![good] = @ - n, !.silver = @ + price]
    BY <1>12
  <1>4. p \in Realm /\ Like(p, r)
    BY <1>1, Spent
  <1>5. p = [r EXCEPT !.turns = @ - 1, !.silver = @ - 0, !.grain = @ - 0, !.timber = @ - 0]
    BY <1>1 DEF Spend
  <1>6. p.grain = r.grain - 0 /\ p.timber = r.timber - 0
    BY <1>5 DEF Realm, RealmWith
  <1>7. p[good] = r[good]
    BY <1>6, Fields
  <1>8. p[good] - n \in Nat
    BY <1>2, <1>7, GoodIsNat
  <1>9. PICK g \in Nat, c \in Nat : g = p[good] - n /\ c = p.silver + price
    BY <1>3, <1>4, <1>8, Fields
  <1>10. s = [p EXCEPT ![good] = g, !.silver = c]
    BY <1>1, <1>9
  <1>11. s \in Realm /\ Like(s, p)
    BY <1>4, <1>10, Sale
  <1> QED BY <1>4, <1>11 DEF Like

\* apply_buy, for the silver there is.
LEMMA BoughtFromOrm ==
    ASSUME NEW r \in Realm, NEW m \in PriceList, NEW good \in {"grain", "timber"}, NEW n \in Nat,
           NEW s \in Buy(r, m, good, n)
    PROVE  s \in Realm /\ Like(s, r)
  <1> DEFINE cost == (3 * n * m[good]) \div 20000
  <1>1. PICK p \in Spend(r, 1, cost, 0, 0) : s = [p EXCEPT ![good] = @ + n]
    BY DEF Buy
  <1>2. cost \in Nat
    BY PriceOfALoad
  <1> HIDE DEF cost
  <1>3. p \in Realm /\ Like(p, r)
    BY <1>1, <1>2, Spent
  <1>4. PICK g \in Nat : g = p[good] + n
    BY <1>3, GoodIsNat
  <1>5. s = [p EXCEPT ![good] = g]
    BY <1>1, <1>4
  <1>6. s \in Realm /\ Like(s, p)
    BY <1>3, <1>5, Sale
  <1> QED BY <1>3, <1>6 DEF Like

-----------------------------------------------------------------------------
(* Dawn *)

\* Before the upkeep is settled, silver and grain may be owed.
LEMMA FieldsInDebt ==
    ASSUME NEW r \in RealmWith(Int, Int)
    PROVE  /\ r.farms \in Nat /\ r.woods \in Nat /\ r.longhouses \in Nat
           /\ r.folk \in Nat /\ r.silver \in Int /\ r.grain \in Int
           /\ r.timber \in Nat /\ r.huscarls \in Nat /\ r.ships \in Nat
  BY DEF RealmWith

\* Before the hungry starve, grain may be owed.
LEMMA FieldsInHunger ==
    ASSUME NEW r \in RealmWith(Nat, Int)
    PROVE  /\ r.farms \in Nat /\ r.woods \in Nat /\ r.longhouses \in Nat
           /\ r.folk \in Nat /\ r.silver \in Nat /\ r.grain \in Int
           /\ r.timber \in Nat /\ r.huscarls \in Nat /\ r.ships \in Nat
  BY DEF RealmWith

\* Income and upkeep may leave a realm in debt and hungry,
LEMMA FedAndPaid ==
    ASSUME NEW r \in Realm, NEW d, NEW e
    PROVE  Earned(r, d, e) \in RealmWith(Int, Int) /\ Like(Earned(r, d, e), r)
  <1> DEFINE eaten == Eaten(r, d)
  <1>1. eaten \in Nat
    BY Fields DEF Eaten
  <1> HIDE DEF eaten
  <1>4. PICK g \in Int :
             g = r.grain + r.farms * 12 * (IF e = "good_year" THEN 2 ELSE 1)
                   - eaten * (IF e = "hard_frost" THEN 2 ELSE 1)
    BY <1>1, Fields
  <1>5. PICK t \in Nat, c \in Int :
             t = r.timber + 6 * r.woods /\ c = r.silver + r.folk - r.huscarls - 5 * r.ships - r.watchers
    BY Fields
  <1>3. Earned(r, d, e) = [r EXCEPT !.grain = g, !.timber = t, !.silver = c]
    BY <1>4, <1>5 DEF Earned, eaten
  <1> QED BY <1>3, ZenonT(60) DEF Realm, RealmWith, Like

\* the huscarls that walk and the ships that rot settle the debt,
LEMMA DebtsAreSettled ==
    ASSUME NEW r \in RealmWith(Int, Int)
    PROVE  Unpaid(r) \in RealmWith(Nat, Int) /\ Like(Unpaid(r), r)
  <1> DEFINE walk == Least(r.huscarls, Most(0, -r.silver))
             rot == Least(r.ships, (Most(0, -r.silver - walk) + 4) \div 5)
  <1>1. walk \in 0..r.huscarls
    BY FieldsInDebt DEF Least, Most
  <1> HIDE DEF walk
  <1>2. (Most(0, -r.silver - walk) + 4) \div 5 \in Nat
    BY <1>1, FieldsInDebt DEF Most
  <1>3. rot \in 0..r.ships
    BY <1>2, FieldsInDebt DEF Least
  <1> HIDE DEF rot
  <1>4. PICK h \in Nat, s \in Nat, c \in Nat :
          h = r.huscarls - walk /\ s = r.ships - rot /\ c = Most(0, r.silver + walk + 5 * rot)
    BY <1>1, <1>3, FieldsInDebt DEF Most
  <1>5. Unpaid(r) = [r EXCEPT !.huscarls = h, !.ships = s, !.silver = c]
    BY <1>4 DEF Unpaid, walk, rot
  <1> QED BY <1>5, ZenonT(60), ZenonT(60) DEF RealmWith, Like

\* and the starving and the deserters settle the hunger.
LEMMA TheHungryStarve ==
    ASSUME NEW r \in RealmWith(Nat, Int)
    PROVE  Fed(r) \in Realm /\ Like(Fed(r), r)
  <1>1. CASE r.grain < 0
    <2>1. PICK f \in Nat, h \in Nat : f = (r.folk * 94) \div 100 /\ h = (r.huscarls * 9) \div 10
      BY FieldsInHunger
    <2>2. PICK g \in Nat : g = 0
      OBVIOUS
    <2>3. Fed(r) = [r EXCEPT !.grain = g, !.folk = f, !.huscarls = h]
      BY <1>1, <2>1, <2>2 DEF Fed
    <2> QED BY <2>3, ZenonT(60) DEF Realm, RealmWith, Like
  <1>2. CASE ~(r.grain < 0)
    <2>1. r \in Realm
      <3>1. r.grain \in Nat
        BY <1>2, FieldsInHunger
      <3> QED BY <3>1 DEF Realm, RealmWith
    <2>2. CASE r.folk < Roofs(r)
      <3>1. (r.folk * (IF r.feasted THEN 110 ELSE 105)) \div 100 + 1 \in Nat
        BY FieldsInHunger
      <3>2. PICK f \in Nat : f = Least(Roofs(r), (r.folk * (IF r.feasted THEN 110 ELSE 105)) \div 100 + 1)
        BY <2>1, <3>1, NumbersOfARealm DEF Least
      <3>3. Fed(r) = [r EXCEPT !.folk = f]
        BY <1>2, <2>2, <3>2 DEF Fed
      <3> QED BY <2>1, <3>3 DEF Realm, RealmWith, Like
    <2>3. CASE ~(r.folk < Roofs(r))
      <3>1. Fed(r) = r
        BY <1>2, <2>3 DEF Fed
      <3> QED BY <2>1, <3>1 DEF Like
    <2> QED BY <2>2, <2>3
  <1> QED BY <1>1, <1>2

\* What will not keep is sold: never more than there is.
LEMMA SurplusIsSold ==
    ASSUME NEW r \in Realm, NEW d, NEW m \in PriceList
    PROVE  Surplus(r, d, m) \in Realm /\ Like(Surplus(r, d, m), r)
  <1> DEFINE spare == Most(0, r.grain - (5 * Eaten(r, d) + 100))
             wood == Most(0, r.timber - 200)
             gain == (spare * m.grain + wood * m.timber) \div 10000
  <1>1. Eaten(r, d) \in Nat
    BY Fields DEF Eaten
  <1>2. spare \in 0..r.grain /\ wood \in 0..r.timber
    BY <1>1, Fields DEF Most
  <1>3. gain \in Nat
    <2>1. PICK a \in Nat, b \in Nat, x \in Nat, y \in Nat :
            a = spare /\ b = wood /\ x = m.grain /\ y = m.timber
      BY <1>2, Fields, PriceFields
    <2>2. a * x + b * y \in Nat
      OBVIOUS
    <2>3. PICK z \in Nat : z = a * x + b * y
      BY <2>2
    <2>4. z \div 10000 \in Nat
      OBVIOUS
    <2> QED BY <2>1, <2>3, <2>4
  <1>4. Surplus(r, d, m) = [r EXCEPT !.grain = @ - spare, !.timber = @ - wood, !.silver = @ + gain]
    BY DEF Surplus
  <1> HIDE DEF spare, wood, gain
  <1>5. PICK g \in Nat, t \in Nat, c \in Nat : g = r.grain - spare /\ t = r.timber - wood /\ c = r.silver + gain
    BY <1>2, <1>3, Fields
  <1>6. Surplus(r, d, m) = [r EXCEPT !.grain = g, !.timber = t, !.silver = c]
    BY <1>4, <1>5
  <1> QED BY <1>6, ZenonT(60) DEF Realm, RealmWith, Like

\* apply_event.
LEMMA EventsBefall ==
    ASSUME NEW r \in Realm, NEW e
    PROVE  Befallen(r, e) \in Realm /\ Like(Befallen(r, e), r)
  <1> DEFINE above == Most(0, r.folk - FolkFloor)
  <1>1. above \in Nat /\ above <= r.folk
    BY Fields DEF Most, FolkFloor
  <1>2. PICK f1 \in Nat, f2 \in Nat, f3 \in Nat :
          /\ f1 = r.folk - Least(r.folk \div 25, above)
          /\ f2 = r.folk - Least(r.folk \div 100, above)
          /\ f3 = Least(Roofs(r), r.folk + (r.folk * 3) \div 100)
    <2> HIDE DEF above
    <2>1. r.folk - Least(r.folk \div 25, above) \in Nat /\ r.folk - Least(r.folk \div 100, above) \in Nat
      BY <1>1, Fields DEF Least
    <2>2. Least(Roofs(r), r.folk + (r.folk * 3) \div 100) \in Nat
      BY Fields, NumbersOfARealm DEF Least
    <2> QED BY <2>1, <2>2
  <1>3. CASE e = "whale"
    <2>1. PICK g \in Nat : g = r.grain + 150
      BY Fields
    <2>2. Befallen(r, e) = [r EXCEPT !.grain = g]
      BY <1>3, <2>1 DEF Befallen
    <2> QED BY <2>2 DEF Realm, RealmWith, Like
  <1>4. CASE e = "skald"
    <2>1. Befallen(r, e) = Honoured(r, 2)
      BY <1>4 DEF Befallen
    <2> QED BY <2>1, HonourIsClamped
  <1>5. CASE e = "shipwright" /\ r.boatyards > 0
    <2>1. PICK n \in Nat : n = r.ships + 1
      BY Fields
    <2>2. Befallen(r, e) = [r EXCEPT !.ships = n]
      BY <1>5, <2>1 DEF Befallen
    <2> QED BY <2>2 DEF Realm, RealmWith, Like
  <1>6. CASE e = "shipwright" /\ ~(r.boatyards > 0)
    <2>1. PICK n \in Nat : n = r.silver + 50
      BY Fields
    <2>2. r.boatyards = 0
      BY <1>6, Fields
    <2>3. Befallen(r, e) = [r EXCEPT !.silver = n]
      BY <1>6, <2>1, <2>2 DEF Befallen
    <2> QED BY <2>3 DEF Realm, RealmWith, Like
  <1>7. CASE e = "sickness"
    <2>1. Befallen(r, e) = [r EXCEPT !.folk = f1]
      BY <1>2, <1>7 DEF Befallen
    <2> QED BY <2>1 DEF Realm, RealmWith, Like
  <1>8. CASE e = "landslip" /\ r.woods > 1
    <2>1. PICK n \in Nat, w \in Nat : n = r.woods - 1 /\ w = r.wild + 1
      BY <1>8, Fields
    <2>2. Befallen(r, e) = [r EXCEPT !.woods = n, !.wild = w]
      BY <1>8, <2>1 DEF Befallen
    <2> QED BY <2>2 DEF Realm, RealmWith, Like
  <1>9. CASE e = "stranger"
    <2>1. PICK n \in Nat : n = r.silver + 100
      BY Fields
    <2>2. Befallen(r, e) = [r EXCEPT !.silver = n]
      BY <1>9, <2>1 DEF Befallen
    <2> QED BY <2>2 DEF Realm, RealmWith, Like
  <1>10. CASE e = "wolves"
    <2>1. Befallen(r, e) = [r EXCEPT !.folk = f2]
      BY <1>2, <1>10 DEF Befallen
    <2> QED BY <2>1 DEF Realm, RealmWith, Like
  <1>11. CASE e = "driftwood"
    <2>1. PICK n \in Nat : n = r.timber + 80
      BY Fields
    <2>2. Befallen(r, e) = [r EXCEPT !.timber = n]
      BY <1>11, <2>1 DEF Befallen
    <2> QED BY <2>2 DEF Realm, RealmWith, Like
  <1>12. CASE e = "wedding"
    <2>1. Befallen(r, e) = [r EXCEPT !.folk = f3]
      BY <1>2, <1>12 DEF Befallen
    <2> QED BY <2>1 DEF Realm, RealmWith, Like
  <1>13. CASE /\ e \notin {"whale", "skald", "shipwright", "sickness", "stranger", "wolves", "driftwood", "wedding"}
              /\ ~(e = "landslip" /\ r.woods > 1)
    <2>1. Befallen(r, e) = r
      BY <1>13 DEF Befallen
    <2> QED BY <2>1 DEF Like
  <1> QED BY <1>3, <1>4, <1>5, <1>6, <1>7, <1>8, <1>9, <1>10, <1>11, <1>12, <1>13

\* apply_dawn: a realm for a realm, and the day is counted once.
LEMMA Dawning ==
    ASSUME NEW r \in Realm, NEW d \in Nat, NEW e, NEW m \in PriceList
    PROVE  LET s == Dawn(r, d, e, m)
           IN  /\ s \in Realm /\ s.joined = r.joined
               /\ IF d <= r.last THEN s = r ELSE s.last = d /\ s.sailings = <<>>
  <1>1. CASE d <= r.last
    <2>1. Dawn(r, d, e, m) = r
      BY <1>1 DEF Dawn
    <2> QED BY <1>1, <2>1
  <1>2. CASE ~(d <= r.last)
    <2> DEFINE a == Earned(r, d, e)
               b == Unpaid(a)
               c == Fed(b)
               u == Surplus(c, d, m)
               s == Befallen(u, e)
    <2>1. Dawn(r, d, e, m) = [s EXCEPT !.turns = Rested(s), !.sailings = <<>>, !.feasted = FALSE,
                                       !.sung = Most(0, @ - 1), !.last = d]
      BY <1>2 DEF Dawn
    <2>2. a \in RealmWith(Int, Int) /\ Like(a, r)
      BY FedAndPaid
    <2> HIDE DEF a
    <2>3. b \in RealmWith(Nat, Int) /\ Like(b, a)
      BY <2>2, DebtsAreSettled
    <2> HIDE DEF b
    <2>4. c \in Realm /\ Like(c, b)
      BY <2>3, TheHungryStarve
    <2> HIDE DEF c
    <2>5. u \in Realm /\ Like(u, c)
      BY <2>4, SurplusIsSold
    <2> HIDE DEF u
    <2>6. s \in Realm /\ Like(s, u)
      BY <2>5, EventsBefall
    <2> HIDE DEF s
    <2>7. s.joined = r.joined
      BY <2>2, <2>3, <2>4, <2>5, <2>6 DEF Like
    <2>8. PICK t \in TurnsHeld : t = Rested(s)
      BY <2>6, Fields DEF TurnsHeld, Rested, Least, TurnCap, TurnsPerDay
    <2>9. PICK n \in Nat : n = Most(0, s.sung - 1)
      BY <2>6, Fields DEF Most
    <2> DEFINE after == [s EXCEPT !.turns = t, !.sailings = <<>>, !.feasted = FALSE, !.sung = n, !.last = d]
    <2>10. Dawn(r, d, e, m) = after
      BY <2>1, <2>8, <2>9
    <2>11. <<>> \in Seq(Jarl)
      OBVIOUS
    <2>12. after \in Realm
      BY <2>6, <2>11 DEF Realm, RealmWith
    <2>13. after.last = d /\ after.sailings = <<>> /\ after.joined = s.joined
      BY <2>6 DEF Realm, RealmWith
    <2> QED BY <1>2, <2>7, <2>10, <2>12, <2>13
  <1> QED BY <1>1, <1>2

\* Any set of days has a first.
LEMMA SmallestDay ==
    ASSUME NEW S \in SUBSET Nat, S # {}
    PROVE  \E n \in S : \A k \in S : n <= k
  <1>1. PICK n \in S : \A k \in S : ~(<<k, n>> \in OpToRel(<, Nat))
    BY NatLessThanWellFounded, WFMin
  <1>2. \A k \in S : ~(k < n)
    BY <1>1 DEF OpToRel
  <1> QED BY <1>2

\* One missed dawn after another.
Missed(f, k, r, d, e, m) ==
    f = [n \in r.last..k |-> IF n = r.last THEN r ELSE Dawn(f[n - 1], n, IF n = d THEN e ELSE "", m)]

\* Dawns is what its recursive definition says.
LEMMA DawnsUnfold ==
    ASSUME NEW r \in Realm, NEW d \in Nat, r.last <= d, NEW e, NEW m
    PROVE  \E f : Missed(f, d, r, d, e, m) /\ Dawns(r, d, e, m) = f[d]
  <1> DEFINE a == r.last
             Step(x, n) == Dawn(x, n, IF n = d THEN e ELSE "", m)
             Goes(f, k) == f = [n \in a..k |-> IF n = a THEN r ELSE Step(f[n - 1], n)]
  <1>1. a \in Nat /\ a <= d
    BY Fields
  <1>2. \E f : Goes(f, d)
    <2> DEFINE Bad == {k \in a..d : ~\E f : Goes(f, k)}
    <2> HIDE DEF Step, a
    <2>1. SUFFICES ASSUME Bad # {} PROVE FALSE
      BY <1>1
    <2>8. Bad \in SUBSET Nat
      BY <1>1
    <2>2. PICK k \in Bad : \A i \in Bad : k <= i
      <3> HIDE DEF Bad
      <3> QED BY <2>1, <2>8, SmallestDay
    <2>9. k \in a..d /\ ~\E f : Goes(f, k)
      OBVIOUS
    <2>10. \A i \in a..d : i < k => \E f : Goes(f, i)
      <3> TAKE i \in a..d
      <3> HAVE i < k
      <3>1. i \notin Bad
        <4> HIDE DEF Bad
        <4> QED BY <1>1, <2>2, <2>8, <2>9
      <3> QED BY <3>1
    <2> HIDE DEF Bad
    <2>3. k # a
      <3> DEFINE f == [n \in a..a |-> r]
      <3>1. f = [n \in a..a |-> IF n = a THEN r ELSE Step(f[n - 1], n)]
        BY <1>1
      <3> QED BY <2>9, <3>1
    <2>4. k - 1 \in a..d /\ k - 1 < k
      BY <1>1, <2>3, <2>9
    <2>5. PICK g : Goes(g, k - 1)
      BY <2>4, <2>10
    <2> DEFINE f == [n \in a..k |-> IF n = k THEN Step(g[k - 1], k) ELSE g[n]]
    <2>6. \A n \in a..k : f[n] = IF n = a THEN r ELSE Step(f[n - 1], n)
      <3> TAKE n \in a..k
      <3>1. k \in Nat /\ k > a
        BY <1>1, <2>9, <2>3
      <3>2. CASE n = k
        <4>1. n - 1 \in a..k /\ n - 1 # k /\ n # a
          BY <1>1, <3>1, <3>2
        <4>2. f[n - 1] = g[k - 1]
          BY <3>2, <4>1
        <4> QED BY <3>2, <4>1, <4>2
      <3>3. CASE n # k /\ n # a
        <4>1. n - 1 \in a..k /\ n - 1 # k /\ n \in a..(k - 1)
          BY <1>1, <3>1, <3>3
        <4>2. f[n - 1] = g[n - 1] /\ f[n] = g[n]
          BY <3>3, <4>1
        <4>3. g[n] = IF n = a THEN r ELSE Step(g[n - 1], n)
          BY <2>5, <4>1
        <4> QED BY <4>2, <4>3
      <3>4. CASE n = a
        <4>1. n \in a..(k - 1) /\ n # k
          BY <1>1, <3>1, <3>4
        <4>2. f[n] = g[n]
          BY <4>1
        <4>3. g[n] = r
          BY <2>5, <3>4, <4>1
        <4> QED BY <3>4, <4>2, <4>3
      <3> QED BY <3>2, <3>3, <3>4
    <2>7. Goes(f, k)
      <3> HIDE DEF f
      <3>1. f = [n \in a..k |-> f[n]]
        BY DEF f
      <3> QED BY <2>6, <3>1
    <2> QED BY <2>9, <2>7
  <1> DEFINE upto == CHOOSE f : Goes(f, d)
  <1>3. Goes(upto, d)
    BY <1>2
  <1>4. Dawns(r, d, e, m) = upto[d]
    BY DEF Dawns
  <1> HIDE DEF upto
  <1>5. Missed(upto, d, r, d, e, m)
    BY <1>3 DEF Missed
  <1> QED BY <1>4, <1>5

\* Every missed dawn, by the first that would not be sound.
LEMMA EveryDawn ==
    ASSUME NEW r \in Realm, NEW d \in Nat, r.last <= d, NEW e, NEW m \in PriceList
    PROVE  LET s == Dawns(r, d, e, m)
           IN  /\ s \in Realm /\ s.joined = r.joined /\ s.last = d
               /\ s.sailings \in {<<>>, r.sailings}
  <1>1. PICK f : Missed(f, d, r, d, e, m) /\ Dawns(r, d, e, m) = f[d]
    BY DawnsUnfold
  <1> DEFINE a == r.last
             Fine(n) == /\ f[n] \in Realm /\ f[n].joined = r.joined /\ f[n].last = n
                        /\ f[n].sailings \in {<<>>, r.sailings}
             Bad == {n \in a..d : ~Fine(n)}
             what(n) == IF n = d THEN e ELSE ""
  <1>2. a \in Nat /\ a <= d
    BY Fields
  <1>3. \A n \in a..d : f[n] = IF n = a THEN r ELSE Dawn(f[n - 1], n, what(n), m)
    <2> DEFINE Step(p, n) == IF n = a THEN r ELSE Dawn(p[n - 1], n, what(n), m)
    <2>1. f = [n \in a..d |-> Step(f, n)]
      BY <1>1 DEF Missed
    <2> HIDE DEF Step
    <2>2. \A n \in a..d : f[n] = Step(f, n)
      BY <2>1
    <2> QED BY <2>2 DEF Step
  <1> HIDE DEF what
  <1>4. Bad = {}
    <2>1. SUFFICES ASSUME Bad # {} PROVE FALSE
      OBVIOUS
    <2>5. Bad \in SUBSET Nat
      BY <1>2
    <2>2. PICK k \in Bad : \A i \in Bad : k <= i
      <3> HIDE DEF Bad
      <3> QED BY <2>1, <2>5, SmallestDay
    <2>3. CASE k = a
      <3>1. f[k] = r
        BY <1>2, <1>3, <2>2, <2>3
      <3> QED BY <2>2, <2>3, <3>1
    <2>4. CASE k # a
      <3>1. k \in Nat /\ k - 1 \in a..d /\ k - 1 \in Nat /\ k - 1 \notin Bad
        BY <1>2, <2>2, <2>4
      <3> DEFINE p == f[k - 1]
      <3>2. p \in Realm /\ p.joined = r.joined /\ p.last = k - 1
        BY <3>1
      <3>3. f[k] = Dawn(p, k, what(k), m)
        BY <1>3, <2>2, <2>4
      <3> HIDE DEF p
      <3>4. ~(k <= p.last)
        BY <3>1, <3>2
      <3>5. f[k] \in Realm /\ f[k].joined = p.joined /\ f[k].last = k /\ f[k].sailings = <<>>
        BY <3>1, <3>2, <3>3, <3>4, Dawning
      <3> QED BY <2>2, <3>2, <3>5
    <2> QED BY <2>3, <2>4
  <1>5. Fine(d)
    BY <1>2, <1>4
  <1> QED BY <1>1, <1>5

\* apply_song.
LEMMA SongsAreSung ==
    ASSUME NEW r \in Realm, NEW d \in Nat, d <= DaysInYear
    PROVE  Sung(r, d) \in Realm /\ Like(Sung(r, d), r)
  <1>1. PICK n \in Nat : n = DaysInYear - d + 1
    BY DEF DaysInYear
  <1>2. Sung(r, d) = r \/ Sung(r, d) = [r EXCEPT !.sung = n]
    BY <1>1 DEF Sung
  <1> QED BY <1>2 DEF Realm, RealmWith, Like

-----------------------------------------------------------------------------
(* The sea *)

\* A sailing against somebody new keeps the sailings distinct.
LEMMA Distinct ==
    ASSUME NEW s \in Seq(Jarl), NEW who \in Jarl, IsInjective(s), ~Contains(s, who)
    PROVE  Append(s, who) \in Seq(Jarl) /\ IsInjective(Append(s, who))
  <1>1. \A i \in 1..Len(s) : s[i] # who
    BY DEF Contains
  <1> QED BY <1>1 DEF IsInjective

\* Who sails never loses more than the party that sailed.
LEMMA Losses ==
    ASSUME NEW p \in Nat, NEW a \in Nat, NEW b \in Nat
    PROVE  /\ (35 * p) \div 100 \in 0..p
           /\ b >= 100 /\ a >= b => (15 * p * b) \div (100 * a) \in 0..p
  <1>1. (35 * p) \div 100 \in 0..p
    OBVIOUS
  <1>2. ASSUME b >= 100, a >= b PROVE (15 * p * b) \div (100 * a) \in 0..p
    <2>1. PICK x \in Nat, y \in Nat : x = 15 * p * b /\ y = 100 * a
      OBVIOUS
    <2>2. y > 0 /\ p * y \in Nat
      BY <1>2, <2>1
    <2>3. x <= p * y
      <3>1. PICK z \in Nat : a = b + z
        BY <1>2
      <3>2. p * y = 100 * (p * b) + 100 * (p * z)
        BY <2>1, <3>1
      <3>3. p * b \in Nat /\ p * z \in Nat /\ x = 15 * (p * b)
        BY <2>1
      <3> QED BY <3>2, <3>3
    <2>4. x \div y \in Nat /\ y * (x \div y) <= x
      BY <2>2
    <2>5. PICK q \in Nat : q = x \div y
      BY <2>4
    <2>6. q <= p
      <3>1. SUFFICES ASSUME q > p PROVE FALSE
        OBVIOUS
      <3>2. PICK k \in Nat : q = p + 1 + k
        BY <3>1
      <3>3. y * q = p * y + y + y * k /\ y * k \in Nat
        BY <3>2
      <3> QED BY <2>2, <2>3, <2>4, <2>5, <3>3
    <2> QED BY <2>1, <2>5, <2>6
  <1> QED BY <1>1, <1>2

\* What a settlement says: so much of each.
Says(s, h, f, c, g, t, w, o, a, l) ==
    /\ s.huscarls = h /\ s.folk = f /\ s.silver = c /\ s.grain = g /\ s.timber = t
    /\ s.steadings.wild = w /\ s.steadings.woods = o /\ s.steadings.farms = a
    /\ s.steadings.longhouses = l

\* The settlements of the rules, field by field: of a defence,
LEMMA NothingSays ==
    /\ \A h, f \in Nat : Says([Nothing EXCEPT !.huscarls = h, !.folk = f], h, f, 0, 0, 0, 0, 0, 0, 0)
    /\ \A h \in Nat : Says([Nothing EXCEPT !.huscarls = h], h, 0, 0, 0, 0, 0, 0, 0, 0)
  BY DEF Says, Nothing

\* of a raid,
LEMMA RaidSays ==
    ASSUME NEW h \in Nat, NEW f \in Nat, NEW c \in Nat, NEW g \in Nat, NEW t \in Nat
    PROVE  Says([[Nothing EXCEPT !.huscarls = h, !.folk = f] EXCEPT !.silver = c, !.grain = g, !.timber = t],
                h, f, c, g, t, 0, 0, 0, 0)
  BY DEF Says, Nothing

\* of a taking.
LEMMA TakeSays ==
    ASSUME NEW h \in Nat, NEW f \in Nat, NEW z
    PROVE  LET s == [[Nothing EXCEPT !.huscarls = h, !.folk = f] EXCEPT !.steadings = z] IN 
       s.huscarls = h /\ s.folk = f /\ s.silver = 0 /\ s.grain = 0 /\ s.timber = 0 /\ s.steadings = z
  BY DEF Nothing

\* s holds what r holds.
Holds(s, r) ==
    /\ s.folk = r.folk /\ s.silver = r.silver /\ s.grain = r.grain /\ s.timber = r.timber
    /\ s.huscarls = r.huscarls /\ s.wild = r.wild /\ s.woods = r.woods /\ s.farms = r.farms
    /\ s.longhouses = r.longhouses /\ s.boatyards = r.boatyards

\* Honour costs nothing.
LEMMA HonourHoldsAll ==
    ASSUME NEW r \in Realm, NEW n
    PROVE  Holds(Honoured(r, n), r)
  <1> DEFINE h == Clamp(-50, r.honour + n, 50)
  <1>1. Honoured(r, n) = [r EXCEPT !.honour = h]
    BY DEF Honoured
  <1> HIDE DEF h
  <1> QED BY <1>1 DEF Holds, Realm, RealmWith

\* What a settlement may say of e: never more than there is, nobody below the
\* floor, and not the last of a wood, a farm or a longhouse.
Bearable(e, h, f, c, g, t, w, o, a, l) ==
    /\ h <= e.huscarls /\ f <= Most(0, e.folk - FolkFloor)
    /\ c <= e.silver /\ g <= e.grain /\ t <= e.timber
    /\ w <= e.wild /\ o <= Most(0, e.woods - 1) /\ a <= Most(0, e.farms - 1)
    /\ l <= Most(0, e.longhouses - 1)

\* apply_settlement does what a bearable settlement says, to the letter.
LEMMA SettledUp ==
    ASSUME NEW e \in Realm, NEW s, NEW h \in Nat, NEW f \in Nat, NEW c \in Nat, NEW g \in Nat,
           NEW t \in Nat, NEW w \in Nat, NEW o \in Nat, NEW a \in Nat, NEW l \in Nat,
           Says(s, h, f, c, g, t, w, o, a, l), Bearable(e, h, f, c, g, t, w, o, a, l)
    PROVE  LET q == Settled(e, s)
           IN  /\ q \in Realm /\ Like(q, e) /\ q.turns = e.turns
               /\ q.huscarls = e.huscarls - h /\ q.folk = e.folk - f /\ q.silver = e.silver - c
               /\ q.grain = e.grain - g /\ q.timber = e.timber - t /\ q.wild = e.wild - w
               /\ q.woods = e.woods - o /\ q.farms = e.farms - a /\ q.longhouses = e.longhouses - l
               /\ q.boatyards = e.boatyards
  <1>1. /\ Most(0, e.huscarls - h) = e.huscarls - h /\ Most(0, e.silver - c) = e.silver - c
        /\ Most(0, e.grain - g) = e.grain - g /\ Most(0, e.timber - t) = e.timber - t
        /\ Most(0, e.wild - w) = e.wild - w
    BY Fields DEF Bearable, Most
  <1>2. (IF e.folk > FolkFloor THEN Most(FolkFloor, e.folk - f) ELSE e.folk) = e.folk - f
    BY Fields DEF Bearable, Most, FolkFloor
  <1>3. /\ (IF o > 0 THEN Most(1, e.woods - o) ELSE e.woods) = e.woods - o
        /\ (IF a > 0 THEN Most(1, e.farms - a) ELSE e.farms) = e.farms - a
        /\ (IF l > 0 THEN Most(1, e.longhouses - l) ELSE e.longhouses) = e.longhouses - l
    BY Fields DEF Bearable, Most
  <1>4. PICK h1 \in Nat, f1 \in Nat, c1 \in Nat, g1 \in Nat, t1 \in Nat, w1 \in Nat :
          /\ h1 = e.huscarls - h /\ f1 = e.folk - f /\ c1 = e.silver - c /\ g1 = e.grain - g
          /\ t1 = e.timber - t /\ w1 = e.wild - w
    <2>1. /\ e.huscarls - h \in Nat /\ e.folk - f \in Nat /\ e.silver - c \in Nat /\ e.grain - g \in Nat
          /\ e.timber - t \in Nat /\ e.wild - w \in Nat
      BY Fields DEF Bearable, Most, FolkFloor
    <2> QED BY <2>1
  <1>5. PICK o1 \in Nat, a1 \in Nat, l1 \in Nat : o1 = e.woods - o /\ a1 = e.farms - a /\ l1 = e.longhouses - l
    BY Fields DEF Bearable, Most
  <1>6. Settled(e, s) = [e EXCEPT !.huscarls = h1, !.folk = f1, !.silver = c1, !.grain = g1, !.timber = t1,
                                  !.wild = w1, !.woods = o1, !.farms = a1, !.longhouses = l1]
    BY <1>1, <1>2, <1>3, <1>4, <1>5 DEF Settled, Says
  <1> DEFINE q == [e EXCEPT !.huscarls = h1, !.folk = f1, !.silver = c1, !.grain = g1, !.timber = t1,
                            !.wild = w1, !.woods = o1, !.farms = a1, !.longhouses = l1]
  <1>7. q \in Realm
    BY DEF Realm, RealmWith
  <1>8. Like(q, e) /\ q.turns = e.turns /\ q.boatyards = e.boatyards
    BY DEF Realm, RealmWith, Like
  <1>9. /\ q.huscarls = h1 /\ q.folk = f1 /\ q.silver = c1 /\ q.grain = g1 /\ q.timber = t1
        /\ q.wild = w1 /\ q.woods = o1 /\ q.farms = a1 /\ q.longhouses = l1
    BY DEF Realm, RealmWith
  <1> HIDE DEF q
  <1>10. Settled(e, s) = q
    BY <1>6 DEF q
  <1> QED BY <1>4, <1>5, <1>7, <1>8, <1>9, <1>10

\* A taking takes a tenth at most, and the last of nothing.
LEMMA FewSteadings ==
    ASSUME NEW e \in Realm
    PROVE  LET z == Steadings(e)
           IN  /\ z.wild \in Nat /\ z.woods \in Nat /\ z.farms \in Nat /\ z.longhouses \in Nat
               /\ z.wild <= e.wild /\ z.woods <= Most(0, e.woods - 1) /\ z.farms <= Most(0, e.farms - 1)
               /\ z.longhouses <= Most(0, e.longhouses - 1)
               /\ z.wild + z.woods + z.farms + z.longhouses <= Most(1, Land(e) \div 10)
  <1> DEFINE n == Most(1, Land(e) \div 10)
             wild == Least(n, e.wild)
             woods == Least(n - wild, Most(0, e.woods - 1))
             farms == Least(n - wild - woods, Most(0, e.farms - 1))
             longhouses == Least(n - wild - woods - farms, Most(0, e.longhouses - 1))
  <1>1. Steadings(e) = [wild |-> wild, woods |-> woods, farms |-> farms, longhouses |-> longhouses]
    BY DEF Steadings
  <1>2. n \in Nat
    BY NumbersOfARealm DEF Most
  <1> HIDE DEF n
  <1>3. wild \in Nat /\ wild <= n /\ wild <= e.wild
    BY <1>2, Fields DEF Least
  <1> HIDE DEF wild
  <1>4. woods \in Nat /\ woods <= n - wild /\ woods <= Most(0, e.woods - 1)
    BY <1>2, <1>3, Fields DEF Least, Most
  <1> HIDE DEF woods
  <1>5. farms \in Nat /\ farms <= n - wild - woods /\ farms <= Most(0, e.farms - 1)
    BY <1>2, <1>3, <1>4, Fields DEF Least, Most
  <1> HIDE DEF farms
  <1>6. longhouses \in Nat /\ longhouses <= n - wild - woods - farms /\ longhouses <= Most(0, e.longhouses - 1)
    BY <1>2, <1>3, <1>4, <1>5, Fields DEF Least, Most
  <1> HIDE DEF longhouses
  <1>7. wild + woods + farms + longhouses <= n
    BY <1>2, <1>3, <1>4, <1>5, <1>6
  <1>8. /\ Steadings(e).wild = wild /\ Steadings(e).woods = woods /\ Steadings(e).farms = farms
        /\ Steadings(e).longhouses = longhouses
    BY <1>1
  <1> QED BY <1>3, <1>4, <1>5, <1>6, <1>7, <1>8 DEF n

\* What every sailing begins with: turns, and one more sailing.
LEMMA PuttingOut ==
    ASSUME NEW kind, NEW r \in Realm, NEW e, NEW who \in Jarl, NEW party, NEW d,
           IsInjective(r.sailings), NEW p \in PutOut(kind, r, e, who, party, d)
    PROVE  /\ p \in Realm /\ p.last = r.last /\ p.joined = r.joined /\ IsInjective(p.sailings)
           /\ Holds(p, r) /\ party <= r.huscarls /\ ~UnderPeace(e, d)
  <1> DEFINE turns == SailTurns(kind, d)
  <1>1. MaySail(r, e, who, d) /\ party <= r.huscarls
        /\ p \in {[s EXCEPT !.sailings = Append(@, who)] : s \in Spend(r, turns, 0, 0, 0)}
    BY DEF PutOut
  <1>2. turns \in Nat
    BY DEF SailTurns
  <1> HIDE DEF turns
  <1>3. PICK s \in Spend(r, turns, 0, 0, 0) : p = [s EXCEPT !.sailings = Append(@, who)]
    BY <1>1
  <1>4. s \in Realm /\ Like(s, r)
    BY <1>2, <1>3, Spent
  <1>5. Holds(s, r)
    <2>1. s = [r EXCEPT !.turns = @ - turns, !.silver = @ - 0, !.grain = @ - 0, !.timber = @ - 0]
      BY <1>3 DEF Spend
    <2>2. PICK c \in Nat, g \in Nat, t \in Nat : c = r.silver - 0 /\ g = r.grain - 0 /\ t = r.timber - 0
      BY Fields
    <2> DEFINE n == r.turns - turns
    <2>3. s = [r EXCEPT !.turns = n, !.silver = c, !.grain = g, !.timber = t]
      BY <2>1, <2>2
    <2> HIDE DEF n
    <2>4. /\ s.folk = r.folk /\ s.silver = c /\ s.grain = g /\ s.timber = t
          /\ s.huscarls = r.huscarls /\ s.wild = r.wild /\ s.woods = r.woods /\ s.farms = r.farms
          /\ s.longhouses = r.longhouses /\ s.boatyards = r.boatyards
      BY <2>3 DEF Realm, RealmWith
    <2>5. c = r.silver /\ g = r.grain /\ t = r.timber
      BY <2>2, Fields
    <2> QED BY <2>4, <2>5 DEF Holds
  <1> DEFINE a == Append(r.sailings, who)
  <1>6. a \in Seq(Jarl) /\ IsInjective(a)
    <2>1. r.sailings \in Seq(Jarl)
      BY DEF Realm, RealmWith
    <2> QED BY <1>1, <2>1, Distinct DEF MaySail
  <1>7. p = [s EXCEPT !.sailings = a]
    BY <1>3, <1>4 DEF Like
  <1> HIDE DEF a
  <1>8. p \in Realm /\ p.last = s.last /\ p.joined = s.joined /\ p.sailings = a /\ Holds(p, s)
    BY <1>4, <1>6, <1>7 DEF Realm, RealmWith, Holds
  <1> QED BY <1>1, <1>4, <1>5, <1>6, <1>8 DEF MaySail, Like, Holds

\* What one realm does to another: r and e before, p and q after.
Dealt(r, e, p, q) ==
    /\ p.silver + q.silver <= r.silver + e.silver /\ p.grain + q.grain <= r.grain + e.grain
    /\ p.timber + q.timber <= r.timber + e.timber /\ p.folk + q.folk <= r.folk + e.folk
    /\ p.huscarls + q.huscarls <= r.huscarls + e.huscarls
    /\ Land(p) + Land(q) = Land(r) + Land(e)
    /\ (e.farms > 0 => q.farms > 0) /\ (e.woods > 0 => q.woods > 0)
    /\ (e.longhouses > 0 => q.longhouses > 0)
    /\ q.folk >= Least(e.folk, FolkFloor) /\ Land(q) >= Least(Land(e), 27)
    /\ q.turns = e.turns

\* What the taker of a settlement has of it.
Gains(r, p, lost, f, c, g, t, n) ==
    /\ p.folk <= r.folk + f /\ p.silver <= r.silver + c /\ p.grain <= r.grain + g /\ p.timber <= r.timber + t
    /\ p.huscarls = r.huscarls - lost /\ p.wild = r.wild + n /\ p.woods = r.woods /\ p.farms = r.farms
    /\ p.longhouses = r.longhouses /\ p.boatyards = r.boatyards

\* Who gains no more than a bearable settlement says has dealt with the other.
LEMMA Settlement ==
    ASSUME NEW r \in Realm, NEW e \in Realm, NEW p \in Realm, NEW s,
           NEW h \in Nat, NEW f \in Nat, NEW c \in Nat, NEW g \in Nat,
           NEW t \in Nat, NEW w \in Nat, NEW o \in Nat, NEW a \in Nat, NEW l \in Nat, NEW lost \in Nat,
           Says(s, h, f, c, g, t, w, o, a, l), Bearable(e, h, f, c, g, t, w, o, a, l),
           Gains(r, p, lost, f, c, g, t, w + o + a + l),
           w + o + a + l = 0 \/ (Land(e) >= 30 /\ w + o + a + l <= Most(1, Land(e) \div 10)),
           NEW x \in Nat
    PROVE  LET q == [Settled(e, s) EXCEPT !.raided = x]
           IN  q \in Realm /\ Like(q, e) /\ Dealt(r, e, p, q)
  <1> DEFINE u == Settled(e, s)
             q == [u EXCEPT !.raided = x]
  <1>1. /\ u \in Realm /\ Like(u, e) /\ u.turns = e.turns
        /\ u.huscarls = e.huscarls - h /\ u.folk = e.folk - f /\ u.silver = e.silver - c
        /\ u.grain = e.grain - g /\ u.timber = e.timber - t /\ u.wild = e.wild - w
        /\ u.woods = e.woods - o /\ u.farms = e.farms - a /\ u.longhouses = e.longhouses - l
        /\ u.boatyards = e.boatyards
    BY SettledUp
  <1> HIDE DEF u
  <1>2. q \in Realm /\ Like(q, u) /\ Holds(q, u) /\ q.turns = u.turns
    BY <1>1 DEF Realm, RealmWith, Like, Holds
  <1> HIDE DEF q
  <1>3. /\ q.turns = e.turns
        /\ q.huscarls = e.huscarls - h /\ q.folk = e.folk - f /\ q.silver = e.silver - c
        /\ q.grain = e.grain - g /\ q.timber = e.timber - t /\ q.wild = e.wild - w
        /\ q.woods = e.woods - o /\ q.farms = e.farms - a /\ q.longhouses = e.longhouses - l
        /\ q.boatyards = e.boatyards
    BY <1>1, <1>2 DEF Holds
  <1>4. Like(q, e)
    BY <1>1, <1>2 DEF Like
  <1>5. /\ p.silver + q.silver <= r.silver + e.silver /\ p.grain + q.grain <= r.grain + e.grain
        /\ p.timber + q.timber <= r.timber + e.timber /\ p.folk + q.folk <= r.folk + e.folk
        /\ p.huscarls + q.huscarls <= r.huscarls + e.huscarls
    BY <1>2, <1>3, Fields DEF Gains
  <1>6. Land(q) = Land(e) - (w + o + a + l) /\ Land(p) = Land(r) + (w + o + a + l)
    <2>1. Land(q) = Land(e) - (w + o + a + l)
      BY <1>2, <1>3, Fields DEF Land
    <2> DEFINE n == w + o + a + l
    <2>2. n \in Nat /\ Gains(r, p, lost, f, c, g, t, n)
      OBVIOUS
    <2> HIDE DEF n
    <2>3. Land(p) = Land(r) + n
      <3>1. /\ p.wild = r.wild + n /\ p.woods = r.woods /\ p.farms = r.farms
            /\ p.longhouses = r.longhouses /\ p.boatyards = r.boatyards
        BY <2>2 DEF Gains
      <3> QED BY <2>2, <3>1, Fields DEF Land
    <2> QED BY <2>1, <2>3 DEF n
  <1>7. Land(p) + Land(q) = Land(r) + Land(e)
    BY <1>6, NumbersOfARealm
  <1>8. /\ (e.farms > 0 => q.farms > 0) /\ (e.woods > 0 => q.woods > 0)
        /\ (e.longhouses > 0 => q.longhouses > 0)
    BY <1>3, Fields DEF Bearable, Most
  <1>9. q.folk >= Least(e.folk, FolkFloor)
    BY <1>3, Fields DEF Bearable, Most, Least, FolkFloor
  <1>10. Land(q) >= Least(Land(e), 27)
    BY <1>6, NumbersOfARealm DEF Least, Most
  <1> QED BY <1>2, <1>3, <1>4, <1>5, <1>7, <1>8, <1>9, <1>10 DEF Dealt, q, u

\* Setting a field to what it is changes nothing.
LEMMA Unmarked ==
    ASSUME NEW N, NEW h, NEW k, N = [i \in DOMAIN N |-> N[i]], N.folk = k,
           DOMAIN N = {"silver", "grain", "timber", "huscarls", "folk", "steadings"}
    PROVE  [N EXCEPT !.huscarls = h] = [N EXCEPT !.huscarls = h, !.folk = k]
  OBVIOUS

\* A defence that holds costs no folk.
LEMMA NoFolkHarmed ==
    ASSUME NEW h \in Nat
    PROVE  [Nothing EXCEPT !.huscarls = h] = [Nothing EXCEPT !.huscarls = h, !.folk = 0]
  <1>1. /\ Nothing = [i \in DOMAIN Nothing |-> Nothing[i]] /\ Nothing.folk = 0
        /\ DOMAIN Nothing = {"silver", "grain", "timber", "huscarls", "folk", "steadings"}
    BY DEF Nothing
  <1> QED BY <1>1, Unmarked

\* A third or a quarter of something is no more than it.
LEMMA Share ==
    ASSUME NEW x \in Nat, NEW k \in {3, 4}
    PROVE  x \div k \in Nat /\ x \div k <= x
  <1>1. x \div 3 \in Nat /\ x \div 3 <= x /\ x \div 4 \in Nat /\ x \div 4 <= x
    OBVIOUS
  <1> QED BY <1>1

\* The mover's realm, once it has moved, is r with the same days behind it.
Moved(p, r) == p \in Realm /\ p.last = r.last /\ p.joined = r.joined /\ IsInjective(p.sailings)

\* sail, of either kind and with any luck, is dealt.
LEMMA Sailed ==
    ASSUME NEW kind \in {"raid", "take"}, NEW r \in Realm, NEW e \in Realm, NEW who \in Jarl,
           NEW party \in Nat, NEW d \in Nat, NEW l1 \in Nat, NEW l2 \in Nat,
           IsInjective(r.sailings), NEW pair \in Sail(kind, r, e, who, party, d, <<l1, l2>>)
    PROVE  Moved(pair[1], r) /\ pair[2] \in Realm /\ Like(pair[2], e) /\ Dealt(r, e, pair[1], pair[2])
  <1> DEFINE luck == <<l1, l2>>
             attack == 30 * party * luck[1]
             defence == Most(100, AtHome(e) * luck[2])
             won == attack >= (IF kind = "take" THEN 2 ELSE 1) * defence
             bully == 2 * Renown(e) < Renown(r)
             lost == IF attack >= defence THEN (15 * party * defence) \div (100 * attack) ELSE (35 * party) \div 100
             share == IF Season(d) = "sailing" THEN 3 ELSE 4
             harm == IF attack >= defence
                     THEN [Nothing EXCEPT !.huscarls = (e.huscarls * 3) \div 10, !.folk = Mortal(e, Levy(e) \div 10)]
                     ELSE [Nothing EXCEPT !.huscarls = e.huscarls \div 10]
             s == CASE won /\ kind = "raid" -> [harm EXCEPT !.silver = e.silver \div share,
                                                            !.grain = e.grain \div share,
                                                            !.timber = e.timber \div share]
                    [] won /\ kind = "take" -> [harm EXCEPT !.steadings = Steadings(e)]
                    [] OTHER -> harm
             glory == CASE won /\ kind = "raid" /\ bully -> -2
                        [] won /\ kind = "take" -> IF bully THEN -3 ELSE 2
                        [] OTHER -> 0
             taken == s.steadings.wild + s.steadings.woods + s.steadings.farms + s.steadings.longhouses
             mine(p) == [p EXCEPT !.huscarls = @ - lost, !.silver = @ + s.silver, !.grain = @ + s.grain,
                                  !.timber = @ + s.timber, !.wild = @ + taken]
             theirs == [Settled(e, s) EXCEPT !.raided = Most(@, d)]
  <1>1. pair \in {<<Honoured(mine(p), glory), theirs>> : p \in PutOut(kind, r, e, who, party, d)}
    BY DEF Sail
  <1>2. PICK a \in Nat, b \in Nat : a = attack /\ b = defence /\ b >= 100
    <2>1. AtHome(e) \in Nat
      BY Fields, NumbersOfARealm DEF AtHome
    <2>2. AtHome(e) * luck[2] \in Nat
      BY <2>1
    <2>3. attack \in Nat
      OBVIOUS
    <2> HIDE DEF attack, luck
    <2>4. defence \in Nat /\ defence >= 100
      BY <2>2 DEF Most
    <2> QED BY <2>3, <2>4
  <1>3. lost \in 0..party
    <2>1. lost = IF a >= b THEN (15 * party * b) \div (100 * a) ELSE (35 * party) \div 100
      BY <1>2
    <2> QED BY <1>2, <2>1, Losses
  <1>4. glory \in Int
    <2> HIDE DEF won, bully
    <2>1. glory \in {-2, -3, 2, 0}
      OBVIOUS
    <2> QED BY <2>1
  <1>5. PICK h \in Nat, f \in Nat :
          /\ h <= e.huscarls /\ f <= Most(0, e.folk - FolkFloor)
          /\ harm = [Nothing EXCEPT !.huscarls = h, !.folk = f]
    <2>1. CASE attack >= defence
      <3>1. PICK h \in Nat : h = (e.huscarls * 3) \div 10 /\ h <= e.huscarls
        BY Fields
      <3>2. Mortal(e, Levy(e) \div 10) \in Nat /\ Mortal(e, Levy(e) \div 10) <= Most(0, e.folk - FolkFloor)
        BY Fields, NumbersOfARealm DEF Mortal, Least, Most, FolkFloor
      <3>3. harm = [Nothing EXCEPT !.huscarls = h, !.folk = Mortal(e, Levy(e) \div 10)]
        BY <2>1, <3>1
      <3> QED BY <3>1, <3>2, <3>3
    <2>2. CASE ~(attack >= defence)
      <3>1. PICK h \in Nat : h = e.huscarls \div 10 /\ h <= e.huscarls
        BY Fields
      <3>2. harm = [Nothing EXCEPT !.huscarls = h]
        BY <2>2, <3>1
      <3>3. [Nothing EXCEPT !.huscarls = h] = [Nothing EXCEPT !.huscarls = h, !.folk = 0]
        BY NoFolkHarmed
      <3>4. 0 <= Most(0, e.folk - FolkFloor)
        BY Fields DEF Most, FolkFloor
      <3> QED BY <3>1, <3>2, <3>3, <3>4
    <2> QED BY <2>1, <2>2
  <1> HIDE DEF attack, defence, harm, lost, glory, bully
  <1>6. PICK c \in Nat, g \in Nat, t \in Nat, w \in Nat, o \in Nat, x \in Nat, l \in Nat :
          /\ Says(s, h, f, c, g, t, w, o, x, l) /\ Bearable(e, h, f, c, g, t, w, o, x, l)
          /\ w + o + x + l = 0 \/ w + o + x + l <= Most(1, Land(e) \div 10)
    <2>1. /\ 0 <= e.silver /\ 0 <= e.grain /\ 0 <= e.timber /\ 0 <= e.wild
          /\ 0 <= Most(0, e.woods - 1) /\ 0 <= Most(0, e.farms - 1) /\ 0 <= Most(0, e.longhouses - 1)
      BY Fields DEF Most
    <2>2. CASE won /\ kind = "raid"
      <3>1. share \in {3, 4}
        OBVIOUS
      <3> HIDE DEF share
      <3>2. PICK c \in Nat, g \in Nat, t \in Nat :
              /\ c = e.silver \div share /\ g = e.grain \div share /\ t = e.timber \div share
              /\ c <= e.silver /\ g <= e.grain /\ t <= e.timber
        <4>1. /\ e.silver \div share \in Nat /\ e.silver \div share <= e.silver
              /\ e.grain \div share \in Nat /\ e.grain \div share <= e.grain
              /\ e.timber \div share \in Nat /\ e.timber \div share <= e.timber
          BY <3>1, Share, Fields
        <4> QED BY <4>1
      <3>3. s = [harm EXCEPT !.silver = e.silver \div share, !.grain = e.grain \div share,
                             !.timber = e.timber \div share]
        BY <2>2
      <3>4. s = [[Nothing EXCEPT !.huscarls = h, !.folk = f] EXCEPT !.silver = c, !.grain = g, !.timber = t]
        BY <1>5, <3>2, <3>3
      <3> HIDE DEF s
      <3>5. Says(s, h, f, c, g, t, 0, 0, 0, 0)
        BY <3>4, RaidSays
      <3>6. Bearable(e, h, f, c, g, t, 0, 0, 0, 0)
        BY <1>5, <2>1, <3>2 DEF Bearable
      <3> WITNESS c \in Nat, g \in Nat, t \in Nat, 0 \in Nat, 0 \in Nat, 0 \in Nat, 0 \in Nat
      <3> QED BY <3>5, <3>6
    <2>3. CASE won /\ kind = "take"
      <3> DEFINE z == Steadings(e)
      <3>1. s = [[Nothing EXCEPT !.huscarls = h, !.folk = f] EXCEPT !.steadings = z]
        BY <1>5, <2>3
      <3> HIDE DEF s, z
      <3>2. s.huscarls = h /\ s.folk = f /\ s.silver = 0 /\ s.grain = 0 /\ s.timber = 0 /\ s.steadings = z
        BY <3>1, TakeSays
      <3>3. PICK w \in Nat, o \in Nat, x \in Nat, l \in Nat :
              w = z.wild /\ o = z.woods /\ x = z.farms /\ l = z.longhouses
        BY FewSteadings DEF z
      <3>4. Says(s, h, f, 0, 0, 0, w, o, x, l)
        BY <3>2, <3>3 DEF Says
      <3>5. /\ w <= e.wild /\ o <= Most(0, e.woods - 1) /\ x <= Most(0, e.farms - 1)
            /\ l <= Most(0, e.longhouses - 1) /\ w + o + x + l <= Most(1, Land(e) \div 10)
        BY <3>3, FewSteadings DEF z
      <3>6. Bearable(e, h, f, 0, 0, 0, w, o, x, l)
        BY <1>5, <2>1, <3>5 DEF Bearable
      <3> QED BY <3>4, <3>5, <3>6
    <2>4. CASE ~won
      <3>1. s = [Nothing EXCEPT !.huscarls = h, !.folk = f]
        BY <1>5, <2>4
      <3> HIDE DEF s
      <3>2. Says(s, h, f, 0, 0, 0, 0, 0, 0, 0)
        BY <3>1, NothingSays
      <3>3. Bearable(e, h, f, 0, 0, 0, 0, 0, 0, 0)
        BY <1>5, <2>1 DEF Bearable
      <3> WITNESS 0 \in Nat, 0 \in Nat, 0 \in Nat, 0 \in Nat, 0 \in Nat, 0 \in Nat, 0 \in Nat
      <3> QED BY <3>2, <3>3
    <2> HIDE DEF s
    <2> QED BY <2>2, <2>3, <2>4
  <1> DEFINE n == w + o + x + l
  <1>7. /\ s.silver = c /\ s.grain = g /\ s.timber = t /\ taken = n /\ n \in Nat
    BY <1>6 DEF Says
  <1>8. PICK p \in PutOut(kind, r, e, who, party, d) : pair = <<Honoured(mine(p), glory), theirs>>
    BY <1>1
  <1>9. /\ p \in Realm /\ p.last = r.last /\ p.joined = r.joined /\ IsInjective(p.sailings)
        /\ Holds(p, r) /\ party <= r.huscarls /\ ~UnderPeace(e, d)
    BY <1>8, PuttingOut
  <1> HIDE DEF s, taken, n
  <1> DEFINE m == mine(p)
  <1>10. /\ m \in Realm /\ Like(m, p) /\ Gains(r, m, lost, f, c, g, t, n)
    <2>1. lost \in Nat /\ lost <= p.huscarls
      BY <1>3, <1>9, Fields DEF Holds
    <2>2. PICK h1 \in Nat, c1 \in Nat, g1 \in Nat, t1 \in Nat, w1 \in Nat :
            /\ h1 = p.huscarls - lost /\ c1 = p.silver + c /\ g1 = p.grain + g /\ t1 = p.timber + t
            /\ w1 = p.wild + n
      <3>1. /\ p.huscarls - lost \in Nat /\ p.silver + c \in Nat /\ p.grain + g \in Nat /\ p.timber + t \in Nat
            /\ p.wild + n \in Nat
        BY <1>7, <1>9, <2>1, Fields
      <3> QED BY <3>1
    <2>3. m = [p EXCEPT !.huscarls = h1, !.silver = c1, !.grain = g1, !.timber = t1, !.wild = w1]
      BY <1>7, <2>2
    <2> HIDE DEF m
    <2>4. m \in Realm /\ Like(m, p)
      BY <1>9, <2>3 DEF Realm, RealmWith, Like
    <2>5. /\ m.huscarls = h1 /\ m.silver = c1 /\ m.grain = g1 /\ m.timber = t1 /\ m.wild = w1
          /\ m.folk = p.folk /\ m.woods = p.woods /\ m.farms = p.farms /\ m.longhouses = p.longhouses
          /\ m.boatyards = p.boatyards
      BY <1>9, <2>3 DEF Realm, RealmWith
    <2> QED BY <1>9, <2>2, <2>4, <2>5, Fields DEF Holds, Gains
  <1> HIDE DEF m
  <1> DEFINE mm == Honoured(m, glory)
  <1>11. mm \in Realm /\ Like(mm, m) /\ Holds(mm, m)
    BY <1>4, <1>10, HonourIsClamped, HonourHoldsAll
  <1> HIDE DEF mm
  <1>12. Gains(r, mm, lost, f, c, g, t, n)
    BY <1>10, <1>11 DEF Holds, Gains
  <1>13. Land(e) >= 30
    BY <1>9, NumbersOfARealm DEF UnderPeace
  <1>14. lost \in Nat
    BY <1>3
  <1> DEFINE u == Settled(e, s)
             y == Most(u.raided, d)
  <1>15. y \in Nat
    <2>1. u \in Realm
      BY <1>6, SettledUp
    <2> HIDE DEF u
    <2> QED BY <2>1, Fields DEF Most
  <1>16. theirs = [Settled(e, s) EXCEPT !.raided = y]
    OBVIOUS
  <1> HIDE DEF y, u, theirs
  <1>17. theirs \in Realm /\ Like(theirs, e) /\ Dealt(r, e, mm, theirs)
    BY <1>6, <1>11, <1>12, <1>13, <1>14, <1>15, <1>16, Settlement DEF n
  <1>18. pair[1] = mm /\ pair[2] = theirs
    BY <1>8 DEF mm, m
  <1>19. Moved(mm, r)
    BY <1>9, <1>10, <1>11 DEF Moved, Like
  <1> QED BY <1>17, <1>18, <1>19

\* A watcher costs silver and a turn.
LEMMA SpentHolds ==
    ASSUME NEW r \in Realm, NEW s \in Spend(r, 1, 20, 0, 0)
    PROVE  /\ s.folk = r.folk /\ s.silver <= r.silver /\ s.grain = r.grain /\ s.timber = r.timber
           /\ s.huscarls = r.huscarls /\ s.wild = r.wild /\ s.woods = r.woods /\ s.farms = r.farms
           /\ s.longhouses = r.longhouses /\ s.boatyards = r.boatyards
  <1>1. s = [r EXCEPT !.turns = @ - 1, !.silver = @ - 20, !.grain = @ - 0, !.timber = @ - 0]
    BY DEF Spend
  <1>2. PICK c \in Int, g \in Nat, t \in Nat : c = r.silver - 20 /\ g = r.grain - 0 /\ t = r.timber - 0
    BY Fields
  <1> DEFINE n == r.turns - 1
  <1>3. s = [r EXCEPT !.turns = n, !.silver = c, !.grain = g, !.timber = t]
    BY <1>1, <1>2
  <1> HIDE DEF n
  <1>4. /\ s.folk = r.folk /\ s.silver = c /\ s.grain = g /\ s.timber = t
        /\ s.huscarls = r.huscarls /\ s.wild = r.wild /\ s.woods = r.woods /\ s.farms = r.farms
        /\ s.longhouses = r.longhouses /\ s.boatyards = r.boatyards
    BY <1>3 DEF Realm, RealmWith
  <1>5. c <= r.silver /\ g = r.grain /\ t = r.timber
    BY <1>2, Fields
  <1> QED BY <1>4, <1>5

\* The settlements of the errands, field by field.
LEMMA WhisperSays ==
    /\ \A c \in Nat : Says([Nothing EXCEPT !.silver = c], 0, 0, c, 0, 0, 0, 0, 0, 0)
    /\ \A g \in Nat : Says([Nothing EXCEPT !.grain = g], 0, 0, 0, g, 0, 0, 0, 0, 0)
    /\ \A f \in Nat : Says([Nothing EXCEPT !.folk = f], 0, f, 0, 0, 0, 0, 0, 0, 0)
    /\ Says(Nothing, 0, 0, 0, 0, 0, 0, 0, 0, 0)
  BY DEF Says, Nothing

\* A watcher that is caught costs honour.
LEMMA WatcherCaught ==
    ASSUME NEW r \in Realm, NEW errand \in DOMAIN Shame, NEW s \in Caught(errand, r)
    PROVE  s \in Realm /\ Like(s, r)
  <1>1. PICK p \in Spend(r, 1, 20, 0, 0) : s = Honoured(p, Shame[errand])
    BY DEF Caught
  <1>2. p \in Realm /\ Like(p, r)
    BY <1>1, Spent
  <1>3. Shame[errand] \in Int
    BY DEF Shame
  <1>4. s \in Realm /\ Like(s, p)
    BY <1>1, <1>2, <1>3, HonourIsClamped
  <1> QED BY <1>2, <1>4 DEF Like

\* send_watcher is dealt.
LEMMA Watching ==
    ASSUME NEW errand, NEW r \in Realm, NEW e \in Realm, IsInjective(r.sailings),
           NEW pair \in Errand(errand, r, e)
    PROVE  Moved(pair[1], r) /\ pair[2] \in Realm /\ Like(pair[2], e) /\ Dealt(r, e, pair[1], pair[2])
  <1> DEFINE s == CASE errand = "burn" -> [Nothing EXCEPT !.grain = e.grain \div 10]
                    [] errand = "steal" -> [Nothing EXCEPT !.silver = Least(e.silver \div 10, 200)]
                    [] errand = "whisper" -> [Nothing EXCEPT !.folk = Mortal(e, (e.folk * 3) \div 100)]
                    [] OTHER -> Nothing
             mine(p) == [p EXCEPT !.silver = @ + s.silver,
                                  !.folk = IF errand = "whisper" THEN Least(Roofs(p), @ + s.folk \div 2) ELSE @]
             theirs == Settled(e, s)
  <1>1. pair \in {<<mine(p), theirs>> : p \in Spend(r, 1, 20, 0, 0)}
    BY DEF Errand
  <1>2. /\ 0 <= e.huscarls /\ 0 <= e.silver /\ 0 <= e.grain /\ 0 <= e.timber /\ 0 <= e.wild
        /\ 0 <= Most(0, e.folk - FolkFloor)
        /\ 0 <= Most(0, e.woods - 1) /\ 0 <= Most(0, e.farms - 1) /\ 0 <= Most(0, e.longhouses - 1)
    BY Fields DEF Most, FolkFloor
  <1>3. PICK f \in Nat, c \in Nat, g \in Nat :
          Says(s, 0, f, c, g, 0, 0, 0, 0, 0) /\ Bearable(e, 0, f, c, g, 0, 0, 0, 0, 0)
    <2>1. CASE errand = "burn"
      <3>1. PICK g \in Nat : g = e.grain \div 10 /\ g <= e.grain
        BY Fields
      <3>2. s = [Nothing EXCEPT !.grain = g]
        BY <2>1, <3>1
      <3> HIDE DEF s
      <3>3. Says(s, 0, 0, 0, g, 0, 0, 0, 0, 0)
        BY <3>2, WhisperSays
      <3>4. Bearable(e, 0, 0, 0, g, 0, 0, 0, 0, 0)
        BY <1>2, <3>1 DEF Bearable
      <3> WITNESS 0 \in Nat, 0 \in Nat, g \in Nat
      <3> QED BY <3>3, <3>4
    <2>2. CASE errand = "steal"
      <3>1. PICK c \in Nat : c = Least(e.silver \div 10, 200) /\ c <= e.silver
        BY Fields DEF Least
      <3>2. s = [Nothing EXCEPT !.silver = c]
        BY <2>2, <3>1
      <3> HIDE DEF s
      <3>3. Says(s, 0, 0, c, 0, 0, 0, 0, 0, 0)
        BY <3>2, WhisperSays
      <3>4. Bearable(e, 0, 0, c, 0, 0, 0, 0, 0, 0)
        BY <1>2, <3>1 DEF Bearable
      <3> WITNESS 0 \in Nat, c \in Nat, 0 \in Nat
      <3> QED BY <3>3, <3>4
    <2>3. CASE errand = "whisper"
      <3>1. PICK f \in Nat : f = Mortal(e, (e.folk * 3) \div 100) /\ f <= Most(0, e.folk - FolkFloor)
        BY Fields DEF Mortal, Least, Most, FolkFloor
      <3>2. s = [Nothing EXCEPT !.folk = f]
        BY <2>3, <3>1
      <3> HIDE DEF s
      <3>3. Says(s, 0, f, 0, 0, 0, 0, 0, 0, 0)
        BY <3>2, WhisperSays
      <3>4. Bearable(e, 0, f, 0, 0, 0, 0, 0, 0, 0)
        BY <1>2, <3>1 DEF Bearable
      <3> WITNESS f \in Nat, 0 \in Nat, 0 \in Nat
      <3> QED BY <3>3, <3>4
    <2>4. CASE errand \notin {"burn", "steal", "whisper"}
      <3>1. s = Nothing
        BY <2>4
      <3> HIDE DEF s
      <3>2. Says(s, 0, 0, 0, 0, 0, 0, 0, 0, 0)
        BY <3>1, WhisperSays
      <3>3. Bearable(e, 0, 0, 0, 0, 0, 0, 0, 0, 0)
        BY <1>2 DEF Bearable
      <3> WITNESS 0 \in Nat, 0 \in Nat, 0 \in Nat
      <3> QED BY <3>2, <3>3
    <2> QED BY <2>1, <2>2, <2>3, <2>4
  <1> HIDE DEF s
  <1>4. s.silver = c /\ s.folk = f
    BY <1>3 DEF Says
  <1>5. PICK p \in Spend(r, 1, 20, 0, 0) : pair = <<mine(p), theirs>>
    BY <1>1
  <1>6. p \in Realm /\ Like(p, r)
    BY <1>5, Spent
  <1> DEFINE m == mine(p)
  <1>7. m \in Realm /\ Like(m, p) /\ Gains(r, m, 0, f, c, g, 0, 0)
    <2>1. PICK n \in Nat : n = p.silver + c
      BY <1>6, Fields
    <2>2. PICK k \in Nat : /\ k = IF errand = "whisper" THEN Least(Roofs(p), p.folk + f \div 2) ELSE p.folk
                           /\ k <= p.folk + f
      <3>1. (IF errand = "whisper" THEN Least(Roofs(p), p.folk + f \div 2) ELSE p.folk) \in 0..(p.folk + f)
        BY <1>6, Fields, NumbersOfARealm DEF Least
      <3> QED BY <3>1, <1>6, Fields
    <2>3. m = [p EXCEPT !.silver = n, !.folk = k]
      BY <1>4, <2>1, <2>2
    <2> HIDE DEF m
    <2>4. m \in Realm /\ Like(m, p)
      BY <1>6, <2>3 DEF Realm, RealmWith, Like
    <2>5. /\ m.huscarls = p.huscarls /\ m.silver = n /\ m.grain = p.grain /\ m.timber = p.timber
          /\ m.wild = p.wild /\ m.folk = k /\ m.woods = p.woods /\ m.farms = p.farms
          /\ m.longhouses = p.longhouses /\ m.boatyards = p.boatyards
      BY <1>6, <2>3 DEF Realm, RealmWith
    <2>6. /\ m.folk <= r.folk + f /\ m.silver <= r.silver + c
      BY <1>5, <1>6, <2>1, <2>2, <2>5, SpentHolds, Fields
    <2>7. /\ m.grain <= r.grain + g /\ m.timber <= r.timber + 0 /\ m.huscarls = r.huscarls - 0
          /\ m.wild = r.wild + 0
      BY <1>5, <2>5, SpentHolds, Fields
    <2> QED BY <1>5, <2>4, <2>5, <2>6, <2>7, SpentHolds DEF Gains
  <1> HIDE DEF m
  <1> DEFINE u == Settled(e, s)
             x == u.raided
  <1>8. u \in Realm
    BY <1>3, SettledUp
  <1>9. x \in Nat /\ u = [u EXCEPT !.raided = x]
    <2> HIDE DEF u
    <2>1. x \in Nat
      BY <1>8, Fields
    <2>2. u = [u EXCEPT !.raided = u.raided]
      BY <1>8 DEF Realm, RealmWith
    <2> QED BY <2>1, <2>2
  <1> DEFINE q == [Settled(e, s) EXCEPT !.raided = x]
  <1> HIDE DEF x
  <1>10. q \in Realm /\ Like(q, e) /\ Dealt(r, e, m, q)
    <2>1. PICK z \in Nat : z = 0
      OBVIOUS
    <2>2. z + z + z + z = z
      BY <2>1
    <2>3. Gains(r, m, z, f, c, g, z, z + z + z + z)
      BY <1>7, <2>1, <2>2
    <2>4. Says(s, z, f, c, g, z, z, z, z, z) /\ Bearable(e, z, f, c, g, z, z, z, z, z)
      BY <1>3, <2>1
    <2>5. x \in Nat /\ m \in Realm /\ z + z + z + z = 0
      BY <1>7, <1>9, <2>1, <2>2
    <2> HIDE DEF u, theirs, mine
    <2> QED BY <2>3, <2>4, <2>5, Settlement
  <1>11. pair[1] = m /\ pair[2] = q
    BY <1>5, <1>9 DEF m
  <1>12. Moved(m, r)
    BY <1>6, <1>7 DEF Moved, Like
  <1> HIDE DEF q
  <1> QED BY <1>10, <1>11, <1>12

\* A habit that grows does so by the rules,
LEMMA Planned ==
    ASSUME NEW r \in Realm, NEW d, NEW wants, NEW s \in Grow(r, d, wants)
    PROVE  s \in Realm /\ Like(s, r)
  <1> DEFINE use == IF wants /\ r.woods < r.farms \div 3 THEN "woods" ELSE "farms"
  <1>1. use \in Uses /\ "longhouses" \in Uses /\ 1 \in Nat
    BY DEF Uses
  <1>2. s \in Raise(r, "longhouses", 1) \/ s \in Raise(r, use, 1) \/ s \in Clear(r, d)
    BY DEF Grow, Or, When
  <1> HIDE DEF use
  <1> QED BY <1>1, <1>2, Raised, Cleared

\* and so does one that sees to itself first,
LEMMA Prudent ==
    ASSUME NEW r \in Realm, NEW others, NEW d, NEW s \in First(r, others, d)
    PROVE  s \in Realm /\ Like(s, r)
  <1>1. r.npc \in Habit
    BY DEF Realm, RealmWith
  <1>2. \A n, x : x \in WallUp(r, d) \cup Guarded(r, d) => x \in Palisade(r) \cup Train(r, 10)
    BY DEF WallUp, Guarded, When
  <1>3. \A n, x : x \in Armed(r, others, n) => x \in Ship(r) \cup Train(r, 20)
    BY DEF Armed, Or, When
  <1>4. s \in Palisade(r) \cup Train(r, 10) \cup Feast(r) \cup Ship(r) \cup Train(r, 20)
    <2>1. CASE r.npc = "farmer"
      <3>1. First(r, others, d) = Or(Or(WallUp(r, d), Guarded(r, d)), When(~r.feasted /\ r.silver > 400, Feast(r)))
        BY <2>1 DEF First
      <3>2. s \in WallUp(r, d) \cup Guarded(r, d) \cup Feast(r)
        BY <3>1 DEF Or, When
      <3> QED BY <1>2, <3>2
    <2>2. CASE r.npc = "trader"
      <3>1. First(r, others, d) = Or(WallUp(r, d), Guarded(r, d))
        BY <2>2 DEF First
      <3>2. s \in WallUp(r, d) \cup Guarded(r, d)
        BY <3>1 DEF Or
      <3> QED BY <1>2, <3>2
    <2>3. CASE r.npc = "turtle"
      <3>1. First(r, others, d) = Or(When(r.palisade < 5 /\ r.silver >= WallCost(r) + 100, Palisade(r)),
                                     When(r.huscarls < GuardWanted(r, 2), Train(r, 10)))
        BY <2>3 DEF First
      <3> QED BY <3>1 DEF Or, When
    <2>4. CASE r.npc = ""
      <3>1. First(r, others, d) = {}
        BY <2>4 DEF First
      <3> QED BY <3>1
    <2>5. CASE r.npc = "raider"
      <3>1. First(r, others, d) = Armed(r, others, 1)
        BY <2>5 DEF First
      <3> QED BY <1>3, <3>1
    <2>6. CASE r.npc = "conqueror"
      <3>1. First(r, others, d) = Armed(r, others, 2)
        BY <2>6 DEF First
      <3> QED BY <1>3, <3>1
    <2> QED BY <1>1, <2>1, <2>2, <2>3, <2>4, <2>5, <2>6 DEF Habit
  <1>5. 10 \in Nat /\ 20 \in Nat
    OBVIOUS
  <1> QED BY <1>4, <1>5, Walled, Trained, Feasted, Shipped

\* and a player.
LEMMA WhimsAreRules ==
    ASSUME NEW r \in Realm, NEW d, NEW s \in Whims(r, d)
    PROVE  s \in Realm /\ Like(s, r)
  <1>1. \/ s \in Clear(r, d) \/ s \in Ship(r) \/ s \in Palisade(r) \/ s \in Feast(r) \/ s \in PactBroken(r)
        \/ \E use \in Uses, n \in {1, r.wild} \ {0} : s \in Raise(r, use, n)
        \/ \E use \in Uses : \E n \in {1, r[use]} \ {0} : s \in PullDown(r, use, n)
        \/ \E n \in Levies : s \in Train(r, n) \/ s \in Dismiss(r, n) \/ s \in KeepWatchers(r, n)
    BY DEF Whims
  <1>2. Levies \subseteq Nat
    BY FjordsAssumption
  <1>3. CASE s \in Clear(r, d) \/ s \in Ship(r) \/ s \in Palisade(r) \/ s \in Feast(r)
    BY <1>3, Cleared, Shipped, Walled, Feasted
  <1>4. CASE s \in PactBroken(r)
    <2>1. s = Honoured(r, -10) /\ -10 \in Int
      BY <1>4 DEF PactBroken
    <2> QED BY <2>1, HonourIsClamped
  <1>5. CASE \E use \in Uses, n \in {1, r.wild} \ {0} : s \in Raise(r, use, n)
    <2>1. PICK use \in Uses, n \in Nat : s \in Raise(r, use, n)
      BY <1>5, Fields
    <2> QED BY <2>1, Raised
  <1>6. CASE \E use \in Uses : \E n \in {1, r[use]} \ {0} : s \in PullDown(r, use, n)
    <2>1. \A use \in Uses : r[use] \in Nat
      BY Fields DEF Uses
    <2>2. PICK use \in Uses, n \in Nat : s \in PullDown(r, use, n)
      BY <1>6, <2>1
    <2> QED BY <2>2, PulledDown
  <1>7. CASE \E n \in Levies : s \in Train(r, n) \/ s \in Dismiss(r, n) \/ s \in KeepWatchers(r, n)
    <2>1. PICK n \in Nat : s \in Train(r, n) \/ s \in Dismiss(r, n) \/ s \in KeepWatchers(r, n)
      BY <1>2, <1>7
    <2> QED BY <2>1, Trained, Dismissed, Watched
  <1> QED BY <1>1, <1>3, <1>4, <1>5, <1>6, <1>7

\* A new realm is a realm.
LEMMA FirstDay ==
    ASSUME NEW h \in Habit
    PROVE  LET r == NewRealm(1, h)
           IN  r \in Realm /\ r.last = 1 /\ r.joined = 1 /\ IsInjective(r.sailings)
  <1> DEFINE r == NewRealm(1, h)
  <1>1. <<>> \in Seq(Jarl) /\ IsInjective(<<>>)
    BY DEF IsInjective
  <1>2. 0 \in Walls /\ 0 \in Watches /\ 10 \in Honours /\ 12 \in TurnsHeld
    BY DEF Walls, Watches, Honours, TurnsHeld
  <1>3. r = [farms |-> 20, woods |-> 5, longhouses |-> 5, boatyards |-> 0, wild |-> 10,
             folk |-> 400, silver |-> 300, grain |-> 200, timber |-> 50, huscarls |-> 0, ships |-> 1,
             palisade |-> 0, watchers |-> 0, honour |-> 10, turns |-> 12, joined |-> 1, last |-> 1,
             sailings |-> <<>>, feasted |-> FALSE, sung |-> 0, raided |-> 0, crowns |-> 0, npc |-> h]
    BY DEF NewRealm, TurnsPerDay
  <1> HIDE DEF r
  <1>4. r \in Realm
    BY <1>1, <1>2, <1>3 DEF Realm, RealmWith
  <1>5. r.last = 1 /\ r.joined = 1 /\ r.sailings = <<>>
    BY <1>3
  <1> QED BY <1>1, <1>4, <1>5 DEF r

-----------------------------------------------------------------------------
(* The coast *)

\* A realm that has lived through day k.
Sound(r, k) ==
    r \in Realm /\ r.last \in 1..k /\ r.joined <= r.last /\ IsInjective(r.sailings)

IInv ==
    /\ realms \in [Jarl -> Realm] /\ \A j \in Jarl : Sound(realms[j], day)
    /\ market \in PriceList /\ Fair(market)
    /\ day \in Nat /\ 1 <= day /\ day <= DaysInYear

\* A turn at home, and a turn at another's cost.
AtHomeOnly == \E j \in Jarl, s \in Realm : Becomes(j, s) /\ Moved(s, realms[j])
Clash ==
    \E j \in Jarl, d \in Jarl, p \in Realm, q \in Realm :
        /\ j # d /\ realms' = [realms EXCEPT ![j] = p, ![d] = q]
        /\ Moved(p, realms[j]) /\ Like(q, realms[d]) /\ Dealt(realms[j], realms[d], p, q)

\* The first morning is sound.
LEMMA InitIsSound == Init => IInv
  <1> SUFFICES ASSUME Init PROVE IInv
    OBVIOUS
  <1>1. PICK cast \in Casts : realms = [j \in Jarl |-> NewRealm(1, cast[j])]
    BY DEF Init
  <1>2. \A j \in Jarl : cast[j] \in Habit
    BY FjordsAssumption DEF Habit
  <1>3. \A j \in Jarl : realms[j] = NewRealm(1, cast[j])
    BY <1>1
  <1>4. day = 1 /\ market = BasePrice
    BY DEF Init
  <1>5. \A j \in Jarl : Sound(realms[j], day)
    <2> TAKE j \in Jarl
    <2> DEFINE r == NewRealm(1, cast[j])
    <2>1. r \in Realm /\ r.last = 1 /\ r.joined = 1 /\ IsInjective(r.sailings)
      BY <1>2, FirstDay
    <2> HIDE DEF r
    <2>2. Sound(r, 1)
      BY <2>1 DEF Sound
    <2> QED BY <1>3, <1>4, <2>2 DEF r
  <1>6. realms \in [Jarl -> Realm]
    <2>1. \A j \in Jarl : NewRealm(1, cast[j]) \in Realm
      BY <1>2, FirstDay
    <2> QED BY <1>1, <2>1
  <1>7. market \in PriceList /\ Fair(market)
    BY <1>4 DEF BasePrice, PriceList, Fair
  <1> QED BY <1>4, <1>5, <1>6, <1>7 DEF IInv, DaysInYear

\* A sailing is a clash of two.
LEMMA SailingsMeet ==
    ASSUME IInv, NEW j \in Jarl, NEW d \in Jarl \ {j}, NEW kind \in {"raid", "take"}, NEW n \in Nat,
           NEW l1 \in Nat, NEW l2 \in Nat,
           NEW pair \in Sail(kind, realms[j], realms[d], d, n, day, <<l1, l2>>), Meet(j, d, pair)
    PROVE  Clash
  <1>1. realms[j] \in Realm /\ realms[d] \in Realm /\ IsInjective(realms[j].sailings) /\ day \in Nat
    BY DEF IInv, Sound
  <1>2. /\ Moved(pair[1], realms[j]) /\ pair[2] \in Realm /\ Like(pair[2], realms[d])
        /\ Dealt(realms[j], realms[d], pair[1], pair[2])
    BY <1>1, Sailed
  <1>3. pair[1] \in Realm
    BY <1>2 DEF Moved
  <1> QED BY <1>2, <1>3 DEF Clash, Meet

\* A rule is a turn at home.
LEMMA StaysHome ==
    ASSUME IInv, NEW j \in Jarl, NEW s, s \in Realm /\ Like(s, realms[j]), Becomes(j, s)
    PROVE  AtHomeOnly
  <1>1. Moved(s, realms[j])
    BY DEF IInv, Sound, Moved, Like
  <1> QED BY <1>1 DEF AtHomeOnly

\* A habit takes one turn,
LEMMA PlayIsATurn ==
    ASSUME IInv, NEW j \in Jarl, Play(j)
    PROVE  UNCHANGED <<market, day>> /\ (AtHomeOnly \/ Clash \/ UNCHANGED realms)
  <1> DEFINE r == realms[j]
             others == {realms[d] : d \in Jarl \ {j}}
             first == First(r, others, day)
             wants == r.npc \in {"raider", "trader"}
             grow == When(r.npc # "", Grow(r, day, wants))
             targets == Targets(j)
  <1>1. r \in Realm /\ IsInjective(r.sailings) /\ day \in Nat
    BY DEF IInv, Sound
  <1>2. UNCHANGED <<market, day>>
    BY DEF Play
  <1>3. \/ \E s \in first : Becomes(j, s)
        \/ \E d \in targets :
              \/ \E p \in Sail(Kind[r.npc], r, realms[d], d, Party(r), day, <<10, 10>>) : Meet(j, d, p)
              \/ \E luck \in {<<9, 11>>, <<11, 9>>} :
                 \E p \in Sail(Kind[r.npc], r, realms[d], d, Party(r), day, luck) : Meet(j, d, p)
              \/ \E s \in PutOut(Kind[r.npc], r, realms[d], d, Party(r), day) : Becomes(j, s)
        \/ \E s \in grow : Becomes(j, s)
        \/ UNCHANGED realms
    BY DEF Play
  <1>4. CASE \E s \in first : Becomes(j, s)
    <2>1. PICK s \in first : Becomes(j, s)
      BY <1>4
    <2> HIDE DEF others
    <2>2. s \in Realm /\ Like(s, r)
      BY <1>1, <2>1, Prudent
    <2> QED BY <1>2, <2>1, <2>2, StaysHome
  <1>5. ASSUME NEW d \in targets,
               \/ \E p \in Sail(Kind[r.npc], r, realms[d], d, Party(r), day, <<10, 10>>) : Meet(j, d, p)
               \/ \E luck \in {<<9, 11>>, <<11, 9>>} :
                  \E p \in Sail(Kind[r.npc], r, realms[d], d, Party(r), day, luck) : Meet(j, d, p)
               \/ \E s \in PutOut(Kind[r.npc], r, realms[d], d, Party(r), day) : Becomes(j, s)
        PROVE  AtHomeOnly \/ Clash
    <2> DEFINE kind == Kind[r.npc]
               party == Party(r)
    <2>1. d \in Jarl \ {j} /\ r.npc \in DOMAIN Kind
      BY DEF Targets
    <2>2. kind \in {"raid", "take"}
      BY <2>1 DEF Kind
    <2>3. party \in Nat
      BY <1>1, Fields DEF Party, Hold, Least
    <2>4. \/ \E p \in Sail(kind, r, realms[d], d, party, day, <<10, 10>>) : Meet(j, d, p)
          \/ \E p \in Sail(kind, r, realms[d], d, party, day, <<9, 11>>) : Meet(j, d, p)
          \/ \E p \in Sail(kind, r, realms[d], d, party, day, <<11, 9>>) : Meet(j, d, p)
          \/ \E s \in PutOut(kind, r, realms[d], d, party, day) : Becomes(j, s)
      BY <1>5
    <2> HIDE DEF kind, party
    <2>5. 9 \in Nat /\ 10 \in Nat /\ 11 \in Nat
      OBVIOUS
    <2>6. CASE \E s \in PutOut(kind, r, realms[d], d, party, day) : Becomes(j, s)
      <3>1. PICK s \in PutOut(kind, r, realms[d], d, party, day) : Becomes(j, s)
        BY <2>6
      <3>2. Moved(s, r) /\ s \in Realm
        BY <1>1, <2>1, <3>1, PuttingOut DEF Moved
      <3> QED BY <3>1, <3>2 DEF AtHomeOnly
    <2> QED BY <2>1, <2>2, <2>3, <2>4, <2>5, <2>6, SailingsMeet
  <1>6. CASE \E s \in grow : Becomes(j, s)
    <2>1. PICK s \in grow : Becomes(j, s)
      BY <1>6
    <2>2. s \in Grow(r, day, wants)
      BY <2>1 DEF When
    <2> HIDE DEF wants
    <2>3. s \in Realm /\ Like(s, r)
      BY <1>1, <2>2, Planned
    <2> QED BY <1>2, <2>1, <2>3, StaysHome
  <1> HIDE DEF first, grow, targets
  <1> QED BY <1>2, <1>3, <1>4, <1>5, <1>6

\* and so does a player.
LEMMA PlayerIsATurn ==
    ASSUME IInv, NEW j \in Jarl, Player(j)
    PROVE  /\ day' = day /\ (AtHomeOnly \/ Clash)
           /\ \/ market' = market
              \/ \E good \in {"grain", "timber"}, n \in Nat : market' = Sold(market, good, n)
  <1> DEFINE r == realms[j]
  <1>1. r \in Realm /\ IsInjective(r.sailings) /\ day \in Nat /\ market \in PriceList
    BY DEF IInv, Sound
  <1>2. Levies \subseteq Nat /\ Loads \subseteq Nat
    BY FjordsAssumption
  <1>3. day' = day
    BY DEF Player
  <1>4. \/ UNCHANGED market /\ \E s \in Whims(r, day) : Becomes(j, s)
        \/ \E good \in {"grain", "timber"}, n \in Loads : \E s \in Sell(r, market, good, n) :
              Becomes(j, s) /\ market' = Sold(market, good, n)
        \/ \E good \in {"grain", "timber"}, n \in Loads : \E s \in Buy(r, market, good, n) :
              Becomes(j, s) /\ UNCHANGED market
        \/ UNCHANGED market /\ \E d \in Jarl \ {j}, kind \in {"raid", "take"}, n \in Levies :
              \E p \in Sail(kind, r, realms[d], d, n, day, <<10, 10>>) : Meet(j, d, p)
        \/ UNCHANGED market /\ \E errand \in DOMAIN Shame : \E s \in Caught(errand, r) : Becomes(j, s)
        \/ UNCHANGED market /\ \E d \in Jarl \ {j}, errand \in DOMAIN Shame :
              \E p \in Errand(errand, r, realms[d]) : Meet(j, d, p)
    BY DEF Player
  <1>5. CASE UNCHANGED market /\ \E s \in Whims(r, day) : Becomes(j, s)
    <2>1. PICK s \in Whims(r, day) : Becomes(j, s)
      BY <1>5
    <2>2. s \in Realm /\ Like(s, r)
      BY <1>1, <2>1, WhimsAreRules
    <2> QED BY <1>3, <1>5, <2>1, <2>2, StaysHome
  <1>6. CASE \E good \in {"grain", "timber"}, n \in Loads : \E s \in Sell(r, market, good, n) :
                Becomes(j, s) /\ market' = Sold(market, good, n)
    <2>1. PICK good \in {"grain", "timber"}, n \in Nat : \E s \in Sell(r, market, good, n) :
            Becomes(j, s) /\ market' = Sold(market, good, n)
      BY <1>2, <1>6
    <2>2. PICK s \in Sell(r, market, good, n) : Becomes(j, s) /\ market' = Sold(market, good, n)
      BY <2>1
    <2>3. s \in Realm /\ Like(s, r)
      BY <1>1, SoldToOrm
    <2> QED BY <1>3, <2>2, <2>3, StaysHome
  <1>7. CASE \E good \in {"grain", "timber"}, n \in Loads : \E s \in Buy(r, market, good, n) :
                Becomes(j, s) /\ UNCHANGED market
    <2>1. PICK good \in {"grain", "timber"}, n \in Nat : \E s \in Buy(r, market, good, n) :
            Becomes(j, s) /\ UNCHANGED market
      BY <1>2, <1>7
    <2>2. PICK s \in Buy(r, market, good, n) : Becomes(j, s) /\ UNCHANGED market
      BY <2>1
    <2>3. s \in Realm /\ Like(s, r)
      BY <1>1, BoughtFromOrm
    <2> QED BY <1>3, <2>2, <2>3, StaysHome
  <1>8. CASE UNCHANGED market /\ \E d \in Jarl \ {j}, kind \in {"raid", "take"}, n \in Levies :
                \E p \in Sail(kind, r, realms[d], d, n, day, <<10, 10>>) : Meet(j, d, p)
    <2>1. PICK d \in Jarl \ {j}, kind \in {"raid", "take"}, n \in Nat :
            \E p \in Sail(kind, r, realms[d], d, n, day, <<10, 10>>) : Meet(j, d, p)
      BY <1>2, <1>8
    <2>2. 10 \in Nat
      OBVIOUS
    <2>3. Clash
      BY <2>1, <2>2, SailingsMeet
    <2> QED BY <1>3, <1>8, <2>3
  <1>9. CASE UNCHANGED market /\ \E errand \in DOMAIN Shame : \E s \in Caught(errand, r) : Becomes(j, s)
    <2>1. PICK errand \in DOMAIN Shame : \E s \in Caught(errand, r) : Becomes(j, s)
      BY <1>9
    <2>2. PICK s \in Caught(errand, r) : Becomes(j, s)
      BY <2>1
    <2>3. s \in Realm /\ Like(s, r)
      BY <1>1, WatcherCaught
    <2> QED BY <1>3, <1>9, <2>2, <2>3, StaysHome
  <1>10. CASE UNCHANGED market /\ \E d \in Jarl \ {j}, errand \in DOMAIN Shame :
                 \E p \in Errand(errand, r, realms[d]) : Meet(j, d, p)
    <2>1. PICK d \in Jarl \ {j}, errand \in DOMAIN Shame :
            \E p \in Errand(errand, r, realms[d]) : Meet(j, d, p)
      BY <1>10
    <2>2. PICK p \in Errand(errand, r, realms[d]) : Meet(j, d, p)
      BY <2>1
    <2>3. realms[d] \in Realm
      BY DEF IInv, Sound
    <2>4. /\ Moved(p[1], r) /\ p[2] \in Realm /\ Like(p[2], realms[d]) /\ Dealt(r, realms[d], p[1], p[2])
      BY <1>1, <2>3, Watching
    <2>5. Clash
      BY <2>2, <2>4 DEF Clash, Meet, Moved
    <2> QED BY <1>3, <1>10, <2>5
  <1> QED BY <1>4, <1>5, <1>6, <1>7, <1>8, <1>9, <1>10

\* A step leaves the realms as they are, or one moves at home, or one at the cost
\* of another; or it is another day.
LEMMA StepsAreTurns ==
    ASSUME IInv, [Next]_vars, day' = day
    PROVE  /\ AtHomeOnly \/ Clash \/ UNCHANGED realms
           /\ \/ market' = market
              \/ \E good \in {"grain", "timber"}, n \in Nat : market' = Sold(market, good, n)
  <1>1. day \in Nat
    BY DEF IInv
  <1>2. ASSUME NEW j \in Jarl, Play(j)
        PROVE  UNCHANGED market /\ (AtHomeOnly \/ Clash \/ UNCHANGED realms)
    BY <1>2, PlayIsATurn
  <1>3. ASSUME NEW absent, NEW lucky, NEW e, NEW seq, Dawned(absent, lucky, e, seq)
        PROVE  FALSE
    <2>1. day' = day + 1
      BY <1>3 DEF Dawned
    <2> QED BY <1>1, <2>1
  <1>4. ASSUME NEW j \in Jarl, Yule(j)
        PROVE  FALSE
    BY <1>4 DEF Yule, DaysInYear
  <1>5. CASE Next
    BY <1>2, <1>3, <1>4, <1>5, PlayerIsATurn DEF Next, Morning, Shuffled, Away, Event
  <1>6. CASE UNCHANGED vars
    BY <1>6 DEF vars
  <1> QED BY <1>5, <1>6

\* A dawn leaves the coast sound,
LEMMA AnotherDay ==
    ASSUME IInv, NEW absent, NEW lucky, NEW e, NEW seq, Dawned(absent, lucky, e, seq)
    PROVE  IInv'
  <1> DEFINE k == day + 1
             p == Recovered(market)
             what(j) == IF j = lucky THEN e ELSE ""
             dawned(j) == Dawns(realms[j], k, what(j), p)
             new(j) == IF j \in absent THEN realms[j] ELSE Sung(dawned(j), k)
  <1>1. day \in Nat /\ day < Least(LastDay, DaysInYear) /\ LastDay \in Nat /\ 1 <= day
    <2>1. day \in Nat /\ 1 <= day
      BY DEF IInv
    <2>2. LastDay \in Nat
      <3>1. LastDay \in 1..31
        BY FjordsAssumption, Zenon
      <3> QED BY <3>1
    <2>3. day < Least(LastDay, DaysInYear)
      BY DEF Dawned
    <2> QED BY <2>1, <2>2, <2>3
  <1>2. k \in Nat /\ 1 <= k /\ k <= DaysInYear
    BY <1>1 DEF Least, DaysInYear
  <1>3. p \in PriceList /\ Fair(p)
    BY PricesRecover DEF IInv
  <1>4. day' = k /\ market' = p
    BY DEF Dawned
  <1>5. realms' = [j \in Jarl |-> new(j)]
    BY DEF Dawned
  <1>6. ASSUME NEW j \in Jarl
        PROVE  Sound(new(j), k)
    <2> DEFINE r == realms[j]
    <2>1. r \in Realm /\ r.last \in 1..day /\ r.joined <= r.last /\ IsInjective(r.sailings)
      BY DEF IInv, Sound
    <2>2. r.last \in 1..k /\ r.last <= k /\ r.joined \in Nat /\ r.last \in Nat
      BY <1>1, <2>1, Fields
    <2>3. CASE j \in absent
      BY <2>1, <2>2, <2>3 DEF Sound
    <2>4. CASE j \notin absent
      <3> DEFINE s == dawned(j)
      <3> HIDE DEF k, p, what, r
      <3>1. /\ s \in Realm /\ s.joined = r.joined /\ s.last = k
            /\ s.sailings \in {<<>>, r.sailings}
        BY <1>2, <1>3, <2>1, <2>2, EveryDawn DEF r
      <3>2. IsInjective(s.sailings)
        <4>1. IsInjective(<<>>)
          BY DEF IsInjective
        <4> QED BY <2>1, <3>1, <4>1
      <3> HIDE DEF s
      <3>3. Sung(s, k) \in Realm /\ Like(Sung(s, k), s)
        BY <1>2, <3>1, SongsAreSung
      <3>4. s.last \in 1..k /\ s.joined <= s.last
        BY <1>2, <2>1, <2>2, <3>1
      <3>5. Sound(Sung(s, k), k)
        BY <3>2, <3>3, <3>4 DEF Sound, Like
      <3> QED BY <2>4, <3>5 DEF s
    <2> QED BY <2>3, <2>4
  <1> HIDE DEF k, p, new
  <1>7. \A j \in Jarl : realms'[j] = new(j)
    BY <1>5
  <1>8. \A j \in Jarl : Sound(realms'[j], k)
    BY <1>6, <1>7
  <1>9. realms' \in [Jarl -> Realm]
    <2>1. \A j \in Jarl : new(j) \in Realm
      BY <1>6 DEF Sound
    <2> QED BY <1>5, <2>1
  <1> QED BY <1>2, <1>3, <1>4, <1>8, <1>9 DEF IInv

\* and so does the yule,
LEMMA AnotherYear ==
    ASSUME IInv, NEW king, Yule(king)
    PROVE  IInv'
  <1> DEFINE born(j) == NewRealm(1, realms[j].npc)
             crowns(j) == realms[j].crowns + (IF j = king THEN 1 ELSE 0)
             new(j) == [born(j) EXCEPT !.crowns = crowns(j)]
  <1>1. realms' = [j \in Jarl |-> new(j)] /\ day' = 1 /\ market' = market
    BY DEF Yule
  <1>2. ASSUME NEW j \in Jarl
        PROVE  Sound(new(j), 1)
    <2>1. realms[j] \in Realm
      BY DEF IInv
    <2>2. realms[j].npc \in Habit
      BY <2>1 DEF Realm, RealmWith
    <2> DEFINE r == born(j)
    <2>3. r \in Realm /\ r.last = 1 /\ r.joined = 1 /\ IsInjective(r.sailings)
      BY <2>2, FirstDay
    <2> HIDE DEF r
    <2>4. PICK c \in Nat : c = crowns(j)
      BY <2>1, Fields
    <2> DEFINE s == [r EXCEPT !.crowns = c]
    <2>5. s \in Realm /\ Like(s, r)
      BY <2>3 DEF Realm, RealmWith, Like
    <2>6. s = new(j)
      BY <2>4 DEF r
    <2> HIDE DEF s, new
    <2>7. Sound(s, 1)
      BY <2>3, <2>5 DEF Sound, Like
    <2> QED BY <2>6, <2>7
  <1> HIDE DEF new
  <1>3. \A j \in Jarl : realms'[j] = new(j)
    BY <1>1
  <1>4. realms' \in [Jarl -> Realm]
    <2>1. \A j \in Jarl : new(j) \in Realm
      BY <1>2 DEF Sound
    <2> QED BY <1>1, <2>1
  <1>5. \A j \in Jarl : Sound(realms'[j], day')
    BY <1>1, <1>2, <1>3
  <1> QED BY <1>1, <1>4, <1>5 DEF IInv, DaysInYear

\* and so does every turn,
LEMMA SameDay ==
    ASSUME IInv, [Next]_vars, day' = day
    PROVE  IInv'
  <1>1. market' \in PriceList /\ Fair(market')
    BY StepsAreTurns, PricesFall DEF IInv
  <1>2. \A r \in Realm, s \in Realm : Sound(r, day) /\ Moved(s, r) => Sound(s, day)
    BY DEF Sound, Moved
  <1>3. \A r \in Realm, s \in Realm : Sound(r, day) /\ Like(s, r) => Sound(s, day)
    BY DEF Sound, Like
  <1>4. realms \in [Jarl -> Realm] /\ \A j \in Jarl : realms[j] \in Realm /\ Sound(realms[j], day)
    BY DEF IInv
  <1>5. realms' \in [Jarl -> Realm] /\ \A j \in Jarl : Sound(realms'[j], day)
    <2>1. CASE AtHomeOnly
      <3>1. PICK j \in Jarl, s \in Realm : realms' = [realms EXCEPT ![j] = s] /\ Moved(s, realms[j])
        BY <2>1 DEF AtHomeOnly, Becomes
      <3>2. Sound(s, day)
        BY <1>2, <1>4, <3>1
      <3> QED BY <1>4, <3>1, <3>2
    <2>2. CASE Clash
      <3>1. PICK j \in Jarl, d \in Jarl, p \in Realm, q \in Realm :
              /\ realms' = [realms EXCEPT ![j] = p, ![d] = q]
              /\ Moved(p, realms[j]) /\ Like(q, realms[d])
        BY <2>2 DEF Clash
      <3>2. Sound(p, day) /\ Sound(q, day)
        BY <1>2, <1>3, <1>4, <3>1
      <3> QED BY <1>4, <3>1, <3>2
    <2>3. CASE UNCHANGED realms
      BY <1>4, <2>3
    <2> QED BY <2>1, <2>2, <2>3, StepsAreTurns
  <1> QED BY <1>1, <1>5 DEF IInv

\* and so the coast stays sound.
LEMMA StaysSound == IInv /\ [Next]_vars => IInv'
  <1> SUFFICES ASSUME IInv, [Next]_vars PROVE IInv'
    OBVIOUS
  <1>1. CASE day' = day
    BY <1>1, SameDay
  <1>2. CASE day' # day
    <2>1. CASE Next
      <3>1. ASSUME NEW j \in Jarl, Play(j) \/ Player(j) PROVE FALSE
        BY <1>2, <3>1 DEF Play, Player
      <3>2. \/ \E absent, lucky, e, seq : Dawned(absent, lucky, e, seq)
            \/ \E j \in Jarl : Yule(j)
        BY <2>1, <3>1 DEF Next, Morning, Shuffled, Away, Event
      <3> QED BY <3>2, AnotherDay, AnotherYear
    <2>2. CASE UNCHANGED vars
      BY <1>2, <2>2 DEF vars
    <2> QED BY <2>1, <2>2
  <1> QED BY <1>1, <1>2

\* A sound coast is what RealmsOK asks for.
LEMMA SoundIsOK == IInv => RealmsOK
  <1> SUFFICES ASSUME IInv PROVE RealmsOK
    OBVIOUS
  <1> DEFINE Counted == {"farms", "woods", "longhouses", "boatyards", "wild", "folk", "silver", "grain",
                         "timber", "huscarls", "ships", "sung", "raided", "crowns"}
  <1>1. ASSUME NEW j \in Jarl
        PROVE  LET r == realms[j] IN
               /\ \A f \in Counted : r[f] \in Nat
               /\ r.turns \in 0..TurnCap /\ r.honour \in -50..50
               /\ r.palisade \in 0..5 /\ r.watchers \in 0..10
               /\ IsInjective(r.sailings) /\ r.feasted \in BOOLEAN
               /\ r.last \in 1..day /\ r.joined <= r.last
    <2> DEFINE r == realms[j]
    <2>1. r \in Realm /\ r.last \in 1..day /\ r.joined <= r.last /\ IsInjective(r.sailings)
      BY DEF IInv, Sound
    <2> HIDE DEF r
    <2>2. \A f \in Counted : r[f] \in Nat
      BY <2>1, Fields
    <2>3. r.turns \in 0..TurnCap /\ r.honour \in -50..50 /\ r.palisade \in 0..5 /\ r.watchers \in 0..10
      BY <2>1, Fields DEF TurnCap
    <2>4. r.feasted \in BOOLEAN
      BY <2>1 DEF Realm, RealmWith
    <2> QED BY <2>1, <2>2, <2>3, <2>4 DEF r
  <1>2. \A g \in DOMAIN market : market[g] \in BasePrice[g] \div 2 .. BasePrice[g]
    <2>1. DOMAIN market = {"grain", "timber"}
      BY DEF IInv, PriceList
    <2>2. market \in PriceList /\ Fair(market)
      BY DEF IInv
    <2>3. ASSUME NEW g \in {"grain", "timber"}
          PROVE  market[g] \in BasePrice[g] \div 2 .. BasePrice[g]
      <3>1. PICK x \in Nat : x = market[g]
        BY <2>2, PriceIsNat
      <3>2. PICK b \in Nat : b = BasePrice[g] /\ b = IF g = "grain" THEN 4000 ELSE 10000
        BY BasePriceOf
      <3>3. b \div 2 <= x /\ x <= b
        <4>1. x = IF g = "grain" THEN market.grain ELSE market.timber
          BY <2>2, <3>1, PriceOf
        <4> QED BY <2>2, <3>2, <4>1 DEF Fair
      <3>4. x \in b \div 2 .. b
        BY <3>3
      <3> QED BY <3>1, <3>2, <3>4
    <2> QED BY <2>1, <2>3
  <1>3. day \in 1..DaysInYear
    BY DEF IInv, DaysInYear
  <1> QED BY <1>1, <1>2, <1>3 DEF RealmsOK

\* Whoever does something to another: it is the mover's clash with that other.
LEMMA WhoMeetsWhom ==
    ASSUME IInv, [Next]_vars, NEW a \in Jarl, NEW d \in Jarl, Meets(a, d)
    PROVE  /\ realms[a] \in Realm /\ realms[d] \in Realm
           /\ Dealt(realms[a], realms[d], realms'[a], realms'[d])
  <1>1. /\ day' = day /\ realms'[a].turns < realms[a].turns /\ a # d /\ realms'[d] # realms[d]
    BY DEF Meets
  <1>2. realms \in [Jarl -> Realm]
    BY DEF IInv
  <1>3. ~(realms[a].turns < realms[a].turns)
    BY <1>2, Fields
  <1>4. CASE AtHomeOnly
    <2>1. PICK j \in Jarl, s \in Realm : realms' = [realms EXCEPT ![j] = s]
      BY <1>4 DEF AtHomeOnly, Becomes
    <2>2. d = j
      BY <1>1, <1>2, <2>1
    <2>3. realms'[a] = realms[a]
      BY <1>1, <1>2, <2>1, <2>2
    <2> QED BY <1>1, <1>3, <2>3
  <1>5. CASE Clash
    <2>1. PICK j \in Jarl, i \in Jarl, p \in Realm, q \in Realm :
            /\ j # i /\ realms' = [realms EXCEPT ![j] = p, ![i] = q]
            /\ Dealt(realms[j], realms[i], p, q)
      BY <1>5 DEF Clash
    <2>2. realms'[j] = p /\ realms'[i] = q
      BY <1>2, <2>1
    <2>3. \A k \in Jarl \ {i, j} : realms'[k] = realms[k]
      BY <1>2, <2>1
    <2>4. a # i
      <3>1. q.turns = realms[i].turns
        BY <2>1 DEF Dealt
      <3> QED BY <1>1, <1>3, <2>2, <3>1
    <2>5. a = j
      BY <1>1, <1>3, <2>3, <2>4
    <2>6. d = i
      BY <1>1, <2>3, <2>5
    <2> QED BY <1>2, <2>1, <2>2, <2>5, <2>6
  <1>6. CASE UNCHANGED realms
    BY <1>1, <1>6
  <1> QED BY <1>1, <1>4, <1>5, <1>6, StepsAreTurns

\* Whatever is bought, lost or taken, and through every dawn that is caught up
\* with, nothing is ever owed or overdrawn, and turns, honour, walls, watchers
\* and both prices stay within what data.py allows: lib/fjords/rules.py.
THEOREM RealmsStayOK == Spec => []RealmsOK
  <1> QED BY InitIsSound, StaysSound, SoundIsOK, PTL DEF Spec

\* sail and send_watcher make nothing: of silver, grain, timber, folk and huscarls
\* the two realms together have no more than before, and of land as much.
THEOREM AtSeaNothingIsMade == Spec => NothingIsMadeAtSea
  <1> DEFINE A == \A a, d \in Jarl : Meets(a, d) =>
                    /\ \A f \in {"silver", "grain", "timber", "folk", "huscarls"} :
                          realms'[a][f] + realms'[d][f] <= realms[a][f] + realms[d][f]
                    /\ Land(realms'[a]) + Land(realms'[d]) = Land(realms[a]) + Land(realms[d])
  <1>1. IInv /\ [Next]_vars => A
    <2> SUFFICES ASSUME IInv, [Next]_vars, NEW a \in Jarl, NEW d \in Jarl, Meets(a, d)
                 PROVE  /\ \A f \in {"silver", "grain", "timber", "folk", "huscarls"} :
                              realms'[a][f] + realms'[d][f] <= realms[a][f] + realms[d][f]
                        /\ Land(realms'[a]) + Land(realms'[d]) = Land(realms[a]) + Land(realms[d])
      OBVIOUS
    <2>1. Dealt(realms[a], realms[d], realms'[a], realms'[d])
      BY WhoMeetsWhom
    <2> QED BY <2>1 DEF Dealt
  <1>2. IInv /\ [Next]_vars => [A]_vars
    BY <1>1
  <1> HIDE DEF A
  <1>3. Spec => [][A]_vars
    BY <1>2, InitIsSound, StaysSound, PTL DEF Spec
  <1> QED BY <1>3 DEF NothingIsMadeAtSea, A

\* The peace of small realms, the floor of folk and the steadings a taking leaves
\* keep everybody on the coast, whoever sails against them and however often.
THEOREM AtSeaNobodyIsErased == Spec => NobodyIsErased
  <1> DEFINE A == \A a, d \in Jarl : Meets(a, d) =>
                    /\ \A f \in {"farms", "woods", "longhouses"} : realms[d][f] > 0 => realms'[d][f] > 0
                    /\ realms'[d].folk >= Least(realms[d].folk, FolkFloor)
                    /\ Land(realms'[d]) >= Least(Land(realms[d]), 27)
  <1>1. IInv /\ [Next]_vars => A
    <2> SUFFICES ASSUME IInv, [Next]_vars, NEW a \in Jarl, NEW d \in Jarl, Meets(a, d)
                 PROVE  /\ \A f \in {"farms", "woods", "longhouses"} :
                              realms[d][f] > 0 => realms'[d][f] > 0
                        /\ realms'[d].folk >= Least(realms[d].folk, FolkFloor)
                        /\ Land(realms'[d]) >= Least(Land(realms[d]), 27)
      OBVIOUS
    <2>1. Dealt(realms[a], realms[d], realms'[a], realms'[d])
      BY WhoMeetsWhom
    <2> QED BY <2>1 DEF Dealt
  <1>2. IInv /\ [Next]_vars => [A]_vars
    BY <1>1
  <1> HIDE DEF A
  <1>3. Spec => [][A]_vars
    BY <1>2, InitIsSound, StaysSound, PTL DEF Spec
  <1> QED BY <1>3 DEF NobodyIsErased, A

=============================================================================
