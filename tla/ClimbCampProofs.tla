---------------------------- MODULE ClimbCampProofs ----------------------------
(***************************************************************************)
(* What the run of MCClimbCamp shows of three climbers, four requests and  *)
(* two days, for any climbers, any number of requests and days, any first  *)
(* purse and any number of duels.                                          *)
(***************************************************************************)
EXTENDS ClimbCamp, FiniteSetTheorems, WellFoundedInduction, TLAPS

Pending == [act: Act, victim: Climber \cup {None}, inRoom: BOOLEAN, day: 0..MaxDay]

Task == [by: Climber, to: Climber, day: 0..MaxDay, coin: Nat,
         at: {"note", "debit", "credit", "reward"}, next: {"debit", "reward", "done"}]

\* What a request found still holds when it is saved: the row has not been
\* written since, or the request is off.
Ready(r, p) ==
    /\ p.act # "none"
    /\ p.act \in {"rob", "blow"} => r.alive /\ r.day = p.day /\ p.victim \in Climber
    /\ p.act = "rob" => r.duels >= 1
    /\ p.act = "blow" => r.fight = p.victim
    /\ p.act \in {"spend", "room", "key"} => r.purse > 0

PendingInv ==
    \A c \in Climber : pending[c] # Nothing =>
        /\ row[c] # None /\ Ready(row[c], pending[c])
        /\ \A t \in tasks : t.by # c

\* Nothing is from a day to come.
DayInv ==
    \A c \in Climber : pending[c].day <= today /\ (row[c] # None => row[c].day <= today)

\* One handler of a climber at a time; what each carries.
TaskInv ==
    /\ IsFiniteSet(tasks)
    /\ \A t, u \in tasks : t.by = u.by => t = u
    /\ \A t \in tasks :
          /\ t.day <= today
          /\ t.at = "note" => t.next = "reward" \/ (t.next = "done" /\ t.coin = 0)
          /\ t.at # "note" => t.next = "done"
          /\ t.at = "debit" => t.coin = 0

\* An attempt of today is written down, or its handler is about to.
Noted(a) == a \in robberies \/ \E t \in tasks : t.at = "note" /\ a = <<t.day, t.by, t.to>>

AttemptInv == \A a \in attempted : ~interrupted /\ a[1] >= today => Noted(a)

RobInv ==
    ~interrupted => \A c \in Climber : pending[c].act = "rob" =>
        <<pending[c].day, c, pending[c].victim>> \notin attempted

Inv ==
    /\ TypeOK /\ FightEndsWithTheDay /\ CoinIsOnlyMoved
    /\ PendingInv /\ DayInv /\ TaskInv /\ AttemptInv /\ RobInv

-----------------------------------------------------------------------------
(* Sums.  SumFunctionOnSet is a recursive function on the subsets of a set: *)
(* what is wrong with a sum is wrong with a smallest one.                   *)

LEMMA Smallest ==
    ASSUME NEW S \in SUBSET Nat, S # {}
    PROVE  \E n \in S : \A k \in S : n <= k
  <1>1. PICK n \in S : \A k \in S : ~(<<k, n>> \in OpToRel(<, Nat))
    BY NatLessThanWellFounded, WFMin
  <1>2. \A k \in S : ~(k < n)
    BY <1>1 DEF OpToRel
  <1> QED
    BY <1>2

\* Of the sets that something is wrong with, one is good as soon as it loses an
\* element.
LEMMA SmallestSet ==
    ASSUME NEW S, IsFiniteSet(S), NEW Bad \in SUBSET SUBSET S, Bad # {}
    PROVE  \E B \in Bad : \A x \in B : B \ {x} \notin Bad
  <1> DEFINE N == {Cardinality(B) : B \in Bad}
  <1>1. \A B \in SUBSET S : IsFiniteSet(B) /\ Cardinality(B) \in Nat
    BY FS_Subset, FS_CardinalityType
  <1>2. N \in SUBSET Nat /\ N # {}
    BY <1>1
  <1> HIDE DEF N
  <1>3. PICK n \in N : \A k \in N : n <= k
    BY <1>2, Smallest
  <1>4. PICK B \in Bad : Cardinality(B) = n
    BY <1>3 DEF N
  <1>5. ASSUME NEW x \in B, B \ {x} \in Bad PROVE FALSE
    <2>1. Cardinality(B \ {x}) = Cardinality(B) - 1
      BY <1>1, FS_RemoveElement
    <2>2. n <= Cardinality(B \ {x})
      BY <1>3, <1>5 DEF N
    <2> QED
      BY <1>1, <1>4, <2>1, <2>2
  <1> QED
    BY <1>5

First(s) == CHOOSE x \in s : TRUE

Summing(f, S, p) ==
    p = [s \in SUBSET S |-> IF s = {} THEN 0 ELSE f[First(s)] + p[s \ {First(s)}]]

LEMMA Unfolded ==
    ASSUME NEW f, NEW S PROVE SumFunctionOnSet(f, S) = (CHOOSE z : Summing(f, S, z))[S]
  BY DEF SumFunctionOnSet, FoldFunctionOnSet, MapThenFoldSet, Summing, First

LEMMA SummingAt ==
    ASSUME NEW f, NEW S, NEW p, Summing(f, S, p), NEW s \in SUBSET S
    PROVE  p[s] = IF s = {} THEN 0 ELSE f[First(s)] + p[s \ {First(s)}]
  BY DEF Summing

LEMMA FirstIsThere == ASSUME NEW s, s # {} PROVE First(s) \in s
  BY DEF First

LEMMA SummingIsUnique ==
    ASSUME NEW f, NEW g, NEW S, NEW T, NEW p, NEW q, Summing(f, S, p), Summing(g, T, q),
           NEW s, IsFiniteSet(s), s \subseteq S, s \subseteq T, \A x \in s : f[x] = g[x]
    PROVE  p[s] = q[s]
  <1> DEFINE Bad == {t \in SUBSET s : p[t] # q[t]}
  <1>1. SUFFICES ASSUME Bad # {} PROVE FALSE
    OBVIOUS
  <1>2. PICK B \in Bad : \A x \in B : B \ {x} \notin Bad
    <2>1. Bad \in SUBSET SUBSET s
      OBVIOUS
    <2> HIDE DEF Bad
    <2> QED
      BY <1>1, <2>1, SmallestSet
  <1> HIDE DEF Bad
  <1>0. B \in SUBSET S /\ B \in SUBSET T
    BY DEF Bad
  <1>3. p[B] = (IF B = {} THEN 0 ELSE f[First(B)] + p[B \ {First(B)}])
    BY <1>0, SummingAt
  <1>4. q[B] = (IF B = {} THEN 0 ELSE g[First(B)] + q[B \ {First(B)}])
    BY <1>0, SummingAt
  <1> USE DEF Bad
  <1>5. CASE B = {}
    BY <1>2, <1>3, <1>4, <1>5
  <1>6. CASE B # {}
    <2>1. First(B) \in B /\ First(B) \in s
      BY <1>6, FirstIsThere
    <2>2. p[B \ {First(B)}] = q[B \ {First(B)}]
      BY <1>2, <2>1
    <2> QED
      BY <1>2, <1>3, <1>4, <1>6, <2>1, <2>2
  <1> QED
    BY <1>5, <1>6

LEMMA SummingOfPart ==
    ASSUME NEW f, NEW S, NEW p, Summing(f, S, p), NEW T \in SUBSET S
    PROVE  \E q : Summing(f, T, q)
  <1> DEFINE q == [s \in SUBSET T |-> p[s]]
  <1>1. \A s \in SUBSET T : q[s] = IF s = {} THEN 0 ELSE f[First(s)] + q[s \ {First(s)}]
    <2> TAKE s \in SUBSET T
    <2>1. p[s] = IF s = {} THEN 0 ELSE f[First(s)] + p[s \ {First(s)}]
      BY SummingAt
    <2>2. s \ {First(s)} \in SUBSET T
      OBVIOUS
    <2> QED
      BY <2>1, <2>2
  <1>2. q = [s \in SUBSET T |-> q[s]]
    OBVIOUS
  <1> HIDE DEF q
  <1>3. Summing(f, T, q)
    BY <1>1, <1>2 DEF Summing
  <1> QED
    BY <1>3

LEMMA SummingExists == ASSUME NEW f, NEW S, IsFiniteSet(S) PROVE \E p : Summing(f, S, p)
  <1> DEFINE Bad == {t \in SUBSET S : ~\E p : Summing(f, t, p)}
  <1>1. SUFFICES ASSUME Bad # {} PROVE FALSE
    OBVIOUS
  <1>2. PICK B \in Bad : \A x \in B : B \ {x} \notin Bad
    <2>1. Bad \in SUBSET SUBSET S
      OBVIOUS
    <2> HIDE DEF Bad
    <2> QED
      BY <1>1, <2>1, SmallestSet
  <1>0. \A s \in SUBSET B : IsFiniteSet(s)
    BY FS_Subset
  <1> DEFINE V(t) == (CHOOSE z : Summing(f, t, z))[t]
  <1>3. ASSUME NEW t \in SUBSET B, t # B PROVE \E p : Summing(f, t, p)
    <2>1. PICK x \in B : x \notin t
      BY <1>3
    <2>2. PICK p : Summing(f, B \ {x}, p)
      BY <1>2
    <2> QED
      BY <2>1, <2>2, SummingOfPart
  <1>4. ASSUME NEW t \in SUBSET B, t # B, t # {} PROVE V(t) = f[First(t)] + V(t \ {First(t)})
    <2> DEFINE p == CHOOSE z : Summing(f, t, z)
               u == t \ {First(t)}
               q == CHOOSE z : Summing(f, u, z)
    <2>1. Summing(f, t, p)
      BY <1>3, <1>4
    <2>2. First(t) \in t
      BY <1>4, FirstIsThere
    <2>3. Summing(f, u, q)
      BY <1>3, <1>4
    <2> HIDE DEF p, q
    <2>4. p[t] = f[First(t)] + p[u]
      BY <1>4, <2>1, SummingAt
    <2>5. p[u] = q[u]
      BY <1>0, <2>1, <2>3, SummingIsUnique
    <2> QED
      BY <2>4, <2>5 DEF p, q
  <1>5. CASE B = {}
    <2> DEFINE q == [s \in SUBSET B |-> 0]
    <2>1. Summing(f, B, q)
      BY <1>5 DEF Summing
    <2> QED
      BY <1>2, <2>1
  <1>6. CASE B # {}
    <2> DEFINE rest == B \ {First(B)}
               q == [t \in SUBSET B |-> IF t = B THEN f[First(B)] + V(rest) ELSE V(t)]
    <2>1. First(B) \in B /\ rest # B /\ rest \in SUBSET B
      BY <1>6, FirstIsThere
    <2>2. V({}) = 0
      <3>1. {} \in SUBSET B /\ {} # B
        BY <1>6
      <3>2. Summing(f, {}, CHOOSE p : Summing(f, {}, p))
        BY <1>3, <3>1
      <3> QED
        BY <3>2, SummingAt
    <2>3. ASSUME NEW t \in SUBSET B
          PROVE  q[t] = IF t = {} THEN 0 ELSE f[First(t)] + q[t \ {First(t)}]
      <3>1. CASE t = B
        <4>1. q[t] = f[First(B)] + V(rest) /\ q[rest] = V(rest)
          BY <2>1, <3>1
        <4> HIDE DEF q, V
        <4> QED
          BY <1>6, <3>1, <4>1
      <3>2. CASE t = {}
        BY <1>6, <2>2, <3>2
      <3>3. CASE t # B /\ t # {}
        <4>1. First(t) \in t
          BY <3>3, FirstIsThere
        <4>2. q[t] = V(t) /\ q[t \ {First(t)}] = V(t \ {First(t)})
          BY <3>3, <4>1
        <4>3. V(t) = f[First(t)] + V(t \ {First(t)})
          BY <1>4, <3>3
        <4> HIDE DEF q, V
        <4> QED
          BY <3>3, <4>2, <4>3
      <3> QED
        BY <3>1, <3>2, <3>3
    <2>4. q = [t \in SUBSET B |-> q[t]]
      OBVIOUS
    <2> HIDE DEF q
    <2>5. Summing(f, B, q)
      BY <2>3, <2>4 DEF Summing
    <2> QED
      BY <1>2, <2>5
  <1> QED
    BY <1>5, <1>6

\* What SumFunctionOnSet computes: the sum of a finite set without one of its
\* elements is less by what the element counts.
LEMMA SumOfNothing == ASSUME NEW f PROVE SumFunctionOnSet(f, {}) = 0
  <1>1. Summing(f, {}, CHOOSE p : Summing(f, {}, p))
    BY SummingExists, FS_EmptySet
  <1> QED
    BY <1>1, Unfolded, SummingAt

LEMMA SumSame ==
    ASSUME NEW f, NEW g, NEW S, IsFiniteSet(S), \A x \in S : f[x] = g[x]
    PROVE  SumFunctionOnSet(f, S) = SumFunctionOnSet(g, S)
  <1>1. Summing(f, S, CHOOSE z : Summing(f, S, z)) /\ Summing(g, S, CHOOSE p : Summing(g, S, p))
    BY SummingExists
  <1> QED
    BY <1>1, Unfolded, SummingIsUnique

LEMMA SumOfFirst ==
    ASSUME NEW f, NEW S, IsFiniteSet(S), S # {}
    PROVE  SumFunctionOnSet(f, S) = f[First(S)] + SumFunctionOnSet(f, S \ {First(S)})
  <1> DEFINE u == S \ {First(S)}
             p == CHOOSE z : Summing(f, S, z)
             q == CHOOSE z : Summing(f, u, z)
  <1>1. IsFiniteSet(u)
    BY FS_Subset
  <1>2. Summing(f, S, p) /\ Summing(f, u, q)
    BY <1>1, SummingExists
  <1>3. SumFunctionOnSet(f, S) = p[S] /\ SumFunctionOnSet(f, u) = q[u]
    BY Unfolded
  <1> HIDE DEF p, q
  <1>4. p[S] = f[First(S)] + p[u]
    BY <1>2, SummingAt
  <1>5. p[u] = q[u]
    BY <1>1, <1>2, SummingIsUnique
  <1> QED
    BY <1>3, <1>4, <1>5

LEMMA SumIsNatural ==
    ASSUME NEW f, NEW S, IsFiniteSet(S), \A x \in S : f[x] \in Nat
    PROVE  SumFunctionOnSet(f, S) \in Nat
  <1> DEFINE Bad == {t \in SUBSET S : SumFunctionOnSet(f, t) \notin Nat}
  <1>1. SUFFICES ASSUME Bad # {} PROVE FALSE
    OBVIOUS
  <1>2. PICK B \in Bad : \A x \in B : B \ {x} \notin Bad
    <2>1. Bad \in SUBSET SUBSET S
      OBVIOUS
    <2> HIDE DEF Bad
    <2> QED
      BY <1>1, <2>1, SmallestSet
  <1>3. B # {}
    BY <1>2, SumOfNothing
  <1>4. First(B) \in B /\ IsFiniteSet(B)
    BY <1>3, FirstIsThere, FS_Subset
  <1>5. SumFunctionOnSet(f, B) = f[First(B)] + SumFunctionOnSet(f, B \ {First(B)})
    BY <1>3, <1>4, SumOfFirst
  <1>6. SumFunctionOnSet(f, B \ {First(B)}) \in Nat /\ f[First(B)] \in Nat
    BY <1>2, <1>4
  <1> QED
    BY <1>2, <1>5, <1>6

LEMMA SumWithout ==
    ASSUME NEW f, NEW S, IsFiniteSet(S), \A x \in S : f[x] \in Nat, NEW x \in S
    PROVE  SumFunctionOnSet(f, S) = f[x] + SumFunctionOnSet(f, S \ {x})
  <1> DEFINE Sum(t) == SumFunctionOnSet(f, t)
             Bad == {t \in SUBSET S : \E y \in t : Sum(t) # f[y] + Sum(t \ {y})}
  <1>1. SUFFICES ASSUME Bad # {} PROVE FALSE
    OBVIOUS
  <1>2. PICK B \in Bad : \A y \in B : B \ {y} \notin Bad
    <2>1. Bad \in SUBSET SUBSET S
      OBVIOUS
    <2> HIDE DEF Bad
    <2> QED
      BY <1>1, <2>1, SmallestSet
  <1>3. PICK y \in B : Sum(B) # f[y] + Sum(B \ {y})
    BY <1>2
  <1> DEFINE z == First(B)
  <1>4. z \in B
    BY FirstIsThere
  <1>5. Sum(B) = f[z] + Sum(B \ {z})
    <2>1. IsFiniteSet(B)
      BY FS_Subset
    <2> QED
      BY <1>4, <2>1, SumOfFirst
  <1>6. z # y
    BY <1>3, <1>5
  <1>7. Sum(B \ {z}) = f[y] + Sum((B \ {z}) \ {y}) /\ Sum(B \ {y}) = f[z] + Sum((B \ {y}) \ {z})
    <2>1. B \ {z} \notin Bad /\ B \ {y} \notin Bad /\ y \in B \ {z} /\ z \in B \ {y}
      BY <1>2, <1>4, <1>6
    <2>2. B \ {z} \in SUBSET S /\ B \ {y} \in SUBSET S
      OBVIOUS
    <2> HIDE DEF Sum, z
    <2> QED
      BY <2>1, <2>2
  <1>8. (B \ {z}) \ {y} = (B \ {y}) \ {z}
    OBVIOUS
  <1>9. f[y] \in Nat /\ f[z] \in Nat /\ Sum((B \ {y}) \ {z}) \in Nat
    <2>1. \A t \in SUBSET S : IsFiniteSet(t) /\ Sum(t) \in Nat
      BY FS_Subset, SumIsNatural
    <2> QED
      BY <1>4, <2>1
  <1> HIDE DEF Sum, z
  <1> QED
    BY <1>3, <1>5, <1>7, <1>8, <1>9

-----------------------------------------------------------------------------
(* The coin of all climbers, and of all handlers *)

Worth(r) == IF r # None THEN r.purse + r.vault ELSE 0

Purses(R) == SumFunctionOnSet([c \in Climber |-> IF R[c] # None THEN R[c].purse + R[c].vault ELSE 0], Climber)

Way(T) == SumFunctionOnSet([t \in T |-> t.coin], T)

LEMMA HeldIsPurses == Held = Purses(row) /\ OnItsWay = Way(tasks)
  BY DEF Held, OnItsWay, Purses, Way, SumFunction, SumFunctionOnSet, FoldFunction, Here

LEMMA WorthIsNatural == ASSUME NEW r \in Row \cup {None} PROVE Worth(r) \in Nat
  BY DEF Worth, Row

LEMMA PursesAreNatural ==
    ASSUME NEW R \in [Climber -> Row \cup {None}]
    PROVE  Purses(R) \in Nat
  <1> DEFINE f == [c \in Climber |-> IF R[c] # None THEN R[c].purse + R[c].vault ELSE 0]
  <1>1. \A c \in Climber : f[c] \in Nat
    BY DEF Row
  <1> HIDE DEF f
  <1>2. SumFunctionOnSet(f, Climber) \in Nat
    BY <1>1, CampAssumption, SumIsNatural
  <1> QED
    BY <1>2 DEF Purses, f

\* One row written anew: the sum changes by what that climber has more or less.
LEMMA PurseWritten ==
    ASSUME NEW R \in [Climber -> Row \cup {None}], NEW c \in Climber, NEW r \in Row \cup {None}
    PROVE  Purses([R EXCEPT ![c] = r]) + Worth(R[c]) = Purses(R) + Worth(r)
  <1> DEFINE S == [R EXCEPT ![c] = r]
             f == [x \in Climber |-> IF R[x] # None THEN R[x].purse + R[x].vault ELSE 0]
             g == [x \in Climber |-> IF S[x] # None THEN S[x].purse + S[x].vault ELSE 0]
             rest == Climber \ {c}
  <1>1. \A x \in Climber : f[x] \in Nat /\ g[x] \in Nat
    BY DEF Row
  <1>2. f[c] = Worth(R[c]) /\ g[c] = Worth(r) /\ \A x \in rest : f[x] = g[x]
    BY DEF Worth
  <1>3. IsFiniteSet(Climber) /\ IsFiniteSet(rest)
    BY CampAssumption, FS_Subset
  <1> HIDE DEF f, g
  <1>4. SumFunctionOnSet(f, Climber) = f[c] + SumFunctionOnSet(f, rest)
    BY <1>1, <1>3, SumWithout
  <1>5. SumFunctionOnSet(g, Climber) = g[c] + SumFunctionOnSet(g, rest)
    BY <1>1, <1>3, SumWithout
  <1>6. SumFunctionOnSet(f, rest) = SumFunctionOnSet(g, rest) /\ SumFunctionOnSet(f, rest) \in Nat
    BY <1>1, <1>2, <1>3, SumSame, SumIsNatural
  <1>7. Purses(R) = SumFunctionOnSet(f, Climber) /\ Purses(S) = SumFunctionOnSet(g, Climber)
    BY DEF Purses, f, g
  <1>8. f[c] \in Nat /\ g[c] \in Nat
    BY <1>1
  <1> HIDE DEF S, rest
  <1>9. Purses(S) + Worth(R[c]) = Purses(R) + Worth(r)
    BY <1>2, <1>4, <1>5, <1>6, <1>7, <1>8
  <1> QED
    BY <1>9 DEF S

LEMMA WayIsNatural ==
    ASSUME NEW T \in SUBSET Task, IsFiniteSet(T)
    PROVE  Way(T) \in Nat
  <1> DEFINE f == [t \in T |-> t.coin]
  <1>1. \A t \in T : f[t] \in Nat
    BY DEF Task
  <1> HIDE DEF f
  <1>2. SumFunctionOnSet(f, T) \in Nat
    BY <1>1, SumIsNatural
  <1> QED
    BY <1>2 DEF Way, f

LEMMA WayWithout ==
    ASSUME NEW T \in SUBSET Task, IsFiniteSet(T), NEW t \in T
    PROVE  Way(T) = t.coin + Way(T \ {t})
  <1> DEFINE rest == T \ {t}
             f == [x \in T |-> x.coin]
             g == [x \in rest |-> x.coin]
  <1>1. \A x \in T : f[x] \in Nat
    BY DEF Task
  <1>2. f[t] = t.coin /\ \A x \in rest : f[x] = g[x]
    OBVIOUS
  <1>3. IsFiniteSet(rest)
    BY FS_Subset
  <1> HIDE DEF f, g
  <1>4. SumFunctionOnSet(f, T) = f[t] + SumFunctionOnSet(f, rest)
    BY <1>1, SumWithout
  <1>5. SumFunctionOnSet(f, rest) = SumFunctionOnSet(g, rest)
    BY <1>2, <1>3, SumSame
  <1> QED
    BY <1>2, <1>4, <1>5 DEF Way, f, g

LEMMA WayWith ==
    ASSUME NEW T \in SUBSET Task, IsFiniteSet(T), NEW t \in Task \ T
    PROVE  Way(T \cup {t}) = t.coin + Way(T) /\ IsFiniteSet(T \cup {t})
  <1>1. IsFiniteSet(T \cup {t}) /\ T \cup {t} \in SUBSET Task /\ (T \cup {t}) \ {t} = T
    BY FS_AddElement
  <1> QED
    BY <1>1, WayWithout

-----------------------------------------------------------------------------
(* A row that is written, and a handler that goes on *)

LEMMA Types ==
    ASSUME TypeOK
    PROVE  /\ row \in [Climber -> Row \cup {None}] /\ pending \in [Climber -> Pending]
           /\ tasks \in SUBSET Task /\ today \in Nat /\ today \in 0..MaxDay /\ coin \in Nat
           /\ acts \in Nat
  BY CampAssumption DEF TypeOK, Pending, Task

LEMMA NothingIsPending == Nothing \in Pending /\ Nothing.act = "none"
  BY CampAssumption DEF Nothing, Pending, Act

\* What the fight of a row comes from.
FightOK(c, r, A) == r # None /\ r.fight # None => r.alive /\ <<r.day, c, r.fight>> \in A

LEMMA Written ==
    ASSUME Inv, NEW c \in Climber, NEW r \in Row \cup {None}, Write(c, r), today' = today,
           attempted \subseteq attempted', FightOK(c, r, attempted'), r # None => r.day <= today,
           \A t \in tasks' : t.by = c \/ \E u \in tasks : u.by = t.by
    PROVE  /\ row' \in [Climber -> Row \cup {None}] /\ pending' \in [Climber -> Pending]
           /\ PendingInv' /\ FightEndsWithTheDay' /\ DayInv'
           /\ Purses(row') + Worth(row[c]) = Purses(row) + Worth(r)
  <1>1. /\ row \in [Climber -> Row \cup {None}] /\ pending \in [Climber -> Pending]
        /\ row' = [row EXCEPT ![c] = r] /\ pending' = [pending EXCEPT ![c] = Nothing]
    BY Types DEF Inv, Write
  <1>2. row' \in [Climber -> Row \cup {None}] /\ pending' \in [Climber -> Pending]
    BY <1>1, NothingIsPending
  <1>3. /\ row'[c] = r /\ pending'[c] = Nothing
        /\ \A d \in Climber \ {c} : row'[d] = row[d] /\ pending'[d] = pending[d]
    BY <1>1
  <1>4. PendingInv'
    <2> SUFFICES ASSUME NEW d \in Climber, pending'[d] # Nothing
                 PROVE  /\ row'[d] # None /\ Ready(row'[d], pending'[d])
                        /\ \A t \in tasks' : t.by # d
      BY DEF PendingInv
    <2>1. d # c
      BY <1>3
    <2>2. row[d] # None /\ Ready(row[d], pending[d]) /\ \A t \in tasks : t.by # d
      BY <1>3, <2>1 DEF Inv, PendingInv
    <2> QED
      BY <1>3, <2>1, <2>2
  <1>5. FightEndsWithTheDay'
    <2> SUFFICES ASSUME NEW d \in Climber PROVE FightOK(d, row'[d], attempted')
      BY DEF FightEndsWithTheDay, Here, FightOK
    <2>1. CASE d # c
      BY <1>3, <2>1 DEF Inv, FightEndsWithTheDay, Here, FightOK
    <2> QED
      BY <1>3, <2>1
  <1>8. DayInv'
    <2>1. Nothing.day = 0 /\ 0 <= today
      BY Types DEF Inv, Nothing
    <2> QED
      BY <1>3, <2>1 DEF Inv, DayInv
  <1>6. Purses([row EXCEPT ![c] = r]) + Worth(row[c]) = Purses(row) + Worth(r)
    BY <1>1, PurseWritten
  <1>7. Purses(row') = Purses([row EXCEPT ![c] = r])
    BY <1>1
  <1> QED
    BY <1>2, <1>4, <1>5, <1>6, <1>7, <1>8

LEMMA NotWritten ==
    ASSUME Inv, row' = row, pending' = pending, today' = today, attempted' = attempted,
           \A t \in tasks' : \E u \in tasks : u.by = t.by
    PROVE  /\ row' \in [Climber -> Row \cup {None}] /\ pending' \in [Climber -> Pending]
           /\ PendingInv' /\ FightEndsWithTheDay' /\ DayInv'
  BY Types DEF Inv, PendingInv, DayInv, FightEndsWithTheDay, Here

\* Whoever is about to rob goes on being about to, unless the row is written.
LEMMA StillAboutToRob ==
    ASSUME Inv, NEW c \in Climber, interrupted' = interrupted,
           \A d \in Climber : pending'[d] # Nothing => pending'[d] = pending[d],
           \A d \in Climber \ {c} : \A day, v : <<day, d, v>> \in attempted' => <<day, d, v>> \in attempted,
           attempted' = attempted \/ pending'[c] = Nothing
    PROVE  RobInv'
  <1> SUFFICES ASSUME ~interrupted, NEW d \in Climber, pending'[d].act = "rob"
               PROVE  <<pending'[d].day, d, pending'[d].victim>> \notin attempted'
    BY DEF RobInv
  <1>1. pending'[d] # Nothing
    BY NothingIsPending
  <1>2. pending'[d] = pending[d] /\ <<pending[d].day, d, pending[d].victim>> \notin attempted
    BY <1>1 DEF Inv, RobInv
  <1> QED
    BY <1>1, <1>2

LEMMA GoesOn ==
    ASSUME Inv, NEW t \in tasks, NEW at \in {"debit", "credit", "reward", "done"}, NEW amount \in Nat,
           at = "debit" => amount = 0, Goes(t, at, amount), today' = today
    PROVE  /\ tasks' \in SUBSET Task /\ TaskInv'
           /\ \A u \in tasks' : \E w \in tasks : w.by = u.by
           /\ \A u \in tasks : u # t => u \in tasks'
           /\ Way(tasks') + t.coin = Way(tasks) + (IF at = "done" THEN 0 ELSE amount)
  <1> DEFINE u == [t EXCEPT !.at = at, !.next = "done", !.coin = amount]
             rest == tasks \ {t}
  <1>1. tasks \in SUBSET Task /\ IsFiniteSet(tasks) /\ t \in Task /\ t.day <= today
    BY Types DEF Inv, TaskInv
  <1>2. tasks' = rest \cup (IF at = "done" THEN {} ELSE {u})
    BY DEF Goes
  <1>3. IsFiniteSet(rest) /\ rest \in SUBSET Task /\ Way(tasks) = t.coin + Way(rest)
    BY <1>1, FS_Subset, WayWithout
  <1>4. at # "done" => /\ u \in Task /\ u.by = t.by /\ u.day = t.day /\ u.at = at /\ u.next = "done"
                       /\ u.coin = amount
    BY <1>1 DEF Task
  <1>5. \A w \in rest : w.by # t.by
    BY DEF Inv, TaskInv
  <1>6. t.coin \in Nat /\ Way(rest) \in Nat
    BY <1>1, <1>3, WayIsNatural DEF Task
  <1> HIDE DEF u, rest
  <1>7. CASE at = "done"
    <2>1. tasks' = rest
      BY <1>2, <1>7
    <2>2. TaskInv'
      BY <1>3, <2>1 DEF Inv, TaskInv, rest
    <2>3. Way(tasks') + t.coin = Way(tasks) + 0
      BY <1>3, <1>6, <2>1
    <2> QED
      BY <1>3, <1>7, <2>1, <2>2, <2>3 DEF rest
  <1>8. CASE at # "done"
    <2>1. tasks' = rest \cup {u}
      BY <1>2, <1>8
    <2>2. u \in Task \ rest
      BY <1>4, <1>5, <1>8
    <2>3. Way(tasks') = amount + Way(rest) /\ IsFiniteSet(tasks')
      BY <1>3, <1>4, <1>8, <2>1, <2>2, WayWith
    <2>4. TaskInv'
      <3>1. \A w \in rest :
               /\ w.day <= today
               /\ w.at = "note" => w.next = "reward" \/ (w.next = "done" /\ w.coin = 0)
               /\ w.at # "note" => w.next = "done"
               /\ w.at = "debit" => w.coin = 0
        BY DEF Inv, TaskInv, rest
      <3>2. \A w, x \in rest : w.by = x.by => w = x
        BY DEF Inv, TaskInv, rest
      <3>3. \A w, x \in tasks' : w.by = x.by => w = x
        BY <1>4, <1>5, <1>8, <2>1, <3>2
      <3> QED
        BY <1>1, <1>4, <1>8, <2>1, <2>3, <3>1, <3>3 DEF TaskInv
    <2>5. Way(tasks') + t.coin = Way(tasks) + amount
      BY <1>3, <1>6, <2>3
    <2> QED
      BY <1>3, <1>4, <1>8, <2>1, <2>2, <2>4, <2>5 DEF rest
  <1> QED
    BY <1>7, <1>8

\* A handler that has something to tell, or nothing.
Telling(t) ==
    /\ t.coin \in Nat
    /\ t.at = "done" => t.coin = 0
    /\ t.at # "done" =>
          /\ t \in Task /\ t.day <= today
          /\ t.at = "note" => t.next = "reward" \/ (t.next = "done" /\ t.coin = 0)
          /\ t.at # "note" => t.next = "done"
          /\ t.at = "debit" => t.coin = 0

LEMMA Told ==
    ASSUME Inv, NEW t, Telling(t), \A u \in tasks : u.by # t.by, Tell(t), today' = today
    PROVE  /\ tasks' \in SUBSET Task /\ TaskInv' /\ tasks \subseteq tasks'
           /\ \A u \in tasks' : u.by = t.by \/ u \in tasks
           /\ t.at # "done" => t \in tasks'
           /\ Way(tasks') = Way(tasks) + t.coin
  <1>1. tasks \in SUBSET Task /\ IsFiniteSet(tasks) /\ Way(tasks) \in Nat
    BY Types, WayIsNatural DEF Inv, TaskInv
  <1>2. CASE t.at = "done"
    <2>1. tasks' = tasks /\ t.coin = 0
      BY <1>2 DEF Tell, Telling
    <2> QED
      BY <1>1, <1>2, <2>1 DEF Inv, TaskInv
  <1>3. CASE t.at # "done"
    <2>1. tasks' = tasks \cup {t} /\ t \in Task \ tasks
      BY <1>3 DEF Tell, Telling
    <2>2. Way(tasks') = t.coin + Way(tasks) /\ IsFiniteSet(tasks')
      BY <1>1, <2>1, WayWith
    <2>3. TaskInv'
      BY <1>3, <2>1, <2>2 DEF Inv, TaskInv, Telling
    <2>4. t.coin \in Nat
      BY DEF Telling
    <2> QED
      BY <1>1, <2>1, <2>2, <2>3, <2>4
  <1> QED
    BY <1>2, <1>3

LEMMA HeldIsPursesNext == Held' = Purses(row') /\ OnItsWay' = Way(tasks')
  <1>1. ASSUME NEW f, NEW S, DOMAIN f = S PROVE SumFunction(f) = SumFunctionOnSet(f, S)
    BY <1>1 DEF SumFunction
  <1>2. Held' = Purses(row')
    BY <1>1 DEF Held, Purses, Here
  <1>3. OnItsWay' = Way(tasks')
    BY <1>1 DEF OnItsWay, Way
  <1> QED
    BY <1>2, <1>3

\* What the climbers and the handlers have together changes as coin does.
LEMMA CoinMoves ==
    ASSUME Inv, interrupted' = interrupted, NEW x \in Nat, NEW y \in Nat,
           row' \in [Climber -> Row \cup {None}], tasks' \in SUBSET Task, TaskInv',
           (Purses(row') + Way(tasks')) + x = (Purses(row) + Way(tasks)) + y,
           coin' = (coin + y) - x
    PROVE  CoinIsOnlyMoved' /\ coin' \in Nat
  <1> DEFINE p == Purses(row)
             q == Purses(row')
             w == Way(tasks)
             z == Way(tasks')
  <1>1. p \in Nat /\ w \in Nat /\ coin \in Nat
    BY Types, PursesAreNatural, WayIsNatural DEF Inv, TaskInv
  <1>2. q \in Nat /\ z \in Nat
    BY PursesAreNatural, WayIsNatural DEF TaskInv
  <1>3. p + w <= coin /\ (~interrupted => p + w = coin)
    BY HeldIsPurses DEF Inv, CoinIsOnlyMoved
  <1>4. Held' = q /\ OnItsWay' = z
    BY HeldIsPursesNext
  <1> HIDE DEF p, q, w, z
  <1>5. (q + z) + x = (p + w) + y
    BY DEF p, q, w, z
  <1>6. q + z <= coin' /\ (~interrupted' => q + z = coin') /\ coin' \in Nat
    BY <1>1, <1>2, <1>3, <1>5
  <1> QED
    BY <1>4, <1>6 DEF CoinIsOnlyMoved

LEMMA NotedStays ==
    ASSUME Inv, today' >= today, interrupted' = interrupted, today' \in Nat,
           \A a \in attempted' : a \in attempted \/ Noted(a)',
           \A t \in tasks : t.at = "note" => t \in tasks' \/ Noted(<<t.day, t.by, t.to>>)',
           \A a \in robberies : a[1] >= today => a \in robberies'
    PROVE  AttemptInv'
  <1> SUFFICES ASSUME NEW a \in attempted, ~interrupted, a[1] >= today' PROVE Noted(a)'
    BY DEF AttemptInv
  <1>1. a[1] \in Nat /\ today \in Nat
    BY Types DEF Inv, TypeOK
  <1>2. Noted(a) /\ a[1] >= today
    BY <1>1 DEF Inv, AttemptInv
  <1> QED
    BY <1>2 DEF Noted

-----------------------------------------------------------------------------
(* A climber's own request *)

LEMMA AskNext == ASSUME Inv, NEW c \in Climber, Ask(c) PROVE Inv'
  <1>1. /\ pending[c] = Nothing /\ \A t \in tasks : t.by # c
        /\ row[c] # None /\ acts < MaxActs /\ acts' = acts + 1
        /\ UNCHANGED <<row, today, robberies, tasks, attempted, coin, interrupted>>
    BY DEF Ask, Idle, Here
  <1>2. PICK a \in Offered(c), v \in Climber \cup {None} :
           /\ IF a = "rob" THEN v # None /\ MayRob(c, v) ELSE v = row[c].fight
           /\ pending' = [pending EXCEPT ![c] =
                 [act |-> a, victim |-> v, inRoom |-> a = "rob" /\ IsSheltered(v), day |-> today]]
    BY DEF Ask
  <1> DEFINE p == [act |-> a, victim |-> v, inRoom |-> a = "rob" /\ IsSheltered(v), day |-> today]
             r == row[c]
  <1>3. /\ row \in [Climber -> Row \cup {None}] /\ pending \in [Climber -> Pending]
        /\ today \in 0..MaxDay /\ r \in Row
    BY <1>1, Types DEF Inv
  <1>4. a \in Act \ {"none"}
    BY DEF Offered, Act
  <1>5. (a = "rob" /\ IsSheltered(v)) \in BOOLEAN
    OBVIOUS
  <1>6. p \in Pending
    BY <1>3, <1>4, <1>5 DEF Pending
  <1>7. Ready(r, p)
    <2>1. a \in {"rob", "blow"} => r.alive /\ r.day = today
      <3>1. r.day < today => a \in {"dawn", "gift"}
        BY DEF Offered
      <3>2. ~(r.day < today) => r.alive
        BY DEF Offered
      <3>3. r.day \in Nat /\ today \in Nat /\ r.day <= today
        BY <1>1, <1>3 DEF Row, Inv, DayInv
      <3> QED
        BY <3>1, <3>2, <3>3
    <2>2. a = "rob" => v \in Climber /\ r.duels >= 1
      BY <1>2 DEF MayRob
    <2>3. a = "blow" => v = r.fight /\ v # None
      BY <1>2 DEF Offered
    <2>4. a \in {"spend", "room", "key"} => r.purse > 0
      BY DEF Offered
    <2> QED
      BY <1>4, <2>1, <2>2, <2>3, <2>4 DEF Ready
  <1>8. /\ pending'[c] = p /\ pending' \in [Climber -> Pending]
        /\ \A d \in Climber \ {c} : pending'[d] = pending[d]
    BY <1>2, <1>3, <1>6
  <1>9. p.act = "rob" /\ ~interrupted => <<p.day, c, p.victim>> \notin attempted
    <2> SUFFICES ASSUME a = "rob", ~interrupted, <<today, c, v>> \in attempted PROVE FALSE
      OBVIOUS
    <2>1. <<today, c, v>> \notin robberies
      BY <1>2 DEF MayRob
    <2>2. <<today, c, v>>[1] >= today
      BY <1>3, CampAssumption
    <2>3. Noted(<<today, c, v>>)
      BY <2>2 DEF Inv, AttemptInv
    <2> QED
      BY <1>1, <2>1, <2>3 DEF Noted
  <1> HIDE DEF p, r
  <1>10. PendingInv'
    <2> SUFFICES ASSUME NEW d \in Climber, pending'[d] # Nothing
                 PROVE  row[d] # None /\ Ready(row[d], pending'[d]) /\ \A t \in tasks : t.by # d
      BY <1>1 DEF PendingInv
    <2>1. CASE d = c
      BY <1>1, <1>7, <1>8, <2>1 DEF r
    <2>2. CASE d # c
      BY <1>8, <2>2 DEF Inv, PendingInv
    <2> QED
      BY <2>1, <2>2
  <1>11. RobInv'
    BY <1>1, <1>8, <1>9 DEF Inv, RobInv
  <1>14. DayInv'
    <2>1. p.day = today /\ today <= today
      BY <1>3 DEF p
    <2> QED
      BY <1>1, <1>8, <2>1 DEF Inv, DayInv
  <1>12. TaskInv' /\ AttemptInv' /\ FightEndsWithTheDay' /\ CoinIsOnlyMoved'
    BY <1>1 DEF Inv, TaskInv, AttemptInv, Noted, FightEndsWithTheDay, Here, CoinIsOnlyMoved, Held, OnItsWay
  <1>13. TypeOK'
    BY <1>1, <1>8, CampAssumption DEF Inv, TypeOK, Pending
  <1> QED
    BY <1>10, <1>11, <1>12, <1>13, <1>14 DEF Inv

-----------------------------------------------------------------------------
(* Rows with some fields replaced *)

\* The fight of q is r's.
SameFight(q, r) == q.fight = r.fight /\ q.alive = r.alive /\ q.day = r.day

LEMMA DawnRow ==
    ASSUME NEW r \in Row, NEW d \in 0..MaxDay, NEW q, q = Dawn(r, d)
    PROVE  q \in Row /\ q.fight = None /\ q.purse = r.purse /\ q.vault = r.vault /\ q.day = d
  <1>0. PICK y \in BOOLEAN, k \in BOOLEAN : y = TRUE /\ k = FALSE
    OBVIOUS
  <1>1. PICK n \in 0..DuelsPerDay, f \in Climber \cup {None} : n = DuelsPerDay /\ f = None
    BY CampAssumption
  <1>2. q = [r EXCEPT !.alive = y, !.duels = n, !.key = k, !.room = k, !.fight = f, !.day = d]
    BY <1>0, <1>1 DEF Dawn
  <1>3. q \in Row /\ q.fight = f /\ q.purse = r.purse /\ q.vault = r.vault /\ q.day = d
    BY <1>2 DEF Row
  <1> QED
    BY <1>1, <1>3

LEMMA DeadRow ==
    ASSUME NEW r \in Row, NEW q, q = Dead(r)
    PROVE  q \in Row /\ q.fight = None /\ q.purse = 0 /\ q.vault = r.vault /\ q.day = r.day
  <1>1. PICK y \in BOOLEAN : y = FALSE
    OBVIOUS
  <1>2. PICK p \in Nat, f \in Climber \cup {None} : p = 0 /\ f = None
    OBVIOUS
  <1>3. q = [r EXCEPT !.alive = y, !.purse = p, !.fight = f]
    BY <1>1, <1>2 DEF Dead
  <1>4. q \in Row /\ q.fight = f /\ q.purse = p /\ q.vault = r.vault /\ q.day = r.day
    BY <1>3 DEF Row
  <1> QED
    BY <1>2, <1>4

LEMMA AscendedRow ==
    ASSUME NEW r \in Row, NEW q, q = Ascended(r)
    PROVE  q \in Row /\ SameFight(q, r) /\ q.purse = Start /\ q.vault = 0
  <1>1. PICK p \in Nat, v \in Nat, n \in 0..DuelsPerDay : p = Start /\ v = 0 /\ n = 0
    BY CampAssumption
  <1>2. q = [r EXCEPT !.purse = p, !.vault = v, !.duels = n]
    BY <1>1 DEF Ascended
  <1>3. q \in Row /\ SameFight(q, r) /\ q.purse = p /\ q.vault = v
    BY <1>2 DEF Row, SameFight
  <1> QED
    BY <1>1, <1>3

\* Coin that is earned, spent, or put away.
LEMMA PurseRow ==
    ASSUME NEW r \in Row, NEW p \in Nat, NEW q, q = [r EXCEPT !.purse = p]
    PROVE  q \in Row /\ SameFight(q, r) /\ q.purse = p /\ q.vault = r.vault
  BY DEF Row, SameFight

LEMMA FightRow ==
    ASSUME NEW r \in Row, NEW f \in Climber \cup {None}, NEW q, q = [r EXCEPT !.fight = f]
    PROVE  /\ q \in Row /\ q.fight = f /\ q.alive = r.alive /\ q.day = r.day
           /\ q.purse = r.purse /\ q.vault = r.vault
  BY DEF Row

LEMMA SpouseRow ==
    ASSUME NEW r \in Row, NEW s \in Climber, NEW q, q = [r EXCEPT !.spouse = s]
    PROVE  q \in Row /\ SameFight(q, r) /\ q.purse = r.purse /\ q.vault = r.vault
  BY DEF Row, SameFight

-----------------------------------------------------------------------------
(* Anything that needs nobody else *)

\* The row goes on with its fight or has none, and what it gains coin gains.
LEMMA BusinessRow ==
    ASSUME TypeOK, NEW r \in Row, NEW a \in Act \ {"none", "rob", "blow"}, NEW d \in 0..MaxDay,
           a \in {"spend", "room", "key"} => r.purse > 0, NEW q, q = AfterBusiness(r, a, d)
    PROVE  /\ q \in Row /\ (q.fight = None \/ SameFight(q, r)) /\ q.day \in {r.day, d}
           /\ \E x, y \in Nat : /\ CoinAfter(r, a) = (coin + y) - x
                               /\ (q.purse + q.vault) + x = (r.purse + r.vault) + y
  <1> DEFINE Good(x, y) == /\ CoinAfter(r, a) = (coin + y) - x
                           /\ (q.purse + q.vault) + x = (r.purse + r.vault) + y
  <1>1. coin \in Nat /\ Start \in Nat
    BY CampAssumption DEF TypeOK
  <1>2. r.purse \in Nat /\ r.vault \in Nat
    BY DEF Row
  <1>3. CASE a = "dawn"
    <2>1. q = Dawn(r, d) /\ CoinAfter(r, a) = coin
      BY <1>3 DEF AfterBusiness, CoinAfter
    <2>2. q \in Row /\ q.fight = None /\ q.purse = r.purse /\ q.vault = r.vault /\ q.day = d
      BY <2>1, DawnRow
    <2>3. Good(0, 0)
      BY <1>1, <1>2, <2>1, <2>2
    <2> QED
      BY <2>2, <2>3
  <1>4. CASE a = "gift"
    <2> DEFINE e == Dawn(r, d)
    <2>1. q = [e EXCEPT !.purse = @ + 1] /\ CoinAfter(r, a) = coin + 1
      BY <1>4 DEF AfterBusiness, CoinAfter
    <2>2. e \in Row /\ e.fight = None /\ e.purse = r.purse /\ e.vault = r.vault /\ e.day = d
      BY DawnRow
    <2> HIDE DEF e
    <2>3. q \in Row /\ q.fight = None /\ q.purse = r.purse + 1 /\ q.vault = r.vault /\ q.day = d
      <3>1. r.purse + 1 \in Nat /\ q = [e EXCEPT !.purse = r.purse + 1]
        BY <1>2, <2>1, <2>2
      <3> QED
        BY <2>2, <3>1, PurseRow DEF SameFight
    <2>4. Good(0, 1)
      BY <1>1, <1>2, <2>1, <2>3
    <2> QED
      BY <2>3, <2>4 DEF SameFight
  <1>5. CASE a = "ascend"
    <2>1. q = Ascended(r) /\ CoinAfter(r, a) = coin + Start - r.purse - r.vault
      BY <1>5 DEF AfterBusiness, CoinAfter
    <2>2. q \in Row /\ SameFight(q, r) /\ q.purse = Start /\ q.vault = 0
      BY <2>1, AscendedRow
    <2>3. Good(r.purse + r.vault, Start) /\ r.purse + r.vault \in Nat
      BY <1>1, <1>2, <2>1, <2>2
    <2> QED
      BY <1>1, <2>2, <2>3 DEF SameFight
  <1>6. CASE a = "earn"
    <2>1. q = [r EXCEPT !.purse = r.purse + 1] /\ CoinAfter(r, a) = coin + 1
      BY <1>6 DEF AfterBusiness, CoinAfter
    <2>2. r.purse + 1 \in Nat
      BY <1>2
    <2>3. q \in Row /\ SameFight(q, r) /\ q.purse = r.purse + 1 /\ q.vault = r.vault
      BY <2>1, <2>2, PurseRow
    <2>4. Good(0, 1)
      BY <1>1, <1>2, <2>1, <2>3
    <2> QED
      BY <2>3, <2>4 DEF SameFight
  <1>7. CASE a \in {"spend", "room", "key"}
    <2> DEFINE p == r.purse - 1
    <2>1. /\ \/ q = [r EXCEPT !.purse = p] \/ q = [r EXCEPT !.purse = p, !.room = TRUE]
             \/ q = [r EXCEPT !.purse = p, !.key = TRUE]
          /\ CoinAfter(r, a) = coin - 1
      BY <1>7 DEF AfterBusiness, CoinAfter
    <2>2. p \in Nat
      BY <1>2, <1>7
    <2> HIDE DEF p
    <2>3. q \in Row /\ SameFight(q, r) /\ q.purse = p /\ q.vault = r.vault
      <3>1. CASE q = [r EXCEPT !.purse = p]
        BY <2>2, <3>1, PurseRow
      <3>2. CASE q = [r EXCEPT !.purse = p, !.room = TRUE] \/ q = [r EXCEPT !.purse = p, !.key = TRUE]
        <4>1. PICK y \in BOOLEAN : q = [r EXCEPT !.purse = p, !.room = y] \/ q = [r EXCEPT !.purse = p, !.key = y]
          BY <3>2
        <4> QED
          BY <2>2, <4>1 DEF Row, SameFight
      <3> QED
        BY <2>1, <3>1, <3>2
    <2>4. Good(1, 0)
      BY <1>1, <1>2, <2>1, <2>3 DEF p
    <2> QED
      BY <2>3, <2>4 DEF SameFight
  <1>8. CASE a = "die"
    <2>1. q = Dead(r) /\ CoinAfter(r, a) = coin - r.purse
      BY <1>8 DEF AfterBusiness, CoinAfter
    <2>2. q \in Row /\ q.fight = None /\ q.purse = 0 /\ q.vault = r.vault /\ q.day = r.day
      BY <2>1, DeadRow
    <2>3. Good(r.purse, 0)
      BY <1>1, <1>2, <2>1, <2>2
    <2> QED
      BY <1>2, <2>2, <2>3
  <1>9. CASE a = "deposit" \/ a = "withdraw"
    <2>1. /\ \/ q = [r EXCEPT !.vault = r.vault + r.purse, !.purse = 0]
             \/ q = [r EXCEPT !.vault = 0, !.purse = r.purse + r.vault]
          /\ CoinAfter(r, a) = coin
      <3>1. CASE a = "deposit"
        BY <3>1 DEF AfterBusiness, CoinAfter
      <3>2. CASE a = "withdraw"
        <4>1. q = [r EXCEPT !.purse = r.purse + r.vault, !.vault = 0] /\ CoinAfter(r, a) = coin
          BY <3>2 DEF AfterBusiness, CoinAfter
        <4>2. [r EXCEPT !.purse = r.purse + r.vault, !.vault = 0] = [r EXCEPT !.vault = 0, !.purse = r.purse + r.vault]
          BY DEF Row
        <4> QED
          BY <4>1, <4>2
      <3> QED
        BY <1>9, <3>1, <3>2
    <2>2. r.vault + r.purse \in Nat /\ r.purse + r.vault \in Nat
      BY <1>2
    <2>3. q \in Row /\ SameFight(q, r) /\ q.purse + q.vault = r.purse + r.vault
      <3>1. CASE q = [r EXCEPT !.vault = r.vault + r.purse, !.purse = 0]
        <4>1. q \in Row /\ SameFight(q, r) /\ q.purse = 0 /\ q.vault = r.vault + r.purse
          <5>1. PICK z \in Nat, v \in Nat : z = 0 /\ v = r.vault + r.purse
            BY <2>2
          <5>2. q = [r EXCEPT !.vault = v, !.purse = z]
            BY <3>1, <5>1
          <5>3. q \in Row /\ SameFight(q, r) /\ q.purse = z /\ q.vault = v
            BY <5>2 DEF Row, SameFight
          <5> QED
            BY <5>1, <5>3
        <4> QED
          BY <1>2, <4>1
      <3>2. CASE q = [r EXCEPT !.vault = 0, !.purse = r.purse + r.vault]
        <4>1. q \in Row /\ SameFight(q, r) /\ q.purse = r.purse + r.vault /\ q.vault = 0
          <5>1. PICK z \in Nat, p \in Nat : z = 0 /\ p = r.purse + r.vault
            BY <2>2
          <5>2. q = [r EXCEPT !.vault = z, !.purse = p]
            BY <3>2, <5>1
          <5>3. q \in Row /\ SameFight(q, r) /\ q.purse = p /\ q.vault = z
            BY <5>2 DEF Row, SameFight
          <5> QED
            BY <5>1, <5>3
        <4> QED
          BY <1>2, <4>1
      <3> QED
        BY <2>1, <3>1, <3>2
    <2>4. Good(0, 0)
      BY <1>1, <1>2, <2>1, <2>3
    <2> QED
      BY <2>3, <2>4 DEF SameFight
  <1> QED
    BY <1>3, <1>4, <1>5, <1>6, <1>7, <1>8, <1>9 DEF Act

\* A row written alone: what it gains or loses coin does.
LEMMA RowAloneNext ==
    ASSUME Inv, NEW c \in Climber, NEW r \in Row \cup {None}, Write(c, r),
           UNCHANGED <<today, robberies, tasks, attempted, interrupted>>, acts' \in 0..MaxActs,
           FightOK(c, r, attempted), r # None => r.day <= today, NEW x \in Nat, NEW y \in Nat,
           coin' = (coin + y) - x, Worth(r) + x = Worth(row[c]) + y
    PROVE  Inv'
  <1>1. row \in [Climber -> Row \cup {None}] /\ tasks \in SUBSET Task /\ TaskInv'
    BY Types DEF Inv, TaskInv
  <1>2. /\ row' \in [Climber -> Row \cup {None}] /\ pending' \in [Climber -> Pending]
        /\ PendingInv' /\ FightEndsWithTheDay' /\ DayInv'
        /\ Purses(row') + Worth(row[c]) = Purses(row) + Worth(r)
    BY Written
  <1>3. CoinIsOnlyMoved' /\ coin' \in Nat
    <2>1. Worth(r) \in Nat /\ Worth(row[c]) \in Nat
      BY <1>1, WorthIsNatural
    <2>2. Purses(row) \in Nat /\ Purses(row') \in Nat /\ Way(tasks) \in Nat
      BY <1>1, <1>2, PursesAreNatural, WayIsNatural DEF Inv, TaskInv
    <2>3. (Purses(row') + Way(tasks)) + x = (Purses(row) + Way(tasks)) + y
      BY <1>2, <2>1, <2>2
    <2>4. tasks' = tasks
      OBVIOUS
    <2>5. (Purses(row') + Way(tasks')) + x = (Purses(row) + Way(tasks)) + y
      BY <2>3, <2>4
    <2> QED
      BY <1>1, <1>2, <2>4, <2>5, CoinMoves
  <1>4. AttemptInv'
    BY DEF Inv, AttemptInv, Noted
  <1>5. RobInv'
    <2>1. \A e \in Climber : pending'[e] # Nothing => pending'[e] = pending[e]
      BY Types DEF Write, Inv
    <2> QED
      BY <2>1, StillAboutToRob
  <1>6. TypeOK'
    BY <1>2, <1>3 DEF Inv, TypeOK, Pending
  <1> QED
    BY <1>1, <1>2, <1>3, <1>4, <1>5, <1>6 DEF Inv

LEMMA DoBusinessNext == ASSUME Inv, NEW c \in Climber, DoBusiness(c) PROVE Inv'
  <1> DEFINE a == pending[c].act
             d == pending[c].day
             r == row[c]
             q == AfterBusiness(r, a, d)
  <1>1. /\ a \notin {"none", "rob", "blow"} /\ Write(c, q) /\ coin' = CoinAfter(r, a)
        /\ UNCHANGED <<today, robberies, tasks, attempted, interrupted, acts>>
    BY DEF DoBusiness
  <1>2. /\ row \in [Climber -> Row \cup {None}] /\ pending \in [Climber -> Pending]
        /\ tasks \in SUBSET Task
    BY Types DEF Inv
  <1>3. pending[c] # Nothing /\ a \in Act /\ d \in 0..MaxDay /\ d <= today
    BY <1>1, <1>2, NothingIsPending DEF Pending, Inv, DayInv
  <1>4. r # None /\ r \in Row /\ Ready(r, pending[c]) /\ r.day <= today
    BY <1>2, <1>3 DEF Inv, PendingInv, DayInv
  <1>5. a \in {"spend", "room", "key"} => r.purse > 0
    BY <1>4 DEF Ready
  <1>6. FightOK(c, r, attempted)
    BY DEF Inv, FightEndsWithTheDay, Here, FightOK
  <1> HIDE DEF a, d, r, q
  <1>7. /\ q \in Row /\ (q.fight = None \/ SameFight(q, r)) /\ q.day \in {r.day, d}
        /\ \E x, y \in Nat : /\ CoinAfter(r, a) = (coin + y) - x
                            /\ (q.purse + q.vault) + x = (r.purse + r.vault) + y
    <2>1. TypeOK
      BY DEF Inv
    <2>2. a \in Act \ {"none", "rob", "blow"}
      BY <1>1, <1>3
    <2>3. q = AfterBusiness(r, a, d)
      BY DEF q
    <2> QED
      BY <1>3, <1>4, <1>5, <2>1, <2>2, <2>3, BusinessRow
  <1>8. FightOK(c, q, attempted')
    BY <1>1, <1>4, <1>6, <1>7 DEF FightOK, SameFight
  <1>9. PICK x, y \in Nat : /\ coin' = (coin + y) - x
                           /\ (q.purse + q.vault) + x = (r.purse + r.vault) + y
    BY <1>1, <1>7
  <1>10. Worth(q) + x = Worth(row[c]) + y
    <2>1. Worth(r) = r.purse + r.vault /\ Worth(q) = q.purse + q.vault
      BY <1>4, <1>7, NoneAssumption DEF Worth
    <2>2. Worth(row[c]) = Worth(r)
      BY DEF r
    <2> QED
      BY <1>9, <2>1, <2>2
  <1>11. q \in Row \cup {None} /\ q.day <= today /\ acts' \in 0..MaxActs
    BY <1>1, <1>3, <1>4, <1>7 DEF Inv, TypeOK
  <1>12. FightOK(c, q, attempted)
    BY <1>1, <1>8
  <1> QED
    BY <1>1, <1>9, <1>10, <1>11, <1>12, RowAloneNext

\* climb_admin_reset
LEMMA ResetNext == ASSUME Inv, NEW c \in Climber, Reset(c) PROVE Inv'
  <1>1. /\ row[c] # None /\ Write(c, None) /\ coin' = coin - row[c].purse - row[c].vault
        /\ acts < MaxActs /\ acts' = acts + 1
        /\ UNCHANGED <<today, robberies, tasks, attempted, interrupted>>
    BY DEF Reset, Here
  <1>2. row[c] \in Row /\ coin \in Nat /\ acts \in Nat
    BY <1>1, Types DEF Inv
  <1>3. row[c].purse \in Nat /\ row[c].vault \in Nat
    BY <1>2 DEF Row
  <1>4. Worth(None) + (row[c].purse + row[c].vault) = Worth(row[c]) + 0
    BY <1>1, <1>3 DEF Worth
  <1>5. coin' = (coin + 0) - (row[c].purse + row[c].vault) /\ row[c].purse + row[c].vault \in Nat
    BY <1>1, <1>2, <1>3
  <1>6. acts' \in 0..MaxActs
    BY <1>1, <1>2, CampAssumption
  <1>7. FightOK(c, None, attempted) /\ None \in Row \cup {None}
    BY DEF FightOK
  <1> QED
    BY <1>1, <1>4, <1>5, <1>6, <1>7, RowAloneNext

\* begin and create
LEMMA BeginNext == ASSUME Inv, NEW c \in Climber, Begin(c) PROVE Inv'
  <1> DEFINE r == NewRow(today)
  <1>1. /\ row[c] = None /\ Write(c, r) /\ coin' = coin + Start
        /\ UNCHANGED <<today, robberies, tasks, attempted, interrupted, acts>>
    BY DEF Begin, Here
  <1>2. r \in Row /\ r.fight = None /\ r.day <= today
    BY Types, CampAssumption DEF Inv, NewRow, Row
  <1>3. Worth(r) + 0 = Worth(row[c]) + Start
    <2>1. r.purse = Start /\ r.vault = 0
      BY DEF NewRow
    <2>2. Worth(row[c]) = 0 /\ Worth(r) = Start + 0
      BY <1>1, <1>2, <2>1, NoneAssumption DEF Worth
    <2> QED
      BY <2>2, CampAssumption
  <1> HIDE DEF r
  <1>4. coin' = (coin + Start) - 0 /\ Start \in Nat /\ acts' \in 0..MaxActs
    BY <1>1, Types, CampAssumption DEF Inv, TypeOK
  <1>5. FightOK(c, r, attempted) /\ r \in Row \cup {None}
    BY <1>2 DEF FightOK
  <1> QED
    BY <1>1, <1>2, <1>3, <1>4, <1>5, RowAloneNext

-----------------------------------------------------------------------------
(* A robbery, and the blows it comes to *)

\* The robber after a blow, and the purse on its way.
Blown(q, r, v, n) ==
    /\ q \in Row /\ q.day = r.day /\ n \in Nat
    /\ q.fight = None \/ (q.fight = v /\ q.alive = r.alive)
    /\ (q.purse + q.vault) + n = r.purse + r.vault

LEMMA BlowsRow ==
    ASSUME NEW r \in Row, NEW v \in Climber, NEW o \in Outcome
    PROVE  /\ Blown(AfterBlows(r, v, o), r, v, Dropped(r, o))
           /\ Settlement(o) \in {"debit", "reward", "done"}
           /\ Dropped(r, o) \in Nat
           /\ Settlement(o) # "reward" => Dropped(r, o) = 0
           /\ Settlement(o) = "debit" => o = "won"
  <1> DEFINE q == AfterBlows(r, v, o)
             n == Dropped(r, o)
  <1>0. r.purse \in Nat /\ r.vault \in Nat
    BY DEF Row
  <1> SUFFICES /\ Blown(q, r, v, n) /\ n \in Nat
               /\ Settlement(o) \in {"debit", "reward", "done"}
               /\ Settlement(o) # "reward" => n = 0
               /\ Settlement(o) = "debit" => o = "won"
    OBVIOUS
  <1>1. CASE o = "lost"
    <2>1. q = Dead(r) /\ n = r.purse /\ Settlement(o) = "reward"
      BY <1>1 DEF AfterBlows, Dropped, Settlement
    <2> HIDE DEF q, n
    <2>2. q \in Row /\ q.fight = None /\ q.purse = 0 /\ q.vault = r.vault /\ q.day = r.day
      BY <2>1, DeadRow
    <2> QED
      BY <1>0, <1>1, <2>1, <2>2 DEF Blown
  <1>2. CASE o # "lost"
    <2> DEFINE f == IF o = "ongoing" THEN v ELSE None
    <2>1. q = [r EXCEPT !.fight = f] /\ n = 0
      BY <1>2 DEF AfterBlows, Dropped
    <2>2. Settlement(o) \in {"debit", "done"} /\ (Settlement(o) = "debit" => o = "won")
      BY <1>2 DEF Settlement
    <2>3. f \in Climber \cup {None}
      OBVIOUS
    <2> HIDE DEF f, q, n
    <2>4. /\ q \in Row /\ q.fight = f /\ q.alive = r.alive /\ q.day = r.day
          /\ q.purse = r.purse /\ q.vault = r.vault
      BY <2>1, <2>3, FightRow
    <2>5. f = v \/ f = None
      BY DEF f
    <2> QED
      BY <1>0, <2>1, <2>2, <2>4, <2>5 DEF Blown
  <1> QED
    BY <1>1, <1>2

\* The robber's save: what it no longer holds its handler carries.
LEMMA RobberSaves ==
    ASSUME Inv, NEW c \in Climber, pending[c] # Nothing, NEW r \in Row, NEW o \in Outcome, NEW t,
           SameFight(r, row[c]), r.purse = row[c].purse, r.vault = row[c].vault, r.alive,
           pending[c].victim \in Climber, row[c].day = pending[c].day,
           Write(c, AfterBlows(r, pending[c].victim, o)), Tell(t), Telling(t), t.by = c, t.coin = Dropped(r, o),
           attempted \subseteq attempted', <<pending[c].day, c, pending[c].victim>> \in attempted',
           UNCHANGED <<today, coin, interrupted>>
    PROVE  /\ row' \in [Climber -> Row \cup {None}] /\ pending' \in [Climber -> Pending]
           /\ tasks' \in SUBSET Task /\ PendingInv' /\ DayInv' /\ FightEndsWithTheDay' /\ TaskInv'
           /\ CoinIsOnlyMoved' /\ coin' \in Nat
           /\ tasks \subseteq tasks' /\ (t.at # "done" => t \in tasks')
           /\ \A e \in Climber : pending'[e] # Nothing => pending'[e] = pending[e]
           /\ pending'[c] = Nothing
  <1> DEFINE v == pending[c].victim
             q == AfterBlows(r, v, o)
             n == Dropped(r, o)
  <1>1. /\ row \in [Climber -> Row \cup {None}] /\ pending \in [Climber -> Pending]
        /\ tasks \in SUBSET Task /\ today \in Nat
    BY Types DEF Inv
  <1>2. row[c] # None /\ row[c] \in Row /\ row[c].day <= today /\ \A u \in tasks : u.by # c
    BY <1>1 DEF Inv, PendingInv, DayInv
  <1>3. Write(c, q) /\ t.coin = n /\ v \in Climber
    OBVIOUS
  <1> HIDE DEF q, n, v
  <1>4. /\ q \in Row /\ q.day = r.day /\ n \in Nat
        /\ q.fight = None \/ (q.fight = v /\ q.alive = r.alive)
        /\ (q.purse + q.vault) + n = r.purse + r.vault
    <2>1. q = AfterBlows(r, v, o) /\ n = Dropped(r, o)
      BY DEF q, n
    <2>2. Blown(AfterBlows(r, v, o), r, v, Dropped(r, o))
      BY <1>3, BlowsRow
    <2> QED
      BY <2>1, <2>2 DEF Blown
  <1>5. /\ tasks' \in SUBSET Task /\ TaskInv' /\ tasks \subseteq tasks'
        /\ \A u \in tasks' : u.by = t.by \/ u \in tasks
        /\ t.at # "done" => t \in tasks'
        /\ Way(tasks') = Way(tasks) + n
    BY <1>2, <1>3, Told
  <1>6. FightOK(c, q, attempted')
    BY <1>4 DEF FightOK, SameFight, v
  <1>7. /\ row' \in [Climber -> Row \cup {None}] /\ pending' \in [Climber -> Pending]
        /\ PendingInv' /\ FightEndsWithTheDay' /\ DayInv'
        /\ Purses(row') + Worth(row[c]) = Purses(row) + Worth(q)
    <2>1. q \in Row \cup {None} /\ q.day <= today
      BY <1>2, <1>4 DEF SameFight
    <2>2. \A u \in tasks' : u.by = c \/ \E w \in tasks : w.by = u.by
      BY <1>5
    <2> QED
      BY <1>3, <1>6, <2>1, <2>2, Written
  <1>8. CoinIsOnlyMoved' /\ coin' \in Nat
    <2>1. Worth(row[c]) = r.purse + r.vault /\ Worth(q) = q.purse + q.vault /\ Worth(q) \in Nat
      BY <1>2, <1>4, NoneAssumption, WorthIsNatural DEF Worth
    <2>2. Purses(row) \in Nat /\ Purses(row') \in Nat /\ Way(tasks) \in Nat
      BY <1>1, <1>7, PursesAreNatural, WayIsNatural DEF Inv, TaskInv
    <2>3. (Purses(row') + Way(tasks')) + 0 = (Purses(row) + Way(tasks)) + 0
      BY <1>4, <1>5, <1>7, <2>1, <2>2
    <2>4. coin' = (coin + 0) - 0
      BY Types DEF Inv
    <2> QED
      BY <1>5, <1>7, <2>3, <2>4, CoinMoves
  <1>9. pending'[c] = Nothing /\ \A e \in Climber : pending'[e] # Nothing => pending'[e] = pending[e]
    BY <1>1, <1>3 DEF Write
  <1> QED
    BY <1>5, <1>7, <1>8, <1>9

LEMMA RobNext == ASSUME Inv, NEW c \in Climber, Rob(c) PROVE Inv'
  <1> DEFINE v == pending[c].victim
             d == pending[c].day
             r == [row[c] EXCEPT !.duels = @ - 1, !.key = @ /\ ~pending[c].inRoom]
  <1>1. /\ pending[c].act = "rob" /\ attempted' = attempted \cup {<<d, c, v>>}
        /\ UNCHANGED <<today, robberies, coin, interrupted, acts>>
    BY DEF Rob
  <1>2. PICK o \in Outcome \ {"won"} :
           /\ Write(c, AfterBlows(r, v, o))
           /\ Tell([by |-> c, to |-> v, day |-> d, at |-> "note",
                    next |-> Settlement(o), coin |-> Dropped(r, o)])
    BY DEF Rob
  <1> DEFINE t == [by |-> c, to |-> v, day |-> d, at |-> "note", next |-> Settlement(o), coin |-> Dropped(r, o)]
  <1>3. /\ row \in [Climber -> Row \cup {None}] /\ pending \in [Climber -> Pending] /\ today \in Nat
        /\ attempted \subseteq (0..MaxDay) \X Climber \X Climber
    BY Types DEF Inv, TypeOK
  <1>4. pending[c] # Nothing /\ d \in 0..MaxDay /\ d <= today
    BY <1>1, <1>3, NothingIsPending DEF Pending, Inv, DayInv
  <1>5. row[c] # None /\ row[c] \in Row /\ Ready(row[c], pending[c])
    BY <1>3, <1>4 DEF Inv, PendingInv
  <1>6. v \in Climber /\ row[c].alive /\ row[c].day = d /\ row[c].duels >= 1
    BY <1>1, <1>5 DEF Ready
  <1>7. r \in Row /\ SameFight(r, row[c]) /\ r.purse = row[c].purse /\ r.vault = row[c].vault /\ r.alive
    <2>1. row[c].duels - 1 \in 0..DuelsPerDay
      <3>1. row[c].duels \in 0..DuelsPerDay /\ DuelsPerDay \in Nat
        BY <1>5, CampAssumption DEF Row
      <3> QED
        BY <1>6, <3>1
    <2>2. PICK k \in BOOLEAN : k = (row[c].key /\ ~pending[c].inRoom)
      OBVIOUS
    <2>3. PICK n \in 0..DuelsPerDay : n = row[c].duels - 1
      BY <2>1
    <2>4. r = [row[c] EXCEPT !.duels = n, !.key = k]
      BY <2>2, <2>3
    <2> HIDE DEF r
    <2> QED
      BY <1>5, <1>6, <2>4 DEF Row, SameFight
  <1>8. /\ Write(c, AfterBlows(r, v, o)) /\ Tell(t) /\ t.by = c /\ t.to = v /\ t.day = d /\ t.at = "note"
        /\ t.next = Settlement(o) /\ t.coin = Dropped(r, o)
        /\ t = [by |-> c, to |-> v, day |-> d, at |-> "note", next |-> Settlement(o), coin |-> Dropped(r, o)]
    BY <1>2
  <1> HIDE DEF r, t
  <1>9. /\ Dropped(r, o) \in Nat /\ Settlement(o) \in {"debit", "reward", "done"}
        /\ Settlement(o) # "reward" => Dropped(r, o) = 0
        /\ Settlement(o) = "debit" => o = "won"
    <2>1. o \in Outcome
      OBVIOUS
    <2> QED
      BY <1>6, <1>7, <2>1, BlowsRow
  <1>10. t \in Task
    BY <1>4, <1>6, <1>8, <1>9 DEF Task
  <1>11. Telling(t)
    BY <1>2, <1>4, <1>8, <1>9, <1>10 DEF Telling
  <1>12. /\ row' \in [Climber -> Row \cup {None}] /\ pending' \in [Climber -> Pending]
         /\ tasks' \in SUBSET Task /\ PendingInv' /\ DayInv' /\ FightEndsWithTheDay' /\ TaskInv'
         /\ CoinIsOnlyMoved' /\ coin' \in Nat
         /\ tasks \subseteq tasks' /\ (t.at # "done" => t \in tasks')
         /\ \A e \in Climber : pending'[e] # Nothing => pending'[e] = pending[e]
         /\ pending'[c] = Nothing
    <2>1. <<pending[c].day, c, pending[c].victim>> \in attempted' /\ attempted \subseteq attempted'
      BY <1>1
    <2>2. o \in Outcome /\ row[c].day = pending[c].day /\ pending[c].victim \in Climber
      BY <1>6
    <2>3. Write(c, AfterBlows(r, pending[c].victim, o))
      BY <1>8
    <2> QED
      BY <1>1, <1>4, <1>7, <1>8, <1>11, <2>1, <2>2, <2>3, RobberSaves
  <1>13. AttemptInv'
    <2>1. t \in tasks' /\ t.at = "note" /\ <<d, c, v>> = <<t.day, t.by, t.to>>
      BY <1>8, <1>12
    <2>2. ASSUME NEW a \in attempted' PROVE a \in attempted \/ Noted(a)'
      <3>1. a \in attempted \/ a = <<d, c, v>>
        BY <1>1
      <3>2. a = <<d, c, v>> => \E u \in tasks' : u.at = "note" /\ a = <<u.day, u.by, u.to>>
        BY <2>1
      <3> QED
        BY <3>1, <3>2 DEF Noted
    <2> QED
      BY <1>1, <1>3, <1>12, <2>2, NotedStays
  <1>14. RobInv'
    <2>1. \A e \in Climber \ {c} : \A day, u : <<day, e, u>> \in attempted' => <<day, e, u>> \in attempted
      BY <1>1
    <2> QED
      BY <1>1, <1>12, <2>1, StillAboutToRob
  <1>15. attempted' \subseteq (0..MaxDay) \X Climber \X Climber
    BY <1>1, <1>3, <1>4, <1>6
  <1>16. TypeOK'
    BY <1>1, <1>12, <1>15 DEF Inv, TypeOK, Pending, Task
  <1> QED
    BY <1>12, <1>13, <1>14, <1>16 DEF Inv

LEMMA BlowNext == ASSUME Inv, NEW c \in Climber, Blow(c) PROVE Inv'
  <1> DEFINE v == pending[c].victim
             r == row[c]
  <1>1. pending[c].act = "blow" /\ UNCHANGED <<today, robberies, attempted, coin, interrupted, acts>>
    BY DEF Blow
  <1>2. PICK o \in Outcome :
           /\ Write(c, AfterBlows(r, v, o))
           /\ Tell([by |-> c, to |-> v, day |-> pending[c].day, at |-> Settlement(o),
                    next |-> "done", coin |-> Dropped(r, o)])
    BY DEF Blow
  <1> DEFINE t == [by |-> c, to |-> v, day |-> pending[c].day, at |-> Settlement(o),
                   next |-> "done", coin |-> Dropped(r, o)]
  <1>3. /\ row \in [Climber -> Row \cup {None}] /\ pending \in [Climber -> Pending] /\ today \in Nat
    BY Types DEF Inv
  <1>4. pending[c] # Nothing /\ pending[c].day \in 0..MaxDay /\ pending[c].day <= today
    BY <1>1, <1>3, NothingIsPending DEF Pending, Inv, DayInv
  <1>5. r # None /\ r \in Row /\ Ready(r, pending[c])
    BY <1>3, <1>4 DEF Inv, PendingInv
  <1>6. v \in Climber /\ r.alive /\ r.day = pending[c].day /\ r.fight = v /\ SameFight(r, row[c])
    BY <1>1, <1>5 DEF Ready, SameFight
  <1>7. <<pending[c].day, c, v>> \in attempted
    <2>1. FightOK(c, r, attempted)
      BY DEF Inv, FightEndsWithTheDay, Here, FightOK
    <2>2. r.fight # None
      BY <1>6, CampAssumption
    <2> QED
      BY <1>5, <1>6, <2>1, <2>2 DEF FightOK
  <1>8. /\ Write(c, AfterBlows(r, v, o)) /\ Tell(t) /\ t.by = c /\ t.to = v /\ t.day = pending[c].day
        /\ t.at = Settlement(o) /\ t.next = "done" /\ t.coin = Dropped(r, o)
        /\ t = [by |-> c, to |-> v, day |-> pending[c].day, at |-> Settlement(o),
                next |-> "done", coin |-> Dropped(r, o)]
        /\ r.purse = row[c].purse /\ r.vault = row[c].vault
    BY <1>2
  <1> HIDE DEF r, t
  <1>9. /\ Dropped(r, o) \in Nat /\ Settlement(o) \in {"debit", "reward", "done"}
        /\ Settlement(o) # "reward" => Dropped(r, o) = 0
    BY <1>5, <1>6, BlowsRow
  <1>10. t.at # "done" => t \in Task
    BY <1>4, <1>6, <1>8, <1>9 DEF Task
  <1>11. Telling(t)
    BY <1>4, <1>8, <1>9, <1>10 DEF Telling
  <1>12. /\ row' \in [Climber -> Row \cup {None}] /\ pending' \in [Climber -> Pending]
         /\ tasks' \in SUBSET Task /\ PendingInv' /\ DayInv' /\ FightEndsWithTheDay' /\ TaskInv'
         /\ CoinIsOnlyMoved' /\ coin' \in Nat /\ tasks \subseteq tasks'
         /\ \A e \in Climber : pending'[e] # Nothing => pending'[e] = pending[e]
         /\ pending'[c] = Nothing
    <2>1. <<pending[c].day, c, pending[c].victim>> \in attempted' /\ attempted \subseteq attempted'
      BY <1>1, <1>7
    <2>2. row[c].day = pending[c].day /\ pending[c].victim \in Climber
      BY <1>6 DEF r
    <2>3. Write(c, AfterBlows(r, pending[c].victim, o))
      BY <1>8
    <2> QED
      BY <1>1, <1>4, <1>5, <1>6, <1>8, <1>11, <2>1, <2>2, <2>3, RobberSaves
  <1>13. AttemptInv'
    BY <1>1, <1>3, <1>12, NotedStays
  <1>14. RobInv'
    BY <1>1, <1>12, StillAboutToRob
  <1>16. TypeOK'
    BY <1>1, <1>12 DEF Inv, TypeOK, Pending, Task
  <1> QED
    BY <1>12, <1>13, <1>14, <1>16 DEF Inv

-----------------------------------------------------------------------------
(* Weddings, and the day that ends *)

LEMMA MarryNext == ASSUME Inv, NEW c \in Climber, NEW d \in Climber, Marry(c, d) PROVE Inv'
  <1> DEFINE x == [row[c] EXCEPT !.spouse = d]
             y == [row[d] EXCEPT !.spouse = c]
             R == [row EXCEPT ![c] = x]
  <1>1. /\ c # d /\ pending[c] = Nothing /\ row[c] # None /\ row[d] # None /\ acts < MaxActs
        /\ row' = [row EXCEPT ![c].spouse = d, ![d].spouse = c]
        /\ pending' = [pending EXCEPT ![d] = Nothing] /\ acts' = acts + 1
        /\ UNCHANGED <<today, robberies, tasks, attempted, coin, interrupted>>
    BY DEF Marry, Idle, Here
  <1>2. /\ row \in [Climber -> Row \cup {None}] /\ pending \in [Climber -> Pending]
        /\ row[c] \in Row /\ row[d] \in Row /\ tasks \in SUBSET Task /\ coin \in Nat /\ acts \in Nat
    BY <1>1, Types DEF Inv
  <1>3. /\ x \in Row /\ SameFight(x, row[c]) /\ x.purse = row[c].purse /\ x.vault = row[c].vault
        /\ y \in Row /\ SameFight(y, row[d]) /\ y.purse = row[d].purse /\ y.vault = row[d].vault
    BY <1>2, SpouseRow
  <1>4. row' = [R EXCEPT ![d] = y] /\ R[d] = row[d]
    BY <1>1, <1>2
  <1> HIDE DEF x, y
  <1>5. R \in [Climber -> Row \cup {None}] /\ row' \in [Climber -> Row \cup {None}]
    BY <1>2, <1>3, <1>4
  <1>6. row'[c] = x /\ row'[d] = y /\ \A e \in Climber \ {c, d} : row'[e] = row[e]
    BY <1>1, <1>2, <1>4
  <1>7. /\ pending' \in [Climber -> Pending] /\ pending'[c] = Nothing /\ pending'[d] = Nothing
        /\ \A e \in Climber \ {c, d} : pending'[e] = pending[e]
    BY <1>1, <1>2, NothingIsPending
  <1>8. PendingInv'
    <2> SUFFICES ASSUME NEW e \in Climber, pending'[e] # Nothing
                 PROVE  /\ row'[e] # None /\ Ready(row'[e], pending'[e])
                        /\ \A t \in tasks' : t.by # e
      BY DEF PendingInv
    <2>1. e \in Climber \ {c, d}
      BY <1>7
    <2> QED
      BY <1>1, <1>6, <1>7, <2>1 DEF Inv, PendingInv
  <1>9. FightEndsWithTheDay'
    <2> SUFFICES ASSUME NEW e \in Climber PROVE FightOK(e, row'[e], attempted')
      BY DEF FightEndsWithTheDay, Here, FightOK
    <2>1. FightOK(e, row[e], attempted)
      BY DEF Inv, FightEndsWithTheDay, Here, FightOK
    <2>2. attempted' = attempted /\ row[c] # None /\ row[d] # None
      BY <1>1
    <2> HIDE DEF R
    <2>3. CASE e = c
      BY <1>3, <1>6, <2>1, <2>2, <2>3 DEF FightOK, SameFight
    <2>4. CASE e = d
      BY <1>3, <1>6, <2>1, <2>2, <2>4 DEF FightOK, SameFight
    <2>5. CASE e \in Climber \ {c, d}
      BY <1>6, <2>1, <2>2, <2>5
    <2> QED
      BY <2>3, <2>4, <2>5
  <1>10. DayInv'
    <2>1. Nothing.day = 0 /\ 0 <= today
      BY Types DEF Inv, Nothing
    <2> SUFFICES ASSUME NEW e \in Climber
                 PROVE  pending'[e].day <= today /\ (row'[e] # None => row'[e].day <= today)
      BY <1>1 DEF DayInv
    <2>2. row[c] # None /\ row[d] # None /\ pending[e].day <= today
      BY <1>1 DEF Inv, DayInv
    <2>3. row[c].day <= today /\ row[d].day <= today /\ (row[e] # None => row[e].day <= today)
      BY <1>1 DEF Inv, DayInv
    <2> HIDE DEF R
    <2>4. pending'[e] \in {pending[e], Nothing}
      BY <1>7
    <2>5. row'[e] # None => row'[e].day <= today
      BY <1>3, <1>6, <2>3 DEF SameFight
    <2> QED
      BY <2>1, <2>2, <2>4, <2>5
  <1>11. CoinIsOnlyMoved' /\ coin' \in Nat /\ TaskInv' /\ tasks' \in SUBSET Task
    <2>1. TaskInv' /\ tasks' \in SUBSET Task
      BY <1>1, <1>2 DEF Inv, TaskInv
    <2>2. Worth(x) = Worth(row[c]) /\ Worth(y) = Worth(row[d])
      BY <1>1, <1>2, <1>3, NoneAssumption DEF Worth
    <2>3. Purses(R) + Worth(row[c]) = Purses(row) + Worth(x)
      BY <1>2, <1>3, PurseWritten
    <2>4. Purses(row') + Worth(row[d]) = Purses(R) + Worth(y)
      <3>1. Purses([R EXCEPT ![d] = y]) + Worth(R[d]) = Purses(R) + Worth(y)
        BY <1>3, <1>5, PurseWritten
      <3> QED
        BY <1>4, <3>1
    <2>5. /\ Purses(row) \in Nat /\ Purses(row') \in Nat /\ Purses(R) \in Nat
          /\ Worth(row[c]) \in Nat /\ Worth(row[d]) \in Nat
      BY <1>2, <1>5, PursesAreNatural, WorthIsNatural
    <2>6. Purses(row') = Purses(row)
      <3> HIDE DEF R
      <3> QED
        BY <2>2, <2>3, <2>4, <2>5
    <2>7. (Purses(row') + Way(tasks')) + 0 = (Purses(row) + Way(tasks)) + 0 /\ coin' = (coin + 0) - 0
      BY <1>1, <1>2, <2>6
    <2> QED
      BY <1>1, <1>5, <2>1, <2>7, CoinMoves
  <1>12. AttemptInv'
    BY <1>1 DEF Inv, AttemptInv, Noted
  <1>13. RobInv'
    <2>1. \A e \in Climber : pending'[e] # Nothing => pending'[e] = pending[e]
      BY <1>7
    <2> QED
      BY <1>1, <2>1, StillAboutToRob
  <1>14. acts' \in 0..MaxActs
    BY <1>1, <1>2, CampAssumption
  <1>15. TypeOK'
    BY <1>1, <1>5, <1>7, <1>11, <1>14 DEF Inv, TypeOK, Pending
  <1> QED
    BY <1>8, <1>9, <1>10, <1>11, <1>12, <1>13, <1>15 DEF Inv

LEMMA NewDayNext == ASSUME Inv, NewDay PROVE Inv'
  <1>1. /\ today < MaxDay /\ today' = today + 1
        /\ UNCHANGED <<row, robberies, pending, tasks, attempted, coin, interrupted, acts>>
    BY DEF NewDay
  <1>2. today \in Nat /\ MaxDay \in Nat /\ today' \in 0..MaxDay
    BY <1>1, Types, CampAssumption DEF Inv
  <1>3. TypeOK'
    BY <1>1, <1>2 DEF Inv, TypeOK
  <1>4. DayInv'
    <2> SUFFICES ASSUME NEW c \in Climber
                 PROVE  pending[c].day <= today + 1 /\ (row[c] # None => row[c].day <= today + 1)
      BY <1>1 DEF DayInv
    <2>1. pending[c].day \in Nat /\ (row[c] # None => row[c].day \in Nat)
      BY Types DEF Inv, Pending, Row
    <2> QED
      BY <1>2, <2>1 DEF Inv, DayInv
  <1>5. TaskInv'
    <2>1. \A t \in tasks : t.day \in Nat /\ t.day <= today
      BY Types DEF Inv, TaskInv, Task
    <2>2. \A t \in tasks : t.day <= today + 1
      BY <1>2, <2>1
    <2> QED
      BY <1>1, <2>2 DEF Inv, TaskInv
  <1>6. AttemptInv'
    <2>1. today' >= today
      BY <1>1, <1>2
    <2> QED
      BY <1>1, <1>2, <2>1, NotedStays
  <1> QED
    BY <1>1, <1>3, <1>4, <1>5, <1>6
    DEF Inv, FightEndsWithTheDay, Here, CoinIsOnlyMoved, Held, OnItsWay, PendingInv, RobInv

-----------------------------------------------------------------------------
(* _tell_the_town *)

\* A handler's step that writes a row: what the row gains the handler lets go.
LEMMA PaysNext ==
    ASSUME Inv, NEW t \in tasks, NEW c \in Climber, row[c] # None, NEW p \in Nat,
           Write(c, [row[c] EXCEPT !.purse = p]),
           t.at # "note", NEW at \in {"credit", "done"}, NEW n \in Nat, Goes(t, at, n), at = "done" => n = 0,
           p + n = row[c].purse + t.coin,
           UNCHANGED <<today, robberies, attempted, coin, interrupted, acts>>
    PROVE  Inv'
  <1> DEFINE q == [row[c] EXCEPT !.purse = p]
  <1>1. /\ row \in [Climber -> Row \cup {None}] /\ row[c] \in Row /\ tasks \in SUBSET Task
        /\ row[c].day <= today /\ coin \in Nat
    BY Types DEF Inv, DayInv
  <1>2. q \in Row /\ SameFight(q, row[c]) /\ q.purse = p /\ q.vault = row[c].vault
    BY <1>1, PurseRow
  <1>3. Write(c, q)
    OBVIOUS
  <1> HIDE DEF q
  <1>4. /\ tasks' \in SUBSET Task /\ TaskInv'
        /\ \A u \in tasks' : \E w \in tasks : w.by = u.by
        /\ \A u \in tasks : u # t => u \in tasks'
        /\ Way(tasks') + t.coin = Way(tasks) + (IF at = "done" THEN 0 ELSE n)
    <2>1. at \in {"debit", "credit", "reward", "done"} /\ at # "debit"
      OBVIOUS
    <2> QED
      BY <2>1, GoesOn
  <1>5. /\ row' \in [Climber -> Row \cup {None}] /\ pending' \in [Climber -> Pending]
        /\ PendingInv' /\ FightEndsWithTheDay' /\ DayInv'
        /\ Purses(row') + Worth(row[c]) = Purses(row) + Worth(q)
    <2>1. q \in Row \cup {None} /\ q.day <= today
      BY <1>1, <1>2 DEF SameFight
    <2>2. FightOK(c, q, attempted')
      BY <1>2 DEF Inv, FightEndsWithTheDay, Here, FightOK, SameFight
    <2> QED
      BY <1>3, <1>4, <2>1, <2>2, Written
  <1>6. CoinIsOnlyMoved' /\ coin' \in Nat
    <2>1. /\ Worth(row[c]) = row[c].purse + row[c].vault /\ Worth(q) = p + row[c].vault
          /\ row[c].purse \in Nat /\ row[c].vault \in Nat /\ t.coin \in Nat
      BY <1>1, <1>2, NoneAssumption DEF Worth, Row, Task
    <2>2. /\ Purses(row) \in Nat /\ Purses(row') \in Nat /\ Way(tasks) \in Nat /\ Way(tasks') \in Nat
      BY <1>1, <1>4, <1>5, PursesAreNatural, WayIsNatural DEF Inv, TaskInv
    <2>3. Way(tasks') + t.coin = Way(tasks) + n
      BY <1>4
    <2>4. (Purses(row') + Way(tasks')) + 0 = (Purses(row) + Way(tasks)) + 0
      <3>1. p + n = row[c].purse + t.coin
        OBVIOUS
      <3> QED
        BY <1>5, <2>1, <2>2, <2>3, <3>1
    <2>5. coin' = (coin + 0) - 0
      BY <1>1
    <2> QED
      BY <1>4, <1>5, <2>4, <2>5, CoinMoves
  <1>7. AttemptInv'
    BY <1>4, Types, NotedStays DEF Inv
  <1>8. RobInv'
    <2>1. \A e \in Climber : pending'[e] # Nothing => pending'[e] = pending[e]
      BY <1>3, Types DEF Write, Inv
    <2> QED
      BY <2>1, StillAboutToRob
  <1>9. TypeOK'
    BY <1>4, <1>5, <1>6 DEF Inv, TypeOK, Pending, Task
  <1> QED
    BY <1>4, <1>5, <1>6, <1>7, <1>8, <1>9 DEF Inv

\* A handler's step that writes none: what it lets go is lost.
LEMMA LosesNext ==
    ASSUME Inv, NEW t \in tasks, NEW at \in {"credit", "reward", "done"}, NEW n \in Nat, Goes(t, at, n),
           at = "done" => n = 0, coin' = (coin + n) - t.coin,
           t.at = "note" => Noted(<<t.day, t.by, t.to>>)', robberies' \subseteq (0..MaxDay) \X Climber \X Climber,
           \A a \in robberies : a[1] >= today => a \in robberies',
           UNCHANGED <<row, pending, today, attempted, interrupted, acts>>
    PROVE  Inv'
  <1>1. /\ row \in [Climber -> Row \cup {None}] /\ tasks \in SUBSET Task /\ t.coin \in Nat
    BY Types DEF Inv, Task
  <1>2. /\ tasks' \in SUBSET Task /\ TaskInv'
        /\ \A u \in tasks' : \E w \in tasks : w.by = u.by
        /\ \A u \in tasks : u # t => u \in tasks'
        /\ Way(tasks') + t.coin = Way(tasks) + (IF at = "done" THEN 0 ELSE n)
    <2>1. at \in {"debit", "credit", "reward", "done"} /\ at # "debit"
      OBVIOUS
    <2> QED
      BY <2>1, GoesOn
  <1>3. /\ row' \in [Climber -> Row \cup {None}] /\ pending' \in [Climber -> Pending]
        /\ PendingInv' /\ FightEndsWithTheDay' /\ DayInv'
    BY <1>2, NotWritten
  <1>4. CoinIsOnlyMoved' /\ coin' \in Nat
    <2>1. Purses(row') = Purses(row) /\ Purses(row) \in Nat /\ Way(tasks) \in Nat /\ Way(tasks') \in Nat
      BY <1>1, <1>2, PursesAreNatural, WayIsNatural DEF Inv, TaskInv
    <2>2. Way(tasks') + t.coin = Way(tasks) + n
      BY <1>2
    <2>3. (Purses(row') + Way(tasks')) + t.coin = (Purses(row) + Way(tasks)) + n
      BY <1>1, <2>1, <2>2
    <2> QED
      BY <1>1, <1>2, <1>3, <2>3, CoinMoves
  <1>5. AttemptInv'
    <2>1. \A u \in tasks : u.at = "note" => u \in tasks' \/ Noted(<<u.day, u.by, u.to>>)'
      BY <1>2
    <2> QED
      BY <2>1, Types, NotedStays DEF Inv
  <1>6. RobInv'
    BY DEF Inv, RobInv
  <1>7. TypeOK'
    BY <1>2, <1>3, <1>4 DEF Inv, TypeOK, Pending, Task
  <1> QED
    BY <1>2, <1>3, <1>4, <1>5, <1>6, <1>7 DEF Inv

LEMMA SettleNext == ASSUME Inv, NEW t \in tasks, Settle(t) PROVE Inv'
  <1>1. /\ t \in Task /\ t.to \in Climber /\ t.by \in Climber /\ t.coin \in Nat /\ t.day \in 0..MaxDay
        /\ t.day <= today /\ today \in Nat /\ coin \in Nat
        /\ row \in [Climber -> Row \cup {None}] /\ (t.at = "debit" => t.coin = 0)
        /\ t.at = "note" => t.next = "reward" \/ (t.next = "done" /\ t.coin = 0)
        /\ robberies \subseteq (0..MaxDay) \X Climber \X Climber
    BY Types DEF Inv, TaskInv, Task, TypeOK
  <1>2. UNCHANGED <<today, attempted, interrupted, acts>>
    BY DEF Settle
  <1>3. \A c \in Climber : row[c] # None => row[c].purse \in Nat
    BY <1>1 DEF Row
  <1>4. CASE NoteRobbery(t)
    <2>1. /\ t.at = "note" /\ Goes(t, t.next, t.coin) /\ UNCHANGED <<row, pending, coin>>
          /\ robberies' = {a \in robberies \cup {<<t.day, t.by, t.to>>} : a[1] >= t.day}
      BY <1>4 DEF NoteRobbery
    <2>2. <<t.day, t.by, t.to>> \in robberies' /\ robberies' \subseteq (0..MaxDay) \X Climber \X Climber
      BY <1>1, <2>1
    <2>3. Noted(<<t.day, t.by, t.to>>)'
      BY <2>2 DEF Noted
    <2>4. \A a \in robberies : a[1] >= today => a \in robberies'
      <3>1. \A a \in robberies : a[1] \in Nat
        BY <1>1
      <3> QED
        BY <1>1, <2>1, <3>1
    <2>5. coin' = (coin + t.coin) - t.coin
      BY <1>1, <2>1
    <2>6. t.next \in {"credit", "reward", "done"} /\ (t.next = "done" => t.coin = 0)
      BY <1>1, <2>1
    <2> QED
      BY <1>1, <1>2, <2>1, <2>2, <2>3, <2>4, <2>5, <2>6, LosesNext
  <1>5. CASE Debit(t)
    <2>1. t.at = "debit" /\ t.coin = 0 /\ t.at # "note" /\ UNCHANGED <<robberies, coin>>
      BY <1>1, <1>5 DEF Debit
    <2>2. CASE Here(t.to)
      <3>1. /\ row[t.to] # None /\ Write(t.to, [row[t.to] EXCEPT !.purse = 0])
            /\ Goes(t, "credit", row[t.to].purse) /\ row[t.to].purse \in Nat
        BY <1>1, <1>3, <1>5, <2>2 DEF Debit, Here
      <3>2. 0 + row[t.to].purse = row[t.to].purse + t.coin
        BY <2>1, <3>1
      <3> QED
        BY <1>1, <1>2, <2>1, <3>1, <3>2, PaysNext
    <2>3. CASE ~Here(t.to)
      <3>1. Goes(t, "credit", 0) /\ UNCHANGED <<row, pending>> /\ coin' = (coin + 0) - t.coin
        BY <1>1, <1>5, <2>1, <2>3 DEF Debit
      <3> QED
        BY <1>1, <1>2, <2>1, <3>1, LosesNext
    <2> QED
      BY <2>2, <2>3
  <1>6. CASE Credit(t)
    <2>1. t.at = "credit" /\ t.at # "note" /\ UNCHANGED robberies /\ Goes(t, "done", 0)
      BY <1>6 DEF Credit
    <2>2. CASE Here(t.by)
      <3>1. /\ row[t.by] # None /\ Write(t.by, [row[t.by] EXCEPT !.purse = row[t.by].purse + t.coin])
            /\ UNCHANGED coin
        BY <1>6, <2>2 DEF Credit, Here
      <3>2. /\ (row[t.by].purse + t.coin) + 0 = row[t.by].purse + t.coin
            /\ row[t.by].purse + t.coin \in Nat
        BY <1>1, <1>3, <3>1
      <3> QED
        BY <1>1, <1>2, <2>1, <3>1, <3>2, PaysNext
    <2>3. CASE ~Here(t.by)
      <3>1. UNCHANGED <<row, pending>> /\ coin' = (coin + 0) - t.coin
        BY <1>1, <1>6, <2>3 DEF Credit
      <3> QED
        BY <1>1, <1>2, <2>1, <3>1, LosesNext
    <2> QED
      BY <2>2, <2>3
  <1>7. CASE Reward(t)
    <2>1. t.at = "reward" /\ t.at # "note" /\ UNCHANGED robberies /\ Goes(t, "done", 0)
      BY <1>7 DEF Reward
    <2>2. CASE Here(t.to)
      <3>1. /\ row[t.to] # None /\ Write(t.to, [row[t.to] EXCEPT !.purse = row[t.to].purse + t.coin])
            /\ UNCHANGED coin
        BY <1>7, <2>2 DEF Reward, Here
      <3>2. /\ (row[t.to].purse + t.coin) + 0 = row[t.to].purse + t.coin
            /\ row[t.to].purse + t.coin \in Nat
        BY <1>1, <1>3, <3>1
      <3> QED
        BY <1>1, <1>2, <2>1, <3>1, <3>2, PaysNext
    <2>3. CASE ~Here(t.to)
      <3>1. UNCHANGED <<row, pending>> /\ coin' = (coin + 0) - t.coin
        BY <1>1, <1>7, <2>3 DEF Reward
      <3> QED
        BY <1>1, <1>2, <2>1, <3>1, LosesNext
    <2> QED
      BY <2>2, <2>3
  <1> QED
    BY <1>4, <1>5, <1>6, <1>7 DEF Settle

LEMMA InterruptNext == ASSUME Inv, NEW t \in tasks, Interrupt(t) PROVE Inv'
  <1>1. /\ Goes(t, "done", 0) /\ interrupted' = TRUE
        /\ UNCHANGED <<row, today, robberies, pending, attempted, coin, acts>>
    BY DEF Interrupt
  <1>2. row \in [Climber -> Row \cup {None}] /\ tasks \in SUBSET Task /\ t.coin \in Nat /\ coin \in Nat
    BY Types DEF Inv, Task
  <1>3. /\ tasks' \in SUBSET Task /\ TaskInv'
        /\ \A u \in tasks' : \E w \in tasks : w.by = u.by
        /\ Way(tasks') + t.coin = Way(tasks) + 0
    <2>1. PICK n \in Nat : n = 0
      OBVIOUS
    <2>2. PICK at \in {"debit", "credit", "reward", "done"} : at = "done"
      OBVIOUS
    <2> QED
      BY <1>1, <2>1, <2>2, GoesOn
  <1>4. /\ row' \in [Climber -> Row \cup {None}] /\ pending' \in [Climber -> Pending]
        /\ PendingInv' /\ FightEndsWithTheDay' /\ DayInv'
    BY <1>1, <1>3, NotWritten
  <1>5. CoinIsOnlyMoved'
    <2>1. Purses(row') = Purses(row) /\ Purses(row) \in Nat /\ Way(tasks) \in Nat /\ Way(tasks') \in Nat
      BY <1>1, <1>2, <1>3, PursesAreNatural, WayIsNatural DEF Inv, TaskInv
    <2>2. Purses(row) + Way(tasks) <= coin
      BY HeldIsPurses DEF Inv, CoinIsOnlyMoved
    <2>3. Purses(row') + Way(tasks') <= coin
      BY <1>2, <1>3, <2>1, <2>2
    <2> QED
      BY <1>1, <2>3, HeldIsPursesNext DEF CoinIsOnlyMoved
  <1>6. AttemptInv' /\ RobInv'
    BY <1>1 DEF AttemptInv, RobInv
  <1>7. TypeOK'
    BY <1>1, <1>3, <1>4 DEF Inv, TypeOK, Pending, Task
  <1> QED
    BY <1>3, <1>4, <1>5, <1>6, <1>7 DEF Inv

-----------------------------------------------------------------------------
(* The invariant *)

\* k coins each
LEMMA SumOfEqual ==
    ASSUME NEW f, NEW S, IsFiniteSet(S), NEW k \in Nat, \A x \in S : f[x] = k
    PROVE  SumFunctionOnSet(f, S) = k * Cardinality(S)
  <1> DEFINE Bad == {t \in SUBSET S : SumFunctionOnSet(f, t) # k * Cardinality(t)}
  <1>1. SUFFICES ASSUME Bad # {} PROVE FALSE
    <2>1. S \in SUBSET S
      OBVIOUS
    <2> QED
      BY <2>1
  <1>2. PICK B \in Bad : \A x \in B : B \ {x} \notin Bad
    <2>1. Bad \in SUBSET SUBSET S
      OBVIOUS
    <2> HIDE DEF Bad
    <2> QED
      BY <1>1, <2>1, SmallestSet
  <1>3. B # {}
    <2>1. SumFunctionOnSet(f, {}) = 0 /\ Cardinality({}) = 0 /\ k * 0 = 0
      BY SumOfNothing, FS_EmptySet
    <2> QED
      BY <1>2, <2>1
  <1> DEFINE z == First(B)
  <1>4. z \in B /\ IsFiniteSet(B)
    BY <1>3, FirstIsThere, FS_Subset
  <1>5. SumFunctionOnSet(f, B) = f[z] + SumFunctionOnSet(f, B \ {z})
    BY <1>3, <1>4, SumOfFirst
  <1>6. /\ SumFunctionOnSet(f, B \ {z}) = k * Cardinality(B \ {z}) /\ f[z] = k
        /\ SumFunctionOnSet(f, B) # k * Cardinality(B)
    BY <1>2, <1>4
  <1>7. Cardinality(B) \in Nat /\ Cardinality(B \ {z}) \in Nat /\ Cardinality(B) = Cardinality(B \ {z}) + 1
    <2>1. IsFiniteSet(B \ {z}) /\ Cardinality(B \ {z}) = Cardinality(B) - 1
      BY <1>4, FS_RemoveElement
    <2>2. Cardinality(B) \in Nat /\ Cardinality(B \ {z}) \in Nat
      BY <1>4, <2>1, FS_CardinalityType
    <2> QED
      BY <2>1, <2>2
  <1> HIDE DEF z
  <1>8. \A n \in Nat : k * (n + 1) = k + k * n
    OBVIOUS
  <1> QED
    BY <1>5, <1>6, <1>7, <1>8

LEMMA InitInv == Init => Inv
  <1> SUFFICES ASSUME Init PROVE Inv
    OBVIOUS
  <1> USE CampAssumption
  <1>1. /\ row = [c \in Climber |-> NewRow(0)] /\ today = 0 /\ robberies = {} /\ tasks = {}
        /\ pending = [c \in Climber |-> Nothing] /\ attempted = {} /\ interrupted = FALSE
        /\ coin = Start * Cardinality(Climber) /\ acts = 0
    BY DEF Init
  <1>2. /\ NewRow(0) \in Row /\ NewRow(0).fight = None /\ NewRow(0).day = 0
        /\ NewRow(0).purse = Start /\ NewRow(0).vault = 0 /\ NewRow(0) # None
    <2>1. NewRow(0) \in Row
      BY DEF NewRow, Row
    <2> QED
      BY <2>1, NoneAssumption DEF NewRow
  <1>3. Cardinality(Climber) \in Nat /\ coin \in Nat
    BY <1>1, FS_CardinalityType
  <1>4. TypeOK
    <2>1. row \in [Climber -> Row \cup {None}] /\ pending \in [Climber -> Pending]
      BY <1>1, <1>2, NothingIsPending
    <2>2. today \in 0..MaxDay /\ acts \in 0..MaxActs
      BY <1>1
    <2>3. interrupted \in BOOLEAN /\ robberies = {} /\ attempted = {} /\ tasks = {}
      BY <1>1
    <2> QED
      BY <1>3, <2>1, <2>2, <2>3 DEF TypeOK, Pending
  <1>5. FightEndsWithTheDay
    BY <1>1, <1>2 DEF FightEndsWithTheDay
  <1>6. CoinIsOnlyMoved
    <2> DEFINE f == [c \in Climber |-> IF row[c] # None THEN row[c].purse + row[c].vault ELSE 0]
    <2>1. \A c \in Climber : f[c] = Start
      BY <1>1, <1>2
    <2>2. Purses(row) = SumFunctionOnSet(f, Climber)
      BY DEF Purses
    <2> HIDE DEF f
    <2>3. Purses(row) = coin
      BY <1>1, <2>1, <2>2, SumOfEqual
    <2>4. Way(tasks) = 0
      <3> DEFINE g == [t \in tasks |-> t.coin]
      <3>1. Way(tasks) = SumFunctionOnSet(g, {})
        BY <1>1 DEF Way
      <3> HIDE DEF g
      <3> QED
        BY <3>1, SumOfNothing
    <2> QED
      BY <1>3, <2>3, <2>4, HeldIsPurses DEF CoinIsOnlyMoved
  <1>7. PendingInv /\ DayInv
    BY <1>1, <1>2 DEF PendingInv, DayInv, Nothing
  <1>8. TaskInv /\ AttemptInv /\ RobInv
    BY <1>1, FS_EmptySet DEF TaskInv, AttemptInv, RobInv
  <1> QED
    BY <1>4, <1>5, <1>6, <1>7, <1>8 DEF Inv

LEMMA InvNext == Inv /\ [Next]_vars => Inv'
  <1> SUFFICES ASSUME Inv, [Next]_vars PROVE Inv'
    OBVIOUS
  <1>1. ASSUME NEW c \in Climber, Ask(c) PROVE Inv'
    BY <1>1, AskNext
  <1>2. ASSUME NEW c \in Climber, Save(c) PROVE Inv'
    BY <1>2, DoBusinessNext, RobNext, BlowNext DEF Save
  <1>3. ASSUME NEW c \in Climber, Reset(c) PROVE Inv'
    BY <1>3, ResetNext
  <1>4. ASSUME NEW c \in Climber, Begin(c) PROVE Inv'
    BY <1>4, BeginNext
  <1>5. ASSUME NEW c \in Climber, NEW d \in Climber, Marry(c, d) PROVE Inv'
    BY <1>5, MarryNext
  <1>6. ASSUME NEW t \in tasks, Settle(t) PROVE Inv'
    BY <1>6, SettleNext
  <1>7. ASSUME NEW t \in tasks, Interrupt(t) PROVE Inv'
    BY <1>7, InterruptNext
  <1>8. CASE NewDay
    BY <1>8, NewDayNext
  <1>9. CASE UNCHANGED vars
    <2>1. Held' = Held /\ OnItsWay' = OnItsWay
      BY <1>9 DEF vars, Held, OnItsWay, Here
    <2> QED
      BY <1>9, <2>1 DEF vars, Inv, TypeOK, FightEndsWithTheDay, Here, CoinIsOnlyMoved, PendingInv, DayInv,
                        TaskInv, AttemptInv, Noted, RobInv
  <1> QED
    BY <1>1, <1>2, <1>3, <1>4, <1>5, <1>6, <1>7, <1>8, <1>9 DEF Next

LEMMA InvHolds == Spec => []Inv
  BY InitInv, InvNext, PTL DEF Spec

\* What is stored of the camp is what the code declares it to be, and no fight
\* outlives the day it began on: apply_dawn takes it away before a blow of the
\* next day is offered, and apply_death when the robber falls.
THEOREM CampStaysSound == Spec => []CampIsSound
  <1>1. Inv => CampIsSound
    BY DEF Inv, CampIsSound
  <1> QED
    BY <1>1, InvHolds, PTL

\* _settle_robbery moves coin and never makes any, for any number of climbers
\* and of handlers at work at once; and loses none while no handler dies.
THEOREM CoinIsNeverMade == Spec => []CoinIsOnlyMoved
  <1>1. Inv => CoinIsOnlyMoved
    BY DEF Inv
  <1> QED
    BY <1>1, InvHolds, PTL

\* The duel that rob spends is spent on a sleeper not tried that day, although
\* note_robbery comes after the save.
THEOREM NoSleeperIsTriedTwice == Spec => EachDuelAnotherSleeper
  <1>1. Inv /\ [Next]_vars =>
            [~interrupted => \A c \in Climber : Rob(c) =>
                 <<pending[c].day, c, pending[c].victim>> \notin attempted]_vars
    BY DEF Inv, RobInv, Rob
  <1> QED
    BY <1>1, InvHolds, PTL DEF Spec, EachDuelAnotherSleeper

=============================================================================
