-------------------------- MODULE ClimbHeartsProofs --------------------------
(***************************************************************************)
(* Proofs about courtship and marriage for any climbers and any number of  *)
(* requests: that nobody is married unasked, that every marriage is mutual *)
(* once no handler is half way, and that only its two end it.              *)
(***************************************************************************)
EXTENDS ClimbHearts, FiniteSetTheorems, TLAPS

Calm == Climber \ muddled

\* A climber who is not muddled is about one weighty thing at a time.
TaskInv ==
    /\ \A t \in tasks : t.by # t.with
    /\ \A t \in tasks : t.by \in Calm /\ t.act \in Weighty => pending[t.by].act \notin Weighty
    /\ \A t, u \in tasks :
          t.by = u.by /\ t.by \in Calm /\ {t.act, u.act} \subseteq Weighty => t = u
    /\ \A t \in tasks : t.at = "mail" => t.act \notin {"accept", "divorce"}

\* A request that is pending was made of the row as it is.
PendInv ==
    \A c \in Climber :
        /\ pending[c].act = "accept" => heart[c] = None
        /\ pending[c].act = "divorce" => heart[c] = pending[c].with

\* Every proposal, and every yes, has been asked for.
AskedInv ==
    /\ \A c, d \in Climber : c # d /\ Proposal(c, d) = c => <<c, d>> \in asked
    /\ \A t \in tasks : t.act = "propose" => <<t.by, t.with>> \in asked
    /\ \A c \in Climber : pending[c].act = "accept" => <<pending[c].with, c>> \in asked
    /\ NobodyIsWedUnasked

\* c has said yes to d and has still to hear what became of it.
Wedding(c, d) ==
    \E t \in tasks : t.by = c /\ t.act = "accept" /\ t.with = d /\ t.at # "withdraw"

Accepting(c, d) == (pending[c].act = "accept" /\ pending[c].with = d) \/ Wedding(c, d)

\* c has left d, who has still to hear of it.
Leaving(c, d) ==
    \E t \in tasks : t.by = c /\ t.act = "divorce" /\ t.with = d /\ t.at = "first"

Divorcing(c, d) == \E t \in tasks : t.by = c /\ t.act = "divorce" /\ t.with = d

\* Two do not say yes to each other: one of them proposed.
AcceptInv ==
    \A c, d \in Calm :
        Accepting(c, d) => c # d /\ Proposal(c, d) # c /\ ~Accepting(d, c) /\ heart[d] # c

\* As long as every handler comes to its end, and among the calm: who has said yes is married, who is
\* married without being so in return has a handler that will see to it, and
\* nobody who has been left says yes to the one who left before hearing of it.
MarriageInv ==
    /\ \A c \in Calm, d \in Climber : Wedding(c, d) => heart[c] = d
    /\ \A c, d \in Calm : heart[c] = d => heart[d] = c \/ Wedding(c, d) \/ Leaving(d, c)
    /\ \A c, d \in Calm : Leaving(d, c) =>
          /\ heart[d] # c /\ ~Accepting(c, d)
          /\ heart[c] = d \/ Divorcing(c, d) \/ Proposal(c, d) # d

Inv == TypeOK /\ TaskInv /\ PendInv /\ AskedInv /\ AcceptInv /\ (interrupted \/ MarriageInv)

USE HeartAssumption

-----------------------------------------------------------------------------
(* Pairs and their bonds *)

LEMMA Pairs == \A c, d \in Climber : c # d => {c, d} \in Pair
  <1> TAKE c, d \in Climber
  <1> HAVE c # d
  <1>1. IsFiniteSet({c}) /\ Cardinality({c}) = 1
    BY FS_Singleton
  <1>2. Cardinality({c} \cup {d}) = 2
    BY <1>1, FS_AddElement
  <1>3. {c} \cup {d} = {c, d}
    OBVIOUS
  <1> QED
    BY <1>2, <1>3 DEF Pair

BondType == [flirted: SUBSET Climber, warm: BOOLEAN, proposal: Climber \cup {None}]

\* What is read of a bond.
LEMMA BondRead ==
    ASSUME TypeOK, NEW b \in Climber, NEW w \in Climber, b # w
    PROVE  /\ {b, w} \in Pair /\ bonds[{b, w}] \in BondType
           /\ bonds[{b, w}].flirted \subseteq {b, w}
           /\ bonds[{b, w}].proposal \in {b, w, None}
           /\ Proposal(b, w) = bonds[{b, w}].proposal
  BY Pairs DEF TypeOK, BondType, Proposal

\* A handler that takes a step is itself or gone, and the others are as they were.
LEMMA TaskStep ==
    ASSUME TypeOK, NEW t \in tasks, Ends(t) \/ \E s \in Step : Goes(t, s)
    PROVE  /\ tasks' \subseteq [by: Climber, act: Act, with: Climber, at: Step, no: Nat]
           /\ \A u \in tasks' : \/ u \in tasks /\ u # t
                                \/ u.by = t.by /\ u.act = t.act /\ u.with = t.with
           /\ \A u \in tasks : u # t => u \in tasks'
  <1>1. t \in [by: Climber, act: Act, with: Climber, at: Step, no: Nat]
    BY DEF TypeOK
  <1>2. CASE Ends(t)
    BY <1>2 DEF Ends, TypeOK
  <1>3. ASSUME NEW s \in Step, Goes(t, s)
        PROVE  /\ tasks' \subseteq [by: Climber, act: Act, with: Climber, at: Step, no: Nat]
               /\ \A u \in tasks' : \/ u \in tasks /\ u # t
                                    \/ u.by = t.by /\ u.act = t.act /\ u.with = t.with
               /\ \A u \in tasks : u # t => u \in tasks'
    <2> DEFINE n == [t EXCEPT !.at = s]
    <2>1. /\ n \in [by: Climber, act: Act, with: Climber, at: Step, no: Nat]
          /\ n.by = t.by /\ n.act = t.act /\ n.with = t.with
      BY <1>1
    <2>2. tasks' = (tasks \ {t}) \cup {n}
      BY <1>3 DEF Goes
    <2> HIDE DEF n
    <2> QED
      BY <2>1, <2>2 DEF TypeOK
  <1> QED
    BY <1>2, <1>3

\* A muddle only grows.
LEMMA MuddleGrows ==
    ASSUME TypeOK, NEW t \in tasks, Spreads(t)
    PROVE  /\ muddled' \subseteq Climber /\ muddled \subseteq muddled' /\ Calm' \subseteq Calm
           /\ t.act \in {"accept", "divorce"} /\ t.by \notin Calm => t.with \notin Calm'
  BY DEF Spreads, TypeOK, Calm

\* The row of c is written.
LEMMA WrittenRow ==
    ASSUME TypeOK, NEW c \in Climber, Written(c)
    PROVE  /\ away' \subseteq Climber
           /\ pending' \in [Climber -> {Nothing} \cup [act: Act, with: Climber]]
           /\ \A x \in Climber : pending'[x].with # x
           /\ \A x \in Climber : pending'[x] = IF x = c THEN Nothing ELSE pending[x]
  <1>1. \A x \in Climber : pending'[x] = IF x = c THEN Nothing ELSE pending[x]
    BY DEF Written, TypeOK
  <1>2. pending' \in [Climber -> {Nothing} \cup [act: Act, with: Climber]]
    BY DEF Written, TypeOK
  <1>3. \A x \in Climber : pending'[x].with # x
    BY <1>1 DEF TypeOK, Nothing
  <1> QED
    BY <1>1, <1>2, <1>3 DEF Written, TypeOK

-----------------------------------------------------------------------------
(* Types *)

\* Requests.
LEMMA AskTyped ==
    ASSUME TypeOK, NEW c \in Climber, NEW d \in Climber, NEW a \in Act, Ask(c, d, a)
    PROVE  /\ TypeOK' /\ c # d
           /\ \A x \in Climber : pending'[x] = IF x = c THEN [act |-> a, with |-> d] ELSE pending[x]
  <1>1. c # d
    BY DEF Ask, People
  <1>2. \A x \in Climber : pending'[x] = IF x = c THEN [act |-> a, with |-> d] ELSE pending[x]
    BY DEF Ask, TypeOK
  <1>3. pending' \in [Climber -> {Nothing} \cup [act: Act, with: Climber]]
    BY DEF Ask, TypeOK
  <1>4. \A x \in Climber : pending'[x].with # x
    BY <1>1, <1>2 DEF TypeOK
  <1>5. acts' \in 0..MaxActs
    BY DEF Ask, TypeOK
  <1>6. /\ UNCHANGED <<heart, open, away, bonds, doors, tasks, asked, interrupted>>
        /\ muddled' \subseteq Climber
    BY DEF Ask, TypeOK
  <1> QED
    BY <1>1, <1>2, <1>3, <1>4, <1>5, <1>6 DEF TypeOK

LEMMA SaveTyped ==
    ASSUME TypeOK, NEW c \in Climber, Save(c)
    PROVE  TypeOK'
  <1> PICK no \in 0..MaxActs :
         tasks' = tasks \cup {[by |-> c, act |-> pending[c].act, with |-> pending[c].with,
                               at |-> "first", no |-> no]}
    BY DEF Save
  <1> DEFINE a == pending[c].act
             d == pending[c].with
             n == [by |-> c, act |-> a, with |-> d, at |-> "first", no |-> no]
  <1>1. a \in Act /\ d \in Climber
    BY DEF Save, TypeOK, Nothing
  <1>2. heart' \in [Climber -> Climber \cup {None, Regular}]
    <2>1. \E h \in Climber \cup {None, Regular} : heart' = [heart EXCEPT ![c] = h]
      BY <1>1 DEF Save, TypeOK
    <2> QED
      BY <2>1 DEF TypeOK
  <1>3. n \in [by: Climber, act: Act, with: Climber, at: Step, no: Nat]
    BY <1>1 DEF Step
  <1>4. tasks' = tasks \cup {n}
    OBVIOUS
  <1>5. asked' \subseteq Climber \X Climber
    BY <1>1 DEF Save, TypeOK
  <1>6. Written(c) /\ UNCHANGED <<open, bonds, doors, muddled, interrupted, acts>>
    BY DEF Save
  <1> HIDE DEF a, d, n
  <1> QED
    BY <1>2, <1>3, <1>4, <1>5, <1>6, WrittenRow DEF TypeOK

LEMMA ChangeOwnTyped ==
    ASSUME TypeOK, NEW c \in Climber, ChangeOwn(c)
    PROVE  TypeOK'
  <1>1. heart' \in [Climber -> Climber \cup {None, Regular}] /\ open' \in [Climber -> BOOLEAN]
    BY DEF ChangeOwn, TypeOK
  <1>2. acts' \in 0..MaxActs
    BY DEF ChangeOwn, TypeOK
  <1>3. Written(c) /\ UNCHANGED <<bonds, doors, tasks, asked, muddled, interrupted>>
    BY DEF ChangeOwn
  <1> QED
    BY <1>1, <1>2, <1>3, WrittenRow DEF TypeOK

LEMMA StayAwayTyped ==
    ASSUME TypeOK, NEW c \in Climber, StayAway(c)
    PROVE  TypeOK'
  BY DEF StayAway, TypeOK

\* Handlers.  A step that marries and divorces nobody.
Quiet(t) ==
    /\ t.act \notin {"accept", "divorce"} /\ UNCHANGED <<heart, asked>>
    /\ \A c \in Climber : pending'[c] \in {pending[c], Nothing}
    /\ Ends(t) \/ \E s \in Step \ {"first"} : Goes(t, s)
    /\ \A c, d \in Climber : c # d =>
          \/ Proposal(c, d)' \in {Proposal(c, d), None}
          \/ t.act = "propose" /\ {c, d} = {t.by, t.with} /\ Proposal(c, d)' = t.by

LEMMA NotWritten ==
    ASSUME TypeOK, UNCHANGED <<away, pending>>
    PROVE  /\ away' \subseteq Climber
           /\ pending' \in [Climber -> {Nothing} \cup [act: Act, with: Climber]]
           /\ \A x \in Climber : pending'[x].with # x
           /\ \A x \in Climber : pending'[x] \in {pending[x], Nothing}
  BY DEF TypeOK

LEMMA SameBonds ==
    ASSUME TypeOK, UNCHANGED bonds
    PROVE  /\ bonds' \in [Pair -> BondType]
           /\ \A p \in Pair : bonds'[p].flirted \subseteq p /\ bonds'[p].proposal \in p \cup {None}
           /\ \A c, d \in Climber : Proposal(c, d)' = Proposal(c, d)
  BY DEF TypeOK, Proposal, BondType

\* A proposal put on the table or taken off it.
LEMMA ProposalSet ==
    ASSUME TypeOK, TaskInv, NEW t \in tasks, NEW from \in {t.by, t.with, None}, SetProposal(t, from)
    PROVE  /\ bonds' \in [Pair -> BondType]
           /\ \A p \in Pair : bonds'[p].flirted \subseteq p /\ bonds'[p].proposal \in p \cup {None}
           /\ \A c, d \in Climber : c # d =>
                 Proposal(c, d)' = IF {c, d} = {t.by, t.with} THEN from ELSE Proposal(c, d)
  <1>1. t.by \in Climber /\ t.with \in Climber /\ t.by # t.with
    BY DEF TypeOK, TaskInv
  <1> DEFINE old == bonds[{t.by, t.with}]
             x == [old EXCEPT !.proposal = from]
  <1>2. old \in BondType /\ old.flirted \subseteq {t.by, t.with} /\ {t.by, t.with} \in Pair
    BY <1>1, BondRead
  <1>3. x \in BondType /\ x.flirted = old.flirted /\ x.proposal = from
    BY <1>1, <1>2 DEF BondType
  <1>4. bonds' = [bonds EXCEPT ![{t.by, t.with}] = x]
    BY DEF SetProposal
  <1>5. x.flirted \subseteq {t.by, t.with} /\ x.proposal \in {t.by, t.with, None}
    BY <1>2, <1>3
  <1> HIDE DEF old, x
  <1>6. bonds \in [Pair -> BondType]
    BY DEF TypeOK, BondType
  <1>7. bonds' \in [Pair -> BondType]
    BY <1>2, <1>3, <1>4, <1>6
  <1>8. \A p \in Pair : bonds'[p] = IF p = {t.by, t.with} THEN x ELSE bonds[p]
    BY <1>2, <1>4, <1>6
  <1>9. \A p \in Pair : bonds'[p].flirted \subseteq p /\ bonds'[p].proposal \in p \cup {None}
    BY <1>5, <1>8 DEF TypeOK
  <1>10. \A c, d \in Climber : c # d =>
            Proposal(c, d)' = IF {c, d} = {t.by, t.with} THEN x.proposal ELSE Proposal(c, d)
    BY <1>8, Pairs DEF Proposal
  <1> QED
    BY <1>3, <1>7, <1>9, <1>10

LEMMA QuietTyped ==
    ASSUME TypeOK, NEW t \in tasks, Quiet(t),
           UNCHANGED <<open, interrupted, acts>>, Spreads(t),
           away' \subseteq Climber, doors' \subseteq Climber \X Climber,
           pending' \in [Climber -> {Nothing} \cup [act: Act, with: Climber]],
           bonds' \in [Pair -> BondType],
           \A p \in Pair : bonds'[p].flirted \subseteq p /\ bonds'[p].proposal \in p \cup {None}
    PROVE  TypeOK'
  <1>1. tasks' \subseteq [by: Climber, act: Act, with: Climber, at: Step, no: Nat]
    BY TaskStep DEF Quiet
  <1>2. \A x \in Climber : pending'[x].with # x
    BY DEF Quiet, TypeOK, Nothing
  <1>3. heart' = heart /\ asked' = asked
    BY DEF Quiet
  <1>4. muddled' \subseteq Climber
    BY MuddleGrows
  <1> QED
    BY <1>1, <1>2, <1>3, <1>4 DEF TypeOK, BondType

QuietStep(t) ==
    \/ ShutDoor(t) \/ OpenDoor(t) \/ Knock(t) \/ Flirt(t) \/ Propose(t) \/ Decline(t) \/ Mail(t)

LEMMA QuietSteps ==
    ASSUME TypeOK, TaskInv, NEW t \in tasks, QuietStep(t), UNCHANGED <<open, asked, interrupted, acts>>, Spreads(t)
    PROVE  Quiet(t) /\ TypeOK'
  <1>1. /\ t.by \in Climber /\ t.with \in Climber /\ t.by # t.with /\ t.act \in Act
        /\ Step = {"first", "settle", "withdraw", "undo", "mail"}
    BY DEF TypeOK, TaskInv, Step
  <1>2. CASE ShutDoor(t)
    <2>1. doors' \subseteq Climber \X Climber
      BY <1>1, <1>2 DEF ShutDoor, TypeOK
    <2>2. UNCHANGED bonds \/ SetProposal(t, None)
      BY <1>2 DEF ShutDoor
    <2>3. \A c, d \in Climber : c # d => Proposal(c, d)' \in {Proposal(c, d), None}
      BY <2>2, ProposalSet, SameBonds DEF Proposal
    <2>4. Ends(t) \/ \E s \in Step \ {"first"} : Goes(t, s)
      BY <1>1, <1>2 DEF ShutDoor
    <2>5. Quiet(t)
      BY <1>2, <2>3, <2>4 DEF ShutDoor, Quiet
    <2>6. /\ bonds' \in [Pair -> BondType]
          /\ \A p \in Pair : bonds'[p].flirted \subseteq p /\ bonds'[p].proposal \in p \cup {None}
      BY <2>2, ProposalSet, SameBonds
    <2>7. UNCHANGED <<away, pending>>
      BY <1>2 DEF ShutDoor
    <2> QED
      BY <2>1, <2>5, <2>6, <2>7, NotWritten, QuietTyped
  <1>3. CASE OpenDoor(t)
    <2>1. doors' \subseteq Climber \X Climber /\ UNCHANGED <<bonds, away, pending>>
      BY <1>3 DEF OpenDoor, TypeOK
    <2>2. Quiet(t)
      BY <1>3 DEF OpenDoor, Quiet, Proposal
    <2> QED
      BY <2>1, <2>2, NotWritten, SameBonds, QuietTyped
  <1>4. CASE Knock(t)
    <2>1. doors' \subseteq Climber \X Climber /\ UNCHANGED <<bonds, away, pending>>
      BY <1>4 DEF Knock, TypeOK
    <2>2. Ends(t) \/ \E s \in Step \ {"first"} : Goes(t, s)
      BY <1>1, <1>4 DEF Knock
    <2>3. Quiet(t)
      BY <1>4, <2>2 DEF Knock, Quiet, Proposal
    <2> QED
      BY <2>1, <2>3, NotWritten, SameBonds, QuietTyped
  <1>5. CASE Flirt(t)
    <2> DEFINE p == {t.by, t.with}
               o == bonds[p]
               x(warm) == [o EXCEPT !.flirted = @ \cup {t.by}, !.warm = @ \/ warm]
    <2>1. p \in Pair /\ o \in BondType /\ o.flirted \subseteq p /\ o.proposal \in p \cup {None}
      BY <1>1, BondRead
    <2>2. PICK warm \in BOOLEAN :
            bonds' = [bonds EXCEPT ![p].flirted = @ \cup {t.by}, ![p].warm = @ \/ warm]
      BY <1>5 DEF Flirt
    <2> DEFINE y == x(warm)
    <2>3. y \in BondType /\ y.flirted = o.flirted \cup {t.by} /\ y.proposal = o.proposal
      BY <1>1, <2>1 DEF BondType
    <2>4. bonds \in [Pair -> BondType]
      BY DEF TypeOK, BondType
    <2>5. bonds' = [bonds EXCEPT ![p] = y]
      BY <2>1, <2>2, <2>4
    <2> HIDE DEF o, y, p
    <2>6. bonds' \in [Pair -> BondType] /\ \A q \in Pair : bonds'[q] = IF q = p THEN y ELSE bonds[q]
      BY <2>1, <2>3, <2>4, <2>5
    <2>7. ASSUME NEW q \in Pair
          PROVE  bonds'[q].flirted \subseteq q /\ bonds'[q].proposal \in q \cup {None}
      <3>1. CASE q = p
        <4>1. bonds'[q] = y
          BY <2>6, <3>1
        <4>2. t.by \in p
          BY DEF p
        <4>3. y.flirted \subseteq p /\ y.proposal \in p \cup {None}
          BY <2>1, <2>3, <4>2
        <4> HIDE DEF y
        <4> QED
          BY <3>1, <4>1, <4>3
      <3>2. CASE q # p
        BY <2>6, <3>2 DEF TypeOK
      <3> QED
        BY <3>1, <3>2
    <2>8. \A c, d \in Climber : c # d => Proposal(c, d)' = Proposal(c, d)
      BY <2>3, <2>6, Pairs DEF Proposal, o
    <2>9. Quiet(t)
      BY <1>1, <1>5, <2>8 DEF Flirt, Quiet
    <2> QED
      BY <1>5, <2>6, <2>7, <2>9, NotWritten, QuietTyped DEF Flirt, TypeOK
  <1>6. CASE Propose(t)
    <2>1. SetProposal(t, t.by) /\ Goes(t, "mail") /\ UNCHANGED <<heart, away, doors, pending>> /\ t.act = "propose"
      BY <1>6 DEF Propose
    <2>2. /\ bonds' \in [Pair -> BondType]
          /\ \A p \in Pair : bonds'[p].flirted \subseteq p /\ bonds'[p].proposal \in p \cup {None}
      BY <2>1, ProposalSet
    <2>3. \A c, d \in Climber : c # d =>
             \/ Proposal(c, d)' \in {Proposal(c, d), None}
             \/ {c, d} = {t.by, t.with} /\ Proposal(c, d)' = t.by
      <3>1. \A c, d \in Climber : c # d =>
               Proposal(c, d)' = IF {c, d} = {t.by, t.with} THEN t.by ELSE Proposal(c, d)
        BY <2>1, ProposalSet DEF Proposal
      <3> QED
        BY <3>1 DEF Proposal
    <2>4. Quiet(t)
      BY <1>1, <2>1, <2>3 DEF Quiet
    <2> QED
      BY <2>1, <2>2, <2>4, NotWritten, QuietTyped DEF TypeOK
  <1>7. CASE Decline(t)
    <2>1. SetProposal(t, None) /\ Goes(t, "mail") /\ UNCHANGED <<heart, away, doors, pending>> /\ t.act = "decline"
      BY <1>7 DEF Decline
    <2>2. /\ bonds' \in [Pair -> BondType]
          /\ \A p \in Pair : bonds'[p].flirted \subseteq p /\ bonds'[p].proposal \in p \cup {None}
      BY <2>1, ProposalSet
    <2>3. \A c, d \in Climber : c # d => Proposal(c, d)' \in {Proposal(c, d), None}
      BY <2>1, ProposalSet DEF Proposal
    <2>4. Quiet(t)
      BY <1>1, <2>1, <2>3 DEF Quiet
    <2> QED
      BY <2>1, <2>2, <2>4, NotWritten, QuietTyped DEF TypeOK
  <1>8. CASE Mail(t)
    <2>1. Written(t.with) /\ Ends(t) /\ UNCHANGED <<heart, bonds, doors>> /\ t.act \notin {"accept", "divorce"}
      BY <1>8 DEF Mail, TaskInv
    <2>2. Quiet(t)
      BY <1>1, <2>1, WrittenRow DEF Quiet, Proposal
    <2> QED
      BY <1>1, <2>1, <2>2, WrittenRow, SameBonds, QuietTyped DEF TypeOK
  <1> QED
    BY <1>2, <1>3, <1>4, <1>5, <1>6, <1>7, <1>8 DEF QuietStep

\* A handler in which a yes goes its way, or a divorce.
LEMMA AcceptTyped ==
    ASSUME TypeOK, TaskInv, NEW t \in tasks, Accept(t), UNCHANGED <<open, asked, interrupted, acts>>, Spreads(t)
    PROVE  /\ TypeOK' /\ \A c \in Climber : pending'[c] \in {pending[c], Nothing}
           /\ Ends(t) \/ \E s \in Step \ {"mail"} : Goes(t, s)
           /\ t.act = "accept"
  <1>1. /\ t.by \in Climber /\ t.with \in Climber /\ t.by # t.with
        /\ Step = {"first", "settle", "withdraw", "undo", "mail"}
    BY DEF TypeOK, TaskInv, Step
  <1>2. t.act = "accept" /\ UNCHANGED doors
    BY DEF Accept
  <1>3. Ends(t) \/ \E s \in Step \ {"mail"} : Goes(t, s)
    BY <1>1 DEF Accept
  <1>4. heart' \in [Climber -> Climber \cup {None, Regular}]
    BY <1>1 DEF Accept, TypeOK
  <1>5. UNCHANGED bonds \/ SetProposal(t, None)
    BY DEF Accept
  <1>6. UNCHANGED <<away, pending>> \/ \E c \in Climber : Written(c)
    BY <1>1 DEF Accept
  <1>7. /\ away' \subseteq Climber
        /\ pending' \in [Climber -> {Nothing} \cup [act: Act, with: Climber]]
        /\ \A x \in Climber : pending'[x].with # x
        /\ \A x \in Climber : pending'[x] \in {pending[x], Nothing}
    <2>1. CASE UNCHANGED <<away, pending>>
      BY <2>1, NotWritten
    <2>2. ASSUME NEW c \in Climber, Written(c)
          PROVE  /\ away' \subseteq Climber
                 /\ pending' \in [Climber -> {Nothing} \cup [act: Act, with: Climber]]
                 /\ \A x \in Climber : pending'[x].with # x
                 /\ \A x \in Climber : pending'[x] \in {pending[x], Nothing}
      BY <2>2, WrittenRow
    <2> QED
      BY <1>6, <2>1, <2>2
  <1>8. /\ bonds' \in [Pair -> BondType]
        /\ \A p \in Pair : bonds'[p].flirted \subseteq p /\ bonds'[p].proposal \in p \cup {None}
    BY <1>5, ProposalSet, SameBonds
  <1>9. tasks' \subseteq [by: Climber, act: Act, with: Climber, at: Step, no: Nat]
    BY <1>3, TaskStep
  <1>10. TypeOK'
    BY <1>2, <1>4, <1>7, <1>8, <1>9, MuddleGrows DEF TypeOK, BondType
  <1> QED
    BY <1>2, <1>3, <1>7, <1>10

LEMMA DivorceTyped ==
    ASSUME TypeOK, TaskInv, NEW t \in tasks, Divorce(t), UNCHANGED <<open, asked, interrupted, acts>>, Spreads(t)
    PROVE  /\ TypeOK' /\ \A c \in Climber : pending'[c] \in {pending[c], Nothing}
           /\ Ends(t) \/ \E s \in Step \ {"mail"} : Goes(t, s)
           /\ t.act = "divorce"
           /\ \A c, d \in Climber : c # d => Proposal(c, d)' \in {Proposal(c, d), None}
  <1>1. /\ t.by \in Climber /\ t.with \in Climber /\ t.by # t.with
        /\ Step = {"first", "settle", "withdraw", "undo", "mail"}
    BY DEF TypeOK, TaskInv, Step
  <1>2. t.act = "divorce" /\ UNCHANGED doors
    BY DEF Divorce
  <1>3. Ends(t) \/ \E s \in Step \ {"mail"} : Goes(t, s)
    BY <1>1 DEF Divorce
  <1>4. heart' \in [Climber -> Climber \cup {None, Regular}]
    BY <1>1 DEF Divorce, TypeOK
  <1>5. UNCHANGED bonds \/ bonds' = [bonds EXCEPT ![{t.by, t.with}] = NoBond]
    BY DEF Divorce
  <1>6. UNCHANGED <<away, pending>> \/ Written(t.with)
    BY <1>1 DEF Divorce
  <1>7. /\ away' \subseteq Climber
        /\ pending' \in [Climber -> {Nothing} \cup [act: Act, with: Climber]]
        /\ \A x \in Climber : pending'[x].with # x
        /\ \A x \in Climber : pending'[x] \in {pending[x], Nothing}
    BY <1>1, <1>6, WrittenRow, NotWritten
  <1>8. /\ bonds' \in [Pair -> BondType]
        /\ \A p \in Pair : bonds'[p].flirted \subseteq p /\ bonds'[p].proposal \in p \cup {None}
        /\ \A c, d \in Climber : c # d => Proposal(c, d)' \in {Proposal(c, d), None}
    <2>1. CASE UNCHANGED bonds
      BY <2>1, SameBonds
    <2>2. CASE bonds' = [bonds EXCEPT ![{t.by, t.with}] = NoBond]
      <3>1. bonds \in [Pair -> BondType] /\ {t.by, t.with} \in Pair
        BY <1>1, Pairs DEF TypeOK, BondType
      <3>2. NoBond \in BondType /\ NoBond.flirted = {} /\ NoBond.proposal = None
        BY DEF NoBond, BondType
      <3> HIDE DEF NoBond
      <3>3. /\ bonds' \in [Pair -> BondType]
            /\ \A q \in Pair : bonds'[q] = IF q = {t.by, t.with} THEN NoBond ELSE bonds[q]
        BY <2>2, <3>1, <3>2
      <3>4. \A p \in Pair : bonds'[p].flirted \subseteq p /\ bonds'[p].proposal \in p \cup {None}
        BY <3>2, <3>3 DEF TypeOK
      <3>5. \A c, d \in Climber : c # d => Proposal(c, d)' \in {Proposal(c, d), None}
        BY <3>2, <3>3, Pairs DEF Proposal
      <3> QED
        BY <3>3, <3>4, <3>5
    <2> QED
      BY <1>5, <2>1, <2>2
  <1>9. tasks' \subseteq [by: Climber, act: Act, with: Climber, at: Step, no: Nat]
    BY <1>3, TaskStep
  <1>10. TypeOK'
    BY <1>2, <1>4, <1>7, <1>8, <1>9, MuddleGrows DEF TypeOK, BondType
  <1> QED
    BY <1>2, <1>3, <1>7, <1>8, <1>10

LEMMA InterruptTyped ==
    ASSUME TypeOK, NEW t \in tasks, Interrupt(t)
    PROVE  TypeOK'
  BY DEF Interrupt, Ends, TypeOK

-----------------------------------------------------------------------------
(* Handlers *)

\* One weighty thing a calm climber, whatever step a handler takes.
LEMMA HandlersStep ==
    ASSUME TypeOK, TaskInv, NEW t \in tasks, Calm' \subseteq Calm,
           Ends(t) \/ \E s \in Step : Goes(t, s) /\ (s = "mail" => t.act \notin {"accept", "divorce"}),
           \A c \in Climber : pending'[c] \in {pending[c], Nothing}
    PROVE  TaskInv'
  <1>1. \A u \in tasks' : \/ u \in tasks /\ u # t
                          \/ u.by = t.by /\ u.act = t.act /\ u.with = t.with
    BY TaskStep
  <1>2. \A u \in tasks' : u.by \in Climber
    BY <1>1 DEF TypeOK
  <1>3. \A u \in tasks' : u.by # u.with
    BY <1>1 DEF TaskInv
  <1>4. ASSUME NEW u \in tasks', u.by \in Calm', u.act \in Weighty
        PROVE  pending'[u.by].act \notin Weighty
    <2>1. pending[u.by].act \notin Weighty
      BY <1>1, <1>4 DEF TaskInv
    <2>2. Nothing.act \notin Weighty
      BY DEF Nothing, Weighty
    <2> QED
      BY <1>2, <2>1, <2>2
  <1>5. t \in [by: Climber, act: Act, with: Climber, at: Step, no: Nat]
    BY DEF TypeOK
  <1>6. ASSUME NEW u \in tasks', NEW v \in tasks', u.by = v.by, u.by \in Calm',
               {u.act, v.act} \subseteq Weighty
        PROVE  u = v
    <2>1. CASE Ends(t)
      BY <1>6, <2>1 DEF Ends, TaskInv
    <2>2. ASSUME NEW s \in Step, Goes(t, s) PROVE u = v
      <3> DEFINE n == [t EXCEPT !.at = s]
      <3>1. n.by = t.by /\ n.act = t.act
        BY <1>5
      <3>2. tasks' = (tasks \ {t}) \cup {n}
        BY <2>2 DEF Goes
      <3> HIDE DEF n
      <3>3. u.by \in Calm
        BY <1>6
      <3> QED
        BY <1>6, <3>1, <3>2, <3>3 DEF TaskInv
    <2> QED
      BY <2>1, <2>2
  <1>7. \A u \in tasks' : u.at = "mail" => u.act \notin {"accept", "divorce"}
    <2>1. CASE Ends(t)
      BY <2>1 DEF Ends, TaskInv
    <2>2. ASSUME NEW s \in Step, Goes(t, s), s = "mail" => t.act \notin {"accept", "divorce"}
          PROVE  \A u \in tasks' : u.at = "mail" => u.act \notin {"accept", "divorce"}
      <3> DEFINE n == [t EXCEPT !.at = s]
      <3>1. n.act = t.act /\ n.at = s
        BY <1>5
      <3>2. tasks' = (tasks \ {t}) \cup {n}
        BY <2>2 DEF Goes
      <3> HIDE DEF n
      <3> QED
        BY <2>2, <3>1, <3>2 DEF TaskInv
    <2> QED
      BY <2>1, <2>2
  <1> QED
    BY <1>3, <1>4, <1>6, <1>7 DEF TaskInv

\* What is under way of others is as it was.
LEMMA OthersStay ==
    ASSUME TypeOK, TaskInv, NEW t \in tasks, Ends(t) \/ \E s \in Step : Goes(t, s),
           NEW c \in Climber, NEW d \in Climber
    PROVE  /\ c # t.by \/ t.act # "accept" => (Wedding(c, d)' <=> Wedding(c, d))
           /\ c # t.by \/ t.act # "divorce" => (Leaving(c, d)' <=> Leaving(c, d))
           /\ c # t.by \/ t.act # "divorce" => (Divorcing(c, d)' <=> Divorcing(c, d))
  <1>1. /\ \A u \in tasks' : \/ u \in tasks /\ u # t
                             \/ u.by = t.by /\ u.act = t.act /\ u.with = t.with
        /\ \A u \in tasks : u # t => u \in tasks'
    BY TaskStep
  <1>2. c # t.by \/ t.act # "accept" => (Wedding(c, d)' <=> Wedding(c, d))
    BY <1>1 DEF Wedding
  <1>3. c # t.by \/ t.act # "divorce" => (Leaving(c, d)' <=> Leaving(c, d))
    BY <1>1 DEF Leaving
  <1>4. c # t.by \/ t.act # "divorce" => (Divorcing(c, d)' <=> Divorcing(c, d))
    BY <1>1 DEF Divorcing
  <1> QED
    BY <1>2, <1>3, <1>4

\* What is under way of the handler's own climber.
LEMMA OwnNow ==
    ASSUME TaskInv, NEW t \in tasks, t.by \in Calm, t.act \in Weighty, NEW d
    PROVE  /\ Wedding(t.by, d) <=> t.act = "accept" /\ d = t.with /\ t.at # "withdraw"
           /\ Leaving(t.by, d) <=> t.act = "divorce" /\ d = t.with /\ t.at = "first"
           /\ Divorcing(t.by, d) <=> t.act = "divorce" /\ d = t.with
  <1>1. \A u \in tasks : u.by = t.by /\ u.act \in {"accept", "divorce"} => u = t
    BY DEF TaskInv, Weighty
  <1> QED
    BY <1>1 DEF Wedding, Leaving, Divorcing

LEMMA OwnGoes ==
    ASSUME TypeOK, TaskInv, NEW t \in tasks, t.by \in Calm, t.act \in Weighty,
           NEW s \in Step, Goes(t, s), NEW d
    PROVE  /\ Wedding(t.by, d)' <=> t.act = "accept" /\ d = t.with /\ s # "withdraw"
           /\ Leaving(t.by, d)' <=> t.act = "divorce" /\ d = t.with /\ s = "first"
           /\ Divorcing(t.by, d)' <=> t.act = "divorce" /\ d = t.with
  <1> DEFINE n == [t EXCEPT !.at = s]
  <1>1. n.by = t.by /\ n.act = t.act /\ n.with = t.with /\ n.at = s
    BY DEF TypeOK
  <1>2. tasks' = (tasks \ {t}) \cup {n}
    BY DEF Goes
  <1> HIDE DEF n
  <1>3. \A u \in tasks' : u.by = t.by /\ u.act \in {"accept", "divorce"} => u = n
    BY <1>2 DEF TaskInv, Weighty
  <1>4. n \in tasks'
    BY <1>2
  <1>5. Wedding(t.by, d)' <=> t.act = "accept" /\ d = t.with /\ s # "withdraw"
    BY <1>1, <1>3, <1>4 DEF Wedding
  <1>6. Leaving(t.by, d)' <=> t.act = "divorce" /\ d = t.with /\ s = "first"
    BY <1>1, <1>3, <1>4 DEF Leaving
  <1>7. Divorcing(t.by, d)' <=> t.act = "divorce" /\ d = t.with
    BY <1>1, <1>3, <1>4 DEF Divorcing
  <1> QED
    BY <1>5, <1>6, <1>7

LEMMA OwnEnds ==
    ASSUME TaskInv, NEW t \in tasks, t.by \in Calm, t.act \in Weighty, Ends(t), NEW d
    PROVE  ~Wedding(t.by, d)' /\ ~Leaving(t.by, d)' /\ ~Divorcing(t.by, d)'
  <1>1. \A u \in tasks' : ~(u.by = t.by /\ u.act \in {"accept", "divorce"})
    BY DEF Ends, TaskInv, Weighty
  <1> QED
    BY <1>1 DEF Wedding, Leaving, Divorcing

\* Nothing weighty is under way of a calm climber whose pending request is.
LEMMA NothingUnderWay ==
    ASSUME TaskInv, NEW c \in Calm, pending[c].act \in Weighty, NEW d
    PROVE  ~Wedding(c, d) /\ ~Leaving(c, d) /\ ~Divorcing(c, d)
  BY DEF TaskInv, Wedding, Leaving, Divorcing, Weighty

-----------------------------------------------------------------------------
(* What was asked *)

\* No step of a handler makes a proposal that was not asked for, or a yes.
LEMMA AskedHolds ==
    ASSUME TypeOK, TaskInv, AskedInv, NEW t \in tasks, UNCHANGED asked,
           Ends(t) \/ \E s \in Step \ {"first"} : Goes(t, s),
           \A c \in Climber : pending'[c] \in {pending[c], Nothing},
           \A c, d \in Climber : c # d =>
              \/ Proposal(c, d)' \in {Proposal(c, d), None}
              \/ t.act = "propose" /\ {c, d} = {t.by, t.with} /\ Proposal(c, d)' = t.by
    PROVE  AskedInv'
  <1>1. \A u \in tasks' : \/ u \in tasks /\ u # t
                          \/ u.by = t.by /\ u.act = t.act /\ u.with = t.with
    BY TaskStep
  <1>2. ASSUME NEW c \in Climber, NEW d \in Climber, c # d, Proposal(c, d)' = c
        PROVE  <<c, d>> \in asked'
    <2>1. CASE Proposal(c, d)' \in {Proposal(c, d), None}
      BY <1>2, <2>1 DEF AskedInv
    <2>2. CASE t.act = "propose" /\ {c, d} = {t.by, t.with} /\ Proposal(c, d)' = t.by
      <3>1. c = t.by /\ d = t.with
        BY <1>2, <2>2
      <3> QED
        BY <2>2, <3>1 DEF AskedInv
    <2> QED
      BY <1>2, <2>1, <2>2
  <1>3. \A u \in tasks' : u.act = "propose" => <<u.by, u.with>> \in asked'
    BY <1>1 DEF AskedInv
  <1>4. \A c \in Climber : pending'[c].act = "accept" => <<pending'[c].with, c>> \in asked'
    BY DEF AskedInv, Nothing
  <1>5. NobodyIsWedUnasked'
    <2>1. CASE Ends(t)
      BY <2>1 DEF Ends, AskedInv, NobodyIsWedUnasked
    <2>2. ASSUME NEW s \in Step \ {"first"}, Goes(t, s) PROVE NobodyIsWedUnasked'
      <3>1. [t EXCEPT !.at = s].at = s
        BY DEF TypeOK
      <3> QED
        BY <2>2, <3>1 DEF Goes, AskedInv, NobodyIsWedUnasked
    <2> QED
      BY <2>1, <2>2
  <1> QED
    BY <1>2, <1>3, <1>4, <1>5 DEF AskedInv

-----------------------------------------------------------------------------
(* Who has said yes, under a handler's step *)

\* A pending request stays only where the row does.
LEMMA PendHolds ==
    ASSUME PendInv,
           \A c \in Climber : pending'[c] \in {pending[c], Nothing},
           \A c \in Climber : heart'[c] = heart[c] \/ pending'[c] = Nothing
    PROVE  PendInv'
  <1>1. Nothing.act = "none"
    BY DEF Nothing
  <1> SUFFICES ASSUME NEW c \in Climber
               PROVE  /\ pending'[c].act = "accept" => heart'[c] = None
                      /\ pending'[c].act = "divorce" => heart'[c] = pending'[c].with
    BY DEF PendInv
  <1> QED
    BY <1>1 DEF PendInv

LEMMA AcceptHolds ==
    ASSUME TypeOK, TaskInv, AcceptInv, NEW t \in tasks, Calm' \subseteq Calm,
           Ends(t) \/ \E s \in Step : Goes(t, s),
           t.act = "accept" /\ t.at = "withdraw" => Ends(t),
           \A c \in Climber : pending'[c] \in {pending[c], Nothing},
           \A d \in Climber : \/ heart'[d] \in {heart[d], None}
                              \/ t.act = "accept" /\ d = t.with /\ heart'[d] = t.by /\ Goes(t, "withdraw"),
           \A c, d \in Climber : c # d =>
              \/ Proposal(c, d)' \in {Proposal(c, d), None}
              \/ t.act = "propose" /\ {c, d} = {t.by, t.with} /\ Proposal(c, d)' = t.by
    PROVE  AcceptInv' /\ \A c \in Calm, d \in Climber : Accepting(c, d)' => Accepting(c, d)
  <1>1. t.by \in Climber /\ t.with \in Climber /\ "withdraw" \in Step
    BY DEF TypeOK, Step
  <1>2. ASSUME NEW c \in Calm, NEW d \in Climber, Wedding(c, d)' PROVE Wedding(c, d)
    <2>1. CASE c # t.by \/ t.act # "accept"
      BY <1>2, <2>1, OthersStay DEF Calm
    <2>2. CASE c = t.by /\ t.act = "accept" /\ Ends(t)
      BY <1>2, <2>2, OwnEnds DEF Weighty
    <2>3. ASSUME c = t.by, t.act = "accept", NEW s \in Step, Goes(t, s), ~Ends(t) PROVE Wedding(c, d)
      <3>1. d = t.with
        BY <1>2, <2>3, OwnGoes DEF Weighty
      <3> QED
        BY <2>3, <3>1, OwnNow DEF Weighty
    <2> QED
      BY <2>1, <2>2, <2>3
  <1>3. ASSUME NEW c \in Calm, NEW d \in Climber, Accepting(c, d)' PROVE Accepting(c, d)
    BY <1>2, <1>3 DEF Accepting, Nothing, Calm
  <1>4. ASSUME NEW c \in Calm', NEW d \in Calm', Accepting(c, d)'
        PROVE  c # d /\ Proposal(c, d)' # c /\ ~Accepting(d, c)' /\ heart'[d] # c
    <2>1. c \in Calm /\ d \in Calm /\ c \in Climber /\ d \in Climber
      BY DEF Calm
    <2>2. Accepting(c, d) /\ c # d /\ Proposal(c, d) # c /\ ~Accepting(d, c) /\ heart[d] # c
      BY <1>3, <1>4, <2>1 DEF AcceptInv
    <2>3. c = t.by /\ t.act \in Weighty => t.act = "accept"
      <3> SUFFICES ASSUME c = t.by, t.act \in Weighty PROVE t.act = "accept"
        OBVIOUS
      <3>1. pending[t.by].act # "accept"
        BY <2>1 DEF TaskInv, Weighty
      <3>2. Wedding(t.by, d)
        BY <2>2, <3>1 DEF Accepting
      <3> QED
        BY <2>1, <3>2, OwnNow
    <2>4. Proposal(c, d)' # c
      <3>1. CASE Proposal(c, d)' \in {Proposal(c, d), None}
        BY <2>1, <2>2, <3>1
      <3>2. CASE t.act = "propose" /\ Proposal(c, d)' = t.by
        BY <2>3, <3>2 DEF Weighty
      <3> QED
        BY <2>1, <2>2, <3>1, <3>2
    <2>5. heart'[d] # c
      <3>1. CASE heart'[d] \in {heart[d], None}
        BY <2>1, <2>2, <3>1
      <3>2. CASE t.act = "accept" /\ d = t.with /\ heart'[d] = t.by /\ Goes(t, "withdraw")
        <4> SUFFICES ASSUME c = t.by PROVE FALSE
          BY <3>2
        <4>1. ~Wedding(t.by, d)'
          BY <1>1, <2>1, <3>2, OwnGoes DEF Weighty
        <4>2. pending[t.by].act # "accept"
          BY <2>1, <3>2 DEF TaskInv, Weighty
        <4> QED
          BY <1>4, <2>1, <4>1, <4>2 DEF Accepting, Nothing
      <3> QED
        BY <2>1, <3>1, <3>2
    <2> QED
      BY <1>3, <2>1, <2>2, <2>4, <2>5
  <1> QED
    BY <1>3, <1>4 DEF AcceptInv

\* A step that marries no calm climber and ends nothing leaves marriages as they are.
LEMMA MarriageHolds ==
    ASSUME MarriageInv, Calm' \subseteq Calm,
           \A c \in Calm' : heart'[c] = heart[c],
           \A c \in Calm', d \in Climber :
              /\ Wedding(c, d)' <=> Wedding(c, d)
              /\ Leaving(c, d)' <=> Leaving(c, d)
              /\ Divorcing(c, d)' <=> Divorcing(c, d)
              /\ Accepting(c, d)' => Accepting(c, d),
           \A c, d \in Calm' : Leaving(d, c) /\ Proposal(c, d) # d => Proposal(c, d)' # d
    PROVE  MarriageInv'
  <1>1. Calm' \subseteq Climber
    BY DEF Calm
  <1>2. \A c \in Calm', d \in Climber : Wedding(c, d)' => heart'[c] = d
    BY DEF MarriageInv
  <1>3. \A c, d \in Calm' : heart'[c] = d => heart'[d] = c \/ Wedding(c, d)' \/ Leaving(d, c)'
    BY <1>1 DEF MarriageInv
  <1>4. ASSUME NEW c \in Calm', NEW d \in Calm', Leaving(d, c)'
        PROVE  /\ heart'[d] # c /\ ~Accepting(c, d)'
               /\ heart'[c] = d \/ Divorcing(c, d)' \/ Proposal(c, d)' # d
    BY <1>1, <1>4 DEF MarriageInv
  <1> QED
    BY <1>2, <1>3, <1>4 DEF MarriageInv

-----------------------------------------------------------------------------
(* Each action keeps the invariant *)

LEMMA QuietKeeps ==
    ASSUME Inv, NEW t \in tasks, QuietStep(t), UNCHANGED <<open, asked, interrupted, acts>>, Spreads(t)
    PROVE  Inv'
  <1>1. TypeOK /\ TaskInv /\ PendInv /\ AskedInv /\ AcceptInv
    BY DEF Inv
  <1>2. Quiet(t) /\ TypeOK'
    BY <1>1, QuietSteps
  <1>3. /\ Ends(t) \/ \E s \in Step \ {"first"} : Goes(t, s)
        /\ \A c \in Climber : pending'[c] \in {pending[c], Nothing}
        /\ t.act \notin {"accept", "divorce"} /\ UNCHANGED <<heart, asked>>
    BY <1>2 DEF Quiet
  <1>4. \A c, d \in Climber : c # d =>
          \/ Proposal(c, d)' \in {Proposal(c, d), None}
          \/ t.act = "propose" /\ {c, d} = {t.by, t.with} /\ Proposal(c, d)' = t.by
    BY <1>2 DEF Quiet
  <1>5. Calm' \subseteq Calm /\ Calm \subseteq Climber
    BY <1>1, MuddleGrows DEF Calm
  <1>6. TaskInv'
    BY <1>1, <1>3, <1>5, HandlersStep
  <1>7. PendInv'
    BY <1>1, <1>3, PendHolds
  <1>8. AskedInv'
    BY <1>1, <1>3, <1>4, AskedHolds
  <1>9. AcceptInv' /\ \A c \in Calm, d \in Climber : Accepting(c, d)' => Accepting(c, d)
    <2>1. \A d \in Climber : heart'[d] \in {heart[d], None}
      BY <1>3
    <2> QED
      BY <1>1, <1>3, <1>4, <1>5, <2>1, AcceptHolds
  <1>10. ASSUME MarriageInv PROVE MarriageInv'
    <2>1. \A c, d \in Climber : /\ Wedding(c, d)' <=> Wedding(c, d)
                                /\ Leaving(c, d)' <=> Leaving(c, d)
                                /\ Divorcing(c, d)' <=> Divorcing(c, d)
      BY <1>1, <1>3, OthersStay
    <2>2. ASSUME NEW c \in Calm', NEW d \in Calm', Leaving(d, c), Proposal(c, d) # d
          PROVE  Proposal(c, d)' # d
      <3>1. c # d /\ d \in Calm
        BY <1>1, <1>5, <2>2 DEF Leaving, TaskInv
      <3>2. ~(t.act = "propose" /\ d = t.by)
        BY <1>1, <2>2, <3>1, OwnNow DEF Weighty
      <3>3. d # None
        BY <1>5
      <3> QED
        BY <1>4, <1>5, <2>2, <3>1, <3>2, <3>3
    <2> QED
      BY <1>3, <1>5, <1>9, <1>10, <2>1, <2>2, MarriageHolds
  <1> QED
    BY <1>2, <1>3, <1>6, <1>7, <1>8, <1>9, <1>10 DEF Inv

\* The steps of a yes.
LEMMA AcceptKeeps ==
    ASSUME Inv, NEW t \in tasks, Accept(t), UNCHANGED <<open, asked, interrupted, acts>>, Spreads(t)
    PROVE  Inv'
  <1> DEFINE b == t.by
             w == t.with
  <1>1. /\ TypeOK /\ TaskInv /\ PendInv /\ AskedInv /\ AcceptInv
        /\ b \in Climber /\ w \in Climber /\ b # w
        /\ Step = {"first", "settle", "withdraw", "undo", "mail"}
        /\ heart \in [Climber -> Climber \cup {None, Regular}]
    BY DEF Inv, TypeOK, TaskInv, Step
  <1>2. /\ TypeOK' /\ \A c \in Climber : pending'[c] \in {pending[c], Nothing}
        /\ Ends(t) \/ \E s \in Step \ {"mail"} : Goes(t, s)
        /\ t.act = "accept"
    BY <1>1, AcceptTyped
  <1>3. /\ Calm' \subseteq Calm /\ Calm \subseteq Climber /\ Calm' \subseteq Climber
        /\ b \notin Calm => w \notin Calm'
    BY <1>1, <1>2, MuddleGrows DEF Calm
  <1>4. b \in Calm => \A d : Wedding(b, d) <=> d = w /\ t.at # "withdraw"
    BY <1>1, <1>2, OwnNow DEF Weighty
  <1>5. \A c, d \in Climber : /\ c # b => (Wedding(c, d)' <=> Wedding(c, d))
                              /\ Leaving(c, d)' <=> Leaving(c, d)
                              /\ Divorcing(c, d)' <=> Divorcing(c, d)
    BY <1>1, <1>2, OthersStay
  <1>6. \/ t.at = "first" /\ heart[w] = None /\ heart' = [heart EXCEPT ![w] = b] /\ Written(w)
              /\ Goes(t, "withdraw") /\ UNCHANGED bonds
        \/ t.at = "first" /\ UNCHANGED <<heart, bonds>> /\ Written(w) /\ Goes(t, "settle")
        \/ t.at = "withdraw" /\ UNCHANGED <<heart, pending>> /\ SetProposal(t, None) /\ Ends(t)
        \/ t.at = "settle" /\ UNCHANGED <<heart, pending>> /\ SetProposal(t, None) /\ Goes(t, "undo")
        \/ t.at = "undo" /\ heart' = [heart EXCEPT ![b] = None] /\ Written(b) /\ Ends(t) /\ UNCHANGED bonds
    BY DEF Accept, Wed
  <1> HIDE DEF b, w
  <1>7. \A c, d \in Climber : c # d => Proposal(c, d)' \in {Proposal(c, d), None}
    <2>1. UNCHANGED bonds \/ SetProposal(t, None)
      BY <1>6
    <2>2. ASSUME SetProposal(t, None)
          PROVE  \A c, d \in Climber : c # d =>
                    Proposal(c, d)' = IF {c, d} = {t.by, t.with} THEN None ELSE Proposal(c, d)
      BY <1>1, <2>2, ProposalSet
    <2>3. ASSUME UNCHANGED bonds
          PROVE  \A c, d \in Climber : Proposal(c, d)' = Proposal(c, d)
      BY <2>3 DEF Proposal
    <2> QED
      BY <2>1, <2>2, <2>3
  <1>8. \A c \in Climber : heart'[c] = heart[c] \/ pending'[c] = Nothing
    BY <1>1, <1>6, WrittenRow
  <1>9. TaskInv'
    BY <1>1, <1>2, <1>3, HandlersStep
  <1>10. PendInv'
    BY <1>1, <1>2, <1>8, PendHolds
  <1>11. AskedInv'
    <2>1. Ends(t) \/ \E s \in Step \ {"first"} : Goes(t, s)
      BY <1>1, <1>6
    <2> QED
      BY <1>1, <1>2, <1>7, <2>1, AskedHolds
  <1>12. \A d \in Climber : \/ heart'[d] \in {heart[d], None}
                            \/ t.act = "accept" /\ d = w /\ heart'[d] = b /\ Goes(t, "withdraw")
    BY <1>1, <1>2, <1>6
  <1>13. AcceptInv' /\ \A c \in Calm, d \in Climber : Accepting(c, d)' => Accepting(c, d)
    <2>1. t.act = "accept" /\ t.at = "withdraw" => Ends(t)
      BY <1>6
    <2>2. Ends(t) \/ \E s \in Step : Goes(t, s)
      BY <1>2
    <2> QED
      BY <1>1, <1>2, <1>3, <1>7, <1>12, <2>1, <2>2, AcceptHolds DEF b, w
  <1>14. ASSUME NEW c \in Calm', NEW d \in Calm', Leaving(d, c), Proposal(c, d) # d
         PROVE  Proposal(c, d)' # d
    <2>1. c # d
      BY <1>1, <1>14 DEF Leaving, TaskInv
    <2>2. d # None
      BY <1>3
    <2> QED
      BY <1>3, <1>7, <1>14, <2>1, <2>2
  <1>15. ASSUME MarriageInv, \A c \in Calm' : heart'[c] = heart[c],
                b \in Calm => \A d : Wedding(b, d)' <=> Wedding(b, d)
         PROVE  MarriageInv'
    <2>1. \A c \in Calm', d \in Climber : Wedding(c, d)' <=> Wedding(c, d)
      BY <1>3, <1>5, <1>15
    <2> QED
      BY <1>3, <1>5, <1>13, <1>14, <1>15, <2>1, MarriageHolds
  <1>16. ASSUME MarriageInv, b \notin Calm PROVE MarriageInv'
    <2>1. \A c \in Calm' : c # b /\ c # w
      BY <1>3, <1>16
    <2>2. \A c \in Calm' : heart'[c] = heart[c]
      BY <1>1, <1>3, <1>6, <2>1
    <2> QED
      BY <1>15, <1>16, <2>2
  <1>17. ASSUME MarriageInv, b \in Calm PROVE MarriageInv'
    <2>1. CASE t.at = "first" /\ heart[w] = None /\ heart' = [heart EXCEPT ![w] = b] /\ Written(w)
                  /\ Goes(t, "withdraw") /\ UNCHANGED bonds
      <3>1. Wedding(b, w) /\ heart[b] = w
        BY <1>1, <1>4, <1>17, <2>1 DEF MarriageInv
      <3>2. \A d : ~Wedding(b, d)'
        BY <1>1, <1>2, <1>17, <2>1, OwnGoes DEF b, Weighty
      <3>3. heart'[w] = b /\ \A c \in Climber : c # w => heart'[c] = heart[c]
        BY <1>1, <2>1
      <3>4. ASSUME NEW c \in Calm', NEW d \in Climber, Wedding(c, d)' PROVE heart'[c] = d
        <4>1. c # b /\ Wedding(c, d) /\ heart[c] = d
          BY <1>3, <1>5, <1>17, <3>2, <3>4 DEF MarriageInv
        <4>2. c # w
          BY <2>1, <4>1
        <4> QED
          BY <1>3, <3>3, <4>1, <4>2
      <3>5. ASSUME NEW c \in Calm', NEW d \in Calm', heart'[c] = d
            PROVE  heart'[d] = c \/ Wedding(c, d)' \/ Leaving(d, c)'
        <4>1. CASE c = w
          BY <1>1, <3>1, <3>3, <3>5, <4>1
        <4>2. CASE c = b
          BY <1>1, <3>1, <3>3, <3>5, <4>2
        <4>3. CASE c # w /\ c # b
          <5>1. heart[c] = d /\ (heart[d] = c \/ Wedding(c, d) \/ Leaving(d, c))
            BY <1>3, <1>17, <3>3, <3>5, <4>3 DEF MarriageInv
          <5>2. d = w => heart[d] # c
            BY <1>3, <2>1
          <5> QED
            BY <1>3, <1>5, <3>3, <4>3, <5>1, <5>2
        <4> QED
          BY <4>1, <4>2, <4>3
      <3>6. ASSUME NEW c \in Calm', NEW d \in Calm', Leaving(d, c)'
            PROVE  /\ heart'[d] # c /\ ~Accepting(c, d)'
                   /\ heart'[c] = d \/ Divorcing(c, d)' \/ Proposal(c, d)' # d
        <4>1. Leaving(d, c)
          BY <1>3, <1>5, <3>6
        <4>2. /\ heart[d] # c /\ ~Accepting(c, d)
              /\ heart[c] = d \/ Divorcing(c, d) \/ Proposal(c, d) # d
          BY <1>3, <1>17, <4>1 DEF MarriageInv
        <4>3. heart'[d] # c
          BY <1>1, <1>3, <3>1, <3>3, <4>2 DEF Accepting
        <4>4. heart[c] = d => heart'[c] = d
          BY <1>3, <2>1, <3>3
        <4>5. ~Accepting(c, d)'
          BY <1>3, <1>13, <4>2
        <4>6. Proposal(c, d) # d => Proposal(c, d)' # d
          BY <1>14, <4>1
        <4> QED
          BY <1>3, <1>5, <4>2, <4>3, <4>4, <4>5, <4>6
      <3> QED
        BY <3>4, <3>5, <3>6 DEF MarriageInv
    <2>2. CASE t.at = "first" /\ UNCHANGED <<heart, bonds>> /\ Written(w) /\ Goes(t, "settle")
      <3>1. \A d : Wedding(b, d)' <=> d = w
        BY <1>1, <1>2, <1>17, <2>2, OwnGoes DEF b, w, Weighty
      <3> QED
        BY <1>4, <1>15, <1>17, <2>2, <3>1
    <2>3. CASE t.at = "withdraw" /\ UNCHANGED <<heart, pending>> /\ SetProposal(t, None) /\ Ends(t)
      <3>1. \A d : ~Wedding(b, d)'
        BY <1>1, <1>2, <1>17, <2>3, OwnEnds DEF b, Weighty
      <3> QED
        BY <1>4, <1>15, <1>17, <2>3, <3>1
    <2>4. CASE t.at = "settle" /\ UNCHANGED <<heart, pending>> /\ SetProposal(t, None) /\ Goes(t, "undo")
      <3>1. \A d : Wedding(b, d)' <=> d = w
        BY <1>1, <1>2, <1>17, <2>4, OwnGoes DEF b, w, Weighty
      <3> QED
        BY <1>4, <1>15, <1>17, <2>4, <3>1
    <2>5. CASE t.at = "undo" /\ heart' = [heart EXCEPT ![b] = None] /\ Written(b) /\ Ends(t) /\ UNCHANGED bonds
      <3>1. Wedding(b, w) /\ heart[b] = w /\ (w \in Calm => heart[w] # b)
        BY <1>1, <1>4, <1>17, <2>5 DEF MarriageInv, AcceptInv, Accepting
      <3>2. \A d : ~Wedding(b, d)'
        BY <1>1, <1>2, <1>17, <2>5, OwnEnds DEF b, Weighty
      <3>3. heart'[b] = None /\ \A c \in Climber : c # b => heart'[c] = heart[c]
        BY <1>1, <2>5
      <3>4. ASSUME NEW c \in Calm', NEW d \in Climber, Wedding(c, d)' PROVE heart'[c] = d
        <4>1. c # b /\ Wedding(c, d) /\ heart[c] = d
          BY <1>3, <1>5, <1>17, <3>2, <3>4 DEF MarriageInv
        <4> QED
          BY <1>3, <3>3, <4>1
      <3>5. ASSUME NEW c \in Calm', NEW d \in Calm', heart'[c] = d
            PROVE  heart'[d] = c \/ Wedding(c, d)' \/ Leaving(d, c)'
        <4>1. c # b
          BY <1>3, <3>3, <3>5
        <4>2. heart[c] = d /\ (heart[d] = c \/ Wedding(c, d) \/ Leaving(d, c))
          BY <1>3, <1>17, <3>3, <3>5, <4>1 DEF MarriageInv
        <4>3. d = b => heart[d] # c
          BY <1>3, <3>1, <4>2
        <4> QED
          BY <1>3, <1>5, <3>3, <4>1, <4>2, <4>3
      <3>6. ASSUME NEW c \in Calm', NEW d \in Calm', Leaving(d, c)'
            PROVE  /\ heart'[d] # c /\ ~Accepting(c, d)'
                   /\ heart'[c] = d \/ Divorcing(c, d)' \/ Proposal(c, d)' # d
        <4>1. Leaving(d, c)
          BY <1>3, <1>5, <3>6
        <4>2. /\ heart[d] # c /\ ~Accepting(c, d)
              /\ heart[c] = d \/ Divorcing(c, d) \/ Proposal(c, d) # d
          BY <1>3, <1>17, <4>1 DEF MarriageInv
        <4>3. heart'[d] # c
          BY <1>3, <3>3, <4>2
        <4>4. c = b => heart[c] # d
          BY <3>1, <4>2 DEF Accepting
        <4>5. ~Accepting(c, d)'
          BY <1>3, <1>13, <4>2
        <4>6. Proposal(c, d) # d => Proposal(c, d)' # d
          BY <1>14, <4>1
        <4> QED
          BY <1>3, <1>5, <3>3, <4>2, <4>3, <4>4, <4>5, <4>6
      <3> QED
        BY <3>4, <3>5, <3>6 DEF MarriageInv
    <2> QED
      BY <1>6, <2>1, <2>2, <2>3, <2>4, <2>5
  <1> QED
    BY <1>2, <1>9, <1>10, <1>11, <1>13, <1>16, <1>17 DEF Inv

\* The steps of a divorce.
LEMMA DivorceKeeps ==
    ASSUME Inv, NEW t \in tasks, Divorce(t), UNCHANGED <<open, asked, interrupted, acts>>, Spreads(t)
    PROVE  Inv'
  <1> DEFINE b == t.by
             w == t.with
  <1>1. /\ TypeOK /\ TaskInv /\ PendInv /\ AskedInv /\ AcceptInv
        /\ b \in Climber /\ w \in Climber /\ b # w
        /\ Step = {"first", "settle", "withdraw", "undo", "mail"}
        /\ heart \in [Climber -> Climber \cup {None, Regular}]
    BY DEF Inv, TypeOK, TaskInv, Step
  <1>2. /\ TypeOK' /\ \A c \in Climber : pending'[c] \in {pending[c], Nothing}
        /\ Ends(t) \/ \E s \in Step \ {"mail"} : Goes(t, s)
        /\ t.act = "divorce"
    BY <1>1, DivorceTyped
  <1>3. \A c, d \in Climber : c # d => Proposal(c, d)' \in {Proposal(c, d), None}
    BY <1>1, DivorceTyped
  <1>4. b \in Calm => \A d : /\ Leaving(b, d) <=> d = w /\ t.at = "first"
                             /\ Divorcing(b, d) <=> d = w
    BY <1>1, <1>2, OwnNow DEF Weighty
  <1>5. \A c, d \in Climber : /\ Wedding(c, d)' <=> Wedding(c, d)
                              /\ c # b => (Leaving(c, d)' <=> Leaving(c, d))
                              /\ c # b => (Divorcing(c, d)' <=> Divorcing(c, d))
    BY <1>1, <1>2, OthersStay
  <1>6. \/ /\ t.at = "first" /\ Written(w) /\ Goes(t, "settle") /\ UNCHANGED bonds
           /\ heart' = IF heart[w] = b THEN [heart EXCEPT ![w] = None] ELSE heart
        \/ /\ t.at = "settle" /\ UNCHANGED <<heart, pending>> /\ Ends(t)
           /\ bonds' = [bonds EXCEPT ![{b, w}] = NoBond]
    BY DEF Divorce
  <1> HIDE DEF b, w
  <1>7. \A c \in Climber : heart'[c] = IF t.at = "first" /\ c = w /\ heart[w] = b THEN None ELSE heart[c]
    BY <1>1, <1>6
  <1>8. \A c \in Climber : heart'[c] = heart[c] \/ pending'[c] = Nothing
    BY <1>1, <1>6, <1>7, WrittenRow
  <1>9. /\ TaskInv' /\ Calm' \subseteq Calm /\ Calm \subseteq Climber /\ Calm' \subseteq Climber
        /\ b \notin Calm => w \notin Calm'
    BY <1>1, <1>2, MuddleGrows, HandlersStep DEF Calm, b, w
  <1>10. PendInv'
    BY <1>1, <1>2, <1>8, PendHolds
  <1>11. AskedInv'
    <2>1. Ends(t) \/ \E s \in Step \ {"first"} : Goes(t, s)
      BY <1>1, <1>6
    <2>2. asked' = asked
      OBVIOUS
    <2> QED
      BY <1>1, <1>2, <1>3, <2>1, <2>2, AskedHolds
  <1>12. AcceptInv' /\ \A c \in Calm, d \in Climber : Accepting(c, d)' => Accepting(c, d)
    <2>1. Ends(t) \/ \E s \in Step : Goes(t, s)
      BY <1>2
    <2>2. \A d \in Climber : heart'[d] \in {heart[d], None}
      BY <1>7
    <2> QED
      BY <1>1, <1>2, <1>3, <1>9, <2>1, <2>2, AcceptHolds
  <1>13. ASSUME NEW c \in Calm', NEW d \in Calm', Leaving(d, c), Proposal(c, d) # d
         PROVE  Proposal(c, d)' # d
    <2>1. c # d
      BY <1>1, <1>13 DEF Leaving, TaskInv
    <2>2. d # None
      BY <1>9
    <2> QED
      BY <1>3, <1>9, <1>13, <2>1, <2>2
  <1>14. ASSUME MarriageInv, b \notin Calm PROVE MarriageInv'
    <2>1. \A c \in Calm' : c # b /\ c # w /\ c \in Climber
      BY <1>9, <1>14
    <2>2. \A c \in Calm' : heart'[c] = heart[c]
      BY <1>7, <2>1
    <2> QED
      BY <1>5, <1>9, <1>12, <1>13, <1>14, <2>1, <2>2, MarriageHolds
  <1>15. ASSUME MarriageInv, b \in Calm PROVE MarriageInv'
    <2>1. \A d : ~Leaving(b, d)'
      <3>1. CASE Ends(t)
        BY <1>1, <1>2, <1>15, <3>1, OwnEnds DEF b, Weighty
      <3>2. CASE Goes(t, "settle")
        BY <1>1, <1>2, <1>15, <3>2, OwnGoes DEF b, Weighty
      <3> QED
        BY <1>6, <3>1, <3>2
    <2>2. t.at = "first" /\ w \in Calm => heart[b] # w /\ ~Accepting(w, b)
      BY <1>1, <1>4, <1>15 DEF MarriageInv
    <2>3. ASSUME NEW c \in Calm', NEW d \in Climber, Wedding(c, d)' PROVE heart'[c] = d
      <3>1. Wedding(c, d) /\ heart[c] = d
        BY <1>5, <1>9, <1>15, <2>3 DEF MarriageInv
      <3>2. ~(t.at = "first" /\ c = w /\ d = b)
        BY <1>9, <2>2, <3>1 DEF Accepting
      <3> QED
        BY <1>1, <1>7, <1>9, <3>1, <3>2
    <2>4. ASSUME NEW c \in Calm', NEW d \in Calm', heart'[c] = d
          PROVE  heart'[d] = c \/ Wedding(c, d)' \/ Leaving(d, c)'
      <3>1. heart[c] = d /\ ~(t.at = "first" /\ c = w /\ d = b)
        BY <1>7, <1>9, <2>4
      <3>2. heart[d] = c \/ Wedding(c, d) \/ Leaving(d, c)
        BY <1>9, <1>15, <3>1 DEF MarriageInv
      <3>3. ASSUME heart[d] = c PROVE heart'[d] = c
        <4>1. ~(t.at = "first" /\ d = w /\ c = b)
          BY <1>9, <2>2, <3>1
        <4> QED
          BY <1>7, <1>9, <3>3, <4>1
      <3>4. ASSUME Leaving(d, c) PROVE Leaving(d, c)'
        BY <1>4, <1>5, <1>9, <1>15, <3>1, <3>4
      <3> QED
        BY <1>5, <1>9, <3>2, <3>3, <3>4
    <2>5. ASSUME NEW c \in Calm', NEW d \in Calm', Leaving(d, c)'
          PROVE  /\ heart'[d] # c /\ ~Accepting(c, d)'
                 /\ heart'[c] = d \/ Divorcing(c, d)' \/ Proposal(c, d)' # d
      <3>1. d # b /\ Leaving(d, c)
        BY <1>5, <1>9, <2>1, <2>5
      <3>2. /\ heart[d] # c /\ ~Accepting(c, d)
            /\ heart[c] = d \/ Divorcing(c, d) \/ Proposal(c, d) # d
        BY <1>9, <1>15, <3>1 DEF MarriageInv
      <3>3. heart'[d] # c
        BY <1>7, <1>9, <3>2
      <3>4. ASSUME heart[c] = d PROVE heart'[c] = d
        BY <1>7, <1>9, <3>1, <3>4
      <3>5. ASSUME Proposal(c, d) # d PROVE Proposal(c, d)' # d
        BY <1>13, <3>1, <3>5
      <3>6. ASSUME Divorcing(c, d) PROVE Divorcing(c, d)' \/ Proposal(c, d)' # d
        <4>1. CASE c # b
          BY <1>5, <1>9, <3>6, <4>1
        <4>2. CASE c = b /\ t.at = "first"
          <5>1. Divorcing(b, w)'
            BY <1>1, <1>2, <1>6, <1>15, <4>2, OwnGoes DEF b, w, Weighty
          <5> QED
            BY <1>4, <1>15, <3>6, <4>2, <5>1
        <4>3. CASE c = b /\ t.at = "settle"
          <5>1. d = w /\ bonds' = [bonds EXCEPT ![{b, w}] = NoBond]
            BY <1>4, <1>6, <1>15, <3>6, <4>3
          <5>2. {b, w} \in DOMAIN bonds
            BY <1>1, Pairs DEF TypeOK
          <5>3. bonds'[{b, w}] = NoBond
            BY <5>1, <5>2
          <5>4. NoBond.proposal = None /\ d # None
            BY <1>9 DEF NoBond
          <5> HIDE DEF NoBond
          <5> QED
            BY <4>3, <5>1, <5>3, <5>4 DEF Proposal
        <4> QED
          BY <1>6, <4>1, <4>2, <4>3
      <3>7. ~Accepting(c, d)'
        BY <1>9, <1>12, <3>2
      <3> QED
        BY <3>2, <3>3, <3>4, <3>5, <3>6, <3>7
    <2> QED
      BY <2>3, <2>4, <2>5 DEF MarriageInv
  <1> QED
    BY <1>2, <1>9, <1>10, <1>11, <1>12, <1>14, <1>15 DEF Inv

\* A handler that dies leaves nothing worse than what it has not done.
LEMMA InterruptKeeps ==
    ASSUME Inv, NEW t \in tasks, Interrupt(t)
    PROVE  Inv'
  <1>1. TypeOK /\ TaskInv /\ PendInv /\ AskedInv /\ AcceptInv
    BY DEF Inv
  <1>2. Calm' = Calm /\ Ends(t) /\ interrupted' /\ UNCHANGED <<heart, open, away, bonds, doors, pending, asked, muddled, acts>>
    BY DEF Interrupt, Calm
  <1>3. TypeOK'
    BY <1>1, InterruptTyped
  <1>4. TaskInv'
    BY <1>1, <1>2, HandlersStep
  <1>5. PendInv'
    BY <1>1, <1>2, PendHolds
  <1>6. \A c, d \in Climber : c # d => Proposal(c, d)' \in {Proposal(c, d), None}
    BY <1>2 DEF Proposal
  <1>7. AskedInv'
    BY <1>1, <1>2, <1>6, AskedHolds
  <1>8. AcceptInv'
    <2>1. \A d \in Climber : heart'[d] \in {heart[d], None}
      BY <1>2
    <2> QED
      BY <1>1, <1>2, <1>6, <2>1, AcceptHolds
  <1> QED
    BY <1>2, <1>3, <1>4, <1>5, <1>7, <1>8 DEF Inv

\* A request is saved.
LEMMA SaveKeeps ==
    ASSUME Inv, NEW c \in Climber, Save(c)
    PROVE  Inv'
  <1> PICK no \in 0..MaxActs :
         tasks' = tasks \cup {[by |-> c, act |-> pending[c].act, with |-> pending[c].with,
                               at |-> "first", no |-> no]}
    BY DEF Save
  <1> DEFINE a == pending[c].act
             d == pending[c].with
             n == [by |-> c, act |-> a, with |-> d, at |-> "first", no |-> no]
  <1>1. TypeOK /\ TaskInv /\ PendInv /\ AskedInv /\ AcceptInv
    BY DEF Inv
  <1>2. /\ a # "none" /\ a \in Act /\ d \in Climber /\ d # c /\ pending[c] # Nothing
        /\ heart \in [Climber -> Climber \cup {None, Regular}]
    BY <1>1 DEF Save, TypeOK, Nothing
  <1>3. TypeOK'
    BY <1>1, SaveTyped
  <1>4. \A x \in Climber : pending'[x] = IF x = c THEN Nothing ELSE pending[x]
    BY <1>1, WrittenRow DEF Save
  <1>5. /\ heart'[c] = CASE a = "accept" -> d [] a = "divorce" -> None [] OTHER -> heart[c]
        /\ \A x \in Climber : x # c => heart'[x] = heart[x]
    BY <1>2 DEF Save
  <1>6. tasks' = tasks \cup {n} /\ UNCHANGED <<bonds, muddled, interrupted>> /\ Calm' = Calm
    BY DEF Save, Calm
  <1>7. asked' = IF a = "propose" THEN asked \cup {<<c, d>>} ELSE asked
    BY DEF Save
  <1>8. n.by = c /\ n.act = a /\ n.with = d /\ n.at = "first"
    OBVIOUS
  <1>9. /\ a = "accept" => heart[c] = None /\ Accepting(c, d)
        /\ a = "divorce" => heart[c] = d
    BY <1>1 DEF PendInv, Accepting
  <1>10. c \in Calm /\ a \in Weighty => \A t \in tasks : ~(t.by = c /\ t.act \in Weighty)
    BY <1>1 DEF TaskInv
  <1>11. Nothing.act = "none" /\ Calm \subseteq Climber
    BY DEF Nothing, Calm
  <1> HIDE DEF a, d, n
  <1>12. TaskInv'
    <2>1. \A t \in tasks' : t.by # t.with
      BY <1>1, <1>2, <1>6, <1>8 DEF TaskInv
    <2>2. ASSUME NEW t \in tasks', t.by \in Calm', t.act \in Weighty
          PROVE  pending'[t.by].act \notin Weighty
      <3>1. CASE t.by = c
        BY <1>4, <1>11, <3>1 DEF Weighty
      <3>2. CASE t.by # c
        <4>1. t \in tasks /\ t.by \in Climber
          BY <1>1, <1>6, <1>8, <2>2, <3>2 DEF TypeOK
        <4> QED
          BY <1>1, <1>4, <1>6, <2>2, <3>2, <4>1 DEF TaskInv
      <3> QED
        BY <3>1, <3>2
    <2>3. ASSUME NEW t \in tasks', NEW u \in tasks', t.by = u.by, t.by \in Calm',
                 {t.act, u.act} \subseteq Weighty
          PROVE  t = u
      BY <1>1, <1>6, <1>8, <1>10, <2>3 DEF TaskInv
    <2>4. \A t \in tasks' : t.at = "mail" => t.act \notin {"accept", "divorce"}
      BY <1>1, <1>6, <1>8 DEF TaskInv
    <2> QED
      BY <2>1, <2>2, <2>3, <2>4 DEF TaskInv
  <1>13. PendInv'
    BY <1>1, <1>4, <1>5, <1>11 DEF PendInv
  <1>14. AskedInv'
    <2>1. \A x, y \in Climber : x # y /\ Proposal(x, y)' = x => <<x, y>> \in asked'
      BY <1>1, <1>6, <1>7 DEF AskedInv, Proposal
    <2>2. \A t \in tasks' : t.act = "propose" => <<t.by, t.with>> \in asked'
      BY <1>1, <1>6, <1>7, <1>8 DEF AskedInv
    <2>3. \A x \in Climber : pending'[x].act = "accept" => <<pending'[x].with, x>> \in asked'
      BY <1>1, <1>4, <1>7, <1>11 DEF AskedInv
    <2>4. a = "accept" => <<d, c>> \in asked
      BY <1>1 DEF AskedInv, a, d
    <2>5. NobodyIsWedUnasked'
      BY <1>1, <1>6, <1>7, <1>8, <2>4 DEF AskedInv, NobodyIsWedUnasked
    <2> QED
      BY <2>1, <2>2, <2>3, <2>5 DEF AskedInv
  <1>15. ASSUME NEW x \in Climber, NEW y \in Climber
         PROVE  /\ Wedding(x, y)' <=> Wedding(x, y) \/ (x = c /\ y = d /\ a = "accept")
                /\ Leaving(x, y)' <=> Leaving(x, y) \/ (x = c /\ y = d /\ a = "divorce")
                /\ Divorcing(x, y)' <=> Divorcing(x, y) \/ (x = c /\ y = d /\ a = "divorce")
                /\ x = c /\ x \in Calm /\ a \in {"accept", "divorce"} =>
                      ~Wedding(x, y) /\ ~Leaving(x, y) /\ ~Divorcing(x, y)
    <2>1. Wedding(x, y)' <=> Wedding(x, y) \/ (x = c /\ y = d /\ a = "accept")
      BY <1>6, <1>8 DEF Wedding
    <2>2. Leaving(x, y)' <=> Leaving(x, y) \/ (x = c /\ y = d /\ a = "divorce")
      BY <1>6, <1>8 DEF Leaving
    <2>3. Divorcing(x, y)' <=> Divorcing(x, y) \/ (x = c /\ y = d /\ a = "divorce")
      BY <1>6, <1>8 DEF Divorcing
    <2>4. x = c /\ x \in Calm /\ a \in {"accept", "divorce"} =>
             ~Wedding(x, y) /\ ~Leaving(x, y) /\ ~Divorcing(x, y)
      BY <1>10 DEF Wedding, Leaving, Divorcing, Weighty
    <2> QED
      BY <2>1, <2>2, <2>3, <2>4
  <1>16. ASSUME NEW x \in Climber, NEW y \in Climber, Accepting(x, y)' PROVE Accepting(x, y)
    <2>1. CASE pending'[x].act = "accept" /\ pending'[x].with = y
      BY <1>4, <1>11, <2>1 DEF Accepting
    <2>2. CASE Wedding(x, y)'
      BY <1>9, <1>15, <2>2 DEF Accepting
    <2> QED
      BY <1>16, <2>1, <2>2 DEF Accepting
  <1>17. AcceptInv'
    <2> SUFFICES ASSUME NEW x \in Calm, NEW y \in Calm, Accepting(x, y)'
                 PROVE  x # y /\ Proposal(x, y)' # x /\ ~Accepting(y, x)' /\ heart'[y] # x
      BY <1>6 DEF AcceptInv
    <2>1. Accepting(x, y) /\ x # y /\ Proposal(x, y) # x /\ ~Accepting(y, x) /\ heart[y] # x
      BY <1>1, <1>11, <1>16 DEF AcceptInv
    <2>2. ~Accepting(y, x)'
      BY <1>11, <1>16, <2>1
    <2>3. heart'[y] # x
      BY <1>5, <1>9, <1>11, <2>1
    <2>4. Proposal(x, y)' # x
      BY <1>6, <2>1 DEF Proposal
    <2> QED
      BY <2>1, <2>2, <2>3, <2>4
  <1>18. ASSUME MarriageInv PROVE MarriageInv'
    <2>1. ASSUME NEW x \in Calm, NEW y \in Climber, Wedding(x, y)' PROVE heart'[x] = y
      BY <1>5, <1>11, <1>15, <1>18, <2>1 DEF MarriageInv
    <2>2. ASSUME NEW x \in Calm, NEW y \in Calm, heart'[x] = y
          PROVE  heart'[y] = x \/ Wedding(x, y)' \/ Leaving(y, x)'
      <3>1. CASE x = c /\ a = "accept"
        BY <1>5, <1>11, <1>15, <2>2, <3>1
      <3>2. CASE x = c /\ a = "divorce"
        BY <1>5, <1>11, <2>2, <3>2
      <3>3. CASE x # c \/ a \notin {"accept", "divorce"}
        <4>1. heart[x] = y /\ (heart[y] = x \/ Wedding(x, y) \/ Leaving(y, x))
          BY <1>5, <1>11, <1>18, <2>2, <3>3 DEF MarriageInv
        <4>2. ASSUME heart[y] = x PROVE heart'[y] = x \/ Leaving(y, x)'
          BY <1>5, <1>9, <1>11, <1>15, <3>3, <4>2
        <4> QED
          BY <1>11, <1>15, <4>1, <4>2
      <3> QED
        BY <3>1, <3>2, <3>3
    <2>3. ASSUME NEW x \in Calm, NEW y \in Calm, Leaving(y, x)'
          PROVE  /\ heart'[y] # x /\ ~Accepting(x, y)'
                 /\ heart'[x] = y \/ Divorcing(x, y)' \/ Proposal(x, y)' # y
      <3>1. CASE y = c /\ x = d /\ a = "divorce"
        <4>1. heart[c] = d
          BY <1>9, <3>1
        <4>2. heart'[y] # x
          BY <1>5, <1>11, <3>1
        <4>3. ~Accepting(x, y)'
          BY <1>1, <1>11, <1>16, <3>1, <4>1 DEF AcceptInv
        <4>4. heart[x] = c \/ Leaving(x, c)
          <5>1. ~Wedding(c, x)
            BY <1>11, <1>15, <3>1
          <5> QED
            BY <1>18, <3>1, <4>1, <5>1 DEF MarriageInv
        <4>5. Leaving(x, c) => Divorcing(x, c)'
          BY <1>6 DEF Leaving, Divorcing
        <4> QED
          BY <1>2, <1>5, <3>1, <4>2, <4>3, <4>4, <4>5
      <3>2. CASE Leaving(y, x)
        <4>1. /\ heart[y] # x /\ ~Accepting(x, y)
              /\ heart[x] = y \/ Divorcing(x, y) \/ Proposal(x, y) # y
          BY <1>18, <3>2 DEF MarriageInv
        <4>2. y = c => a \notin {"accept", "divorce"}
          BY <1>11, <1>15, <3>2
        <4>3. heart'[y] # x /\ ~Accepting(x, y)'
          BY <1>5, <1>11, <1>16, <4>1, <4>2
        <4>4. ASSUME heart[x] = y PROVE heart'[x] = y \/ Divorcing(x, y)'
          BY <1>5, <1>9, <1>11, <1>15, <4>4
        <4>5. Proposal(x, y)' = Proposal(x, y)
          BY <1>6 DEF Proposal
        <4> QED
          BY <1>11, <1>15, <4>1, <4>3, <4>4, <4>5
      <3> QED
        BY <1>11, <1>15, <2>3, <3>1, <3>2
    <2> QED
      BY <1>6, <2>1, <2>2, <2>3 DEF MarriageInv
  <1> QED
    BY <1>3, <1>6, <1>12, <1>13, <1>14, <1>17, <1>18 DEF Inv

\* A request is made.
LEMMA AskKeeps ==
    ASSUME Inv, NEW c \in Climber, NEW d \in Climber, NEW a \in Act, Ask(c, d, a)
    PROVE  Inv'
  <1>1. TypeOK /\ TaskInv /\ PendInv /\ AskedInv /\ AcceptInv
    BY DEF Inv
  <1>2. /\ TypeOK' /\ c # d
        /\ \A x \in Climber : pending'[x] = IF x = c THEN [act |-> a, with |-> d] ELSE pending[x]
    BY <1>1, AskTyped
  <1>3. UNCHANGED <<heart, open, away, bonds, doors, tasks, asked, interrupted>>
    BY DEF Ask
  <1>4. /\ Calm' \subseteq Calm /\ Calm \subseteq Climber
        /\ a \in Weighty /\ c \in Calm' => \A t \in tasks : ~(t.by = c /\ t.act \in Weighty)
    BY DEF Ask, Engaged, Calm
  <1>5. /\ a = "accept" => heart[c] = None /\ heart[d] = None /\ Proposal(c, d) = d
        /\ a = "divorce" => heart[c] = d
    BY DEF Ask, Offered, Wed, MayFlirt, MayPropose
  <1>6. /\ pending'[c].act = a /\ pending'[c].with = d
        /\ \A x \in Climber : x # c => pending'[x] = pending[x]
    BY <1>2
  <1>7. TaskInv'
    <2>1. ASSUME NEW t \in tasks', t.by \in Calm', t.act \in Weighty
          PROVE  pending'[t.by].act \notin Weighty
      BY <1>1, <1>3, <1>4, <1>6, <2>1 DEF TaskInv
    <2>2. /\ \A t \in tasks' : t.by # t.with
          /\ \A t, u \in tasks' :
                t.by = u.by /\ t.by \in Calm' /\ {t.act, u.act} \subseteq Weighty => t = u
          /\ \A t \in tasks' : t.at = "mail" => t.act \notin {"accept", "divorce"}
      BY <1>1, <1>3, <1>4 DEF TaskInv
    <2> QED
      BY <2>1, <2>2 DEF TaskInv
  <1>8. PendInv'
    BY <1>1, <1>3, <1>5, <1>6 DEF PendInv
  <1>9. AskedInv'
    <2>1. a = "accept" => <<d, c>> \in asked
      <3>1. Proposal(c, d) = Proposal(d, c)
        <4>1. {c, d} = {d, c}
          OBVIOUS
        <4> QED
          BY <4>1 DEF Proposal
      <3> QED
        BY <1>1, <1>2, <1>5, <3>1 DEF AskedInv
    <2>2. \A x \in Climber : pending'[x].act = "accept" => <<pending'[x].with, x>> \in asked'
      BY <1>1, <1>3, <1>6, <2>1 DEF AskedInv
    <2>3. \A x, y \in Climber : x # y /\ Proposal(x, y)' = x => <<x, y>> \in asked'
      BY <1>1, <1>3 DEF AskedInv, Proposal
    <2> QED
      BY <1>1, <1>3, <2>2, <2>3 DEF AskedInv, NobodyIsWedUnasked
  <1>10. ASSUME NEW x \in Climber, NEW y \in Climber, Accepting(x, y)'
         PROVE  Accepting(x, y) \/ (x = c /\ y = d /\ a = "accept")
    BY <1>3, <1>6, <1>10 DEF Accepting, Wedding
  <1>11. a = "accept" /\ c \in Calm /\ d \in Calm => ~Accepting(d, c)
    <2>1. Proposal(d, c) = Proposal(c, d)
      <3>1. {c, d} = {d, c}
        OBVIOUS
      <3> QED
        BY <3>1 DEF Proposal
    <2> QED
      BY <1>1, <1>5, <2>1 DEF AcceptInv
  <1>12. AcceptInv'
    <2> SUFFICES ASSUME NEW x \in Calm, NEW y \in Calm, Accepting(x, y)'
                 PROVE  x # y /\ Proposal(x, y)' # x /\ ~Accepting(y, x)' /\ heart'[y] # x
      BY <1>4 DEF AcceptInv
    <2>1. CASE Accepting(x, y)
      <3>1. x # y /\ Proposal(x, y) # x /\ ~Accepting(y, x) /\ heart[y] # x
        BY <1>1, <2>1 DEF AcceptInv
      <3>2. ~Accepting(y, x)'
        BY <1>4, <1>10, <1>11, <2>1, <3>1
      <3>3. Proposal(x, y)' # x /\ heart'[y] # x
        BY <1>3, <3>1 DEF Proposal
      <3> QED
        BY <3>1, <3>2, <3>3
    <2>2. CASE x = c /\ y = d /\ a = "accept"
      <3>1. ~Accepting(d, c)'
        BY <1>2, <1>4, <1>10, <1>11, <2>2
      <3>2. Proposal(c, d)' # c /\ heart'[d] # c
        BY <1>2, <1>3, <1>5, <2>2 DEF Proposal
      <3> QED
        BY <1>2, <2>2, <3>1, <3>2
    <2> QED
      BY <1>4, <1>10, <2>1, <2>2
  <1>13. ASSUME MarriageInv PROVE MarriageInv'
    <2>1. /\ \A x, y \in Climber : Wedding(x, y)' <=> Wedding(x, y)
          /\ \A x, y \in Climber : Leaving(x, y)' <=> Leaving(x, y)
          /\ \A x, y \in Climber : Divorcing(x, y)' <=> Divorcing(x, y)
          /\ \A x, y \in Climber : Proposal(x, y)' = Proposal(x, y)
      BY <1>3 DEF Wedding, Leaving, Divorcing, Proposal
    <2>2. ASSUME NEW x \in Calm', NEW y \in Calm', Leaving(y, x) PROVE ~Accepting(x, y)'
      <3>1. /\ ~Accepting(x, y)
            /\ heart[x] = y \/ Divorcing(x, y) \/ Proposal(x, y) # y
        BY <1>4, <1>13, <2>2 DEF MarriageInv
      <3>2. ~(x = c /\ y = d /\ a = "accept")
        BY <1>2, <1>4, <1>5, <3>1 DEF Divorcing, Weighty
      <3> QED
        BY <1>4, <1>10, <3>1, <3>2
    <2>3. \A x, y \in Calm' : Leaving(y, x)' =>
             /\ heart'[y] # x /\ ~Accepting(x, y)'
             /\ heart'[x] = y \/ Divorcing(x, y)' \/ Proposal(x, y)' # y
      BY <1>3, <1>4, <1>13, <2>1, <2>2 DEF MarriageInv
    <2>4. \A x \in Calm', y \in Climber : Wedding(x, y)' => heart'[x] = y
      BY <1>3, <1>4, <1>13, <2>1 DEF MarriageInv
    <2>5. \A x, y \in Calm' : heart'[x] = y => heart'[y] = x \/ Wedding(x, y)' \/ Leaving(y, x)'
      BY <1>3, <1>4, <1>13, <2>1 DEF MarriageInv
    <2> QED
      BY <2>3, <2>4, <2>5 DEF MarriageInv
  <1> QED
    BY <1>2, <1>3, <1>7, <1>8, <1>9, <1>12, <1>13 DEF Inv

\* A heart is opened or closed, or a regular is married or left.
LEMMA ChangeOwnKeeps ==
    ASSUME Inv, NEW c \in Climber, ChangeOwn(c)
    PROVE  Inv'
  <1>1. /\ TypeOK /\ TaskInv /\ PendInv /\ AskedInv /\ AcceptInv
        /\ heart \in [Climber -> Climber \cup {None, Regular}]
    BY DEF Inv, TypeOK
  <1>2. TypeOK'
    BY <1>1, ChangeOwnTyped
  <1>3. \A x \in Climber : pending'[x] = IF x = c THEN Nothing ELSE pending[x]
    BY <1>1, WrittenRow DEF ChangeOwn
  <1>4. /\ UNCHANGED <<bonds, doors, tasks, asked, muddled, interrupted>>
        /\ Calm' = Calm /\ Calm \subseteq Climber
    BY DEF ChangeOwn, Calm
  <1>5. /\ \A x \in Climber : x # c => heart'[x] = heart[x]
        /\ heart'[c] = heart[c] \/ (heart[c] \in {None, Regular} /\ heart'[c] \in {None, Regular})
    BY <1>1 DEF ChangeOwn, Wed
  <1>6. Nothing.act = "none"
    BY DEF Nothing
  <1>7. TaskInv'
    BY <1>1, <1>3, <1>4, <1>6 DEF TaskInv, Weighty
  <1>8. PendInv'
    BY <1>1, <1>3, <1>5, <1>6 DEF PendInv
  <1>9. AskedInv'
    <2>1. \A x, y \in Climber : x # y /\ Proposal(x, y)' = x => <<x, y>> \in asked'
      BY <1>1, <1>4 DEF AskedInv, Proposal
    <2> QED
      BY <1>1, <1>3, <1>4, <1>6, <2>1 DEF AskedInv, NobodyIsWedUnasked
  <1>10. ASSUME NEW x \in Climber, NEW y \in Climber, Accepting(x, y)' PROVE Accepting(x, y)
    BY <1>3, <1>4, <1>6, <1>10 DEF Accepting, Wedding
  <1>11. AcceptInv'
    <2> SUFFICES ASSUME NEW x \in Calm, NEW y \in Calm, Accepting(x, y)'
                 PROVE  x # y /\ Proposal(x, y)' # x /\ ~Accepting(y, x)' /\ heart'[y] # x
      BY <1>4 DEF AcceptInv
    <2>1. Accepting(x, y) /\ x # y /\ Proposal(x, y) # x /\ ~Accepting(y, x) /\ heart[y] # x
      BY <1>1, <1>4, <1>10 DEF AcceptInv
    <2>2. ~Accepting(y, x)'
      BY <1>4, <1>10, <2>1
    <2>3. Proposal(x, y)' # x /\ heart'[y] # x
      BY <1>4, <1>5, <2>1 DEF Proposal
    <2> QED
      BY <2>1, <2>2, <2>3
  <1>12. ASSUME MarriageInv PROVE MarriageInv'
    <2>1. /\ \A x, y \in Climber : Wedding(x, y)' <=> Wedding(x, y)
          /\ \A x, y \in Climber : Leaving(x, y)' <=> Leaving(x, y)
          /\ \A x, y \in Climber : Divorcing(x, y)' <=> Divorcing(x, y)
          /\ \A x, y \in Climber : Proposal(x, y)' = Proposal(x, y)
      BY <1>4 DEF Wedding, Leaving, Divorcing, Proposal
    <2>2. \A x, y \in Climber : heart'[x] = y <=> heart[x] = y
      BY <1>5
    <2>3. \A x, y \in Calm' : Leaving(y, x)' =>
             /\ heart'[y] # x /\ ~Accepting(x, y)'
             /\ heart'[x] = y \/ Divorcing(x, y)' \/ Proposal(x, y)' # y
      BY <1>4, <1>10, <1>12, <2>1, <2>2 DEF MarriageInv
    <2>4. \A x \in Calm', y \in Climber : Wedding(x, y)' => heart'[x] = y
      BY <1>4, <1>12, <2>1, <2>2 DEF MarriageInv
    <2>5. \A x, y \in Calm' : heart'[x] = y => heart'[y] = x \/ Wedding(x, y)' \/ Leaving(y, x)'
      BY <1>4, <1>12, <2>1, <2>2 DEF MarriageInv
    <2> QED
      BY <2>3, <2>4, <2>5 DEF MarriageInv
  <1> QED
    BY <1>2, <1>4, <1>7, <1>8, <1>9, <1>11, <1>12 DEF Inv

\* A step that leaves all this as it was.
LEMMA StillKeeps ==
    ASSUME Inv, TypeOK', UNCHANGED <<heart, bonds, pending, tasks, asked, muddled, interrupted>>
    PROVE  Inv'
  <1>1. TaskInv' /\ PendInv'
    BY DEF Inv, TaskInv, PendInv, Calm
  <1>2. AskedInv'
    BY DEF Inv, AskedInv, NobodyIsWedUnasked, Proposal
  <1>3. /\ \A x, y \in Climber : Wedding(x, y)' <=> Wedding(x, y)
        /\ \A x, y \in Climber : Leaving(x, y)' <=> Leaving(x, y)
        /\ \A x, y \in Climber : Divorcing(x, y)' <=> Divorcing(x, y)
        /\ \A x, y \in Climber : Accepting(x, y)' <=> Accepting(x, y)
        /\ \A x, y \in Climber : Proposal(x, y)' = Proposal(x, y)
    BY DEF Wedding, Leaving, Divorcing, Accepting, Proposal
  <1>4. AcceptInv'
    BY <1>3 DEF Inv, AcceptInv, Calm
  <1>5. MarriageInv => MarriageInv'
    BY <1>3, MarriageHolds DEF Calm
  <1> QED
    BY <1>1, <1>2, <1>4, <1>5 DEF Inv

-----------------------------------------------------------------------------
(* Theorems *)

LEMMA InitInv == Init => Inv
  <1> SUFFICES ASSUME Init PROVE Inv
    OBVIOUS
  <1>1. /\ heart \in [Climber -> Climber \cup {None, Regular}]
        /\ \A c, d \in Climber : heart[c] = d => c # d /\ heart[d] = c
        /\ pending = [c \in Climber |-> Nothing]
        /\ tasks = {} /\ doors = {} /\ away = {} /\ acts = 0 /\ interrupted = FALSE
        /\ muddled = {} /\ open \in [Climber -> BOOLEAN]
        /\ asked = {p \in Climber \X Climber : p[1] # p[2] /\ Proposal(p[1], p[2]) = p[1]}
    BY DEF Init
  <1>2. PICK W \in SUBSET Pair, from \in [Pair -> Climber \cup {None}] :
          /\ \A p \in Pair : from[p] # None => p \in W /\ from[p] \in p /\ \A c \in p : heart[c] \notin p
          /\ bonds = [p \in Pair |-> [flirted |-> IF p \in W THEN p ELSE {}, warm |-> p \in W,
                                      proposal |-> from[p]]]
    BY DEF Init
  <1>3. \A p \in Pair : p \subseteq Climber
    BY DEF Pair
  <1>4. ASSUME NEW p \in Pair
        PROVE  /\ bonds[p] \in BondType /\ bonds[p].flirted \subseteq p
               /\ bonds[p].proposal \in p \cup {None}
    <2>1. bonds[p] = [flirted |-> IF p \in W THEN p ELSE {}, warm |-> p \in W, proposal |-> from[p]]
      BY <1>2
    <2>2. (IF p \in W THEN p ELSE {}) \in SUBSET Climber /\ (p \in W) \in BOOLEAN
          /\ from[p] \in Climber \cup {None}
      BY <1>2, <1>3
    <2> QED
      BY <1>2, <2>1, <2>2 DEF BondType
  <1>5. bonds \in [Pair -> BondType]
    BY <1>2, <1>4
  <1>6. TypeOK
    <2>1. /\ bonds \in [Pair -> [flirted: SUBSET Climber, warm: BOOLEAN, proposal: Climber \cup {None}]]
          /\ \A p \in Pair : bonds[p].flirted \subseteq p /\ bonds[p].proposal \in p \cup {None}
      BY <1>4, <1>5 DEF BondType
    <2>2. /\ pending \in [Climber -> {Nothing} \cup [act: Act, with: Climber]]
          /\ \A c \in Climber : pending[c].with # c
      BY <1>1, HeartAssumption DEF Nothing
    <2>3. /\ doors \subseteq Climber \X Climber /\ asked \subseteq Climber \X Climber
          /\ tasks \subseteq [by: Climber, act: Act, with: Climber, at: Step, no: Nat]
          /\ interrupted \in BOOLEAN /\ muddled \subseteq Climber /\ away \subseteq Climber
      BY <1>1
    <2>4. acts \in 0..MaxActs
      BY <1>1, HeartAssumption
    <2> QED
      BY <1>1, <2>1, <2>2, <2>3, <2>4 DEF TypeOK
  <1>7. TaskInv /\ PendInv
    BY <1>1 DEF TaskInv, PendInv, Nothing
  <1>8. AskedInv
    <2>1. \A c, d \in Climber : c # d /\ Proposal(c, d) = c => <<c, d>> \in asked
      BY <1>1
    <2> QED
      BY <1>1, <2>1 DEF AskedInv, NobodyIsWedUnasked, Nothing
  <1>9. AcceptInv
    BY <1>1 DEF AcceptInv, Accepting, Wedding, Nothing, Calm
  <1>10. MarriageInv
    BY <1>1 DEF MarriageInv, Wedding, Leaving, Calm
  <1> QED
    BY <1>6, <1>7, <1>8, <1>9, <1>10 DEF Inv

\* A handler's step.
LEMMA SettleKeeps ==
    ASSUME Inv, NEW t \in tasks, Settle(t)
    PROVE  Inv'
  <1>1. /\ UNCHANGED <<open, asked, interrupted, acts>> /\ Spreads(t)
        /\ QuietStep(t) \/ Accept(t) \/ Divorce(t)
    BY DEF Settle, QuietStep
  <1> QED
    BY <1>1, QuietKeeps, AcceptKeeps, DivorceKeeps

LEMMA NextInv == Inv /\ [Next]_vars => Inv'
  <1> SUFFICES ASSUME Inv, [Next]_vars PROVE Inv'
    OBVIOUS
  <1>1. ASSUME NEW c \in Climber, NEW d \in Climber, NEW a \in Act, Ask(c, d, a) PROVE Inv'
    BY <1>1, AskKeeps
  <1>2. ASSUME NEW c \in Climber, Save(c) PROVE Inv'
    BY <1>2, SaveKeeps
  <1>3. ASSUME NEW c \in Climber, ChangeOwn(c) PROVE Inv'
    BY <1>3, ChangeOwnKeeps
  <1>4. ASSUME NEW c \in Climber, StayAway(c) PROVE Inv'
    <2>1. TypeOK'
      BY <1>4, StayAwayTyped DEF Inv
    <2> QED
      BY <1>4, <2>1, StillKeeps DEF StayAway
  <1>5. ASSUME NEW t \in tasks, Settle(t) PROVE Inv'
    BY <1>5, SettleKeeps
  <1>6. ASSUME NEW t \in tasks, Interrupt(t) PROVE Inv'
    BY <1>6, InterruptKeeps
  <1>7. CASE UNCHANGED vars
    <2>1. TypeOK'
      BY <1>7 DEF Inv, TypeOK, vars
    <2> QED
      BY <1>7, <2>1, StillKeeps DEF vars
  <1> QED
    BY <1>1, <1>2, <1>3, <1>4, <1>5, <1>6, <1>7 DEF Next

LEMMA InvAlways == Spec => []Inv
  BY InitInv, NextInv, PTL DEF Spec

\* What is stored of hearts is of its type, and nobody is married who has not
\* asked for it (_suitor_screen, _settle_heart), whatever handlers die.
THEOREM NobodyIsMarriedUnasked == Spec => []HeartsAreSound
  <1>1. Inv => HeartsAreSound
    BY DEF Inv, AskedInv, HeartsAreSound
  <1> QED
    BY <1>1, InvAlways, PTL

\* Once every handler has come to its end, marriages are mutual: a yes that came
\* too late is undone, and a divorce reaches the other (_settle_heart).  Of those
\* who have got ahead of a handler of their own nothing is claimed.
THEOREM MarriagesAreMutual == Spec => []MutualWhenQuiet
  <1>1. Inv => MutualWhenQuiet
    BY DEF Inv, MarriageInv, MutualWhenQuiet, Wedding, Leaving, Calm
  <1> QED
    BY <1>1, InvAlways, PTL

\* A step that ends a mutual marriage is the divorce of one of the two.
LEMMA EndingStep ==
    ASSUME Inv, [Next]_vars, ~interrupted, NEW c \in Calm, NEW d \in Calm,
           heart[c] = d, heart[d] = c, heart'[c] # d
    PROVE  pending[c] = [act |-> "divorce", with |-> d]
  <1>1. /\ TypeOK /\ TaskInv /\ PendInv /\ AcceptInv /\ MarriageInv
        /\ heart \in [Climber -> Climber \cup {None, Regular}]
        /\ c \in Climber /\ d \in Climber
    BY DEF Inv, TypeOK, Calm
  <1>2. ASSUME NEW x \in Climber, Save(x) PROVE pending[c] = [act |-> "divorce", with |-> d]
    <2>1. x = c /\ pending[c].act \in {"accept", "divorce"}
      BY <1>1, <1>2 DEF Save
    <2>2. pending[c].act = "divorce" /\ pending[c].with = d
      BY <1>1, <2>1 DEF PendInv
    <2>3. pending[c] \in [act: Act, with: Climber]
      BY <1>1, <2>2 DEF TypeOK, Nothing
    <2> QED
      BY <2>2, <2>3
  <1>3. ASSUME NEW t \in tasks, Accept(t) PROVE FALSE
    <2>1. t.by \in Climber /\ t.with \in Climber /\ t.act = "accept"
      BY <1>1, <1>3 DEF TypeOK, Accept
    <2>2. t.at = "undo" /\ heart' = [heart EXCEPT ![t.by] = None]
      BY <1>1, <1>3, <2>1 DEF Accept, Wed
    <2>3. c = t.by
      BY <1>1, <2>1, <2>2
    <2>4. Wedding(c, t.with)
      BY <2>1, <2>2, <2>3 DEF Wedding
    <2>5. t.with = d
      BY <1>1, <2>1, <2>4 DEF MarriageInv
    <2> QED
      BY <1>1, <2>4, <2>5 DEF AcceptInv, Accepting
  <1>4. ASSUME NEW t \in tasks, Divorce(t) PROVE FALSE
    <2>1. t.by \in Climber /\ t.with \in Climber /\ t.act = "divorce"
      BY <1>1, <1>4 DEF TypeOK, Divorce
    <2>2. t.at = "first" /\ heart[t.with] = t.by /\ c = t.with
      BY <1>1, <1>4, <2>1 DEF Divorce
    <2>3. Leaving(d, c)
      BY <2>1, <2>2 DEF Leaving
    <2> QED
      BY <1>1, <2>3 DEF MarriageInv
  <1>5. ASSUME NEW x \in Climber, ChangeOwn(x) PROVE FALSE
    BY <1>1, <1>5 DEF ChangeOwn, Wed
  <1>6. ASSUME NEW t \in tasks, QuietStep(t) PROVE FALSE
    BY <1>6 DEF QuietStep, ShutDoor, OpenDoor, Knock, Flirt, Propose, Decline, Mail
  <1>7. ASSUME \/ \E x, y \in Climber, a \in Act : Ask(x, y, a)
               \/ \E x \in Climber : StayAway(x)
               \/ \E t \in tasks : Interrupt(t)
               \/ UNCHANGED vars
        PROVE  FALSE
    BY <1>7 DEF Ask, StayAway, Interrupt, vars
  <1>8. ASSUME NEW t \in tasks, Settle(t) PROVE FALSE
    BY <1>3, <1>4, <1>6, <1>8 DEF Settle, QuietStep
  <1> QED
    BY <1>2, <1>5, <1>7, <1>8 DEF Next

\* As long as handlers come to their end, no marriage is ended but by one of its
\* two: neither undo nor part reaches a marriage of others (_settle_heart), who
\* have not got ahead of a handler of their own.
THEOREM OnlyTheTwoEndIt == Spec => EndedByTheTwo
  <1>1. Inv /\ [Next]_vars =>
          [~interrupted =>
              \A c, d \in Climber \ muddled :
                  heart[c] = d /\ heart[d] = c /\ heart'[c] # d =>
                      pending[c] = [act |-> "divorce", with |-> d]]_vars
    BY EndingStep DEF Calm
  <1> QED
    BY <1>1, InvAlways, PTL DEF Spec, EndedByTheTwo

=============================================================================
