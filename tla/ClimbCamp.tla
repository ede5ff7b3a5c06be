------------------------------ MODULE ClimbCamp ------------------------------
(***************************************************************************)
(* The Camp: robbing the sleeping, from the list of sleepers (_camp of     *)
(* lib/routes/climb_routes.py, why_not_rob of lib/climb/rules.py) through  *)
(* the fight (act and _after_blows of lib/climb/scenes.py) to the coin     *)
(* that changes hands in _settle_robbery, after the save and one database  *)
(* call at a time.  Everything else a climber does with coin is here as    *)
(* far as the purse goes, since it runs between those calls.               *)
(*                                                                         *)
(* As in ClimbHearts a request reads, then saves its own row if nobody has *)
(* written it since, and change is one step, which ClimbStore justifies.   *)
(* A wedding writes two rows, one after the other, in ClimbHearts; here it *)
(* is one step.                                                            *)
(*                                                                         *)
(* Abstracted: hit points, experience and levels (any blow may decide a    *)
(* fight), how long a sleeper has been here and asleep (long enough),      *)
(* prices (what is earned or spent is a coin at a time), and who is wed to *)
(* a regular: any morning may bring such a spouse's gift.                  *)
(***************************************************************************)
EXTENDS Naturals, FiniteSets, Functions

CONSTANTS
    Climber,
    None,
    DuelsPerDay,
    Start,       \* the purse a climber begins with
    MaxDay,      \* bound on the days that pass
    MaxActs      \* bound on the requests sent

ASSUME CampAssumption ==
    /\ IsFiniteSet(Climber) /\ None \notin Climber
    /\ DuelsPerDay \in Nat /\ Start \in Nat /\ MaxDay \in Nat
    /\ MaxActs \in Nat

VARIABLES
    row,          \* climb_players
    today,        \* clock.today
    robberies,    \* climb_robberies: <<day, attacker, victim>>
    pending,      \* what each climber's request is about to save
    tasks,        \* the handlers with something left to tell the victim
    attempted,    \* every <<day, attacker, victim>> a duel was spent on
    coin,         \* what was earned on the mountain, less what was left there
    interrupted,  \* has a handler died half way?
    acts

vars == <<row, today, robberies, pending, tasks, attempted, coin, interrupted, acts>>

Nothing == [act |-> "none", victim |-> None, inRoom |-> FALSE, day |-> 0]

\* new_climber, and its day
NewRow(d) == [alive |-> TRUE, purse |-> Start, vault |-> 0, duels |-> DuelsPerDay, key |-> FALSE,
              room |-> FALSE, spouse |-> None, fight |-> None, day |-> d]

Init ==
    /\ row = [c \in Climber |-> NewRow(0)]
    /\ today = 0
    /\ robberies = {}
    /\ pending = [c \in Climber |-> Nothing]
    /\ tasks = {}
    /\ attempted = {}
    /\ coin = Start * Cardinality(Climber)
    /\ interrupted = FALSE
    /\ acts = 0

-----------------------------------------------------------------------------
(* What a climber is shown *)

Here(c) == row[c] # None
Away(c) == today - row[c].day

\* as_they_sleep: a dawn that is due has come for the sleeper
AliveAsleep(c) == row[c].alive \/ Away(c) >= 1

IsSheltered(c) == row[c].room /\ Away(c) <= 1

\* The slip of not reading climb_robberies.
MayRobAgain(a, v) ==
    /\ v # a /\ Here(v)
    /\ row[a].duels >= 1
    /\ row[a].spouse # v
    /\ AliveAsleep(v)
    /\ IsSheltered(v) => row[a].key

\* why_not_rob
MayRob(a, v) ==
    /\ v # a /\ Here(v)
    /\ row[a].duels >= 1
    /\ row[a].spouse # v
    /\ AliveAsleep(v)
    /\ <<today, a, v>> \notin robberies
    /\ IsSheltered(v) => row[a].key

\* What c may do now; a new day is the first thing that happens to anybody.
Offered(c) ==
    LET r == row[c]
    IN  IF r.day < today THEN {"dawn"} \cup {a \in {"gift"} : r.spouse = None}
        ELSE IF ~r.alive THEN {}
        ELSE IF r.fight # None THEN {"blow"}
        ELSE {"earn", "die", "ascend", "rob"}
             \cup {a \in {"spend", "deposit"} : r.purse > 0}
             \cup {a \in {"withdraw"} : r.vault > 0}
             \cup {a \in {"room"} : r.purse > 0 /\ ~r.room}
             \cup {a \in {"key"} : r.purse > 0 /\ ~r.key}

-----------------------------------------------------------------------------
(* A climber's own request *)

\* A climber sends one request at a time, and waits for the page to come back.
\* climb_act has no such gate (a second form may be saved while the handler of the
\* first goes on), but note_robbery is the first call after the save: the database
\* thread takes calls in order, and the note is queued before what the second form
\* reads of robberies.  Debit and Credit add to whatever a purse holds by then.
Idle(c) == pending[c] = Nothing /\ \A t \in tasks : t.by # c

\* climb_act, or climb_page with a dawn to apply, up to its save
Ask(c) ==
    /\ Idle(c) /\ Here(c) /\ acts < MaxActs
    /\ \E a \in Offered(c), v \in Climber \cup {None} :
          /\ IF a = "rob" THEN v # None /\ MayRob(c, v) ELSE v = row[c].fight
          /\ pending' = [pending EXCEPT ![c] =
                 [act |-> a, victim |-> v, inRoom |-> a = "rob" /\ IsSheltered(v), day |-> today]]
    /\ acts' = acts + 1
    /\ UNCHANGED <<row, today, robberies, tasks, attempted, coin, interrupted>>

\* The row of c is written: a copy of it that was read before is stale.
Write(c, r) ==
    /\ row' = [row EXCEPT ![c] = r]
    /\ pending' = [pending EXCEPT ![c] = Nothing]

\* The slip of letting a fight go on the next morning.
DawnMidFight(r, d) == [r EXCEPT !.alive = TRUE, !.duels = DuelsPerDay, !.key = FALSE,
                                !.room = FALSE, !.day = d]

\* apply_dawn
Dawn(r, d) == [r EXCEPT !.alive = TRUE, !.duels = DuelsPerDay, !.key = FALSE, !.room = FALSE,
                        !.fight = None, !.day = d]

\* apply_death, by any hand
Dead(r) == [r EXCEPT !.alive = FALSE, !.purse = 0, !.fight = None]

\* apply_ascent and the end of the day: back to the foot with a beginner's purse
Ascended(r) == [r EXCEPT !.purse = Start, !.vault = 0, !.duels = 0]

\* The row after anything that needs nobody else ...
AfterBusiness(r, a, d) ==
    CASE a = "dawn"     -> Dawn(r, d)
      [] a = "gift"     -> [Dawn(r, d) EXCEPT !.purse = @ + 1]
      [] a = "ascend"   -> Ascended(r)
      [] a = "earn"     -> [r EXCEPT !.purse = @ + 1]
      [] a = "spend"    -> [r EXCEPT !.purse = @ - 1]
      [] a = "die"      -> Dead(r)
      [] a = "deposit"  -> [r EXCEPT !.vault = @ + r.purse, !.purse = 0]
      [] a = "withdraw" -> [r EXCEPT !.purse = @ + r.vault, !.vault = 0]
      [] a = "room"     -> [r EXCEPT !.purse = @ - 1, !.room = TRUE]
      [] a = "key"      -> [r EXCEPT !.purse = @ - 1, !.key = TRUE]

\* ... and what it brings down from the mountain, or leaves there
CoinAfter(r, a) ==
    CASE a \in {"earn", "gift"}         -> coin + 1
      [] a \in {"spend", "room", "key"} -> coin - 1
      [] a = "die"                      -> coin - r.purse
      [] a = "ascend"                   -> coin + Start - r.purse - r.vault
      [] OTHER                          -> coin

DoBusiness(c) ==
    LET a == pending[c].act
    IN  /\ a \notin {"none", "rob", "blow"}
        /\ Write(c, AfterBusiness(row[c], a, pending[c].day))
        /\ coin' = CoinAfter(row[c], a)
        /\ UNCHANGED <<today, robberies, tasks, attempted, interrupted, acts>>

Outcome == {"ongoing", "won", "lost", "fled"}

\* _after_blows: the robber after a blow with this outcome, ...
AfterBlows(r, v, outcome) ==
    CASE outcome = "ongoing" -> [r EXCEPT !.fight = v]
      [] outcome = "lost"    -> Dead(r)
      [] OTHER               -> [r EXCEPT !.fight = None]

\* ... what there is then to settle, ...
Settlement(outcome) ==
    CASE outcome = "won" -> "debit" [] outcome = "lost" -> "reward" [] OTHER -> "done"

\* The slip of looking for the robber's purse when it has been emptied.
DroppedByTheDead(r, outcome) == IF outcome = "lost" THEN Dead(r).purse ELSE 0

\* ... and the purse the robber dropped.
Dropped(r, outcome) == IF outcome = "lost" THEN r.purse ELSE 0

\* The handler goes on after its save, if it has anything to tell.
Tell(t) == tasks' = IF t.at = "done" THEN tasks ELSE tasks \cup {t}

\* rob: the duel is spent whatever comes of it; an ambush may end it at once.
Rob(c) ==
    LET v == pending[c].victim
        d == pending[c].day
        r == [row[c] EXCEPT !.duels = @ - 1, !.key = @ /\ ~pending[c].inRoom]
    IN  /\ pending[c].act = "rob"
        /\ attempted' = attempted \cup {<<d, c, v>>}
        /\ \E outcome \in Outcome \ {"won"} :
              /\ Write(c, AfterBlows(r, v, outcome))
              /\ Tell([by |-> c, to |-> v, day |-> d, at |-> "note",
                       next |-> Settlement(outcome), coin |-> Dropped(r, outcome)])
        /\ UNCHANGED <<today, robberies, coin, interrupted, acts>>

\* fight: a blow is struck, a skill used, or the robber runs
Blow(c) ==
    LET v == pending[c].victim
    IN  /\ pending[c].act = "blow"
        /\ \E outcome \in Outcome :
              /\ Write(c, AfterBlows(row[c], v, outcome))
              /\ Tell([by |-> c, to |-> v, day |-> pending[c].day, at |-> Settlement(outcome),
                       next |-> "done", coin |-> Dropped(row[c], outcome)])
        /\ UNCHANGED <<today, robberies, attempted, coin, interrupted, acts>>

Save(c) == DoBusiness(c) \/ Rob(c) \/ Blow(c)

\* accept, on both rows: the one who says yes is at the corner table.
Marry(c, d) ==
    /\ c # d /\ Idle(c) /\ Here(c) /\ Here(d) /\ acts < MaxActs
    /\ row[c].alive /\ row[c].day = today /\ row[c].fight = None
    /\ row[c].spouse = None /\ row[d].spouse = None
    /\ row' = [row EXCEPT ![c].spouse = d, ![d].spouse = c]
    /\ pending' = [pending EXCEPT ![d] = Nothing]
    /\ acts' = acts + 1
    /\ UNCHANGED <<today, robberies, tasks, attempted, coin, interrupted>>

-----------------------------------------------------------------------------
(* _tell_the_town, one await at a time *)

Goes(t, at, amount) ==
    tasks' = (tasks \ {t}) \cup
             (IF at = "done" THEN {} ELSE {[t EXCEPT !.at = at, !.next = "done", !.coin = amount]})

\* note_robbery
NoteRobbery(t) ==
    /\ t.at = "note"
    /\ robberies' = {r \in robberies \cup {<<t.day, t.by, t.to>>} : r[1] >= t.day}
    /\ Goes(t, t.next, t.coin)
    /\ UNCHANGED <<row, pending, coin>>

\* apply_robbed on the victim's row
Debit(t) ==
    /\ t.at = "debit"
    /\ IF Here(t.to)
       THEN /\ Write(t.to, [row[t.to] EXCEPT !.purse = 0])
            /\ Goes(t, "credit", row[t.to].purse)
       ELSE Goes(t, "credit", 0) /\ UNCHANGED <<row, pending>>
    /\ UNCHANGED <<robberies, coin>>

\* credit on the robber's row: what is owed to a climber who is gone is lost.
Credit(t) ==
    /\ t.at = "credit"
    /\ IF Here(t.by)
       THEN /\ Write(t.by, [row[t.by] EXCEPT !.purse = @ + t.coin])
            /\ UNCHANGED coin
       ELSE coin' = coin - t.coin /\ UNCHANGED <<row, pending>>
    /\ Goes(t, "done", 0)
    /\ UNCHANGED robberies

\* reward on the victim's row
Reward(t) ==
    /\ t.at = "reward"
    /\ IF Here(t.to)
       THEN /\ Write(t.to, [row[t.to] EXCEPT !.purse = @ + t.coin])
            /\ UNCHANGED coin
       ELSE coin' = coin - t.coin /\ UNCHANGED <<row, pending>>
    /\ Goes(t, "done", 0)
    /\ UNCHANGED robberies

Settle(t) ==
    /\ NoteRobbery(t) \/ Debit(t) \/ Credit(t) \/ Reward(t)
    /\ UNCHANGED <<today, attempted, interrupted, acts>>

\* The handler dies with the process, or on a change that gives up.
Interrupt(t) ==
    /\ Goes(t, "done", 0)
    /\ interrupted' = TRUE
    /\ UNCHANGED <<row, today, robberies, pending, attempted, coin, acts>>

-----------------------------------------------------------------------------
(* What happens around them *)

\* Midnight
NewDay ==
    /\ today < MaxDay
    /\ today' = today + 1
    /\ UNCHANGED <<row, robberies, pending, tasks, attempted, coin, interrupted, acts>>

\* climb_admin_reset deletes a climber with all they have, and nothing else:
\* what they attempted today stays in climb_robberies.
Reset(c) ==
    /\ Here(c) /\ acts < MaxActs
    /\ Write(c, None)
    /\ coin' = coin - row[c].purse - row[c].vault
    /\ acts' = acts + 1
    /\ UNCHANGED <<today, robberies, tasks, attempted, interrupted>>

\* climb_act of somebody who has no climber: begin and create
Begin(c) ==
    /\ ~Here(c) /\ Idle(c)
    /\ Write(c, NewRow(today))
    /\ coin' = coin + Start
    /\ UNCHANGED <<today, robberies, tasks, attempted, interrupted, acts>>

Next ==
    \/ \E c \in Climber : Ask(c) \/ Save(c) \/ Reset(c) \/ Begin(c)
    \/ \E c, d \in Climber : Marry(c, d)
    \/ \E t \in tasks : Settle(t) \/ Interrupt(t)
    \/ NewDay

Spec == Init /\ [][Next]_vars

-----------------------------------------------------------------------------
(* What is claimed of the Camp *)

Act == {"none", "dawn", "gift", "earn", "spend", "die", "ascend", "deposit", "withdraw", "room",
        "key", "rob", "blow"}

Row == [alive: BOOLEAN, purse: Nat, vault: Nat, duels: 0..DuelsPerDay, key: BOOLEAN,
        room: BOOLEAN, spouse: Climber \cup {None}, fight: Climber \cup {None}, day: 0..MaxDay]

ASSUME NoneAssumption == None \notin Row

\* Rows, requests and handlers are what the code declares them to be.
TypeOK ==
    /\ row \in [Climber -> Row \cup {None}]
    /\ today \in 0..MaxDay
    /\ robberies \subseteq (0..MaxDay) \X Climber \X Climber
    /\ pending \in [Climber -> [act: Act, victim: Climber \cup {None}, inRoom: BOOLEAN,
                                day: 0..MaxDay]]
    /\ tasks \subseteq [by: Climber, to: Climber, day: 0..MaxDay, coin: Nat,
                        at: {"note", "debit", "credit", "reward"},
                        next: {"debit", "reward", "done"}]
    /\ attempted \subseteq (0..MaxDay) \X Climber \X Climber
    /\ coin \in Nat
    /\ interrupted \in BOOLEAN
    /\ acts \in 0..MaxActs

\* What all climbers hold, and what is on its way from one to another
Held == SumFunction([c \in Climber |-> IF Here(c) THEN row[c].purse + row[c].vault ELSE 0])
OnItsWay == SumFunction([t \in tasks |-> t.coin])

\* A robbery moves coin and never makes any, whatever victim and robber do with
\* their purses between the blow, the debit and the credit, and whoever robs
\* them meanwhile.  Only a handler that dies half way loses some (_settle_robbery:
\* coin would be lost, never duplicated).
CoinIsOnlyMoved ==
    /\ Held + OnItsWay <= coin
    /\ ~interrupted => Held + OnItsWay = coin

\* One attempt per pair per day (lib/db.py): a duel is always spent on a sleeper
\* not yet tried that day, although the attempt is written down only after the
\* save that spends it, by a handler that midnight, an ascent, a reset and a
\* climber begun anew may overtake.  Only a handler that dies before its note
\* leaves the sleeper to be tried again.
EachDuelAnotherSleeper ==
    [][~interrupted =>
          \A c \in Climber : Rob(c) =>
              <<pending[c].day, c, pending[c].victim>> \notin attempted]_vars

\* Nobody wakes up in the middle of a fight: the sleeper a climber is fighting is
\* one attacked on the climber's own last day, and the dead have put down theirs.
FightEndsWithTheDay ==
    \A c \in Climber : Here(c) /\ row[c].fight # None =>
        row[c].alive /\ <<row[c].day, c, row[c].fight>> \in attempted

\* What is stored of the camp, and no fight in it outlives its day.
CampIsSound == TypeOK /\ FightEndsWithTheDay

=============================================================================
