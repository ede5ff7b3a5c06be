----------------------------- MODULE ClimbHearts -----------------------------
(***************************************************************************)
(* Courtship and marriage between climbers: the hearts screens of          *)
(* lib/climb/scenes.py, and _people and _settle_heart of                   *)
(* lib/routes/climb_routes.py, which carry what one climber does over to   *)
(* another's row, to climb_hearts and to climb_doors.                      *)
(*                                                                         *)
(* A request reads (its own climber, then who is around), saves its own    *)
(* row if nobody has saved it since (ClimbStore), and only then, one       *)
(* database call at a time, tells the other side.  Everything runs between *)
(* those steps.  change is one step, as ClimbStore proves it to be.        *)
(*                                                                         *)
(* Abstracted: days (any number may pass between two steps, so no flirt is *)
(* refused for being today's second), charm (a climber who proposes has    *)
(* enough), affinity but for its reaching AFFINITY_TO_PROPOSE, and the     *)
(* length of the list of people.                                           *)
(***************************************************************************)
EXTENDS Naturals, FiniteSets

CONSTANTS
    Climber,
    None,
    Regular,    \* a spouse who is nobody's climber: Kalliste or Theron
    MaxActs     \* bound on the requests sent

ASSUME HeartAssumption ==
    None \notin Climber /\ Regular \notin Climber /\ None # Regular /\ MaxActs \in Nat

VARIABLES
    heart,        \* whom each climber is married to
    open,         \* open_heart
    away,         \* climbers not seen for IDLE_DAYS
    bonds,        \* climb_hearts, a row for each pair
    doors,        \* climb_doors: <<owner, shut to>>
    pending,      \* what each climber's request is about to save
    tasks,        \* the handlers with something left to tell the other side
    asked,        \* who has ever proposed to whom
    muddled,      \* who has got ahead of a handler of their own, and whom that reached
    interrupted,  \* has a handler died half way?
    acts

vars == <<heart, open, away, bonds, doors, pending, tasks, asked, muddled, interrupted, acts>>

Pair == {p \in SUBSET Climber : Cardinality(p) = 2}

NoBond == [flirted |-> {}, warm |-> FALSE, proposal |-> None]
Nothing == [act |-> "none", with |-> None]

Act == {"flirt", "propose", "accept", "decline", "divorce", "door:shut", "door:open"}
Step == {"first", "settle", "withdraw", "undo", "mail"}

\* What a marriage may hang on.
Weighty == {"propose", "accept", "divorce"}

Wed(c) == heart[c] # None
Shut(owner, c) == <<owner, c>> \in doors
Proposal(c, d) == bonds[{c, d}].proposal

\* At rest some climbers are married, to one who is married to them, and some
\* have proposed to another; how open and how warm they are is their own affair.
Init ==
    /\ heart \in [Climber -> Climber \cup {None, Regular}]
    /\ \A c, d \in Climber : heart[c] = d => c # d /\ heart[d] = c
    /\ open \in [Climber -> BOOLEAN]
    /\ away = {}
    /\ \E W \in SUBSET Pair, from \in [Pair -> Climber \cup {None}] :
          /\ \A p \in Pair : from[p] # None => p \in W /\ from[p] \in p /\ \A c \in p : heart[c] \notin p
          /\ bonds = [p \in Pair |-> [flirted |-> IF p \in W THEN p ELSE {}, warm |-> p \in W,
                                      proposal |-> from[p]]]
    /\ doors = {}
    /\ pending = [c \in Climber |-> Nothing]
    /\ tasks = {}
    /\ asked = {p \in Climber \X Climber : p[1] # p[2] /\ Proposal(p[1], p[2]) = p[1]}
    /\ muddled = {}
    /\ interrupted = FALSE
    /\ acts = 0

-----------------------------------------------------------------------------
(* What a climber is shown *)

\* everyone_else and _people
People(c) ==
    {d \in (Climber \ {c}) \ away :
        \/ heart[c] = d
        \/ Proposal(c, d) # None
        \/ /\ open[c]
           /\ open[d] \/ Shut(c, d) \/ d \in bonds[{c, d}].flirted}

\* why_not_flirt and can_propose
MayFlirt(c, d) == open[c] /\ open[d] /\ ~Wed(c) /\ ~Shut(c, d)
MayPropose(c, d) ==
    MayFlirt(c, d) /\ ~Wed(d) /\ bonds[{c, d}].warm /\ Proposal(c, d) = None

\* The slip of offering a yes to whoever sees a proposal.
OfferedEither(c, d) ==
    IF heart[c] = d THEN {"divorce"}
    ELSE {a \in Act :
            \/ a = "accept" /\ Proposal(c, d) # None /\ ~Wed(c) /\ ~Wed(d)
            \/ a = "decline" /\ Proposal(c, d) = d
            \/ a = "flirt" /\ MayFlirt(c, d)
            \/ a = "propose" /\ MayPropose(c, d)
            \/ a = (IF Shut(c, d) THEN "door:open" ELSE "door:shut")}

\* _suitor_screen: what c may do about d
Offered(c, d) ==
    IF heart[c] = d THEN {"divorce"}
    ELSE {a \in Act :
            \/ a = "accept" /\ Proposal(c, d) = d /\ ~Wed(c) /\ ~Wed(d)
            \/ a = "decline" /\ Proposal(c, d) = d
            \/ a = "flirt" /\ MayFlirt(c, d)
            \/ a = "propose" /\ MayPropose(c, d)
            \/ a = (IF Shut(c, d) THEN "door:open" ELSE "door:shut")}

-----------------------------------------------------------------------------
(* A climber's own row *)

\* Is a handler of c's still about something weighty?
Engaged(c) == \E t \in tasks : t.by = c /\ t.act \in Weighty

\* The row of c is written: it has been seen, and a copy of it is stale.
Written(c) ==
    /\ away' = away \ {c}
    /\ pending' = [pending EXCEPT ![c] = Nothing]

\* climb_act up to its save: everything it decides by has been read.  Nothing
\* waits for the handlers of c's earlier requests.  Of several forms of c at this
\* point at most one will be saved, since each asks for the same turn; pending is
\* the last that has not lost to another.
Ask(c, d, a) ==
    /\ acts < MaxActs
    /\ d \in People(c) /\ a \in Offered(c, d)
    /\ pending' = [pending EXCEPT ![c] = [act |-> a, with |-> d]]
    /\ muddled' = IF a \in Weighty /\ Engaged(c) THEN muddled \cup {c} ELSE muddled
    /\ acts' = acts + 1
    /\ UNCHANGED <<heart, open, away, bonds, doors, tasks, asked, interrupted>>

\* The least number that no handler of c's bears: handlers of the same are two.
Least(c, n) ==
    LET taken == {t.no : t \in {u \in tasks : u.by = c}}
    IN  n \notin taken /\ 0..n \ {n} \subseteq taken

\* climb_act's save, which succeeds since a written row forgets its request.
Save(c) ==
    LET a == pending[c].act
        d == pending[c].with
    IN  /\ a # "none"
        /\ heart' = [heart EXCEPT ![c] = CASE a = "accept"  -> d
                                           [] a = "divorce" -> None
                                           [] OTHER         -> @]
        /\ asked' = IF a = "propose" THEN asked \cup {<<c, d>>} ELSE asked
        /\ \E n \in 0..MaxActs :
              /\ Least(c, n)
              /\ tasks' = tasks \cup {[by |-> c, act |-> a, with |-> d, at |-> "first", no |-> n]}
        /\ Written(c)
        /\ UNCHANGED <<open, bonds, doors, muddled, interrupted, acts>>

\* What needs nobody else: heart:open and heart:close, the last step of a
\* regular's courtship, and part.
ChangeOwn(c) ==
    /\ acts < MaxActs
    /\ acts' = acts + 1
    /\ \/ open' = [open EXCEPT ![c] = ~@] /\ UNCHANGED heart
       \/ ~Wed(c) /\ heart' = [heart EXCEPT ![c] = Regular] /\ UNCHANGED open
       \/ heart[c] = Regular /\ heart' = [heart EXCEPT ![c] = None] /\ UNCHANGED open
    /\ Written(c)
    /\ UNCHANGED <<bonds, doors, tasks, asked, muddled, interrupted>>

\* IDLE_DAYS have gone by since c's last request.
StayAway(c) ==
    /\ pending[c] = Nothing /\ \A t \in tasks : t.by # c
    /\ away' = away \cup {c}
    /\ UNCHANGED <<heart, open, bonds, doors, pending, tasks, asked, muddled, interrupted, acts>>

-----------------------------------------------------------------------------
(* _settle_heart, one await at a time *)

Goes(t, step) == tasks' = (tasks \ {t}) \cup {[t EXCEPT !.at = step]}
Ends(t) == tasks' = tasks \ {t}

SetProposal(t, from) == bonds' = [bonds EXCEPT ![{t.by, t.with}].proposal = from]

ShutDoor(t) ==
    /\ t.act = "door:shut"
    /\ \/ /\ t.at = "first"
          /\ doors' = doors \cup {<<t.by, t.with>>}
          /\ Goes(t, "withdraw")
          /\ UNCHANGED bonds
       \/ /\ t.at = "withdraw"
          /\ SetProposal(t, None)
          /\ Ends(t)
          /\ UNCHANGED doors
    /\ UNCHANGED <<heart, away, pending>>

OpenDoor(t) ==
    /\ t.act = "door:open"
    /\ doors' = doors \ {<<t.by, t.with>>}
    /\ Ends(t)
    /\ UNCHANGED <<heart, away, bonds, pending>>

\* is_door_shut: what is sent through a shut door stops here.
Knock(t) ==
    /\ t.act \in {"flirt", "propose"} /\ t.at = "first"
    /\ IF Shut(t.with, t.by) THEN Ends(t) ELSE Goes(t, "settle")
    /\ UNCHANGED <<heart, away, bonds, doors, pending>>

\* note_flirt; a flirt that was returned may be the one that makes affinity do.
Flirt(t) ==
    /\ t.act = "flirt" /\ t.at = "settle"
    /\ \E warm \in BOOLEAN :
          /\ warm => t.with \in bonds[{t.by, t.with}].flirted
          /\ bonds' = [bonds EXCEPT ![{t.by, t.with}].flirted = @ \cup {t.by},
                                    ![{t.by, t.with}].warm = @ \/ warm]
    /\ Goes(t, "mail")
    /\ UNCHANGED <<heart, away, doors, pending>>

Propose(t) ==
    /\ t.act = "propose" /\ t.at = "settle"
    /\ SetProposal(t, t.by)
    /\ Goes(t, "mail")
    /\ UNCHANGED <<heart, away, doors, pending>>

Decline(t) ==
    /\ t.act = "decline" /\ t.at = "first"
    /\ SetProposal(t, None)
    /\ Goes(t, "mail")
    /\ UNCHANGED <<heart, away, doors, pending>>

\* change of the other's row that only leaves a letter there
Mail(t) ==
    /\ t.at = "mail"
    /\ Written(t.with)
    /\ Ends(t)
    /\ UNCHANGED <<heart, bonds, doors>>

\* The slip of not looking whether the other is still free.
AcceptAnyway(t) ==
    /\ t.act = "accept"
    /\ \/ /\ t.at = "first"
          /\ heart' = [heart EXCEPT ![t.with] = t.by]
          /\ Written(t.with)
          /\ Goes(t, "withdraw")
          /\ UNCHANGED bonds
       \/ /\ t.at = "withdraw"
          /\ SetProposal(t, None)
          /\ Ends(t)
          /\ UNCHANGED <<heart, away, pending>>
    /\ UNCHANGED doors

\* The slip of undoing a yes that came too late on the other's row.
AcceptUndoneThere(t) ==
    /\ t.act = "accept"
    /\ \/ /\ t.at = "first"
          /\ heart' = IF Wed(t.with) THEN heart ELSE [heart EXCEPT ![t.with] = t.by]
          /\ Written(t.with)
          /\ Goes(t, IF Wed(t.with) THEN "undo" ELSE "withdraw")
          /\ UNCHANGED bonds
       \/ /\ t.at = "withdraw"
          /\ SetProposal(t, None)
          /\ Ends(t)
          /\ UNCHANGED <<heart, away, pending>>
       \/ /\ t.at = "undo"
          /\ heart' = [heart EXCEPT ![t.with] = None]
          /\ Written(t.with)
          /\ Ends(t)
          /\ UNCHANGED bonds
    /\ UNCHANGED doors

\* wed on the other's row, the proposal off the table, and undo on one's own
\* if the other has married meanwhile
Accept(t) ==
    /\ t.act = "accept"
    /\ \/ /\ t.at = "first" /\ ~Wed(t.with)
          /\ heart' = [heart EXCEPT ![t.with] = t.by]
          /\ Written(t.with)
          /\ Goes(t, "withdraw")
          /\ UNCHANGED bonds
       \/ /\ t.at = "first" /\ Wed(t.with)
          /\ Written(t.with)
          /\ Goes(t, "settle")
          /\ UNCHANGED <<heart, bonds>>
       \/ /\ t.at \in {"withdraw", "settle"}
          /\ SetProposal(t, None)
          /\ IF t.at = "withdraw" THEN Ends(t) ELSE Goes(t, "undo")
          /\ UNCHANGED <<heart, away, pending>>
       \/ /\ t.at = "undo"
          /\ heart' = [heart EXCEPT ![t.by] = None]
          /\ Written(t.by)
          /\ Ends(t)
          /\ UNCHANGED bonds
    /\ UNCHANGED doors

\* part on the other's row, and forget_bond
Divorce(t) ==
    /\ t.act = "divorce"
    /\ \/ /\ t.at = "first"
          /\ heart' = IF heart[t.with] = t.by THEN [heart EXCEPT ![t.with] = None] ELSE heart
          /\ Written(t.with)
          /\ Goes(t, "settle")
          /\ UNCHANGED bonds
       \/ /\ t.at = "settle"
          /\ bonds' = [bonds EXCEPT ![{t.by, t.with}] = NoBond]
          /\ Ends(t)
          /\ UNCHANGED <<heart, away, pending>>
    /\ UNCHANGED doors

\* Whom a muddled climber weds or leaves is muddled too.
Spreads(t) ==
    muddled' = IF t.by \in muddled /\ t.act \in {"accept", "divorce"}
               THEN muddled \cup {t.with} ELSE muddled

Settle(t) ==
    /\ \/ ShutDoor(t) \/ OpenDoor(t) \/ Knock(t) \/ Flirt(t) \/ Propose(t)
       \/ Decline(t) \/ Mail(t) \/ Accept(t) \/ Divorce(t)
    /\ Spreads(t)
    /\ UNCHANGED <<open, asked, interrupted, acts>>

\* The handler dies with the process, or on a change that gives up.
Interrupt(t) ==
    /\ Ends(t)
    /\ interrupted' = TRUE
    /\ UNCHANGED <<heart, open, away, bonds, doors, pending, asked, muddled, acts>>

Next ==
    \/ \E c, d \in Climber, a \in Act : Ask(c, d, a)
    \/ \E c \in Climber : Save(c) \/ ChangeOwn(c) \/ StayAway(c)
    \/ \E t \in tasks : Settle(t) \/ Interrupt(t)

Spec == Init /\ [][Next]_vars

-----------------------------------------------------------------------------
(* What is claimed of hearts *)

\* Rows, bonds, doors and handlers are what the code declares them to be.
TypeOK ==
    /\ heart \in [Climber -> Climber \cup {None, Regular}]
    /\ open \in [Climber -> BOOLEAN]
    /\ away \subseteq Climber
    /\ bonds \in [Pair -> [flirted: SUBSET Climber, warm: BOOLEAN,
                           proposal: Climber \cup {None}]]
    /\ \A p \in Pair : bonds[p].flirted \subseteq p /\ bonds[p].proposal \in p \cup {None}
    /\ doors \subseteq Climber \X Climber
    /\ pending \in [Climber -> {Nothing} \cup [act: Act, with: Climber]]
    /\ \A c \in Climber : pending[c].with # c
    /\ tasks \subseteq [by: Climber, act: Act, with: Climber, at: Step, no: Nat]
    /\ asked \subseteq Climber \X Climber
    /\ muddled \subseteq Climber
    /\ interrupted \in BOOLEAN
    /\ acts \in 0..MaxActs

\* Marriage is mutual.  While a yes or a divorce is on its way the two rows may
\* differ, but between two who have no handler under way, whoever married whom in
\* the meantime, nobody is married to a climber who is not married to them.
\* Nothing is claimed of who is muddled: a divorce that gets ahead of the same
\* climber's own wedding leaves the other married alone (_settle_heart's wed does
\* not look whether the yes still holds).
MutualWhenQuiet ==
    ~interrupted =>
        \A c, d \in Climber \ muddled :
            heart[c] = d /\ (\A t \in tasks : t.by \notin {c, d}) => heart[d] = c

\* A marriage is ended by one of its two: neither an acceptance that came too
\* late (undo) nor the divorce of an earlier marriage (part) breaks one.  A
\* handler that dies before it has withdrawn a proposal leaves one that may be
\* accepted again while the divorce is on its way, and that divorce then ends
\* the second marriage: nothing is claimed once that has happened, nor of who is
\* muddled, since undo does not look whom it undoes.
EndedByTheTwo ==
    [][~interrupted =>
          \A c, d \in Climber \ muddled :
              heart[c] = d /\ heart[d] = c /\ heart'[c] # d =>
                  pending[c] = [act |-> "divorce", with |-> d]]_vars

\* Nobody is married without having asked: when a yes is on its way, the climber
\* whose row it will change has at some time proposed to the one who says it.
NobodyIsWedUnasked ==
    \A t \in tasks : t.act = "accept" /\ t.at = "first" => <<t.with, t.by>> \in asked

\* What is stored of hearts, and every yes on its way has been asked for.
HeartsAreSound == TypeOK /\ NobodyIsWedUnasked

=============================================================================
