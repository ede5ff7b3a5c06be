------------------------------ MODULE ClimbStore ------------------------------
(***************************************************************************)
(* One climber's row under concurrent requests: load, save and change of   *)
(* lib/climb/store.py, as climb_page, climb_act and _tell_the_town of      *)
(* lib/routes/climb_routes.py call them.  Each call awaits the database,   *)
(* so any other request may run between a load and the save that follows.  *)
(* A row is the set of requests whose change it holds: a save writes the   *)
(* whole climber back, that is, what was loaded and the request's own.     *)
(*                                                                         *)
(* Rows do not touch each other, so one row stands for every climber's.    *)
(***************************************************************************)
EXTENDS Naturals, FiniteSets

CONSTANTS
    Form,       \* POSTed forms: each carries the turn of the screen it is from
    Page,       \* page views that have a dawn or mail to apply
    Change,     \* calls of change, made for another climber's request
    Tries,      \* what change allows itself; 6 in the code
    MaxLives,   \* bound on the climbers begun in this row
    NoRow

Req == Form \cup Page \cup Change

Row == [turn: Nat, done: SUBSET Req, life: Nat]

ASSUME StoreAssumption ==
    /\ Tries \in Nat \ {0}
    /\ MaxLives \in Nat
    /\ NoRow \notin Nat /\ NoRow \notin Row
    /\ Form \cap Change = {} /\ Page \cap Change = {}

VARIABLES
    row,      \* turn, the requests done and the life of the climber; or NoRow
    lives,    \* how many climbers have been begun
    req       \* each request: where it is and what it has loaded

storeVars == <<row, lives, req>>

Pc == {"ready", "loaded", "saved", "stale", "failed", "gone"}

Fresh == [pc |-> "ready", copy |-> NoRow, tries |-> 0, into |-> NoRow]

StoreInit ==
    /\ row = NoRow
    /\ lives = 0
    /\ req = [r \in Req |-> Fresh]

-----------------------------------------------------------------------------
\* create: INSERT OR IGNORE, so a climber who is there is left alone.  turn
\* starts again from its default.
Create ==
    /\ row = NoRow
    /\ lives < MaxLives
    /\ lives' = lives + 1
    /\ row' = [turn |-> 0, done |-> {}, life |-> lives']
    /\ UNCHANGED req

\* delete, by climb_admin_reset or with the account
Delete ==
    /\ row # NoRow
    /\ row' = NoRow
    /\ UNCHANGED <<lives, req>>

\* load.  A form whose turn is not the row's is from an earlier screen, and
\* climb_act turns it away at once.
Load(r) ==
    /\ req[r].pc = "ready"
    /\ \/ /\ row = NoRow
          /\ req' = [req EXCEPT ![r].pc = "gone"]
       \/ /\ row # NoRow
          /\ req' = [req EXCEPT ![r].pc = "loaded", ![r].copy = row]
       \/ /\ row # NoRow /\ r \in Form
          /\ req' = [req EXCEPT ![r].pc = "stale"]
    /\ UNCHANGED <<row, lives>>

\* UPDATE ... WHERE turn = ?
Current(r) == row # NoRow /\ row.turn = req[r].copy.turn

\* The slip of a save that does not look at the turn.
SaveBlindly(r) ==
    /\ req[r].pc = "loaded" /\ row # NoRow
    /\ row' = [row EXCEPT !.turn = @ + 1, !.done = req[r].copy.done \cup {r}]
    /\ req' = [req EXCEPT ![r].pc = "saved", ![r].into = row.life]
    /\ UNCHANGED lives

\* save, when the turn is still the one loaded
Save(r) ==
    /\ req[r].pc = "loaded"
    /\ Current(r)
    /\ row' = [row EXCEPT !.turn = @ + 1, !.done = req[r].copy.done \cup {r}]
    /\ req' = [req EXCEPT ![r].pc = "saved", ![r].into = row.life]
    /\ UNCHANGED lives

\* save, when it is not: change loads again and gives up with a RuntimeError,
\* the others show what the request that won has done.
SaveLost(r) ==
    /\ req[r].pc = "loaded"
    /\ ~Current(r)
    /\ \/ /\ r \notin Change
          /\ req' = [req EXCEPT ![r].pc = "stale"]
       \/ /\ r \in Change /\ req[r].tries + 1 < Tries
          /\ req' = [req EXCEPT ![r].pc = "ready", ![r].tries = @ + 1]
       \/ /\ r \in Change /\ req[r].tries + 1 = Tries
          /\ req' = [req EXCEPT ![r].pc = "failed", ![r].tries = @ + 1]
    /\ UNCHANGED <<row, lives>>

\* Every request has been answered.
Done == (\A r \in Req : req[r].pc \notin {"ready", "loaded"}) /\ UNCHANGED storeVars

StoreNext ==
    \/ Create
    \/ Delete
    \/ \E r \in Req : Load(r) \/ Save(r) \/ SaveLost(r)
    \/ Done

StoreSpec == StoreInit /\ [][StoreNext]_storeVars

-----------------------------------------------------------------------------
(* What is claimed of the row *)

\* The row and the copies of it are what climb_players declares.
StoreTypeOK ==
    /\ row \in Row \cup {NoRow}
    /\ lives \in Nat
    /\ req \in [Req -> [pc: Pc, copy: Row \cup {NoRow}, tries: 0..Tries,
                        into: Nat \cup {NoRow}]]

\* A screen is good for one action: of all the forms, page views and changes
\* that start from one turn of a climber, at most one is saved (save's
\* docstring: a double-click, a second tab, or a resubmitted form loses that
\* race and changes nothing).
OneActionPerScreen ==
    \A r, q \in Req :
        /\ r # q
        /\ req[r].pc = "saved" /\ req[q].pc = "saved"
        /\ req[r].into = req[q].into
        => req[r].copy.turn # req[q].copy.turn

\* change gives up only after as many others have won: it is a climber under
\* siege, or one deleted and begun again, never its own doing.
ContentionIsReal ==
    \A r \in Change : req[r].pc = "failed" =>
        Cardinality({q \in Req : req[q].pc = "saved"}) + lives >= Tries

\* The requests and the row at any moment: a screen brings one action, and a
\* change that gives up has been beaten often enough.
RequestsAreSound == StoreTypeOK /\ OneActionPerScreen /\ ContentionIsReal

\* The row as ClimbRow has it.
Promise == INSTANCE ClimbRow WITH
    None <- NoRow,
    life <- IF row = NoRow THEN NoRow ELSE row.life,
    done <- IF row = NoRow THEN {} ELSE row.done,
    saw <- [r \in Req |-> IF req[r].copy = NoRow THEN NoRow ELSE req[r].copy.life],
    answer <- [r \in Req |-> IF req[r].pc \in {"ready", "loaded"} THEN NoRow ELSE req[r].pc]

\* Load, compare and save implement changes that happen at once.
ChangesAreAtomic == Promise!Spec

=============================================================================
