------------------------------- MODULE ClimbRow -------------------------------
(***************************************************************************)
(* What lib/climb/store.py promises of one climber's row: every request    *)
(* that is answered "saved" has changed the row in one step, on top of all *)
(* that was saved before it, and every other request has changed nothing.  *)
(*                                                                         *)
(* There is one exception, and the promise names it: a request that saw a  *)
(* climber who has been deleted since, and begun anew, may bring the old   *)
(* one back.                                                               *)
(***************************************************************************)
EXTENDS Naturals

CONSTANTS Req, None

VARIABLES
    life,     \* which climber the row holds; None when there is no row
    done,     \* the requests whose change the row holds
    saw,      \* the life each request has seen last, or None
    answer    \* what each request came to, or None

rowVars == <<life, done, saw, answer>>

Answer == {"saved", "stale", "failed", "gone"}

Init ==
    /\ life = None
    /\ done = {}
    /\ saw = [r \in Req |-> None]
    /\ answer = [r \in Req |-> None]

Look(r) ==
    /\ answer[r] = None /\ life # None
    /\ saw' = [saw EXCEPT ![r] = life]
    /\ UNCHANGED <<life, done, answer>>

Apply(r) ==
    /\ answer[r] = None /\ saw[r] # None /\ saw[r] = life
    /\ done' = done \cup {r}
    /\ answer' = [answer EXCEPT ![r] = "saved"]
    /\ UNCHANGED <<life, saw>>

Revive(r) ==
    /\ answer[r] = None
    /\ life # None /\ saw[r] # None /\ saw[r] < life
    /\ \E old \in SUBSET Req : done' = old \cup {r}
    /\ answer' = [answer EXCEPT ![r] = "saved"]
    /\ UNCHANGED <<life, saw>>

Refuse(r) ==
    /\ answer[r] = None
    /\ \E a \in Answer \ {"saved"} : answer' = [answer EXCEPT ![r] = a]
    /\ UNCHANGED <<life, done, saw>>

Begin ==
    /\ life = None
    /\ life' \in Nat
    /\ done' = {}
    /\ \A r \in Req : saw[r] # None => saw[r] < life'
    /\ UNCHANGED <<saw, answer>>

Delete ==
    /\ life' = None
    /\ done' = {}
    /\ UNCHANGED <<saw, answer>>

Next ==
    \/ \E r \in Req : Look(r) \/ Apply(r) \/ Revive(r) \/ Refuse(r)
    \/ Begin
    \/ Delete

Spec == Init /\ [][Next]_rowVars

=============================================================================
