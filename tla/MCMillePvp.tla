----------------------------- MODULE MCMillePvp -----------------------------
(***************************************************************************)
(* A deck of ten cards for TLC: a breakdown with its remedy and its        *)
(* safety, both hazards that Right of Way answers, Right of Way itself,    *)
(* rolls and distances of which 200 is over the speed limit.               *)
(***************************************************************************)
EXTENDS MillePvp, TLC

CONSTANTS accident, repairs, ace, stop, limit, row, roll1, roll2, d200, d50

Printed(k, n) == [kind |-> k, miles |-> 0, name |-> n]
Distance(n) == [kind |-> "distance", miles |-> n, name |-> None]

MCCard == {accident, repairs, ace, stop, limit, row, roll1, roll2, d200, d50}

MCFace ==
    [c \in MCCard |->
        CASE c = accident -> Printed("hazard", "Accident")
          [] c = repairs  -> Printed("remedy", "Repairs")
          [] c = ace      -> Printed("safety", "Driving Ace")
          [] c = stop     -> Printed("hazard", "Stop")
          [] c = limit    -> Printed("hazard", "Speed Limit")
          [] c = row      -> Printed("safety", "Right of Way")
          [] c \in {roll1, roll2} -> Printed("remedy", "Roll")
          [] c = d200     -> Distance(200)
          [] OTHER        -> Distance(50)]

\* Two rolls are printed alike.
RollsAlike == Permutations({roll1, roll2})

=============================================================================
