----------------------------- MODULE MCMilleCpu -----------------------------
(***************************************************************************)
(* Nine cards for TLC: a breakdown, its remedy and its safety, both        *)
(* hazards that Right of Way answers and Right of Way, one roll and two    *)
(* distances.                                                              *)
(***************************************************************************)
EXTENDS MilleCpu

CONSTANTS accident, repairs, ace, stop, limit, row, roll, d200, d50

Printed(k, n) == [kind |-> k, miles |-> 0, name |-> n]
Distance(n) == [kind |-> "distance", miles |-> n, name |-> None]

MCCard == {accident, repairs, ace, stop, limit, row, roll, d200, d50}

MCFace ==
    [c \in MCCard |->
        CASE c = accident -> Printed("hazard", "Accident")
          [] c = repairs  -> Printed("remedy", "Repairs")
          [] c = ace      -> Printed("safety", "Driving Ace")
          [] c = stop     -> Printed("hazard", "Stop")
          [] c = limit    -> Printed("hazard", "Speed Limit")
          [] c = row      -> Printed("safety", "Right of Way")
          [] c = roll     -> Printed("remedy", "Roll")
          [] c = d200     -> Distance(200)
          [] OTHER        -> Distance(50)]

=============================================================================
