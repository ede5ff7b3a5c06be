------------------------------- MODULE MCFjords -------------------------------
(***************************************************************************)
(* Two jarls for a year and into the next, with each habit in one of three *)
(* years, and one surprise at any point of it.                             *)
(***************************************************************************)
EXTENDS Fjords, TLC

CONSTANTS hild, ulf

Years ==
    {hild :> "raider" @@ ulf :> "farmer",
     hild :> "conqueror" @@ ulf :> "",
     hild :> "turtle" @@ ulf :> "trader"}

=============================================================================
