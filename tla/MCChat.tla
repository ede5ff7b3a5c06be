------------------------------- MODULE MCChat -------------------------------
(***************************************************************************)
(* Two sockets: one goes between the lobby and a channel that is made and  *)
(* deleted, or into the room it is in already; the other stays in the      *)
(* lobby (MCAsks) and has no business in the channel, as it would have     *)
(* none in a direct message of the first.                                  *)
(***************************************************************************)
EXTENDS Chat

CONSTANTS s1, s2, lobby, den

MCMayRead == [s \in {s1, s2} |-> IF s = s1 THEN {lobby, den} ELSE {lobby}]
MCAsks == [s \in {s1, s2} |-> IF s = s1 THEN {lobby, den} ELSE {}]

=============================================================================
