------------------------------ MODULE MCCommons ------------------------------
(***************************************************************************)
(* Two requests at a time by two users, of whom one may be deleted.        *)
(***************************************************************************)
EXTENDS Commons, TLC

CONSTANTS q1, q2, ann, root

Symmetric == Permutations({q1, q2})

=============================================================================
