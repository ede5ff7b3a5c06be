------------------------------ MODULE MCAccounts ------------------------------
(***************************************************************************)
(* Two requests at a time on a board that starts empty.                    *)
(***************************************************************************)
EXTENDS Accounts, TLC

CONSTANTS c1, c2

Symmetric == Permutations({c1, c2})

=============================================================================
