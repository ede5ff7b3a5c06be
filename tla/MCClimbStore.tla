---------------------------- MODULE MCClimbStore ----------------------------
EXTENDS ClimbStore, TLC

\* Requests of one kind are interchangeable.
Interchangeable == Permutations(Form) \cup Permutations(Change)

=============================================================================
