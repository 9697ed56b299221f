---------------------------- MODULE MCDeputyWrites ----------------------------
(* Instances of DeputyWrites for TLC.                                       *)
EXTENDS DeputyWrites, TLC

\* Roster ids, wanted shifts and assignments are interchangeable.
Symmetry == Permutations(Slots) \cup Permutations(Versions) \cup Permutations(Keys)

=============================================================================
