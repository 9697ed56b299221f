---------------------------- MODULE MCSyncQueue ----------------------------
(* Instances of SyncQueue for TLC.                                          *)
EXTENDS SyncQueue, TLC

\* Accounts differ only in the order a plan happens to visit them, and manual
\* jobs not at all.
Symmetry == Permutations(Users) \cup Permutations(Jobs)

\* With every account active, two generations and no pre-shift window; with
\* fewer, three generations and the window.
Bounded == (\A u \in Users : active[u]) => lastGen < 3 /\ window = "closed"

=============================================================================
