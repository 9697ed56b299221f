------------------------ MODULE MCWorkdayPositions -------------------------
(* Instances of WorkdayPositions for TLC.                                   *)
EXTENDS WorkdayPositions, FiniteSets, TLC

\* People, positions and the pool's threads are interchangeable.
Symmetry == Permutations(People) \cup Permutations(Positions) \cup Permutations(Pool)

\* Drafts that offer every position or all but one, or keep one person in two.
MCForms ==
    {f \in Slots : \/ Cardinality({p \in Positions : f[p] = "closed"}) < 2
                         /\ \A p \in Positions : f[p] \in {"open", "closed"}
                   \/ Doubled(f) # {}}

\* The second draft meets one request at a time, the first meets two.
Bounded == saves + Cardinality({t \in Pool : thread[t].pc # "idle"}) <= 3

=============================================================================
