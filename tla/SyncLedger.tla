------------------------------ MODULE SyncLedger -----------------------------
(***************************************************************************)
(* What the generation tables promise to the rest of the program, whatever *)
(* threads, manual requests and restarts do: a dispatch is one pending row *)
(* with its members; at most one scheduled dispatch is open; each member   *)
(* is claimed once and ends once; a dispatch settles with its last member. *)
(***************************************************************************)
EXTENDS Naturals

CONSTANTS Users, MaxGens

VARIABLES lastGen, kind, status, member

ledger == <<lastGen, kind, status, member>>

Gens == 1..MaxGens
Terminal == {"success", "partial", "error"}

\* The status that the members m of a generation give it.
Verdict(m) ==
    IF \E u \in Users : m[u] \in {"pending", "running"} THEN "pending"
    ELSE IF \E u \in Users : m[u] = "error" THEN "error"
    ELSE "complete"

Init ==
    /\ lastGen = 0
    /\ kind = [g \in Gens |-> "none"]
    /\ status = [g \in Gens |-> "none"]
    /\ member = [g \in Gens |-> [u \in Users |-> "absent"]]

\* A new generation for the users S; a scheduled one only when none is open.
Dispatch(k, S) ==
    /\ lastGen < MaxGens /\ S # {}
    /\ k = "scheduled" => \A g \in Gens : ~(kind[g] = "scheduled" /\ status[g] = "pending")
    /\ lastGen' = lastGen + 1
    /\ kind' = [kind EXCEPT ![lastGen + 1] = k]
    /\ status' = [status EXCEPT ![lastGen + 1] = "pending"]
    /\ member' = [member EXCEPT ![lastGen + 1] =
                     [u \in Users |-> IF u \in S THEN "pending" ELSE "absent"]]

\* A pending member is claimed.
Claim(g, u) ==
    /\ status[g] = "pending" /\ member[g][u] = "pending"
    /\ member' = [member EXCEPT ![g][u] = "running"]
    /\ UNCHANGED <<lastGen, kind, status>>

\* A claimed member ends, and the generation with its last member.
End(g, u, s) ==
    /\ status[g] = "pending" /\ member[g][u] = "running"
    /\ member' = [member EXCEPT ![g][u] = s]
    /\ status' = [status EXCEPT ![g] = Verdict(member'[g])]
    /\ UNCHANGED <<lastGen, kind>>

\* Every claimed member ends as an error at once.
Recover ==
    /\ member' = [g \in Gens |-> [u \in Users |->
                     IF member[g][u] = "running" THEN "error" ELSE member[g][u]]]
    /\ status' = [g \in Gens |-> IF status[g] = "pending" THEN Verdict(member'[g]) ELSE status[g]]
    /\ UNCHANGED <<lastGen, kind>>

Next ==
    \/ \E k \in {"scheduled", "manual"}, S \in SUBSET Users : Dispatch(k, S)
    \/ \E g \in Gens, u \in Users : Claim(g, u) \/ (\E s \in Terminal : End(g, u, s))
    \/ Recover

Spec == Init /\ [][Next]_ledger

=============================================================================
