------------------------------ MODULE MCServices ------------------------------
(***************************************************************************)
(* Account administration, backups, the roster evidence, crew identity and *)
(* a batch of two Deputy writes, for TLC.  What they share (an account's   *)
(* activity, its evidence) each models for itself, so that nothing is      *)
(* gained by interleaving them: each behaviour is one of a part's, the     *)
(* others wait in an initial state.                                        *)
(***************************************************************************)
EXTENDS Administration, Backups, RosterEvidence, CrewIdentity, DeputyWrites, TLC

CONSTANTS a1, a2, q1, q2, u1, u2, s1, s2, pe, pa, pb

VARIABLE part

Parts == {"admin", "backups", "roster", "crew", "writes"}
serviceVars == <<adminVars, backupVars, rosterVars, crewVars, vars, part>>

AdminRests == /\ account = [a \in Accounts |-> "active"] /\ isAdmin = [a \in Accounts |-> TRUE]
              /\ roleAudit = {} /\ request[q1].actor = a1
RosterRests == /\ truth = [s \in ShiftIds |-> Gone] /\ vt = FALSE
               /\ slice = [u \in Users |-> {}]

ServicesInit ==
    /\ part \in Parts
    /\ AdminInit /\ (part # "admin" => AdminRests)
    /\ BackupInit
    /\ RosterInit /\ (part # "roster" => RosterRests)
    /\ CrewInit
    /\ Init  \* of DeputyWrites

ServicesNext ==
    /\ UNCHANGED part
    /\ \/ part = "admin" /\ AdminNext /\ UNCHANGED <<backupVars, rosterVars, crewVars, vars>>
       \/ part = "backups" /\ BackupNext /\ UNCHANGED <<adminVars, rosterVars, crewVars, vars>>
       \/ part = "roster" /\ RosterNext /\ UNCHANGED <<adminVars, backupVars, crewVars, vars>>
       \/ part = "crew" /\ CrewNext /\ UNCHANGED <<adminVars, backupVars, rosterVars, vars>>
       \/ part = "writes" /\ Next /\ UNCHANGED <<adminVars, backupVars, rosterVars, crewVars>>

Services == ServicesInit /\ [][ServicesNext]_serviceVars

-----------------------------------------------------------------------------
(* Bounds                                                                   *)

\* The second request comes after the first, which is a1's: accounts and
\* requests are interchangeable.  a2 may have made a1 an Admin before.
AdminBounded ==
    /\ request[q1].actor = a1
    /\ request[q1].pc = "new" =>
          roleAudit = {} \/ (roleAudit = {<<a2, a1>>} /\ account[a2] = "inactive")
    /\ request[q2].pc # "new" => request[q1].pc # "new"

Got(n, d, p, o) == [native |-> n, direct |-> d, page |-> p, own |-> o]
MCKinds ==
    {Got(TRUE, "whole", FALSE, "none"), Got(TRUE, "none", FALSE, "none"), Got(FALSE, "exact", FALSE, "none"),
     Got(FALSE, "whole", FALSE, "part"), Got(FALSE, "none", TRUE, "none"), Got(FALSE, "none", FALSE, "whole")}

\* s1 is there first; u2 has no own roster and may see less.  Locks, and a
\* purge, meet two captures of the whole slice; otherwise there are three.
RosterBounded ==
    /\ slice[u1] = ShiftIds /\ slice[u2] \in {ShiftIds, {s1}} /\ (vt => slice[u2] = ShiftIds)
    /\ edits = 0 => truth[s1] # Gone /\ truth[s2] = Gone
    /\ capture[u2].kind.own = "none"
    /\ capture[u1].on /\ capture[u2].on => captures = 2
    /\ captures = 3 => edits = 1 /\ over = {} /\ purged = {}
    /\ captures = 0 => over = {} \/ purged = {}
    /\ past \subseteq over /\ purged \subseteq {u2}
    /\ over # {} => purged = {} /\ slice[u2] = ShiftIds

\* One account and three people, or two accounts and two people; the flag of a
\* person, and what is published, matter in the first.
CrewBounded ==
    \/ /\ user[2] = "absent"
       /\ \A p \in Persons \ {pa} : crew[p].live \/ crew[p].into # "nobody"
       /\ edit.live \/ edit.target = pa
       /\ \A d \in Days : snapshot[d] \in {"nobody", pa}
    \/ /\ crew[pb].login = NoLogin /\ crew[pb].into = "nobody" /\ crew[pb].live
       /\ pb \notin {edit.source, edit.target} /\ edit.live
       /\ \A p \in Persons : crew[p].live \/ crew[p].into # "nobody"
       /\ \A d \in Days : snapshot[d] = "nobody"

\* Others have removed or locked at most one roster of the batch.
Disturbed == locked \cup {r \in Rosters \ deleted : origin[r] # "none" /\ deputy[r] = None}
WritesBounded == Cardinality(Disturbed) <= 1

Bounded ==
    /\ part = "admin" => AdminBounded
    /\ part = "roster" => RosterBounded
    /\ part = "crew" => CrewBounded
    /\ part = "writes" => WritesBounded

-----------------------------------------------------------------------------

\* The assignments of a batch are interchangeable; the other parts have none.
Symmetry == Permutations(Keys)

=============================================================================
