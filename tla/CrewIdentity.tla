----------------------------- MODULE CrewIdentity -----------------------------
(***************************************************************************)
(* app/database.py, crew_people: which person a Deputy employee, an app    *)
(* account and a published assignment mean.  Captures reconcile accounts   *)
(* with their proven employees in the scheduler's threads, Admins merge,   *)
(* transfer and save people on the event loop, pool threads publish and    *)
(* activate.  A loop handler's SELECTs come before its transaction, so the *)
(* others commit between what it read and what it writes; each of them is  *)
(* one transaction.                                                        *)
(***************************************************************************)
EXTENDS FiniteSets, Naturals

CONSTANTS
    Persons,     \* rows of crew_people
    Employees,   \* those with a deputy_employee_id
    LoginCount,  \* accounts, in the order of their ids
    Days         \* published workdays with one assignment each

ASSUME CrewAssumption ==
    /\ Employees \subseteq Persons /\ "nobody" \notin Persons /\ IsFiniteSet(Persons)
    /\ LoginCount \in Nat

Logins == 1..LoginCount
NoLogin == 0

VARIABLES
    crew,      \* crew_people: app_user_id, merged_into_person_id, is_active
    user,      \* app_users: absent, active or inactive
    proof,     \* employees in the account's own evidence
    snapshot,  \* person of the published assignment
    shown,     \* workday_user_visibility
    edit,      \* what the loop's handler has read
    astray,    \* history: an edit was written to a person merged before
    unlisted   \* history: an account changed since the last rebuild

crewVars == <<crew, user, proof, snapshot, shown, edit, astray, unlisted>>

NoEdit == [op |-> "none", source |-> "nobody", target |-> "nobody", login |-> NoLogin, live |-> TRUE]

CrewInit ==
    /\ crew = [p \in Persons |-> [login |-> NoLogin, into |-> "nobody", live |-> TRUE]]
    /\ user = [u \in Logins |-> "absent"]
    /\ proof = [u \in Logins |-> {}]
    /\ snapshot = [d \in Days |-> "nobody"] /\ shown = [d \in Days |-> {}]
    /\ edit = NoEdit /\ astray = FALSE /\ unlisted = FALSE

-----------------------------------------------------------------------------
(* Redirects and visibility                                                 *)

\* _canonical_person_id_conn: the end of the redirects, nobody if they go round.
Canonical(people, p) ==
    LET at[n \in Nat] == IF n = 0 THEN p
                         ELSE LET q == at[n - 1] IN IF people[q].into = "nobody" THEN q ELSE people[q].into
        end == at[Cardinality(Persons)]
    IN IF people[p].into = "nobody" THEN p ELSE IF people[end].into = "nobody" THEN end ELSE "nobody"

\* _published_visibility_map_conn
Visible(people, accounts, published, d) ==
    LET p == published[d]
        q == IF p = "nobody" THEN p ELSE Canonical(people, p)
    IN {u \in Logins : q # "nobody" /\ people[q].live /\ people[q].login = u /\ accounts[u] = "active"}

\* _rebuild_workday_visibility_conn, at the end of a transaction.
Rebuilds ==
    /\ shown' = [d \in Days |-> Visible(crew', user', snapshot', d)]
    /\ unlisted' = FALSE

\* app_user_id is unique and refers to an account.
Linkable(people) ==
    /\ \A p, q \in Persons : p # q /\ people[p].login = people[q].login => people[p].login = NoLogin
    /\ \A p \in Persons : people[p].login # NoLogin => user[people[p].login] # "absent"

\* The writes of _merge_crew_people_conn: u is the source's account.
MergedInto(people, s, t, u) ==
    [p \in Persons |->
        IF p = s THEN [login |-> NoLogin, into |-> t, live |-> FALSE]
        ELSE IF p = t /\ u # NoLogin THEN [people[p] EXCEPT !.login = u] ELSE people[p]]

-----------------------------------------------------------------------------
(* The event loop: read, then write                                         *)

\* Mutant of MergeReads: whoever is the duplicate.
MergeReadsAnyone ==
    /\ edit.op = "none"
    /\ \E a, b \in Persons :
          LET s == Canonical(crew, a)  t == Canonical(crew, b) IN
          /\ "nobody" \notin {s, t} /\ s # t
          /\ crew[s].login # NoLogin => crew[t].login \in {NoLogin, crew[s].login}
          /\ edit' = [NoEdit EXCEPT !.op = "merge", !.source = s, !.target = t, !.login = crew[s].login]
    /\ UNCHANGED <<crew, user, proof, snapshot, shown, astray, unlisted>>

\* merge_crew_people: only an account-only duplicate, and only into a person
\* without another account.
MergeReads ==
    /\ edit.op = "none"
    /\ \E a, b \in Persons :
          LET s == Canonical(crew, a)  t == Canonical(crew, b) IN
          /\ "nobody" \notin {s, t} /\ s # t /\ s \notin Employees
          /\ crew[s].login # NoLogin => crew[t].login \in {NoLogin, crew[s].login}
          /\ edit' = [NoEdit EXCEPT !.op = "merge", !.source = s, !.target = t, !.login = crew[s].login]
    /\ UNCHANGED <<crew, user, proof, snapshot, shown, astray, unlisted>>

\* transfer_app_user_link
TransferReads ==
    /\ edit.op = "none"
    /\ \E u \in Logins, b \in Persons :
          LET t == Canonical(crew, b) IN
          /\ t # "nobody" /\ crew[t].login \in {NoLogin, u}
          /\ edit' = [NoEdit EXCEPT !.op = "transfer", !.target = t, !.login = u]
    /\ UNCHANGED <<crew, user, proof, snapshot, shown, astray, unlisted>>

\* admin_update_crew_person and update_crew_person, from a page of any age: the
\* person may have been merged since, the account must be nobody else's.
PersonReads ==
    /\ edit.op = "none"
    /\ \E p \in Persons, u \in Logins \cup {NoLogin}, live \in BOOLEAN :
          /\ u # NoLogin => \A q \in Persons \ {p} : crew[q].login # u
          /\ edit' = [NoEdit EXCEPT !.op = "save", !.target = p, !.login = u, !.live = live]
    /\ UNCHANGED <<crew, user, proof, snapshot, shown, astray, unlisted>>

\* What the edit makes of the people as they are now.
Edited ==
    LET t == edit.target IN
    CASE edit.op = "merge" -> MergedInto(crew, edit.source, t, edit.login)
      [] edit.op = "transfer" ->
            [p \in Persons |-> IF p = t THEN [crew[p] EXCEPT !.login = edit.login]
                               ELSE IF crew[p].login = edit.login THEN [crew[p] EXCEPT !.login = NoLogin]
                               ELSE crew[p]]
      [] edit.op = "save" -> [crew EXCEPT ![t].login = edit.login, ![t].live = edit.live]

\* Mutant of EditWrites: what was published is shown as before.
EditWritesOnly ==
    /\ edit.op # "none" /\ Linkable(Edited)
    /\ crew' = Edited /\ edit' = NoEdit
    /\ astray' = (astray \/ crew[edit.target].into # "nobody")
    /\ UNCHANGED <<user, proof, snapshot, shown, unlisted>>

EditWrites ==
    /\ edit.op # "none" /\ Linkable(Edited)
    /\ crew' = Edited /\ edit' = NoEdit
    /\ astray' = (astray \/ crew[edit.target].into # "nobody")
    /\ UNCHANGED <<user, proof, snapshot>>
    /\ Rebuilds

\* A constraint refuses it, or the process stops: nothing is written.
EditLost ==
    /\ edit.op # "none" /\ edit' = NoEdit
    /\ UNCHANGED <<crew, user, proof, snapshot, shown, astray, unlisted>>

-----------------------------------------------------------------------------
(* Reconciliation with the evidence of personal captures                    *)

\* Mutant of Current: also a person merged before.
CurrentMerged(u) == {p \in Persons : crew[p].login = u}

\* _identity_evidence_rows_conn: the people of an account, merged ones left out,
Current(u) == {p \in Persons : crew[p].login = u /\ crew[p].into = "nobody"}

\* and the accounts to be repaired, from what the tables say before the first
\* repair.
Repairs(evidence) ==
    {u \in Logins : /\ user[u] = "active" /\ Cardinality(evidence[u]) = 1
                    /\ \A e \in evidence[u] : Current(u) # {e} /\ crew[e].login \in {NoLogin, u}}

\* One account's repair: people is what the repairs before it left; the account's
\* own account-only person is merged into the employee, or the employee linked.
Repaired(people, u, e) ==
    IF Current(u) = {} THEN [people EXCEPT ![e].login = u]
    ELSE LET s == CHOOSE p \in Current(u) : TRUE IN
         IF s \in Employees THEN people ELSE MergedInto(people, s, e, u)

\* merge_crew_people's check raises, or a constraint does.
RepairFails(people, u, e) ==
    \/ Current(u) # {} /\ Current(u) \cap Employees = {} /\ people[e].login \notin {NoLogin, u}
    \/ ~Linkable(Repaired(people, u, e))

\* _reconcile_authenticated_identities_conn: one account after the other; an
\* exception of one rolls everything back.
AfterRepairs(evidence) ==
    LET due == Repairs(evidence)
        after[u \in 0..LoginCount] ==
            IF u = 0 THEN [people |-> crew, failed |-> FALSE]
            ELSE LET before == after[u - 1] IN
                 IF before.failed \/ u \notin due THEN before
                 ELSE LET e == CHOOSE x \in evidence[u] : TRUE IN
                      [people |-> Repaired(before.people, u, e), failed |-> RepairFails(before.people, u, e)]
    IN IF due = {} THEN after[0] ELSE after[LoginCount]

\* At start-up and when an Admin asks for it.
Reconciles ==
    LET repaired == AfterRepairs(proof) IN
    /\ ~repaired.failed /\ crew' = repaired.people
    /\ UNCHANGED <<user, proof, snapshot, edit, astray>>
    /\ Rebuilds

\* save_deputy_web_schedule with a personal roster; it fails as a whole when the
\* reconciliation does.
CaptureProves(u) ==
    \E found \in SUBSET Employees \ {{}} :
        LET evidence == [proof EXCEPT ![u] = found]
            repaired == AfterRepairs(evidence)
        IN
        /\ user[u] # "absent" /\ ~repaired.failed
        /\ proof' = evidence /\ crew' = repaired.people
        /\ UNCHANGED <<user, snapshot, edit, astray>>
        /\ Rebuilds

\* Complete captures without any shift cancel what was proven.
ProofCancelled(u) ==
    /\ proof[u] # {} /\ proof' = [proof EXCEPT ![u] = {}]
    /\ UNCHANGED <<crew, user, snapshot, shown, edit, astray, unlisted>>

-----------------------------------------------------------------------------
(* Pool threads                                                             *)

\* publish_roster_day, of positions read before.
Publishes(d) ==
    /\ \E p \in Persons : snapshot' = [snapshot EXCEPT ![d] = p]
    /\ UNCHANGED <<crew, user, proof, edit, astray>>
    /\ Rebuilds

\* Mutant of AccountActivated: the person is not looked at again.
AccountActivatedUnchecked(u) ==
    /\ user[u] = "absent" /\ user' = [user EXCEPT ![u] = "active"]
    /\ \/ UNCHANGED crew
       \/ \E p \in Persons : /\ crew[p].login = NoLogin
                             /\ crew' = [crew EXCEPT ![p].login = u]
    /\ unlisted' = TRUE
    /\ UNCHANGED <<proof, snapshot, shown, edit, astray>>

\* activate_account_invite, with or without a person.
AccountActivated(u) ==
    /\ user[u] = "absent" /\ user' = [user EXCEPT ![u] = "active"]
    /\ \/ UNCHANGED crew
       \/ \E p \in Persons : /\ crew[p].login = NoLogin /\ crew[p].live /\ crew[p].into = "nobody"
                             /\ crew' = [crew EXCEPT ![p].login = u]
    /\ unlisted' = TRUE
    /\ UNCHANGED <<proof, snapshot, shown, edit, astray>>

\* set_app_user_active
ActivityChanges(u) ==
    /\ user[u] # "absent"
    /\ user' = [user EXCEPT ![u] = IF @ = "active" THEN "inactive" ELSE "active"]
    /\ unlisted' = TRUE
    /\ UNCHANGED <<crew, proof, snapshot, shown, edit, astray>>

\* purge_app_user; evidence and visibility go by foreign key.
LoginPurged(u) ==
    /\ user[u] = "inactive" /\ user' = [user EXCEPT ![u] = "absent"]
    /\ crew' = [p \in Persons |-> IF crew[p].login = u THEN [crew[p] EXCEPT !.login = NoLogin] ELSE crew[p]]
    /\ proof' = [proof EXCEPT ![u] = {}]
    /\ shown' = [d \in Days |-> shown[d] \ {u}]
    /\ UNCHANGED <<snapshot, edit, astray, unlisted>>

CrewNext ==
    \/ MergeReads \/ TransferReads \/ PersonReads \/ EditWrites \/ EditLost \/ Reconciles
    \/ \E u \in Logins : \/ CaptureProves(u) \/ ProofCancelled(u) \/ AccountActivated(u)
                         \/ ActivityChanges(u) \/ LoginPurged(u)
    \/ \E d \in Days : Publishes(d)

CrewSpec == CrewInit /\ [][CrewNext]_crewVars

-----------------------------------------------------------------------------
(* Properties                                                               *)

CrewTypeOK ==
    /\ crew \in [Persons -> [login : Logins \cup {NoLogin}, into : Persons \cup {"nobody"}, live : BOOLEAN]]
    /\ user \in [Logins -> {"absent", "active", "inactive"}]
    /\ proof \in [Logins -> SUBSET Employees]
    /\ snapshot \in [Days -> Persons \cup {"nobody"}] /\ shown \in [Days -> SUBSET Logins]
    /\ edit \in [op : {"none", "merge", "transfer", "save"}, source : Persons \cup {"nobody"},
                 target : Persons \cup {"nobody"}, login : Logins \cup {NoLogin}, live : BOOLEAN]
    /\ astray \in BOOLEAN /\ unlisted \in BOOLEAN
    /\ Linkable(crew)

\* Every redirect ends at a person, although a merge redirects what it read
\* before another merge: published snapshots never lose whom they mean.
RedirectsEnd == \A p \in Persons : crew[p].into # "nobody" => Canonical(crew, p) # "nobody"

\* The reconciliation that every capture and every start-up runs does not fail
\* on any evidence, unless an edit put an account on a person merged before, or
\* two active accounts prove to be the same employee.
ReconciliationRuns ==
    \A evidence \in [Logins -> SUBSET Employees] :
        AfterRepairs(evidence).failed =>
            \/ astray
            \/ \E u, v \in Logins : /\ u # v /\ user[u] = "active" /\ user[v] = "active"
                                   /\ evidence[u] = evidence[v] /\ Cardinality(evidence[u]) = 1

\* "Published personal visibility resolves the assignment's canonical redirect
\* and current app link" - after every change of people, merge and publication;
\* an account activated, deactivated or linked by its invitation waits for the
\* next of them.
VisibilityCurrent ==
    ~unlisted => \A d \in Days : shown[d] = Visible(crew, user, snapshot, d)

\* A merge the pending one was overtaken by: its duplicate is merged by now.
Overtaken == edit.op = "merge" /\ crew[edit.source].into # "nobody"

\* Duplicates are retired for good: whoever somebody was resolved to before a
\* step, both are resolved to one person after it, so that published snapshots
\* and accounts never come apart - but for a merge of a duplicate that another
\* transaction merged after it was read, which redirects it once more.
MergesLast ==
    [][~(Overtaken /\ edit' # edit) =>
         \A p \in Persons : Canonical(crew', p) = Canonical(crew', Canonical(crew, p))]_crewVars

=============================================================================
