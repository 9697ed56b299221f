----------------------------- MODULE DeputyWrites -----------------------------
(***************************************************************************)
(* The monitored Deputy trial write path of app/deputy_integration.py: an  *)
(* Admin confirms a preview of a published workday, execute_trial_batch    *)
(* preflights it, runs one prepared operation per changed assignment and   *)
(* publishes the verified rosters, while people edit Deputy directly,      *)
(* requests get lost and the process may stop.                             *)
(*                                                                         *)
(* One HTTP request, with the rows written before the next one, is one     *)
(* action.  The route is a coroutine that never awaits inside a batch, so  *)
(* batches do not overlap and no assignment is saved during one.  A shift  *)
(* is a version of its assignment: every version of one assignment is for  *)
(* the same employee and overlaps the others, "moved" is one elsewhere.    *)
(***************************************************************************)
EXTENDS Naturals, FiniteSets

CONSTANTS
    Keys,      \* stable assignment keys of the workday
    Versions,  \* shifts the workday may want for an assignment
    Slots,     \* Deputy roster ids of one employee (a bound)
    None,      \* no roster, no shift
    Publish,   \* the key "publish:<workday>"
    Faults,    \* "lost", "error", "readiness", "crash"
    Edits      \* what others do in Deputy: "add", "edit", "remove", "lock"

ASSUME DeputyWritesAssumption ==
    /\ IsFiniteSet(Keys \X Slots)
    /\ None \notin Versions \cup {"moved"} /\ None \notin Keys \X Slots
    /\ Publish \notin Keys /\ "moved" \notin Versions

Rosters == Keys \X Slots
Shifts == Versions \cup {"moved"}
Ops == Keys \cup {Publish}
Active == {"prepared", "sending", "unknown"}
Mutations == {"create", "update", "delete"}

VARIABLES
    workday,   \* workday_assignments: the shift wanted per key, or None
    links,     \* deputy_roster_links by stable_assignment_key
    ops,       \* status of the latest deputy_write_operations row per key
    batch,     \* local variables of execute_trial_batch and execute_operation
    deputy,    \* external: the shift of each roster in Deputy, or None
    published, \* external: rosters Deputy shows as published
    locked,    \* external: rosters locked by a timesheet
    origin,    \* history: who created a roster
    touched,   \* history: rosters others edited
    deleted    \* history: rosters deleted by a DELETE of this program

local == <<workday, links, ops, batch>>
remote == <<deputy, published, locked, origin, touched, deleted>>
vars == <<local, remote>>

NoLink == [roster |-> None, own |-> "none", hash |-> None, base |-> None]
NoBatch == [pc |-> "idle", plan |-> [k \in Keys |-> "none"], goal |-> [k \in Keys |-> None],
            roster |-> [k \in Keys |-> None], left |-> {}, key |-> Publish, target |-> None,
            own |-> "created", sent |-> FALSE, ids |-> {}, fresh |-> {}]

At(pc) == batch.pc = pc
Goto(pc) == batch' = [batch EXCEPT !.pc = pc]

-----------------------------------------------------------------------------
(* What Deputy's queries answer                                             *)

\* roster_candidates that are _business_equal to shift v.
Exact(k, v) == {r \in Rosters : r[1] = k /\ deputy[r] = v}

\* employee_day_candidates that overlap shift v and differ from it.
Overlapping(k, v) == {r \in Rosters : r[1] = k /\ deputy[r] \in Versions \ {v}}

\* A roster Deputy lets the account change.
Writable(r) == deputy[r] # None /\ r \notin locked

-----------------------------------------------------------------------------
(* Preview and preflight                                                    *)

\* build_trial_preview: the operation for an assignment.
Planned(k) ==
    LET l == links[k] IN
    IF workday[k] = None
    THEN (IF l.own = "created" /\ l.roster # None THEN "delete" ELSE "none")
    ELSE IF l.hash = workday[k] THEN "unchanged"
    ELSE IF l.roster # None THEN "update"
    ELSE "create"

\* The confirmed request builds the preview it runs.
BatchBegins ==
    /\ At("idle") /\ \E k \in Keys : Planned(k) # "none"
    /\ batch' = [NoBatch EXCEPT !.pc = "preflight",
                   !.plan = [k \in Keys |-> Planned(k)],
                   !.goal = workday,
                   !.roster = [k \in Keys |-> links[k].roster],
                   !.left = {k \in Keys : Planned(k) # "none"}]
    /\ UNCHANGED <<workday, links, ops, remote>>

\* preflight_trial_batch finds nothing against the action for k.
Ready(k) ==
    LET r == batch.roster[k] IN
    IF batch.plan[k] = "create"
    THEN Cardinality(Exact(k, batch.goal[k])) <= 1 /\ Overlapping(k, batch.goal[k]) = {}
    ELSE /\ r # None
         /\ Writable(r)
         /\ batch.plan[k] = "unchanged" => deputy[r] = batch.goal[k]
         /\ batch.plan[k] \in {"update", "delete"} => deputy[r] = links[k].base

PreflightPasses(k) ==
    /\ At("preflight") /\ k \in batch.left /\ Ready(k)
    /\ batch' = [batch EXCEPT !.left = @ \ {k}]
    /\ UNCHANGED <<workday, links, ops, remote>>

\* A blocker, or no answer: the batch ends before any mutation.
PreflightBlocks ==
    /\ At("preflight")
    /\ \E k \in batch.left : ~Ready(k) \/ Faults \cap {"lost", "error", "readiness"} # {}
    /\ batch' = NoBatch
    /\ UNCHANGED <<workday, links, ops, remote>>

\* The intended mutations are what is left; the rosters of unchanged
\* assignments are to be published with those the mutations verify.
PreflightEnds ==
    /\ At("preflight") /\ batch.left = {}
    /\ batch' = [batch EXCEPT !.pc = "next",
                   !.left = {k \in Keys : batch.plan[k] \in Mutations},
                   !.ids = {batch.roster[k] : k \in {h \in Keys : batch.plan[h] = "unchanged"}}]
    /\ UNCHANGED <<workday, links, ops, remote>>

-----------------------------------------------------------------------------
(* prepare_operation and the start of execute_operation                     *)

Kind == IF batch.key = Publish THEN "publish" ELSE batch.plan[batch.key]

\* Mutant of Stop: the batch goes on with its other assignments.
StopGoesOn(s) ==
    /\ ops' = [ops EXCEPT ![batch.key] = s]
    /\ batch' = [batch EXCEPT !.pc = "next", !.left = @ \ {batch.key}]

\* The operation fails, or its result is not known, and the batch stops.
Stop(s) ==
    /\ ops' = [ops EXCEPT ![batch.key] = s]
    /\ batch' = NoBatch

\* The operation is verified and the batch goes on.
Verified ==
    /\ ops' = [ops EXCEPT ![batch.key] = "verified"]
    /\ batch' = [batch EXCEPT !.pc = "next", !.left = @ \ {batch.key}, !.ids = @ \cup {batch.target}]

\* The key of the next operation: assignments in order, then removals, then
\* one publish of what was verified.
NextKeys ==
    IF batch.left = {} THEN {Publish}
    ELSE IF \A k \in batch.left : batch.plan[k] = "delete" THEN batch.left
    ELSE {k \in batch.left : batch.plan[k] # "delete"}

\* prepare_operation inserts the operation; the unique index on active operations
\* refuses a second one of the same key.
Prepare ==
    /\ At("next")
    /\ \E k \in NextKeys :
        /\ ops[k] \notin Active
        /\ k # Publish /\ batch.plan[k] = "create" => links[k].roster = None
        /\ ops' = [ops EXCEPT ![k] = "prepared"]
        /\ batch' = [batch EXCEPT !.pc = "execute", !.key = k, !.own = "created", !.sent = FALSE,
                       !.target = IF k = Publish THEN None ELSE batch.roster[k]]
    /\ UNCHANGED <<workday, links, remote>>

\* prepare_operation raises: an operation is active, or the account is no
\* longer ready to write.  The request ends.
PrepareRaises ==
    /\ At("next")
    /\ \E k \in NextKeys : ops[k] \in Active \/ "readiness" \in Faults
    /\ batch' = NoBatch
    /\ UNCHANGED <<workday, links, ops, remote>>

\* The account passes verify_write_readiness again and the operation is sent;
\* a delete needs a link whose roster this program created.
Execute ==
    /\ At("execute")
    /\ IF Kind = "delete" /\ links[batch.key].own # "created"
       THEN Stop("failed")
       ELSE /\ ops' = [ops EXCEPT ![batch.key] = "sending"]
            /\ Goto(CASE Kind = "create" -> "exact"
                      [] Kind \in {"update", "delete"} -> "read"
                      [] Kind = "publish" -> "publishread")
    /\ UNCHANGED <<workday, links, remote>>

\* The second readiness check fails; without an answer it raises and leaves the
\* operation prepared.
ExecuteNotReady ==
    /\ At("execute") /\ "readiness" \in Faults
    /\ Stop("failed") \/ (batch' = NoBatch /\ UNCHANGED ops)
    /\ UNCHANGED <<workday, links, remote>>

-----------------------------------------------------------------------------
(* Create                                                                   *)

\* Mutant of FindExact: an exact roster is not adopted.
FindExactIgnored ==
    /\ At("exact")
    /\ IF Cardinality(Exact(batch.key, batch.goal[batch.key])) > 1 THEN Stop("ambiguous")
       ELSE Goto("overlap") /\ UNCHANGED ops
    /\ UNCHANGED <<workday, links, remote>>

\* Mutant of FindExact: an adopted roster keeps the provenance of a created one.
FindExactAsCreated ==
    /\ At("exact")
    /\ LET E == Exact(batch.key, batch.goal[batch.key]) IN
       IF Cardinality(E) > 1 THEN Stop("ambiguous")
       ELSE /\ batch' = [batch EXCEPT !.pc = "overlap",
                           !.target = IF E = {} THEN None ELSE CHOOSE r \in E : TRUE]
            /\ UNCHANGED ops
    /\ UNCHANGED <<workday, links, remote>>

\* Look for exact candidates: several are ambiguous, one is to be adopted.
FindExact ==
    /\ At("exact")
    /\ LET E == Exact(batch.key, batch.goal[batch.key]) IN
       IF Cardinality(E) > 1 THEN Stop("ambiguous")
       ELSE /\ batch' = [batch EXCEPT !.pc = "overlap",
                           !.target = IF E = {} THEN None ELSE CHOOSE r \in E : TRUE,
                           !.own = IF E = {} THEN "created" ELSE "adopted"]
            /\ UNCHANGED ops
    /\ UNCHANGED <<workday, links, remote>>

\* Another shift of the employee that overlaps stops the create.
FindOverlap ==
    /\ At("overlap")
    /\ IF Overlapping(batch.key, batch.goal[batch.key]) # {} THEN Stop("failed")
       ELSE /\ batch' = [batch EXCEPT !.pc = IF batch.target = None THEN "post" ELSE "readback",
                           !.sent = (batch.target = None)]
            /\ UNCHANGED ops
    /\ UNCHANGED <<workday, links, remote>>

\* external: Deputy creates roster r with the desired shift.
Created(r) ==
    /\ r[1] = batch.key /\ origin[r] = "none"
    /\ deputy' = [deputy EXCEPT ![r] = batch.goal[batch.key]]
    /\ origin' = [origin EXCEPT ![r] = "redeputy"]
    /\ UNCHANGED <<published, locked, touched, deleted>>

\* How an answer other than success, or one that cannot be read, ends a write.
Refusals == {"failed", "locked", "ambiguous"}

\* POST the new shift: it is created and answered, created or not and answered
\* with an error, or created and the answer is lost.
Post ==
    /\ At("post")
    /\ \/ \E r \in Rosters : /\ Created(r)
                             /\ batch' = [batch EXCEPT !.pc = "readback", !.target = r]
                             /\ UNCHANGED ops
       \/ \E s \in Refusals : Stop(s) /\ UNCHANGED remote
       \/ \E r \in Rosters, s \in Refusals : "error" \in Faults /\ Created(r) /\ Stop(s)
       \/ \E r \in Rosters : "lost" \in Faults /\ Created(r) /\ Goto("reconcile") /\ UNCHANGED ops
    /\ UNCHANGED <<workday, links>>

-----------------------------------------------------------------------------
(* Update, delete and the read-back                                         *)

\* Mutant of SaveLink: the ownership of an earlier binding survives a create.
SaveLinkKeepingOwner(r, own) ==
    links' = [links EXCEPT ![batch.key] =
                [roster |-> r, own |-> IF @.own = "none" THEN own ELSE @.own,
                 hash |-> batch.goal[batch.key], base |-> batch.goal[batch.key]]]

\* _save_roster_link: a create replaces the ownership, an update keeps it.
SaveLink(r, own) ==
    links' = [links EXCEPT ![batch.key] =
                [roster |-> r, own |-> IF Kind = "create" THEN own ELSE @.own,
                 hash |-> batch.goal[batch.key], base |-> batch.goal[batch.key]]]

\* GET before an update or delete: gone, locked or drifted from the link's last
\* verified state stops it; a shift already as desired is verified unchanged.
Read ==
    /\ At("read")
    /\ LET now == deputy[batch.target] IN
       IF now = None THEN Stop("failed")
       ELSE IF batch.target \in locked THEN Stop("locked")
       ELSE IF now # links[batch.key].base THEN Stop("failed")
       ELSE IF Kind = "update" /\ now = batch.goal[batch.key] THEN Verified
       ELSE Goto(IF Kind = "update" THEN "put" ELSE "delete") /\ UNCHANGED ops
    /\ UNCHANGED <<workday, links, remote>>

\* external: Deputy gives roster r shift v, or removes it when v is None.
Written(r, v) ==
    /\ Writable(r)
    /\ deputy' = [deputy EXCEPT ![r] = v]
    /\ deleted' = IF v = None THEN deleted \cup {r} ELSE deleted
    /\ UNCHANGED <<published, locked, origin, touched>>

\* PUT or DELETE: done and answered, refused, done and answered with an error,
\* or done and the answer is lost.
Write(v, then) ==
    /\ \/ Written(batch.target, v) /\ Goto(then) /\ UNCHANGED ops
       \/ \E s \in Refusals : Stop(s) /\ UNCHANGED remote
       \/ \E s \in Refusals : "error" \in Faults /\ Written(batch.target, v) /\ Stop(s)
       \/ "lost" \in Faults /\ Written(batch.target, v) /\ Goto("reconcile") /\ UNCHANGED ops
    /\ UNCHANGED <<workday, links>>

Put == At("put") /\ Write(batch.goal[batch.key], "readback")
Delete == At("delete") /\ Write(None, "gone")

\* GET after a create or update: the link is saved only for a shift that reads
\* back as desired.
ReadBack ==
    /\ At("readback")
    /\ IF deputy[batch.target] = batch.goal[batch.key]
       THEN SaveLink(batch.target, batch.own) /\ Goto("finish") /\ UNCHANGED ops
       ELSE Stop("unknown") /\ UNCHANGED links
    /\ UNCHANGED <<workday, remote>>

\* GET after a delete: the roster must be gone; the link keeps its ownership.
ReadGone ==
    /\ At("gone")
    /\ IF deputy[batch.target] = None
       THEN /\ links' = [links EXCEPT ![batch.key].roster = None, ![batch.key].base = None]
            /\ Goto("finish") /\ UNCHANGED ops
       ELSE Stop("unknown") /\ UNCHANGED links
    /\ UNCHANGED <<workday, remote>>

\* _finish_operation after the link was saved.
Finish == At("finish") /\ Verified /\ UNCHANGED <<workday, links, remote>>

-----------------------------------------------------------------------------
(* Publish                                                                  *)

PublishRead ==
    /\ At("publishread")
    /\ IF \E r \in batch.ids : deputy[r] = None THEN Stop("unknown")
       ELSE IF batch.ids \subseteq published THEN Stop("verified")
       ELSE batch' = [batch EXCEPT !.pc = "publish", !.fresh = batch.ids \ published] /\ UNCHANGED ops
    /\ UNCHANGED <<workday, links, remote>>

\* external: Deputy publishes the rosters S that exist.
Shown(S) ==
    /\ published' = published \cup {r \in S : deputy[r] # None}
    /\ UNCHANGED <<deputy, locked, origin, touched, deleted>>

\* POST the publish request, with the answers of any write.
PublishPost ==
    /\ At("publish")
    /\ \/ Shown(batch.fresh) /\ Goto("publishverify") /\ UNCHANGED ops
       \/ \E s \in Refusals : Stop(s) /\ UNCHANGED remote
       \/ \E s \in Refusals : "error" \in Faults /\ Shown(batch.fresh) /\ Stop(s)
       \/ "lost" \in Faults /\ Shown(batch.fresh) /\ Goto("reconcile") /\ UNCHANGED ops
    /\ UNCHANGED <<workday, links>>

PublishVerify ==
    /\ At("publishverify")
    /\ IF \A r \in batch.fresh : deputy[r] # None /\ r \in published
       THEN Stop("verified") ELSE Stop("unknown")
    /\ UNCHANGED <<workday, links, remote>>

-----------------------------------------------------------------------------
(* Failures                                                                 *)

Requests == {"exact", "overlap", "post", "readback", "read", "put", "delete", "gone",
             "publishread", "publish", "publishverify"}

\* A request fails with a network error before Deputy acted on it.  Only a
\* create whose POST may have been transmitted can be reconciled.
RequestLost ==
    /\ "lost" \in Faults /\ batch.pc \in Requests
    /\ IF Kind = "create" /\ ~batch.sent THEN Stop("unknown")
       ELSE Goto("reconcile") /\ UNCHANGED ops
    /\ UNCHANGED <<workday, links, remote>>

\* A read is answered with an error or something that is not a shift.
ReadFails ==
    /\ "error" \in Faults
    /\ \/ batch.pc \in {"exact", "overlap", "read"} /\ Stop("failed")
       \/ batch.pc \in {"readback", "publishread", "publishverify"} /\ (Stop("failed") \/ Stop("unknown"))
       \/ batch.pc = "gone" /\ Stop("unknown")
    /\ UNCHANGED <<workday, links, remote>>

\* A lost create: one equivalent roster is linked without claiming it.
ReconcileCreate ==
    LET E == Exact(batch.key, batch.goal[batch.key]) IN
    IF Cardinality(E) = 1
    THEN (\E r \in E : SaveLink(r, "unconfirmed")) /\ Stop("unknown")
    ELSE Stop(IF E = {} THEN "unknown" ELSE "ambiguous") /\ UNCHANGED links

\* The state a lost update, delete or publish wanted is there.
Reconciled ==
    CASE Kind = "update" -> deputy[batch.target] = batch.goal[batch.key]
      [] Kind = "delete" -> deputy[batch.target] = None
      [] Kind = "publish" -> \A r \in batch.ids : deputy[r] # None /\ r \in published

\* _reconcile_after_network_error: read what Deputy has.  A reconciled update or
\* delete is verified and leaves the link as it was.
Reconcile ==
    /\ At("reconcile")
    /\ IF Kind = "create" THEN ReconcileCreate
       ELSE /\ IF ~Reconciled THEN Stop("unknown")
               ELSE IF Kind = "publish" THEN Stop("verified") ELSE Verified
            /\ UNCHANGED links
    /\ UNCHANGED <<workday, remote>>

\* Reconciliation gets no answer, or one it cannot read: that exception leaves
\* the operation sending.
ReconcileFails ==
    /\ At("reconcile")
    /\ \/ "lost" \in Faults /\ Stop("unknown")
       \/ "error" \in Faults /\ batch' = NoBatch /\ UNCHANGED ops
    /\ UNCHANGED <<workday, links, remote>>

\* The process stops; nothing recovers prepared or sending operations later.
Crash ==
    /\ "crash" \in Faults /\ batch.pc # "idle"
    /\ batch' = NoBatch
    /\ UNCHANGED <<workday, links, ops, remote>>

-----------------------------------------------------------------------------
(* The workday and Deputy's other users                                     *)

\* Assignments are saved between batches.
WorkdayChanges(k, v) ==
    /\ At("idle") /\ workday[k] # v
    /\ workday' = [workday EXCEPT ![k] = v]
    /\ UNCHANGED <<links, ops, batch, remote>>

\* external: somebody adds an equivalent or another shift for the employee.
OutsideAdds(r, v) ==
    /\ "add" \in Edits /\ origin[r] = "none"
    /\ deputy' = [deputy EXCEPT ![r] = v]
    /\ origin' = [origin EXCEPT ![r] = "other"]
    /\ UNCHANGED <<local, published, locked, touched, deleted>>

\* external: somebody edits a roster.
OutsideEdits(r, v) ==
    /\ "edit" \in Edits /\ Writable(r) /\ deputy[r] # v
    /\ deputy' = [deputy EXCEPT ![r] = v]
    /\ touched' = touched \cup {r}
    /\ UNCHANGED <<local, published, locked, origin, deleted>>

\* external: somebody removes a roster.
OutsideRemoves(r) ==
    /\ "remove" \in Edits /\ Writable(r)
    /\ deputy' = [deputy EXCEPT ![r] = None]
    /\ UNCHANGED <<local, published, locked, origin, touched, deleted>>

\* external: a timesheet locks a roster.
TimesheetLocks(r) ==
    /\ "lock" \in Edits /\ Writable(r)
    /\ locked' = locked \cup {r}
    /\ UNCHANGED <<local, deputy, published, origin, touched, deleted>>

-----------------------------------------------------------------------------

Init ==
    /\ workday = [k \in Keys |-> None]
    /\ links = [k \in Keys |-> NoLink]
    /\ ops = [k \in Ops |-> "none"]
    /\ batch = NoBatch
    /\ deputy = [r \in Rosters |-> None]
    /\ origin = [r \in Rosters |-> "none"]
    /\ published = {} /\ locked = {} /\ touched = {} /\ deleted = {}

Batch == BatchBegins \/ (\E k \in Keys : PreflightPasses(k)) \/ PreflightBlocks \/ PreflightEnds
           \/ Prepare \/ PrepareRaises \/ Execute \/ ExecuteNotReady

Operation == FindExact \/ FindOverlap \/ Post \/ Read \/ Put \/ Delete \/ ReadBack \/ ReadGone
               \/ Finish \/ PublishRead \/ PublishPost \/ PublishVerify

Failure == RequestLost \/ ReadFails \/ Reconcile \/ ReconcileFails \/ Crash

Outside ==
    \/ \E k \in Keys, v \in Versions \cup {None} : WorkdayChanges(k, v)
    \/ \E r \in Rosters :
        \/ \E v \in Shifts : OutsideAdds(r, v) \/ OutsideEdits(r, v)
        \/ OutsideRemoves(r) \/ TimesheetLocks(r)

Next == Batch \/ Operation \/ Failure \/ Outside

Spec == Init /\ [][Next]_vars

-----------------------------------------------------------------------------
(* Properties                                                               *)

Link == [roster : Rosters \cup {None}, own : {"none", "created", "adopted", "unconfirmed"},
         hash : Versions \cup {None}, base : Versions \cup {None}]

BatchState == [pc : {"idle", "preflight", "next", "execute", "reconcile", "finish"} \cup Requests,
               plan : [Keys -> {"none", "unchanged"} \cup Mutations],
               goal : [Keys -> Versions \cup {None}], roster : [Keys -> Rosters \cup {None}],
               left : SUBSET Keys, key : Ops, target : Rosters \cup {None},
               own : {"created", "adopted"}, sent : BOOLEAN,
               ids : SUBSET Rosters, fresh : SUBSET Rosters]

\* Type invariant of the tables, the running batch and Deputy.
TypeOK ==
    /\ workday \in [Keys -> Versions \cup {None}]
    /\ links \in [Keys -> Link]
    /\ ops \in [Ops -> {"none", "verified"} \cup Active \cup Refusals]
    /\ batch \in BatchState
    /\ deputy \in [Rosters -> Shifts \cup {None}]
    /\ origin \in [Rosters -> {"none", "redeputy", "other"}]
    /\ published \subseteq Rosters /\ locked \subseteq Rosters
    /\ touched \subseteq Rosters /\ deleted \subseteq Rosters

\* "Ownership must describe the current roster binding": a link that claims a
\* roster as created names one this program's own POST created, through
\* deletes, re-created and adopted assignments, lost answers and restarts.
OwnershipIsCurrent ==
    \A k \in Keys : (links[k].own = "created" /\ links[k].roster # None)
                      => origin[links[k].roster] = "redeputy"

\* Re-Deputy never deletes a roster it did not create, however the roster came
\* to be linked ("adoption -> later DELETE denied").
DeleteAuthority == \A r \in deleted : origin[r] = "redeputy"

\* Retries, lost answers and restarts never leave an employee with two
\* overlapping shifts of Re-Deputy's making that nobody else edited.
OneOwnShift ==
    \A r, s \in Rosters :
        (/\ r[1] = s[1] /\ r # s /\ {r, s} \cap touched = {}
         /\ origin[r] = "redeputy" /\ origin[s] = "redeputy")
            => deputy[r] = None \/ deputy[s] = None

\* "A batch publishes only after every intended mutation is verified": while
\* the publish operation runs, no assignment of the batch failed, is unknown,
\* or was skipped, and no unchanged one lost its link.
PublishAfterAll ==
    batch.pc \in {"publishread", "publish", "publishverify"} =>
        \A k \in Keys :
            /\ batch.plan[k] \in Mutations => ops[k] = "verified"
            /\ batch.plan[k] = "unchanged" => batch.roster[k] # None /\ links[k].hash = batch.goal[k]

\* With a Deputy that answers every request and nobody editing it, publishing
\* what a batch verified is never left unknown.
FaultFreePublish == (Faults = {} /\ Edits = {}) => ops[Publish] # "unknown"

=============================================================================
