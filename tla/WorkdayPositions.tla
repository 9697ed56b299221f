-------------------------- MODULE WorkdayPositions --------------------------
(***************************************************************************)
(* One manually organised workday of app/database.py and app/main.py: an   *)
(* admin saves drafts of its positions and publishes versions, crew apply  *)
(* for the open positions and withdraw, an admin accepts or declines.      *)
(*                                                                         *)
(* Saving and reviewing are `async def` routes: they run to their end on   *)
(* the one event loop.  Publishing, applying, withdrawing and deleting are *)
(* `def` routes: they run in threads of the pool, between the statements   *)
(* of each other and of the loop.  One transaction is one action, and so   *)
(* is a read before the first write of its connection.                     *)
(***************************************************************************)
EXTENDS Naturals

CONSTANTS
    People,       \* crew identities with an account, eligible for the positions
    NoOne,        \* no person
    Positions,    \* assignment keys of the day
    NoPosition,   \* no position
    Loop,         \* the event loop
    Pool,         \* threads of the request pool
    Forms,        \* bound: the positions admins enter
    MaxApps,      \* bound: applications ever made
    MaxVersions,  \* bound: versions ever published
    MaxSaves      \* bound: drafts ever saved

ASSUME WorkdayAssumption ==
    /\ NoOne \notin People /\ NoPosition \notin Positions /\ Loop \notin Pool
    /\ People \cap {"open", "closed"} = {}
    /\ Forms \subseteq [Positions -> {"open", "closed"} \cup People]
    /\ MaxApps \in Nat /\ MaxVersions \in Nat /\ MaxSaves \in Nat

VARIABLES
    day,       \* roster_days.status; "none" before the first save
    slot,      \* workday_assignments: "open", a person, or "closed" (TBC, no row)
    versions,  \* rows of roster_day_versions
    shown,     \* roster_days.published_snapshot, once versions > 0
    app,       \* workday_open_position_applications, by id
    lastApp,   \* its highest id
    thread,    \* local variables of the loop and of the pool's threads
    saves,     \* drafts saved
    kept,      \* history: people an admin deliberately keeps in two positions
    behind     \* history: the last publication wrote an old reading, or was lost

vars == <<day, slot, versions, shown, app, lastApp, thread, saves, kept, behind>>

Threads == {Loop} \cup Pool
Slots   == [Positions -> {"open", "closed"} \cup People]
Closed  == [p \in Positions |-> "closed"]
Ids     == 1..MaxApps
NoApp   == [person |-> NoOne, position |-> NoPosition, status |-> "absent", late |-> FALSE]
Idle    == [pc |-> "idle", person |-> NoOne, position |-> NoPosition, app |-> 0,
            slots |-> Closed, flag |-> FALSE, number |-> 0]

-----------------------------------------------------------------------------
(* Queries                                                                  *)

Exists == day \notin {"none", "deleted"}
Published == versions > 0
Live == {"pending", "accepted"}

\* The rows idx_workday_application_active allows once per person and position.
LiveApps(x, p) ==
    {a \in Ids : app[a].person = x /\ app[a].position = p /\ app[a].status \in Live}

PendingAt(p) == {a \in Ids : app[a].position = p /\ app[a].status = "pending"}

\* People who hold two positions of s.
Doubled(s) == {x \in People : \E p, q \in Positions : p # q /\ s[p] = x /\ s[q] = x}

\* workday_assignment_conflicts: another position of the day, or other work,
\* of which Deputy captures and other workdays may bring some at any time.
Conflict(x, elsewhere) == elsewhere \/ \E p \in Positions : slot[p] = x

Become(t, r) == thread' = [thread EXCEPT ![t] = r]

-----------------------------------------------------------------------------
(* admin_save_roster_day and save_roster_day, on the loop                   *)

\* Whether the day was published is read before the transaction begins.  (The
\* form of a deleted day makes another day.)
SaveReads ==
    /\ thread[Loop].pc = "idle" /\ day # "deleted" /\ saves < MaxSaves
    /\ Become(Loop, [Idle EXCEPT !.pc = "save", !.flag = Published])
    /\ UNCHANGED <<day, slot, versions, shown, app, lastApp, saves, kept, behind>>

\* Pending applications of positions that were open and no longer are.
CancelClosed(form) ==
    app' = [a \in Ids |->
              IF /\ app[a].status = "pending"
                 /\ slot[app[a].position] = "open" /\ form[app[a].position] # "open"
              THEN [app[a] EXCEPT !.status = "cancelled_position"] ELSE app[a]]

\* The status of a saved day; flag: it was published when it was looked up.
SavedStatus(flag) == IF flag THEN "changes_pending" ELSE "draft"

\* The day's row and all its positions are replaced by those of a form, which
\* may be of any age; a day deleted meanwhile has nothing to update.
Replace(form, keepBoth, status) ==
    /\ thread[Loop].pc = "save" /\ Become(Loop, Idle) /\ saves' = saves + 1
    /\ IF day = "deleted" THEN UNCHANGED <<day, slot, kept>>
       ELSE day' = status /\ slot' = form /\ kept' = IF keepBoth THEN Doubled(form) ELSE {}
    /\ UNCHANGED <<versions, shown, lastApp, behind>>

\* Mutant of SaveWrites: a published day stays published.
SaveWritesPublished(form, keepBoth) ==
    /\ Doubled(form) = {} \/ keepBoth
    /\ Replace(form, keepBoth, IF thread[Loop].flag THEN "published" ELSE "draft")
    /\ IF day = "deleted" THEN UNCHANGED app ELSE CancelClosed(form)

\* A form with one person in two positions is refused unless it says to keep
\* both; a closed position takes its pending applications with it.
SaveWrites(form, keepBoth) ==
    /\ Doubled(form) = {} \/ keepBoth
    /\ Replace(form, keepBoth, SavedStatus(thread[Loop].flag))
    /\ IF day = "deleted" THEN UNCHANGED app ELSE CancelClosed(form)

-----------------------------------------------------------------------------
(* publish_roster_day, for admin_publish_roster_day and after a review      *)

\* The positions are read for the snapshot.
PublishReads(t) ==
    /\ IF t = Loop THEN thread[t].pc = "republish" ELSE thread[t].pc = "idle" /\ Exists
    /\ Become(t, IF Exists /\ (t # Loop \/ Published)
                 THEN [thread[t] EXCEPT !.pc = "number", !.slots = slot] ELSE Idle)
    /\ UNCHANGED <<day, slot, versions, shown, app, lastApp, saves, kept, behind>>

\* The next version number is read, before the transaction begins.
PublishNumbers(t) ==
    /\ thread[t].pc = "number" /\ versions < MaxVersions
    /\ Become(t, IF Exists THEN [thread[t] EXCEPT !.pc = "publish", !.number = versions + 1]
                 ELSE Idle)
    /\ UNCHANGED <<day, slot, versions, shown, app, lastApp, saves, kept, behind>>

\* The snapshot and the version row are written, unless the number is taken
\* or the day is gone: then the transaction fails and is rolled back.
PublishWrites(t) ==
    /\ thread[t].pc = "publish" /\ Become(t, Idle)
    /\ IF Exists /\ thread[t].number = versions + 1
       THEN /\ versions' = thread[t].number /\ shown' = thread[t].slots
            /\ day' = "published"
            /\ behind' = (thread[t].slots # slot)
       ELSE UNCHANGED <<day, versions, shown, behind>>
    /\ UNCHANGED <<slot, app, lastApp, saves, kept>>

-----------------------------------------------------------------------------
(* apply_for_open_workday_position, in the pool                             *)

\* The position is open and published, and the person has no live application.
ApplyReads(t, x, p) ==
    /\ thread[t].pc = "idle" /\ slot[p] = "open" /\ Published /\ LiveApps(x, p) = {}
    /\ Become(t, [Idle EXCEPT !.pc = "apply", !.person = x, !.position = p])
    /\ UNCHANGED <<day, slot, versions, shown, app, lastApp, saves, kept, behind>>

\* A conflict ends the request.
ApplyChecks(t, elsewhere) ==
    /\ thread[t].pc = "apply"
    /\ Become(t, IF Conflict(thread[t].person, elsewhere)
                 THEN Idle ELSE [thread[t] EXCEPT !.pc = "insert"])
    /\ UNCHANGED <<day, slot, versions, shown, app, lastApp, saves, kept, behind>>

\* A new pending row of person x for position p.
Insert(x, p) ==
    /\ lastApp' = lastApp + 1
    /\ app' = [app EXCEPT ![lastApp + 1] =
                 [person |-> x, position |-> p, status |-> "pending", late |-> slot[p] # "open"]]

\* Mutant of ApplyInserts: no unique index.
ApplyInsertsTwice(t) ==
    /\ thread[t].pc = "insert" /\ lastApp < MaxApps /\ Become(t, Idle)
    /\ Insert(thread[t].person, thread[t].position)
    /\ UNCHANGED <<day, slot, versions, shown, saves, kept, behind>>

\* The row is inserted, whatever became of the position, unless the unique
\* index already holds a live one.
ApplyInserts(t) ==
    /\ thread[t].pc = "insert" /\ lastApp < MaxApps /\ Become(t, Idle)
    /\ IF LiveApps(thread[t].person, thread[t].position) = {}
       THEN Insert(thread[t].person, thread[t].position)
       ELSE UNCHANGED <<app, lastApp>>
    /\ UNCHANGED <<day, slot, versions, shown, saves, kept, behind>>

-----------------------------------------------------------------------------
(* withdraw_open_workday_application, in the pool                           *)

\* The person's pending application is looked up.
WithdrawReads(t, a) ==
    /\ thread[t].pc = "idle" /\ app[a].status = "pending"
    /\ Become(t, [Idle EXCEPT !.pc = "withdraw", !.app = a])
    /\ UNCHANGED <<day, slot, versions, shown, app, lastApp, saves, kept, behind>>

\* It is withdrawn by its id, whatever it has become.
WithdrawWrites(t) ==
    /\ thread[t].pc = "withdraw" /\ Become(t, Idle)
    /\ app' = [app EXCEPT ![thread[t].app].status = "withdrawn"]
    /\ UNCHANGED <<day, slot, versions, shown, lastApp, saves, kept, behind>>

-----------------------------------------------------------------------------
(* admin_review_workday_application and review_open_workday_application,    *)
(* on the loop                                                              *)

\* The application is still pending.
ReviewReads(a, accept, override) ==
    /\ thread[Loop].pc = "idle" /\ app[a].status = "pending"
    /\ Become(Loop, [Idle EXCEPT !.pc = IF accept THEN "check" ELSE "decline",
                                 !.app = a, !.flag = override])
    /\ UNCHANGED <<day, slot, versions, shown, app, lastApp, saves, kept, behind>>

\* Mutant of ReviewChecks: conflicts are found and never looked at.
ReviewChecksNothing(elsewhere) ==
    /\ thread[Loop].pc = "check"
    /\ Become(Loop, [thread[Loop] EXCEPT !.pc = "accept"])
    /\ UNCHANGED <<day, slot, versions, shown, app, lastApp, saves, kept, behind>>

\* A conflict that is not overridden ends the review.
ReviewChecks(elsewhere) ==
    /\ thread[Loop].pc = "check"
    /\ Become(Loop, IF Conflict(app[thread[Loop].app].person, elsewhere) /\ ~thread[Loop].flag
                    THEN Idle ELSE [thread[Loop] EXCEPT !.pc = "accept"])
    /\ UNCHANGED <<day, slot, versions, shown, app, lastApp, saves, kept, behind>>

\* Application a is accepted; the others pending at p become s.
Answer(a, p, s) ==
    app' = [b \in Ids |->
              IF b = a THEN [app[b] EXCEPT !.status = "accepted"]
              ELSE IF b \in PendingAt(p) THEN [app[b] EXCEPT !.status = s] ELSE app[b]]

\* Position p goes to x, and application a to "accepted", unless the position
\* is no longer open or the unique index refuses a second live application.
Accept(a, x, p, others) ==
    IF slot[p] = "open" /\ LiveApps(x, p) \subseteq {a}
    THEN /\ slot' = [slot EXCEPT ![p] = x]
         /\ Answer(a, p, others)
         /\ kept' = IF thread[Loop].flag THEN kept \cup {x} ELSE kept
         /\ Become(Loop, [thread[Loop] EXCEPT !.pc = "republish", !.position = p])
    ELSE UNCHANGED <<slot, app, kept>> /\ Become(Loop, Idle)

\* Mutant of ReviewAccepts: the other applicants are left pending.
ReviewAcceptsOne ==
    /\ thread[Loop].pc = "accept"
    /\ LET a == thread[Loop].app IN Accept(a, app[a].person, app[a].position, "pending")
    /\ UNCHANGED <<day, versions, shown, lastApp, saves, behind>>

\* The applicant gets the position and the others are declined.  Only the loop
\* changes positions of a day with applications, so looking the position up and
\* updating it are one action.
ReviewAccepts ==
    /\ thread[Loop].pc = "accept"
    /\ LET a == thread[Loop].app IN Accept(a, app[a].person, app[a].position, "declined")
    /\ UNCHANGED <<day, versions, shown, lastApp, saves, behind>>

\* The application is declined by its id, whatever it has become.
ReviewDeclines ==
    /\ thread[Loop].pc = "decline"
    /\ app' = [app EXCEPT ![thread[Loop].app].status = "declined"]
    /\ Become(Loop, [thread[Loop] EXCEPT !.pc = "republish"])
    /\ UNCHANGED <<day, slot, versions, shown, lastApp, saves, kept, behind>>

-----------------------------------------------------------------------------
(* The rest                                                                 *)

\* Mutant of DeleteDraft: the status alone decides.
DeleteDraftByStatus(t) ==
    /\ thread[t].pc = "idle" /\ day = "draft"
    /\ day' = "deleted" /\ slot' = Closed
    /\ UNCHANGED <<versions, shown, app, lastApp, thread, saves, kept, behind>>

\* delete_never_published_roster_day: checked and deleted in one transaction.
DeleteDraft(t) ==
    /\ thread[t].pc = "idle" /\ day = "draft" /\ ~Published /\ lastApp = 0
    /\ day' = "deleted" /\ slot' = Closed
    /\ UNCHANGED <<versions, shown, app, lastApp, thread, saves, kept, behind>>

\* The loop is between a review's transaction and its publication.
Republishing == thread[Loop].pc \in {"republish", "number", "publish"}

\* The process stops and starts: every request under way is lost.
Restart ==
    /\ thread' = [t \in Threads |-> Idle]
    /\ behind' = (behind \/ Republishing)
    /\ UNCHANGED <<day, slot, versions, shown, app, lastApp, saves, kept>>

Init ==
    /\ day = "none" /\ slot = Closed /\ versions = 0 /\ shown = Closed
    /\ app = [a \in Ids |-> NoApp] /\ lastApp = 0
    /\ thread = [t \in Threads |-> Idle] /\ saves = 0 /\ kept = {} /\ behind = FALSE

SaveStep == SaveReads \/ \E form \in Forms, keepBoth \in BOOLEAN : SaveWrites(form, keepBoth)

ReviewStep ==
    \/ \E a \in Ids, accept, override \in BOOLEAN : ReviewReads(a, accept, override)
    \/ \E elsewhere \in BOOLEAN : ReviewChecks(elsewhere)
    \/ ReviewAccepts \/ ReviewDeclines

PublishStep(t) == PublishReads(t) \/ PublishNumbers(t) \/ PublishWrites(t)

PoolStep(t) ==
    \/ \E x \in People, p \in Positions : ApplyReads(t, x, p)
    \/ \E elsewhere \in BOOLEAN : ApplyChecks(t, elsewhere)
    \/ ApplyInserts(t)
    \/ \E a \in Ids : WithdrawReads(t, a)
    \/ WithdrawWrites(t) \/ DeleteDraft(t)

Next ==
    \/ SaveStep \/ ReviewStep \/ Restart
    \/ \E t \in Threads : PublishStep(t)
    \/ \E t \in Pool : PoolStep(t)

Spec == Init /\ [][Next]_vars

-----------------------------------------------------------------------------
(* Properties                                                               *)

Statuses == {"absent", "pending", "accepted", "declined", "withdrawn", "cancelled_position"}

AppRows == [person : People \cup {NoOne}, position : Positions \cup {NoPosition},
            status : Statuses, late : BOOLEAN]

Locals == [pc : {"idle", "save", "republish", "number", "publish", "apply", "insert",
                 "withdraw", "check", "accept", "decline"},
           person : People \cup {NoOne}, position : Positions \cup {NoPosition},
           app : 0..MaxApps, slots : Slots, flag : BOOLEAN, number : 0..MaxVersions]

\* The type invariant.
TypeOK ==
    /\ day \in {"none", "draft", "changes_pending", "published", "deleted"}
    /\ slot \in Slots /\ shown \in Slots
    /\ versions \in 0..MaxVersions /\ lastApp \in 0..MaxApps /\ saves \in Nat
    /\ app \in [Ids -> AppRows] /\ thread \in [Threads -> Locals]
    /\ kept \subseteq People /\ behind \in BOOLEAN

\* Nobody holds two positions of the day unless an admin kept both or overrode
\* the conflict: the check of a review and its assignment are two steps, and
\* only the loop keeps a save or another review from coming between them.
DoubleRolesDeliberate == Doubled(slot) \subseteq kept

\* A pending application is for an open position, or was inserted by a request
\* whose position had closed after it was looked up: closing a position, by a
\* save or by an acceptance, leaves no applicant waiting for it.
PendingIsOffered ==
    \A a \in Ids : app[a].status = "pending" => app[a].late \/ slot[app[a].position] = "open"

\* A person never has two live applications for one position, however their
\* requests, withdrawals and reviews overlap.
OneLiveApplication ==
    \A a, b \in Ids : /\ app[a].status \in Live /\ app[b].status \in Live
                      /\ app[a].person = app[b].person /\ app[a].position = app[b].position
                      => a = b

\* A deleted workday never had a published version or an application, whatever
\* publications, saves and requests were under way when it was deleted.
DeletedHasNoHistory == day = "deleted" => versions = 0 /\ lastApp = 0

\* A day that says it is published shows crew its saved positions, except where
\* a publication wrote positions read before a later change, or a restart lost
\* the publication of an acceptance, and while a review is about to publish.
PublishedIsCurrent ==
    day = "published" /\ ~behind /\ ~Republishing => shown = slot

\* docs/ARCHITECTURE.md: only an explicit publish action changes what crew can
\* see; an acceptance republishes the day for the assignment it updates.
OnlyPublishingShows ==
    [][\A p \in Positions : shown'[p] # shown[p] =>
         \/ \E t \in Pool : thread[t].pc = "publish" /\ thread'[t].pc = "idle"
         \/ thread[Loop].position = p]_vars

\* app/templates/help.html: an application can be withdrawn while it is pending.
WithdrawnWhilePending ==
    [][\A a \in Ids : app[a].status # "withdrawn" /\ app'[a].status = "withdrawn" =>
         app[a].status = "pending"]_vars

=============================================================================
