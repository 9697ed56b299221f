# Verification of Re-Deputy

Re-Deputy (`src/app`) is a single-process FastAPI application over one SQLite
database. It captures several accounts' Deputy rosters, rebuilds personal and
shared calendars from that evidence, lets Admins plan and publish manual
workdays, and, in a monitored trial, writes a published workday back to Deputy.
This directory holds TLA+ models of its stateful parts, the TLC runs that check
them on small instances and the TLAPS proofs that hold for every instance.

Every definition is translated from the source; the map in `PROJECT.json` names
the lines each one stands for. Comments in the modules keep the source's names.

## 1. Inventory

| Part | Source | State | Operations | Hard behaviour |
|---|---|---|---|---|
| Multi-user sync queue | `scheduler.py`, `database.py` 2524-2954, `main.py` 5359-5541 | `user_sync_state`, `sync_generations`, `sync_generation_members`, the in-memory manual status, two locks and the window keys | plan, coalesce, run due syncs, promote, run a manual sync, finish, mark, recover | APScheduler threads, request threads and background jobs interleave between transactions; restarts; claims that age |
| Monitored Deputy writes | `deputy_integration.py` 288-971 | `deputy_roster_links`, `deputy_write_operations`, Deputy's rosters | preview, preflight, prepare, execute, read back, reconcile, publish | lost answers, repeated requests, people editing Deputy, a process stop, one operation of several failing |
| OAuth connection | `deputy_integration.py` 140-287 | one encrypted token row per account | connect, refresh, revoke | refresh during use |
| Workdays and open positions | `database.py` 3500-4577, `main.py` 8395-8915 | `roster_days`, `workday_assignments`, versions, applications, visibility | save, publish, apply, withdraw, review, delete a draft | checks and updates in separate transactions, publishing from a worker thread |
| Roster evidence, personal rosters | `database.py` 7206-10923 | snapshots, schedule rows, observations, personal evidence, event locks, shifts | save a capture, prune, retire, lock, reconcile, mark deleted | partial captures, captures of several accounts out of order, recovery from history |
| Deputy web capture | `deputy_web.py` | a browser session | log in, search, parse | timeouts, partial windows |
| Notifications and web push | `notifications.py`, `push_identity.py` | events, the integrity baseline, subscriptions, the VAPID key | generate, queue, deliver, register, replace the identity | findings read before the boundary that settles them, a stop between a push and its record, dedupe keys, subscription loss |
| Love Racing calendar | `planning_calendar.py`, `love_racing*.py`, `database.py` 5138-5424 | meeting details, detail jobs | queue, claim, fetch, merge, fail, back off | interrupted fetches taken over while they run |
| Backups | `backup_service.py` | directories with manifests, run history | create, publish, prune | stops between rename and manifest, retention |
| Accounts and devices | `auth.py`, `security.py`, `database.py` 2697-3229 | accounts, trusted devices, throttle rows | log in, log out, deactivate, purge | counters at a limit, sessions surviving deactivation |
| Invitations and contractors | `account_invitations.py`, `contractors.py` | invitation rows | create, reissue, revoke, activate | each one immediate transaction |
| Crew identity | `database.py` 5637-6329 | `crew_people`, account links, `workday_user_visibility` | merge, transfer, edit, reconcile, rebuild visibility | decisions on rows read before the transaction, redirects left without an end, stale visibility |
| Administration and audit | `main.py` 763-823, 6894-7311, `admin_audit.py`, `admin_overrides.py` | `admin_action_audit`, `app_role_audit`, accounts, override rows | grant, revoke, deactivate, reset, purge, clean up, begin and finish an audit row | checks and writes of several requests in separate transactions, an audit that is begun and never finished |
| Pure algorithms | `workday_timing.py`, `roster_note_interpretation.py`, `travel_cohorts.py`, `public_holidays.py` | none | timing, note parsing, cohorts | boundaries, midnight |
| Maps, pages, configuration | `track_maps.py`, templates, `config.py` | files, settings | render, upload | I/O |

How they interact: the scheduler's jobs call the capture of an account
(`sync_roster_sources`), which stores evidence and rebuilds personal rosters;
what changed there feeds notifications and, by venue and date, the Love Racing
jobs. The pre-shift check reads the rebuilt shifts to plan the next generation.
Workdays are saved and published beside that evidence and are what the Deputy
write path previews and sends. Account activation, resets and credential saves
reach into the sync queue's rows. Everything shares one database and one
process. A `with get_connection()` block commits its writes as one transaction
that begins at its first INSERT, UPDATE or DELETE (or at BEGIN IMMEDIATE); a
SELECT before that sees the database on its own. The models put interleavings
between transactions and between such a SELECT and the write it leads to.

For each part, what makes it correct: the queue runs every planned member once
and lets every scheduled generation settle; the write path never deletes or
claims a roster it did not create and never publishes a half-done batch;
workday publication shows the crew what was last agreed; evidence never loses
a shift to a partial capture; a notification is sent at least once and queued
once; a
merge never blanks what a meeting's row holds; retention keeps the newest good
backup; the audit of an Admin's request is true and data is erased only after a
backup; redirects of people end.

## 2. Plan

1. `SyncLedger`, `SyncQueue` and their proofs - **done**: the core of the
   program, with most of its threads.
2. `DeputyWrites` and its proofs - **done**: the only code that changes a
   system outside the program.
3. `WorkdayPositions` and its proofs - **done**: drafts, publication and
   applications for open positions, with the publish thread, the checks that
   are not in the transaction they guard, and draft deletion.
4. `RosterEvidence` and its proofs - **done**: captures of several accounts,
   absence as evidence, locks, personal rosters.
5. `Notifications`, `RaceDetails`, `Backups` with `BackupStore`, and their
   proofs - **done**: small components with threads, retries and crashes.
6. `Administration` and its proofs, `CrewIdentity` - **done**: requests of
   several Admins against the same accounts, and people that are merged.
7. `CrewIdentityProofs`, the conditional theorems of `SyncQueue`, the second layers
   of `DeputyWrites` and `WorkdayPositions` - **done**: every safety property a
   passing run checks has its theorem.
8. Next: the replacement of the push identity, devices and the login throttle,
   publication notices (another producer of the notification queue), the pure
   algorithms as operators checked against reference definitions, and in
   `RosterEvidence` the recovery of facts from earlier captures.

Components that share no table are checked by common runs: `MCServices` and
`MCJobs` choose one component in the initial state and let the others rest, so
the state spaces add up and do not multiply. The components that do interact
meet through inputs: an account's activity is an action of `SyncQueue`,
`CrewIdentity` and `Administration`, findings and generations are actions of
`Notifications`, an account's evidence one of `CrewIdentity`.

## 3. The sync queue

### Modules

- `SyncLedger.tla` is the abstract specification: a generation is dispatched
  with its members, a member is claimed once and ends once, at most one
  scheduled generation is open, recovery ends the claimed members.
- `SyncQueue.tla` is the program: one transaction is one action, and a thread's
  local variables between transactions are its record in `worker` or `plan`.
- `MCSyncQueue.tla` adds the symmetry for TLC; `SyncQueueProofs.tla` the proofs.

### State

| Variable | Code |
|---|---|
| `active`, `next`, `inProgress` | `app_users.is_active`, `user_sync_state.next_sync_after` (0 is empty) and `sync_in_progress` ("stale": claimed for more than 45 minutes) |
| `lastGen`, `kind`, `status`, `member` | the two generation tables; every scheduled reason is one `kind` |
| `proven` | whether a qualifying shared capture was stored since the generation's creation |
| `worker[Runner]` | `run_due_user_syncs` under `_user_sync_runner_lock` |
| `worker[j]` | a request's `queue_manual_sync` and then its `run_manual_sync_job` |
| `plan` | the caller of `plan_staggered_user_syncs` inside `_sync_generation_plan_lock` |
| `manualRunning` | `_manual_sync_status_by_scope`: set by the request and again when its job's capture starts, released when the job ends or gives up |
| `target`, `window`, `starting`, `now` | the daily target, the pre-shift window and its consumed key, start-up not finished, time in steps of the plan |

A capture is its outcome (`success`, `partial`, `error`) and whether it
qualifies as shared proof. An errored sync never qualifies.

### Runs

| Run | Instance | Checks |
|---|---|---|
| `nominal` | 2 accounts, daily and pre-shift triggers, 2 generations, batch of one, fair | `PlannedHasMember`, `ScheduledSettles`, `DailyTargetPlanned` |
| `safety` | 2 active accounts, 1 manual job, 2 generations, 1 restart; with an inactive account, 3 generations and pre-shift windows | `SingleActiveScheduled`, `SettledByMembers`, `RunningIsHeld`, `OneCapturePerUser`, `NoRegress`, `ImplementsLedger`, `PendingKeepsPlan` |
| `routes` | 1 account, 2 manual jobs, account routes, ageing claims, 2 generations, fair | `ClaimHasWorker`, `ManualRequestEnds` |
| `crash_stall` | 2 accounts, 1 generation, 1 restart, fair | `ScheduledSettles` fails |
| `manual_stall` | 1 account, 1 manual job, daily target, 3 generations, fair | `ScheduledSettles` fails |

The type invariants of `SyncQueue` and `WorkdayPositions` are proved and no run
repeats them.

Bounds. Two accounts are the least for which one can starve the other or a
generation can be half done; a batch of one is the program's default. Two
generations let a manual one meet a scheduled one, an old member meet a new
plan, and a settled generation be followed by another. One restart can fall at
every point of a run, including inside another's recovery consequences.
A third generation is what it takes for a manual and a scheduled member of one
account to be open together, so the `safety` run has it where only one account
is active (its constraint `Bounded`; an account may start inactive). `MaxGens`
also bounds planning: when no generation fits, a trigger coalesces as it would
into an active one, so a bounded run ends in states in which the runner goes on
polling; `DailyTargetPlanned` accounts for it. `now` moves only towards an
instant some account is planned for.

Fairness, in `FairSpec`: APScheduler runs the five-minute job for as long as the
process lives, so `RunnerWork` is weakly fair; a thread that holds the plan lock
or has claimed a member is never blocked by another, and a capture ends by its
own timeouts, so the planning steps, `MemberWork` and `JobWork` are; start-up and
the pre-shift job run on their own; time passes. Nothing is assumed of requests,
of the cron dispatch (a missed one must be caught up by the runner) or of
restarts. Deadlock is checked in every run.

### What the two failing runs say

`crash_stall`: a stop during a capture. `recover_incomplete_sync_generations`
promises that "future pending members remain runnable". It ends the interrupted
member, and nothing clears that account's `next_sync_after`. The row stays the
oldest due one; `run_due_user_syncs` takes `LIMIT 1`, finds no open generation
for it and continues. The other accounts' members are never reached, the
generation stays pending and later triggers coalesce into it.

`manual_stall`: a manual sync of one account runs while a scheduled generation
is planned. Its `mark_user_sync_finished` empties `next_sync_after`, which by
then is the scheduled member's plan. That member is never due, so the catch-up
that "waits for any active scheduled generation" waits for ever.

The properties hold without restarts and manual jobs (`nominal`), which is why
that run has neither.

### Proofs (`SyncQueueProofs.tla`)

For any finite set of accounts, any jobs, any batch size and any bounds:
`TypeCorrect`, `SingleActive`, `Settled`, `RunningHeld`, `Irreversible` and
`Refines` (`Spec => Ledger!Spec`). None of them is inductive alone. `IInv` adds:

- `TablesInv`: rows above `lastGen` are empty, every dispatched generation has a
  status that agrees with its members, and no two scheduled ones are pending;
- `PlanExclusive`: while a thread holds the plan lock no scheduled generation is
  pending and its users are planned or left, which is what lets `PlanEnds`
  create one without looking again;
- `WorkersKnow`: a worker at a step that needs them has a user and a generation
  that exist;
- `RunningIsHeld` itself, which makes `MarkMember` of a held member a step of the
  ledger and not a stutter that loses an outcome.

One lemma per action shows that a step preserves these parts and is a ledger
step or leaves the ledger's variables alone (`StepOK`); the theorems combine
them. The assumptions are those of `SyncQueueAssumption`.

The others are proved on top of `Inductive`, from what each step does to one
account. Three are about the claim, `sync_in_progress`. `Lease` says that a step
keeps a claim (possibly ageing or refreshing it), clears it from another route,
takes it with one more capturing thread, returns it with that thread gone, or
loses every claim in a restart; `LeaseStep` proves that nothing else happens.
Four are about the plan and rest on `Reasoned` (a generation is scheduled, or
manual and made by a manual job; who does not plan has planned nobody) with
`ScheduledExcludes`: an open scheduled member excludes a planner and every other
scheduled member.

Two of them say who breaks "planned if and only if pending", one per direction.
`PlansAreKept` has no hypothesis: an account that awaits its scheduled sync
(`Awaits`: a pending scheduled member, or a planner about to create one) loses its
instant only in `ManualFinishes` or `RouteClears`. In every other step that empties
`next_sync_after` the thread's own member is the scheduled one, so that no other
awaits. `OnlyRestartsOrphan` is the converse for queues without manual jobs:
whoever is planned for nothing was so before, or the process restarted. So
`manual_stall` and `crash_stall` show the only causes there are, and where those
are excluded the invariants `PendingIsPlanned` and `PlannedHasMember` follow.
Hypotheses on the constants are part of a statement where the code needs them:

| Theorem | States | Hypotheses | Why |
|---|---|---|---|
| `ClaimsAreHeld` | `ClaimHasWorker` | none | |
| `OneCapture` | at most one capturer of an account, and its claim is set (`SoleCapturer`) | no capture outlives 45 minutes (`"slow" \notin Events`); only of accounts no route clears | a stale claim is taken over while its thread still captures |
| `NoDoubleCapture` | `OneCapturePerUser` | the same, `ResetUsers = {}` | a reset clears a claim in use |
| `PlansAreKept` | `PendingKeepsPlan` | none | |
| `PendingArePlanned` | `PendingIsPlanned` | `Jobs = {}`, `ResetUsers = {}`; any restarts | the two exceptions of `PendingKeepsPlan` |
| `OnlyRestartsOrphan` | `OrphansNeedRestart` | `Jobs = {}`; any restarts and resets | a job that promotes a member claimed meanwhile, or is refused by a running claim, ends the member and leaves the plan |
| `PlannedAreMembers` | `PlannedHasMember` | `Jobs = {}`, `MaxRestarts = 0`; any resets | `crash_stall` |

Resets harm only the one direction, restarts only the other. Nothing is assumed of
the number of accounts, the batch size or the order of steps. All liveness of the
queue (`ScheduledSettles`, `DailyTargetPlanned`, `ManualRequestEnds`) is only
model-checked.

## 4. The Deputy write path

### Modules and state

`DeputyWrites.tla` has one action per HTTP request together with the rows
written before the next one. `execute_trial_batch` runs in a coroutine that
never awaits, so two batches never overlap; `batch` is its local state.

| Variable | Code |
|---|---|
| `workday` | the shift wanted per assignment key, or none |
| `links` | `deputy_roster_links`: roster id, ownership, hash of the desired and last verified state |
| `ops` | the latest `deputy_write_operations.status` per key; `prepared`, `sending`, `unknown` are the unique index's active ones |
| `deputy`, `published`, `locked` | external: what Deputy holds |
| `origin`, `touched`, `deleted` | history: who created a roster, which others edited, which this program deleted |

A shift is a version of its assignment: versions of one assignment are for one
employee and overlap each other, so `Exact` and `Overlapping` stand for the
paged queries and the interval test; "moved" is a shift people moved elsewhere.
Deputy's side (`Created`, `Written`, `Shown`, the outside edits) is external and
modelled from the answers the code handles: success, an error before or after
the effect, no answer before or after the effect, and an answer that cannot be
read. `Faults` and `Edits` name what an instance allows.

### Runs

| Run | Instance | Checks |
|---|---|---|
| `one` | 1 assignment, 2 shifts, 2 roster ids, all faults and edits | `OwnershipIsCurrent`, `DeleteAuthority`, `OneOwnShift` |
| `services` (part `writes`) | 2 assignments, all faults, at most one roster of the batch removed or locked by others | `PublishAfterAll` |
| `removal` | 2 assignments, no fault, no edit | `FaultFreePublish` fails |

Two roster ids let a lost create be followed by a second, a deleted roster by a
new one and an equivalent roster be added by somebody else; two shifts let an
update be a real change. Two assignments are the least for one of several to
fail, and one disturbed roster to make one of several operations blocked. The
state is never stuck (an assignment can always be changed between batches), so
deadlock is checked.

`removal`: `execute_trial_batch` puts the roster id of a verified delete among
the ids to publish. The publish operation reads each id first, gets a 404 for
the deleted one and ends `unknown`; `unknown` is active, nothing resolves it,
and every later publish of that workday is refused by the index.

### Proofs (`DeputyWritesProofs.tla`)

`TypeCorrect`, `Ownership` and `OnlyOwnDeleted`, for any assignments, shifts,
roster ids, faults and edits, from `DeputyWritesAssumption`. `IInv` adds to the
types `KindInv` (which kind of operation each program counter belongs to, and
that a target is known where one is used) and `PlanInv` (a created target is one
the POST returned, a delete under way has a link that claims its roster, which by
`OwnershipIsCurrent` this program created). Deletes and adoptions meet there:
without the ownership conjunct the DELETE step cannot be shown safe, without the
plan conjunct the read-back cannot be shown to save a true ownership.

`PublishesLast`, `NoSecondShift`, `NoShiftAbandoned` and `OnlyRemovalsSpoil` are a
second layer on that invariant, from the same assumption.

- `PublishesLast` (`PublishAfterAll`). `BatchProgress` follows the plan: a mutation
  is still to be run or its operation is verified, an unchanged assignment has
  its verified link, the running operation is one of those left and is the
  publish operation only when none is. Steps are first classified (`Course`):
  one leaves the batch alone or ends it, moves on within an operation and keeps
  the links of unchanged assignments, verifies its mutation, or is one between
  two operations.
- `NoSecondShift` (`OneOwnShift`). `OwnInv` says what a create has learnt before it
  posts: after the exact search no untouched roster of this program equals the
  shift it wants, after the overlap search none is left. People may change
  Deputy between those requests, but a roster they create or edit does not count
  as this program's untouched one (`Quiet`), so the knowledge survives.
- `NoShiftAbandoned` (`OwnIsLinked`, which no run repeats): while a shift of this
  program's making stands untouched, its assignment is never bound to another
  roster, neither by adopting an equivalent one nor by the reconciliation of a
  lost create. `LinkInv` carries what makes it inductive: a create runs only for
  an assignment that is not linked, the roster it is about to link is the only
  one of this program's that stands, and one is reconciled only after its POST,
  when whatever stands has the wanted shift and is therefore a candidate; two
  candidates are ambiguous and link nothing.
- `OnlyRemovalsSpoil` (`Faults = {}` and `Edits = {}`, as in the run `removal`): the
  publish operation becomes `unknown` only when the batch deleted a roster that
  is among its ids. `Stand` says that every other id still exists, from preflight
  to the publish request. So the run shows the one cause there is, and a batch
  without removals always learns the outcome of its publish.

## 5. Workday positions

### Modules and state

`WorkdayPositions.tla` is one manual workday. `admin_save_roster_day` and
`admin_review_workday_application` are `async def` routes without an await after
their form is read: they run whole on the one event loop, which is why two
saves, two reviews or a save and a review never overlap. Publishing, applying,
withdrawing and deleting are `def` routes: Starlette runs each in a thread of
its pool. A thread's local variables between two transactions are its record in
`thread`.

| Variable | Code |
|---|---|
| `day` | `roster_days.status`, `none` before the first save, `deleted` after the deletion |
| `slot` | `workday_assignments` by key: `open`, the person assigned, or `closed` (TBC or no row) |
| `versions`, `shown` | rows of `roster_day_versions`; the positions of `published_snapshot` |
| `app`, `lastApp` | `workday_open_position_applications` by id |
| `thread` | what the loop and each pool thread have read and where they are |
| `kept`, `behind`, the field `late` | history: people an admin keeps in two positions; a last publication that wrote an older reading or was lost; an application inserted after its position had closed |
| `saves` | a bound |

A form may be of any age, so a save replaces the positions by any member of
`Forms`. Other work of a person (Deputy shifts, other workdays) is the input
`elsewhere` of the conflict check. `SaveReads`, `PublishNumbers` and
`WithdrawReads` are actions of their own because their SELECT comes before the
transaction of the write it decides; `ReviewAccepts` is one action although its
SELECT does too, because only the loop changes positions of a day that has
applications (deletion refuses such a day).

### Runs

| Run | Instance | Checks |
|---|---|---|
| `workday` | 2 people, 2 positions, 2 pool threads, 2 applications, 2 versions, 2 saves | `DoubleRolesDeliberate`, `PendingIsOffered`, `OneLiveApplication`, `DeletedHasNoHistory`, `PublishedIsCurrent` |
| `republish` | the same, unconstrained | `OnlyPublishingShows` fails |
| `withdraw` | the same, unconstrained | `WithdrawnWhilePending` fails |

Two people compete for one position, one person can hold two; two pool threads
with the loop give three requests under way, two versions two publishers of one
number, and two saves a draft that follows a publication. `MCForms` are the
drafts that differ in what the properties see: all positions or all but one
offered, or one person in both. The constraint `Bounded` lets the second draft
meet one pool request at a time and the first meet two. A restart is always
possible, so deadlock is checked. Nothing here must eventually happen (each
step waits for a person), so there is no fairness and no liveness property.

What is true is weaker than it reads at first, and the properties say so.
An application can be pending at a position that closed while its request was
under way (`late`). A publication can store positions read before a later save
or acceptance and still set the status to published (`behind`); the next one
repairs it. A restart between a review's transaction and its publication loses
the publication.

`republish`: an admin saves changes to a published day and keeps them back
(`changes_pending`); then any review, even a decline, publishes the whole saved
draft. `ARCHITECTURE.md` says only an explicit publish action changes what crew
can see.

`withdraw`: the withdrawal finds its pending application, the loop accepts it,
and the withdrawal writes by id. The application says withdrawn and the position
stays assigned; the help page says it can be withdrawn while it is pending.

### Proofs (`WorkdayPositionsProofs.tla`)

All six invariants, for any people, positions, pool threads, forms and bounds,
from `WorkdayAssumption`. `IInv` adds to them:

- `AppsKnown`: ids above `lastApp` are absent, the others name a person and a
  position and are never absent again;
- `ThreadsKnow`: a reviewing or withdrawing thread has an existing application
  in hand, and an applying one has seen a published day; the latter is why no
  application reaches a day that was deleted while it was under way;
- `ReviewChecked`: a review about to assign without an override has an applicant
  who holds no position. It carries the conflict check across to the assignment
  and is true only because the loop does one thing at a time;
- `NumberGuards`: when the version number of a review's publication was taken by
  somebody else, that publication came after the acceptance and has recorded
  whether it showed it;
- `PublishedHasVersion`: a day that says published has a version.

`ReviewsShowTheirOwn` is the counterpart of the run `republish`: it bounds how far
the violated sentence is wrong. A position other than the reviewed one is shown by
a review only if the day had saved changes that were not published, or its last
publication was old or lost (`behind`). Two facts make it inductive
(`ReviewShows`): what the loop has read for its publication are still the
positions, because nobody else changes those of a published day, and between an
acceptance and its publication a day that was up to date lacks only the filled
position. `NumberGuards` is needed when the loop's number was taken.

`LiveApplicationUnique` rests on the unique index as `ApplyInserts` models it and
on the fact that an acceptance keeps an application live and everything else
ends it.

## 6. Account administration

### Modules and state

`Administration.tla` is the audit middleware around the Admin routes that
change, deactivate, reset, purge and clean up accounts, and an account's own
deactivation. Routes declared `def` run in pool threads and overlap; the role
route is a coroutine that does not await between its read and its write
(`LoopFree`).

| Variable | Code |
|---|---|
| `account`, `isAdmin` | `app_users`: active, inactive or no row; `is_admin` |
| `roleAudit` | the actor and target of `app_role_audit` rows |
| `audit` | the outcome of each request's `admin_action_audit` row |
| `request` | what a request has read, whether it has its backup, where it is |
| `effect`, the field `crossed` | history: accounts a request changed; a commit that changed the Admins between a request's check and its write |

A request passes authentication, stores its `started` row or is refused
(`AuditUnavailable`), reads its target, counts the other Admins or takes a
backup where the route does, writes in one transaction, and finishes its row,
which may fail too. Any step may raise (a clean-up in the middle of its purges,
which stay); the process may stop. Outcomes keep
what the code tells apart; texts and redaction are left out.

`AuditTellsTruth`, `ErasedAfterBackup`, `RoleAuditNamesAccounts` and
`LastAdminNeedsRace` say what the code really guarantees, which is weaker than
one would write first:

- two Admins can remove each other when each counts before the other writes;
  the last property says it takes exactly that;
- a purge that reads its target while it is active takes no backup, and purges
  it if another request deactivates it before the write. `ARCHITECTURE.md:134`
  says destructive routes are blocked when their required backup fails; the
  property names this as the one way around it;
- a role change reports "completed" without looking at its row count, so an
  account deactivated in between keeps its role.

### Proofs (`AdministrationProofs.tla`)

All four, for any accounts and any number of requests; no assumption is needed.
`AdminInv` adds to them the types; `AllKnown` (what a request's place says of its
row and its effect); `AllCovered` with `SeenGone` (a request that may erase has
its backup or read an active or absent account, and an absent one stays absent);
and `AllChecked` (a removal nobody crossed still leaves an Admin), which carries
the count across to the write and makes `LastAdminNeedsRace` inductive.

## 7. Backups

### Modules and state

`BackupStore.tla` is what the backup directory promises: a backup appears whole,
and one goes away only while another is left. `Backups.tla` is `create_backup`
under its lock and the retention after it. A directory is a set of files that is
filled (build, rename or copy, promotion of the manifest) and emptied
(`rmtree`) one file at a time; `PruneDenied` is a directory some scanner holds;
`BackupProcessStops` may fall between any two steps, `BackupFails` at every step
before the run row. `runs` is `backup_runs`, `created` the manifests'
`created_at`, `day` the clock.

`SuccessIsRestorable`: whatever `backup_runs` calls a success can be restored
until it is older than the retention. `ImplementsStore`: the directories
`validate_backup` accepts behave as `BackupStore`. The interesting case is a
retention that is cut short between two files: such a directory keeps a
manifest, is not restorable, and a later retention must not take it for the
newest.

### Proofs (`BackupsProofs.tla`)

Both, and that a manifest vouches for its files, from `BackupsAssumption`. `Torn`
is the key: a directory with a manifest and without its data was too old before
the attempt under way began, so the newest one retention keeps is whole
(`Removing`). `Clock` (ids are in the order of their times) and `Progress` (what
the attempt has on disk) support it.

## 8. Race details and notifications

### `RaceDetails.tla`

The job queue of meeting details, the passes of `run_love_racing_detail_jobs`
(the scheduler's and the Admin's background ones overlap) and the Admin refresh
that merges outside the queue. `detail` is a meeting's row, `jobs` the job table
(`old`: fetching for 30 minutes), `pass` each pass's local variables, `faults` a
bound on exceptions and restarts. A page is the life-cycle state and the start
it shows; parsing is left out. `MergeReads` and `MergeWrites` are two actions
because the row is read before the transaction that writes it.

`ProgrammeKept`: confirmed data is lost only to a merge that read the row before
another merge changed it. `JobsEnd`: every queued or fetching job ends, whatever
pass was lost with it.

Fairness: a pass under way goes on (`PassSteps`, weak: fetches have time-outs);
the scheduler starts a pass every 15 minutes, whichever thread is free
(`ClaimsJobs`, strong, because it is disabled while both passes are busy); 30
minutes pass (`JobAges`, weak). An exception or a restart is never fair, and
there are finitely many (`MaxFaults`): a meeting whose merge raises on every
attempt would be queued for ever.

### `Notifications.tla`

One notification pass: reads the findings of `deputy_event_coverage`, compares
with the generation boundary, queues an alert per eligible Admin under its
unique key, saves the baseline, then delivers queued events device by device.
Sync generations (`SyncStarts`, `SyncWrites`, `SyncEnds`), the settle time of 90
seconds, expiring findings, changes of eligibility and new devices happen around
it. `_runner_lock` keeps one pass per process; `PassLost` is a restart or an
exception.

`NoProvisionalAlert` is the least obvious: findings are read before the boundary,
and the property says that what a ready pass holds was there when its generation
completed. `AlertedBeforeBaselined` orders the queue and the baseline.
`PushedOnce` counts accepted pushes per alert and device against lost passes.
`AlertsSettle` is liveness under fairness of the five-minute pass and its steps.

### Proofs (`JobsProofs.tla`)

`ProgrammeKept` is proved from types and what a pass has in hand (`Busy`), and so
are the three safety properties of the notification pass.
`Informed` says what a reading is worth while nothing is syncing and the
generation has not changed; it rests on `Boundary` (between generations findings
only expire). `Orderly` follows the queue to the baseline, and `AllCounted`
bounds the pushes of an event that is still queued, for which `OneRunner` is
needed. Liveness stays with TLC.

## 9. Roster evidence

### Module and state

`RosterEvidence.tla` is `save_deputy_web_schedule`: what captures of accounts
that see different slices of Deputy do to the shared schedule and the personal
rosters.

| Variable | Code |
|---|---|
| `truth`, `slice` | external: Deputy's roster and what each account may see of it |
| `row` | `deputy_schedule_shifts` |
| `obs` | `deputy_schedule_observations` by shift, account and source |
| `evidence` | `deputy_personal_assignment_evidence` |
| `roster` | `shifts` of each account, with the source they come from |
| `lockedEvents` | `deputy_event_locks` |
| `capture` | a capture: what it lists by which source, read earlier and saved later |
| `last`, `purged` | history: what an account's last saved capture listed; accounts purged |

`CaptureReads` takes what a kind of capture gets (a full native read, a search
in part, whole or exact for one day, rows only the page showed, the own roster in
part or whole). `CaptureSaves` is the whole transaction, in the code's order:
locks, personal evidence and roster, late rows of locked events, upserts,
observations, positive replacements and native absences, the completeness
verdict and the prune it allows, and the effective personal rosters. A fact of a
shift is who works it and on which event; the verdict on coverage is a choice
where it depends on positions the model does not keep. An event stands for its
date, its location and the span of hours that `_event_lock_row` compares as well:
a shift moved out of those hours on the same date is at another event.

`SeenIsKept`: no capture of another account, which may see less, takes away what
an account's last capture listed. `SharedShiftBacked`: a personal shift that came
from others' captures has its row. `SharedHistoryKept`: a locked event's named
rows stay as they are, unless Deputy moved the shift out of the event.

### Proofs (`RosterEvidenceProofs.tla`)

The three properties, for any accounts, shifts, events, kinds and bounds, from
`RosterAssumption`. `RosterInv` adds that a capture holds facts of what it lists
(`HasFacts`) and that a purged account has neither a capture nor a shared shift
(`PurgedIsOut`); `CaptureSaves` is taken apart phase by phase.

## 10. Crew identity

`CrewIdentity.tla` has the rows of `crew_people` (`crew`: linked account,
redirect, active), accounts (`user`), the employees an account's evidence proves
(`proof`), the person of a published assignment (`snapshot`) and the materialised
visibility (`shown`). Merges, transfers and edits of a person run on the event
loop: their SELECTs come before their transaction, so `edit` holds what the
handler has read while pool threads publish and activate and the scheduler's
captures reconcile. Constraints of the tables are `Linkable`.

- `RedirectsEnd`: chains of redirects end, although a merge redirects what it
  read before another one.
- `ReconciliationRuns`: the reconciliation that ends every personal capture and
  every start-up does not raise, on whatever evidence it would find in this
  state, with two exceptions the property names: an edit written to a person
  merged after its page was rendered (`astray`), and two active accounts whose
  evidence proves the same single employee. In both, captures and the next
  start-up fail until an Admin repairs the people, although `DECISIONS.md:217`
  speaks of conflicting evidence being held for review.
- `VisibilityCurrent`: visibility is what its definition says after every change
  of people, merge and publication. Activation by invitation and changes of an
  account's activity do not rebuild it (`unlisted`), although
  `ARCHITECTURE.md:221` and `DOMAIN_RULES.md:224` speak of later account links;
  the next rebuild repairs it.
- `MergesLast`: a retired duplicate is never told apart from the person it was
  merged into, over chains of merges and repairs of several accounts in one
  reconciliation. The exception is `Overtaken`: an Admin's merge that has read its
  duplicate as unmerged waits while an activation links the duplicate and a
  capture reconciles it into an employee, and then redirects it a second time;
  snapshots published for it since then name another person.

### Proofs (`CrewIdentityProofs.tla`)

All four, and the types with the unique account of a person, for any finite
set of people and any accounts and days, from `CrewAssumption`. `CInv` is

- `Sound`: no employee is redirected, and there is a rank of people that falls
  along every redirect. The rank is what makes `RedirectsEnd` inductive: a merge
  that redirects a duplicate to a target read earlier gets a new rank
  (`MergedSound`), which needs
- `EditInv`: while a merge waits, its duplicate is no employee and its target is a
  person that can only have been merged into an employee, because only the
  reconciliation merges meanwhile;
- `Unlinked`: unless `astray`, a merged person has no account.

`Canonical` and `AfterRepairs` are recursive functions. The library's induction
theorems take an operator as a parameter and cannot be used, so the module has
its own first-order ones: a set of numbers with 0 and closed under successor is
`Nat` (`Induction`, from the well-foundedness of `<`), and every step function can
be iterated (`Iteration`). With them `RedirectsRun` and `RepairsRun` say that the
recursive functions are such iterations. `CanonicalEnds` follows a redirect by
rank; the code stops when it meets a person again, the model after as many steps
as there are people, and the pigeonhole principle says that this is far enough.
`RepairsKeep` and `RepairsSucceed` go through the accounts one at a time and show
that each repair finds an unlinked or own employee as its target.

`MergesLast` follows from two facts. Every step only adds redirects (`NextAdds`,
with `Kept` for the repairs and `EditAdds` for a merge that was not overtaken:
its duplicate was free when read and is free still); and when redirects are only
added, the old end of somebody's chain lies on the new chain, so both have the
same new end (`CanonicalGoesOn`, from `CanonicalFollow`: one step along a redirect
does not change where it ends).

## 11. The common runs

| Run | Parts and instances | Checks |
|---|---|---|
| `services` | `Administration`: 2 accounts, 2 requests. `Backups`: 3 attempts, retention of 1 day, 3 days. `RosterEvidence`: 2 accounts, 2 shifts, 1 event, 6 kinds of capture, 1 edit in Deputy, 3 captures. `CrewIdentity`: 3 people, 1 of them an employee, 2 accounts, 1 day. `DeputyWrites`: 2 assignments | `SuccessIsRestorable`, `AuditTellsTruth`, `ErasedAfterBackup`, `RoleAuditNamesAccounts`, `LastAdminNeedsRace`, `SeenIsKept`, `SharedShiftBacked`, `RedirectsEnd`, `ReconciliationRuns`, `VisibilityCurrent`, `PublishAfterAll`, `ImplementsStore`, `SharedHistoryKept`, `MergesLast` |
| `jobs` | `RaceDetails`: 2 meetings, 2 passes, 2 jobs, 2 start times, 1 fault. `Notifications`: 1 finding, 2 Admins, 1 device, 2 runners, 2 generations, 1 lost pass | `NoProvisionalAlert`, `PushedOnce`, `ProgrammeKept`, `JobsEnd`, `AlertedBeforeBaselined`, `AlertsSettle` |

The type invariant of each part is a theorem (`AdminTypes`, `BackupTypes`,
`RosterTypes`, `CrewTypeCorrect` and `TypeCorrect`), which no run repeats.

Bounds. Two requests are what a race between a check and a write takes. Three
attempts let one expire, one be torn and one be the newest, and a clock of three
days with a retention of one lets the first two expire. Two accounts with
different slices make absence ambiguous; two shifts are what a replacement of
one by the other takes; three captures let one be overtaken. Three people make
a chain of redirects, two accounts the conflict over one employee. Two meetings
and two passes with one fault let a stale claim be taken over while its pass
still runs.

The state constraints cut what adds no case. `AdminBounded`: requests and
accounts are interchangeable, so the first is `a1`'s. `RosterBounded`: the first
shift is there first, locks and a purge meet two captures and not three, a purge
and a lock do not meet. `CrewBounded`: three people with one account, or two
people with two. `WritesBounded`: others disturb at most one roster.
`RaceBounded`: two job passes with a fault, or a job pass and a refresh about one
meeting without. `NoticeBounded`: two Admins and runners with one generation, or
one of each with two. In `jobs` a constraint also cuts behaviours off for the
liveness properties: TLC looks for cycles inside the bound, and nothing is claimed
of behaviours that leave it. Deadlock
is not checked in these two runs: a part that has used up its requests, attempts
or captures stops.

## 12. What is not modelled

Browser automation and page parsing (`deputy_web.py`) appear only as what a
capture lists; the refresh of OAuth tokens only as a readiness fault; the pure
algorithms (timing, notes, cohorts, holidays), track maps, pages, logging, texts
and layout not at all. `PROJECT.json` lists every part with its status, and the
hazards with the properties that cover them or the reason none does.

Left out of the modelled components:

- `RosterEvidence`: the migration of old observations, explicit cancellations,
  recovery of facts from earlier captures, notes, times and changed badges, the
  records of assignment changes, and the old ICS import's marking of missing
  shifts; deactivated accounts and accounts without a resolved employee, whose
  rosters the reconciliation passes over, so that `SharedShiftBacked` speaks of
  active ones; events whose hours overlap in part; and which row of a locked
  position is the newest: the code compares a late row with that one, which the
  same capture may have written, the model with every row from before the
  capture. Rows only the page showed, and rows whose observer was purged, are
  never pruned; the model has them, no property asks for more.
- `Notifications`: preferences, reminders, publication and change notices (a change and its reversal
  between two passes leave nothing to announce); the push identity's absence, for
  which a delivery returns early, and its replacement.
- `RaceDetails`: the calendar import, the discovery of meetings, and when a refresh is due.
- `Administration`: sessions, devices and the throttle; overrides, whose
  values admin_overrides.py normalises.
- `CrewIdentity`: contractor accounts (whose activation links a person without
  looking whether it was merged meanwhile), names and aliases, hotel assignments
  and assignments by account alone in the published visibility, and the synthetic
  people a purge deletes.
- `WorkdayPositions`: times, roles, hotels and vehicles with their conflicts,
  eligibility, linked Deputy events.

Some observations have steps in the models but no property, because no document
promises otherwise or the code settles them by design: deactivating or resetting
an account with a pending member stalls its generation, and clearing
`sync_in_progress` while a capture runs lets a second one start; a manual
generation whose job finds the worker lock busy is left pending; an operation
interrupted in `sending` stays active for an Admin to inspect; a capture that was
read earlier and is saved later overwrites newer facts of the same shift. A
late capture also rewrites the owner's personal evidence and shifts of a locked
day, which `DOMAIN_RULES.md:126` says are kept; `SharedHistoryKept` is therefore
about the shared rows.
