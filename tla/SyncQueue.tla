------------------------------ MODULE SyncQueue ------------------------------
(***************************************************************************)
(* The multi-user Deputy sync queue: app/scheduler.py plans a generation   *)
(* of staggered account syncs, app/database.py keeps the queue rows, the   *)
(* five-minute runner and the manual jobs of app/main.py claim and run     *)
(* generation members, and start-up recovers what a stopped process left.  *)
(*                                                                         *)
(* One SQLite transaction is one action, and a SELECT that precedes the    *)
(* first write of its connection is an action of its own, because sqlite3  *)
(* opens the transaction at that write.  What a thread keeps in local      *)
(* variables between actions is its record in `worker` or `plan`.          *)
(* Time is `now`, an instant of the staggered plan; next[u] = 0 stands for *)
(* the empty next_sync_after.  Captures are abstracted to their outcome.   *)
(***************************************************************************)
EXTENDS Naturals, FiniteSets

CONSTANTS
    Users,        \* accounts with a saved Deputy login
    NoUser,       \* no account
    Runner,       \* the thread of run_due_user_syncs
    Jobs,         \* background threads that may run manual syncs
    ResetUsers,   \* accounts whose sync state other routes may clear
    BatchSize,    \* USER_SYNC_BATCH_SIZE
    Events,       \* what time brings here: "daily", "preshift" and "slow"
    MaxGens,      \* bound: generations ever planned
    MaxRestarts   \* bound: process restarts

ASSUME SyncQueueAssumption ==
    /\ IsFiniteSet(Users)
    /\ NoUser \notin Users /\ Runner \notin Jobs
    /\ ResetUsers \subseteq Users
    /\ BatchSize \in Nat \ {0}
    /\ Events \subseteq {"daily", "preshift", "slow"}
    /\ MaxGens \in Nat /\ MaxRestarts \in Nat

Gens == 1..MaxGens
Workers == {Runner} \cup Jobs
Terminal == {"success", "partial", "error"}
MemberStates == {"absent", "pending", "running"} \cup Terminal

VARIABLES
    active,        \* app_users.is_active
    next,          \* user_sync_state.next_sync_after
    inProgress,    \* user_sync_state.sync_in_progress ("stale": older than 45 min)
    lastGen,       \* highest sync_generations.id
    kind,          \* sync_generations.reason: "manual" or a scheduled reason
    status,        \* sync_generations.status
    member,        \* sync_generation_members.status
    proven,        \* a qualifying shared capture is stored since created_at
    worker,        \* local variables of the runner and of the manual jobs
    plan,          \* the planner holding _sync_generation_plan_lock
    manualRunning, \* _manual_sync_status_by_scope[user]["running"]
    target,        \* today's daily target: not reached, unmet or met
    window,        \* the pre-shift window: closed, open, or its key consumed
    starting,      \* start_scheduler has not planned its start-up generation
    now,           \* the clock, in steps of the staggered plan
    restarts

db      == <<active, next, inProgress, lastGen, kind, status, member>>
threads == <<worker, plan, manualRunning>>
clock   == <<target, window, starting, now, restarts>>
vars    == <<db, proven, threads, clock>>

NoPlan == [by |-> "none", planned |-> {}, left |-> {}]
Idle   == [pc |-> "idle", todo |-> {}, user |-> NoUser, gen |-> 0,
           shared |-> FALSE, outcome |-> "error"]

-----------------------------------------------------------------------------
(* Queries and updates of the queue tables                                  *)

\* list_syncable_app_users
Syncable == {u \in Users : active[u]}

\* active_scheduled_sync_generation
ActiveScheduled == \E g \in Gens : kind[g] = "scheduled" /\ status[g] = "pending"

\* The generations active_sync_generation_for_user looks through.
OpenGens(u) == {g \in Gens : status[g] = "pending" /\ member[g][u] \in {"pending", "running"}}

\* active_sync_generation_for_user: ORDER BY generation_id DESC LIMIT 1.
Newest(S) == {g \in S : \A h \in S : h <= g}

\* The WHERE clause of get_due_user_syncs.
Due == {u \in Users : active[u] /\ inProgress[u] = "no" /\ next[u] # 0 /\ next[u] <= now}

\* get_due_user_syncs: the oldest planned users first, LIMIT BatchSize.
DueBatches ==
    {S \in SUBSET Due :
        /\ Cardinality(S) = IF Cardinality(Due) < BatchSize THEN Cardinality(Due) ELSE BatchSize
        /\ \A u \in S, v \in Due \ S : next[u] <= next[v]}

\* The status a generation takes once no member of m is pending or running.
SettledStatus(m) ==
    IF \E u \in Users : m[u] \in {"pending", "running"} THEN "pending"
    ELSE IF \E u \in Users : m[u] = "error" THEN "error"
    ELSE "complete"

\* mark_sync_generation_member: only a running member may be finished.
MarkMember(g, u, s) ==
    IF member[g][u] = "running"
    THEN LET m == [member[g] EXCEPT ![u] = s] IN
         /\ member' = [member EXCEPT ![g] = m]
         /\ status' = [status EXCEPT ![g] = IF @ = "pending" THEN SettledStatus(m) ELSE @]
    ELSE UNCHANGED <<member, status>>

\* create_sync_generation: a new pending generation with members S.
CreateGeneration(k, S) ==
    /\ lastGen' = lastGen + 1
    /\ kind' = [kind EXCEPT ![lastGen + 1] = k]
    /\ status' = [status EXCEPT ![lastGen + 1] = "pending"]
    /\ member' = [member EXCEPT ![lastGen + 1] =
                     [u \in Users |-> IF u \in S THEN "pending" ELSE "absent"]]

\* Bound: another generation still fits, counting those being created.
Room == lastGen + Cardinality({j \in Jobs : worker[j].pc = "create"})
          + (IF plan.by = "none" THEN 0 ELSE 1) < MaxGens

-----------------------------------------------------------------------------
(* Planning: plan_staggered_user_syncs and its callers                      *)

\* What the caller of a plan does once the plan returned.
PlanReturns(by) ==
    /\ starting' = (starting /\ by # "startup")
    /\ window' = IF by = "preshift" /\ window = "open" THEN "taken" ELSE window
    /\ worker' = IF by = "runner" THEN [worker EXCEPT ![Runner].pc = "query"] ELSE worker

\* Mutant of PlanBegins: the active generation is not looked up under the lock.
PlanBeginsUnchecked(by) ==
    /\ plan.by = "none" /\ Syncable # {} /\ Room
    /\ plan' = [by |-> by, planned |-> {}, left |-> Syncable]
    /\ UNCHANGED <<db, proven, worker, manualRunning, clock>>

\* Take the plan lock, find no active scheduled generation, begin to plan.
PlanBegins(by) ==
    /\ plan.by = "none" /\ ~ActiveScheduled /\ Syncable # {} /\ Room
    /\ plan' = [by |-> by, planned |-> {}, left |-> Syncable]
    /\ UNCHANGED <<db, proven, worker, manualRunning, clock>>

\* Take the plan lock and coalesce into the active scheduled generation, or
\* find nobody to plan for.
PlanCoalesces(by) ==
    /\ plan.by = "none" /\ (ActiveScheduled \/ Syncable = {} \/ ~Room)
    /\ PlanReturns(by)
    /\ UNCHANGED <<db, proven, plan, manualRunning, target, now, restarts>>

\* set_user_next_sync for the next user in plan order; an update also
\* refreshes updated_at, the age of a running claim.
PlanUser(u) ==
    /\ u \in plan.left
    /\ next' = [next EXCEPT ![u] = now + Cardinality(plan.planned)]
    /\ inProgress' = [inProgress EXCEPT ![u] = IF @ = "stale" THEN "yes" ELSE @]
    /\ plan' = [plan EXCEPT !.planned = @ \cup {u}, !.left = @ \ {u}]
    /\ UNCHANGED <<active, lastGen, kind, status, member, proven, worker, manualRunning, clock>>

\* create_sync_generation under the plan lock, then release it.
PlanEnds ==
    /\ plan.by # "none" /\ plan.left = {} /\ lastGen < MaxGens
    /\ CreateGeneration("scheduled", plan.planned)
    /\ plan' = NoPlan
    /\ PlanReturns(plan.by)
    /\ UNCHANGED <<active, next, inProgress, proven, manualRunning, target, now, restarts>>

\* start_scheduler's start-up plan.
StartupPlan == starting /\ plan.by # "startup"
                 /\ (PlanBegins("startup") \/ PlanCoalesces("startup"))

\* daily_sync_dispatch at SYNC_AT_HOUR: ensure_daily_sync on its own thread.
DailyDispatch == target = "unmet" /\ ~ActiveScheduled /\ PlanBegins("daily")

\* check_pre_shift_sync inside a window whose key is not consumed yet.
CheckPreShift == window = "open" /\ Syncable # {}
                   /\ (PlanBegins("preshift") \/ (ActiveScheduled /\ PlanCoalesces("preshift")))

-----------------------------------------------------------------------------
(* The runner: run_due_user_syncs                                           *)

Step(w, r) == worker' = [worker EXCEPT ![w] = r]

\* The five-minute job starts; _user_sync_runner_lock admits one pass.
RunnerBegins ==
    /\ worker[Runner].pc = "idle"
    /\ Step(Runner, [Idle EXCEPT !.pc = "ensure"])
    /\ UNCHANGED <<db, proven, plan, manualRunning, clock>>

\* Mutant of RunnerEnsures: the runner no longer enforces the daily target.
RunnerSkipsTarget ==
    /\ worker[Runner].pc = "ensure" /\ plan.by # "runner"
    /\ Step(Runner, [Idle EXCEPT !.pc = "query"])
    /\ UNCHANGED <<db, proven, plan, manualRunning, clock>>

\* ensure_daily_sync: plan a catch-up when the target has passed unmet.
RunnerEnsures ==
    /\ worker[Runner].pc = "ensure" /\ plan.by # "runner"
    /\ IF target = "unmet" /\ ~ActiveScheduled /\ Syncable # {} /\ Room
       THEN PlanBegins("runner")
       ELSE /\ Step(Runner, [Idle EXCEPT !.pc = "query"])
            /\ UNCHANGED <<db, proven, plan, manualRunning, clock>>

\* get_due_user_syncs: the batch of this pass is fixed here.
RunnerQueries ==
    /\ worker[Runner].pc = "query"
    /\ \E S \in DueBatches : Step(Runner, [Idle EXCEPT !.pc = "pick", !.todo = S])
    /\ UNCHANGED <<db, proven, plan, manualRunning, clock>>

\* active_sync_generation_for_user for the next due user; without one the
\* runner continues and leaves the user's plan as it is.
RunnerPicks(u) ==
    /\ worker[Runner].pc = "pick" /\ u \in worker[Runner].todo
    /\ LET r == [Idle EXCEPT !.pc = "pick", !.todo = worker[Runner].todo \ {u}] IN
       \/ OpenGens(u) = {} /\ Step(Runner, r)
       \/ \E g \in Newest(OpenGens(u)) :
             Step(Runner, [r EXCEPT !.pc = "claim", !.user = u, !.gen = g])
    /\ UNCHANGED <<db, proven, plan, manualRunning, clock>>

RunnerEnds ==
    /\ worker[Runner].pc = "pick" /\ worker[Runner].todo = {}
    /\ Step(Runner, Idle)
    /\ UNCHANGED <<db, proven, plan, manualRunning, clock>>

\* Mutant of RunnerClaims: the update does not test that the row is pending.
RunnerClaimsAny ==
    /\ worker[Runner].pc = "claim"
    /\ member' = [member EXCEPT ![worker[Runner].gen][worker[Runner].user] = "running"]
    /\ Step(Runner, [worker[Runner] EXCEPT !.pc = "start"])
    /\ UNCHANGED <<active, next, inProgress, lastGen, kind, status, proven, plan,
                   manualRunning, clock>>

\* claim_sync_generation_member: atomically from pending to running.
RunnerClaims ==
    /\ worker[Runner].pc = "claim"
    /\ LET r == worker[Runner] IN
       IF member[r.gen][r.user] = "pending"
       THEN /\ member' = [member EXCEPT ![r.gen][r.user] = "running"]
            /\ Step(Runner, [r EXCEPT !.pc = "start"])
       ELSE /\ Step(Runner, [Idle EXCEPT !.pc = "pick", !.todo = r.todo])
            /\ UNCHANGED member
    /\ UNCHANGED <<active, next, inProgress, lastGen, kind, status, proven, plan,
                   manualRunning, clock>>

-----------------------------------------------------------------------------
(* Manual syncs: queue_manual_sync and run_manual_sync_job                  *)

\* queue_manual_sync's reads: the in-memory flag, then the user's member.  A
\* running member refuses the request.
ManualReads(j, u) ==
    /\ worker[j].pc = "idle" /\ ~starting /\ active[u] /\ ~manualRunning[u]
    /\ \/ /\ OpenGens(u) = {} /\ Room
          /\ Step(j, [Idle EXCEPT !.pc = "create", !.user = u])
       \/ \E g \in Newest(OpenGens(u)) :
             /\ member[g][u] = "pending"
             /\ Step(j, [Idle EXCEPT !.pc = "promote", !.user = u, !.gen = g])
    /\ UNCHANGED <<db, proven, plan, manualRunning, clock>>

\* promote_pending_sync_generation_member looks for the user's latest member
\* that is still pending; a SELECT opens no transaction, so its answer may be old
\* when the update runs.
ManualSeeks(j) ==
    /\ worker[j].pc = "promote"
    /\ LET u == worker[j].user IN
       IF \E g \in OpenGens(u) : member[g][u] = "pending"
       THEN Step(j, [worker[j] EXCEPT !.pc = "advance"]) /\ UNCHANGED manualRunning
       ELSE /\ Step(j, [worker[j] EXCEPT !.pc = "begin"])
            /\ manualRunning' = [manualRunning EXCEPT ![u] = TRUE]
    /\ UNCHANGED <<db, proven, plan, clock>>

\* The account is planned for now; the job runs the generation read before.
ManualPromotes(j) ==
    /\ worker[j].pc = "advance"
    /\ LET u == worker[j].user IN
       /\ next' = [next EXCEPT ![u] = now]
       /\ inProgress' = [inProgress EXCEPT ![u] = IF @ = "stale" THEN "yes" ELSE @]
       /\ manualRunning' = [manualRunning EXCEPT ![u] = TRUE]
       /\ Step(j, [worker[j] EXCEPT !.pc = "begin"])
    /\ UNCHANGED <<active, lastGen, kind, status, member, proven, plan, clock>>

\* No open member: a manual generation of one member, not planned in next.
ManualCreates(j) ==
    /\ worker[j].pc = "create" /\ lastGen < MaxGens
    /\ CreateGeneration("manual", {worker[j].user})
    /\ manualRunning' = [manualRunning EXCEPT ![worker[j].user] = TRUE]
    /\ Step(j, [worker[j] EXCEPT !.pc = "begin", !.gen = lastGen + 1])
    /\ UNCHANGED <<active, next, inProgress, proven, plan, clock>>

\* _sync_worker_lock is held by one manual job at a time.
WorkerLockBusy == \E j \in Jobs : worker[j].pc \in {"start", "capture", "finish", "mark"}

\* Mutant of ManualBegins: giving up leaves the in-memory status running.
ManualBeginsSilently(j) ==
    /\ worker[j].pc = "begin"
    /\ LET r == worker[j] IN
       IF ~WorkerLockBusy /\ member[r.gen][r.user] = "pending"
       THEN /\ member' = [member EXCEPT ![r.gen][r.user] = "running"]
            /\ Step(j, [r EXCEPT !.pc = "start"])
       ELSE Step(j, Idle) /\ UNCHANGED member
    /\ UNCHANGED <<active, next, inProgress, lastGen, kind, status, proven, plan,
                   manualRunning, clock>>

\* run_manual_sync_job: give up when another job holds the lock (the member
\* stays pending) or when the member was claimed by someone else.
ManualBegins(j) ==
    /\ worker[j].pc = "begin"
    /\ LET r == worker[j] IN
       IF ~WorkerLockBusy /\ member[r.gen][r.user] = "pending"
       THEN /\ member' = [member EXCEPT ![r.gen][r.user] = "running"]
            /\ Step(j, [r EXCEPT !.pc = "start"])
            /\ UNCHANGED manualRunning
       ELSE /\ Step(j, Idle)
            /\ manualRunning' = [manualRunning EXCEPT ![r.user] = FALSE]
            /\ UNCHANGED member
    /\ UNCHANGED <<active, next, inProgress, lastGen, kind, status, proven, plan, clock>>

-----------------------------------------------------------------------------
(* One claimed member, run by the runner or by a manual job                 *)

\* Where worker w goes after a member: on with the batch, or the job ends.
Done(w) == IF w = Runner THEN [Idle EXCEPT !.pc = "pick", !.todo = worker[w].todo] ELSE Idle

\* set_manual_sync_status: a job's in-memory status runs once its capture starts
\* and stops before the queue rows are updated.
SetStatus(w, running) ==
    manualRunning' = IF w \in Jobs THEN [manualRunning EXCEPT ![worker[w].user] = running]
                     ELSE manualRunning

\* The runner captures shared data only while the generation has no proof; a
\* manual job also reuses a proof younger than 90 minutes, of any age here.
SharedChoices(w) == IF w = Runner THEN {~proven[worker[w].gen]} ELSE BOOLEAN

\* Mutant of Start: the account is taken whoever holds it.
StartAlways(w) ==
    /\ worker[w].pc = "start"
    /\ inProgress' = [inProgress EXCEPT ![worker[w].user] = "yes"]
    /\ \E s \in SharedChoices(w) : Step(w, [worker[w] EXCEPT !.pc = "capture", !.shared = s])
    /\ SetStatus(w, TRUE)
    /\ UNCHANGED <<active, next, lastGen, kind, status, member, proven, plan, clock>>

\* mark_user_sync_started: take the account unless a younger claim holds it,
\* in which case the member ends as an error.
Start(w) ==
    /\ worker[w].pc = "start"
    /\ LET r == worker[w] IN
       IF inProgress[r.user] # "yes"
       THEN /\ inProgress' = [inProgress EXCEPT ![r.user] = "yes"]
            /\ \E s \in SharedChoices(w) : Step(w, [r EXCEPT !.pc = "capture", !.shared = s])
            /\ SetStatus(w, TRUE)
            /\ UNCHANGED <<member, status>>
       ELSE /\ MarkMember(r.gen, r.user, "error")
            /\ SetStatus(w, FALSE)
            /\ Step(w, Done(w))
            /\ UNCHANGED inProgress
    /\ UNCHANGED <<active, next, lastGen, kind, proven, plan, clock>>

\* sync_roster_sources ends with an outcome; a qualifying shared capture, never
\* one of an errored sync, is a proof for every generation created before it.
Capture(w) ==
    /\ worker[w].pc = "capture"
    /\ \E o \in Terminal, qualifies \in BOOLEAN :
        /\ qualifies => worker[w].shared /\ o # "error"
        /\ proven' = IF qualifies THEN [g \in Gens |-> proven[g] \/ g <= lastGen] ELSE proven
        /\ target' = IF qualifies /\ target = "unmet" THEN "met" ELSE target
        /\ Step(w, [worker[w] EXCEPT !.pc = "finish", !.outcome = o])
    /\ SetStatus(w, FALSE)
    /\ UNCHANGED <<db, plan, window, starting, now, restarts>>

\* Mutant of Finish: the account's plan is kept.
FinishKeepsPlan(w) ==
    /\ worker[w].pc = "finish"
    /\ inProgress' = [inProgress EXCEPT ![worker[w].user] = "no"]
    /\ Step(w, [worker[w] EXCEPT !.pc = "mark"])
    /\ UNCHANGED <<active, next, lastGen, kind, status, member, proven, plan, manualRunning, clock>>

\* Mutant of Finish: sync_in_progress is not cleared.
FinishKeepsClaim(w) ==
    /\ worker[w].pc = "finish"
    /\ next' = [next EXCEPT ![worker[w].user] = 0]
    /\ Step(w, [worker[w] EXCEPT !.pc = "mark"])
    /\ UNCHANGED <<active, inProgress, lastGen, kind, status, member, proven, plan, manualRunning, clock>>

\* mark_user_sync_finished with next_sync_after = ''.
Finish(w) ==
    /\ worker[w].pc = "finish"
    /\ inProgress' = [inProgress EXCEPT ![worker[w].user] = "no"]
    /\ next' = [next EXCEPT ![worker[w].user] = 0]
    /\ Step(w, [worker[w] EXCEPT !.pc = "mark"])
    /\ UNCHANGED <<active, lastGen, kind, status, member, proven, plan, manualRunning, clock>>

\* mark_sync_generation_member with the sync's outcome.
Mark(w) ==
    /\ worker[w].pc = "mark"
    /\ MarkMember(worker[w].gen, worker[w].user, worker[w].outcome)
    /\ Step(w, Done(w))
    /\ UNCHANGED <<active, next, inProgress, lastGen, kind, proven, plan, manualRunning, clock>>

-----------------------------------------------------------------------------
(* Other routes that write user_sync_state, the clock and restarts          *)

\* set_app_user_active(user, False)
Deactivate(u) ==
    /\ active' = [active EXCEPT ![u] = FALSE]
    /\ next' = [next EXCEPT ![u] = 0]
    /\ inProgress' = [inProgress EXCEPT ![u] = "no"]
    /\ UNCHANGED <<lastGen, kind, status, member, proven, threads, clock>>

\* set_app_user_active(user, True)
Reactivate(u) ==
    /\ active' = [active EXCEPT ![u] = TRUE]
    /\ inProgress' = [inProgress EXCEPT ![u] = "no"]
    /\ UNCHANGED <<next, lastGen, kind, status, member, proven, threads, clock>>

\* reset_user_roster_data: the plan and the running claim are cleared.
ResetRoster(u) ==
    /\ next' = [next EXCEPT ![u] = 0]
    /\ inProgress' = [inProgress EXCEPT ![u] = "no"]
    /\ UNCHANGED <<active, lastGen, kind, status, member, proven, threads, clock>>

\* credential_save_failed_response calls mark_user_sync_finished.
CredentialSaveFails(u) == ResetRoster(u)

\* Time moves to the next planned instant.
Tick ==
    /\ \E u \in Users : next[u] > now
    /\ now' = now + 1
    /\ UNCHANGED <<db, proven, threads, target, window, starting, restarts>>

\* A running claim becomes older than the 45 minutes of mark_user_sync_started.
ClaimAges(u) ==
    /\ "slow" \in Events /\ inProgress[u] = "yes"
    /\ inProgress' = [inProgress EXCEPT ![u] = "stale"]
    /\ UNCHANGED <<active, next, lastGen, kind, status, member, proven, threads, clock>>

\* SYNC_AT_HOUR passes: no capture is later than the target yet; at midnight
\* the target moves to the coming hour.
TargetPasses ==
    /\ "daily" \in Events
    /\ target' = IF target = "before" THEN "unmet" ELSE "before"
    /\ UNCHANGED <<db, proven, threads, window, starting, now, restarts>>

\* The next shift enters or leaves a pre-shift window.
WindowMoves ==
    /\ "preshift" \in Events
    /\ window' = IF window = "closed" THEN "open" ELSE "closed"
    /\ UNCHANGED <<db, proven, threads, target, starting, now, restarts>>

\* What a restart does to everything but the queue's members.
RestartThreads ==
    /\ restarts < MaxRestarts
    /\ restarts' = restarts + 1
    /\ inProgress' = [u \in Users |-> "no"]
    /\ worker' = [w \in Workers |-> Idle]
    /\ plan' = NoPlan
    /\ manualRunning' = [u \in Users |-> FALSE]
    /\ window' = IF window = "taken" THEN "open" ELSE window
    /\ starting' = TRUE
    /\ UNCHANGED <<active, next, lastGen, kind, proven, target, now>>

\* Mutant of RecoverGenerations: recovery requeues the members that were running.
RecoverRequeues ==
    /\ member' = [g \in Gens |-> [u \in Users |->
                     IF member[g][u] = "running" THEN "pending" ELSE member[g][u]]]
    /\ UNCHANGED status

\* Mutant of RecoverGenerations: recovery ends running members, not generations.
RecoverMembersOnly ==
    /\ member' = [g \in Gens |-> [u \in Users |->
                     IF member[g][u] = "running" THEN "error" ELSE member[g][u]]]
    /\ UNCHANGED status

\* recover_incomplete_sync_generations: running members end as errors and every
\* generation without an open member settles.
RecoverGenerations ==
    /\ member' = [g \in Gens |-> [u \in Users |->
                     IF member[g][u] = "running" THEN "error" ELSE member[g][u]]]
    /\ status' = [g \in Gens |-> IF status[g] = "pending" THEN SettledStatus(member'[g])
                                 ELSE status[g]]

\* The process stops at any point and starts again: threads and in-memory
\* status and window keys are lost, reset_incomplete_user_syncs and
\* recover_incomplete_sync_generations repair the rows.
Restart == RestartThreads /\ RecoverGenerations

-----------------------------------------------------------------------------

Init ==
    /\ active \in [Users -> BOOLEAN]
    /\ next = [u \in Users |-> 0]
    /\ inProgress = [u \in Users |-> "no"]
    /\ lastGen = 0
    /\ kind = [g \in Gens |-> "none"]
    /\ status = [g \in Gens |-> "none"]
    /\ member = [g \in Gens |-> [u \in Users |-> "absent"]]
    /\ proven = [g \in Gens |-> FALSE]
    /\ worker = [w \in Workers |-> Idle]
    /\ plan = NoPlan
    /\ manualRunning = [u \in Users |-> FALSE]
    /\ target = "before"
    /\ window = "closed"
    /\ starting = TRUE
    /\ now = 1
    /\ restarts = 0

Planning == StartupPlan \/ DailyDispatch \/ CheckPreShift
              \/ (\E u \in Users : PlanUser(u)) \/ PlanEnds

RunnerWork == RunnerBegins \/ RunnerEnsures \/ RunnerQueries \/ RunnerEnds
                \/ (\E u \in Users : RunnerPicks(u)) \/ RunnerClaims

JobWork(j) == ManualSeeks(j) \/ ManualPromotes(j) \/ ManualCreates(j) \/ ManualBegins(j)

MemberWork(w) == Start(w) \/ Capture(w) \/ Finish(w) \/ Mark(w)

OtherRoutes == \E u \in ResetUsers :
    Deactivate(u) \/ Reactivate(u) \/ ResetRoster(u) \/ CredentialSaveFails(u)

Environment == Tick \/ (\E u \in Users : ClaimAges(u)) \/ TargetPasses \/ WindowMoves \/ Restart

Next ==
    \/ Planning
    \/ RunnerWork
    \/ \E j \in Jobs : (\E u \in Users : ManualReads(j, u)) \/ JobWork(j)
    \/ \E w \in Workers : MemberWork(w)
    \/ OtherRoutes
    \/ Environment

Spec == Init /\ [][Next]_vars

\* APScheduler keeps waking the runner, a thread holding the plan lock or
\* running a job goes on, captures end by their own timeouts, time passes.
Fairness ==
    /\ WF_vars(RunnerWork)
    /\ \A w \in Workers : WF_vars(MemberWork(w))
    /\ \A j \in Jobs : WF_vars(JobWork(j))
    /\ WF_vars(StartupPlan)
    /\ WF_vars((\E u \in Users : PlanUser(u)) \/ PlanEnds)
    /\ WF_vars(CheckPreShift)
    /\ WF_vars(Tick)

FairSpec == Spec /\ Fairness

-----------------------------------------------------------------------------
(* Properties                                                               *)

WorkerState == [pc : {"idle", "ensure", "query", "pick", "claim", "create", "promote", "advance",
                      "begin", "start", "capture", "finish", "mark"},
                todo : SUBSET Users, user : Users \cup {NoUser}, gen : 0..MaxGens,
                shared : BOOLEAN, outcome : Terminal]

PlanState == [by : {"none", "startup", "daily", "preshift", "runner"},
              planned : SUBSET Users, left : SUBSET Users]

\* Type invariant of the queue tables, the threads and the clock.
TypeOK ==
    /\ active \in [Users -> BOOLEAN]
    /\ next \in [Users -> Nat]
    /\ inProgress \in [Users -> {"no", "yes", "stale"}]
    /\ lastGen \in 0..MaxGens
    /\ kind \in [Gens -> {"none", "scheduled", "manual"}]
    /\ status \in [Gens -> {"none", "pending", "complete", "error"}]
    /\ member \in [Gens -> [Users -> MemberStates]]
    /\ proven \in [Gens -> BOOLEAN]
    /\ worker \in [Workers -> WorkerState]
    /\ plan \in PlanState
    /\ manualRunning \in [Users -> BOOLEAN]
    /\ target \in {"before", "unmet", "met"}
    /\ window \in {"closed", "open", "taken"}
    /\ starting \in BOOLEAN
    /\ now \in Nat \ {0}
    /\ restarts \in 0..MaxRestarts

\* Whatever cron job, check, runner pass or start-up plans, at most one
\* scheduled generation is pending: "the one persisted scheduled batch that
\* future dispatches must reuse".
SingleActiveScheduled ==
    \A g, h \in Gens :
        (/\ kind[g] = "scheduled" /\ status[g] = "pending"
         /\ kind[h] = "scheduled" /\ status[h] = "pending") => g = h

\* A generation is settled exactly when its last member is terminal, and as an
\* error exactly when a member failed, over claims by several threads, lost
\* claims and restarts ("completion is derived only from terminal members").
SettledByMembers == \A g \in 1..lastGen : status[g] = SettledStatus(member[g])

\* The workers between claiming member u of generation g and marking it.
Holders(g, u) == {w \in Workers : /\ worker[w].pc \in {"start", "capture", "finish", "mark"}
                                  /\ worker[w].gen = g /\ worker[w].user = u}

\* A running member is held by exactly one thread and every other member by
\* none: "only the winner may capture roster data", and no crash, lost claim or
\* cleared sync state leaves a running row that nobody will finish.
RunningIsHeld ==
    \A g \in Gens, u \in Users :
        /\ (member[g][u] = "running") <=> (Holders(g, u) # {})
        /\ \A v, w \in Holders(g, u) : v = w

\* sync_in_progress never outlives the thread that set it: a flag left behind
\* would hide the user from get_due_user_syncs for good.
ClaimHasWorker ==
    \A u \in Users : inProgress[u] # "no" =>
        \E w \in Workers : worker[w].pc \in {"capture", "finish"} /\ worker[w].user = u

\* No account is captured by two threads at once ("This account already has a
\* sync running").
OneCapturePerUser ==
    \A v, w \in Workers :
        (/\ worker[v].pc = "capture" /\ worker[w].pc = "capture"
         /\ worker[v].user = worker[w].user) => v = w

\* A row get_due_user_syncs can return without an open member to run, and no
\* plan is being written for it.
Orphan(u) == next[u] # 0 /\ OpenGens(u) = {} /\ u \notin plan.planned

\* No account is planned for nothing: with a batch of one, a due row without an
\* open member is picked first on every pass and starves the users behind it.
PlannedHasMember == \A u \in Users : ~Orphan(u)

\* The account has an unclaimed member in a scheduled generation, or is about
\* to get one from the planner.
Awaits(u) == u \in plan.planned \/ \E g \in Gens : kind[g] = "scheduled" /\ member[g][u] = "pending"

\* The end of a manual generation's sync, and a route that clears the account.
ManualFinishes(u) == \E w \in Workers : Finish(w) /\ worker[w].user = u /\ kind[worker[w].gen] = "manual"
RouteClears(u) == u \in ResetUsers /\ (Deactivate(u) \/ ResetRoster(u))

\* An account that awaits its scheduled sync keeps its planned instant, and so
\* stays within the runner's reach, over claims, refused and lost claims,
\* captures of other generations, promotions and restarts.  It is lost in two
\* ways only: a manual generation's sync of the account ends after it was
\* planned, or another route clears the account.
PendingKeepsPlan ==
    [][\A u \in Users : (Awaits(u)' /\ next'[u] = 0) =>
         \/ Awaits(u) /\ next[u] = 0
         \/ ManualFinishes(u)
         \/ RouteClears(u)]_vars

\* A member that ended, and a generation that settled, never change again, and
\* a claimed member never returns to pending.
NoRegress ==
    [][\A g \in 1..lastGen :
        /\ status[g] # "pending" => status'[g] = status[g]
        /\ kind'[g] = kind[g]
        /\ \A u \in Users :
            /\ member[g][u] \in Terminal => member'[g][u] = member[g][u]
            /\ member[g][u] = "running" => member'[g][u] # "pending"]_vars

\* "Future pending members remain runnable": every scheduled generation settles,
\* so the next trigger is not coalesced into it for ever.
ScheduledSettles ==
    \A g \in Gens : (kind[g] = "scheduled" /\ status[g] = "pending") ~> (status[g] # "pending")

\* While some account can be synced, an unmet daily target is awaited by a
\* scheduled generation or planned for, until a qualifying shared capture meets
\* it or the day ends.
DailyTargetPlanned ==
    (target = "unmet" /\ lastGen < MaxGens /\ Syncable # {})
        ~> (target # "unmet" \/ ActiveScheduled \/ lastGen = MaxGens \/ Syncable = {})

\* A manual request never leaves the in-memory flag set: its job ends, gives up
\* or dies with the process, and the user may ask again.
ManualRequestEnds == \A u \in Users : manualRunning[u] ~> ~manualRunning[u]

Ledger == INSTANCE SyncLedger

\* The queue, with its threads, lost claims, cleared rows and restarts, is an
\* implementation of the ledger other parts of the program rely on.
ImplementsLedger == Ledger!Spec

=============================================================================
