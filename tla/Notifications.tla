---------------------------- MODULE Notifications ----------------------------
(***************************************************************************)
(* app/notifications.py: the pass that turns roster-integrity findings     *)
(* into Admin alerts and delivers what is queued.  Sync generations change *)
(* the findings meanwhile (app/database.py, integrity_generation_boundary);*)
(* the pass reads, compares, queues for one Admin at a time, saves the     *)
(* baseline and delivers, each in transactions of their own.               *)
(***************************************************************************)
EXTENDS FiniteSets, Naturals

CONSTANTS
    Findings, Admins, Devices,
    Runners,        \* the scheduler's job and the Admin's "run now"
    MaxGenerations, \* bound: sync generations
    MaxRestarts     \* bound: restarts and aborted passes

ASSUME NotificationsAssumption == MaxGenerations \in Nat /\ MaxRestarts \in Nat

Generations == 1..MaxGenerations

VARIABLES
    findings,  \* what deputy_event_coverage shows now
    latest,    \* latest terminal generation: id, status
    settled,   \* 90 seconds have passed since it completed
    syncing,   \* a generation has pending or running members
    final,     \* history: findings when a generation completed
    eligible,  \* Admins who want alerts
    baseline,  \* settled_integrity_state
    events,    \* integrity alert of each Admin and generation
    subs,      \* devices with an active push subscription
    pushes,    \* history: accepted pushes of each alert on each device
    runner,    \* local variables of the passes
    restarts   \* restarts so far

noticeVars == <<findings, latest, settled, syncing, final, eligible, baseline, events, subs,
                pushes, runner, restarts>>

NoRunner == [pc |-> "idle", settledId |-> 0, recipients |-> {}, admins |-> {}, rows |-> {},
             ready |-> FALSE, alert |-> FALSE, generation |-> 0, queue |-> {}, event |-> <<>>,
             devices |-> {}, delivered |-> 0]

\* Devices of an Admin: each has all of them, they differ in nothing else.
AllEvents == Admins \X Generations

NoticeInit ==
    /\ findings = {} /\ latest = [id |-> 0, status |-> "none"]
    /\ settled = FALSE /\ syncing = FALSE
    /\ final = [g \in Generations |-> {}]
    /\ eligible \in SUBSET Admins /\ baseline = {}
    /\ events = [e \in AllEvents |-> "none"]
    /\ subs = Devices
    /\ pushes = [e \in AllEvents |-> [d \in Devices |-> 0]]
    /\ runner = [r \in Runners |-> NoRunner]
    /\ restarts = 0

-----------------------------------------------------------------------------
(* The sync generations and the accounts, as this component sees them       *)

SyncStarts ==
    /\ ~syncing /\ latest.id < MaxGenerations
    /\ syncing' = TRUE
    /\ UNCHANGED <<findings, latest, settled, final, eligible, baseline, events, subs, pushes,
                   runner, restarts>>

\* A capture of a running generation; several make up the final state.
SyncWrites ==
    /\ syncing
    /\ \E f \in Findings : findings' = (findings \ {f}) \cup ({f} \ findings)
    /\ UNCHANGED <<latest, settled, syncing, final, eligible, baseline, events, subs, pushes,
                   runner, restarts>>

SyncEnds ==
    /\ syncing /\ syncing' = FALSE
    /\ \E s \in {"complete", "error"} : latest' = [id |-> latest.id + 1, status |-> s]
    /\ settled' = FALSE
    /\ final' = [final EXCEPT ![latest.id + 1] = findings]
    /\ UNCHANGED <<findings, eligible, baseline, events, subs, pushes, runner, restarts>>

\* 90 seconds without another completion.
SettleTimePasses ==
    /\ latest.id > 0 /\ ~settled /\ settled' = TRUE
    /\ UNCHANGED <<findings, latest, syncing, final, eligible, baseline, events, subs, pushes,
                   runner, restarts>>

\* A finding of an event that is locked, or was captured over a week ago.
FindingExpires ==
    /\ \E f \in findings : findings' = findings \ {f}
    /\ UNCHANGED <<latest, settled, syncing, final, eligible, baseline, events, subs, pushes,
                   runner, restarts>>

\* Preferences, activity or the Admin role change.
EligibilityChanges ==
    /\ \E a \in Admins : eligible' = (eligible \ {a}) \cup ({a} \ eligible)
    /\ UNCHANGED <<findings, latest, settled, syncing, final, baseline, events, subs, pushes,
                   runner, restarts>>

-----------------------------------------------------------------------------
(* generate_due_notifications                                               *)

\* Mutant of RunnerLockFree: every caller runs its pass.
NoLock == TRUE

RunnerLockFree == \A r \in Runners : runner[r].pc = "idle"

\* run_notification_pass takes its lock; "now" is fixed here, and with it the
\* generation that counts as settled.
PassBegins(r) ==
    /\ RunnerLockFree
    /\ runner' = [runner EXCEPT ![r] =
          [NoRunner EXCEPT !.pc = "read", !.settledId = IF settled THEN latest.id ELSE 0]]
    /\ UNCHANGED <<findings, latest, settled, syncing, final, eligible, baseline, events, subs,
                   pushes, restarts>>

ReadsFindings(r) ==
    /\ runner[r].pc = "read"
    /\ runner' = [runner EXCEPT ![r].pc = "boundary", ![r].recipients = eligible,
                     ![r].admins = eligible, ![r].rows = findings]
    /\ UNCHANGED <<findings, latest, settled, syncing, final, eligible, baseline, events, subs,
                   pushes, restarts>>

\* Mutant of IntegrityReady: the boundary is not compared with "now".
IntegrityReadyLate(r) == latest.status = "complete" /\ ~syncing

\* The latest generation is complete, nothing is active, and at "now" it was 90
\* seconds old.
IntegrityReady(r) ==
    latest.status = "complete" /\ ~syncing /\ latest.id = runner[r].settledId

\* integrity_generation_boundary, and the comparison with the baseline.
ReadsBoundary(r) ==
    LET ready == IntegrityReady(r)
        alert == ready /\ ~(runner[r].rows \subseteq baseline)
    IN
    /\ runner[r].pc = "boundary"
    /\ runner' = [runner EXCEPT ![r].ready = ready, ![r].alert = alert, ![r].generation = latest.id,
                     ![r].pc = "queue"]
    /\ UNCHANGED <<findings, latest, settled, syncing, final, eligible, baseline, events, subs,
                   pushes, restarts>>

\* queue_notification for one Admin after the other; its key makes it once.
QueuesAlert(r) ==
    /\ runner[r].pc = "queue" /\ runner[r].alert
    /\ \E a \in runner[r].admins :
          LET e == <<a, runner[r].generation>> IN
          /\ runner' = [runner EXCEPT ![r].admins = @ \ {a}]
          /\ events' = [events EXCEPT ![e] = IF @ = "none" THEN "queued" ELSE @]
    /\ UNCHANGED <<findings, latest, settled, syncing, final, eligible, baseline, subs, pushes,
                   restarts>>

\* Mutant of SavesBaseline: before the recipients are through.
SavesBaselineFirst(r) ==
    /\ runner[r].pc = "queue"
    /\ baseline' = IF runner[r].ready THEN runner[r].rows ELSE baseline
    /\ runner' = [runner EXCEPT ![r] = [NoRunner EXCEPT !.pc = "select"]]
    /\ UNCHANGED <<findings, latest, settled, syncing, final, eligible, events, subs, pushes, restarts>>

\* save_settled_integrity_state, after every recipient has been queued.
SavesBaseline(r) ==
    /\ runner[r].pc = "queue" /\ (runner[r].alert => runner[r].admins = {})
    /\ baseline' = IF runner[r].ready THEN runner[r].rows ELSE baseline
    /\ runner' = [runner EXCEPT ![r] = [NoRunner EXCEPT !.pc = "select"]]
    /\ UNCHANGED <<findings, latest, settled, syncing, final, eligible, events, subs, pushes, restarts>>

-----------------------------------------------------------------------------
(* deliver_due_notifications                                                *)

SelectsQueued(r) ==
    LET queued == {e \in AllEvents : events[e] = "queued"} IN
    /\ runner[r].pc = "select"
    /\ runner' = [runner EXCEPT ![r] =
          IF queued = {} THEN NoRunner ELSE [NoRunner EXCEPT !.pc = "event", !.queue = queued]]
    /\ UNCHANGED <<findings, latest, settled, syncing, final, eligible, baseline, events, subs,
                   pushes, restarts>>

\* The next event, with the devices active now.
TakesEvent(r) ==
    /\ runner[r].pc = "event"
    /\ \E e \in runner[r].queue :
          runner' = [runner EXCEPT ![r].pc = "push", ![r].event = e, ![r].devices = subs,
                        ![r].queue = @ \ {e}, ![r].delivered = 0]
    /\ UNCHANGED <<findings, latest, settled, syncing, final, eligible, baseline, events, subs,
                   pushes, restarts>>

\* One device: the push service accepts it, refuses it for now, or for good.
PushesDevice(r) ==
    /\ runner[r].pc = "push"
    /\ \E d \in runner[r].devices :
          \/ /\ pushes' = [pushes EXCEPT ![runner[r].event][d] = @ + 1]
             /\ runner' = [runner EXCEPT ![r].devices = @ \ {d}, ![r].delivered = 1]
             /\ UNCHANGED subs
          \/ /\ subs' \in {subs, subs \ {d}}
             /\ runner' = [runner EXCEPT ![r].devices = @ \ {d}]
             /\ UNCHANGED pushes
    /\ UNCHANGED <<findings, latest, settled, syncing, final, eligible, baseline, events, restarts>>

\* Mutant of EventSettles: an event that reached no device is tried again.
EventSettlesOrWaits(r) ==
    /\ runner[r].pc = "push" /\ runner[r].devices = {}
    /\ events' = [events EXCEPT ![runner[r].event] = IF runner[r].delivered > 0 THEN "sent" ELSE @]
    /\ runner' = [runner EXCEPT ![r] =
          IF runner[r].queue = {} THEN NoRunner ELSE [NoRunner EXCEPT !.pc = "event", !.queue = runner[r].queue]]
    /\ UNCHANGED <<findings, latest, settled, syncing, final, eligible, baseline, subs, pushes, restarts>>

\* notification_events.status
EventSettles(r) ==
    /\ runner[r].pc = "push" /\ runner[r].devices = {}
    /\ events' = [events EXCEPT ![runner[r].event] = IF runner[r].delivered > 0 THEN "sent" ELSE "failed"]
    /\ runner' = [runner EXCEPT ![r] =
          IF runner[r].queue = {} THEN NoRunner ELSE [NoRunner EXCEPT !.pc = "event", !.queue = runner[r].queue]]
    /\ UNCHANGED <<findings, latest, settled, syncing, final, eligible, baseline, subs, pushes, restarts>>

\* The device's owner enables notifications again.
DeviceRegisters(d) ==
    /\ d \notin subs /\ subs' = subs \cup {d}
    /\ UNCHANGED <<findings, latest, settled, syncing, final, eligible, baseline, events, pushes,
                   runner, restarts>>

\* The process stops, or an exception (a locked database) ends the pass.
PassLost ==
    /\ ~RunnerLockFree /\ restarts < MaxRestarts
    /\ runner' = [r \in Runners |-> NoRunner] /\ restarts' = restarts + 1
    /\ UNCHANGED <<findings, latest, settled, syncing, final, eligible, baseline, events, subs, pushes>>

RunnerSteps(r) ==
    \/ ReadsFindings(r) \/ ReadsBoundary(r) \/ QueuesAlert(r) \/ SavesBaseline(r)
    \/ SelectsQueued(r) \/ TakesEvent(r) \/ PushesDevice(r) \/ EventSettles(r)

NoticeNext ==
    \/ SyncStarts \/ SyncWrites \/ SyncEnds \/ SettleTimePasses \/ FindingExpires
    \/ EligibilityChanges \/ PassLost
    \/ \E r \in Runners : PassBegins(r) \/ RunnerSteps(r)
    \/ \E d \in Devices : DeviceRegisters(d)

\* The scheduler runs a pass every five minutes, and a pass goes on.
NoticeFairness ==
    /\ WF_noticeVars(\E r \in Runners : PassBegins(r))
    /\ \A r \in Runners : WF_noticeVars(RunnerSteps(r))

NoticeSpec == NoticeInit /\ [][NoticeNext]_noticeVars /\ NoticeFairness

-----------------------------------------------------------------------------
(* Properties                                                               *)

NoticeTypeOK ==
    /\ findings \subseteq Findings /\ baseline \subseteq Findings
    /\ latest \in [id : 0..MaxGenerations, status : {"none", "complete", "error"}]
    /\ settled \in BOOLEAN /\ syncing \in BOOLEAN
    /\ final \in [Generations -> SUBSET Findings]
    /\ eligible \subseteq Admins /\ subs \subseteq Devices
    /\ events \in [AllEvents -> {"none", "queued", "sent", "failed"}]
    /\ pushes \in [AllEvents -> [Devices -> Nat]]
    /\ runner \in [Runners ->
          [pc : {"idle", "read", "boundary", "queue", "select", "event", "push"},
           settledId : 0..MaxGenerations, recipients : SUBSET Admins, admins : SUBSET Admins, rows : SUBSET Findings,
           ready : BOOLEAN, alert : BOOLEAN, generation : 0..MaxGenerations,
           queue : SUBSET AllEvents, event : AllEvents \cup {<<>>}, devices : SUBSET Devices,
           delivered : 0..1]]
    /\ restarts \in 0..MaxRestarts

\* An alert and the baseline never hold what a sync showed on its way: what the
\* pass acts on was there when the generation it names completed, although the
\* findings were read before the generation was looked up.
NoProvisionalAlert ==
    \A r \in Runners : runner[r].ready => runner[r].rows \subseteq final[runner[r].generation]

\* A finding enters the baseline only once every Admin the pass found eligible
\* has an alert of that generation, whatever stopped an earlier pass half-way.
AlertedBeforeBaselined ==
    [][\A r \in Runners :
          (runner[r].pc = "queue" /\ ~(baseline' \subseteq baseline)) =>
              \A a \in runner[r].recipients : events[<<a, runner[r].generation>>] # "none"]_noticeVars

\* Nobody gets the same alert twice on one device, unless a pass was lost
\* between the push and the row that says it was sent.
PushedOnce == \A e \in AllEvents, d \in Devices : pushes[e][d] <= 1 + restarts

\* A queued alert is settled: sent to some device, or known to have reached none.
AlertsSettle == \A e \in AllEvents : events[e] = "queued" ~> events[e] \in {"sent", "failed"}

=============================================================================
