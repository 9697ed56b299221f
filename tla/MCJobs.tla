-------------------------------- MODULE MCJobs --------------------------------
(***************************************************************************)
(* The scheduler's passes over detail jobs and over notifications, for     *)
(* TLC.  They share no table: each behaviour is one of a part's, the other *)
(* waits in an initial state.                                              *)
(***************************************************************************)
EXTENDS RaceDetails, Notifications

CONSTANTS m1, m2, w1, w2, a1, a2, r1, r2

VARIABLE part

Parts == {"race", "notices"}
jobVars == <<raceVars, noticeVars, part>>

Init ==
    /\ part \in Parts
    /\ RaceInit
    /\ NoticeInit /\ (part # "notices" => eligible = {})

Next ==
    /\ UNCHANGED part
    /\ \/ part = "race" /\ RaceNext /\ UNCHANGED noticeVars
       \/ part = "notices" /\ NoticeNext /\ UNCHANGED raceVars

\* RaceFairness and NoticeFairness, each in its own behaviours.
Fairness ==
    /\ \A w \in Workers : WF_raceVars(part = "race" /\ PassSteps(w))
    /\ SF_raceVars(part = "race" /\ \E w \in Workers : ClaimsJobs(w))
    /\ \A j \in JobIds : WF_raceVars(part = "race" /\ JobAges(j))
    /\ WF_noticeVars(part = "notices" /\ \E r \in Runners : PassBegins(r))
    /\ \A r \in Runners : WF_noticeVars(part = "notices" /\ RunnerSteps(r))

Passes == Init /\ [][Next]_jobVars /\ Fairness

-----------------------------------------------------------------------------
(* Bounds                                                                   *)

\* Two passes over the jobs with a fault, or a pass and a refresh about one
\* meeting without.
RaceBounded ==
    \/ /\ \A j \in JobIds : jobs[j].status # "none" => j = 1 /\ jobs[j].meeting = m1
       /\ \A w \in Workers : m2 \notin pass[w].todo
       /\ pass[w1].kind = "jobs" /\ (pass[w2].kind = "refresh" \/ pass[w2] = NoPass)
       /\ faults = 0
    \/ /\ \A w \in Workers : pass[w].kind = "jobs"
       /\ \A m \in Meetings : detail[m] = NoRow
       /\ dayOver = {}

\* Two Admins, two runners and one generation, or one of each and two.
NoticeBounded ==
    \/ latest.id <= 1
    \/ /\ a2 \notin eligible /\ runner[r2] = NoRunner /\ a2 \notin runner[r1].recipients
       /\ \A g \in Generations : events[<<a2, g>>] = "none"

Bounded ==
    /\ part = "race" => RaceBounded
    /\ part = "notices" => NoticeBounded

=============================================================================
