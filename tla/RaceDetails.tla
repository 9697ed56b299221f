----------------------------- MODULE RaceDetails -----------------------------
(***************************************************************************)
(* Love Racing meeting details: the job queue of app/database.py, the      *)
(* passes of app/planning_calendar.py that fetch pages and merge them, and *)
(* the Admin refresh that merges outside the queue.  The scheduler's pass  *)
(* and the Admin's background passes overlap.  One race's start stands for *)
(* a meeting's races: the merge treats each of them alike.                 *)
(***************************************************************************)
EXTENDS FiniteSets, Naturals

CONSTANTS
    Meetings, Workers, JobIds,
    Times,       \* start times a page may show
    ClaimLimit,  \* jobs claimed by one pass
    MaxFaults    \* bound: exceptions out of a pass, restarts

ASSUME RaceAssumption ==
    /\ ClaimLimit \in Nat \ {0} /\ MaxFaults \in Nat
    /\ "none" \notin Times /\ Meetings # {} /\ Meetings \cap JobIds = {}

VARIABLES
    detail,   \* love_racing_meeting_details
    dayOver,  \* meetings whose day has passed
    jobs,     \* love_racing_detail_jobs; old: fetching for 30 minutes
    pass,     \* local variables of the passes and refreshes
    faults    \* faults so far

raceVars == <<detail, dayOver, jobs, pass, faults>>

\* A parsed page: complete once every race has its start.
Pages == {[life |-> "open", time |-> t] : t \in Times \cup {"none"}}
         \cup {[life |-> "complete", time |-> t] : t \in Times}

AMeeting == CHOOSE m \in Meetings : TRUE
NoRow == [life |-> "open", time |-> "none"]
NoJobRow == [meeting |-> AMeeting, status |-> "none", old |-> FALSE]
NoPass == [pc |-> "idle", kind |-> "jobs", todo |-> {}, at |-> AMeeting,
           row |-> NoRow, over |-> FALSE, outcome |-> "completed"]

Live(j) == jobs[j].status \in {"queued", "fetching"}

RaceInit ==
    /\ detail = [m \in Meetings |-> [life |-> "open", time |-> "none"]]
    /\ dayOver = {}
    /\ jobs = [j \in JobIds |-> NoJobRow]
    /\ pass = [w \in Workers |-> NoPass]
    /\ faults = 0

\* The meeting a pass is about when it handles x, a job or (refresh) a meeting.
MeetingOf(w, x) == IF pass[w].kind = "jobs" THEN jobs[x].meeting ELSE x

-----------------------------------------------------------------------------
(* The queue                                                                *)

\* queue_love_racing_detail_job, when programme_refresh_due (a matter of dates,
\* failures and backoff) or an Admin says so; the unique index on live jobs
\* makes one of two at a time fail.  A row nobody refers to any more is used
\* again for the new job.
QueuesJob(m) ==
    /\ ~\E j \in JobIds : Live(j) /\ jobs[j].meeting = m
    /\ \E j \in JobIds :
          /\ ~Live(j) /\ \A w \in Workers : j \notin pass[w].todo
          /\ jobs' = [jobs EXCEPT ![j] = [meeting |-> m, status |-> "queued", old |-> FALSE]]
    /\ UNCHANGED <<detail, dayOver, pass, faults>>

\* Mutant of Stale: nothing is queued again.
NothingStale == {}

\* Jobs whose pass is thought to be dead, after 30 minutes.
Stale == {j \in JobIds : jobs[j].status = "fetching" /\ jobs[j].old}

\* claim_love_racing_detail_jobs in one transaction.
ClaimsJobs(w) ==
    LET queued == {j \in JobIds : jobs[j].status = "queued"} \cup Stale
    IN
    /\ pass[w].pc = "idle" /\ queued # {}
    /\ \E claimed \in SUBSET queued :
          /\ claimed # {} /\ Cardinality(claimed) <= ClaimLimit
          /\ Cardinality(claimed) < ClaimLimit => claimed = queued
          /\ jobs' = [j \in JobIds |->
                IF j \in claimed THEN [jobs[j] EXCEPT !.status = "fetching", !.old = FALSE]
                ELSE IF j \in Stale THEN [jobs[j] EXCEPT !.status = "queued", !.old = FALSE]
                ELSE jobs[j]]
          /\ pass' = [pass EXCEPT ![w] = [NoPass EXCEPT !.pc = "work", !.todo = claimed]]
    /\ UNCHANGED <<detail, dayOver, faults>>

\* refresh_unresolved_race_days: its checked_at is taken before the capture.
RefreshBegins(w) ==
    /\ pass[w].pc = "idle"
    /\ \E m \in Meetings :
          pass' = [pass EXCEPT ![w] =
              [NoPass EXCEPT !.pc = "work", !.kind = "refresh", !.todo = {m}, !.over = m \in dayOver]]
    /\ UNCHANGED <<detail, dayOver, jobs, faults>>

-----------------------------------------------------------------------------
(* The page of one meeting                                                  *)

\* w is through with x.
Done(w, x) ==
    IF pass[w].todo = {x} THEN NoPass
    ELSE [NoPass EXCEPT !.pc = "work", !.todo = pass[w].todo \ {x}]

\* The page could not be had: mark_love_racing_detail_fetch_failed counts it and
\* the programme stays; the refresh only reports it.
PageFails(w) ==
    /\ pass[w].pc = "work"
    /\ \E x \in pass[w].todo :
          pass' = IF pass[w].kind = "jobs"
                  THEN [pass EXCEPT ![w].pc = "finish", ![w].at = x, ![w].outcome = "failed"]
                  ELSE [pass EXCEPT ![w] = Done(w, x)]
    /\ UNCHANGED <<detail, dayOver, jobs, faults>>

\* merge_love_racing_programme reads the row; nothing keeps others from it until
\* the update.
MergeReads(w) ==
    /\ pass[w].pc = "work"
    /\ \E x \in pass[w].todo :
          LET m == MeetingOf(w, x) IN
          pass' = [pass EXCEPT ![w].pc = "merge", ![w].at = x,
                      ![w].row = detail[m],
                      ![w].over = IF pass[w].kind = "jobs" THEN m \in dayOver ELSE @]
    /\ UNCHANGED <<detail, dayOver, jobs, faults>>

Settled(life) == life \in {"complete", "historical"}

\* Mutant of Merged: the page's start is taken, blank or not.
MergedBlank(row, page, over) ==
    LET revision == page.life = "complete" /\ row.life # "historical"
        preserve == row.life = "historical" \/ (row.life = "complete" /\ ~revision)
    IN [life |-> IF over THEN "historical"
                 ELSE IF Settled(row.life) /\ page.life # "complete" THEN row.life
                 ELSE page.life,
        time |-> IF preserve /\ row.time # "none" THEN row.time ELSE page.time]

\* What the merge makes of a row and a page, looked at before or after the day.
Merged(row, page, over) ==
    LET revision == page.life = "complete" /\ row.life # "historical"
        preserve == row.life = "historical" \/ (row.life = "complete" /\ ~revision)
    IN [life |-> IF over THEN "historical"
                 ELSE IF Settled(row.life) /\ page.life # "complete" THEN row.life
                 ELSE page.life,
        time |-> IF page.time = "none" \/ (preserve /\ row.time # "none") THEN row.time ELSE page.time]

\* Only now does it matter what the page said.
MergeWrites(w) ==
    LET x == pass[w].at IN
    /\ pass[w].pc = "merge"
    /\ \E page \in Pages :
          detail' = [detail EXCEPT ![MeetingOf(w, x)] = Merged(pass[w].row, page, pass[w].over)]
    /\ pass' = IF pass[w].kind = "jobs"
               THEN [pass EXCEPT ![w] = [NoPass EXCEPT !.pc = "finish", !.todo = pass[w].todo, !.at = x]]
               ELSE [pass EXCEPT ![w] = Done(w, x)]
    /\ UNCHANGED <<dayOver, jobs, faults>>

\* finish_love_racing_detail_job, whoever holds the job by now.
JobFinishes(w) ==
    LET j == pass[w].at IN
    /\ pass[w].pc = "finish"
    /\ jobs' = [jobs EXCEPT ![j].status = pass[w].outcome, ![j].old = FALSE]
    /\ pass' = [pass EXCEPT ![w] = Done(w, j)]
    /\ UNCHANGED <<detail, dayOver, faults>>

-----------------------------------------------------------------------------
(* Faults and time                                                          *)

\* An exception ends the pass; the jobs it has not finished stay "fetching".
PassRaises(w) ==
    /\ pass[w].pc # "idle" /\ faults < MaxFaults
    /\ pass' = [pass EXCEPT ![w] = NoPass] /\ faults' = faults + 1
    /\ UNCHANGED <<detail, dayOver, jobs>>

RaceProcessStops ==
    /\ \E w \in Workers : pass[w].pc # "idle"
    /\ faults < MaxFaults
    /\ pass' = [w \in Workers |-> NoPass] /\ faults' = faults + 1
    /\ UNCHANGED <<detail, dayOver, jobs>>

\* 30 minutes since the claim, whether its pass is alive or not.
JobAges(j) ==
    /\ jobs[j].status = "fetching" /\ ~jobs[j].old
    /\ jobs' = [jobs EXCEPT ![j].old = TRUE]
    /\ UNCHANGED <<detail, dayOver, pass, faults>>

DayEnds(m) ==
    /\ m \notin dayOver /\ dayOver' = dayOver \cup {m}
    /\ UNCHANGED <<detail, jobs, pass, faults>>

PassSteps(w) == PageFails(w) \/ MergeReads(w) \/ MergeWrites(w) \/ JobFinishes(w)

RaceNext ==
    \/ \E m \in Meetings : QueuesJob(m) \/ DayEnds(m)
    \/ \E w \in Workers : ClaimsJobs(w) \/ RefreshBegins(w) \/ PassSteps(w) \/ PassRaises(w)
    \/ \E j \in JobIds : JobAges(j)
    \/ RaceProcessStops

\* A pass that runs goes on, the scheduler starts one every 15 minutes, and 30
\* minutes pass.
RaceFairness ==
    /\ \A w \in Workers : WF_raceVars(PassSteps(w))
    /\ SF_raceVars(\E w \in Workers : ClaimsJobs(w))
    /\ \A j \in JobIds : WF_raceVars(JobAges(j))

RaceSpec == RaceInit /\ [][RaceNext]_raceVars /\ RaceFairness

-----------------------------------------------------------------------------
(* Properties                                                               *)

RaceTypeOK ==
    /\ detail \in [Meetings -> [life : {"open", "complete", "historical"},
                                time : Times \cup {"none"}]]
    /\ dayOver \subseteq Meetings
    /\ jobs \in [JobIds -> [meeting : Meetings, old : BOOLEAN,
                            status : {"none", "queued", "fetching", "completed", "failed"}]]
    /\ pass \in [Workers ->
          [pc : {"idle", "work", "merge", "finish"}, kind : {"jobs", "refresh"},
           todo : SUBSET (JobIds \cup Meetings), at : JobIds \cup Meetings, over : BOOLEAN,
           row : [life : {"open", "complete", "historical"}, time : Times \cup {"none"}],
           outcome : {"completed", "failed"}]]
    /\ faults \in 0..MaxFaults

\* The merge forgets a start it knew, replaces one of a meeting that is history,
\* or falls back to an unsettled programme.
Forgets(m) ==
    \/ detail[m].time # "none" /\ detail'[m].time = "none"
    \/ detail[m].life = "historical" /\ detail[m].time # "none" /\ detail'[m].time # detail[m].time
    \/ Settled(detail[m].life) /\ ~Settled(detail'[m].life)

\* w writes what it made of a row that has changed since.
StaleMerge(w, m) ==
    /\ pass[w].pc = "merge" /\ MeetingOf(w, pass[w].at) = m
    /\ pass[w].row # detail[m]

\* Pages come in any order, some without what earlier ones had: confirmed
\* programme data is only ever lost to a merge whose row was changed by another
\* one between its read and its update.
ProgrammeKept ==
    [][\A m \in Meetings : Forgets(m) => \E w \in Workers : StaleMerge(w, m)]_raceVars

\* A job comes to an end, whatever pass was lost with it: what an exception or a
\* restart leaves "fetching" is queued again and claimed.
JobsEnd == \A j \in JobIds : Live(j) ~> ~Live(j)

=============================================================================
