------------------------------ MODULE JobsProofs ------------------------------
(***************************************************************************)
(* Proofs about the scheduler's two kinds of passes, for any number of     *)
(* jobs, devices, overlapping passes and faults.  RaceDetails: its types,  *)
(* and that confirmed programme data is lost only to a merge of a row that *)
(* has changed.  Notifications: its safety properties, for any findings,   *)
(* Admins, generations and restarts.                                       *)
(***************************************************************************)
EXTENDS RaceDetails, Notifications, TLAPS

-----------------------------------------------------------------------------
(* RaceDetails: the passes over detail jobs                                 *)

Rows == [life : {"open", "complete", "historical"}, time : Times \cup {"none"}]

PassState ==
    [pc : {"idle", "work", "merge", "finish"}, kind : {"jobs", "refresh"},
     todo : SUBSET (JobIds \cup Meetings), at : JobIds \cup Meetings, over : BOOLEAN, row : Rows,
     outcome : {"completed", "failed"}]

\* A pass over jobs has jobs to do; a refresh has one meeting.
Busy(p) ==
    /\ p.pc \in {"merge", "finish"} => p.at \in p.todo
    /\ p.pc = "finish" => p.kind = "jobs"
    /\ p.kind = "jobs" => p.todo \subseteq JobIds
    /\ p.kind = "refresh" => p.todo \subseteq Meetings /\ \A x, y \in p.todo : x = y

RaceInv == RaceTypeOK /\ \A w \in Workers : Busy(pass[w])

-----------------------------------------------------------------------------
(* Rows and passes                                                          *)

LEMMA MergedRow ==
    ASSUME NEW row \in Rows, NEW page \in Pages, NEW over \in BOOLEAN
    PROVE  Merged(row, page, over) \in Rows
BY DEF Merged, Rows, Pages

\* What a merge keeps of the row it has read.
LEMMA MergeKeeps ==
    ASSUME NEW row \in Rows, NEW page \in Pages, NEW over \in BOOLEAN
    PROVE  LET new == Merged(row, page, over) IN
           /\ row.time # "none" => new.time # "none"
           /\ row.life = "historical" /\ row.time # "none" => new.time = row.time
           /\ Settled(row.life) => Settled(new.life)
BY DEF Merged, Rows, Pages, Settled

LEMMA NoPassOK == NoPass \in PassState /\ Busy(NoPass) /\ NoPass.pc = "idle" /\ NoPass.todo = {}
BY RaceAssumption DEF NoPass, AMeeting, NoRow, PassState, Rows, Busy

LEMMA PassTyped ==
    ASSUME RaceInv, NEW w \in Workers
    PROVE  pass[w] \in PassState /\ Busy(pass[w])
BY DEF RaceInv, RaceTypeOK, PassState, Rows

\* A step that changes one pass at most, and types of the rest.
LEMMA RacePassStep ==
    ASSUME RaceInv, NEW w \in Workers, NEW p \in PassState, Busy(p),
           pass' = [pass EXCEPT ![w] = p],
           detail' \in [Meetings -> Rows], dayOver' \subseteq Meetings, faults' \in 0..MaxFaults,
           jobs' \in [JobIds -> [meeting : Meetings, old : BOOLEAN,
                                 status : {"none", "queued", "fetching", "completed", "failed"}]]
    PROVE  RaceInv'
BY DEF RaceInv, RaceTypeOK, PassState, Rows

LEMMA DoneOK ==
    ASSUME RaceInv, NEW w \in Workers, NEW x \in pass[w].todo
    PROVE  Done(w, x) \in PassState /\ Busy(Done(w, x))
<1>1. pass[w] \in PassState /\ Busy(pass[w])
  BY PassTyped
<1>2. CASE pass[w].todo = {x}
  BY <1>2, NoPassOK DEF Done
<1>3. CASE pass[w].todo # {x}
  <2>1. pass[w].kind = "jobs"
    BY <1>1, <1>3 DEF Busy, PassState
  <2>2. pass[w].todo \ {x} \subseteq JobIds
    BY <1>1, <2>1 DEF Busy
  <2> QED BY <1>3, <2>2, NoPassOK DEF Done, NoPass, PassState, Busy
<1> QED BY <1>2, <1>3

\* The meeting of what a pass has to do.
LEMMA MeetingOK ==
    ASSUME RaceInv, NEW w \in Workers, NEW x \in pass[w].todo
    PROVE  MeetingOf(w, x) \in Meetings
BY PassTyped DEF RaceInv, RaceTypeOK, MeetingOf, Busy, PassState

LEMMA Unchanged ==
    ASSUME RaceInv
    PROVE  /\ UNCHANGED detail => detail' \in [Meetings -> Rows]
           /\ UNCHANGED dayOver => dayOver' \subseteq Meetings
           /\ UNCHANGED faults => faults' \in 0..MaxFaults
           /\ UNCHANGED jobs =>
                jobs' \in [JobIds -> [meeting : Meetings, old : BOOLEAN,
                                      status : {"none", "queued", "fetching", "completed", "failed"}]]
BY DEF RaceInv, RaceTypeOK, Rows

-----------------------------------------------------------------------------
(* The actions                                                              *)

LEMMA ClaimsInv == ASSUME RaceInv, NEW w \in Workers, ClaimsJobs(w) PROVE RaceInv'
<1>1. PICK claimed \in SUBSET JobIds :
        /\ jobs' = [j \in JobIds |->
              IF j \in claimed THEN [jobs[j] EXCEPT !.status = "fetching", !.old = FALSE]
              ELSE IF j \in Stale THEN [jobs[j] EXCEPT !.status = "queued", !.old = FALSE]
              ELSE jobs[j]]
        /\ pass' = [pass EXCEPT ![w] = [NoPass EXCEPT !.pc = "work", !.todo = claimed]]
  BY DEF ClaimsJobs, Stale
<1>2. jobs' \in [JobIds -> [meeting : Meetings, old : BOOLEAN,
                            status : {"none", "queued", "fetching", "completed", "failed"}]]
  <2>1. \A j \in JobIds :
          jobs[j] \in [meeting : Meetings, old : BOOLEAN,
                       status : {"none", "queued", "fetching", "completed", "failed"}]
    BY DEF RaceInv, RaceTypeOK
  <2>2. \A j \in JobIds :
          /\ [jobs[j] EXCEPT !.status = "fetching", !.old = FALSE] \in
               [meeting : Meetings, old : BOOLEAN,
                status : {"none", "queued", "fetching", "completed", "failed"}]
          /\ [jobs[j] EXCEPT !.status = "queued", !.old = FALSE] \in
               [meeting : Meetings, old : BOOLEAN,
                status : {"none", "queued", "fetching", "completed", "failed"}]
    BY <2>1
  <2> HIDE DEF Stale
  <2> QED BY <1>1, <2>1, <2>2
<1> DEFINE p == [NoPass EXCEPT !.pc = "work", !.todo = claimed]
<1>3. p \in PassState /\ Busy(p)
  BY NoPassOK DEF NoPass, PassState, Busy
<1> QED BY <1>1, <1>2, <1>3, RacePassStep, Unchanged DEF ClaimsJobs

LEMMA RefreshInv == ASSUME RaceInv, NEW w \in Workers, RefreshBegins(w) PROVE RaceInv'
<1>1. PICK m \in Meetings, over \in BOOLEAN :
        pass' = [pass EXCEPT ![w] =
            [NoPass EXCEPT !.pc = "work", !.kind = "refresh", !.todo = {m}, !.over = over]]
  <2>1. PICK m \in Meetings :
          pass' = [pass EXCEPT ![w] =
              [NoPass EXCEPT !.pc = "work", !.kind = "refresh", !.todo = {m}, !.over = m \in dayOver]]
    BY DEF RefreshBegins
  <2> DEFINE over == m \in dayOver
  <2>2. over \in BOOLEAN
    OBVIOUS
  <2>3. pass' = [pass EXCEPT ![w] =
            [NoPass EXCEPT !.pc = "work", !.kind = "refresh", !.todo = {m}, !.over = over]]
    BY <2>1
  <2> HIDE DEF over
  <2> QED BY <2>2, <2>3
<1> DEFINE p == [NoPass EXCEPT !.pc = "work", !.kind = "refresh", !.todo = {m}, !.over = over]
<1>2. p \in PassState /\ Busy(p)
  BY NoPassOK DEF NoPass, PassState, Busy
<1> QED BY <1>1, <1>2, RacePassStep, Unchanged DEF RefreshBegins

LEMMA FailsInv == ASSUME RaceInv, NEW w \in Workers, PageFails(w) PROVE RaceInv'
<1>1. PICK x \in pass[w].todo :
        pass' = IF pass[w].kind = "jobs"
                THEN [pass EXCEPT ![w].pc = "finish", ![w].at = x, ![w].outcome = "failed"]
                ELSE [pass EXCEPT ![w] = Done(w, x)]
  BY DEF PageFails
<1>2. CASE pass[w].kind = "jobs"
  <2> DEFINE p == [pass[w] EXCEPT !.pc = "finish", !.at = x, !.outcome = "failed"]
  <2>1. p \in PassState /\ Busy(p)
    BY <1>2, PassTyped DEF PassState, Busy
  <2>2. pass' = [pass EXCEPT ![w] = p]
    BY <1>1, <1>2 DEF RaceInv, RaceTypeOK
  <2> QED BY <2>1, <2>2, RacePassStep, Unchanged DEF PageFails
<1>3. CASE pass[w].kind # "jobs"
  <2>1. pass' = [pass EXCEPT ![w] = Done(w, x)]
    BY <1>1, <1>3
  <2> QED BY <2>1, DoneOK, RacePassStep, Unchanged DEF PageFails
<1> QED BY <1>2, <1>3

LEMMA ReadsInv == ASSUME RaceInv, NEW w \in Workers, MergeReads(w) PROVE RaceInv'
<1>1. PICK x \in pass[w].todo, over \in BOOLEAN :
        pass' = [pass EXCEPT ![w].pc = "merge", ![w].at = x, ![w].row = detail[MeetingOf(w, x)],
                    ![w].over = over]
  <2>1. pass[w] \in PassState
    BY PassTyped
  <2>2. PICK x \in pass[w].todo :
          pass' = [pass EXCEPT ![w].pc = "merge", ![w].at = x, ![w].row = detail[MeetingOf(w, x)],
                      ![w].over = IF pass[w].kind = "jobs" THEN MeetingOf(w, x) \in dayOver ELSE @]
    BY DEF MergeReads
  <2> DEFINE over == IF pass[w].kind = "jobs" THEN MeetingOf(w, x) \in dayOver ELSE pass[w].over
  <2>3. over \in BOOLEAN
    <3>1. pass[w].over \in BOOLEAN
      BY <2>1 DEF PassState
    <3>2. (MeetingOf(w, x) \in dayOver) \in BOOLEAN
      OBVIOUS
    <3> HIDE DEF MeetingOf
    <3> QED BY <3>1, <3>2, Zenon
  <2>4. pass' = [pass EXCEPT ![w].pc = "merge", ![w].at = x, ![w].row = detail[MeetingOf(w, x)],
                    ![w].over = over]
    BY <2>2 DEF RaceInv, RaceTypeOK
  <2> QED BY <2>3, <2>4
<1> DEFINE p == [pass[w] EXCEPT !.pc = "merge", !.at = x, !.row = detail[MeetingOf(w, x)], !.over = over]
<1>2. pass[w] \in PassState /\ Busy(pass[w]) /\ detail[MeetingOf(w, x)] \in Rows
  BY PassTyped, MeetingOK DEF RaceInv, RaceTypeOK, Rows
<1>3. p \in PassState /\ Busy(p)
  BY <1>2 DEF PassState, Busy
<1>4. pass' = [pass EXCEPT ![w] = p]
  BY <1>1 DEF RaceInv, RaceTypeOK
<1> QED BY <1>3, <1>4, RacePassStep, Unchanged DEF MergeReads

LEMMA WritesInv == ASSUME RaceInv, NEW w \in Workers, MergeWrites(w) PROVE RaceInv'
<1> DEFINE x == pass[w].at
<1>1. x \in pass[w].todo /\ pass[w] \in PassState /\ Busy(pass[w])
  BY PassTyped DEF MergeWrites, Busy
<1>2. PICK page \in Pages :
        detail' = [detail EXCEPT ![MeetingOf(w, x)] = Merged(pass[w].row, page, pass[w].over)]
  BY DEF MergeWrites
<1>3. detail' \in [Meetings -> Rows]
  <2>1. Merged(pass[w].row, page, pass[w].over) \in Rows
    BY <1>1, MergedRow DEF PassState
  <2> QED BY <1>2, <2>1 DEF RaceInv, RaceTypeOK, Rows
<1>4. CASE pass[w].kind = "jobs"
  <2> DEFINE p == [NoPass EXCEPT !.pc = "finish", !.todo = pass[w].todo, !.at = x]
  <2>1. p \in PassState /\ Busy(p)
    BY <1>1, <1>4, NoPassOK DEF NoPass, PassState, Busy
  <2>2. pass' = [pass EXCEPT ![w] = p]
    BY <1>4 DEF MergeWrites
  <2> QED BY <1>3, <2>1, <2>2, RacePassStep, Unchanged DEF MergeWrites
<1>5. CASE pass[w].kind # "jobs"
  <2>1. pass' = [pass EXCEPT ![w] = Done(w, x)]
    BY <1>5 DEF MergeWrites
  <2> QED BY <1>1, <1>3, <2>1, DoneOK, RacePassStep, Unchanged DEF MergeWrites
<1> QED BY <1>4, <1>5

LEMMA FinishInv == ASSUME RaceInv, NEW w \in Workers, JobFinishes(w) PROVE RaceInv'
<1> DEFINE j == pass[w].at
<1>1. j \in pass[w].todo /\ j \in JobIds /\ pass[w].outcome \in {"completed", "failed"}
  BY PassTyped DEF JobFinishes, Busy, PassState
<1>2. jobs' \in [JobIds -> [meeting : Meetings, old : BOOLEAN,
                            status : {"none", "queued", "fetching", "completed", "failed"}]]
  BY <1>1 DEF JobFinishes, RaceInv, RaceTypeOK
<1> QED BY <1>1, <1>2, DoneOK, RacePassStep, Unchanged DEF JobFinishes

LEMMA RaisesInv == ASSUME RaceInv, NEW w \in Workers, PassRaises(w) PROVE RaceInv'
<1>1. faults' \in 0..MaxFaults
  BY RaceAssumption DEF PassRaises, RaceInv, RaceTypeOK
<1> QED BY <1>1, NoPassOK, RacePassStep, Unchanged DEF PassRaises

LEMMA RaceStopsInv == RaceInv /\ RaceProcessStops => RaceInv'
<1> SUFFICES ASSUME RaceInv, RaceProcessStops PROVE RaceInv'
  OBVIOUS
<1>1. faults' \in 0..MaxFaults
  BY RaceAssumption DEF RaceProcessStops, RaceInv, RaceTypeOK
<1>2. pass' \in [Workers -> PassState] /\ \A w \in Workers : Busy(pass'[w])
  BY NoPassOK DEF RaceProcessStops
<1> QED BY <1>1, <1>2 DEF RaceProcessStops, RaceInv, RaceTypeOK, PassState, Rows

LEMMA QueuesJobInv == ASSUME RaceInv, NEW m \in Meetings, QueuesJob(m) PROVE RaceInv'
BY DEF QueuesJob, RaceInv, RaceTypeOK

LEMMA TimeInv ==
    ASSUME RaceInv, (\E m \in Meetings : DayEnds(m)) \/ (\E j \in JobIds : JobAges(j))
    PROVE  RaceInv'
<1>1. CASE \E m \in Meetings : DayEnds(m)
  BY <1>1 DEF DayEnds, RaceInv, RaceTypeOK
<1>2. CASE \E j \in JobIds : JobAges(j)
  <2>1. PICK j \in JobIds : JobAges(j)
    BY <1>2
  <2>2. jobs' \in [JobIds -> [meeting : Meetings, old : BOOLEAN,
                              status : {"none", "queued", "fetching", "completed", "failed"}]]
    <3>1. [jobs[j] EXCEPT !.old = TRUE] \in
            [meeting : Meetings, old : BOOLEAN,
             status : {"none", "queued", "fetching", "completed", "failed"}]
      <4>1. jobs[j] \in [meeting : Meetings, old : BOOLEAN,
                         status : {"none", "queued", "fetching", "completed", "failed"}]
        BY DEF RaceInv, RaceTypeOK
      <4> DEFINE job == jobs[j]
      <4> HIDE DEF job
      <4>2. job \in [meeting : Meetings, old : BOOLEAN,
                     status : {"none", "queued", "fetching", "completed", "failed"}]
        BY <4>1 DEF job
      <4>3. [job EXCEPT !.old = TRUE] \in
              [meeting : Meetings, old : BOOLEAN,
               status : {"none", "queued", "fetching", "completed", "failed"}]
        BY <4>2
      <4> QED BY <4>3 DEF job
    <3>2. jobs' = [jobs EXCEPT ![j] = [jobs[j] EXCEPT !.old = TRUE]]
      BY <2>1 DEF JobAges, RaceInv, RaceTypeOK
    <3> QED BY <3>1, <3>2 DEF RaceInv, RaceTypeOK
  <2> QED BY <2>1, <2>2 DEF JobAges, RaceInv, RaceTypeOK
<1> QED BY <1>1, <1>2

-----------------------------------------------------------------------------
(* The theorems                                                             *)

LEMMA RaceInitInv == RaceInit => RaceInv
BY NoPassOK, RaceAssumption DEF RaceInit, RaceInv, RaceTypeOK, NoJobRow, AMeeting, PassState, Rows

LEMMA RaceNextInv == RaceInv /\ [RaceNext]_raceVars => RaceInv'
<1> SUFFICES ASSUME RaceInv, [RaceNext]_raceVars PROVE RaceInv'
  OBVIOUS
<1>1. CASE UNCHANGED raceVars
  BY <1>1 DEF raceVars, RaceInv, RaceTypeOK
<1> QED
  BY <1>1, ClaimsInv, RefreshInv, FailsInv, ReadsInv, WritesInv, FinishInv, RaisesInv, RaceStopsInv,
     QueuesJobInv, TimeInv DEF RaceNext, PassSteps

\* The types hold with the passes' own bookkeeping, an inductive invariant.
THEOREM RaceInvariant == RaceSpec => []RaceInv
BY RaceInitInv, RaceNextInv, PTL DEF RaceSpec

\* The variables keep their types.
THEOREM RaceTypes == RaceSpec => []RaceTypeOK
<1>1. RaceInv => RaceTypeOK
  BY DEF RaceInv
<1> QED BY <1>1, RaceInvariant, PTL

LEMMA KeepsProgramme ==
    ASSUME RaceInv, [RaceNext]_raceVars, NEW m \in Meetings, Forgets(m)
    PROVE  \E w \in Workers : StaleMerge(w, m)
<1>1. detail' # detail
  BY DEF Forgets
<1>2. PICK w \in Workers : MergeWrites(w)
  BY <1>1 DEF RaceNext, raceVars, QueuesJob, DayEnds, ClaimsJobs, RefreshBegins, PassSteps, PageFails,
     MergeReads, JobFinishes, PassRaises, JobAges, RaceProcessStops
<1> DEFINE x == pass[w].at
<1>3. PICK page \in Pages :
        detail' = [detail EXCEPT ![MeetingOf(w, x)] = Merged(pass[w].row, page, pass[w].over)]
  BY <1>2 DEF MergeWrites
<1>4. pass[w] \in PassState /\ detail \in [Meetings -> Rows]
  BY PassTyped DEF RaceInv, RaceTypeOK, Rows
<1>5. MeetingOf(w, x) = m
  BY <1>3, <1>4 DEF Forgets
<1>6. detail'[m] = Merged(pass[w].row, page, pass[w].over)
  BY <1>3, <1>4, <1>5
<1>7. pass[w].row # detail[m]
  <2> SUFFICES ASSUME pass[w].row = detail[m] PROVE FALSE
    OBVIOUS
  <2>1. detail[m] \in Rows /\ pass[w].over \in BOOLEAN
    BY <1>4 DEF PassState
  <2> QED BY <1>6, <2>1, MergeKeeps DEF Forgets
<1> QED BY <1>2, <1>5, <1>7 DEF StaleMerge, MergeWrites

\* Confirmed programme data is only lost to a merge whose row was changed
\* between its read and its update.
THEOREM ProgrammeIsKept == RaceSpec => ProgrammeKept
<1>1. RaceInv /\ [RaceNext]_raceVars =>
        [\A m \in Meetings : Forgets(m) => \E w \in Workers : StaleMerge(w, m)]_raceVars
  BY KeepsProgramme
<1> QED BY <1>1, RaceInvariant, PTL DEF RaceSpec, ProgrammeKept

-----------------------------------------------------------------------------
(* Notifications: AllSound says what a pass's own variables mean while       *)
(* generations and Admins change around it.                                 *)

RunnerState ==
    [pc : {"idle", "read", "boundary", "queue", "select", "event", "push"},
     settledId : 0..MaxGenerations, recipients : SUBSET Admins, admins : SUBSET Admins,
     rows : SUBSET Findings, ready : BOOLEAN, alert : BOOLEAN, generation : 0..MaxGenerations,
     queue : SUBSET AllEvents, event : AllEvents \cup {<<>>}, devices : SUBSET Devices,
     delivered : 0..1]

\* run_notification_pass holds its lock.
OneRunner == \A r, s \in Runners : r # s => runner[r].pc = "idle" \/ runner[s].pc = "idle"

\* Between generations nothing new is found.
Boundary ==
    /\ syncing => latest.id < MaxGenerations
    /\ latest.status = "complete" => latest.id > 0
    /\ (~syncing /\ latest.id > 0) => findings \subseteq final[latest.id]

\* What a pass x has read is what its generation left, if it is ready for it.
Informed(x) ==
    /\ x.settledId <= latest.id
    /\ (x.pc = "boundary" /\ ~syncing /\ latest.id = x.settledId /\ latest.id > 0) =>
          x.rows \subseteq final[latest.id]
    /\ x.ready => x.pc = "queue" /\ x.generation \in 1..latest.id /\ x.rows \subseteq final[x.generation]
    /\ x.alert => x.ready

\* What it has queued and has still to deliver, for baseline bl and events ev.
Orderly(x, bl, ev) ==
    /\ (x.pc = "queue" /\ x.ready /\ ~x.alert) => x.rows \subseteq bl
    /\ x.pc = "boundary" => x.recipients = x.admins
    /\ x.alert => \A a \in x.recipients \ x.admins : ev[<<a, x.generation>>] # "none"
    /\ x.pc \in {"event", "push"} => \A e \in x.queue : ev[e] = "queued"
    /\ x.pc = "push" => x.event \in AllEvents /\ ev[x.event] = "queued" /\ x.event \notin x.queue

\* x has been through with device d for event e.
Through(x, e, d) == x.pc = "push" /\ x.event = e /\ d \notin x.devices

Counted(e, d) ==
    /\ events[e] = "none" => pushes[e][d] = 0
    /\ events[e] = "queued" =>
         \/ pushes[e][d] <= restarts
         \/ pushes[e][d] <= 1 + restarts /\ \E r \in Runners : Through(runner[r], e, d)
    /\ pushes[e][d] <= 1 + restarts

AllSound == \A r \in Runners : Informed(runner[r]) /\ Orderly(runner[r], baseline, events)
AllCounted == \A e \in AllEvents, d \in Devices : Counted(e, d)

NoticeInv == NoticeTypeOK /\ OneRunner /\ Boundary /\ AllSound /\ AllCounted

-----------------------------------------------------------------------------
(* Steps around the passes                                                  *)

LEMMA RunnerTyped ==
    ASSUME NoticeInv, NEW r \in Runners
    PROVE  runner[r] \in RunnerState /\ Informed(runner[r]) /\ Orderly(runner[r], baseline, events)
BY DEF NoticeInv, NoticeTypeOK, RunnerState, AllSound

\* Steps that leave the passes, the events and the pushes alone.
LEMMA Outside ==
    ASSUME NoticeInv, UNCHANGED <<baseline, events, pushes, runner, restarts>>, NoticeTypeOK', Boundary',
           \A r \in Runners : Informed(runner[r])'
    PROVE  NoticeInv'
<1>1. OneRunner'
  BY DEF NoticeInv, OneRunner
<1>2. AllSound'
  BY DEF NoticeInv, AllSound, Orderly
<1>3. AllCounted'
  BY DEF NoticeInv, AllCounted, Counted, Through
<1> QED BY <1>1, <1>2, <1>3 DEF NoticeInv

LEMMA SyncInv ==
    ASSUME NoticeInv, SyncStarts \/ SyncWrites \/ SyncEnds
    PROVE  NoticeInv'
<1>1. CASE SyncStarts
  <2>1. NoticeTypeOK' /\ Boundary'
    BY <1>1 DEF SyncStarts, NoticeInv, NoticeTypeOK, Boundary
  <2>2. \A r \in Runners : Informed(runner[r])'
    BY <1>1, RunnerTyped DEF SyncStarts, Informed
  <2> QED BY <1>1, <2>1, <2>2, Outside DEF SyncStarts
<1>2. CASE SyncWrites
  <2>1. NoticeTypeOK' /\ Boundary'
    BY <1>2 DEF SyncWrites, NoticeInv, NoticeTypeOK, Boundary
  <2>2. \A r \in Runners : Informed(runner[r])'
    BY <1>2, RunnerTyped DEF SyncWrites, Informed
  <2> QED BY <1>2, <2>1, <2>2, Outside DEF SyncWrites
<1>3. CASE SyncEnds
  <2>1. PICK s \in {"complete", "error"} : latest' = [id |-> latest.id + 1, status |-> s]
    BY <1>3 DEF SyncEnds
  <2>2. latest.id \in 0..MaxGenerations /\ latest'.id = latest.id + 1
    BY <2>1 DEF NoticeInv, NoticeTypeOK
  <2>3. latest.id < MaxGenerations
    BY <1>3 DEF SyncEnds, NoticeInv, Boundary
  <2>4. latest' \in [id : 0..MaxGenerations, status : {"none", "complete", "error"}]
    BY <2>1, <2>2, <2>3, NotificationsAssumption
  <2>5. final' \in [Generations -> SUBSET Findings]
        /\ final'[latest'.id] = findings /\ \A g \in 1..latest.id : final'[g] = final[g]
    BY <1>3, <2>2, <2>3, NotificationsAssumption DEF SyncEnds, NoticeInv, NoticeTypeOK, Generations
  <2>6. NoticeTypeOK'
    BY <1>3, <2>4, <2>5 DEF SyncEnds, NoticeInv, NoticeTypeOK
  <2>7. Boundary'
    BY <1>3, <2>2, <2>5 DEF SyncEnds, Boundary
  <2>8. \A r \in Runners : Informed(runner[r])'
    BY <1>3, <2>2, <2>5, RunnerTyped DEF SyncEnds, Informed, RunnerState
  <2> QED BY <1>3, <2>6, <2>7, <2>8, Outside DEF SyncEnds
<1> QED BY <1>1, <1>2, <1>3

LEMMA AroundInv ==
    ASSUME NoticeInv,
           SettleTimePasses \/ FindingExpires \/ EligibilityChanges \/ \E d \in Devices : DeviceRegisters(d)
    PROVE  NoticeInv'
<1>1. /\ UNCHANGED <<baseline, events, pushes, runner, restarts, latest, syncing, final>>
      /\ findings' \subseteq findings
  BY DEF SettleTimePasses, FindingExpires, EligibilityChanges, DeviceRegisters
<1>2. NoticeTypeOK'
  BY DEF SettleTimePasses, FindingExpires, EligibilityChanges, DeviceRegisters, NoticeInv, NoticeTypeOK
<1>3. Boundary'
  BY <1>1 DEF NoticeInv, Boundary
<1>4. \A r \in Runners : Informed(runner[r])'
  BY <1>1, RunnerTyped DEF Informed
<1> QED BY <1>1, <1>2, <1>3, <1>4, Outside

-----------------------------------------------------------------------------
(* Steps of a pass                                                          *)

LEMMA IdleOK ==
    /\ NoRunner \in RunnerState /\ NoRunner.pc = "idle" /\ ~NoRunner.ready /\ ~NoRunner.alert
    /\ NoRunner.settledId = 0 /\ NoRunner.queue = {}
    /\ \A pc \in {"select", "event"}, q \in SUBSET AllEvents :
          LET x == [NoRunner EXCEPT !.pc = pc, !.queue = q] IN
          /\ x \in RunnerState /\ x.pc = pc /\ x.queue = q /\ ~x.ready /\ ~x.alert /\ x.settledId = 0
    /\ LET x == [NoRunner EXCEPT !.pc = "select"] IN
       x \in RunnerState /\ x.pc = "select" /\ ~x.ready /\ ~x.alert /\ x.settledId = 0
<1>1. 0 \in 0..MaxGenerations /\ 0 \in 0..1
  BY NotificationsAssumption
<1>2. NoRunner \in RunnerState
  BY <1>1 DEF NoRunner, RunnerState
<1>3. NoRunner.pc = "idle" /\ ~NoRunner.ready /\ ~NoRunner.alert /\ NoRunner.settledId = 0
      /\ NoRunner.queue = {}
  BY DEF NoRunner
<1>4. ASSUME NEW pc \in {"select", "event"}, NEW q \in SUBSET AllEvents
      PROVE  LET x == [NoRunner EXCEPT !.pc = pc, !.queue = q] IN
             /\ x \in RunnerState /\ x.pc = pc /\ x.queue = q /\ ~x.ready /\ ~x.alert /\ x.settledId = 0
  BY <1>2, <1>3 DEF RunnerState
<1>5. LET x == [NoRunner EXCEPT !.pc = "select"] IN
      x \in RunnerState /\ x.pc = "select" /\ ~x.ready /\ ~x.alert /\ x.settledId = 0
  BY <1>2, <1>3 DEF RunnerState
<1> QED BY <1>2, <1>3, <1>4, <1>5

\* A step of the one pass that runs: it becomes x, the others are idle.
LEMMA NoticePassStep ==
    ASSUME NoticeInv, NEW r \in Runners, runner[r].pc # "idle" \/ RunnerLockFree,
           NEW x \in RunnerState, runner' = [runner EXCEPT ![r] = x],
           UNCHANGED <<findings, latest, settled, syncing, final, eligible, restarts>>,
           baseline' \subseteq Findings, subs' \subseteq Devices,
           events' \in [AllEvents -> {"none", "queued", "sent", "failed"}],
           pushes' \in [AllEvents -> [Devices -> Nat]],
           Informed(x), Orderly(x, baseline', events'),
           \A e \in AllEvents, d \in Devices : Counted(e, d)'
    PROVE  NoticeInv'
<1>1. \A s \in Runners : s # r => runner[s].pc = "idle"
  BY DEF NoticeInv, OneRunner, RunnerLockFree
<1>2. \A s \in Runners : runner'[s] = IF s = r THEN x ELSE runner[s]
  BY DEF NoticeInv, NoticeTypeOK
<1>3. NoticeTypeOK'
  BY DEF NoticeInv, NoticeTypeOK, RunnerState
<1>4. OneRunner'
  BY <1>1, <1>2 DEF OneRunner
<1>5. Boundary'
  BY DEF NoticeInv, Boundary
<1>6. AllSound'
  <2> SUFFICES ASSUME NEW s \in Runners
               PROVE  Informed(runner[s])' /\ Orderly(runner[s], baseline, events)'
    BY DEF AllSound
  <2>1. CASE s = r
    BY <1>2, <2>1 DEF Informed, Orderly
  <2>2. CASE s # r
    BY <1>1, <1>2, <2>2, RunnerTyped DEF Informed, Orderly
  <2> QED BY <2>1, <2>2
<1> QED BY <1>3, <1>4, <1>5, <1>6 DEF NoticeInv, AllCounted

\* Before a pass delivers, its steps leave the counts alone.
LEMMA CountsKept ==
    ASSUME NoticeInv, NEW r \in Runners, runner[r].pc # "push", NEW x \in RunnerState,
           runner' = [runner EXCEPT ![r] = x], UNCHANGED <<events, pushes, restarts>>
    PROVE  \A e \in AllEvents, d \in Devices : Counted(e, d)'
<1>1. \A s \in Runners : s # r => runner'[s] = runner[s]
  BY DEF NoticeInv, NoticeTypeOK
<1> SUFFICES ASSUME NEW e \in AllEvents, NEW d \in Devices PROVE Counted(e, d)'
  OBVIOUS
<1>2. Counted(e, d)
  BY DEF NoticeInv, AllCounted
<1>3. \A s \in Runners : Through(runner[s], e, d) => Through(runner'[s], e, d)
  BY <1>1 DEF Through
<1> QED BY <1>2, <1>3 DEF Counted

LEMMA BeginsInv == ASSUME NoticeInv, NEW r \in Runners, PassBegins(r) PROVE NoticeInv'
<1> DEFINE x == [NoRunner EXCEPT !.pc = "read", !.settledId = IF settled THEN latest.id ELSE 0]
<1>1. latest.id \in 0..MaxGenerations /\ 0 \in 0..MaxGenerations
  BY NotificationsAssumption DEF NoticeInv, NoticeTypeOK
<1>2. /\ x \in RunnerState /\ x.pc = "read" /\ x.settledId <= latest.id /\ ~x.ready /\ ~x.alert
  <2> DEFINE id == IF settled THEN latest.id ELSE 0
  <2>1. id \in 0..MaxGenerations /\ id <= latest.id
    BY <1>1
  <2> HIDE DEF id
  <2>2. [NoRunner EXCEPT !.pc = "read", !.settledId = id] = x
    BY DEF id
  <2>3. /\ [NoRunner EXCEPT !.pc = "read", !.settledId = id] \in RunnerState
        /\ [NoRunner EXCEPT !.pc = "read", !.settledId = id].settledId = id
        /\ [NoRunner EXCEPT !.pc = "read", !.settledId = id].pc = "read"
        /\ ~[NoRunner EXCEPT !.pc = "read", !.settledId = id].ready
        /\ ~[NoRunner EXCEPT !.pc = "read", !.settledId = id].alert
    BY <2>1, IdleOK DEF RunnerState
  <2> HIDE DEF x
  <2> QED BY <2>1, <2>2, <2>3
<1>3. runner' = [runner EXCEPT ![r] = x] /\ RunnerLockFree /\ runner[r].pc = "idle"
      /\ UNCHANGED <<findings, latest, settled, syncing, final, eligible, baseline, events, subs,
                     pushes, restarts>>
  BY DEF PassBegins, RunnerLockFree
<1> HIDE DEF x
<1>4. Informed(x) /\ Orderly(x, baseline', events')
  BY <1>2 DEF Informed, Orderly
<1>5. \A e \in AllEvents, d \in Devices : Counted(e, d)'
  BY <1>2, <1>3, CountsKept
<1> QED BY <1>2, <1>3, <1>4, <1>5, NoticePassStep DEF NoticeInv, NoticeTypeOK

LEMMA FindingsInv == ASSUME NoticeInv, NEW r \in Runners, ReadsFindings(r) PROVE NoticeInv'
<1> DEFINE x == [runner[r] EXCEPT !.pc = "boundary", !.recipients = eligible, !.admins = eligible,
                    !.rows = findings]
<1>1. runner[r] \in RunnerState /\ Informed(runner[r]) /\ runner[r].pc = "read"
  BY RunnerTyped DEF ReadsFindings
<1>2. /\ x \in RunnerState /\ x.pc = "boundary" /\ x.settledId = runner[r].settledId
      /\ x.rows = findings /\ x.ready = runner[r].ready /\ x.alert = runner[r].alert
      /\ x.recipients = x.admins
  BY <1>1 DEF NoticeInv, NoticeTypeOK, RunnerState
<1>3. runner' = [runner EXCEPT ![r] = x]
      /\ UNCHANGED <<findings, latest, settled, syncing, final, eligible, baseline, events, subs,
                     pushes, restarts>>
  BY DEF ReadsFindings, NoticeInv, NoticeTypeOK
<1> HIDE DEF x
<1>4. Informed(x) /\ Orderly(x, baseline', events')
  BY <1>1, <1>2 DEF Informed, Orderly, NoticeInv, Boundary
<1>5. \A e \in AllEvents, d \in Devices : Counted(e, d)'
  BY <1>1, <1>2, <1>3, CountsKept
<1> QED BY <1>1, <1>2, <1>3, <1>4, <1>5, NoticePassStep DEF NoticeInv, NoticeTypeOK

LEMMA BoundaryInv == ASSUME NoticeInv, NEW r \in Runners, ReadsBoundary(r) PROVE NoticeInv'
<1> DEFINE ready == IntegrityReady(r)
           alert == ready /\ ~(runner[r].rows \subseteq baseline)
           x == [runner[r] EXCEPT !.ready = ready, !.alert = alert, !.generation = latest.id, !.pc = "queue"]
<1>1. runner[r] \in RunnerState /\ Informed(runner[r]) /\ runner[r].pc = "boundary"
      /\ latest.id \in 0..MaxGenerations
  BY RunnerTyped DEF ReadsBoundary, NoticeInv, NoticeTypeOK
<1>2. ready \in BOOLEAN /\ alert \in BOOLEAN
  BY DEF IntegrityReady
<1>3. ready => latest.id > 0 /\ ~syncing /\ latest.id = runner[r].settledId
  BY DEF IntegrityReady, NoticeInv, Boundary
<1>4. (alert => ready) /\ (ready /\ ~alert => runner[r].rows \subseteq baseline)
  OBVIOUS
<1>5. runner' = [runner EXCEPT ![r] = x]
      /\ UNCHANGED <<findings, latest, settled, syncing, final, eligible, baseline, events, subs,
                     pushes, restarts>>
  BY DEF ReadsBoundary, NoticeInv, NoticeTypeOK
<1>6. ~runner[r].alert
  BY <1>1 DEF Informed
<1> HIDE DEF ready, alert
<1>7. /\ x \in RunnerState /\ x.pc = "queue" /\ x.settledId = runner[r].settledId
      /\ x.rows = runner[r].rows /\ x.ready = ready /\ x.alert = alert /\ x.generation = latest.id
      /\ x.recipients = runner[r].recipients /\ x.admins = runner[r].admins
  BY <1>1, <1>2 DEF RunnerState
<1> HIDE DEF x
<1>8. runner[r].recipients = runner[r].admins
  BY <1>1, RunnerTyped DEF Orderly
<1>9. Informed(x)
  BY <1>1, <1>3, <1>4, <1>5, <1>7 DEF Informed
<1>10. Orderly(x, baseline', events')
  BY <1>4, <1>5, <1>7, <1>8 DEF Orderly
<1>11. \A e \in AllEvents, d \in Devices : Counted(e, d)'
  BY <1>1, <1>5, <1>7, CountsKept
<1> QED BY <1>1, <1>5, <1>7, <1>9, <1>10, <1>11, NoticePassStep DEF NoticeInv, NoticeTypeOK

LEMMA QueuesAlertInv == ASSUME NoticeInv, NEW r \in Runners, QueuesAlert(r) PROVE NoticeInv'
<1>1. PICK a \in runner[r].admins :
        /\ runner' = [runner EXCEPT ![r].admins = @ \ {a}]
        /\ events' = [events EXCEPT ![<<a, runner[r].generation>>] = IF @ = "none" THEN "queued" ELSE @]
  BY DEF QueuesAlert
<1> DEFINE x == [runner[r] EXCEPT !.admins = runner[r].admins \ {a}]
           e == <<a, runner[r].generation>>
<1>2. runner[r] \in RunnerState /\ Informed(runner[r]) /\ Orderly(runner[r], baseline, events)
      /\ runner[r].pc = "queue" /\ runner[r].alert
      /\ UNCHANGED <<findings, latest, settled, syncing, final, eligible, baseline, subs, pushes, restarts>>
  BY RunnerTyped DEF QueuesAlert
<1>3. e \in AllEvents
  <2>1. runner[r].generation \in 1..latest.id /\ latest.id \in 0..MaxGenerations
    BY <1>2 DEF Informed, NoticeInv, NoticeTypeOK
  <2>2. runner[r].generation \in Generations
    BY <2>1, NotificationsAssumption DEF Generations
  <2>3. a \in Admins
    BY <1>2 DEF RunnerState
  <2> QED BY <2>2, <2>3 DEF AllEvents
<1> HIDE DEF e
<1>4. /\ x \in RunnerState /\ x.pc = "queue" /\ x.settledId = runner[r].settledId
      /\ x.rows = runner[r].rows /\ x.ready = runner[r].ready /\ x.alert
      /\ x.generation = runner[r].generation /\ x.recipients = runner[r].recipients
      /\ x.admins = runner[r].admins \ {a}
  BY <1>2 DEF RunnerState
<1>5. runner' = [runner EXCEPT ![r] = x]
  BY <1>1 DEF NoticeInv, NoticeTypeOK
<1>6. events \in [AllEvents -> {"none", "queued", "sent", "failed"}]
  BY DEF NoticeInv, NoticeTypeOK
<1>7. /\ events' \in [AllEvents -> {"none", "queued", "sent", "failed"}]
      /\ events'[e] # "none"
      /\ \A f \in AllEvents : events'[f] = IF f = e /\ events[f] = "none" THEN "queued" ELSE events[f]
  BY <1>1, <1>3, <1>6 DEF e
<1> HIDE DEF x
<1>8. Informed(x)
  BY <1>2, <1>4 DEF Informed
<1>9. Orderly(x, baseline', events')
  <2> SUFFICES ASSUME NEW b \in x.recipients \ x.admins PROVE events'[<<b, x.generation>>] # "none"
    BY <1>2, <1>4 DEF Orderly
  <2>1. CASE b = a
    BY <1>4, <1>7, <2>1 DEF e
  <2>2. CASE b # a
    <3>1. events[<<b, x.generation>>] # "none"
      BY <1>2, <1>4, <2>2 DEF Orderly
    <3>2. runner[r].generation \in Generations /\ b \in Admins
      BY <1>2, <1>4 DEF Informed, Generations, NoticeInv, NoticeTypeOK, RunnerState
    <3>3. <<b, x.generation>> \in AllEvents
      BY <1>4, <3>2 DEF AllEvents
    <3> QED BY <1>7, <3>1, <3>3
  <2> QED BY <2>1, <2>2
<1>10. ASSUME NEW f \in AllEvents, NEW d \in Devices PROVE Counted(f, d)'
  <2>1. Counted(f, d)
    BY DEF NoticeInv, AllCounted
  <2>2. \A s \in Runners : Through(runner[s], f, d) => Through(runner'[s], f, d)
    BY <1>2, <1>5 DEF Through, NoticeInv, NoticeTypeOK
  <2>3. restarts \in Nat
    BY NotificationsAssumption DEF NoticeInv, NoticeTypeOK
  <2> QED BY <1>2, <1>7, <2>1, <2>2, <2>3 DEF Counted
<1> QED BY <1>2, <1>4, <1>5, <1>7, <1>8, <1>9, <1>10, NoticePassStep DEF NoticeInv, NoticeTypeOK

LEMMA BaselineInv == ASSUME NoticeInv, NEW r \in Runners, SavesBaseline(r) PROVE NoticeInv'
<1> DEFINE x == [NoRunner EXCEPT !.pc = "select"]
<1>1. runner[r] \in RunnerState /\ runner[r].pc = "queue" /\ runner' = [runner EXCEPT ![r] = x]
      /\ UNCHANGED <<findings, latest, settled, syncing, final, eligible, events, subs, pushes, restarts>>
      /\ baseline' = IF runner[r].ready THEN runner[r].rows ELSE baseline
  BY RunnerTyped DEF SavesBaseline
<1>2. x \in RunnerState /\ x.pc = "select" /\ ~x.ready /\ ~x.alert /\ x.settledId = 0
  BY IdleOK
<1> HIDE DEF x
<1>3. Informed(x) /\ Orderly(x, baseline', events')
  BY <1>2 DEF Informed, Orderly, NoticeInv, NoticeTypeOK
<1>4. \A e \in AllEvents, d \in Devices : Counted(e, d)'
  BY <1>1, <1>2, CountsKept
<1>5. baseline' \subseteq Findings
  BY <1>1 DEF RunnerState, NoticeInv, NoticeTypeOK
<1> QED BY <1>1, <1>2, <1>3, <1>4, <1>5, NoticePassStep DEF NoticeInv, NoticeTypeOK

LEMMA SelectsInv == ASSUME NoticeInv, NEW r \in Runners, SelectsQueued(r) PROVE NoticeInv'
<1> DEFINE queued == {e \in AllEvents : events[e] = "queued"}
           x == IF queued = {} THEN NoRunner ELSE [NoRunner EXCEPT !.pc = "event", !.queue = queued]
<1>1. runner[r].pc = "select" /\ runner' = [runner EXCEPT ![r] = x]
      /\ UNCHANGED <<findings, latest, settled, syncing, final, eligible, baseline, events, subs,
                     pushes, restarts>>
  BY DEF SelectsQueued
<1>2. /\ x \in RunnerState /\ x.pc \in {"idle", "event"} /\ ~x.ready /\ ~x.alert /\ x.settledId = 0
      /\ \A e \in x.queue : events[e] = "queued"
  <2>1. queued \in SUBSET AllEvents /\ \A e \in queued : events[e] = "queued"
    OBVIOUS
  <2> HIDE DEF queued
  <2>2. CASE queued = {}
    BY <2>2, IdleOK
  <2>3. CASE queued # {}
    BY <2>1, <2>3, IdleOK
  <2> QED BY <2>2, <2>3
<1> HIDE DEF x
<1>3. Informed(x) /\ Orderly(x, baseline', events')
  BY <1>1, <1>2 DEF Informed, Orderly, NoticeInv, NoticeTypeOK
<1>4. \A e \in AllEvents, d \in Devices : Counted(e, d)'
  BY <1>1, <1>2, CountsKept
<1> QED BY <1>1, <1>2, <1>3, <1>4, NoticePassStep DEF NoticeInv, NoticeTypeOK

LEMMA TakesInv == ASSUME NoticeInv, NEW r \in Runners, TakesEvent(r) PROVE NoticeInv'
<1>1. PICK e \in runner[r].queue :
        runner' = [runner EXCEPT ![r].pc = "push", ![r].event = e, ![r].devices = subs,
                      ![r].queue = @ \ {e}, ![r].delivered = 0]
  BY DEF TakesEvent
<1> DEFINE x == [runner[r] EXCEPT !.pc = "push", !.event = e, !.devices = subs,
                    !.queue = runner[r].queue \ {e}, !.delivered = 0]
<1>2. runner[r] \in RunnerState /\ Informed(runner[r]) /\ Orderly(runner[r], baseline, events)
      /\ runner[r].pc = "event" /\ runner' = [runner EXCEPT ![r] = x]
      /\ UNCHANGED <<findings, latest, settled, syncing, final, eligible, baseline, events, subs,
                     pushes, restarts>>
  BY <1>1, RunnerTyped DEF TakesEvent, NoticeInv, NoticeTypeOK
<1>3. e \in AllEvents /\ events[e] = "queued" /\ ~runner[r].ready /\ ~runner[r].alert
      /\ subs \in SUBSET Devices
  BY <1>1, <1>2 DEF RunnerState, Orderly, Informed, NoticeInv, NoticeTypeOK
<1>4. /\ x \in RunnerState /\ x.pc = "push" /\ x.settledId = runner[r].settledId /\ x.event = e
      /\ x.ready = runner[r].ready /\ x.alert = runner[r].alert /\ x.queue = runner[r].queue \ {e}
  <2>1. e \in AllEvents \cup {<<>>} /\ runner[r].queue \ {e} \in SUBSET AllEvents /\ 0 \in 0..1
    BY <1>2, <1>3 DEF RunnerState
  <2> DEFINE rest == runner[r].queue \ {e}
             all == AllEvents \cup {<<>>}
  <2> HIDE DEF rest, all
  <2>2. e \in all /\ rest \in SUBSET AllEvents
    BY <2>1 DEF rest, all
  <2> QED BY <1>2, <1>3, <2>1, <2>2 DEF RunnerState, rest, all
<1> HIDE DEF x
<1>5. Informed(x) /\ Orderly(x, baseline', events')
  BY <1>2, <1>3, <1>4 DEF Informed, Orderly
<1>6. \A f \in AllEvents, d \in Devices : Counted(f, d)'
  BY <1>2, <1>4, CountsKept
<1> QED BY <1>2, <1>4, <1>5, <1>6, NoticePassStep DEF NoticeInv, NoticeTypeOK

LEMMA PushesInv == ASSUME NoticeInv, NEW r \in Runners, PushesDevice(r) PROVE NoticeInv'
<1> DEFINE e == runner[r].event
<1>1. /\ runner[r] \in RunnerState /\ Informed(runner[r]) /\ Orderly(runner[r], baseline, events)
      /\ runner[r].pc = "push" /\ e \in AllEvents /\ events[e] = "queued"
      /\ UNCHANGED <<findings, latest, settled, syncing, final, eligible, baseline, events, restarts>>
  BY RunnerTyped DEF PushesDevice, Orderly
<1>2. PICK d \in runner[r].devices :
        \/ /\ pushes' = [pushes EXCEPT ![e][d] = @ + 1]
           /\ runner' = [runner EXCEPT ![r].devices = @ \ {d}, ![r].delivered = 1]
           /\ UNCHANGED subs
        \/ /\ subs' \in {subs, subs \ {d}}
           /\ runner' = [runner EXCEPT ![r].devices = @ \ {d}]
           /\ UNCHANGED pushes
  BY DEF PushesDevice
<1>3. PICK n \in 0..1 : runner' = [runner EXCEPT ![r] =
                           [runner[r] EXCEPT !.devices = runner[r].devices \ {d}, !.delivered = n]]
  <2>1. runner[r].delivered \in 0..1 /\ 1 \in 0..1
    BY <1>1 DEF RunnerState
  <2>2. [runner[r] EXCEPT !.devices = runner[r].devices \ {d}] =
          [runner[r] EXCEPT !.devices = runner[r].devices \ {d}, !.delivered = runner[r].delivered]
    BY <1>1 DEF RunnerState
  <2> QED BY <1>2, <2>1, <2>2 DEF NoticeInv, NoticeTypeOK
<1> DEFINE x == [runner[r] EXCEPT !.devices = runner[r].devices \ {d}, !.delivered = n]
<1>4. /\ x \in RunnerState /\ x.pc = "push" /\ x.settledId = runner[r].settledId /\ x.event = e
      /\ x.ready = runner[r].ready /\ x.alert = runner[r].alert /\ x.queue = runner[r].queue
      /\ x.devices = runner[r].devices \ {d} /\ d \in Devices
  BY <1>1, <1>2, <1>3 DEF RunnerState
<1>5. runner' = [runner EXCEPT ![r] = x]
  BY <1>3
<1> HIDE DEF x
<1>6. Informed(x) /\ Orderly(x, baseline', events')
  BY <1>1, <1>4 DEF Informed, Orderly
<1>7. pushes \in [AllEvents -> [Devices -> Nat]] /\ restarts \in Nat
      /\ subs' \subseteq Devices
  BY <1>2, NotificationsAssumption DEF NoticeInv, NoticeTypeOK
<1>8. /\ pushes' \in [AllEvents -> [Devices -> Nat]]
      /\ \A f \in AllEvents, b \in Devices : ~(f = e /\ b = d) => pushes'[f][b] = pushes[f][b]
      /\ pushes'[e][d] \in {pushes[e][d], pushes[e][d] + 1}
  <2>1. CASE UNCHANGED pushes
    BY <1>7, <2>1
  <2>2. CASE pushes' = [pushes EXCEPT ![e][d] = @ + 1]
    BY <1>1, <1>4, <1>7, <2>2
  <2> QED BY <1>2, <2>1, <2>2
<1>9. ASSUME NEW f \in AllEvents, NEW b \in Devices PROVE Counted(f, b)'
  <2>1. Counted(f, b)
    BY DEF NoticeInv, AllCounted
  <2>2. \A s \in Runners : s # r => runner[s].pc = "idle"
    BY <1>1 DEF NoticeInv, OneRunner
  <2>3. \A s \in Runners : runner'[s] = IF s = r THEN x ELSE runner[s]
    BY <1>5 DEF NoticeInv, NoticeTypeOK
  <2>4. CASE f = e /\ b = d
    <3>1. ~\E s \in Runners : Through(runner[s], e, d)
      BY <1>2, <2>2 DEF Through
    <3>2. pushes[e][d] \in Nat /\ pushes[e][d] <= restarts
      BY <1>1, <1>4, <1>7, <2>1, <2>4, <3>1 DEF Counted
    <3>3. pushes'[e][d] <= 1 + restarts
      BY <1>7, <1>8, <3>2
    <3>4. Through(runner'[r], e, d)
      BY <1>4, <2>3 DEF Through
    <3> QED BY <1>1, <2>4, <3>3, <3>4 DEF Counted
  <2>5. CASE ~(f = e /\ b = d)
    <3>1. \A s \in Runners : Through(runner[s], f, b) => Through(runner'[s], f, b)
      BY <1>1, <1>4, <2>3 DEF Through
    <3> QED BY <1>1, <1>8, <2>1, <2>5, <3>1 DEF Counted
  <2> QED BY <2>4, <2>5
<1> QED BY <1>1, <1>4, <1>5, <1>6, <1>7, <1>8, <1>9, NoticePassStep DEF NoticeInv, NoticeTypeOK

LEMMA SettlesInv == ASSUME NoticeInv, NEW r \in Runners, EventSettles(r) PROVE NoticeInv'
<1> DEFINE e == runner[r].event
           x == IF runner[r].queue = {} THEN NoRunner
                ELSE [NoRunner EXCEPT !.pc = "event", !.queue = runner[r].queue]
<1>1. /\ runner[r] \in RunnerState /\ runner[r].pc = "push" /\ e \in AllEvents
      /\ Orderly(runner[r], baseline, events) /\ runner' = [runner EXCEPT ![r] = x]
      /\ UNCHANGED <<findings, latest, settled, syncing, final, eligible, baseline, subs, pushes, restarts>>
  BY RunnerTyped DEF EventSettles, Orderly
<1>2. PICK o \in {"sent", "failed"} : events' = [events EXCEPT ![e] = o]
  BY DEF EventSettles
<1>3. /\ events' \in [AllEvents -> {"none", "queued", "sent", "failed"}]
      /\ \A f \in AllEvents : events'[f] = IF f = e THEN o ELSE events[f]
  BY <1>1, <1>2 DEF NoticeInv, NoticeTypeOK
<1>4. /\ x \in RunnerState /\ x.pc \in {"idle", "event"} /\ ~x.ready /\ ~x.alert /\ x.settledId = 0
      /\ x.queue = runner[r].queue
  <2> DEFINE q == runner[r].queue
  <2>1. q \in SUBSET AllEvents
    BY <1>1 DEF RunnerState
  <2> HIDE DEF q
  <2>2. CASE q = {}
    BY <2>2, IdleOK DEF q
  <2>3. CASE q # {}
    BY <2>1, <2>3, IdleOK DEF q
  <2> QED BY <2>2, <2>3
<1> HIDE DEF x
<1>5. Informed(x) /\ Orderly(x, baseline', events')
  <2>1. \A f \in runner[r].queue : f \in AllEvents /\ f # e /\ events[f] = "queued"
    BY <1>1 DEF Orderly, RunnerState
  <2> QED BY <1>1, <1>3, <1>4, <2>1 DEF Informed, Orderly, NoticeInv, NoticeTypeOK
<1>6. ASSUME NEW f \in AllEvents, NEW b \in Devices PROVE Counted(f, b)'
  <2>1. Counted(f, b)
    BY DEF NoticeInv, AllCounted
  <2>2. \A s \in Runners : f # e /\ Through(runner[s], f, b) => Through(runner'[s], f, b)
    BY <1>1 DEF Through, NoticeInv, NoticeTypeOK
  <2> QED BY <1>1, <1>2, <1>3, <2>1, <2>2 DEF Counted
<1> QED BY <1>1, <1>3, <1>4, <1>5, <1>6, NoticePassStep DEF NoticeInv, NoticeTypeOK

LEMMA LostInv == NoticeInv /\ PassLost => NoticeInv'
<1> SUFFICES ASSUME NoticeInv, PassLost PROVE NoticeInv'
  OBVIOUS
<1>1. /\ restarts \in 0..MaxRestarts /\ restarts' = restarts + 1 /\ restarts < MaxRestarts
      /\ pushes \in [AllEvents -> [Devices -> Nat]]
      /\ UNCHANGED <<findings, latest, settled, syncing, final, eligible, baseline, events, subs, pushes>>
      /\ \A r \in Runners : runner'[r] = NoRunner
  BY DEF PassLost, NoticeInv, NoticeTypeOK
<1>2. runner' \in [Runners -> RunnerState]
  BY IdleOK DEF PassLost
<1>3. NoticeTypeOK'
  BY <1>1, <1>2, NotificationsAssumption DEF NoticeInv, NoticeTypeOK, RunnerState
<1>4. OneRunner' /\ Boundary'
  BY <1>1, IdleOK DEF OneRunner, NoticeInv, Boundary
<1>5. AllSound'
  <2>1. latest' = latest /\ latest.id \in Nat
    BY <1>1 DEF NoticeInv, NoticeTypeOK
  <2> SUFFICES ASSUME NEW r \in Runners PROVE Informed(runner[r])' /\ Orderly(runner[r], baseline, events)'
    BY DEF AllSound
  <2>2. runner'[r].pc = "idle" /\ ~runner'[r].ready /\ ~runner'[r].alert /\ runner'[r].settledId = 0
    BY <1>1, IdleOK
  <2> QED BY <2>1, <2>2 DEF Informed, Orderly
<1>6. ASSUME NEW e \in AllEvents, NEW d \in Devices PROVE Counted(e, d)'
  <2>1. Counted(e, d) /\ pushes[e][d] \in Nat
    BY <1>1 DEF NoticeInv, AllCounted
  <2> QED BY <1>1, <2>1 DEF Counted
<1> QED BY <1>3, <1>4, <1>5, <1>6 DEF NoticeInv, AllCounted

-----------------------------------------------------------------------------
(* The theorems                                                             *)

LEMMA NoticeInitInv == NoticeInit => NoticeInv
<1> SUFFICES ASSUME NoticeInit PROVE NoticeInv
  OBVIOUS
<1>1. NoticeTypeOK
  <2>1. runner \in [Runners -> RunnerState]
    BY IdleOK DEF NoticeInit
  <2>2. latest \in [id : 0..MaxGenerations, status : {"none", "complete", "error"}]
        /\ restarts \in 0..MaxRestarts
    BY NotificationsAssumption DEF NoticeInit
  <2>3. /\ final \in [Generations -> SUBSET Findings]
        /\ events \in [AllEvents -> {"none", "queued", "sent", "failed"}]
        /\ pushes \in [AllEvents -> [Devices -> Nat]]
    BY DEF NoticeInit
  <2> QED BY <2>1, <2>2, <2>3 DEF NoticeInit, NoticeTypeOK, RunnerState
<1>2. OneRunner /\ Boundary
  BY IdleOK, NotificationsAssumption DEF NoticeInit, OneRunner, Boundary
<1>3. AllSound
  <2> SUFFICES ASSUME NEW r \in Runners PROVE Informed(runner[r]) /\ Orderly(runner[r], baseline, events)
    BY DEF AllSound
  <2>1. runner[r].pc = "idle" /\ ~runner[r].ready /\ ~runner[r].alert /\ runner[r].settledId = 0
        /\ latest.id = 0
    BY IdleOK DEF NoticeInit
  <2> QED BY <2>1 DEF Informed, Orderly
<1>4. AllCounted
  BY DEF NoticeInit, AllCounted, Counted
<1> QED BY <1>1, <1>2, <1>3, <1>4 DEF NoticeInv

LEMMA NoticeNextInv == NoticeInv /\ [NoticeNext]_noticeVars => NoticeInv'
<1> SUFFICES ASSUME NoticeInv, [NoticeNext]_noticeVars PROVE NoticeInv'
  OBVIOUS
<1>1. CASE UNCHANGED noticeVars
  <2>1. NoticeTypeOK' /\ Boundary' /\ \A r \in Runners : Informed(runner[r])'
    BY <1>1, RunnerTyped DEF noticeVars, NoticeInv, NoticeTypeOK, Boundary, Informed
  <2> QED BY <1>1, <2>1, Outside DEF noticeVars
<1> QED
  BY <1>1, SyncInv, AroundInv, LostInv, BeginsInv, FindingsInv, BoundaryInv, QueuesAlertInv, BaselineInv,
     SelectsInv, TakesInv, PushesInv, SettlesInv DEF NoticeNext, RunnerSteps

\* NoticeInv is an inductive invariant of the notification passes.
THEOREM NoticeInvariant == NoticeSpec => []NoticeInv
BY NoticeInitInv, NoticeNextInv, PTL DEF NoticeSpec

\* The variables keep their types.
THEOREM NoticeTypes == NoticeSpec => []NoticeTypeOK
<1>1. NoticeInv => NoticeTypeOK
  BY DEF NoticeInv
<1> QED BY <1>1, NoticeInvariant, PTL

\* What a pass alerts about, and what it takes for known, was there when the
\* generation it names completed.
THEOREM NothingProvisional == NoticeSpec => []NoProvisionalAlert
<1>1. NoticeInv => NoProvisionalAlert
  BY DEF NoticeInv, AllSound, Informed, NoProvisionalAlert
<1> QED BY <1>1, NoticeInvariant, PTL

\* Only a lost pass repeats a push.
THEOREM OnePush == NoticeSpec => []PushedOnce
<1>1. NoticeInv => PushedOnce
  BY DEF NoticeInv, AllCounted, Counted, PushedOnce
<1> QED BY <1>1, NoticeInvariant, PTL

LEMMA AlertsFirst ==
    ASSUME NoticeInv, [NoticeNext]_noticeVars, NEW r \in Runners, runner[r].pc = "queue",
           ~(baseline' \subseteq baseline), NEW a \in runner[r].recipients
    PROVE  events[<<a, runner[r].generation>>] # "none"
<1>1. PICK s \in Runners : SavesBaseline(s)
  BY DEF NoticeNext, RunnerSteps, noticeVars, SyncStarts, SyncWrites, SyncEnds, SettleTimePasses,
     FindingExpires, EligibilityChanges, PassLost, PassBegins, ReadsFindings, ReadsBoundary, QueuesAlert,
     SelectsQueued, TakesEvent, PushesDevice, EventSettles, DeviceRegisters
<1>2. s = r
  BY <1>1 DEF SavesBaseline, NoticeInv, OneRunner
<1>3. runner[r].ready /\ ~(runner[r].rows \subseteq baseline)
  BY <1>1, <1>2 DEF SavesBaseline
<1>4. runner[r].alert /\ runner[r].admins = {}
  BY <1>1, <1>2, <1>3, RunnerTyped DEF SavesBaseline, Orderly
<1> QED BY <1>4, RunnerTyped DEF Orderly

\* A finding is taken for known only when every eligible Admin has its alert.
THEOREM AlertsComeFirst == NoticeSpec => AlertedBeforeBaselined
<1>1. NoticeInv /\ [NoticeNext]_noticeVars =>
        [\A r \in Runners :
            (runner[r].pc = "queue" /\ ~(baseline' \subseteq baseline)) =>
                \A a \in runner[r].recipients : events[<<a, runner[r].generation>>] # "none"]_noticeVars
  BY AlertsFirst
<1> QED BY <1>1, NoticeInvariant, PTL DEF NoticeSpec, AlertedBeforeBaselined

=============================================================================
