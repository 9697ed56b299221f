--------------------------- MODULE SyncQueueProofs ---------------------------
(***************************************************************************)
(* Theorems about SyncQueue for any accounts, jobs, batch size and bounds. *)
(***************************************************************************)
EXTENDS SyncQueue, FiniteSetTheorems, TLAPS

USE DEF Gens, Workers, Terminal, MemberStates

\* The local record of an idle thread has its type.
LEMMA IdleType == Idle \in WorkerState
BY SyncQueueAssumption DEF Idle, WorkerState

\* A step that replaces one thread's record by a typed one keeps the type of all.
LEMMA StepType ==
    ASSUME TypeOK, NEW w \in Workers, NEW r \in WorkerState, Step(w, r)
    PROVE  worker' \in [Workers -> WorkerState]
BY DEF TypeOK, Step

\* SettledStatus yields a status of a created generation.
LEMMA SettledType ==
    ASSUME NEW m PROVE SettledStatus(m) \in {"pending", "complete", "error"}
BY DEF SettledStatus

\* mark_sync_generation_member keeps the types of both generation tables.
LEMMA MarkType ==
    ASSUME TypeOK, NEW g, NEW u, NEW s \in Terminal, MarkMember(g, u, s)
    PROVE  /\ member' \in [Gens -> [Users -> MemberStates]]
           /\ status' \in [Gens -> {"none", "pending", "complete", "error"}]
<1> DEFINE m == [member[g] EXCEPT ![u] = s]
<1>1. CASE member[g][u] # "running"
  BY <1>1 DEF MarkMember, TypeOK
<1>2. CASE member[g][u] = "running"
  <2>1. SettledStatus(m) \in {"pending", "complete", "error"}
    BY SettledType
  <2>2. status' \in [Gens -> {"none", "pending", "complete", "error"}]
    <3> HIDE DEF m
    <3>1. status' = [status EXCEPT ![g] = IF @ = "pending" THEN SettledStatus(m) ELSE @]
      BY <1>2 DEF MarkMember, m
    <3> QED BY <3>1, <2>1 DEF TypeOK
  <2>3. member' \in [Gens -> [Users -> MemberStates]]
    <3>1. member' = [member EXCEPT ![g] = m]
      BY <1>2 DEF MarkMember
    <3>2. g \in Gens => m \in [Users -> MemberStates]
      BY DEF TypeOK
    <3> HIDE DEF m
    <3> QED BY <3>1, <3>2 DEF TypeOK
  <2> QED BY <2>2, <2>3
<1> QED BY <1>1, <1>2

\* So does claim_sync_generation_member.
LEMMA ClaimType ==
    ASSUME TypeOK, NEW g, NEW u
    PROVE  [member EXCEPT ![g][u] = "running"] \in [Gens -> [Users -> MemberStates]]
<1> DEFINE m == [member[g] EXCEPT ![u] = "running"]
<1>1. g \in Gens => m \in [Users -> MemberStates]
  BY DEF TypeOK
<1>2. [member EXCEPT ![g] = m] \in [Gens -> [Users -> MemberStates]]
  <2> HIDE DEF m
  <2> QED BY <1>1 DEF TypeOK
<1> QED BY <1>2

\* create_sync_generation keeps the types of the generation tables.
LEMMA CreateType ==
    ASSUME TypeOK, NEW k \in {"scheduled", "manual"}, NEW S, CreateGeneration(k, S),
           lastGen < MaxGens
    PROVE  /\ lastGen' \in 0..MaxGens
           /\ kind' \in [Gens -> {"none", "scheduled", "manual"}]
           /\ status' \in [Gens -> {"none", "pending", "complete", "error"}]
           /\ member' \in [Gens -> [Users -> MemberStates]]
<1>1. [u \in Users |-> IF u \in S THEN "pending" ELSE "absent"] \in [Users -> MemberStates]
  OBVIOUS
<1> QED BY <1>1, SyncQueueAssumption DEF TypeOK, CreateGeneration

\* MemberWork keeps the types whichever thread does it.
LEMMA MemberWorkType ==
    ASSUME TypeOK, NEW w \in Workers, MemberWork(w)
    PROVE  TypeOK'
<1> USE SyncQueueAssumption
<1>1. worker[w] \in WorkerState /\ Done(w) \in WorkerState
  BY IdleType DEF TypeOK, Done, Idle, WorkerState
<1>2. SetStatus(w, TRUE) \/ SetStatus(w, FALSE) => manualRunning' \in [Users -> BOOLEAN]
  BY DEF SetStatus, TypeOK
<1>3. ASSUME Start(w) PROVE TypeOK'
  <2>1. CASE inProgress[worker[w].user] # "yes"
    <3>1. PICK s \in SharedChoices(w) : Step(w, [worker[w] EXCEPT !.pc = "capture", !.shared = s])
      BY <1>3, <2>1 DEF Start
    <3>2. s \in BOOLEAN
      BY <3>1 DEF SharedChoices
    <3>3. worker' \in [Workers -> WorkerState]
      <4>1. [worker[w] EXCEPT !.pc = "capture", !.shared = s] \in WorkerState
        BY <1>1, <3>2 DEF WorkerState
      <4> QED BY <4>1, <3>1, StepType
    <3> QED BY <1>2, <1>3, <2>1, <3>3 DEF Start, TypeOK, clock
  <2>2. CASE inProgress[worker[w].user] = "yes"
    <3>1. worker' \in [Workers -> WorkerState]
      BY <1>1, <1>3, <2>2, StepType DEF Start
    <3>2. MarkMember(worker[w].gen, worker[w].user, "error")
      BY <1>3, <2>2 DEF Start
    <3>3. /\ member' \in [Gens -> [Users -> MemberStates]]
          /\ status' \in [Gens -> {"none", "pending", "complete", "error"}]
      BY <3>2, MarkType
    <3> QED BY <1>2, <1>3, <2>2, <3>1, <3>3 DEF Start, TypeOK, clock
  <2> QED BY <2>1, <2>2
<1>4. ASSUME Capture(w) PROVE TypeOK'
  <2>1. PICK o \in Terminal, qualifies \in BOOLEAN :
          /\ proven' = IF qualifies THEN [g \in Gens |-> proven[g] \/ g <= lastGen] ELSE proven
          /\ target' = IF qualifies /\ target = "unmet" THEN "met" ELSE target
          /\ Step(w, [worker[w] EXCEPT !.pc = "finish", !.outcome = o])
    BY <1>4 DEF Capture
  <2>2. [worker[w] EXCEPT !.pc = "finish", !.outcome = o] \in WorkerState
    BY <1>1 DEF WorkerState
  <2>3. worker' \in [Workers -> WorkerState]
    BY <2>1, <2>2, StepType
  <2>4. proven' \in [Gens -> BOOLEAN]
    BY <2>1 DEF TypeOK
  <2>5. target' \in {"before", "unmet", "met"}
    BY <2>1 DEF TypeOK
  <2> QED BY <1>2, <1>4, <2>3, <2>4, <2>5 DEF Capture, TypeOK, db
<1>5. ASSUME Finish(w) PROVE TypeOK'
  <2>1. [worker[w] EXCEPT !.pc = "mark"] \in WorkerState
    BY <1>1 DEF WorkerState
  <2>2. worker' \in [Workers -> WorkerState]
    BY <1>5, <2>1, StepType DEF Finish
  <2> QED BY <1>5, <2>2 DEF Finish, TypeOK, clock
<1>6. ASSUME Mark(w) PROVE TypeOK'
  <2>1. worker[w].outcome \in Terminal
    BY <1>1 DEF WorkerState
  <2>2. MarkMember(worker[w].gen, worker[w].user, worker[w].outcome)
    BY <1>6 DEF Mark
  <2>3. /\ member' \in [Gens -> [Users -> MemberStates]]
        /\ status' \in [Gens -> {"none", "pending", "complete", "error"}]
    BY <2>1, <2>2, MarkType
  <2>4. worker' \in [Workers -> WorkerState]
    BY <1>1, <1>6, StepType DEF Mark
  <2> QED BY <1>6, <2>3, <2>4 DEF Mark, TypeOK, clock
<1> QED BY <1>3, <1>4, <1>5, <1>6 DEF MemberWork

\* A plan returning to its caller keeps the types of what it touches.
LEMMA PlanReturnsType ==
    ASSUME TypeOK, NEW by, PlanReturns(by)
    PROVE  /\ starting' \in BOOLEAN
           /\ window' \in {"closed", "open", "taken"}
           /\ worker' \in [Workers -> WorkerState]
<1>1. [worker[Runner] EXCEPT !.pc = "query"] \in WorkerState
  <2>1. worker[Runner] \in WorkerState
    BY DEF TypeOK
  <2> QED BY <2>1 DEF WorkerState
<1>2. worker' = worker \/ worker' = [worker EXCEPT ![Runner] = [worker[Runner] EXCEPT !.pc = "query"]]
  BY DEF PlanReturns
<1>3. worker' \in [Workers -> WorkerState]
  BY <1>1, <1>2 DEF TypeOK
<1> QED BY <1>3 DEF PlanReturns, TypeOK

\* Planning keeps the types.
LEMMA PlanningType ==
    ASSUME TypeOK, Planning
    PROVE  TypeOK'
<1> USE SyncQueueAssumption
<1>1. ASSUME NEW by \in {"startup", "daily", "preshift", "runner"}, PlanBegins(by) PROVE TypeOK'
  <2>1. Syncable \in SUBSET Users
    BY DEF Syncable
  <2>2. plan' \in PlanState
    BY <1>1, <2>1 DEF PlanBegins, PlanState
  <2> QED BY <1>1, <2>2 DEF PlanBegins, TypeOK, db, clock
<1>2. ASSUME NEW by, PlanCoalesces(by) PROVE TypeOK'
  BY <1>2, PlanReturnsType DEF PlanCoalesces, TypeOK, db
<1>3. ASSUME NEW u \in Users, PlanUser(u) PROVE TypeOK'
  <2>1. Cardinality(plan.planned) \in Nat
    <3>1. IsFiniteSet(plan.planned)
      BY FS_Subset DEF TypeOK, PlanState
    <3> QED BY <3>1, FS_CardinalityType
  <2>2. next' \in [Users -> Nat]
    BY <1>3, <2>1 DEF PlanUser, TypeOK
  <2>3. plan' \in PlanState
    BY <1>3 DEF PlanUser, TypeOK, PlanState
  <2> QED BY <1>3, <2>2, <2>3 DEF PlanUser, TypeOK, clock
<1>4. ASSUME PlanEnds PROVE TypeOK'
  <2>1. NoPlan \in PlanState
    BY DEF NoPlan, PlanState
  <2> QED BY <1>4, <2>1, CreateType, PlanReturnsType DEF PlanEnds, TypeOK
<1> QED BY <1>1, <1>2, <1>3, <1>4 DEF Planning, StartupPlan, DailyDispatch, CheckPreShift

\* The runner's steps keep the types.
LEMMA RunnerWorkType ==
    ASSUME TypeOK, RunnerWork
    PROVE  TypeOK'
<1> USE SyncQueueAssumption
<1>0. worker[Runner] \in WorkerState /\ Runner \in Workers
  BY DEF TypeOK
<1>1. ASSUME NEW r \in WorkerState, Step(Runner, r),
             UNCHANGED <<db, proven, plan, manualRunning, clock>>
      PROVE  TypeOK'
  BY <1>0, <1>1, StepType DEF TypeOK, db, clock
<1>2. CASE RunnerBegins
  <2>1. [Idle EXCEPT !.pc = "ensure"] \in WorkerState
    BY IdleType DEF WorkerState
  <2> QED BY <1>1, <1>2, <2>1 DEF RunnerBegins
<1>3. CASE RunnerEnsures
  <2>1. [Idle EXCEPT !.pc = "query"] \in WorkerState
    BY IdleType DEF WorkerState
  <2>2. CASE PlanBegins("runner")
    <3>1. Syncable \in SUBSET Users
      BY DEF Syncable
    <3>2. plan' \in PlanState
      BY <2>2, <3>1 DEF PlanBegins, PlanState
    <3> QED BY <2>2, <3>2 DEF PlanBegins, TypeOK, db, clock
  <2> QED BY <1>1, <1>3, <2>1, <2>2 DEF RunnerEnsures
<1>4. CASE RunnerQueries
  <2>1. PICK S \in DueBatches : Step(Runner, [Idle EXCEPT !.pc = "pick", !.todo = S])
    BY <1>4 DEF RunnerQueries
  <2>2. S \in SUBSET Users
    BY DEF DueBatches, Due
  <2>3. [Idle EXCEPT !.pc = "pick", !.todo = S] \in WorkerState
    BY IdleType, <2>2 DEF WorkerState
  <2> QED BY <1>1, <1>4, <2>1, <2>3 DEF RunnerQueries
<1>5. CASE RunnerEnds
  BY <1>1, <1>5, IdleType DEF RunnerEnds
<1>6. ASSUME NEW u \in Users, RunnerPicks(u) PROVE TypeOK'
  <2> DEFINE r == [Idle EXCEPT !.pc = "pick", !.todo = worker[Runner].todo \ {u}]
  <2>1. worker[Runner].todo \ {u} \in SUBSET Users
    BY <1>0 DEF WorkerState
  <2>2. r \in WorkerState
    BY IdleType, <2>1 DEF WorkerState
  <2> HIDE DEF r
  <2>3. ASSUME NEW g \in Newest(OpenGens(u)) PROVE [r EXCEPT !.pc = "claim", !.user = u, !.gen = g] \in WorkerState
    <3>1. g \in 0..MaxGens
      BY DEF Newest, OpenGens
    <3> QED BY <2>2, <3>1 DEF WorkerState
  <2>4. \/ Step(Runner, r)
        \/ \E g \in Newest(OpenGens(u)) : Step(Runner, [r EXCEPT !.pc = "claim", !.user = u, !.gen = g])
    BY <1>6 DEF RunnerPicks, r
  <2>5. UNCHANGED <<db, proven, plan, manualRunning, clock>>
    BY <1>6 DEF RunnerPicks
  <2> QED BY <1>1, <2>2, <2>3, <2>4, <2>5
<1>7. CASE RunnerClaims
  <2> DEFINE r == worker[Runner]
  <2>1. /\ [r EXCEPT !.pc = "start"] \in WorkerState
        /\ [Idle EXCEPT !.pc = "pick", !.todo = r.todo] \in WorkerState
    BY <1>0, IdleType DEF WorkerState
  <2>2. worker' \in [Workers -> WorkerState]
    BY <1>0, <1>7, <2>1, StepType DEF RunnerClaims
  <2>3. member' \in [Gens -> [Users -> MemberStates]]
    <3>1. member' = member \/ member' = [member EXCEPT ![r.gen][r.user] = "running"]
      BY <1>7 DEF RunnerClaims
    <3> QED BY <3>1, ClaimType DEF TypeOK
  <2> QED BY <1>7, <2>2, <2>3 DEF RunnerClaims, TypeOK, clock
<1> QED BY <1>2, <1>3, <1>4, <1>5, <1>6, <1>7 DEF RunnerWork

\* Requests for manual syncs and their jobs' own steps keep the types.
LEMMA ManualType ==
    ASSUME TypeOK, NEW j \in Jobs, (\E u \in Users : ManualReads(j, u)) \/ JobWork(j)
    PROVE  TypeOK'
<1> USE SyncQueueAssumption
<1>0. worker[j] \in WorkerState /\ j \in Workers
  BY DEF TypeOK
<1>1. ASSUME NEW u \in Users, ManualReads(j, u) PROVE TypeOK'
  <2>1. [Idle EXCEPT !.pc = "create", !.user = u] \in WorkerState
    BY IdleType DEF WorkerState
  <2>2. ASSUME NEW g \in Newest(OpenGens(u))
        PROVE [Idle EXCEPT !.pc = "promote", !.user = u, !.gen = g] \in WorkerState
    <3>1. g \in 0..MaxGens
      BY DEF Newest, OpenGens
    <3> QED BY IdleType, <3>1 DEF WorkerState
  <2>3. worker' \in [Workers -> WorkerState]
    BY <1>0, <1>1, <2>1, <2>2, StepType DEF ManualReads
  <2> QED BY <1>1, <2>3 DEF ManualReads, TypeOK, db, clock
<1>2. CASE ManualPromotes(j)
  <2>1. [worker[j] EXCEPT !.pc = "begin"] \in WorkerState
    BY <1>0 DEF WorkerState
  <2>2. worker' \in [Workers -> WorkerState]
    BY <1>0, <1>2, <2>1, StepType DEF ManualPromotes
  <2>3. /\ next' \in [Users -> Nat]
        /\ inProgress' \in [Users -> {"no", "yes", "stale"}]
        /\ manualRunning' \in [Users -> BOOLEAN]
    BY <1>2 DEF ManualPromotes, TypeOK
  <2> QED BY <1>2, <2>2, <2>3 DEF ManualPromotes, TypeOK, clock
<1>3. CASE ManualCreates(j)
  <2>1. lastGen + 1 \in 0..MaxGens
    BY <1>3 DEF ManualCreates, TypeOK
  <2>2. [worker[j] EXCEPT !.pc = "begin", !.gen = lastGen + 1] \in WorkerState
    BY <1>0, <2>1 DEF WorkerState
  <2>3. worker' \in [Workers -> WorkerState]
    BY <1>0, <1>3, <2>2, StepType DEF ManualCreates
  <2>4. manualRunning' \in [Users -> BOOLEAN]
    BY <1>3 DEF ManualCreates, TypeOK
  <2> QED BY <1>3, <2>3, <2>4, CreateType DEF ManualCreates, TypeOK, clock
<1>4. CASE ManualBegins(j)
  <2>1. [worker[j] EXCEPT !.pc = "start"] \in WorkerState
    BY <1>0 DEF WorkerState
  <2>2. worker' \in [Workers -> WorkerState]
    BY <1>0, <1>4, <2>1, IdleType, StepType DEF ManualBegins
  <2>3. manualRunning' \in [Users -> BOOLEAN]
    BY <1>4 DEF ManualBegins, TypeOK
  <2>4. member' = member \/ member' = [member EXCEPT ![worker[j].gen][worker[j].user] = "running"]
    BY <1>4 DEF ManualBegins
  <2>5. member' \in [Gens -> [Users -> MemberStates]]
    BY <2>4, ClaimType DEF TypeOK
  <2> QED BY <1>4, <2>2, <2>3, <2>5 DEF ManualBegins, TypeOK, clock
<1>5. CASE ManualSeeks(j)
  <2>1. /\ [worker[j] EXCEPT !.pc = "advance"] \in WorkerState
        /\ [worker[j] EXCEPT !.pc = "begin"] \in WorkerState
    BY <1>0 DEF WorkerState
  <2>2. worker' \in [Workers -> WorkerState]
    BY <1>0, <1>5, <2>1, StepType DEF ManualSeeks
  <2>3. manualRunning' \in [Users -> BOOLEAN]
    BY <1>5 DEF ManualSeeks, TypeOK
  <2> QED BY <1>5, <2>2, <2>3 DEF ManualSeeks, TypeOK, db, clock
<1> QED BY <1>1, <1>2, <1>3, <1>4, <1>5 DEF JobWork

\* The other routes, the clock and restarts keep the types.
LEMMA OutsideType ==
    ASSUME TypeOK, OtherRoutes \/ Environment
    PROVE  TypeOK'
<1> USE SyncQueueAssumption
<1>1. ASSUME NEW u \in ResetUsers,
             Deactivate(u) \/ Reactivate(u) \/ ResetRoster(u) \/ CredentialSaveFails(u)
      PROVE  TypeOK'
  <2>1. CASE Deactivate(u)
    BY <2>1 DEF Deactivate, TypeOK, threads, clock
  <2>2. CASE Reactivate(u)
    BY <2>2 DEF Reactivate, TypeOK, threads, clock
  <2>3. CASE ResetRoster(u)
    BY <2>3 DEF ResetRoster, TypeOK, threads, clock
  <2> QED BY <1>1, <2>1, <2>2, <2>3 DEF CredentialSaveFails
<1>2. CASE Tick
  BY <1>2 DEF Tick, TypeOK, db, threads
<1>3. ASSUME NEW u \in Users, ClaimAges(u) PROVE TypeOK'
  BY <1>3 DEF ClaimAges, TypeOK, threads, clock
<1>4. CASE TargetPasses
  BY <1>4 DEF TargetPasses, TypeOK, db, threads
<1>5. CASE WindowMoves
  BY <1>5 DEF WindowMoves, TypeOK, db, threads
<1>6. CASE Restart
  <2>1. member' \in [Gens -> [Users -> MemberStates]]
    BY <1>6 DEF Restart, RecoverGenerations, TypeOK
  <2>2. status' \in [Gens -> {"none", "pending", "complete", "error"}]
    BY <1>6, SettledType DEF Restart, RecoverGenerations, TypeOK
  <2>3. worker' \in [Workers -> WorkerState] /\ plan' \in PlanState
    BY <1>6, IdleType DEF Restart, RestartThreads, NoPlan, PlanState
  <2> QED BY <1>6, <2>1, <2>2, <2>3 DEF Restart, RestartThreads, TypeOK
<1> QED BY <1>1, <1>2, <1>3, <1>4, <1>5, <1>6 DEF OtherRoutes, Environment

\* The initial state is well typed.
LEMMA InitType ==
    ASSUME Init
    PROVE  TypeOK
BY SyncQueueAssumption, IdleType DEF Init, TypeOK, NoPlan, PlanState

\* Every step keeps the types.
LEMMA TypeStep ==
    ASSUME TypeOK, [Next]_vars
    PROVE  TypeOK'
<1>1. CASE UNCHANGED vars
  BY <1>1 DEF vars, db, threads, clock, TypeOK
<1>2. CASE Next
  BY <1>2, PlanningType, RunnerWorkType, ManualType, MemberWorkType, OutsideType DEF Next
<1> QED BY <1>1, <1>2

\* Every reachable state is well typed: for any number of accounts and jobs the
\* queue rows, the threads and the bounded counters stay in their ranges.
THEOREM TypeCorrect == Spec => []TypeOK
<1>1. Init => TypeOK
  BY InitType
<1>2. TypeOK /\ [Next]_vars => TypeOK'
  BY TypeStep
<1> QED BY <1>1, <1>2, PTL DEF Spec

-----------------------------------------------------------------------------
(* The inductive invariant.  The properties of the generation tables alone  *)
(* are not inductive: that a planner holding the lock finds no scheduled    *)
(* generation pending, and that a thread past its claim holds a running     *)
(* member, is what keeps them.                                              *)

Holding == {"start", "capture", "finish", "mark"}
Known == Holding \cup {"claim", "promote", "advance", "begin"}

\* Rows that do not exist yet are blank, and the two properties of those that do.
TablesInv ==
    /\ \A g \in Gens : g > lastGen =>
          kind[g] = "none" /\ status[g] = "none" /\ \A u \in Users : member[g][u] = "absent"
    /\ SingleActiveScheduled
    /\ SettledByMembers

\* Between a planner's check and its insert no scheduled generation appears.
PlanExclusive ==
    /\ plan.by # "none" => ~ActiveScheduled /\ plan.planned \cup plan.left # {}
    /\ plan.by = "runner" => worker[Runner].pc = "ensure"

\* A thread working on a member names a generation that exists and an account.
KnownRecord(r, last) ==
    /\ r.pc \in Known => r.gen \in 1..last /\ r.user \in Users
    /\ r.pc = "create" => r.user \in Users

WorkersKnow == \A w \in Workers : KnownRecord(worker[w], lastGen)

IInv == TypeOK /\ TablesInv /\ PlanExclusive /\ WorkersKnow /\ RunningIsHeld

\* SettledStatus reads its argument at the accounts only.
LEMMA SettledCong ==
    ASSUME NEW m, NEW n, \A u \in Users : m[u] = n[u]
    PROVE  SettledStatus(m) = SettledStatus(n)
BY DEF SettledStatus

\* A step of the ledger keeps the properties of the tables.
LEMMA LedgerKeepsTables ==
    ASSUME TypeOK, TypeOK', TablesInv, [Ledger!Next]_(Ledger!ledger)
    PROVE  TablesInv'
<1> USE SyncQueueAssumption DEF Ledger!Gens, Ledger!Terminal
<1>0. lastGen \in Nat /\ 1..lastGen \subseteq Gens
  BY DEF TypeOK
<1>1. CASE UNCHANGED Ledger!ledger
  BY <1>1 DEF Ledger!ledger, TablesInv, SingleActiveScheduled, SettledByMembers, SettledStatus
<1>2. ASSUME NEW k \in {"scheduled", "manual"}, NEW S \in SUBSET Users, Ledger!Dispatch(k, S)
      PROVE  TablesInv'
  <2>1. PICK u \in S : TRUE
    BY <1>2 DEF Ledger!Dispatch
  <2>2. /\ lastGen' = lastGen + 1 /\ lastGen + 1 \in Gens
        /\ kind' = [kind EXCEPT ![lastGen + 1] = k]
        /\ status' = [status EXCEPT ![lastGen + 1] = "pending"]
        /\ member'[lastGen + 1] = [v \in Users |-> IF v \in S THEN "pending" ELSE "absent"]
        /\ \A g \in Gens : g # lastGen + 1 => member'[g] = member[g]
    BY <1>2 DEF Ledger!Dispatch, TypeOK
  <2>3. SettledByMembers'
    <3>1. SettledStatus(member'[lastGen + 1]) = "pending"
      BY <2>1, <2>2 DEF SettledStatus
    <3>2. ASSUME NEW g \in 1..lastGen PROVE status'[g] = SettledStatus(member'[g])
      BY <2>2 DEF TablesInv, SettledByMembers, TypeOK
    <3> QED BY <2>2, <3>1, <3>2 DEF SettledByMembers, SettledStatus, TypeOK
  <2>4. SingleActiveScheduled'
    BY <1>2, <2>2 DEF Ledger!Dispatch, TablesInv, SingleActiveScheduled, TypeOK
  <2> QED BY <2>2, <2>3, <2>4 DEF TablesInv, TypeOK
<1>3. ASSUME NEW h \in Gens, NEW v \in Users, Ledger!Claim(h, v) PROVE TablesInv'
  <2>1. /\ member'[h] = [member[h] EXCEPT ![v] = "running"] /\ member[h][v] = "pending"
        /\ \A g \in Gens : g # h => member'[g] = member[g]
        /\ UNCHANGED <<lastGen, kind, status>>
    BY <1>3 DEF Ledger!Claim, TypeOK
  <2>2. SettledStatus(member'[h]) = SettledStatus(member[h])
    BY <2>1 DEF SettledStatus, TypeOK
  <2>3. SettledByMembers'
    BY <1>0, <2>1, <2>2 DEF TablesInv, SettledByMembers
  <2>4. h <= lastGen
    BY <2>1 DEF TablesInv, TypeOK
  <2> QED BY <2>1, <2>3, <2>4 DEF TablesInv, SingleActiveScheduled, TypeOK
<1>4. ASSUME NEW h \in Gens, NEW v \in Users, NEW s \in Terminal, Ledger!End(h, v, s)
      PROVE  TablesInv'
  <2>1. /\ status[h] = "pending" /\ status' = [status EXCEPT ![h] = SettledStatus(member'[h])]
        /\ \A g \in Gens : g # h => member'[g] = member[g]
        /\ UNCHANGED <<lastGen, kind>>
    BY <1>4 DEF Ledger!End, Ledger!Verdict, SettledStatus, TypeOK
  <2>2. h <= lastGen
    BY <2>1 DEF TablesInv, TypeOK
  <2>3. SettledByMembers'
    BY <1>0, <2>1 DEF TablesInv, SettledByMembers, TypeOK
  <2> QED BY <2>1, <2>2, <2>3 DEF TablesInv, SingleActiveScheduled, TypeOK
<1>5. ASSUME Ledger!Recover PROVE TablesInv'
  <2>1. /\ UNCHANGED <<lastGen, kind>>
        /\ \A g \in Gens : status'[g] = IF status[g] = "pending" THEN SettledStatus(member'[g])
                                        ELSE status[g]
        /\ \A g \in Gens, u \in Users :
              member'[g][u] = IF member[g][u] = "running" THEN "error" ELSE member[g][u]
    BY <1>5 DEF Ledger!Recover, Ledger!Verdict, SettledStatus
  <2>2. SettledByMembers'
    <3>1. ASSUME NEW g \in 1..lastGen, status[g] # "pending"
          PROVE  SettledStatus(member'[g]) = SettledStatus(member[g])
      <4>1. SettledStatus(member[g]) # "pending"
        BY <3>1 DEF TablesInv, SettledByMembers
      <4>2. \A u \in Users : member[g][u] # "running"
        BY <4>1 DEF SettledStatus
      <4>3. \A u \in Users : member'[g][u] = member[g][u]
        BY <1>0, <2>1, <4>2
      <4> QED BY <4>3, SettledCong
    <3>2. \A g \in 1..lastGen : status'[g] = SettledStatus(member'[g])
      BY <1>0, <2>1, <3>1 DEF TablesInv, SettledByMembers
    <3> QED BY <2>1, <3>2 DEF SettledByMembers
  <2>3. \A g \in Gens : status'[g] = "pending" => status[g] = "pending"
    BY <2>1
  <2>4. SingleActiveScheduled'
    BY <2>1, <2>3 DEF TablesInv, SingleActiveScheduled
  <2>5. ASSUME NEW g \in Gens, g > lastGen
        PROVE  /\ kind'[g] = "none" /\ status'[g] = "none"
               /\ \A u \in Users : member'[g][u] = "absent"
    BY <2>1, <2>5 DEF TablesInv
  <2> QED BY <2>1, <2>2, <2>4, <2>5 DEF TablesInv
<1> QED BY <1>1, <1>2, <1>3, <1>4, <1>5 DEF Ledger!Next

-----------------------------------------------------------------------------
(* Threads and the members they hold                                        *)

\* Replacing one record by a knowing one keeps all threads knowing.
LEMMA KnowStep ==
    ASSUME TypeOK, WorkersKnow, NEW w \in Workers, NEW r, Step(w, r),
           lastGen' \in Nat, lastGen <= lastGen', KnownRecord(r, lastGen')
    PROVE  WorkersKnow'
<1>1. SUFFICES ASSUME NEW v \in Workers PROVE KnownRecord(worker'[v], lastGen')
  BY DEF WorkersKnow
<1>2. CASE v = w
  BY <1>2 DEF Step, TypeOK
<1>3. CASE v # w
  <2>1. worker'[v] = worker[v] /\ KnownRecord(worker[v], lastGen)
    BY <1>3 DEF Step, TypeOK, WorkersKnow
  <2>2. 1..lastGen \subseteq 1..lastGen'
    BY DEF TypeOK
  <2> QED BY <2>1, <2>2 DEF KnownRecord
<1> QED BY <1>2, <1>3

\* A step that changes which members run nowhere, by a thread that holds no
\* member or keeps the one it has, keeps running members held.
LEMMA QuietHold ==
    ASSUME TypeOK, RunningIsHeld, NEW w \in Workers, NEW r, Step(w, r),
           \A g \in Gens, u \in Users : (member'[g][u] = "running") <=> (member[g][u] = "running"),
           \/ worker[w].pc \notin Holding /\ r.pc \notin Holding
           \/ /\ worker[w].pc \in Holding /\ r.pc \in Holding
              /\ r.gen = worker[w].gen /\ r.user = worker[w].user
    PROVE  RunningIsHeld'
<1>1. ASSUME NEW g \in Gens, NEW u \in Users PROVE Holders(g, u)' = Holders(g, u)
  BY DEF Holders, Holding, Step, TypeOK
<1> QED BY <1>1 DEF RunningIsHeld

\* A claim gives the member to its claimant alone.
LEMMA ClaimHold ==
    ASSUME TypeOK, RunningIsHeld, NEW w \in Workers, NEW h \in Gens, NEW v \in Users, NEW r,
           Step(w, r), worker[w].pc \notin Holding, r.pc \in Holding, r.gen = h, r.user = v,
           member[h][v] = "pending", member' = [member EXCEPT ![h][v] = "running"]
    PROVE  RunningIsHeld'
<1>1. SUFFICES ASSUME NEW g \in Gens, NEW u \in Users
               PROVE  /\ (member'[g][u] = "running") <=> (Holders(g, u)' # {})
                      /\ \A x, y \in Holders(g, u)' : x = y
  BY DEF RunningIsHeld
<1>2. CASE g = h /\ u = v
  <2>1. Holders(h, v) = {}
    BY DEF RunningIsHeld
  <2>2. Holders(g, u)' = {w}
    BY <1>2, <2>1 DEF Holders, Holding, Step, TypeOK
  <2> QED BY <1>2, <2>2 DEF TypeOK
<1>3. CASE ~(g = h /\ u = v)
  <2>1. Holders(g, u)' = Holders(g, u)
    BY <1>3 DEF Holders, Holding, Step, TypeOK
  <2>2. member'[g][u] = member[g][u]
    BY <1>3 DEF TypeOK
  <2> QED BY <2>1, <2>2 DEF RunningIsHeld
<1> QED BY <1>2, <1>3

\* Marking a held member frees it.
LEMMA MarkHold ==
    ASSUME TypeOK, RunningIsHeld, NEW w \in Workers, NEW h \in Gens, NEW v \in Users, NEW r,
           NEW s \in Terminal, Step(w, r), worker[w].pc \in Holding, r.pc \notin Holding,
           worker[w].gen = h, worker[w].user = v, member' = [member EXCEPT ![h][v] = s]
    PROVE  RunningIsHeld'
<1>1. SUFFICES ASSUME NEW g \in Gens, NEW u \in Users
               PROVE  /\ (member'[g][u] = "running") <=> (Holders(g, u)' # {})
                      /\ \A x, y \in Holders(g, u)' : x = y
  BY DEF RunningIsHeld
<1>2. CASE g = h /\ u = v
  <2>1. w \in Holders(h, v) /\ \A x, y \in Holders(h, v) : x = y
    BY DEF RunningIsHeld, Holders, Holding
  <2>2. Holders(g, u)' = {}
    BY <1>2, <2>1 DEF Holders, Holding, Step, TypeOK
  <2>3. member'[g][u] = s
    BY <1>2 DEF TypeOK
  <2> QED BY <2>2, <2>3
<1>3. CASE ~(g = h /\ u = v)
  <2>1. Holders(g, u)' = Holders(g, u)
    BY <1>3 DEF Holders, Holding, Step, TypeOK
  <2>2. member'[g][u] = member[g][u]
    BY <1>3 DEF TypeOK
  <2> QED BY <2>1, <2>2 DEF RunningIsHeld
<1> QED BY <1>2, <1>3

-----------------------------------------------------------------------------
(* Every action is a ledger step or leaves the ledger alone, and keeps the  *)
(* rest of the inductive invariant.                                         *)

StepOK == [Ledger!Next]_(Ledger!ledger) /\ PlanExclusive' /\ WorkersKnow' /\ RunningIsHeld'

\* A thread that holds no member, or keeps the one it has, moves on while the
\* tables and the planner stay.
LEMMA QuietStep ==
    ASSUME IInv, NEW w \in Workers, NEW r, Step(w, r), UNCHANGED <<lastGen, kind, status, member, plan>>,
           KnownRecord(r, lastGen),
           \/ worker[w].pc \notin Holding /\ r.pc \notin Holding
           \/ /\ worker[w].pc \in Holding /\ r.pc \in Holding
              /\ r.gen = worker[w].gen /\ r.user = worker[w].user,
           worker[w].pc # "ensure" \/ plan.by # "runner"
    PROVE  StepOK
<1>1. WorkersKnow'
  <2>1. lastGen' \in Nat /\ lastGen <= lastGen'
    BY DEF IInv, TypeOK
  <2> QED BY <2>1, KnowStep DEF IInv
<1>2. RunningIsHeld'
  BY QuietHold DEF IInv
<1>3. PlanExclusive'
  BY DEF IInv, TypeOK, PlanExclusive, ActiveScheduled, Step
<1> QED BY <1>1, <1>2, <1>3 DEF StepOK, Ledger!ledger

\* No thread moves and the tables stay.
LEMMA StillStep ==
    ASSUME IInv, UNCHANGED <<lastGen, kind, status, member, worker>>, PlanExclusive'
    PROVE  StepOK
<1>1. WorkersKnow'
  BY DEF IInv, WorkersKnow
<1>2. RunningIsHeld'
  BY DEF IInv, RunningIsHeld, Holders
<1> QED BY <1>1, <1>2 DEF StepOK, Ledger!ledger

\* Open generations exist.
LEMMA OpenExist ==
    ASSUME IInv, NEW u \in Users, NEW g \in Newest(OpenGens(u))
    PROVE  g \in 1..lastGen
BY DEF IInv, TypeOK, TablesInv, Newest, OpenGens

\* Planning: the plan lock keeps a scheduled dispatch exclusive.
LEMMA PlanningStep ==
    ASSUME IInv, Planning
    PROVE  StepOK
<1>1. ASSUME NEW by, by # "runner", PlanBegins(by) PROVE StepOK
  <2>1. PlanExclusive'
    BY <1>1 DEF PlanBegins, PlanExclusive, ActiveScheduled, db
  <2> QED BY <1>1, <2>1, StillStep DEF PlanBegins, db
<1>2. ASSUME NEW by, by # "runner", PlanCoalesces(by) PROVE StepOK
  <2>1. PlanExclusive'
    BY <1>2 DEF PlanCoalesces, PlanReturns, PlanExclusive, ActiveScheduled, IInv, db
  <2> QED BY <1>2, <2>1, StillStep DEF PlanCoalesces, PlanReturns, db
<1>3. ASSUME NEW u \in Users, PlanUser(u) PROVE StepOK
  <2>1. PlanExclusive'
    <3>1. plan'.by = plan.by /\ plan'.planned \cup plan'.left = plan.planned \cup plan.left
      BY <1>3 DEF PlanUser, IInv, TypeOK, PlanState
    <3> QED BY <1>3, <3>1 DEF PlanUser, IInv, PlanExclusive, ActiveScheduled
  <2> QED BY <1>3, <2>1, StillStep DEF PlanUser
<1>4. ASSUME PlanEnds PROVE StepOK
  <2>1. /\ plan.planned \in SUBSET Users /\ plan.planned # {} /\ ~ActiveScheduled
        /\ lastGen < MaxGens /\ CreateGeneration("scheduled", plan.planned)
    BY <1>4 DEF PlanEnds, IInv, TypeOK, PlanState, PlanExclusive
  <2>2. Ledger!Next
    <3>1. Ledger!Dispatch("scheduled", plan.planned)
      BY <2>1 DEF CreateGeneration, ActiveScheduled, Ledger!Dispatch, Ledger!Gens
    <3> QED BY <2>1, <3>1 DEF Ledger!Next
  <2>3. PlanExclusive'
    BY <1>4 DEF PlanEnds, NoPlan, PlanExclusive
  <2>4. lastGen \in Nat /\ lastGen' = lastGen + 1
    BY <2>1 DEF CreateGeneration, IInv, TypeOK
  <2>5. \A g \in Gens, u \in Users : (member'[g][u] = "running") <=> (member[g][u] = "running")
    <3>1. \A u \in Users : member[lastGen + 1][u] = "absent"
      BY <2>1, <2>4, SyncQueueAssumption DEF IInv, TypeOK, TablesInv
    <3> QED BY <2>1, <2>4, <3>1 DEF CreateGeneration, IInv, TypeOK
  <2>6. CASE plan.by = "runner"
    <3> DEFINE r == [worker[Runner] EXCEPT !.pc = "query"]
    <3>1. Step(Runner, r) /\ worker[Runner].pc = "ensure"
      BY <1>4, <2>6 DEF PlanEnds, PlanReturns, Step, IInv, PlanExclusive
    <3>2. r.pc = "query"
      BY DEF IInv, TypeOK, WorkerState
    <3>3. KnownRecord(r, lastGen')
      BY <3>2 DEF KnownRecord, Known, Holding
    <3> HIDE DEF r
    <3>4. WorkersKnow'
      <4>1. lastGen' \in Nat /\ lastGen <= lastGen' /\ Runner \in Workers /\ TypeOK /\ WorkersKnow
        BY <2>4 DEF IInv, Workers
      <4> QED BY <3>1, <3>3, <4>1, KnowStep
    <3>5. RunningIsHeld'
      BY <2>5, <3>1, <3>2, QuietHold DEF IInv, Holding
    <3> QED BY <2>2, <2>3, <3>4, <3>5 DEF StepOK
  <2>7. CASE plan.by # "runner"
    <3>1. worker' = worker
      BY <1>4, <2>7 DEF PlanEnds, PlanReturns
    <3>2. WorkersKnow'
      BY <2>4, <3>1 DEF IInv, WorkersKnow, KnownRecord
    <3>3. RunningIsHeld'
      BY <2>5, <3>1 DEF IInv, RunningIsHeld, Holders
    <3> QED BY <2>2, <2>3, <3>2, <3>3 DEF StepOK
  <2> QED BY <2>6, <2>7
<1> QED BY <1>1, <1>2, <1>3, <1>4 DEF Planning, StartupPlan, DailyDispatch, CheckPreShift

\* A claim, by the runner or a job, is a ledger claim.
LEMMA ClaimStep ==
    ASSUME IInv, NEW w \in Workers, worker[w].pc \in {"claim", "begin"},
           member[worker[w].gen][worker[w].user] = "pending",
           Step(w, [worker[w] EXCEPT !.pc = "start"]),
           member' = [member EXCEPT ![worker[w].gen][worker[w].user] = "running"],
           UNCHANGED <<lastGen, kind, status, plan>>
    PROVE  StepOK
<1> DEFINE r == worker[w]
           c == [r EXCEPT !.pc = "start"]
<1>1. r.gen \in 1..lastGen /\ r.user \in Users /\ lastGen \in 0..MaxGens /\ MaxGens \in Nat
  BY SyncQueueAssumption DEF IInv, TypeOK, WorkersKnow, KnownRecord, Known
<1>2. r.gen \in Gens
  BY <1>1 DEF Gens
<1>3. c.pc = "start" /\ c.gen = r.gen /\ c.user = r.user
  BY DEF IInv, TypeOK, WorkerState
<1>4. RunningIsHeld'
  <2> HIDE DEF c
  <2> QED BY <1>1, <1>2, <1>3, ClaimHold DEF IInv, Holding, c
<1>5. WorkersKnow'
  <2>1. KnownRecord(c, lastGen') /\ lastGen' \in Nat /\ lastGen <= lastGen'
    BY <1>1, <1>3 DEF KnownRecord, Known
  <2> HIDE DEF c
  <2> QED BY <2>1, KnowStep DEF IInv, c
<1>6. PlanExclusive'
  BY DEF IInv, TypeOK, PlanExclusive, ActiveScheduled, Step
<1>7. Ledger!Next
  <2>1. status[r.gen] = "pending"
    BY <1>1 DEF IInv, TablesInv, SettledByMembers, SettledStatus
  <2>2. Ledger!Claim(r.gen, r.user)
    BY <2>1 DEF Ledger!Claim
  <2> QED BY <1>1, <1>2, <2>2 DEF Ledger!Next, Ledger!Gens, Gens
<1> QED BY <1>4, <1>5, <1>6, <1>7 DEF StepOK

\* The runner: between picking and claiming it holds nothing; a claim is a
\* ledger claim.
LEMMA RunnerStep ==
    ASSUME IInv, RunnerWork
    PROVE  StepOK
<1>0. Runner \in Workers /\ worker[Runner] \in WorkerState /\ KnownRecord(worker[Runner], lastGen)
  BY DEF IInv, TypeOK, WorkersKnow
<1>1. ASSUME NEW r, r.pc \in {"ensure", "query", "pick", "idle"}, Step(Runner, r),
             UNCHANGED <<db, proven, plan, manualRunning, clock>>,
             worker[Runner].pc \in {"idle", "query", "pick"} \/ plan.by # "runner",
             worker[Runner].pc \notin Holding
      PROVE  StepOK
  <2>1. KnownRecord(r, lastGen)
    BY <1>1 DEF KnownRecord, Known, Holding
  <2> QED BY <1>0, <1>1, <2>1, QuietStep DEF Holding, db
<1>2. CASE RunnerBegins
  BY <1>1, <1>2 DEF RunnerBegins, Idle, Holding
<1>3. CASE RunnerEnsures
  <2>1. CASE PlanBegins("runner")
    <3>1. PlanExclusive'
      BY <1>3, <2>1 DEF RunnerEnsures, PlanBegins, PlanExclusive, ActiveScheduled, db
    <3> QED BY <2>1, <3>1, StillStep DEF PlanBegins, db
  <2>2. CASE ~PlanBegins("runner")
    BY <1>1, <1>3, <2>2 DEF RunnerEnsures, Idle, Holding
  <2> QED BY <2>1, <2>2
<1>4. CASE RunnerQueries
  <2>1. worker[Runner].pc = "query" /\ UNCHANGED <<db, proven, plan, manualRunning, clock>>
    BY <1>4 DEF RunnerQueries
  <2>2. ASSUME NEW S, Step(Runner, [Idle EXCEPT !.pc = "pick", !.todo = S]) PROVE StepOK
    <3> DEFINE r == [Idle EXCEPT !.pc = "pick", !.todo = S]
    <3>1. r.pc = "pick" /\ Step(Runner, r)
      BY <2>2 DEF Idle
    <3> HIDE DEF r
    <3> QED BY <1>1, <2>1, <3>1 DEF Holding
  <2> QED BY <1>4, <2>2 DEF RunnerQueries
<1>5. CASE RunnerEnds
  BY <1>1, <1>5 DEF RunnerEnds, Idle, Holding
<1>6. ASSUME NEW u \in Users, RunnerPicks(u) PROVE StepOK
  <2> DEFINE r == [Idle EXCEPT !.pc = "pick", !.todo = worker[Runner].todo \ {u}]
  <2>1. CASE Step(Runner, r)
    <3>1. r.pc = "pick" /\ Step(Runner, r)
      BY <2>1 DEF Idle
    <3>2. worker[Runner].pc = "pick" /\ UNCHANGED <<db, proven, plan, manualRunning, clock>>
      BY <1>6 DEF RunnerPicks
    <3> HIDE DEF r
    <3> QED BY <1>1, <3>1, <3>2 DEF Holding
  <2>2. ASSUME NEW g \in Newest(OpenGens(u)), Step(Runner, [r EXCEPT !.pc = "claim", !.user = u, !.gen = g])
        PROVE  StepOK
    <3> DEFINE c == [r EXCEPT !.pc = "claim", !.user = u, !.gen = g]
    <3>1. c.pc = "claim" /\ c.user = u /\ c.gen = g
      BY DEF Idle
    <3>2. g \in 1..lastGen
      BY OpenExist
    <3> HIDE DEF c
    <3>3. KnownRecord(c, lastGen)
      BY <3>1, <3>2 DEF KnownRecord
    <3>4. Step(Runner, c) /\ worker[Runner].pc = "pick"
      BY <1>6, <2>2 DEF RunnerPicks, c
    <3>5. UNCHANGED <<lastGen, kind, status, member, plan>>
      BY <1>6 DEF RunnerPicks, db
    <3> QED BY <1>0, <3>1, <3>3, <3>4, <3>5, QuietStep DEF Holding
  <2> QED BY <1>6, <2>1, <2>2 DEF RunnerPicks
<1>7. CASE RunnerClaims
  <2> DEFINE r == worker[Runner]
             c == [Idle EXCEPT !.pc = "pick", !.todo = r.todo]
  <2>1. r.pc = "claim" /\ UNCHANGED <<lastGen, kind, status, plan>>
    BY <1>7 DEF RunnerClaims
  <2>2. CASE member[r.gen][r.user] = "pending"
    BY <1>0, <1>7, <2>1, <2>2, ClaimStep DEF RunnerClaims
  <2>3. CASE member[r.gen][r.user] # "pending"
    <3>1. Step(Runner, c) /\ member' = member
      BY <1>7, <2>3 DEF RunnerClaims
    <3>2. c.pc = "pick" /\ KnownRecord(c, lastGen)
      BY DEF Idle, KnownRecord, Known, Holding
    <3> HIDE DEF c
    <3> QED BY <1>0, <2>1, <3>1, <3>2, QuietStep DEF Holding
  <2> QED BY <2>2, <2>3
<1> QED BY <1>2, <1>3, <1>4, <1>5, <1>6, <1>7 DEF RunnerWork

\* Manual requests: a request without an open member is a manual dispatch, a
\* job's start a claim; the rest leaves the ledger alone.
LEMMA ManualStep ==
    ASSUME IInv, NEW j \in Jobs, (\E u \in Users : ManualReads(j, u)) \/ JobWork(j)
    PROVE  StepOK
<1>0. j \in Workers /\ j # Runner /\ worker[j] \in WorkerState /\ KnownRecord(worker[j], lastGen)
  BY SyncQueueAssumption DEF IInv, TypeOK, WorkersKnow, Workers
<1>1. ASSUME NEW r, Step(j, r), KnownRecord(r, lastGen), r.pc \notin Holding,
             worker[j].pc \in {"idle", "promote", "advance", "create", "begin"},
             UNCHANGED <<lastGen, kind, status, member, plan>>
      PROVE  StepOK
  BY <1>0, <1>1, QuietStep DEF Holding
<1>2. ASSUME NEW u \in Users, ManualReads(j, u) PROVE StepOK
  <2>1. worker[j].pc = "idle" /\ UNCHANGED <<lastGen, kind, status, member, plan>>
    BY <1>2 DEF ManualReads, db
  <2>2. ASSUME Step(j, [Idle EXCEPT !.pc = "create", !.user = u]) PROVE StepOK
    <3> DEFINE r == [Idle EXCEPT !.pc = "create", !.user = u]
    <3>1. r.pc = "create" /\ r.user = u
      BY DEF Idle
    <3>2. KnownRecord(r, lastGen)
      BY <3>1 DEF KnownRecord, Known, Holding
    <3> HIDE DEF r
    <3> QED BY <1>1, <2>1, <2>2, <3>1, <3>2 DEF Holding, r
  <2>3. ASSUME NEW g \in Newest(OpenGens(u)),
               Step(j, [Idle EXCEPT !.pc = "promote", !.user = u, !.gen = g])
        PROVE  StepOK
    <3> DEFINE r == [Idle EXCEPT !.pc = "promote", !.user = u, !.gen = g]
    <3>1. r.pc = "promote" /\ r.user = u /\ r.gen = g
      BY DEF Idle
    <3>2. KnownRecord(r, lastGen)
      <4>1. g \in 1..lastGen
        BY OpenExist
      <4> QED BY <3>1, <4>1 DEF KnownRecord
    <3> HIDE DEF r
    <3> QED BY <1>1, <2>1, <2>3, <3>1, <3>2 DEF Holding, r
  <2> QED BY <1>2, <2>2, <2>3 DEF ManualReads
<1>3. CASE ManualPromotes(j)
  <2> DEFINE r == [worker[j] EXCEPT !.pc = "begin"]
  <2>1. /\ worker[j].pc = "advance" /\ Step(j, r)
        /\ UNCHANGED <<lastGen, kind, status, member, plan>>
    BY <1>3 DEF ManualPromotes
  <2>2. r.pc = "begin" /\ r.gen = worker[j].gen /\ r.user = worker[j].user
    BY <1>0 DEF WorkerState
  <2>3. KnownRecord(r, lastGen)
    BY <1>0, <2>1, <2>2 DEF KnownRecord, Known
  <2> HIDE DEF r
  <2> QED BY <1>1, <2>1, <2>2, <2>3 DEF Holding
<1>4. CASE ManualCreates(j)
  <2> DEFINE r == [worker[j] EXCEPT !.pc = "begin", !.gen = lastGen + 1]
             u == worker[j].user
  <2>1. /\ worker[j].pc = "create" /\ u \in Users /\ Step(j, r) /\ UNCHANGED plan
        /\ CreateGeneration("manual", {u})
        /\ lastGen \in Nat /\ lastGen + 1 \in Gens /\ lastGen' = lastGen + 1
    BY <1>0, <1>4, SyncQueueAssumption DEF ManualCreates, KnownRecord, CreateGeneration, IInv, TypeOK, Gens
  <2>2. r.pc = "begin" /\ r.gen = lastGen + 1 /\ r.user = u
    BY <1>0 DEF WorkerState
  <2>3. KnownRecord(r, lastGen') /\ lastGen' \in Nat /\ lastGen <= lastGen'
    BY <2>1, <2>2 DEF KnownRecord
  <2>4. \A g \in Gens, v \in Users : (member'[g][v] = "running") <=> (member[g][v] = "running")
    <3>1. \A v \in Users : member[lastGen + 1][v] = "absent"
      BY <2>1 DEF IInv, TablesInv
    <3> QED BY <2>1, <3>1 DEF CreateGeneration, IInv, TypeOK
  <2>5. PlanExclusive'
    <3>1. ActiveScheduled' => ActiveScheduled
      BY <2>1 DEF CreateGeneration, ActiveScheduled, IInv, TypeOK
    <3>2. worker'[Runner] = worker[Runner]
      BY <1>0, <2>1 DEF Step, IInv, TypeOK, Workers
    <3> QED BY <2>1, <3>1, <3>2 DEF IInv, PlanExclusive
  <2>6. Ledger!Next
    <3>1. Ledger!Dispatch("manual", {u})
      BY <1>4, <2>1 DEF ManualCreates, CreateGeneration, Ledger!Dispatch
    <3> QED BY <2>1, <3>1 DEF Ledger!Next
  <2> HIDE DEF r
  <2>7. WorkersKnow'
    BY <1>0, <2>1, <2>3, KnowStep DEF IInv
  <2>8. RunningIsHeld'
    BY <1>0, <2>1, <2>2, <2>4, QuietHold DEF IInv, Holding
  <2> QED BY <2>5, <2>6, <2>7, <2>8 DEF StepOK
<1>5. CASE ManualBegins(j)
  <2> DEFINE r == worker[j]
  <2>1. CASE ~WorkerLockBusy /\ member[r.gen][r.user] = "pending"
    BY <1>0, <1>5, <2>1, ClaimStep DEF ManualBegins
  <2>2. CASE ~(~WorkerLockBusy /\ member[r.gen][r.user] = "pending")
    <3>1. Step(j, Idle) /\ r.pc = "begin" /\ UNCHANGED <<lastGen, kind, status, member, plan>>
      BY <1>5, <2>2 DEF ManualBegins
    <3>2. KnownRecord(Idle, lastGen) /\ Idle.pc = "idle"
      BY DEF Idle, KnownRecord, Known, Holding
    <3> QED BY <1>1, <3>1, <3>2 DEF Holding
  <2> QED BY <2>1, <2>2
<1>6. CASE ManualSeeks(j)
  <2>1. ASSUME NEW pc \in {"advance", "begin"}, Step(j, [worker[j] EXCEPT !.pc = pc]) PROVE StepOK
    <3> DEFINE r == [worker[j] EXCEPT !.pc = pc]
    <3>1. worker[j].pc = "promote" /\ UNCHANGED <<lastGen, kind, status, member, plan>>
      BY <1>6 DEF ManualSeeks, db
    <3>2. r.pc = pc /\ r.gen = worker[j].gen /\ r.user = worker[j].user
      BY <1>0 DEF WorkerState
    <3>3. KnownRecord(r, lastGen)
      BY <1>0, <2>1, <3>1, <3>2 DEF KnownRecord, Known
    <3>4. Step(j, r)
      BY <2>1
    <3> HIDE DEF r
    <3> QED BY <1>1, <2>1, <3>1, <3>2, <3>3, <3>4 DEF Holding
  <2> QED BY <1>6, <2>1 DEF ManualSeeks
<1> QED BY <1>2, <1>3, <1>4, <1>5, <1>6 DEF JobWork

\* One claimed member: giving up and marking end it in the ledger.
LEMMA MemberStep ==
    ASSUME IInv, NEW w \in Workers, MemberWork(w)
    PROVE  StepOK
<1> DEFINE r == worker[w]
<1>0. r \in WorkerState /\ KnownRecord(r, lastGen)
  BY DEF IInv, TypeOK, WorkersKnow
<1>1. r.pc \in Holding /\ r.pc # "ensure" /\ r.gen \in 1..lastGen /\ r.user \in Users
  <2>1. r.pc \in Holding
    BY DEF MemberWork, Start, Capture, Finish, Mark, Holding
  <2> QED BY <1>0, <2>1 DEF KnownRecord, Known, Holding
<1>2. r.gen \in Gens /\ member[r.gen][r.user] = "running" /\ status[r.gen] = "pending"
  <2>1. r.gen \in Gens
    BY <1>1, SyncQueueAssumption DEF IInv, TypeOK
  <2>2. w \in Holders(r.gen, r.user)
    BY <1>1 DEF Holders, Holding
  <2>3. member[r.gen][r.user] = "running"
    BY <1>1, <2>1, <2>2 DEF IInv, RunningIsHeld
  <2> QED BY <1>1, <2>1, <2>3 DEF IInv, TablesInv, SettledByMembers, SettledStatus
<1>3. ASSUME NEW c, Step(w, c), c.pc \in Holding, c.gen = r.gen, c.user = r.user,
             UNCHANGED <<lastGen, kind, status, member, plan>>
      PROVE  StepOK
  <2>1. KnownRecord(c, lastGen)
    BY <1>1, <1>3 DEF KnownRecord, Holding
  <2> QED BY <1>1, <1>3, <2>1, QuietStep
<1>4. ASSUME NEW s \in Terminal, MarkMember(r.gen, r.user, s), Step(w, Done(w)),
             UNCHANGED <<lastGen, kind, plan>>
      PROVE  StepOK
  <2> DEFINE m == [member[r.gen] EXCEPT ![r.user] = s]
  <2>1. /\ member' = [member EXCEPT ![r.gen] = m]
        /\ status' = [status EXCEPT ![r.gen] = SettledStatus(m)]
    BY <1>2, <1>4 DEF MarkMember, IInv, TypeOK
  <2>2. member' = [member EXCEPT ![r.gen][r.user] = s] /\ member'[r.gen] = m
    BY <1>2, <2>1 DEF IInv, TypeOK
  <2>3. Done(w).pc \in {"idle", "pick"}
    BY DEF Done, Idle
  <2>4. Ledger!Next
    <3>1. SettledStatus(m) = Ledger!Verdict(m)
      BY DEF SettledStatus, Ledger!Verdict
    <3>2. Ledger!End(r.gen, r.user, s)
      BY <1>2, <1>4, <2>1, <2>2, <3>1 DEF Ledger!End
    <3> QED BY <1>1, <1>2, <3>2 DEF Ledger!Next, Ledger!Gens, Gens, Ledger!Terminal, Terminal
  <2>5. WorkersKnow'
    <3>1. KnownRecord(Done(w), lastGen') /\ lastGen' \in Nat /\ lastGen <= lastGen'
      BY <1>4, <2>3 DEF KnownRecord, Known, Holding, IInv, TypeOK
    <3> QED BY <1>4, <3>1, KnowStep DEF IInv
  <2>6. RunningIsHeld'
    BY <1>1, <1>2, <1>4, <2>2, <2>3, MarkHold DEF IInv, Holding
  <2>7. PlanExclusive'
    <3>1. ActiveScheduled' => ActiveScheduled
      BY <1>2, <1>4, <2>1 DEF ActiveScheduled, IInv, TypeOK
    <3>2. w # Runner \/ plan.by # "runner"
      BY <1>1 DEF IInv, PlanExclusive
    <3> QED BY <1>4, <3>1, <3>2 DEF IInv, TypeOK, PlanExclusive, Step, Workers
  <2> QED BY <2>4, <2>5, <2>6, <2>7 DEF StepOK
<1>5. CASE Start(w)
  <2>1. UNCHANGED <<lastGen, kind, plan>>
    BY <1>5 DEF Start
  <2>2. CASE inProgress[r.user] # "yes"
    <3>1. UNCHANGED <<lastGen, kind, status, member, plan>>
      BY <1>5, <2>2 DEF Start
    <3>2. ASSUME NEW s, Step(w, [r EXCEPT !.pc = "capture", !.shared = s]) PROVE StepOK
      <4> DEFINE c == [r EXCEPT !.pc = "capture", !.shared = s]
      <4>1. c.pc = "capture" /\ c.gen = r.gen /\ c.user = r.user /\ Step(w, c)
        BY <1>0, <3>2 DEF WorkerState
      <4> HIDE DEF c
      <4> QED BY <1>3, <3>1, <4>1 DEF Holding
    <3> QED BY <1>5, <2>2, <3>2 DEF Start
  <2>3. CASE inProgress[r.user] = "yes"
    BY <1>4, <1>5, <2>1, <2>3 DEF Start, Terminal
  <2> QED BY <2>2, <2>3
<1>6. CASE Capture(w)
  <2>1. UNCHANGED <<lastGen, kind, status, member, plan>>
    BY <1>6 DEF Capture, db
  <2>2. ASSUME NEW o, Step(w, [r EXCEPT !.pc = "finish", !.outcome = o]) PROVE StepOK
    <3> DEFINE c == [r EXCEPT !.pc = "finish", !.outcome = o]
    <3>1. c.pc = "finish" /\ c.gen = r.gen /\ c.user = r.user /\ Step(w, c)
      BY <1>0, <2>2 DEF WorkerState
    <3> HIDE DEF c
    <3> QED BY <1>3, <2>1, <3>1 DEF Holding
  <2> QED BY <1>6, <2>2 DEF Capture
<1>7. CASE Finish(w)
  <2> DEFINE c == [r EXCEPT !.pc = "mark"]
  <2>1. UNCHANGED <<lastGen, kind, status, member, plan>> /\ Step(w, c)
    BY <1>7 DEF Finish
  <2>2. c.pc = "mark" /\ c.gen = r.gen /\ c.user = r.user
    BY <1>0 DEF WorkerState
  <2> HIDE DEF c
  <2> QED BY <1>3, <2>1, <2>2 DEF Holding
<1>8. CASE Mark(w)
  BY <1>0, <1>4, <1>8 DEF Mark, WorkerState
<1> QED BY <1>5, <1>6, <1>7, <1>8 DEF MemberWork

\* Other routes and the clock leave the ledger alone; a restart recovers it and
\* leaves no thread behind.
LEMMA OutsideStep ==
    ASSUME IInv, OtherRoutes \/ Environment
    PROVE  StepOK
<1>1. ASSUME UNCHANGED <<lastGen, kind, status, member, worker, plan>> PROVE StepOK
  <2>1. PlanExclusive'
    BY <1>1 DEF IInv, PlanExclusive, ActiveScheduled
  <2> QED BY <1>1, <2>1, StillStep
<1>2. CASE OtherRoutes
  BY <1>1, <1>2 DEF OtherRoutes, Deactivate, Reactivate, ResetRoster, CredentialSaveFails, threads
<1>3. CASE Tick \/ (\E u \in Users : ClaimAges(u)) \/ TargetPasses \/ WindowMoves
  BY <1>1, <1>3 DEF Tick, ClaimAges, TargetPasses, WindowMoves, db, threads
<1>4. CASE Restart
  <2>1. /\ plan' = NoPlan /\ worker' = [w \in Workers |-> Idle] /\ UNCHANGED <<lastGen, kind>>
        /\ member' = [g \in Gens |-> [u \in Users |->
                         IF member[g][u] = "running" THEN "error" ELSE member[g][u]]]
        /\ status' = [g \in Gens |-> IF status[g] = "pending" THEN SettledStatus(member'[g])
                                     ELSE status[g]]
    BY <1>4 DEF Restart, RestartThreads, RecoverGenerations
  <2>2. Ledger!Next
    <3>1. \A g \in Gens : SettledStatus(member'[g]) = Ledger!Verdict(member'[g])
      BY DEF SettledStatus, Ledger!Verdict
    <3>2. Ledger!Recover
      BY <2>1, <3>1 DEF Ledger!Recover, Ledger!Gens, Gens
    <3> QED BY <3>2 DEF Ledger!Next
  <2>3. PlanExclusive'
    BY <2>1 DEF NoPlan, PlanExclusive
  <2>4. WorkersKnow'
    BY <2>1 DEF WorkersKnow, KnownRecord, Known, Holding, Idle
  <2>5. RunningIsHeld'
    <3>1. \A g \in Gens, u \in Users : Holders(g, u)' = {}
      BY <2>1 DEF Holders, Idle
    <3>2. \A g \in Gens, u \in Users : member'[g][u] # "running"
      BY <2>1
    <3> QED BY <3>1, <3>2 DEF RunningIsHeld
  <2> QED BY <2>2, <2>3, <2>4, <2>5 DEF StepOK
<1> QED BY <1>2, <1>3, <1>4 DEF Environment

-----------------------------------------------------------------------------
(* The theorems                                                             *)

\* Every step is a ledger step or leaves the ledger alone, and keeps the rest.
LEMMA NextStep ==
    ASSUME IInv, [Next]_vars
    PROVE  StepOK
<1>1. CASE UNCHANGED vars
  <2>1. PlanExclusive'
    BY <1>1 DEF vars, db, threads, IInv, PlanExclusive, ActiveScheduled
  <2> QED BY <1>1, <2>1, StillStep DEF vars, db, threads
<1>2. CASE Next
  BY <1>2, PlanningStep, RunnerStep, ManualStep, MemberStep, OutsideStep DEF Next
<1> QED BY <1>1, <1>2

\* The inductive invariant holds in every reachable state.
THEOREM Inductive == Spec => []IInv
<1>1. Init => IInv
  <2> SUFFICES ASSUME Init PROVE IInv
    OBVIOUS
  <2>1. TypeOK
    BY InitType
  <2>2. TablesInv
    BY SyncQueueAssumption DEF Init, TablesInv, SingleActiveScheduled, SettledByMembers
  <2>3. PlanExclusive
    BY DEF Init, PlanExclusive, NoPlan
  <2>4. WorkersKnow
    BY DEF Init, WorkersKnow, KnownRecord, Known, Holding, Idle
  <2>5. RunningIsHeld
    <3>1. \A g \in Gens, u \in Users : Holders(g, u) = {}
      BY DEF Init, Holders, Idle
    <3> QED BY <3>1 DEF Init, RunningIsHeld
  <2> QED BY <2>1, <2>2, <2>3, <2>4, <2>5 DEF IInv
<1>2. IInv /\ [Next]_vars => IInv'
  <2> SUFFICES ASSUME IInv, [Next]_vars PROVE IInv'
    OBVIOUS
  <2>1. TypeOK'
    BY TypeStep DEF IInv
  <2>2. StepOK
    BY NextStep
  <2>3. TablesInv'
    BY <2>1, <2>2, LedgerKeepsTables DEF IInv, StepOK
  <2> QED BY <2>1, <2>2, <2>3 DEF IInv, StepOK
<1> QED BY <1>1, <1>2, PTL DEF Spec

\* However many threads, manual requests and restarts there are, two scheduled
\* generations are never pending at once.
THEOREM SingleActive == Spec => []SingleActiveScheduled
<1>1. IInv => SingleActiveScheduled
  BY DEF IInv, TablesInv
<1> QED BY <1>1, Inductive, PTL

\* Every generation's status is the verdict of its members, at every moment.
THEOREM Settled == Spec => []SettledByMembers
<1>1. IInv => SettledByMembers
  BY DEF IInv, TablesInv
<1> QED BY <1>1, Inductive, PTL

\* A running member is held by exactly one thread, and only running ones are.
THEOREM RunningHeld == Spec => []RunningIsHeld
<1>1. IInv => RunningIsHeld
  BY DEF IInv
<1> QED BY <1>1, Inductive, PTL

\* The queue implements the ledger: every step of a planner, the runner, a job,
\* a route or a restart is one step of SyncLedger or leaves its tables alone.
THEOREM Refines == Spec => ImplementsLedger
<1>1. Init => Ledger!Init
  BY DEF Init, Ledger!Init, Ledger!Gens, Gens
<1>2. IInv /\ [Next]_vars => [Ledger!Next]_(Ledger!ledger)
  BY NextStep DEF StepOK
<1> QED BY <1>1, <1>2, Inductive, PTL DEF Spec, ImplementsLedger, Ledger!Spec

\* What ended never changes again, and no claimed member returns to the queue.
THEOREM Irreversible == Spec => NoRegress
<1> DEFINE A == \A g \in 1..lastGen :
        /\ status[g] # "pending" => status'[g] = status[g]
        /\ kind'[g] = kind[g]
        /\ \A u \in Users :
            /\ member[g][u] \in Terminal => member'[g][u] = member[g][u]
            /\ member[g][u] = "running" => member'[g][u] # "pending"
<1>1. IInv /\ [Next]_vars => [A]_vars
  <2> SUFFICES ASSUME IInv, [Next]_vars PROVE A
    OBVIOUS
  <2> USE SyncQueueAssumption DEF Ledger!Gens, Ledger!Terminal, Gens, Terminal
  <2>0. TypeOK /\ lastGen \in Nat /\ 1..lastGen \subseteq Gens
    BY DEF IInv, TypeOK
  <2>1. [Ledger!Next]_(Ledger!ledger)
    BY NextStep DEF StepOK
  <2>2. CASE UNCHANGED Ledger!ledger
    BY <2>2 DEF Ledger!ledger
  <2>3. ASSUME NEW k, NEW S \in SUBSET Users, Ledger!Dispatch(k, S) PROVE A
    BY <2>0, <2>3 DEF Ledger!Dispatch, TypeOK
  <2>4. ASSUME NEW h \in Gens, NEW v \in Users, Ledger!Claim(h, v) PROVE A
    BY <2>0, <2>4 DEF Ledger!Claim, TypeOK
  <2>5. ASSUME NEW h \in Gens, NEW v \in Users, NEW s \in Terminal, Ledger!End(h, v, s) PROVE A
    BY <2>0, <2>5 DEF Ledger!End, TypeOK
  <2>6. CASE Ledger!Recover
    <3>1. \A g \in Gens : status[g] # "pending" => status'[g] = status[g]
      BY <2>6 DEF Ledger!Recover
    <3>2. \A g \in Gens, u \in Users :
              member'[g][u] = IF member[g][u] = "running" THEN "error" ELSE member[g][u]
      BY <2>6 DEF Ledger!Recover
    <3>3. kind' = kind
      BY <2>6 DEF Ledger!Recover
    <3> QED BY <2>0, <3>1, <3>2, <3>3
  <2> QED BY <2>1, <2>2, <2>3, <2>4, <2>5, <2>6 DEF Ledger!Next
<1> QED BY <1>1, Inductive, PTL DEF Spec, NoRegress

-----------------------------------------------------------------------------
(* The claim of an account.  sync_in_progress is a lease: what a step does  *)
(* to it and to the threads capturing the account is one of five cases.     *)

Capturing == {"capture", "finish"}
Capturers(u) == {w \in Workers : worker[w].pc \in Capturing /\ worker[w].user = u}

LeaseKept(u) ==
    /\ Capturers(u)' = Capturers(u)
    /\ \/ inProgress'[u] = inProgress[u]
       \/ inProgress[u] = "stale" /\ inProgress'[u] = "yes"
       \/ "slow" \in Events /\ inProgress[u] = "yes" /\ inProgress'[u] = "stale"

LeaseReset(u) == u \in ResetUsers /\ Capturers(u)' = Capturers(u) /\ inProgress'[u] = "no"

LeaseTaken(u) ==
    /\ inProgress[u] # "yes" /\ inProgress'[u] = "yes"
    /\ \E w \in Workers : Capturers(u)' = Capturers(u) \cup {w}

LeaseReturned(u) ==
    inProgress'[u] = "no" /\ \E w \in Capturers(u) : Capturers(u)' = Capturers(u) \ {w}

LeasesLost(u) == inProgress'[u] = "no" /\ Capturers(u)' = {}

Lease(u) == LeaseKept(u) \/ LeaseReset(u) \/ LeaseTaken(u) \/ LeaseReturned(u) \/ LeasesLost(u)

\* A thread that moves on without entering or leaving its capture captures what
\* it captured before.
LEMMA SameCapturers ==
    ASSUME TypeOK, NEW w \in Workers, NEW r, Step(w, r), NEW u \in Users,
           \/ worker[w].pc \notin Capturing /\ r.pc \notin Capturing
           \/ worker[w].pc \in Capturing /\ r.pc \in Capturing /\ r.user = worker[w].user
    PROVE  Capturers(u)' = Capturers(u)
BY DEF Capturers, Step, TypeOK

\* With no thread moving the capturers stay.
LEMMA StillCapturers ==
    ASSUME worker' = worker, NEW u PROVE Capturers(u)' = Capturers(u)
BY DEF Capturers

\* Planning may refresh the age of a claim and never touches a capture.
LEMMA PlanningLease ==
    ASSUME IInv, Planning, NEW u \in Users
    PROVE  Lease(u)
<1>1. ASSUME NEW by, by # "runner", PlanBegins(by) \/ PlanCoalesces(by) PROVE Lease(u)
  <2>1. worker' = worker /\ inProgress' = inProgress
    BY <1>1 DEF PlanBegins, PlanCoalesces, PlanReturns, db
  <2> QED BY <2>1, StillCapturers DEF Lease, LeaseKept
<1>2. ASSUME NEW v \in Users, PlanUser(v) PROVE Lease(u)
  <2>1. worker' = worker
    BY <1>2 DEF PlanUser
  <2>2. inProgress'[u] = inProgress[u] \/ (inProgress[u] = "stale" /\ inProgress'[u] = "yes")
    BY <1>2 DEF PlanUser, IInv, TypeOK
  <2> QED BY <2>1, <2>2, StillCapturers DEF Lease, LeaseKept
<1>3. ASSUME PlanEnds PROVE Lease(u)
  <2>1. inProgress' = inProgress
    BY <1>3 DEF PlanEnds
  <2>2. CASE plan.by = "runner"
    <3> DEFINE r == [worker[Runner] EXCEPT !.pc = "query"]
    <3>1. TypeOK /\ Runner \in Workers /\ Step(Runner, r) /\ worker[Runner].pc = "ensure"
      BY <1>3, <2>2 DEF PlanEnds, PlanReturns, Step, IInv, PlanExclusive, Workers
    <3>2. r.pc = "query"
      BY DEF IInv, TypeOK, WorkerState
    <3> HIDE DEF r
    <3>3. Capturers(u)' = Capturers(u)
      BY <3>1, <3>2, SameCapturers DEF Capturing
    <3> QED BY <2>1, <3>3 DEF Lease, LeaseKept
  <2>3. CASE plan.by # "runner"
    <3>1. worker' = worker
      BY <1>3, <2>3 DEF PlanEnds, PlanReturns
    <3> QED BY <2>1, <3>1, StillCapturers DEF Lease, LeaseKept
  <2> QED BY <2>2, <2>3
<1> QED BY <1>1, <1>2, <1>3 DEF Planning, StartupPlan, DailyDispatch, CheckPreShift

\* The runner's own steps come before a capture.
LEMMA RunnerLease ==
    ASSUME IInv, RunnerWork, NEW u \in Users
    PROVE  Lease(u)
<1>0. TypeOK /\ Runner \in Workers /\ worker[Runner] \in WorkerState
  BY DEF IInv, TypeOK, Workers
<1>1. inProgress' = inProgress
  BY DEF RunnerWork, RunnerBegins, RunnerEnsures, RunnerQueries, RunnerEnds, RunnerPicks, RunnerClaims,
         PlanBegins, db
<1>2. ASSUME NEW r, r.pc \notin Capturing, Step(Runner, r), worker[Runner].pc \notin Capturing
      PROVE  Lease(u)
  BY <1>0, <1>1, <1>2, SameCapturers DEF Lease, LeaseKept
<1>3. CASE RunnerBegins
  BY <1>2, <1>3 DEF RunnerBegins, Idle, Capturing
<1>4. CASE RunnerEnsures
  <2>1. CASE PlanBegins("runner")
    BY <1>1, <2>1, StillCapturers DEF PlanBegins, Lease, LeaseKept
  <2>2. CASE ~PlanBegins("runner")
    BY <1>2, <1>4, <2>2 DEF RunnerEnsures, Idle, Capturing
  <2> QED BY <2>1, <2>2
<1>5. CASE RunnerQueries
  <2>1. worker[Runner].pc \notin Capturing
    BY <1>5 DEF RunnerQueries, Capturing
  <2>2. ASSUME NEW S, Step(Runner, [Idle EXCEPT !.pc = "pick", !.todo = S]) PROVE Lease(u)
    <3> DEFINE r == [Idle EXCEPT !.pc = "pick", !.todo = S]
    <3>1. r.pc \notin Capturing /\ Step(Runner, r)
      BY <2>2 DEF Idle, Capturing
    <3> HIDE DEF r
    <3> QED BY <1>2, <2>1, <3>1
  <2> QED BY <1>5, <2>2 DEF RunnerQueries
<1>6. CASE RunnerEnds
  BY <1>2, <1>6 DEF RunnerEnds, Idle, Capturing
<1>7. ASSUME NEW v \in Users, RunnerPicks(v) PROVE Lease(u)
  <2> DEFINE r == [Idle EXCEPT !.pc = "pick", !.todo = worker[Runner].todo \ {v}]
  <2>1. worker[Runner].pc \notin Capturing
    BY <1>7 DEF RunnerPicks, Capturing
  <2>2. r.pc \notin Capturing
    BY DEF Idle, Capturing
  <2>3. ASSUME NEW g, Step(Runner, [r EXCEPT !.pc = "claim", !.user = v, !.gen = g]) PROVE Lease(u)
    <3> DEFINE c == [r EXCEPT !.pc = "claim", !.user = v, !.gen = g]
    <3>1. c.pc \notin Capturing /\ Step(Runner, c)
      BY <2>3 DEF Idle, Capturing
    <3> HIDE DEF c
    <3> QED BY <1>2, <2>1, <3>1
  <2>4. Step(Runner, r) \/ \E g \in Newest(OpenGens(v)) : Step(Runner, [r EXCEPT !.pc = "claim", !.user = v, !.gen = g])
    BY <1>7 DEF RunnerPicks
  <2> HIDE DEF r
  <2> QED BY <1>2, <2>1, <2>2, <2>3, <2>4
<1>8. CASE RunnerClaims
  <2> DEFINE c == [worker[Runner] EXCEPT !.pc = "start"]
             d == [Idle EXCEPT !.pc = "pick", !.todo = worker[Runner].todo]
  <2>1. worker[Runner].pc \notin Capturing /\ (Step(Runner, c) \/ Step(Runner, d))
    BY <1>8 DEF RunnerClaims, Capturing
  <2>2. c.pc \notin Capturing /\ d.pc \notin Capturing
    BY <1>0 DEF WorkerState, Idle, Capturing
  <2> HIDE DEF c, d
  <2> QED BY <1>2, <2>1, <2>2
<1> QED BY <1>3, <1>4, <1>5, <1>6, <1>7, <1>8 DEF RunnerWork

\* So do a manual request and its job, until the job starts.
LEMMA ManualLease ==
    ASSUME IInv, NEW j \in Jobs, (\E u \in Users : ManualReads(j, u)) \/ JobWork(j), NEW u \in Users
    PROVE  Lease(u)
<1>0. TypeOK /\ j \in Workers /\ worker[j] \in WorkerState
  BY DEF IInv, TypeOK, Workers
<1>1. ASSUME NEW r, r.pc \notin Capturing, Step(j, r), worker[j].pc \notin Capturing,
             \/ inProgress'[u] = inProgress[u]
             \/ inProgress[u] = "stale" /\ inProgress'[u] = "yes"
      PROVE  Lease(u)
  BY <1>0, <1>1, SameCapturers DEF Lease, LeaseKept
<1>2. ASSUME NEW v \in Users, ManualReads(j, v) PROVE Lease(u)
  <2>1. worker[j].pc \notin Capturing /\ inProgress' = inProgress
    BY <1>2 DEF ManualReads, Capturing, db
  <2>2. [Idle EXCEPT !.pc = "create", !.user = v].pc \notin Capturing
    BY DEF Idle, Capturing
  <2>3. ASSUME NEW g, Step(j, [Idle EXCEPT !.pc = "promote", !.user = v, !.gen = g]) PROVE Lease(u)
    <3> DEFINE c == [Idle EXCEPT !.pc = "promote", !.user = v, !.gen = g]
    <3>1. c.pc \notin Capturing /\ Step(j, c)
      BY <2>3 DEF Idle, Capturing
    <3> HIDE DEF c
    <3> QED BY <1>1, <2>1, <3>1
  <2>4. ASSUME Step(j, [Idle EXCEPT !.pc = "create", !.user = v]) PROVE Lease(u)
    BY <1>1, <2>1, <2>2, <2>4
  <2> QED BY <1>2, <2>3, <2>4 DEF ManualReads
<1>3. ASSUME NEW pc \in {"begin", "advance", "start"}, Step(j, [worker[j] EXCEPT !.pc = pc]),
             worker[j].pc \notin Capturing,
             \/ inProgress'[u] = inProgress[u]
             \/ inProgress[u] = "stale" /\ inProgress'[u] = "yes"
      PROVE  Lease(u)
  <2> DEFINE c == [worker[j] EXCEPT !.pc = pc]
  <2>1. c.pc \notin Capturing /\ Step(j, c)
    BY <1>0, <1>3 DEF WorkerState, Capturing
  <2> HIDE DEF c
  <2> QED BY <1>1, <1>3, <2>1
<1>4. CASE ManualSeeks(j)
  BY <1>3, <1>4 DEF ManualSeeks, Capturing, db
<1>5. CASE ManualPromotes(j)
  <2>1. \/ inProgress'[u] = inProgress[u]
        \/ inProgress[u] = "stale" /\ inProgress'[u] = "yes"
    BY <1>0, <1>5 DEF ManualPromotes, TypeOK
  <2> QED BY <1>3, <1>5, <2>1 DEF ManualPromotes, Capturing
<1>6. CASE ManualCreates(j)
  <2> DEFINE c == [worker[j] EXCEPT !.pc = "begin", !.gen = lastGen + 1]
  <2>1. c.pc \notin Capturing /\ Step(j, c) /\ worker[j].pc \notin Capturing /\ inProgress' = inProgress
    BY <1>0, <1>6 DEF ManualCreates, WorkerState, Capturing
  <2> HIDE DEF c
  <2> QED BY <1>1, <2>1
<1>7. CASE ManualBegins(j)
  <2>1. worker[j].pc \notin Capturing /\ inProgress' = inProgress
    BY <1>7 DEF ManualBegins, Capturing
  <2>2. Idle.pc \notin Capturing
    BY DEF Idle, Capturing
  <2>3. Step(j, [worker[j] EXCEPT !.pc = "start"]) \/ Step(j, Idle)
    BY <1>7 DEF ManualBegins
  <2> QED BY <1>1, <1>3, <2>1, <2>2, <2>3
<1> QED BY <1>2, <1>4, <1>5, <1>6, <1>7 DEF JobWork

\* Starting takes the lease of the thread's account, finishing returns it.
LEMMA MemberLease ==
    ASSUME IInv, NEW w \in Workers, MemberWork(w), NEW u \in Users
    PROVE  Lease(u)
<1> DEFINE r == worker[w]
<1>0. TypeOK /\ r \in WorkerState /\ (r.pc \in Holding => r.user \in Users)
  BY DEF IInv, TypeOK, WorkersKnow, KnownRecord, Known
<1>1. ASSUME Step(w, Done(w)), r.pc \notin Capturing, inProgress' = inProgress PROVE Lease(u)
  <2>1. Done(w).pc \notin Capturing
    BY DEF Done, Idle, Capturing
  <2> QED BY <1>0, <1>1, <2>1, SameCapturers DEF Lease, LeaseKept
<1>2. CASE Start(w)
  <2>1. CASE inProgress[r.user] # "yes"
    <3>1. PICK s : Step(w, [r EXCEPT !.pc = "capture", !.shared = s])
      BY <1>2, <2>1 DEF Start
    <3> DEFINE c == [r EXCEPT !.pc = "capture", !.shared = s]
    <3>2. c.pc = "capture" /\ c.user = r.user /\ Step(w, c) /\ r.pc = "start"
      BY <1>0, <1>2, <3>1 DEF WorkerState, Start
    <3>3. inProgress' = [inProgress EXCEPT ![r.user] = "yes"]
      BY <1>2, <2>1 DEF Start
    <3> HIDE DEF c
    <3>4. CASE u = r.user
      <4>1. Capturers(u)' = Capturers(u) \cup {w}
        BY <1>0, <3>2, <3>4 DEF Capturers, Capturing, Step, TypeOK
      <4>2. inProgress[u] # "yes" /\ inProgress'[u] = "yes"
        BY <1>0, <2>1, <3>3, <3>4 DEF TypeOK
      <4> QED BY <4>1, <4>2 DEF Lease, LeaseTaken
    <3>5. CASE u # r.user
      <4>1. Capturers(u)' = Capturers(u)
        BY <1>0, <3>2, <3>5 DEF Capturers, Capturing, Step, TypeOK
      <4>2. inProgress'[u] = inProgress[u]
        BY <1>0, <3>3, <3>5 DEF TypeOK
      <4> QED BY <4>1, <4>2 DEF Lease, LeaseKept
    <3> QED BY <3>4, <3>5
  <2>2. CASE inProgress[r.user] = "yes"
    BY <1>1, <1>2, <2>2 DEF Start, Capturing
  <2> QED BY <2>1, <2>2
<1>3. CASE Capture(w)
  <2>1. PICK o : Step(w, [r EXCEPT !.pc = "finish", !.outcome = o])
    BY <1>3 DEF Capture
  <2> DEFINE c == [r EXCEPT !.pc = "finish", !.outcome = o]
  <2>2. c.pc = "finish" /\ c.user = r.user /\ Step(w, c) /\ r.pc = "capture" /\ inProgress' = inProgress
    BY <1>0, <1>3, <2>1 DEF WorkerState, Capture, db
  <2> HIDE DEF c
  <2> QED BY <1>0, <2>2, SameCapturers DEF Lease, LeaseKept, Capturing
<1>4. CASE Finish(w)
  <2> DEFINE c == [r EXCEPT !.pc = "mark"]
  <2>1. c.pc = "mark" /\ Step(w, c) /\ r.pc = "finish"
    BY <1>0, <1>4 DEF WorkerState, Finish
  <2>2. inProgress' = [inProgress EXCEPT ![r.user] = "no"]
    BY <1>4 DEF Finish
  <2> HIDE DEF c
  <2>3. CASE u = r.user
    <3>1. w \in Capturers(u) /\ Capturers(u)' = Capturers(u) \ {w}
      BY <1>0, <2>1, <2>3 DEF Capturers, Capturing, Step, TypeOK
    <3>2. inProgress'[u] = "no"
      BY <1>0, <2>2, <2>3 DEF TypeOK
    <3> QED BY <3>1, <3>2 DEF Lease, LeaseReturned
  <2>4. CASE u # r.user
    <3>1. Capturers(u)' = Capturers(u)
      BY <1>0, <2>1, <2>4 DEF Capturers, Capturing, Step, TypeOK
    <3>2. inProgress'[u] = inProgress[u]
      BY <1>0, <2>2, <2>4 DEF TypeOK
    <3> QED BY <3>1, <3>2 DEF Lease, LeaseKept
  <2> QED BY <2>3, <2>4
<1>5. CASE Mark(w)
  BY <1>1, <1>5 DEF Mark, Capturing
<1> QED BY <1>2, <1>3, <1>4, <1>5 DEF MemberWork

\* Other routes clear the flag of their account, time ages it and a restart
\* clears all flags with all threads.
LEMMA OutsideLease ==
    ASSUME IInv, OtherRoutes \/ Environment, NEW u \in Users
    PROVE  Lease(u)
<1>1. ASSUME NEW v \in ResetUsers,
             Deactivate(v) \/ Reactivate(v) \/ ResetRoster(v) \/ CredentialSaveFails(v)
      PROVE  Lease(u)
  <2>1. worker' = worker /\ inProgress' = [inProgress EXCEPT ![v] = "no"]
    BY <1>1 DEF Deactivate, Reactivate, ResetRoster, CredentialSaveFails, threads
  <2>2. IF u = v THEN inProgress'[u] = "no" ELSE inProgress'[u] = inProgress[u]
    BY <2>1 DEF IInv, TypeOK
  <2> QED BY <2>1, <2>2, StillCapturers DEF Lease, LeaseKept, LeaseReset
<1>2. CASE Tick \/ TargetPasses \/ WindowMoves
  <2>1. worker' = worker /\ inProgress' = inProgress
    BY <1>2 DEF Tick, TargetPasses, WindowMoves, db, threads
  <2> QED BY <2>1, StillCapturers DEF Lease, LeaseKept
<1>3. ASSUME NEW v \in Users, ClaimAges(v) PROVE Lease(u)
  <2>1. /\ worker' = worker /\ "slow" \in Events /\ inProgress[v] = "yes"
        /\ inProgress' = [inProgress EXCEPT ![v] = "stale"]
    BY <1>3 DEF ClaimAges, threads
  <2> QED BY <2>1, StillCapturers DEF Lease, LeaseKept, IInv, TypeOK
<1>4. CASE Restart
  <2>1. worker' = [v \in Workers |-> Idle] /\ inProgress' = [v \in Users |-> "no"]
    BY <1>4 DEF Restart, RestartThreads
  <2>2. Capturers(u)' = {}
    BY <2>1 DEF Capturers, Capturing, Idle
  <2> QED BY <2>1, <2>2 DEF Lease, LeasesLost
<1> QED BY <1>1, <1>2, <1>3, <1>4 DEF OtherRoutes, Environment

\* Every step treats every account's claim as a lease.
LEMMA LeaseStep ==
    ASSUME IInv, [Next]_vars, NEW u \in Users
    PROVE  Lease(u)
<1>1. CASE UNCHANGED vars
  BY <1>1, StillCapturers DEF vars, db, threads, Lease, LeaseKept
<1>2. CASE Next
  BY <1>2, PlanningLease, RunnerLease, ManualLease, MemberLease, OutsideLease DEF Next
<1> QED BY <1>1, <1>2

\* Whatever resets, slow captures and restarts there are, a set sync_in_progress
\* has a thread that will clear it: no account is hidden from the runner for good.
THEOREM ClaimsAreHeld == Spec => []ClaimHasWorker
<1> DEFINE I == \A u \in Users : inProgress[u] # "no" => Capturers(u) # {}
<1>1. Init => I
  BY DEF Init
<1>2. IInv /\ I /\ [Next]_vars => I'
  <2> SUFFICES ASSUME IInv, I, [Next]_vars, NEW u \in Users, inProgress'[u] # "no"
               PROVE  Capturers(u)' # {}
    OBVIOUS
  <2>1. Lease(u)
    BY LeaseStep
  <2> QED BY <2>1 DEF Lease, LeaseKept, LeaseReset, LeaseTaken, LeaseReturned, LeasesLost
<1>3. I => ClaimHasWorker
  BY DEF Capturers, Capturing, ClaimHasWorker
<1> QED BY <1>1, <1>2, <1>3, Inductive, PTL DEF Spec

\* While no capture outlives its 45 minutes, an account whose sync state no other
\* route clears has at most one capturing thread, whatever claims and restarts.
SoleCapturer ==
    \A u \in Users \ ResetUsers :
        /\ inProgress[u] # "stale"
        /\ Capturers(u) # {} => inProgress[u] = "yes"
        /\ \A v, w \in Capturers(u) : v = w

THEOREM OneCapture ==
    ASSUME "slow" \notin Events
    PROVE  Spec => []SoleCapturer
<1>1. Init => SoleCapturer
  BY DEF Init, SoleCapturer, Capturers, Capturing, Idle
<1>2. IInv /\ SoleCapturer /\ [Next]_vars => SoleCapturer'
  <2> SUFFICES ASSUME IInv, SoleCapturer, [Next]_vars, NEW u \in Users \ ResetUsers
               PROVE  /\ inProgress'[u] # "stale"
                      /\ Capturers(u)' # {} => inProgress'[u] = "yes"
                      /\ \A v, w \in Capturers(u)' : v = w
    BY DEF SoleCapturer
  <2>1. Lease(u)
    BY LeaseStep
  <2> QED BY <2>1 DEF SoleCapturer, Lease, LeaseKept, LeaseReset, LeaseTaken, LeaseReturned, LeasesLost
<1> QED BY <1>1, <1>2, Inductive, PTL DEF Spec

\* No account is captured by two threads at once, as long as no capture outlives
\* the 45 minutes and no other route clears a running claim: either lets a
\* second thread in while the first still captures.
THEOREM NoDoubleCapture ==
    ASSUME "slow" \notin Events, ResetUsers = {}
    PROVE  Spec => []OneCapturePerUser
<1>1. IInv /\ SoleCapturer => OneCapturePerUser
  <2> SUFFICES ASSUME IInv, SoleCapturer, NEW v \in Workers, NEW w \in Workers,
                      worker[v].pc = "capture", worker[w].pc = "capture", worker[v].user = worker[w].user
               PROVE  v = w
    BY DEF OneCapturePerUser
  <2>1. worker[v].user \in Users \ ResetUsers
    BY DEF IInv, WorkersKnow, KnownRecord, Known, Holding
  <2>2. v \in Capturers(worker[v].user) /\ w \in Capturers(worker[v].user)
    BY DEF Capturers, Capturing
  <2> QED BY <2>1, <2>2 DEF SoleCapturer
<1> QED BY <1>1, OneCapture, Inductive, PTL

-----------------------------------------------------------------------------
(* The plan and the generation.                                             *)

\* Every generation has its reason, a manual one comes from a manual job, and
\* who does not plan has planned nobody.
Reasoned ==
    /\ \A g \in 1..lastGen : kind[g] = "scheduled" \/ (kind[g] = "manual" /\ Jobs # {})
    /\ plan.by = "none" => plan = NoPlan

\* A generation of either kind keeps the others' reasons.
LEMMA CreateReasoned ==
    ASSUME IInv, Reasoned, NEW k \in {"scheduled", "manual"}, NEW S, lastGen < MaxGens,
           CreateGeneration(k, S), k = "manual" => Jobs # {}
    PROVE  \A g \in 1..lastGen' : kind'[g] = "scheduled" \/ (kind'[g] = "manual" /\ Jobs # {})
<1>1. /\ lastGen \in Nat /\ lastGen + 1 \in Gens /\ lastGen' = lastGen + 1
      /\ kind' = [kind EXCEPT ![lastGen + 1] = k]
  BY SyncQueueAssumption DEF CreateGeneration, IInv, TypeOK
<1> QED BY <1>1 DEF Reasoned, IInv, TypeOK

LEMMA ReasonedStep ==
    ASSUME IInv, Reasoned, [Next]_vars
    PROVE  Reasoned'
<1>1. CASE UNCHANGED <<lastGen, kind, plan>>
  BY <1>1 DEF Reasoned
<1>2. ASSUME NEW by, by # "none", PlanBegins(by) PROVE Reasoned'
  BY <1>2 DEF PlanBegins, Reasoned, db
<1>3. ASSUME NEW u \in Users, PlanUser(u) PROVE Reasoned'
  BY <1>3 DEF PlanUser, Reasoned, NoPlan
<1>4. CASE PlanEnds
  BY <1>4, CreateReasoned DEF PlanEnds, Reasoned
<1>5. CASE Planning
  BY <1>1, <1>2, <1>3, <1>4, <1>5 DEF Planning, StartupPlan, DailyDispatch, CheckPreShift, PlanCoalesces, db
<1>6. CASE RunnerWork
  BY <1>1, <1>2, <1>6 DEF RunnerWork, RunnerBegins, RunnerEnsures, RunnerQueries, RunnerEnds, RunnerPicks,
                          RunnerClaims, db
<1>7. ASSUME NEW w \in Workers, MemberWork(w) PROVE Reasoned'
  BY <1>1, <1>7 DEF MemberWork, Start, Capture, Finish, Mark, db
<1>8. ASSUME NEW j \in Jobs, (\E u \in Users : ManualReads(j, u)) \/ JobWork(j) PROVE Reasoned'
  <2>1. CASE ManualCreates(j)
    BY <1>8, <2>1, CreateReasoned DEF ManualCreates, Reasoned
  <2>2. CASE ~ManualCreates(j)
    BY <1>1, <1>8, <2>2 DEF ManualReads, JobWork, ManualSeeks, ManualPromotes, ManualBegins, db
  <2> QED BY <2>1, <2>2
<1>9. CASE OtherRoutes
  BY <1>1, <1>9 DEF OtherRoutes, Deactivate, Reactivate, ResetRoster, CredentialSaveFails, threads
<1>10. CASE Environment
  <2>1. CASE Restart
    BY <2>1 DEF Restart, RestartThreads, Reasoned, NoPlan
  <2>2. CASE ~Restart
    BY <1>1, <1>10, <2>2 DEF Environment, Tick, ClaimAges, TargetPasses, WindowMoves, db, threads
  <2> QED BY <2>1, <2>2
<1>11. CASE UNCHANGED vars
  BY <1>1, <1>11 DEF vars, db, threads
<1> QED BY <1>5, <1>6, <1>7, <1>8, <1>9, <1>10, <1>11 DEF Next

\* An invariant.
LEMMA ReasonsKnown == Spec => []Reasoned
<1>1. Init => Reasoned
  BY DEF Init, Reasoned, NoPlan
<1> QED BY <1>1, ReasonedStep, Inductive, PTL DEF Spec

\* An open scheduled member: no other scheduled generation has an open member,
\* of any account, and nobody plans.
LEMMA ScheduledExcludes ==
    ASSUME IInv, Reasoned, NEW g \in Gens, NEW u \in Users, kind[g] = "scheduled",
           member[g][u] \in {"pending", "running"}
    PROVE  /\ g \in 1..lastGen /\ status[g] = "pending" /\ plan = NoPlan
           /\ \A h \in Gens, v \in Users :
                 kind[h] = "scheduled" /\ member[h][v] \in {"pending", "running"} => h = g
<1>0. lastGen \in Nat /\ MaxGens \in Nat
  BY SyncQueueAssumption DEF IInv, TypeOK
<1>1. ASSUME NEW h \in Gens, NEW v \in Users, member[h][v] \in {"pending", "running"}
      PROVE  h \in 1..lastGen /\ status[h] = "pending"
  <2>1. h \in 1..lastGen
    BY <1>0, <1>1 DEF IInv, TablesInv
  <2> QED BY <1>1, <2>1 DEF IInv, TablesInv, SettledByMembers, SettledStatus
<1>2. ActiveScheduled
  BY <1>1 DEF ActiveScheduled
<1>3. plan = NoPlan
  BY <1>2 DEF IInv, PlanExclusive, Reasoned
<1> QED BY <1>1, <1>3 DEF IInv, TablesInv, SingleActiveScheduled

\* What set_user_next_sync writes is an instant.
LEMMA PlanUserWrites ==
    ASSUME IInv, NEW u \in Users, PlanUser(u)
    PROVE  next'[u] # 0 /\ \A v \in Users : v # u => next'[v] = next[v]
<1>1. Cardinality(plan.planned) \in Nat
  <2>1. IsFiniteSet(plan.planned)
    BY SyncQueueAssumption, FS_Subset DEF IInv, TypeOK, PlanState
  <2> QED BY <2>1, FS_CardinalityType
<1> QED BY <1>1 DEF PlanUser, IInv, TypeOK

\* Steps that make no member pending and plan nobody.
LEMMA NobodyAwaits ==
    ASSUME UNCHANGED kind, plan'.planned \subseteq plan.planned, NEW u \in Users, Awaits(u)',
           \A g \in Gens : member'[g][u] = "pending" => member[g][u] = "pending"
    PROVE  Awaits(u)
BY DEF Awaits

\* What a thread does to its claimed member ends it, gives the plan up only for
\* that member's account, and leaves every other member as it was.
LEMMA MarkMembers ==
    ASSUME IInv, NEW g \in Gens, NEW u \in Users, NEW s \in Terminal, MarkMember(g, u, s)
    PROVE  \A h \in Gens, v \in Users :
              member'[h][v] = IF h = g /\ v = u /\ member[g][u] = "running" THEN s ELSE member[h][v]
<1> DEFINE m == [member[g] EXCEPT ![u] = s]
<1>1. CASE member[g][u] = "running"
  <2>1. member' = [member EXCEPT ![g] = m] /\ \A v \in Users : m[v] = IF v = u THEN s ELSE member[g][v]
    BY <1>1 DEF MarkMember, IInv, TypeOK
  <2> HIDE DEF m
  <2> QED BY <1>1, <2>1 DEF IInv, TypeOK
<1>2. CASE member[g][u] # "running"
  BY <1>2 DEF MarkMember
<1> QED BY <1>1, <1>2

\* The record of a thread working on its member, and that member.
LEMMA HeldMember ==
    ASSUME IInv, NEW w \in Workers, worker[w].pc \in Holding
    PROVE  /\ worker[w] \in WorkerState /\ worker[w].user \in Users
           /\ worker[w].gen \in Gens /\ member[worker[w].gen][worker[w].user] = "running"
<1>1. worker[w].gen \in 1..lastGen /\ worker[w].user \in Users /\ worker[w] \in WorkerState
  BY DEF IInv, TypeOK, WorkersKnow, KnownRecord, Known
<1>2. worker[w].gen \in Gens
  BY <1>1, SyncQueueAssumption DEF IInv, TypeOK
<1>3. w \in Holders(worker[w].gen, worker[w].user)
  BY DEF Holders, Holding
<1> QED BY <1>1, <1>2, <1>3 DEF IInv, RunningIsHeld

\* The runner claims members, it makes none pending.
LEMMA RunnerMembers ==
    ASSUME IInv, RunnerWork
    PROVE  /\ UNCHANGED <<next, kind, status>> /\ plan'.planned \subseteq plan.planned
           /\ \/ member' = member
              \/ /\ plan' = plan /\ worker[Runner].pc = "claim"
                 /\ \A h \in Gens, v \in Users :
                       \/ member'[h][v] = member[h][v]
                       \/ member[h][v] = "pending" /\ member'[h][v] = "running"
<1>1. CASE RunnerClaims
  <2> DEFINE r == worker[Runner]
  <2>1. UNCHANGED <<next, kind, status, plan>> /\ r.pc = "claim"
    BY <1>1 DEF RunnerClaims
  <2>2. CASE member[r.gen][r.user] = "pending"
    <3>1. member' = [member EXCEPT ![r.gen][r.user] = "running"]
      BY <1>1, <2>2 DEF RunnerClaims
    <3> QED BY <2>1, <2>2, <3>1 DEF IInv, TypeOK
  <2>3. CASE member[r.gen][r.user] # "pending"
    BY <1>1, <2>1, <2>3 DEF RunnerClaims
  <2> QED BY <2>1, <2>2, <2>3
<1>2. CASE RunnerEnsures
  BY <1>2 DEF RunnerEnsures, PlanBegins, db
<1>3. CASE RunnerBegins \/ RunnerQueries \/ RunnerEnds \/ (\E u \in Users : RunnerPicks(u))
  BY <1>3 DEF RunnerBegins, RunnerQueries, RunnerEnds, RunnerPicks, db
<1> QED BY <1>1, <1>2, <1>3 DEF RunnerWork

\* It never stands where a finished account is marked.
LEMMA RunnerNotMarking ==
    ASSUME IInv, RunnerWork
    PROVE  worker'[Runner].pc # "mark"
<1>0. TypeOK /\ Runner \in Workers /\ worker[Runner] \in WorkerState
  BY DEF IInv, TypeOK
<1>1. ASSUME NEW r, r.pc # "mark", Step(Runner, r) PROVE worker'[Runner].pc # "mark"
  BY <1>0, <1>1 DEF Step, TypeOK
<1>2. CASE RunnerBegins \/ RunnerEnsures \/ RunnerEnds
  BY <1>1, <1>2 DEF RunnerBegins, RunnerEnsures, RunnerEnds, PlanBegins, Idle
<1>3. CASE RunnerQueries
  <2>1. ASSUME NEW S, Step(Runner, [Idle EXCEPT !.pc = "pick", !.todo = S])
        PROVE  worker'[Runner].pc # "mark"
    <3> DEFINE c == [Idle EXCEPT !.pc = "pick", !.todo = S]
    <3>1. c.pc # "mark" /\ Step(Runner, c)
      BY <2>1 DEF Idle
    <3> HIDE DEF c
    <3> QED BY <1>1, <3>1
  <2> QED BY <1>3, <2>1 DEF RunnerQueries
<1>4. ASSUME NEW u \in Users, RunnerPicks(u) PROVE worker'[Runner].pc # "mark"
  <2> DEFINE r == [Idle EXCEPT !.pc = "pick", !.todo = worker[Runner].todo \ {u}]
  <2>1. r.pc # "mark"
    BY DEF Idle
  <2>2. ASSUME NEW g, Step(Runner, [r EXCEPT !.pc = "claim", !.user = u, !.gen = g])
        PROVE  worker'[Runner].pc # "mark"
    <3> DEFINE c == [r EXCEPT !.pc = "claim", !.user = u, !.gen = g]
    <3>1. c.pc # "mark" /\ Step(Runner, c)
      BY <2>2 DEF Idle
    <3> HIDE DEF c
    <3> QED BY <1>1, <3>1
  <2>3. Step(Runner, r) \/ \E g \in Newest(OpenGens(u)) : Step(Runner, [r EXCEPT !.pc = "claim", !.user = u, !.gen = g])
    BY <1>4 DEF RunnerPicks
  <2> HIDE DEF r
  <2> QED BY <1>1, <2>1, <2>2, <2>3
<1>5. CASE RunnerClaims
  <2> DEFINE c == [worker[Runner] EXCEPT !.pc = "start"]
             d == [Idle EXCEPT !.pc = "pick", !.todo = worker[Runner].todo]
  <2>1. Step(Runner, c) \/ Step(Runner, d)
    BY <1>5 DEF RunnerClaims
  <2>2. c.pc # "mark" /\ d.pc # "mark"
    BY <1>0 DEF WorkerState, Idle
  <2> HIDE DEF c, d
  <2> QED BY <1>1, <2>1, <2>2
<1> QED BY <1>2, <1>3, <1>4, <1>5 DEF RunnerWork

\* A job claims its member, makes none pending that is scheduled, and plans at
\* most.
LEMMA JobAwaits ==
    ASSUME IInv, NEW j \in Jobs, (\E v \in Users : ManualReads(j, v)) \/ JobWork(j),
           NEW u \in Users, Awaits(u)', next'[u] = 0
    PROVE  Awaits(u) /\ next[u] = 0
<1>1. CASE ManualCreates(j)
  <2>1. /\ lastGen + 1 \in Gens /\ UNCHANGED <<next, plan>>
        /\ kind' = [kind EXCEPT ![lastGen + 1] = "manual"]
        /\ \A g \in Gens : g # lastGen + 1 => member'[g] = member[g]
    BY <1>1, SyncQueueAssumption DEF ManualCreates, CreateGeneration, IInv, TypeOK
  <2>2. kind'[lastGen + 1] = "manual" /\ \A g \in Gens : g # lastGen + 1 => kind'[g] = kind[g]
    BY <2>1 DEF IInv, TypeOK
  <2> QED BY <2>1, <2>2 DEF Awaits
<1>2. CASE ManualPromotes(j)
  <2>1. UNCHANGED <<kind, member, plan>> /\ next' = [next EXCEPT ![worker[j].user] = now] /\ now # 0
    BY <1>2 DEF ManualPromotes, IInv, TypeOK
  <2>2. next[u] = 0
    BY <2>1 DEF IInv, TypeOK
  <2> QED BY <2>1, <2>2, NobodyAwaits
<1>3. CASE ManualBegins(j)
  <2> DEFINE r == worker[j]
  <2>1. /\ UNCHANGED <<kind, next, plan>>
        /\ member' = member \/ member' = [member EXCEPT ![r.gen][r.user] = "running"]
    BY <1>3 DEF ManualBegins
  <2>2. r.gen \in Gens /\ r.user \in Users
    <3>1. j \in Workers /\ r.pc \in Known
      BY <1>3 DEF ManualBegins, Known, Workers
    <3> QED BY <3>1, SyncQueueAssumption DEF IInv, TypeOK, WorkersKnow, KnownRecord
  <2>3. ASSUME NEW g \in Gens, member'[g][u] = "pending" PROVE member[g][u] = "pending"
    <3> DEFINE a == r.gen
               b == r.user
    <3> HIDE DEF r, a, b
    <3>1. CASE member' = [member EXCEPT ![a][b] = "running"]
      <4>1. member'[g] = IF g = a THEN [member[g] EXCEPT ![b] = "running"] ELSE member[g]
        BY <3>1 DEF IInv, TypeOK
      <4> QED BY <2>3, <4>1 DEF IInv, TypeOK
    <3>2. CASE member' = member
      BY <2>3, <3>2
    <3> QED BY <2>1, <3>1, <3>2 DEF a, b
  <2> QED BY <2>1, <2>3, NobodyAwaits
<1>4. CASE ManualSeeks(j) \/ (\E v \in Users : ManualReads(j, v))
  BY <1>4, NobodyAwaits DEF ManualSeeks, ManualReads, db
<1> QED BY <1>1, <1>2, <1>3, <1>4 DEF JobWork

\* A thread that ends a scheduled member's sync leaves nobody awaiting it: the
\* account's other members belong to manual generations.
LEMMA MemberAwaits ==
    ASSUME IInv, Reasoned, NEW w \in Workers, MemberWork(w), NEW u \in Users, Awaits(u)', next'[u] = 0,
           ~ManualFinishes(u)
    PROVE  Awaits(u) /\ next[u] = 0
<1> DEFINE r == worker[w]
<1>0. /\ r \in WorkerState /\ r.user \in Users /\ r.gen \in Gens /\ member[r.gen][r.user] = "running"
      /\ r.outcome \in Terminal
  <2>1. r.pc \in Holding
    BY DEF MemberWork, Start, Capture, Finish, Mark, Holding
  <2>2. r \in WorkerState
    BY <2>1, HeldMember
  <2>3. r.outcome \in Terminal
    BY <2>2 DEF WorkerState
  <2> QED BY <2>1, <2>3, HeldMember
<1>1. ASSUME NEW s \in Terminal, MarkMember(r.gen, r.user, s), UNCHANGED <<next, kind, plan>>
      PROVE  Awaits(u) /\ next[u] = 0
  <2>1. \A g \in Gens : member'[g][u] = "pending" => member[g][u] = "pending"
    BY <1>0, <1>1, MarkMembers
  <2> QED BY <1>1, <2>1, NobodyAwaits
<1>2. CASE Start(w)
  BY <1>1, <1>2, NobodyAwaits DEF Start
<1>3. CASE Capture(w)
  BY <1>3, NobodyAwaits DEF Capture, db
<1>4. CASE Finish(w)
  <2>1. UNCHANGED <<kind, member, plan>> /\ next' = [next EXCEPT ![r.user] = 0]
    BY <1>4 DEF Finish
  <2>2. Awaits(u)
    BY <2>1, NobodyAwaits
  <2>3. CASE u = r.user
    <3>1. r.gen \in 1..lastGen /\ kind[r.gen] # "manual"
      <4>1. r.pc \in Known
        BY <1>4 DEF Finish, Known, Holding
      <4> QED BY <1>4, <2>3, <4>1 DEF ManualFinishes, IInv, WorkersKnow, KnownRecord
    <3>2. kind[r.gen] = "scheduled"
      BY <3>1 DEF Reasoned
    <3>3. /\ plan = NoPlan
          /\ \A h \in Gens : kind[h] = "scheduled" /\ member[h][u] = "pending" => h = r.gen
      BY <1>0, <3>2, ScheduledExcludes
    <3> QED BY <1>0, <2>2, <2>3, <3>3 DEF Awaits, NoPlan
  <2>4. CASE u # r.user
    BY <2>1, <2>2, <2>4 DEF IInv, TypeOK
  <2> QED BY <2>3, <2>4
<1>5. CASE Mark(w)
  BY <1>0, <1>1, <1>5 DEF Mark
<1> QED BY <1>2, <1>3, <1>4, <1>5 DEF MemberWork

\* No step takes an awaiting account's plan but the two of PendingKeepsPlan.
LEMMA AwaitsStep ==
    ASSUME IInv, Reasoned, [Next]_vars, NEW u \in Users, Awaits(u)', next'[u] = 0,
           ~ManualFinishes(u), ~RouteClears(u)
    PROVE  Awaits(u) /\ next[u] = 0
<1>1. ASSUME NEW by, PlanBegins(by) PROVE Awaits(u) /\ next[u] = 0
  BY <1>1, NobodyAwaits DEF PlanBegins, db
<1>2. ASSUME NEW by, PlanCoalesces(by) PROVE Awaits(u) /\ next[u] = 0
  BY <1>2, NobodyAwaits DEF PlanCoalesces, db
<1>3. ASSUME NEW v \in Users, PlanUser(v) PROVE Awaits(u) /\ next[u] = 0
  <2>1. plan'.planned = plan.planned \cup {v} /\ UNCHANGED <<kind, member>>
    BY <1>3 DEF PlanUser, IInv, TypeOK, PlanState
  <2> QED BY <1>3, <2>1, PlanUserWrites DEF Awaits
<1>4. CASE PlanEnds
  <2>1. /\ next' = next /\ plan' = NoPlan /\ lastGen + 1 \in Gens
        /\ member' = [member EXCEPT ![lastGen + 1] =
                         [v \in Users |-> IF v \in plan.planned THEN "pending" ELSE "absent"]]
        /\ kind' = [kind EXCEPT ![lastGen + 1] = "scheduled"]
    BY <1>4, SyncQueueAssumption DEF PlanEnds, CreateGeneration, IInv, TypeOK
  <2>2. PICK g \in Gens : kind'[g] = "scheduled" /\ member'[g][u] = "pending"
    BY <2>1 DEF Awaits, NoPlan
  <2>3. CASE g = lastGen + 1
    BY <2>1, <2>2, <2>3 DEF Awaits, IInv, TypeOK
  <2>4. CASE g # lastGen + 1
    BY <2>1, <2>2, <2>4 DEF Awaits, IInv, TypeOK
  <2> QED BY <2>3, <2>4
<1>5. CASE Planning
  BY <1>1, <1>2, <1>3, <1>4, <1>5 DEF Planning, StartupPlan, DailyDispatch, CheckPreShift
<1>6. CASE RunnerWork
  <2>1. UNCHANGED <<next, kind>> /\ plan'.planned \subseteq plan.planned
    BY <1>6, RunnerMembers
  <2>2. \A g \in Gens : member'[g][u] = "pending" => member[g][u] = "pending"
    BY <1>6, RunnerMembers
  <2> QED BY <2>1, <2>2, NobodyAwaits
<1>7. ASSUME NEW v \in ResetUsers, Deactivate(v) \/ Reactivate(v) \/ ResetRoster(v)
      PROVE  Awaits(u) /\ next[u] = 0
  <2>1. /\ UNCHANGED <<kind, member, plan>>
        /\ next' = next \/ (next' = [next EXCEPT ![v] = 0] /\ u # v)
    BY <1>7 DEF Deactivate, Reactivate, ResetRoster, RouteClears, threads
  <2>2. next[u] = 0
    BY <2>1 DEF IInv, TypeOK
  <2> QED BY <2>1, <2>2, NobodyAwaits
<1>8. CASE Environment
  <2>1. CASE Restart
    <3>1. UNCHANGED <<next, kind>> /\ plan' = NoPlan
      BY <2>1 DEF Restart, RestartThreads
    <3>2. \A g \in Gens : member'[g][u] = "pending" => member[g][u] = "pending"
      BY <2>1 DEF Restart, RecoverGenerations
    <3> QED BY <3>1, <3>2, NobodyAwaits DEF NoPlan
  <2>2. CASE ~Restart
    <3>1. UNCHANGED <<next, kind, plan, member>>
      BY <1>8, <2>2 DEF Environment, Tick, ClaimAges, TargetPasses, WindowMoves, db, threads
    <3> QED BY <3>1, NobodyAwaits
  <2> QED BY <2>1, <2>2
<1>9. CASE UNCHANGED vars
  BY <1>9, NobodyAwaits DEF vars, db, threads
<1> QED
  BY <1>5, <1>6, <1>7, <1>8, <1>9, JobAwaits, MemberAwaits DEF Next, OtherRoutes, CredentialSaveFails

\* An account that awaits its scheduled sync loses its plan only to the end of a
\* manual sync that was begun before, or to a route that clears the account;
\* whatever jobs, restarts, batch sizes, slow captures and lost claims there are.
THEOREM PlansAreKept == Spec => PendingKeepsPlan
<1>1. IInv /\ Reasoned /\ [Next]_vars =>
        \A u \in Users : (Awaits(u)' /\ next'[u] = 0) =>
          \/ Awaits(u) /\ next[u] = 0
          \/ ManualFinishes(u)
          \/ RouteClears(u)
  BY AwaitsStep
<1> QED BY <1>1, ReasonsKnown, Inductive, PTL DEF Spec, PendingKeepsPlan

\* Every account that awaits its scheduled sync is planned, as long as no manual
\* job finishes an account and no route clears one: the runner can reach every
\* unclaimed member of the active scheduled generation, whatever restarts.
PendingIsPlanned == \A u \in Users : Awaits(u) => next[u] # 0

THEOREM PendingArePlanned ==
    ASSUME Jobs = {}, ResetUsers = {}
    PROVE  Spec => []PendingIsPlanned
<1>1. Init => PendingIsPlanned
  BY DEF Init, PendingIsPlanned, Awaits, NoPlan
<1>2. IInv /\ Reasoned /\ PendingIsPlanned /\ [Next]_vars => PendingIsPlanned'
  <2> SUFFICES ASSUME IInv, Reasoned, PendingIsPlanned, [Next]_vars, NEW u \in Users, Awaits(u)'
               PROVE  next'[u] # 0
    BY DEF PendingIsPlanned
  <2>1. ~ManualFinishes(u)
    <3> SUFFICES ASSUME NEW w \in Workers, Finish(w), kind[worker[w].gen] = "manual" PROVE FALSE
      BY DEF ManualFinishes
    <3>1. worker[w].pc \in Known
      BY DEF Finish, Known, Holding
    <3>2. worker[w].gen \in 1..lastGen
      BY <3>1 DEF IInv, WorkersKnow, KnownRecord
    <3> QED BY <3>2 DEF Reasoned
  <2>2. ~RouteClears(u)
    BY DEF RouteClears
  <2> QED BY <2>1, <2>2, AwaitsStep DEF PendingIsPlanned
<1> QED BY <1>1, <1>2, ReasonsKnown, Inductive, PTL DEF Spec

-----------------------------------------------------------------------------
(* And the converse, without manual jobs.  Every generation is scheduled     *)
(* then, so that a planner and an open member exclude each other.           *)

\* Without manual jobs, while a member of u is open nobody plans.
LEMMA OpenExcludes ==
    ASSUME Jobs = {}, IInv, Reasoned, NEW g \in Gens, NEW u \in Users,
           member[g][u] \in {"pending", "running"}
    PROVE  plan = NoPlan
<1>1. g \in 1..lastGen
  BY SyncQueueAssumption DEF IInv, TablesInv, TypeOK
<1>2. kind[g] = "scheduled"
  BY <1>1 DEF Reasoned
<1> QED BY <1>2, ScheduledExcludes

\* A thread that finished its account's sync has cleared its plan.
MarkedIsFree == worker[Runner].pc = "mark" => next[worker[Runner].user] = 0

\* A step after which nobody is planned for nothing who was not before.
OrphansKept == MarkedIsFree' /\ \A u \in Users : Orphan(u)' => Orphan(u)

\* Steps that keep the plans, every open member and the runner's mark.
LEMMA KeepsOpen ==
    ASSUME MarkedIsFree, next' = next, plan.planned \subseteq plan'.planned,
           worker'[Runner].pc = "mark" => worker'[Runner] = worker[Runner],
           \A u \in Users : next[u] # 0 /\ OpenGens(u) # {} => OpenGens(u)' # {}
    PROVE  OrphansKept
BY DEF OrphansKept, MarkedIsFree, Orphan

\* Open members stay open when a step claims members at most.
LEMMA ClaimsKeepOpen ==
    ASSUME IInv, status' = status, NEW u \in Users,
           \A g \in Gens : \/ member'[g][u] = member[g][u]
                           \/ member[g][u] = "pending" /\ member'[g][u] = "running"
    PROVE  OpenGens(u)' = OpenGens(u)
BY DEF OpenGens

\* Ending a member leaves the members of the other accounts open.
LEMMA MarkKeepsOpen ==
    ASSUME IInv, NEW g \in Gens, NEW u \in Users, NEW s \in Terminal, MarkMember(g, u, s),
           NEW v \in Users, v # u
    PROVE  OpenGens(v) \subseteq OpenGens(v)'
<1> SUFFICES ASSUME NEW h \in OpenGens(v) PROVE h \in OpenGens(v)'
  OBVIOUS
<1>1. h \in Gens /\ status[h] = "pending" /\ member[h][v] \in {"pending", "running"}
  BY DEF OpenGens
<1>2. member'[h][v] = member[h][v]
  BY <1>1, MarkMembers
<1>3. status'[h] = "pending"
  <2> DEFINE m == [member[g] EXCEPT ![u] = s]
  <2>1. CASE h = g /\ member[g][u] = "running"
    <3>1. m[v] \in {"pending", "running"}
      BY <1>1, <2>1 DEF IInv, TypeOK
    <3>2. SettledStatus(m) = "pending"
      BY <3>1 DEF SettledStatus
    <3>3. status' = [status EXCEPT ![g] = IF @ = "pending" THEN SettledStatus(m) ELSE @]
      BY <2>1 DEF MarkMember
    <3> HIDE DEF m
    <3> QED BY <1>1, <2>1, <3>2, <3>3 DEF IInv, TypeOK
  <2>2. CASE ~(h = g /\ member[g][u] = "running")
    <3>1. status'[h] = status[h]
      BY <1>1, <2>2 DEF MarkMember, IInv, TypeOK
    <3> QED BY <1>1, <3>1
  <2> QED BY <2>1, <2>2
<1> QED BY <1>1, <1>2, <1>3 DEF OpenGens

\* With the runner as the only thread, its account is free when it starts.
LEMMA OrphanStep ==
    ASSUME Jobs = {}, IInv, Reasoned, ClaimHasWorker, MarkedIsFree, [Next]_vars, ~Restart
    PROVE  OrphansKept
<1>0. Runner \in Workers
  OBVIOUS
<1>1. ASSUME UNCHANGED <<next, status, member, worker>>, plan.planned \subseteq plan'.planned
      PROVE  OrphansKept
  BY <1>1, KeepsOpen DEF OpenGens
<1>2. ASSUME NEW by, PlanBegins(by) PROVE OrphansKept
  BY <1>1, <1>2 DEF PlanBegins, Reasoned, NoPlan, db
<1>3. ASSUME NEW by, by # "runner", PlanCoalesces(by) PROVE OrphansKept
  BY <1>1, <1>3 DEF PlanCoalesces, PlanReturns, db
<1>4. ASSUME NEW u \in Users, PlanUser(u) PROVE OrphansKept
  <2>1. plan'.planned = plan.planned \cup {u} /\ UNCHANGED <<member, status, worker>> /\ plan # NoPlan
    BY <1>4 DEF PlanUser, NoPlan, IInv, TypeOK, PlanState
  <2>2. ASSUME NEW v \in Users, Orphan(v)' PROVE Orphan(v)
    <3>1. OpenGens(v)' = OpenGens(v)
      BY <2>1 DEF OpenGens
    <3> QED BY <1>4, <2>1, <2>2, <3>1, PlanUserWrites DEF Orphan
  <2>3. worker[Runner].pc # "mark"
    <3> SUFFICES ASSUME worker[Runner].pc = "mark" PROVE FALSE
      OBVIOUS
    <3>1. worker[Runner].pc \in Holding
      BY DEF Holding
    <3>2. /\ worker[Runner].user \in Users /\ worker[Runner].gen \in Gens
          /\ member[worker[Runner].gen][worker[Runner].user] = "running"
      BY <1>0, <3>1, HeldMember
    <3> QED BY <2>1, <3>2, OpenExcludes
  <2>4. worker'[Runner].pc # "mark"
    BY <2>1, <2>3
  <2> QED BY <2>2, <2>4 DEF OrphansKept, MarkedIsFree
<1>5. CASE PlanEnds
  <2>1. /\ next' = next /\ lastGen + 1 \in Gens /\ plan.planned \subseteq Users
        /\ member' = [member EXCEPT ![lastGen + 1] =
                         [u \in Users |-> IF u \in plan.planned THEN "pending" ELSE "absent"]]
        /\ status' = [status EXCEPT ![lastGen + 1] = "pending"]
    BY <1>5, SyncQueueAssumption DEF PlanEnds, CreateGeneration, IInv, TypeOK, PlanState
  <2>2. ASSUME NEW u \in Users, next'[u] # 0, ~Orphan(u) PROVE OpenGens(u)' # {}
    <3>1. CASE u \in plan.planned
      <4>1. lastGen + 1 \in OpenGens(u)'
        BY <2>1, <3>1 DEF OpenGens, IInv, TypeOK
      <4> QED BY <4>1
    <3>2. CASE u \notin plan.planned
      <4>1. PICK g \in OpenGens(u) : TRUE
        BY <2>1, <2>2, <3>2 DEF Orphan
      <4>2. g # lastGen + 1
        BY <2>1, <4>1 DEF OpenGens, IInv, TablesInv, TypeOK
      <4>3. g \in OpenGens(u)'
        BY <2>1, <4>1, <4>2 DEF OpenGens, IInv, TypeOK
      <4> QED BY <4>3
    <3> QED BY <3>1, <3>2
  <2>3. worker'[Runner].pc = "mark" => next'[worker'[Runner].user] = 0
    <3>1. worker' = worker \/ worker'[Runner].pc = "query"
      <4>1. CASE plan.by = "runner"
        <5>1. worker' = [worker EXCEPT ![Runner].pc = "query"] /\ worker[Runner] \in WorkerState
          BY <1>0, <1>5, <4>1 DEF PlanEnds, PlanReturns, IInv, TypeOK
        <5> QED BY <1>0, <5>1 DEF IInv, TypeOK, WorkerState
      <4>2. CASE plan.by # "runner"
        BY <1>5, <4>2 DEF PlanEnds, PlanReturns
      <4> QED BY <4>1, <4>2
    <3> QED BY <2>1, <3>1 DEF MarkedIsFree
  <2> QED BY <2>2, <2>3 DEF OrphansKept, MarkedIsFree, Orphan
<1>6. CASE Planning
  BY <1>2, <1>3, <1>4, <1>5, <1>6 DEF Planning, StartupPlan, DailyDispatch, CheckPreShift
<1>7. CASE RunnerWork
  <2>1. \A u \in Users : OpenGens(u)' = OpenGens(u)
    <3>1. status' = status
      BY <1>7, RunnerMembers
    <3>2. \A h \in Gens, v \in Users : \/ member'[h][v] = member[h][v]
                                       \/ member[h][v] = "pending" /\ member'[h][v] = "running"
      BY <1>7, RunnerMembers
    <3> QED BY <3>1, <3>2, ClaimsKeepOpen
  <2>2. worker'[Runner].pc # "mark"
    BY <1>7, RunnerNotMarking
  <2>3. plan.planned \subseteq plan'.planned
    <3>1. CASE PlanBegins("runner")
      BY <3>1 DEF PlanBegins, Reasoned, NoPlan
    <3>2. CASE ~PlanBegins("runner")
      BY <1>7, <3>2 DEF RunnerWork, RunnerBegins, RunnerEnsures, RunnerQueries, RunnerEnds, RunnerPicks,
                        RunnerClaims
    <3> QED BY <3>1, <3>2
  <2>4. next' = next
    BY <1>7, RunnerMembers
  <2> QED BY <2>1, <2>2, <2>3, <2>4, KeepsOpen
<1>8. ASSUME MemberWork(Runner) PROVE OrphansKept
  <2> DEFINE r == worker[Runner]
  <2>0. /\ r \in WorkerState /\ r.user \in Users /\ r.gen \in Gens /\ r.outcome \in Terminal
    <3>1. r.pc \in Holding
      BY <1>8 DEF MemberWork, Start, Capture, Finish, Mark, Holding
    <3>2. r \in WorkerState
      BY <1>0, <3>1, HeldMember
    <3>3. r.outcome \in Terminal
      BY <3>2 DEF WorkerState
    <3> QED BY <1>0, <3>1, <3>3, HeldMember
  <2>1. ASSUME UNCHANGED <<next, status, member, plan>>, worker'[Runner].pc # "mark"
        PROVE  OrphansKept
    BY <2>1, KeepsOpen DEF OpenGens
  <2>2. CASE Start(Runner)
    <3>1. inProgress[r.user] # "yes"
      <4>1. r.pc = "start"
        BY <2>2 DEF Start
      <4> QED BY <2>0, <4>1 DEF ClaimHasWorker
    <3>2. PICK s : Step(Runner, [r EXCEPT !.pc = "capture", !.shared = s])
      BY <2>2, <3>1 DEF Start
    <3>3. worker'[Runner].pc # "mark"
      BY <1>0, <2>0, <3>2 DEF Step, WorkerState, IInv, TypeOK
    <3> QED BY <2>1, <2>2, <3>1, <3>3 DEF Start
  <2>3. CASE Capture(Runner)
    <3>1. PICK o : Step(Runner, [r EXCEPT !.pc = "finish", !.outcome = o])
      BY <2>3 DEF Capture
    <3>2. worker'[Runner].pc # "mark"
      BY <1>0, <2>0, <3>1 DEF Step, WorkerState, IInv, TypeOK
    <3> QED BY <2>1, <2>3, <3>2 DEF Capture, db
  <2>4. CASE Finish(Runner)
    <3>1. /\ next' = [next EXCEPT ![r.user] = 0] /\ UNCHANGED <<status, member, plan>>
          /\ worker'[Runner].user = r.user
      BY <1>0, <2>0, <2>4 DEF Finish, Step, WorkerState, IInv, TypeOK
    <3>2. \A u \in Users : next'[u] # 0 => next[u] # 0 /\ u # r.user
      BY <2>0, <3>1 DEF IInv, TypeOK
    <3>3. next'[worker'[Runner].user] = 0
      BY <2>0, <3>1 DEF IInv, TypeOK
    <3> QED BY <3>1, <3>2, <3>3 DEF OrphansKept, MarkedIsFree, Orphan, OpenGens
  <2>5. CASE Mark(Runner)
    <3>1. /\ next[r.user] = 0 /\ UNCHANGED <<next, plan>> /\ worker'[Runner].pc # "mark"
          /\ MarkMember(r.gen, r.user, r.outcome)
      BY <1>0, <2>5 DEF Mark, MarkedIsFree, Step, Done, Idle, IInv, TypeOK
    <3>2. \A u \in Users : next[u] # 0 /\ OpenGens(u) # {} => OpenGens(u)' # {}
      <4> SUFFICES ASSUME NEW u \in Users, next[u] # 0 PROVE OpenGens(u) \subseteq OpenGens(u)'
        OBVIOUS
      <4>1. u # r.user
        BY <3>1
      <4> QED BY <2>0, <3>1, <4>1, MarkKeepsOpen
    <3> QED BY <3>1, <3>2, KeepsOpen
  <2> QED BY <1>8, <2>2, <2>3, <2>4, <2>5 DEF MemberWork
<1>9. CASE OtherRoutes
  <2>1. PICK v \in ResetUsers : Deactivate(v) \/ Reactivate(v) \/ ResetRoster(v)
    BY <1>9 DEF OtherRoutes, CredentialSaveFails
  <2>2. /\ next' = next \/ next' = [next EXCEPT ![v] = 0]
        /\ UNCHANGED <<status, member, worker, plan>>
    BY <2>1 DEF Deactivate, Reactivate, ResetRoster, threads
  <2>3. \A u \in Users : next'[u] # 0 => next[u] # 0
    BY <2>2 DEF IInv, TypeOK
  <2>4. worker[Runner].pc = "mark" => worker[Runner].user \in Users
    BY <1>0 DEF IInv, WorkersKnow, KnownRecord, Known, Holding
  <2> QED BY <2>2, <2>3, <2>4 DEF OrphansKept, MarkedIsFree, Orphan, OpenGens, IInv, TypeOK
<1>10. CASE Environment
  <2>1. UNCHANGED <<next, status, member, worker, plan>>
    BY <1>10 DEF Environment, Tick, ClaimAges, TargetPasses, WindowMoves, db, threads
  <2> QED BY <1>1, <2>1
<1>11. CASE UNCHANGED vars
  BY <1>1, <1>11 DEF vars, db, threads
<1> QED BY <1>6, <1>7, <1>8, <1>9, <1>10, <1>11 DEF Next

\* Without manual jobs, only a restart leaves an account planned for nothing,
\* whatever batches, triggers, slow captures and clearing routes there are: it ends
\* the member of an interrupted capture, or the planner before the generation of
\* the plan it was writing.
OrphansNeedRestart == [][\A u \in Users : Orphan(u)' => Orphan(u) \/ Restart]_vars

THEOREM OnlyRestartsOrphan ==
    ASSUME Jobs = {}
    PROVE  Spec => OrphansNeedRestart
<1>1. Init => MarkedIsFree
  BY DEF Init, MarkedIsFree, Idle
<1>2. ASSUME IInv, Reasoned, ClaimHasWorker, MarkedIsFree, [Next]_vars
      PROVE  MarkedIsFree' /\ \A u \in Users : Orphan(u)' => Orphan(u) \/ Restart
  <2>1. CASE Restart
    BY <2>1 DEF Restart, RestartThreads, MarkedIsFree, Idle
  <2>2. CASE ~Restart
    BY <1>2, <2>2, OrphanStep DEF OrphansKept
  <2> QED BY <2>1, <2>2
<1> QED BY <1>1, <1>2, ReasonsKnown, ClaimsAreHeld, Inductive, PTL DEF Spec, OrphansNeedRestart

\* Every row the runner can be given has an open member to run, unless its plan
\* is being written: nobody starves the accounts behind it.  Without manual jobs
\* and restarts, for any batch size and whatever other routes clear.
THEOREM PlannedAreMembers ==
    ASSUME Jobs = {}, MaxRestarts = 0
    PROVE  Spec => []PlannedHasMember
<1>1. Init => PlannedHasMember
  BY DEF Init, PlannedHasMember, Orphan
<1>2. TypeOK => ~Restart
  BY DEF Restart, RestartThreads, TypeOK
<1>3. TypeOK /\ PlannedHasMember /\ [\A u \in Users : Orphan(u)' => Orphan(u) \/ Restart]_vars
        => PlannedHasMember'
  BY <1>2 DEF PlannedHasMember, Orphan, OpenGens, vars, db, threads
<1> QED BY <1>1, <1>3, OnlyRestartsOrphan, TypeCorrect, PTL DEF Spec, OrphansNeedRestart

=============================================================================
