------------------------ MODULE AdministrationProofs -------------------------
(***************************************************************************)
(* The invariants of Administration, for any accounts and any number of    *)
(* overlapping requests.  Known, Covered and Checked say what a request's  *)
(* own progress, its backup and its check of the Admins still mean while   *)
(* other requests commit.                                                  *)
(***************************************************************************)
EXTENDS Administration, TLAPS

Early == {"new", "audit", "read", "count", "backup", "write"}

\* Outcome o is true of a request that changed the accounts ef.
Says(r, o, ef) ==
    /\ ef # {} => o \in {"started", "failed", "completed", "purged"}
    /\ o = "purged" => ef = {r.target}
    /\ (o = "completed" /\ r.op \notin RoleOps \cup {"cleanup"}) => ef # {}

\* How far a request is, what its row says and what it changed go together.
Known(r, au, ef) ==
    /\ r.pc \in Early => ef = {}
    /\ r.pc \in {"new", "audit"} => au = "none" /\ r.seen = "none"
    /\ r.pc = "audit" => r.op \in AdminOps
    /\ r.pc = "sweep" => r.op = "cleanup"
    /\ r.pc = "read" => r.op \in AdminOps
    /\ r.pc = "count" => r.op \in RemovalOps
    /\ r.pc = "backup" => r.op \in ErasingOps
    /\ r.pc = "answer" => Says(r, r.outcome, ef)
    /\ r.op \in AdminOps =>
         /\ r.pc \in {"read", "count", "backup", "write", "sweep", "answer"} => au = "started"
         /\ Says(r, au, ef)

\* An erasing request that may write has its backup, or saw no inactive account.
Covered(r, ef) ==
    /\ (r.op \in ErasingOps /\ (r.pc \in {"write", "sweep"} \/ ef # {})) =>
         r.backup \/ (r.op = "purge" /\ r.seen \in {"active", "gone"})
    /\ (r.op = "purge" /\ ef # {}) => r.seen # "gone"

\* An account that was gone when it was read is gone.
SeenGone == \A q \in AdminRequests : request[q].seen = "gone" => account[request[q].target] = "gone"

\* A removal that nobody has crossed since its check leaves an Admin.
Checked(r) ==
    (r.pc = "write" /\ r.op \in RemovalOps /\ ~r.crossed) =>
        r.target \notin ActiveAdmins \/ KeepsAnAdmin(r.target)

AllKnown == \A q \in AdminRequests : Known(request[q], audit[q], effect[q])
AllCovered == \A q \in AdminRequests : Covered(request[q], effect[q])
AllChecked == \A q \in AdminRequests : Checked(request[q])

AdminInv ==
    /\ AdminTypeOK /\ AllKnown /\ AllCovered /\ SeenGone /\ RoleAuditNamesAccounts
    /\ AllChecked /\ LastAdminNeedsRace

-----------------------------------------------------------------------------
(* Steps of one request                                                     *)

AuditValues == Outcomes \cup {"none", "started", "failed"}

\* Records a step makes of a request.
LEMMA StateMoved ==
    ASSUME NEW r \in RequestState
    PROVE  /\ \A pc \in {"read", "count", "backup", "write", "sweep", "answer", "done"} :
                [r EXCEPT !.pc = pc] \in RequestState
           /\ \A o \in Outcomes : [r EXCEPT !.pc = "answer", !.outcome = o] \in RequestState
           /\ [r EXCEPT !.pc = "write", !.backup = TRUE] \in RequestState
           /\ [r EXCEPT !.crossed = TRUE] \in RequestState
           /\ \A s \in SUBSET Accounts : [r EXCEPT !.todo = s] \in RequestState
           /\ \A s \in SUBSET Accounts : [r EXCEPT !.todo = s, !.pc = "sweep"] \in RequestState
           /\ \A pc \in {"count", "backup", "write"}, s \in {"active", "inactive", "gone"} :
                [r EXCEPT !.pc = pc, !.seen = s] \in RequestState
           /\ \A s \in {"active", "inactive", "gone"}, o \in Outcomes :
                [r EXCEPT !.pc = "answer", !.seen = s, !.outcome = o] \in RequestState
BY DEF RequestState

\* What the records of a commit keep.
LEMMA StateKept ==
    ASSUME NEW r \in RequestState, NEW o \in Outcomes
    PROVE  LET answer == [r EXCEPT !.pc = "answer", !.outcome = o]
               cross == [r EXCEPT !.crossed = TRUE]
           IN /\ answer.pc = "answer" /\ answer.outcome = o /\ answer.op = r.op
              /\ answer.target = r.target /\ answer.seen = r.seen /\ answer.backup = r.backup
              /\ answer.crossed = r.crossed
              /\ cross.crossed /\ cross.pc = r.pc /\ cross.outcome = r.outcome /\ cross.op = r.op
              /\ cross.target = r.target /\ cross.seen = r.seen /\ cross.backup = r.backup
BY DEF RequestState

\* A step that moves one request and its row, and writes nothing else.
LEMMA LocalStep ==
    ASSUME AdminInv, NEW q \in AdminRequests, NEW r \in RequestState, NEW au \in AuditValues,
           request' = [request EXCEPT ![q] = r], audit' = [audit EXCEPT ![q] = au],
           UNCHANGED <<account, isAdmin, roleAudit, effect>>,
           Known(r, au, effect[q]), Covered(r, effect[q]), Checked(r),
           r.seen = "gone" => account[r.target] = "gone",
           effect[q] # {} => r.op = request[q].op /\ r.crossed = request[q].crossed
    PROVE  AdminInv'
<1>1. AdminTypeOK'
  BY DEF AdminInv, AdminTypeOK, AuditValues
<1>2. \A p \in AdminRequests : /\ request'[p] = IF p = q THEN r ELSE request[p]
                               /\ audit'[p] = IF p = q THEN au ELSE audit[p]
  BY DEF AdminInv, AdminTypeOK
<1>3. AllKnown'
  BY <1>2 DEF AdminInv, AllKnown, Known, Says
<1>4. AllCovered'
  BY <1>2 DEF AdminInv, AllCovered, Covered
<1>5. SeenGone'
  BY <1>2 DEF AdminInv, SeenGone
<1>6. RoleAuditNamesAccounts'
  BY DEF AdminInv, RoleAuditNamesAccounts
<1>7. AllChecked'
  BY <1>2 DEF AdminInv, AllChecked, Checked, ActiveAdmins, KeepsAnAdmin
<1>8. LastAdminNeedsRace'
  BY <1>2 DEF AdminInv, LastAdminNeedsRace, ActiveAdmins
<1> QED BY <1>1, <1>3, <1>4, <1>5, <1>6, <1>7, <1>8 DEF AdminInv

\* A step that commits: it changes the tables and answers.
LEMMA CommitStep ==
    ASSUME AdminInv, NEW q \in AdminRequests, request[q].pc = "write",
           NEW outcome \in Outcomes, Committed(q, outcome), UNCHANGED audit,
           NEW ef \in SUBSET Accounts, effect' = [effect EXCEPT ![q] = ef],
           account' \in [Accounts -> {"active", "inactive", "gone"}],
           isAdmin' \in [Accounts -> BOOLEAN], roleAudit' \subseteq Accounts \X Accounts,
           \A a \in Accounts : account[a] = "gone" => account'[a] = "gone",
           RoleAuditNamesAccounts', Says(request[q], outcome, ef),
           request[q].op \in AdminOps /\ ef # {} => outcome \in {"completed", "purged"},
           request[q].op = "purge" /\ ef # {} => request[q].seen # "gone",
           ActiveAdmins' = {} => \/ ActiveAdmins = {}
                                 \/ request[q].op \in RemovalOps /\ request[q].crossed /\ ef # {}
    PROVE  AdminInv'
<1> DEFINE r == [request[q] EXCEPT !.pc = "answer", !.outcome = outcome]
           Cross(p) == [request[p] EXCEPT !.crossed = TRUE]
<1>1. /\ request \in [AdminRequests -> RequestState] /\ effect \in [AdminRequests -> SUBSET Accounts]
      /\ audit \in [AdminRequests -> AuditValues]
  BY DEF AdminInv, AdminTypeOK, AuditValues
<1>2. r \in RequestState /\ \A p \in AdminRequests : Cross(p) \in RequestState
  BY <1>1, StateMoved
<1>3. \A p \in AdminRequests :
        \/ p = q /\ request'[p] = r
        \/ p # q /\ request'[p] = request[p] /\ ~(request[p].pc = "write" /\ ActiveAdmins' # ActiveAdmins)
        \/ p # q /\ request'[p] = Cross(p) /\ request[p].pc = "write"
  BY DEF Committed
<1>4. request' \in [AdminRequests -> RequestState]
  <2>1. request' = [p \in AdminRequests |-> request'[p]]
    BY DEF Committed
  <2>2. \A p \in AdminRequests : request'[p] \in RequestState
    BY <1>1, <1>2, <1>3
  <2> QED BY <2>1, <2>2
<1>5. AdminTypeOK'
  BY <1>1, <1>4 DEF AdminTypeOK, AuditValues
<1>6. \A p \in AdminRequests :
        /\ request'[p].op = request[p].op /\ request'[p].target = request[p].target
        /\ request'[p].seen = request[p].seen /\ request'[p].backup = request[p].backup
        /\ p # q => request'[p].pc = request[p].pc /\ request'[p].outcome = request[p].outcome
        /\ request[p].crossed => request'[p].crossed
  <2> SUFFICES ASSUME NEW p \in AdminRequests
               PROVE  /\ request'[p].op = request[p].op /\ request'[p].target = request[p].target
                      /\ request'[p].seen = request[p].seen /\ request'[p].backup = request[p].backup
                      /\ p # q => request'[p].pc = request[p].pc /\ request'[p].outcome = request[p].outcome
                      /\ request[p].crossed => request'[p].crossed
    OBVIOUS
  <2>1. request[p] \in RequestState
    BY <1>1
  <2>2. CASE p = q /\ request'[p] = r
    BY <2>1, <2>2, StateKept
  <2>3. CASE request'[p] = request[p]
    BY <2>3
  <2>4. CASE request'[p] = Cross(p)
    BY <2>1, <2>4, StateKept
  <2> QED BY <1>3, <2>2, <2>3, <2>4
<1>7. request'[q].pc = "answer" /\ request'[q].outcome = outcome
  <2>1. request[q] \in RequestState /\ request'[q] = r
    BY <1>1, <1>3
  <2> QED BY <2>1, StateKept
<1>8. \A p \in AdminRequests : effect'[p] = IF p = q THEN ef ELSE effect[p]
  BY <1>1
<1>9. effect[q] = {} /\ (request[q].op \in AdminOps => audit[q] = "started")
  BY DEF AdminInv, AllKnown, Known, Early
<1>10. AllKnown'
  <2> SUFFICES ASSUME NEW p \in AdminRequests PROVE Known(request[p], audit[p], effect[p])'
    BY DEF AllKnown
  <2>1. Known(request[p], audit[p], effect[p])
    BY DEF AdminInv, AllKnown
  <2>2. CASE p = q
    BY <1>6, <1>7, <1>8, <1>9, <2>2 DEF Known, Says, Early
  <2>3. CASE p # q
    BY <1>6, <1>8, <2>1, <2>3 DEF Known, Says
  <2> QED BY <2>2, <2>3
<1>11. AllCovered'
  <2>1. \A p \in AdminRequests : Covered(request[p], effect[p])
    BY DEF AdminInv, AllCovered
  <2> QED BY <1>6, <1>7, <1>8, <1>9, <2>1 DEF AllCovered, Covered
<1>12. SeenGone'
  <2>1. \A p \in AdminRequests : request[p].target \in Accounts
    BY <1>1 DEF RequestState
  <2> QED BY <1>6, <2>1 DEF AdminInv, SeenGone
<1>13. AllChecked'
  <2> SUFFICES ASSUME NEW p \in AdminRequests, request'[p].pc = "write", request'[p].op \in RemovalOps,
                      ~request'[p].crossed
               PROVE  request'[p].target \notin ActiveAdmins' \/ (KeepsAnAdmin(request[p].target))'
    BY DEF AllChecked, Checked
  <2>1. p # q
    BY <1>7
  <2>2. request'[p] = request[p]
    BY <1>1, <1>3, <2>1 DEF RequestState
  <2>3. ActiveAdmins' = ActiveAdmins
    BY <1>1, <1>3, <2>1, <2>2 DEF RequestState
  <2> QED BY <2>2, <2>3 DEF AdminInv, AllChecked, Checked, KeepsAnAdmin
<1>14. LastAdminNeedsRace'
  <2> SUFFICES ASSUME ActiveAdmins' = {}
               PROVE  \E p \in AdminRequests :
                        request'[p].op \in RemovalOps /\ request'[p].crossed /\ effect'[p] # {}
    BY DEF LastAdminNeedsRace
  <2>1. CASE ActiveAdmins = {}
    <3>1. PICK p \in AdminRequests :
            request[p].op \in RemovalOps /\ request[p].crossed /\ effect[p] # {}
      BY <2>1 DEF AdminInv, LastAdminNeedsRace
    <3> QED BY <1>6, <1>8, <1>9, <3>1
  <2>2. CASE ActiveAdmins # {}
    BY <1>6, <1>8, <2>2
  <2> QED BY <2>1, <2>2
<1> QED BY <1>5, <1>10, <1>11, <1>12, <1>13, <1>14 DEF AdminInv

-----------------------------------------------------------------------------
(* The actions                                                              *)

LEMMA RequestTyped ==
    ASSUME AdminInv, NEW q \in AdminRequests
    PROVE  /\ request[q] \in RequestState /\ audit[q] \in AuditValues /\ effect[q] \in SUBSET Accounts
           /\ request[q].target \in Accounts /\ request[q].actor \in Accounts
           /\ request[q].outcome \in Outcomes /\ audit = [audit EXCEPT ![q] = audit[q]]
           /\ Known(request[q], audit[q], effect[q]) /\ Covered(request[q], effect[q])
           /\ Checked(request[q])
           /\ request[q].seen = "gone" => account[request[q].target] = "gone"
BY DEF AdminInv, AdminTypeOK, RequestState, AuditValues, AllKnown, AllCovered, AllChecked, SeenGone

LEMMA ArrivesInv ==
    ASSUME AdminInv, NEW q \in AdminRequests, RequestArrives(q) PROVE AdminInv'
<1>1. PICK op \in AccountOps, a \in Accounts, t \in Accounts :
        /\ account[a] = "active" /\ (op \in AdminOps => isAdmin[a])
        /\ (op \in {"leave", "cleanup"} => t = a)
        /\ request' = [request EXCEPT ![q] =
              IF op \in AdminOps THEN NewRequest(op, a, t)
              ELSE [NewRequest(op, a, t) EXCEPT !.pc = IF isAdmin[a] THEN "count" ELSE "write"]]
  BY DEF RequestArrives
<1> DEFINE r == IF op \in AdminOps THEN NewRequest(op, a, t)
                ELSE [NewRequest(op, a, t) EXCEPT !.pc = IF isAdmin[a] THEN "count" ELSE "write"]
<1>2. /\ r \in RequestState /\ r.op = op /\ r.target = t /\ r.seen = "none" /\ ~r.crossed
      /\ op \in AdminOps => r.pc = "audit"
      /\ op \notin AdminOps => r.pc = IF isAdmin[a] THEN "count" ELSE "write"
  BY DEF NewRequest, RequestState, Outcomes
<1>3. effect[q] = {} /\ audit[q] = "none"
  BY RequestTyped DEF RequestArrives, Known, Early
<1>4. op \notin AdminOps => op = "leave"
  BY DEF AccountOps
<1>5. Known(r, audit[q], effect[q]) /\ Covered(r, effect[q])
  BY <1>2, <1>3, <1>4 DEF Known, Covered, Says, AdminOps, RoleOps, ErasingOps, RemovalOps
<1>6. Checked(r)
  BY <1>1, <1>2, <1>4 DEF Checked, RemovalOps, AdminOps, RoleOps, ErasingOps, ActiveAdmins
<1>7. request' = [request EXCEPT ![q] = r] /\ audit' = [audit EXCEPT ![q] = audit[q]]
  BY <1>1, RequestTyped DEF RequestArrives
<1>8. UNCHANGED <<account, isAdmin, roleAudit, effect>> /\ audit[q] \in AuditValues
  BY RequestTyped DEF RequestArrives
<1> HIDE DEF r
<1> QED BY <1>2, <1>3, <1>5, <1>6, <1>7, <1>8, LocalStep

\* A step that only moves a request's pc within the handler.
LEMMA GoesInv ==
    ASSUME AdminInv, NEW q \in AdminRequests, NEW pc \in {"read", "done"}, NEW au \in AuditValues,
           Goes(q, pc), audit' = [audit EXCEPT ![q] = au],
           UNCHANGED <<account, isAdmin, roleAudit, effect>>,
           pc = "read" => effect[q] = {} /\ request[q].op \in AdminOps /\ au = "started",
           request[q].op \in AdminOps => Says(request[q], au, effect[q])
    PROVE  AdminInv'
<1> DEFINE r == [request[q] EXCEPT !.pc = pc]
<1>1. request[q] \in RequestState
  BY RequestTyped
<1>2. r \in RequestState
  BY <1>1, StateMoved
<1>3. /\ r.pc = pc /\ r.op = request[q].op /\ r.target = request[q].target /\ r.seen = request[q].seen
      /\ r.backup = request[q].backup /\ r.crossed = request[q].crossed
  BY <1>1 DEF RequestState
<1>4. request' = [request EXCEPT ![q] = r]
  BY DEF Goes
<1> HIDE DEF r
<1>5. Known(r, au, effect[q])
  BY <1>3 DEF Known, Says, Early
<1>6. Covered(r, effect[q])
  BY <1>3, RequestTyped DEF Covered
<1>7. Checked(r)
  BY <1>3 DEF Checked
<1>8. r.seen = "gone" => account[r.target] = "gone"
  BY <1>3, RequestTyped
<1> QED BY <1>2, <1>3, <1>4, <1>5, <1>6, <1>7, <1>8, LocalStep

\* A step that answers without having changed anything.
LEMMA AnswersInv ==
    ASSUME AdminInv, NEW q \in AdminRequests, NEW o \in Outcomes, NEW r \in RequestState,
           request' = [request EXCEPT ![q] = r], r.pc = "answer", r.outcome = o,
           r.op = request[q].op, r.target = request[q].target, r.backup = request[q].backup,
           r.crossed = request[q].crossed, request[q].pc \notin {"new", "audit", "answer", "done"},
           r.seen = "gone" => account[r.target] = "gone",
           UNCHANGED <<account, isAdmin, roleAudit, audit, effect>>,
           \/ request[q].pc = "sweep" /\ o \in {"completed", "unchanged"} /\ r.seen = request[q].seen
              /\ (o = "unchanged" => effect[q] = {})
           \/ request[q].pc \in Early /\ o \notin {"completed", "purged"}
    PROVE  AdminInv'
<1>1. Known(r, audit[q], effect[q])
  BY RequestTyped DEF Known, Says, Early
<1>2. Covered(r, effect[q])
  BY RequestTyped DEF Covered, Known, Early
<1>3. Checked(r)
  BY DEF Checked
<1>4. audit' = [audit EXCEPT ![q] = audit[q]] /\ audit[q] \in AuditValues
  BY RequestTyped
<1> QED BY <1>1, <1>2, <1>3, <1>4, LocalStep

LEMMA AuditStepsInv ==
    ASSUME AdminInv, NEW q \in AdminRequests,
           AuditStarts(q) \/ AuditUnavailable(q) \/ AuditFinishes(q) \/ HandlerRaises(q)
    PROVE  AdminInv'
<1>1. /\ audit[q] \in AuditValues /\ audit = [audit EXCEPT ![q] = audit[q]]
      /\ Known(request[q], audit[q], effect[q]) /\ request[q].outcome \in AuditValues
  BY RequestTyped DEF AuditValues
<1>2. CASE AuditStarts(q)
  <2>1. effect[q] = {} /\ request[q].op \in AdminOps /\ Says(request[q], "started", effect[q])
    BY <1>1, <1>2 DEF AuditStarts, Known, Says, Early
  <2>2. "started" \in AuditValues /\ Goes(q, "read") /\ audit' = [audit EXCEPT ![q] = "started"]
    BY <1>2 DEF AuditStarts, AuditValues
  <2> QED BY <1>2, <2>1, <2>2, GoesInv DEF AuditStarts
<1>3. CASE AuditUnavailable(q)
  <2>1. request[q].op \in AdminOps => Says(request[q], audit[q], effect[q])
    BY <1>1 DEF Known
  <2> QED BY <1>1, <1>3, <2>1, GoesInv DEF AuditUnavailable
<1>4. CASE AuditFinishes(q)
  <2>1. request[q].pc = "answer" /\ Goes(q, "done") /\ UNCHANGED <<account, isAdmin, roleAudit, effect>>
    BY <1>4 DEF AuditFinishes
  <2>2. PICK o \in AuditValues :
          /\ audit' = [audit EXCEPT ![q] = o]
          /\ request[q].op \in AdminOps => o \in {request[q].outcome, "started"}
    BY <1>1, <1>4 DEF AuditFinishes, AuditValues
  <2>3. request[q].op \in AdminOps => Says(request[q], o, effect[q])
    BY <1>1, <2>1, <2>2 DEF Known, Says
  <2> QED BY <2>1, <2>2, <2>3, GoesInv
<1>5. CASE HandlerRaises(q)
  <2>1. Goes(q, "done") /\ UNCHANGED <<account, isAdmin, roleAudit, effect>>
    BY <1>5 DEF HandlerRaises
  <2>2. PICK o \in AuditValues :
          /\ audit' = [audit EXCEPT ![q] = o]
          /\ request[q].op \in AdminOps => o \in {"failed", "started"}
    BY <1>1, <1>5 DEF HandlerRaises, AuditValues
  <2>3. request[q].op \in AdminOps => Says(request[q], o, effect[q])
    BY <2>2 DEF Says
  <2> QED BY <2>1, <2>2, <2>3, GoesInv
<1> QED BY <1>2, <1>3, <1>4, <1>5

LEMMA StopsInv == AdminInv /\ AdminProcessStops => AdminInv'
<1> SUFFICES ASSUME AdminInv, AdminProcessStops PROVE AdminInv'
  OBVIOUS
<1>1. UNCHANGED <<account, isAdmin, roleAudit, audit, effect>>
  BY DEF AdminProcessStops
<1>2. \A q \in AdminRequests : request[q] \in RequestState
  BY RequestTyped
<1>3. \A q \in AdminRequests :
        /\ request'[q] \in RequestState
        /\ request'[q].pc = IF request[q].pc = "new" THEN "new" ELSE "done"
        /\ request'[q].op = request[q].op /\ request'[q].target = request[q].target
        /\ request'[q].seen = request[q].seen /\ request'[q].backup = request[q].backup
        /\ request'[q].crossed = request[q].crossed
  <2> SUFFICES ASSUME NEW q \in AdminRequests
               PROVE  /\ request'[q] \in RequestState
                      /\ request'[q].pc = IF request[q].pc = "new" THEN "new" ELSE "done"
                      /\ request'[q].op = request[q].op /\ request'[q].target = request[q].target
                      /\ request'[q].seen = request[q].seen /\ request'[q].backup = request[q].backup
                      /\ request'[q].crossed = request[q].crossed
    OBVIOUS
  <2>1. request'[q] = IF request[q].pc = "new" THEN request[q] ELSE [request[q] EXCEPT !.pc = "done"]
    BY DEF AdminProcessStops
  <2> QED BY <1>2, <2>1 DEF RequestState
<1>4. request' \in [AdminRequests -> RequestState]
  <2>1. request' = [q \in AdminRequests |-> request'[q]]
    BY DEF AdminProcessStops
  <2> QED BY <1>3, <2>1
<1>5. AdminTypeOK'
  BY <1>1, <1>4 DEF AdminInv, AdminTypeOK
<1>6. AllKnown'
  BY <1>1, <1>3 DEF AdminInv, AllKnown, Known, Says, Early
<1>7. AllCovered'
  BY <1>1, <1>3 DEF AdminInv, AllCovered, Covered
<1>8. SeenGone' /\ RoleAuditNamesAccounts'
  BY <1>1, <1>3 DEF AdminInv, SeenGone, RoleAuditNamesAccounts
<1>9. AllChecked'
  BY <1>3 DEF AllChecked, Checked
<1>10. LastAdminNeedsRace'
  BY <1>1, <1>3 DEF AdminInv, LastAdminNeedsRace, ActiveAdmins
<1> QED BY <1>5, <1>6, <1>7, <1>8, <1>9, <1>10 DEF AdminInv

\* What NextCheck lets through to a write or a backup.
LEMMA NextCheckFacts ==
    ASSUME NEW op \in AdminOps, NEW self \in BOOLEAN, NEW row \in {"active", "inactive", "gone"},
           NEW admin \in BOOLEAN
    PROVE  LET next == NextCheck(op, self, row, admin) IN
           /\ next \in {"not_found", "blocked", "count", "request_finished", "backup", "write"}
           /\ next = "write" => op \notin {"reset", "cleanup"} /\ (op = "purge" => row # "inactive")
           /\ next = "count" => op \in RemovalOps
           /\ next = "backup" => op \in ErasingOps
           /\ (next = "write" /\ op \in RemovalOps) => row # "active" \/ ~admin
BY DEF NextCheck, AdminOps, RoleOps, ErasingOps, RemovalOps

LEMMA ReadsInv ==
    ASSUME AdminInv, NEW q \in AdminRequests, ReadsTarget(q) PROVE AdminInv'
<1> DEFINE row == account[request[q].target]
           admin == isAdmin[request[q].target]
           self == request[q].actor = request[q].target
           next == NextCheck(request[q].op, self, row, admin)
<1>1. request[q].pc = "read" /\ UNCHANGED <<account, isAdmin, roleAudit, audit, effect>>
  BY DEF ReadsTarget
<1>2. request[q] \in RequestState /\ row \in {"active", "inactive", "gone"} /\ admin \in BOOLEAN
  BY RequestTyped DEF AdminInv, AdminTypeOK
<1>3. effect[q] = {} /\ audit[q] \in AuditValues /\ audit = [audit EXCEPT ![q] = audit[q]]
      /\ (request[q].op \in AdminOps => audit[q] = "started")
  BY <1>1, RequestTyped DEF Known, Early
<1>4. request' = [request EXCEPT ![q] =
        IF next \in {"count", "backup", "write"} THEN [request[q] EXCEPT !.pc = next, !.seen = row]
        ELSE [request[q] EXCEPT !.pc = "answer", !.seen = row, !.outcome = next]]
  BY DEF ReadsTarget
<1>5. request[q].op \in AdminOps
  BY <1>1, RequestTyped DEF Known
<1>6. /\ next \in {"not_found", "blocked", "count", "request_finished", "backup", "write"}
      /\ next = "write" => /\ request[q].op \notin {"reset", "cleanup"}
                           /\ request[q].op = "purge" => row # "inactive"
      /\ next = "count" => request[q].op \in RemovalOps
      /\ next = "backup" => request[q].op \in ErasingOps
      /\ (next = "write" /\ request[q].op \in RemovalOps) => row # "active" \/ ~admin
  <2> HIDE DEF row, admin, self
  <2>1. self \in BOOLEAN
    BY DEF self
  <2> QED BY <1>2, <1>5, <2>1, NextCheckFacts
<1> HIDE DEF next, row, admin
<1>7. CASE next \in {"count", "backup", "write"}
  <2> DEFINE r == [request[q] EXCEPT !.pc = next, !.seen = row]
  <2>1. r \in RequestState
    BY <1>2, <1>7, StateMoved
  <2>2. /\ r.pc = next /\ r.seen = row /\ r.op = request[q].op /\ r.target = request[q].target
        /\ r.backup = request[q].backup /\ r.crossed = request[q].crossed
    BY <1>2 DEF RequestState
  <2>3. request' = [request EXCEPT ![q] = r]
    BY <1>4, <1>7
  <2> HIDE DEF r
  <2>4. Known(r, audit[q], effect[q])
    BY <1>3, <1>5, <1>6, <1>7, <2>2 DEF Known, Says, Early
  <2>5. Covered(r, effect[q])
    BY <1>2, <1>3, <1>6, <1>7, <2>2 DEF Covered, ErasingOps
  <2>6. Checked(r)
    BY <1>6, <2>2 DEF Checked, ActiveAdmins, row, admin
  <2>7. r.seen = "gone" => account[r.target] = "gone"
    BY <2>2 DEF row
  <2> QED BY <1>1, <1>3, <2>1, <2>2, <2>3, <2>4, <2>5, <2>6, <2>7, LocalStep
<1>8. CASE next \notin {"count", "backup", "write"}
  <2> DEFINE r == [request[q] EXCEPT !.pc = "answer", !.seen = row, !.outcome = next]
  <2>1. next \in Outcomes /\ next \notin {"completed", "purged"}
    BY <1>6, <1>8 DEF Outcomes
  <2>2. r \in RequestState
    BY <1>2, <2>1, StateMoved
  <2>3. /\ r.pc = "answer" /\ r.outcome = next /\ r.seen = row /\ r.op = request[q].op
        /\ r.target = request[q].target /\ r.backup = request[q].backup
        /\ r.crossed = request[q].crossed
    BY <1>2 DEF RequestState
  <2>4. request' = [request EXCEPT ![q] = r]
    BY <1>4, <1>8
  <2>5. r.seen = "gone" => account[r.target] = "gone"
    BY <2>3 DEF row
  <2>6. request[q].pc \in Early /\ request[q].pc \notin {"new", "audit", "answer", "done"}
    BY <1>1 DEF Early
  <2> HIDE DEF r
  <2> QED BY <1>1, <2>1, <2>2, <2>3, <2>4, <2>5, <2>6, AnswersInv
<1> QED BY <1>7, <1>8

\* A step that answers "blocked" before any write.
LEMMA BlockedInv ==
    ASSUME AdminInv, NEW q \in AdminRequests, request[q].pc \in {"count", "backup"},
           Answers(q, "blocked"), UNCHANGED <<account, isAdmin, roleAudit, audit, effect>>
    PROVE  AdminInv'
<1> DEFINE r == [request[q] EXCEPT !.pc = "answer", !.outcome = "blocked"]
<1>1. request[q] \in RequestState /\ "blocked" \in Outcomes
  BY RequestTyped DEF Outcomes
<1>2. r \in RequestState
  BY <1>1, StateMoved
<1>3. /\ r.pc = "answer" /\ r.outcome = "blocked" /\ r.seen = request[q].seen /\ r.op = request[q].op
      /\ r.target = request[q].target /\ r.backup = request[q].backup
      /\ r.crossed = request[q].crossed
  BY <1>1 DEF RequestState
<1>4. request' = [request EXCEPT ![q] = r]
  BY DEF Answers
<1> HIDE DEF r
<1>5. r.seen = "gone" => account[r.target] = "gone"
  BY <1>3, RequestTyped
<1>6. request[q].pc \in Early /\ request[q].pc \notin {"new", "audit", "answer", "done"}
  BY DEF Early
<1> QED BY <1>1, <1>2, <1>3, <1>4, <1>5, <1>6, AnswersInv

LEMMA CountsInv ==
    ASSUME AdminInv, NEW q \in AdminRequests, CountsAdmins(q) PROVE AdminInv'
<1>1. request[q].pc = "count" /\ UNCHANGED <<account, isAdmin, roleAudit, audit, effect>>
  BY DEF CountsAdmins
<1>2. CASE ~KeepsAnAdmin(request[q].target)
  BY <1>1, <1>2, BlockedInv DEF CountsAdmins
<1>3. CASE KeepsAnAdmin(request[q].target)
  <2> DEFINE r == [request[q] EXCEPT !.pc = "write"]
  <2>1. request[q] \in RequestState
    BY RequestTyped
  <2>2. r \in RequestState
    BY <2>1, StateMoved
  <2>3. /\ r.pc = "write" /\ r.seen = request[q].seen /\ r.op = request[q].op
        /\ r.target = request[q].target /\ r.backup = request[q].backup
        /\ r.crossed = request[q].crossed
    BY <2>1 DEF RequestState
  <2>4. request' = [request EXCEPT ![q] = r]
    BY <1>3 DEF CountsAdmins, Goes
  <2> HIDE DEF r
  <2>5. Known(r, audit[q], effect[q])
    BY <1>1, <2>3, RequestTyped DEF Known, Says, Early
  <2>6. r.op \in {"revoke", "deactivate", "leave"}
    BY <1>1, <2>3, RequestTyped DEF Known, RemovalOps
  <2>7. Covered(r, effect[q])
    BY <2>6 DEF Covered, ErasingOps
  <2>8. Checked(r)
    BY <1>3, <2>3 DEF Checked
  <2>9. audit' = [audit EXCEPT ![q] = audit[q]] /\ audit[q] \in AuditValues
        /\ (r.seen = "gone" => account[r.target] = "gone")
    BY <1>1, <2>3, RequestTyped
  <2> QED BY <1>1, <2>2, <2>3, <2>4, <2>5, <2>7, <2>8, <2>9, LocalStep
<1> QED BY <1>2, <1>3

LEMMA BackupInv ==
    ASSUME AdminInv, NEW q \in AdminRequests, SafetyBackup(q) PROVE AdminInv'
<1>1. request[q].pc = "backup" /\ UNCHANGED <<account, isAdmin, roleAudit, audit, effect>>
  BY DEF SafetyBackup
<1>2. CASE Answers(q, "blocked")
  BY <1>1, <1>2, BlockedInv
<1>3. CASE request' = [request EXCEPT ![q].pc = "write", ![q].backup = TRUE]
  <2> DEFINE r == [request[q] EXCEPT !.pc = "write", !.backup = TRUE]
  <2>1. request[q] \in RequestState
    BY RequestTyped
  <2>2. r \in RequestState
    BY <2>1, StateMoved
  <2>3. /\ r.pc = "write" /\ r.seen = request[q].seen /\ r.op = request[q].op
        /\ r.target = request[q].target /\ r.backup /\ r.crossed = request[q].crossed
    BY <2>1 DEF RequestState
  <2>4. request' = [request EXCEPT ![q] = r]
    BY <1>3, <2>1 DEF AdminInv, AdminTypeOK
  <2> HIDE DEF r
  <2>5. Known(r, audit[q], effect[q])
    BY <1>1, <2>3, RequestTyped DEF Known, Says, Early
  <2>6. Covered(r, effect[q])
    BY <1>1, <2>3, RequestTyped DEF Covered, Known, Early
  <2>7. r.op \in ErasingOps
    BY <1>1, <2>3, RequestTyped DEF Known
  <2>8. Checked(r)
    BY <2>7 DEF Checked, RemovalOps, ErasingOps
  <2>9. audit' = [audit EXCEPT ![q] = audit[q]] /\ audit[q] \in AuditValues
        /\ (r.seen = "gone" => account[r.target] = "gone")
    BY <1>1, <2>3, RequestTyped
  <2> QED BY <1>1, <2>2, <2>3, <2>4, <2>5, <2>6, <2>8, <2>9, LocalStep
<1> QED BY <1>2, <1>3 DEF SafetyBackup

LEMMA RoleInv ==
    ASSUME AdminInv, NEW q \in AdminRequests, ChangesRole(q) PROVE AdminInv'
<1> DEFINE t == request[q].target
           a == request[q].actor
<1>1. /\ request[q].pc = "write" /\ request[q].op \in RoleOps /\ account[t] # "gone"
      /\ account[a] # "gone" /\ roleAudit' = roleAudit \cup {<<a, t>>} /\ UNCHANGED <<account, audit>>
      /\ Committed(q, "completed")
  BY DEF ChangesRole
<1>2. t \in Accounts /\ a \in Accounts /\ request[q] \in RequestState /\ effect[q] \in SUBSET Accounts
      /\ Checked(request[q])
  BY RequestTyped
<1>3. effect[q] = {}
  BY <1>1, RequestTyped DEF Known, Early
<1>4. roleAudit' \subseteq Accounts \X Accounts /\ RoleAuditNamesAccounts'
  BY <1>1, <1>2 DEF AdminInv, AdminTypeOK, RoleAuditNamesAccounts
<1>5. account' \in [Accounts -> {"active", "inactive", "gone"}]
  BY <1>1 DEF AdminInv, AdminTypeOK
<1>6. "completed" \in Outcomes /\ request[q].op # "purge" /\ request[q].op \in AdminOps
  BY <1>1 DEF Outcomes, RoleOps, AdminOps
<1>7. CASE account[t] = "active"
  <2>1. isAdmin' = [isAdmin EXCEPT ![t] = request[q].op = "grant"] /\ effect' = [effect EXCEPT ![q] = {t}]
    BY <1>7 DEF ChangesRole
  <2>2. isAdmin' \in [Accounts -> BOOLEAN]
    BY <2>1 DEF AdminInv, AdminTypeOK
  <2>3. Says(request[q], "completed", {t})
    BY DEF Says
  <2>4. ActiveAdmins' = {} => ActiveAdmins = {} \/ (request[q].op \in RemovalOps /\ request[q].crossed)
    <3>1. CASE request[q].op = "grant"
      <4>1. t \in ActiveAdmins'
        BY <1>1, <1>2, <1>7, <2>1, <3>1 DEF ActiveAdmins, AdminInv, AdminTypeOK
      <4> QED BY <4>1
    <3>2. CASE request[q].op = "revoke"
      <4>1. ActiveAdmins \ {t} \subseteq ActiveAdmins'
        BY <1>1, <2>1 DEF ActiveAdmins, AdminInv, AdminTypeOK
      <4> QED BY <1>1, <1>2, <3>2, <4>1 DEF Checked, KeepsAnAdmin, RemovalOps
    <3> QED BY <1>1, <3>1, <3>2 DEF RoleOps
  <2>5. {t} \in SUBSET Accounts /\ {t} # {} /\ "completed" \in {"completed", "purged"}
        /\ \A b \in Accounts : account[b] = "gone" => account'[b] = "gone"
    BY <1>1, <1>2
  <2> QED BY <1>1, <1>2, <1>4, <1>5, <1>6, <2>1, <2>2, <2>3, <2>4, <2>5, CommitStep
<1>8. CASE account[t] # "active"
  <2>1. UNCHANGED <<isAdmin, effect>> /\ effect' = [effect EXCEPT ![q] = {}]
    BY <1>3, <1>8 DEF ChangesRole, AdminInv, AdminTypeOK
  <2>2. isAdmin' \in [Accounts -> BOOLEAN]
    BY <2>1 DEF AdminInv, AdminTypeOK
  <2>3. Says(request[q], "completed", {})
    BY <1>1 DEF Says
  <2>4. ActiveAdmins' = ActiveAdmins
    BY <1>1, <2>1 DEF ActiveAdmins
  <2> QED BY <1>1, <1>4, <1>5, <1>6, <2>1, <2>2, <2>3, <2>4, CommitStep
<1> QED BY <1>7, <1>8

\* The accounts a purge leaves, and the rows of its role audit.
LEMMA PurgeFacts ==
    ASSUME AdminTypeOK, RoleAuditNamesAccounts, NEW a \in Accounts, account[a] = "inactive",
           ~Retained(a), Purge(a)
    PROVE  /\ account' \in [Accounts -> {"active", "inactive", "gone"}]
           /\ isAdmin' \in [Accounts -> BOOLEAN] /\ roleAudit' \subseteq Accounts \X Accounts
           /\ \A b \in Accounts : account[b] = "gone" => account'[b] = "gone"
           /\ RoleAuditNamesAccounts' /\ ActiveAdmins' = ActiveAdmins
<1>1. RoleAuditNamesAccounts'
  <2> SUFFICES ASSUME NEW row \in roleAudit'
               PROVE  account'[row[1]] # "gone" /\ account'[row[2]] # "gone"
    BY DEF RoleAuditNamesAccounts
  <2>1. row \in roleAudit /\ row[2] # a /\ row[1] \in Accounts /\ row[2] \in Accounts
        /\ row = <<row[1], row[2]>>
    BY DEF Purge, AdminTypeOK
  <2>2. row[1] # a
    BY <2>1 DEF Retained
  <2> QED BY <2>1, <2>2 DEF Purge, AdminTypeOK, RoleAuditNamesAccounts
<1>2. ActiveAdmins' = ActiveAdmins
  BY DEF Purge, AdminTypeOK, ActiveAdmins
<1> QED BY <1>1, <1>2 DEF Purge, AdminTypeOK

LEMMA ActiveInv ==
    ASSUME AdminInv, NEW q \in AdminRequests, SetsActive(q) PROVE AdminInv'
<1> DEFINE t == request[q].target
           state == IF request[q].op = "reactivate" THEN "active" ELSE "inactive"
<1>1. /\ request[q].pc = "write" /\ request[q].op \in {"deactivate", "reactivate", "leave"}
      /\ UNCHANGED <<isAdmin, roleAudit, audit>>
  BY DEF SetsActive
<1>2. t \in Accounts /\ request[q] \in RequestState /\ effect[q] \in SUBSET Accounts
      /\ Checked(request[q])
  BY RequestTyped
<1>3. effect[q] = {}
  BY <1>1, RequestTyped DEF Known, Early
<1>4. isAdmin' \in [Accounts -> BOOLEAN] /\ roleAudit' \subseteq Accounts \X Accounts
      /\ "completed" \in Outcomes /\ "not_found" \in Outcomes /\ request[q].op # "purge"
  BY <1>1 DEF AdminInv, AdminTypeOK, Outcomes
<1>5. CASE account[t] # "gone"
  <2>1. account' = [account EXCEPT ![t] = state] /\ effect' = [effect EXCEPT ![q] = {t}]
        /\ Committed(q, "completed")
    BY <1>5 DEF SetsActive
  <2>2. account' \in [Accounts -> {"active", "inactive", "gone"}]
        /\ \A b \in Accounts : account[b] = "gone" => account'[b] = "gone"
    BY <1>2, <1>5, <2>1 DEF AdminInv, AdminTypeOK
  <2>3. RoleAuditNamesAccounts'
    <3> SUFFICES ASSUME NEW row \in roleAudit
                 PROVE  account'[row[1]] # "gone" /\ account'[row[2]] # "gone"
      BY <1>1 DEF RoleAuditNamesAccounts
    <3> QED BY <1>2, <2>1 DEF AdminInv, AdminTypeOK, RoleAuditNamesAccounts
  <2>4. Says(request[q], "completed", {t}) /\ {t} \in SUBSET Accounts /\ {t} # {}
    BY <1>2 DEF Says
  <2>5. ActiveAdmins' = {} => ActiveAdmins = {} \/ (request[q].op \in RemovalOps /\ request[q].crossed)
    <3>1. ActiveAdmins \ {t} \subseteq ActiveAdmins'
      BY <1>1, <2>1 DEF ActiveAdmins, AdminInv, AdminTypeOK
    <3>2. request[q].op # "reactivate" => request[q].op \in RemovalOps
      BY <1>1 DEF RemovalOps
    <3>3. request[q].op = "reactivate" => ActiveAdmins \subseteq ActiveAdmins'
      BY <1>1, <1>2, <2>1 DEF ActiveAdmins, AdminInv, AdminTypeOK
    <3> QED BY <1>1, <1>2, <3>1, <3>2, <3>3 DEF Checked, KeepsAnAdmin
  <2>6. "completed" \in {"completed", "purged"}
    OBVIOUS
  <2> QED BY <1>1, <1>4, <2>1, <2>2, <2>3, <2>4, <2>5, <2>6, CommitStep
<1>6. CASE account[t] = "gone"
  <2>1. UNCHANGED <<account, effect>> /\ Committed(q, "not_found")
        /\ effect' = [effect EXCEPT ![q] = {}] /\ {} \in SUBSET Accounts
    BY <1>3, <1>6 DEF SetsActive, AdminInv, AdminTypeOK
  <2>2. account' \in [Accounts -> {"active", "inactive", "gone"}] /\ RoleAuditNamesAccounts'
    BY <1>1, <2>1 DEF AdminInv, AdminTypeOK, RoleAuditNamesAccounts
  <2>3. Says(request[q], "not_found", {})
    BY DEF Says
  <2>4. ActiveAdmins' = ActiveAdmins
    BY <1>1, <2>1 DEF ActiveAdmins
  <2> QED BY <1>1, <1>4, <2>1, <2>2, <2>3, <2>4, CommitStep
<1> QED BY <1>5, <1>6

\* A request that commits nothing but its answer.
LEMMA EmptyCommit ==
    ASSUME AdminInv, NEW q \in AdminRequests, request[q].pc = "write", NEW o \in Outcomes \ {"completed", "purged"},
           Committed(q, o), UNCHANGED <<account, isAdmin, roleAudit, audit, effect>>
    PROVE  AdminInv'
<1>1. effect[q] = {} /\ effect' = [effect EXCEPT ![q] = {}] /\ {} \in SUBSET Accounts
  BY RequestTyped DEF Known, Early, AdminInv, AdminTypeOK
<1>2. /\ account' \in [Accounts -> {"active", "inactive", "gone"}] /\ RoleAuditNamesAccounts'
      /\ isAdmin' \in [Accounts -> BOOLEAN] /\ roleAudit' \subseteq Accounts \X Accounts
  BY DEF AdminInv, AdminTypeOK, RoleAuditNamesAccounts
<1>3. Says(request[q], o, {})
  BY DEF Says
<1>4. ActiveAdmins' = ActiveAdmins
  BY DEF ActiveAdmins
<1> QED BY <1>1, <1>2, <1>3, <1>4, CommitStep

LEMMA PurgesInv ==
    ASSUME AdminInv, NEW q \in AdminRequests, PurgesAccount(q) PROVE AdminInv'
<1> DEFINE t == request[q].target
<1>1. request[q].pc = "write" /\ request[q].op = "purge" /\ UNCHANGED audit
      /\ {"request_finished", "not_found", "still_active", "blocked", "purged"} \subseteq Outcomes
  BY DEF PurgesAccount, Outcomes
<1>2. t \in Accounts /\ request[q] \in RequestState
  BY RequestTyped
<1>3. CASE account[t] = "inactive" /\ ~Retained(t) /\ Purge(t)
           /\ effect' = [effect EXCEPT ![q] = {t}] /\ Committed(q, "purged")
  <2>1. /\ account' \in [Accounts -> {"active", "inactive", "gone"}]
        /\ isAdmin' \in [Accounts -> BOOLEAN] /\ roleAudit' \subseteq Accounts \X Accounts
        /\ \A b \in Accounts : account[b] = "gone" => account'[b] = "gone"
        /\ RoleAuditNamesAccounts' /\ ActiveAdmins' = ActiveAdmins
    BY <1>2, <1>3, PurgeFacts DEF AdminInv
  <2>2. Says(request[q], "purged", {t}) /\ {t} \in SUBSET Accounts
    BY <1>2 DEF Says
  <2>3. request[q].seen # "gone"
    BY <1>3, RequestTyped
  <2> QED BY <1>1, <1>3, <2>1, <2>2, <2>3, CommitStep
<1>4. CASE UNCHANGED <<account, isAdmin, roleAudit, effect>>
           /\ \E o \in {"request_finished", "not_found", "still_active", "blocked"} : Committed(q, o)
  <2>1. PICK o \in {"request_finished", "not_found", "still_active", "blocked"} : Committed(q, o)
    BY <1>4
  <2>2. o \in Outcomes \ {"completed", "purged"}
    BY <1>1
  <2> QED BY <1>1, <1>4, <2>1, <2>2, EmptyCommit
<1>5. account[t] \in {"active", "inactive", "gone"}
  BY <1>2 DEF AdminInv, AdminTypeOK
<1> QED BY <1>3, <1>4, <1>5 DEF PurgesAccount

LEMMA ResetsInv ==
    ASSUME AdminInv, NEW q \in AdminRequests, ResetsRoster(q) PROVE AdminInv'
<1> DEFINE t == request[q].target
<1>1. /\ request[q].pc = "write" /\ request[q].op = "reset" /\ effect' = [effect EXCEPT ![q] = {t}]
      /\ UNCHANGED <<account, isAdmin, roleAudit, audit>> /\ Committed(q, "completed")
  BY DEF ResetsRoster
<1>2. {t} \in SUBSET Accounts /\ {t} # {} /\ Says(request[q], "completed", {t})
      /\ "completed" \in Outcomes
  BY RequestTyped DEF Says, Outcomes
<1>3. /\ account' \in [Accounts -> {"active", "inactive", "gone"}] /\ RoleAuditNamesAccounts'
      /\ isAdmin' \in [Accounts -> BOOLEAN] /\ roleAudit' \subseteq Accounts \X Accounts
  BY <1>1 DEF AdminInv, AdminTypeOK, RoleAuditNamesAccounts
<1>4. ActiveAdmins' = ActiveAdmins
  BY <1>1 DEF ActiveAdmins
<1> QED BY <1>1, <1>2, <1>3, <1>4, CommitStep

LEMMA SelectsInv ==
    ASSUME AdminInv, NEW q \in AdminRequests, CleanupSelects(q) PROVE AdminInv'
<1>1. /\ request[q].pc = "write" /\ request[q].op = "cleanup"
      /\ UNCHANGED <<account, isAdmin, roleAudit, audit, effect>>
  BY DEF CleanupSelects
<1>2. PICK old \in SUBSET Accounts : request' = [request EXCEPT ![q].todo = old, ![q].pc = "sweep"]
  BY DEF CleanupSelects
<1> DEFINE r == [request[q] EXCEPT !.todo = old, !.pc = "sweep"]
<1>3. request[q] \in RequestState
  BY RequestTyped
<1>4. r \in RequestState
  BY <1>3, StateMoved
<1>5. /\ r.pc = "sweep" /\ r.seen = request[q].seen /\ r.op = request[q].op
      /\ r.target = request[q].target /\ r.backup = request[q].backup
      /\ r.crossed = request[q].crossed
  BY <1>3 DEF RequestState
<1>6. request' = [request EXCEPT ![q] = r]
  BY <1>2 DEF AdminInv, AdminTypeOK
<1> HIDE DEF r
<1>7. Known(r, audit[q], effect[q]) /\ Covered(r, effect[q]) /\ Checked(r)
  BY <1>1, <1>5, RequestTyped DEF Known, Says, Early, Covered, Checked, ErasingOps
<1>8. audit' = [audit EXCEPT ![q] = audit[q]] /\ audit[q] \in AuditValues
      /\ (r.seen = "gone" => account[r.target] = "gone")
  BY <1>1, <1>5, RequestTyped
<1> QED BY <1>1, <1>4, <1>5, <1>6, <1>7, <1>8, LocalStep

LEMMA SweepsInv ==
    ASSUME AdminInv, NEW q \in AdminRequests, CleanupPurges(q) PROVE AdminInv'
<1>1. request[q].pc = "sweep" /\ request[q].op = "cleanup" /\ UNCHANGED audit
  BY RequestTyped DEF CleanupPurges, Known
<1>2. PICK a \in request[q].todo :
        /\ request' = [request EXCEPT ![q].todo = @ \ {a}]
        /\ \/ /\ account[a] = "inactive" /\ ~Retained(a) /\ Purge(a)
              /\ effect' = [effect EXCEPT ![q] = @ \cup {a}]
           \/ UNCHANGED <<account, isAdmin, roleAudit, effect>>
  BY DEF CleanupPurges
<1>3. /\ request \in [AdminRequests -> RequestState] /\ effect \in [AdminRequests -> SUBSET Accounts]
      /\ a \in Accounts
  BY <1>2 DEF AdminInv, AdminTypeOK, RequestState
<1> DEFINE r == [request[q] EXCEPT !.todo = request[q].todo \ {a}]
<1>4. r \in RequestState
  <2>1. request[q].todo \ {a} \in SUBSET Accounts
    BY <1>3 DEF RequestState
  <2> QED BY <1>3, <2>1, StateMoved
<1>5. /\ r.pc = request[q].pc /\ r.seen = request[q].seen /\ r.op = request[q].op
      /\ r.target = request[q].target /\ r.backup = request[q].backup
      /\ r.crossed = request[q].crossed /\ r.outcome = request[q].outcome
  BY <1>3 DEF RequestState
<1>6. \A p \in AdminRequests : request'[p] = IF p = q THEN r ELSE request[p]
  BY <1>2, <1>3
<1>7. request' \in [AdminRequests -> RequestState]
  BY <1>2, <1>3, <1>4, <1>6
<1> HIDE DEF r
<1>8. CASE UNCHANGED <<account, isAdmin, roleAudit, effect>>
  <2>1. request' = [request EXCEPT ![q] = r]
    BY <1>2, <1>3 DEF r
  <2>2. Known(r, audit[q], effect[q]) /\ Covered(r, effect[q]) /\ Checked(r)
    BY <1>1, <1>5, RequestTyped DEF Known, Says, Early, Covered, Checked
  <2>3. audit' = [audit EXCEPT ![q] = audit[q]] /\ audit[q] \in AuditValues
        /\ (r.seen = "gone" => account[r.target] = "gone")
    BY <1>1, <1>5, RequestTyped
  <2> QED BY <1>4, <1>5, <1>8, <2>1, <2>2, <2>3, LocalStep
<1>9. CASE /\ account[a] = "inactive" /\ ~Retained(a) /\ Purge(a)
           /\ effect' = [effect EXCEPT ![q] = @ \cup {a}]
  <2>1. /\ account' \in [Accounts -> {"active", "inactive", "gone"}]
        /\ isAdmin' \in [Accounts -> BOOLEAN] /\ roleAudit' \subseteq Accounts \X Accounts
        /\ \A b \in Accounts : account[b] = "gone" => account'[b] = "gone"
        /\ RoleAuditNamesAccounts' /\ ActiveAdmins' = ActiveAdmins
    BY <1>3, <1>9, PurgeFacts DEF AdminInv
  <2>2. effect' \in [AdminRequests -> SUBSET Accounts]
        /\ \A p \in AdminRequests : effect'[p] = IF p = q THEN effect[q] \cup {a} ELSE effect[p]
    BY <1>3, <1>9
  <2>3. AdminTypeOK'
    BY <1>1, <1>7, <2>1, <2>2 DEF AdminInv, AdminTypeOK
  <2>4. \A p \in AdminRequests :
          /\ request'[p].pc = request[p].pc /\ request'[p].seen = request[p].seen
          /\ request'[p].op = request[p].op /\ request'[p].target = request[p].target
          /\ request'[p].backup = request[p].backup /\ request'[p].crossed = request[p].crossed
          /\ request'[p].outcome = request[p].outcome /\ request[p].target \in Accounts
    BY <1>3, <1>5, <1>6 DEF RequestState
  <2>5. AllKnown'
    <3> SUFFICES ASSUME NEW p \in AdminRequests PROVE Known(request[p], audit[p], effect[p])'
      BY DEF AllKnown
    <3>1. Known(request[p], audit[p], effect[p])
      BY RequestTyped
    <3>2. CASE p = q
      BY <1>1, <2>2, <2>4, <3>1, <3>2 DEF Known, Says, Early, AdminOps, ErasingOps
    <3>3. CASE p # q
      BY <1>1, <2>2, <2>4, <3>1, <3>3 DEF Known, Says
    <3> QED BY <3>2, <3>3
  <2>6. AllCovered'
    <3>1. \A p \in AdminRequests : Covered(request[p], effect[p])
      BY RequestTyped
    <3> QED BY <1>1, <2>2, <2>4, <3>1 DEF AllCovered, Covered
  <2>7. SeenGone'
    BY <2>1, <2>4 DEF AdminInv, SeenGone
  <2>8. AllChecked'
    <3>1. \A p \in AdminRequests : Checked(request[p])
      BY RequestTyped
    <3> QED BY <2>1, <2>4, <3>1 DEF AllChecked, Checked, KeepsAnAdmin
  <2>9. LastAdminNeedsRace'
    BY <2>1, <2>2, <2>4 DEF AdminInv, LastAdminNeedsRace
  <2> QED BY <2>1, <2>3, <2>5, <2>6, <2>7, <2>8, <2>9 DEF AdminInv
<1> QED BY <1>2, <1>8, <1>9

LEMMA EndsInv ==
    ASSUME AdminInv, NEW q \in AdminRequests, CleanupEnds(q) PROVE AdminInv'
<1>1. request[q].pc = "sweep" /\ request[q].op = "cleanup"
      /\ UNCHANGED <<account, isAdmin, roleAudit, audit, effect>>
  BY RequestTyped DEF CleanupEnds, Known
<1>2. PICK o \in {"completed", "unchanged"} : (o = "unchanged" => effect[q] = {}) /\ Answers(q, o)
  BY DEF CleanupEnds
<1> DEFINE r == [request[q] EXCEPT !.pc = "answer", !.outcome = o]
<1>3. request[q] \in RequestState /\ o \in Outcomes
  BY <1>2, RequestTyped DEF Outcomes
<1>4. r \in RequestState
  BY <1>3, StateMoved
<1>5. /\ r.pc = "answer" /\ r.outcome = o /\ r.seen = request[q].seen /\ r.op = request[q].op
      /\ r.target = request[q].target /\ r.backup = request[q].backup
      /\ r.crossed = request[q].crossed
  BY <1>3 DEF RequestState
<1>6. request' = [request EXCEPT ![q] = r]
  BY <1>2 DEF Answers
<1> HIDE DEF r
<1>7. Known(r, audit[q], effect[q]) /\ Covered(r, effect[q]) /\ Checked(r)
  BY <1>1, <1>2, <1>5, RequestTyped DEF Known, Says, Early, Covered, Checked
<1>8. audit' = [audit EXCEPT ![q] = audit[q]] /\ audit[q] \in AuditValues
      /\ (r.seen = "gone" => account[r.target] = "gone")
  BY <1>1, <1>5, RequestTyped
<1> QED BY <1>1, <1>4, <1>5, <1>6, <1>7, <1>8, LocalStep

-----------------------------------------------------------------------------
(* The invariant                                                            *)

LEMMA InitInv == AdminInit => AdminInv
<1> SUFFICES ASSUME AdminInit PROVE AdminInv
  OBVIOUS
<1>1. PICK a \in Accounts :
        request = [q \in AdminRequests |-> [NewRequest("leave", a, a) EXCEPT !.pc = "new"]]
  BY DEF AdminInit
<1> DEFINE r == [NewRequest("leave", a, a) EXCEPT !.pc = "new"]
<1>2. /\ r \in RequestState /\ r.pc = "new" /\ r.op = "leave" /\ r.seen = "none" /\ ~r.crossed
      /\ \A q \in AdminRequests : request[q] = r
  BY <1>1 DEF NewRequest, RequestState, Outcomes, AccountOps
<1> HIDE DEF r
<1>3. "leave" \notin AdminOps \cup ErasingOps
  BY DEF AdminOps, RoleOps, ErasingOps
<1>4. AdminTypeOK
  BY <1>1, <1>2 DEF AdminInit, AdminTypeOK, r
<1>5. AllKnown /\ AllCovered /\ AllChecked /\ SeenGone
  BY <1>2, <1>3 DEF AdminInit, AllKnown, Known, AllCovered, Covered, AllChecked, Checked, SeenGone, Early
<1>6. RoleAuditNamesAccounts /\ LastAdminNeedsRace
  BY DEF AdminInit, RoleAuditNamesAccounts, LastAdminNeedsRace
<1> QED BY <1>4, <1>5, <1>6 DEF AdminInv

LEMMA NextInv == AdminInv /\ [AdminNext]_adminVars => AdminInv'
<1> SUFFICES ASSUME AdminInv, [AdminNext]_adminVars PROVE AdminInv'
  OBVIOUS
<1>1. CASE UNCHANGED adminVars
  BY <1>1 DEF adminVars, AdminInv, AdminTypeOK, AllKnown, Known, Says, AllCovered, Covered, SeenGone,
       AllChecked, Checked, KeepsAnAdmin, ActiveAdmins, RoleAuditNamesAccounts, LastAdminNeedsRace
<1>2. CASE AdminProcessStops
  BY <1>2, StopsInv
<1>3. ASSUME NEW q \in AdminRequests,
             \/ RequestArrives(q) \/ AuditStarts(q) \/ AuditUnavailable(q) \/ AuditFinishes(q)
             \/ HandlerRaises(q) \/ ReadsTarget(q) \/ CountsAdmins(q) \/ SafetyBackup(q)
             \/ ChangesRole(q) \/ SetsActive(q) \/ PurgesAccount(q) \/ ResetsRoster(q)
             \/ CleanupSelects(q) \/ CleanupPurges(q) \/ CleanupEnds(q)
      PROVE  AdminInv'
  BY <1>3, ArrivesInv, AuditStepsInv, ReadsInv, CountsInv, BackupInv, RoleInv, ActiveInv, PurgesInv,
     ResetsInv, SelectsInv, SweepsInv, EndsInv
<1> QED BY <1>1, <1>2, <1>3 DEF AdminNext

\* AdminInv is an inductive invariant of the account administration.
THEOREM AdminInvariant == AdminSpec => []AdminInv
BY InitInv, NextInv, PTL DEF AdminSpec

\* The variables keep their types.
THEOREM AdminTypes == AdminSpec => []AdminTypeOK
<1>1. AdminInv => AdminTypeOK
  BY DEF AdminInv
<1> QED BY <1>1, AdminInvariant, PTL

\* The audit of the Admin routes tells the truth whatever fails, stops or
\* overlaps.
THEOREM AuditIsTrue == AdminSpec => []AuditTellsTruth
<1>1. AdminInv => AuditTellsTruth
  BY DEF AdminInv, AllKnown, Known, Says, AuditTellsTruth
<1> QED BY <1>1, AdminInvariant, PTL

\* Nothing is erased without a backup, but for the purge of an account that was
\* active when the route read it.
THEOREM BackupComesFirst == AdminSpec => []ErasedAfterBackup
<1>1. AdminInv => ErasedAfterBackup
  BY DEF AdminInv, AllCovered, Covered, ErasedAfterBackup
<1> QED BY <1>1, AdminInvariant, PTL

\* No row of app_role_audit names an account that is gone.
THEOREM RoleAuditHolds == AdminSpec => []RoleAuditNamesAccounts
<1>1. AdminInv => RoleAuditNamesAccounts
  BY DEF AdminInv
<1> QED BY <1>1, AdminInvariant, PTL

\* The last active Admin goes only by a race between a check and its write.
THEOREM OnlyARaceTakesTheLastAdmin == AdminSpec => []LastAdminNeedsRace
<1>1. AdminInv => LastAdminNeedsRace
  BY DEF AdminInv
<1> QED BY <1>1, AdminInvariant, PTL

=============================================================================
