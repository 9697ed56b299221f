---------------------------- MODULE Administration ----------------------------
(***************************************************************************)
(* Account administration: the write-ahead audit of app/main.py around the *)
(* Admin routes that change, deactivate, reset and purge accounts, and the *)
(* transactions of app/database.py behind them.  A request reads, checks   *)
(* and writes in separate transactions; routes declared "def" run in a     *)
(* thread pool and overlap, the role route is async and runs in one piece  *)
(* as far as other role requests can tell.                                 *)
(***************************************************************************)
EXTENDS FiniteSets

CONSTANTS Accounts, AdminRequests

ErasingOps == {"reset", "purge", "cleanup"}
RoleOps == {"grant", "revoke"}
AdminOps == RoleOps \cup ErasingOps \cup {"deactivate", "reactivate"}
\* "leave" is the account's own /settings/deactivate-account.
AccountOps == AdminOps \cup {"leave"}

RemovalOps == {"revoke", "deactivate", "leave"}

VARIABLES
    account,    \* app_users: active, inactive, or the row is gone
    isAdmin,    \* app_users.is_admin
    roleAudit,  \* app_role_audit: <<actor, target>> of its rows
    audit,      \* outcome of each request's admin_action_audit row
    request,    \* local variables of each request
    effect      \* history: accounts each request really changed

adminVars == <<account, isAdmin, roleAudit, audit, request, effect>>

ActiveAdmins == {a \in Accounts : account[a] = "active" /\ isAdmin[a]}

NewRequest(op, a, t) ==
    [op |-> op, actor |-> a, target |-> t, pc |-> "audit", outcome |-> "request_finished",
     seen |-> "none", backup |-> FALSE, crossed |-> FALSE, todo |-> {}]

AdminInit ==
    /\ account \in [Accounts -> {"active", "inactive"}]
    /\ isAdmin \in [Accounts -> BOOLEAN]
    /\ ActiveAdmins # {}
    /\ roleAudit \in SUBSET (Accounts \X Accounts)
    /\ audit = [q \in AdminRequests |-> "none"]
    /\ \E a \in Accounts : request = [q \in AdminRequests |-> [NewRequest("leave", a, a) EXCEPT !.pc = "new"]]
    /\ effect = [q \in AdminRequests |-> {}]

Goes(q, pc) == request' = [request EXCEPT ![q].pc = pc]
Answers(q, outcome) == request' = [request EXCEPT ![q].pc = "answer", ![q].outcome = outcome]

\* The role route does not await between reading the target and writing.
LoopFree(q) ==
    request[q].op \in RoleOps =>
        \A p \in AdminRequests \ {q} : ~(request[p].op \in RoleOps /\ request[p].pc \in {"count", "write"})

-----------------------------------------------------------------------------
(* Authentication and the write-ahead row                                   *)

\* trusted_device_middleware resolves the device's account; Admin pages want an
\* Admin.  Everything later in the request goes by what was read here.
RequestArrives(q) ==
    /\ request[q].pc = "new"
    /\ \E op \in AccountOps, a \in Accounts, t \in Accounts :
          /\ account[a] = "active"
          /\ op \in AdminOps => isAdmin[a]
          /\ op \in {"leave", "cleanup"} => t = a
          /\ request' = [request EXCEPT ![q] =
                IF op \in AdminOps THEN NewRequest(op, a, t)
                ELSE [NewRequest(op, a, t) EXCEPT !.pc = IF isAdmin[a] THEN "count" ELSE "write"]]
    /\ UNCHANGED <<account, isAdmin, roleAudit, audit, effect>>

AuditStarts(q) ==
    /\ request[q].pc = "audit"
    /\ audit' = [audit EXCEPT ![q] = "started"]
    /\ Goes(q, "read")
    /\ UNCHANGED <<account, isAdmin, roleAudit, effect>>

\* Mutant of AuditUnavailable: the handler runs without its row.
AuditMissing(q) ==
    /\ request[q].pc = "audit" /\ Goes(q, "read")
    /\ UNCHANGED <<account, isAdmin, roleAudit, audit, effect>>

\* The row cannot be stored: the handler never runs (503).
AuditUnavailable(q) ==
    /\ request[q].pc = "audit" /\ Goes(q, "done")
    /\ UNCHANGED <<account, isAdmin, roleAudit, audit, effect>>

\* The answer finishes the row, unless that fails: it stays "started".
AuditFinishes(q) ==
    /\ request[q].pc = "answer"
    /\ Goes(q, "done")
    /\ IF request[q].op \in AdminOps
       THEN \E o \in {request[q].outcome, "started"} : audit' = [audit EXCEPT ![q] = o]
       ELSE UNCHANGED audit
    /\ UNCHANGED <<account, isAdmin, roleAudit, effect>>

\* An exception (a locked database) in the handler: what it had not committed is
\* rolled back, the accounts a clean-up has purged already stay purged.
HandlerRaises(q) ==
    /\ request[q].pc \in {"read", "count", "backup", "write", "sweep"}
    /\ Goes(q, "done")
    /\ IF request[q].op \in AdminOps
       THEN \E o \in {"failed", "started"} : audit' = [audit EXCEPT ![q] = o]
       ELSE UNCHANGED audit
    /\ UNCHANGED <<account, isAdmin, roleAudit, effect>>

\* The process stops: whatever was in flight is gone, its rows stay.
AdminProcessStops ==
    /\ \E q \in AdminRequests : request[q].pc \notin {"new", "done"}
    /\ request' = [q \in AdminRequests |->
          IF request[q].pc = "new" THEN request[q] ELSE [request[q] EXCEPT !.pc = "done"]]
    /\ UNCHANGED <<account, isAdmin, roleAudit, audit, effect>>

-----------------------------------------------------------------------------
(* The handlers' reads and checks                                           *)

\* Mutant of NextCheck: a purge goes straight to its write.
NextCheckUnsaved(op, self, row, admin) ==
    CASE op \in RoleOps /\ row # "active"                       -> "not_found"
      [] op = "deactivate" /\ self                               -> "blocked"
      [] op \in {"revoke", "deactivate"} /\ row = "active" /\ admin -> "count"
      [] op = "purge" /\ self                                    -> "request_finished"
      [] op = "reset" /\ row = "gone"                            -> "not_found"
      [] op \in {"reset", "cleanup"}                             -> "backup"
      [] OTHER                                                   -> "write"

\* What the handler does once it has read the target's row.
NextCheck(op, self, row, admin) ==
    CASE op \in RoleOps /\ row # "active"                       -> "not_found"
      [] op = "deactivate" /\ self                               -> "blocked"
      [] op \in {"revoke", "deactivate"} /\ row = "active" /\ admin -> "count"
      [] op = "purge" /\ self                                    -> "request_finished"
      [] op = "reset" /\ row = "gone"                            -> "not_found"
      [] op \in {"reset", "cleanup"} \/ (op = "purge" /\ row = "inactive") -> "backup"
      [] OTHER                                                   -> "write"

ReadsTarget(q) ==
    LET r == request[q]
        next == NextCheck(r.op, r.actor = r.target, account[r.target], isAdmin[r.target])
    IN
    /\ r.pc = "read" /\ LoopFree(q)
    /\ request' = [request EXCEPT ![q] =
          IF next \in {"count", "backup", "write"}
          THEN [r EXCEPT !.pc = next, !.seen = account[r.target]]
          ELSE [r EXCEPT !.pc = "answer", !.seen = account[r.target], !.outcome = next]]
    /\ UNCHANGED <<account, isAdmin, roleAudit, audit, effect>>

\* Mutant of KeepsAnAdmin: the target counts as well.
CountsEveryAdmin(t) == ActiveAdmins # {}

\* Removing the target must leave another one.
KeepsAnAdmin(t) == ActiveAdmins \ {t} # {}

\* count_active_admins(excluding_user_id)
CountsAdmins(q) ==
    /\ request[q].pc = "count"
    /\ IF KeepsAnAdmin(request[q].target) THEN Goes(q, "write") ELSE Answers(q, "blocked")
    /\ UNCHANGED <<account, isAdmin, roleAudit, audit, effect>>

\* _required_safety_backup: create_backup answers success or failed.
SafetyBackup(q) ==
    /\ request[q].pc = "backup"
    /\ \/ request' = [request EXCEPT ![q].pc = "write", ![q].backup = TRUE]
       \/ Answers(q, "blocked")
    /\ UNCHANGED <<account, isAdmin, roleAudit, audit, effect>>

-----------------------------------------------------------------------------
(* The handlers' writes                                                     *)

\* q answers with outcome; whoever has checked and not yet written is crossed.
Committed(q, outcome) ==
    request' = [p \in AdminRequests |->
        IF p = q THEN [request[q] EXCEPT !.pc = "answer", !.outcome = outcome]
        ELSE IF request[p].pc = "write" /\ ActiveAdmins' # ActiveAdmins
        THEN [request[p] EXCEPT !.crossed = TRUE] ELSE request[p]]

\* admin_change_role: the update skips an inactive account, the audit row and
\* the outcome do not.  Its foreign keys refuse accounts that are gone.
ChangesRole(q) ==
    LET t == request[q].target IN
    /\ request[q].pc = "write" /\ request[q].op \in RoleOps
    /\ account[t] # "gone" /\ account[request[q].actor] # "gone"
    /\ IF account[t] = "active"
       THEN /\ isAdmin' = [isAdmin EXCEPT ![t] = request[q].op = "grant"]
            /\ effect' = [effect EXCEPT ![q] = {t}]
       ELSE UNCHANGED <<isAdmin, effect>>
    /\ roleAudit' = roleAudit \cup {<<request[q].actor, t>>}
    /\ UNCHANGED <<account, audit>>
    /\ Committed(q, "completed")

\* set_app_user_active, which also revokes the devices of a deactivated account.
SetsActive(q) ==
    LET t == request[q].target
        state == IF request[q].op = "reactivate" THEN "active" ELSE "inactive"
    IN
    /\ request[q].pc = "write" /\ request[q].op \in {"deactivate", "reactivate", "leave"}
    /\ UNCHANGED <<isAdmin, roleAudit, audit>>
    /\ IF account[t] # "gone"
       THEN /\ account' = [account EXCEPT ![t] = state]
            /\ effect' = [effect EXCEPT ![q] = {t}]
            /\ Committed(q, "completed")
       ELSE UNCHANGED <<account, effect>> /\ Committed(q, "not_found")

\* Mutant of Retained: looks at the changes made to the account.
RetainedAsTarget(a) == \E t \in Accounts \ {a} : <<t, a>> \in roleAudit

\* _retained_user_purge_blockers: a role change performed on somebody else.
Retained(a) == \E t \in Accounts \ {a} : <<a, t>> \in roleAudit

\* The deletions of purge_app_user.
Purge(a) ==
    /\ account' = [account EXCEPT ![a] = "gone"]
    /\ isAdmin' = [isAdmin EXCEPT ![a] = FALSE]
    /\ roleAudit' = {row \in roleAudit : row[2] # a}

\* purge_app_user under BEGIN IMMEDIATE; other retained history may block it too.
PurgesAccount(q) ==
    LET t == request[q].target IN
    /\ request[q].pc = "write" /\ request[q].op = "purge"
    /\ IF account[t] = "gone"
       THEN UNCHANGED <<account, isAdmin, roleAudit, effect>>
            /\ Committed(q, IF request[q].seen = "gone" THEN "request_finished" ELSE "not_found")
       ELSE IF account[t] = "active"
       THEN UNCHANGED <<account, isAdmin, roleAudit, effect>> /\ Committed(q, "still_active")
       ELSE \/ /\ ~Retained(t) /\ Purge(t)
               /\ effect' = [effect EXCEPT ![q] = {t}]
               /\ Committed(q, "purged")
            \/ UNCHANGED <<account, isAdmin, roleAudit, effect>> /\ Committed(q, "blocked")
    /\ UNCHANGED audit

\* reset_user_roster_data, whose foreign key refuses an account that is gone.
ResetsRoster(q) ==
    /\ request[q].pc = "write" /\ request[q].op = "reset"
    /\ account[request[q].target] # "gone"
    /\ effect' = [effect EXCEPT ![q] = {request[q].target}]
    /\ UNCHANGED <<account, isAdmin, roleAudit, audit>>
    /\ Committed(q, "completed")

\* purge_old_inactive_records: the accounts inactive for 30 days, any of the
\* inactive ones here, and then one purge_app_user for each.
CleanupSelects(q) ==
    /\ request[q].pc = "write" /\ request[q].op = "cleanup"
    /\ \E old \in SUBSET {a \in Accounts : account[a] = "inactive"} :
          request' = [request EXCEPT ![q].todo = old, ![q].pc = "sweep"]
    /\ UNCHANGED <<account, isAdmin, roleAudit, audit, effect>>

CleanupPurges(q) ==
    /\ request[q].pc = "sweep"
    /\ \E a \in request[q].todo :
          /\ request' = [request EXCEPT ![q].todo = @ \ {a}]
          /\ \/ /\ account[a] = "inactive" /\ ~Retained(a) /\ Purge(a)
                /\ effect' = [effect EXCEPT ![q] = @ \cup {a}]
             \/ UNCHANGED <<account, isAdmin, roleAudit, effect>>
    /\ UNCHANGED audit

\* Old revoked devices, deleted before, may be all that was completed.
CleanupEnds(q) ==
    /\ request[q].pc = "sweep" /\ request[q].todo = {}
    /\ \E o \in {"completed", "unchanged"} : (o = "unchanged" => effect[q] = {}) /\ Answers(q, o)
    /\ UNCHANGED <<account, isAdmin, roleAudit, audit, effect>>

AdminNext ==
    \/ \E q \in AdminRequests :
          \/ RequestArrives(q) \/ AuditStarts(q) \/ AuditUnavailable(q) \/ AuditFinishes(q)
          \/ HandlerRaises(q) \/ ReadsTarget(q) \/ CountsAdmins(q) \/ SafetyBackup(q)
          \/ ChangesRole(q) \/ SetsActive(q) \/ PurgesAccount(q) \/ ResetsRoster(q)
          \/ CleanupSelects(q) \/ CleanupPurges(q) \/ CleanupEnds(q)
    \/ AdminProcessStops

AdminSpec == AdminInit /\ [][AdminNext]_adminVars

-----------------------------------------------------------------------------
(* Properties                                                               *)

Outcomes == {"request_finished", "blocked", "not_found", "completed", "purged", "still_active", "unchanged"}

RequestState ==
    [op : AccountOps, actor : Accounts, target : Accounts,
     pc : {"new", "audit", "read", "count", "backup", "write", "sweep", "answer", "done"},
     outcome : Outcomes, seen : {"none", "active", "inactive", "gone"}, backup : BOOLEAN,
     crossed : BOOLEAN, todo : SUBSET Accounts]

AdminTypeOK ==
    /\ account \in [Accounts -> {"active", "inactive", "gone"}]
    /\ isAdmin \in [Accounts -> BOOLEAN]
    /\ roleAudit \subseteq Accounts \X Accounts
    /\ audit \in [AdminRequests -> Outcomes \cup {"none", "started", "failed"}]
    /\ request \in [AdminRequests -> RequestState]
    /\ effect \in [AdminRequests -> SUBSET Accounts]

\* Whatever fails or stops, what the audit says of an Admin request is true:
\* nothing changes without its row, a row that tells of no change belongs to a
\* request that made none, and "completed" or "purged" to one that made some (a
\* role change excepted, whose row counts are not looked at).
AuditTellsTruth ==
    \A q \in AdminRequests : request[q].op \in AdminOps =>
        /\ effect[q] # {} => audit[q] \in {"started", "failed", "completed", "purged"}
        /\ audit[q] = "purged" => effect[q] = {request[q].target}
        /\ (audit[q] = "completed" /\ request[q].op \notin RoleOps \cup {"cleanup"}) => effect[q] # {}

\* Data is erased only by a request that has its safety backup; the purge of an
\* account that was active when its row was read is the one way around it.
ErasedAfterBackup ==
    \A q \in AdminRequests :
        (request[q].op \in ErasingOps /\ effect[q] # {}) =>
            \/ request[q].backup
            \/ request[q].op = "purge" /\ request[q].seen = "active"

\* An account whose role changes are audited is there as long as their rows are:
\* no purge, and no change by somebody purged meanwhile, leaves a row behind
\* that names nobody.
RoleAuditNamesAccounts ==
    \A row \in roleAudit : account[row[1]] # "gone" /\ account[row[2]] # "gone"

\* The last active Admin is lost only to a removal for which another request
\* changed the Admins between its check and its write.
LastAdminNeedsRace ==
    ActiveAdmins = {} =>
        \E q \in AdminRequests :
            request[q].op \in RemovalOps /\ request[q].crossed /\ effect[q] # {}

=============================================================================
