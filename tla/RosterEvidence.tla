---------------------------- MODULE RosterEvidence ----------------------------
(***************************************************************************)
(* app/database.py, save_deputy_web_schedule: how captures of what each    *)
(* account can see of Deputy become the shared schedule and the personal   *)
(* rosters.  A capture reads Deputy and is saved later, in one             *)
(* transaction; captures of different accounts overlap.  Absence is        *)
(* evidence for the account that made the capture only, and history is     *)
(* locked once an event is over.                                           *)
(***************************************************************************)
EXTENDS Naturals

CONSTANTS
    Users,      \* active accounts, each with its confirmed Deputy employee
    Others,     \* employees without an account
    ShiftIds,   \* Deputy shift ids, all of one position
    Events,     \* a day, location and span of hours each; no two overlap
    Kinds,      \* what a capture may get of each source, see AllKinds
    MaxEdits,   \* bound: edits in Deputy
    MaxCaptures \* bound: captures

\* getRosters of all events or none; the schedule search in part, whole, or with
\* searches for one day and location (exact); rows that only the page's own
\* requests showed; the own roster in part or whole.
AllKinds == [native : BOOLEAN, direct : {"none", "part", "whole", "exact"}, page : BOOLEAN,
             own : {"none", "part", "whole"}]

ASSUME RosterAssumption ==
    /\ Kinds \subseteq AllKinds /\ MaxEdits \in Nat /\ MaxCaptures \in Nat
    /\ "open" \notin Users \cup Others /\ "gone" \notin Users \cup Others
    /\ Events # {}

People == Users \cup Others
Sources == {"native", "direct"}
Facts == [who : People \cup {"open"}, at : Events]
AnEvent == CHOOSE e \in Events : TRUE
Gone == [who |-> "gone", at |-> AnEvent]

VARIABLES
    truth,     \* Deputy's roster
    edits,     \* edits so far
    vt,        \* the position is one of the Sound/VT family
    slice,     \* shifts each account may see in Deputy
    over,      \* events that ended more than six hours ago
    past,      \* events of earlier dates
    lockedEvents, \* deputy_event_locks
    row,       \* deputy_schedule_shifts
    obs,       \* deputy_schedule_observations of each shift, account and source
    evidence,  \* deputy_personal_assignment_evidence
    roster,    \* shifts: the personal roster of each account
    capture,   \* the capture each account has under way
    captures,  \* captures so far
    last,      \* history: what an account's last saved capture listed by source
    purged     \* accounts that were purged

rosterVars == <<truth, edits, vt, slice, over, past, lockedEvents, row, obs, evidence, roster, capture,
                captures, last, purged>>

NoEvidence == [status |-> "none", missing |-> 0, at |-> AnEvent]
NoShift == [source |-> "none", live |-> FALSE, locked |-> FALSE, at |-> AnEvent]
NoKind == [native |-> FALSE, direct |-> "none", page |-> FALSE, own |-> "none"]
NoCapture == [on |-> FALSE, kind |-> NoKind, facts |-> [s \in ShiftIds |-> Gone],
              native |-> {}, direct |-> {}, page |-> {}, own |-> {}]
Unseen == [x \in Sources |-> {}]

RosterInit ==
    /\ truth \in [ShiftIds -> Facts \cup {Gone}] /\ edits = 0
    /\ vt \in BOOLEAN /\ slice \in [Users -> SUBSET ShiftIds]
    /\ over = {} /\ past = {} /\ lockedEvents = {}
    /\ row = [s \in ShiftIds |-> Gone]
    /\ obs = [s \in ShiftIds |-> [u \in Users |-> [x \in Sources |-> "none"]]]
    /\ evidence = [u \in Users |-> [s \in ShiftIds |-> NoEvidence]]
    /\ roster = [u \in Users |-> [s \in ShiftIds |-> NoShift]]
    /\ capture = [u \in Users |-> NoCapture] /\ captures = 0
    /\ last = [u \in Users |-> Unseen]
    /\ purged = {}

Named(fact) == fact.who \in People

-----------------------------------------------------------------------------
(* Deputy and the calendar                                                  *)

DeputyEdits ==
    /\ edits < MaxEdits /\ edits' = edits + 1
    /\ \E s \in ShiftIds, f \in Facts \cup {Gone} : f # truth[s] /\ truth' = [truth EXCEPT ![s] = f]
    /\ UNCHANGED <<vt, slice, over, past, lockedEvents, row, obs, evidence, roster, capture, captures, last, purged>>

EventEnds ==
    /\ \E e \in Events \ over : over' = over \cup {e}
    /\ UNCHANGED <<truth, edits, vt, slice, past, lockedEvents, row, obs, evidence, roster, capture, captures, last, purged>>

DateTurns ==
    /\ \E e \in Events \ past : past' = past \cup {e}
    /\ UNCHANGED <<truth, edits, vt, slice, over, lockedEvents, row, obs, evidence, roster, capture, captures, last, purged>>

\* purge_app_user: what the account owned goes, by foreign key.
AccountPurged(u) ==
    /\ u \notin purged /\ ~capture[u].on
    /\ purged' = purged \cup {u}
    /\ obs' = [s \in ShiftIds |-> [obs[s] EXCEPT ![u] = [x \in Sources |-> "none"]]]
    /\ evidence' = [evidence EXCEPT ![u] = [s \in ShiftIds |-> NoEvidence]]
    /\ roster' = [roster EXCEPT ![u] = [s \in ShiftIds |-> NoShift]]
    /\ last' = [last EXCEPT ![u] = Unseen]
    /\ UNCHANGED <<truth, edits, vt, slice, over, past, lockedEvents, row, capture, captures>>

-----------------------------------------------------------------------------
(* A capture (app/deputy_web.py)                                            *)

\* What the account saw.  Deputy has been known to omit shifts from the own
\* roster, whole or not.
CaptureReads(u) ==
    LET seen == {s \in slice[u] : truth[s] # Gone} IN
    /\ u \notin purged /\ ~capture[u].on /\ captures < MaxCaptures
    /\ \E k \in Kinds :
       \E direct \in IF k.direct \in {"whole", "exact"} THEN {seen} ELSE IF k.direct = "part" THEN SUBSET seen ELSE {{}},
          own \in IF k.own = "none" THEN {{}} ELSE SUBSET {s \in ShiftIds : truth[s].who = u} :
          LET native == IF k.native THEN seen ELSE {}
              page == IF k.page THEN seen \ (native \cup direct) ELSE {}
          IN capture' = [capture EXCEPT ![u] =
                [on |-> TRUE, kind |-> k, native |-> native, direct |-> direct, page |-> page, own |-> own,
                 facts |-> [s \in ShiftIds |->
                     IF s \in native \cup direct \cup page \cup own THEN truth[s] ELSE Gone]]]
    /\ captures' = captures + 1
    /\ UNCHANGED <<truth, edits, vt, slice, over, past, lockedEvents, row, obs, evidence, roster, last, purged>>

\* The process stops, or the capture fails: nothing is saved.
CaptureLost(u) ==
    /\ capture[u].on /\ capture' = [capture EXCEPT ![u] = NoCapture]
    /\ UNCHANGED <<truth, edits, vt, slice, over, past, lockedEvents, row, obs, evidence, roster, captures, last, purged>>

-----------------------------------------------------------------------------
(* save_deputy_web_schedule for the capture of account u, in the order of   *)
(* its steps.  Its transaction is one action; each operator below is what   *)
(* one step makes of the tables.                                            *)

Listed(c) == c.native \cup c.direct \cup c.page
Ids(c, x) == IF x = "native" THEN c.native ELSE c.direct

\* lock_completed_events: events with rows, and every live personal shift.
LocksNow == lockedEvents \cup {e \in over : \E s \in ShiftIds : row[s] # Gone /\ row[s].at = e}

LockedEvidence ==
    [u \in Users |-> [s \in ShiftIds |->
        IF evidence[u][s].status # "none" /\ evidence[u][s].at \in LocksNow
        THEN [evidence[u][s] EXCEPT !.status = "historical_locked"] ELSE evidence[u][s]]]

LockedRoster ==
    [u \in Users |-> [s \in ShiftIds |->
        IF roster[u][s].live /\ roster[u][s].at \in over
        THEN [roster[u][s] EXCEPT !.locked = TRUE] ELSE roster[u][s]]]

\* A complete capture of the account's own roster does not show the shift.
Missed(c, e) == c.kind.own = "whole" /\ e.status \in {"confirmed", "possibly_missing"}

\* _upsert_personal_assignment_evidence, then _save_personal_capture_coverage.
EvidenceAfter(c, e, s) ==
    IF s \in c.own
    THEN [status |-> IF e.status = "historical_locked" THEN e.status ELSE "confirmed",
          missing |-> 0, at |-> c.facts[s].at]
    ELSE IF Missed(c, e)
    THEN [e EXCEPT !.missing = @ + 1,
                   !.status = IF e.missing + 1 >= 2 THEN "cancelled" ELSE "possibly_missing"]
    ELSE e

Evidence(u) ==
    [LockedEvidence EXCEPT ![u] =
        [s \in ShiftIds |-> EvidenceAfter(capture[u], LockedEvidence[u][s], s)]]

\* _save_deputy_web_own_shifts, and the same coverage.
OwnShiftAfter(c, e, r, s) ==
    IF s \in c.own
    THEN [source |-> "personal", live |-> TRUE, locked |-> r.locked, at |-> c.facts[s].at]
    ELSE IF Missed(c, e) /\ e.missing + 1 >= 2 THEN [r EXCEPT !.live = FALSE]
    ELSE r

OwnRoster(u) ==
    [LockedRoster EXCEPT ![u] =
        [s \in ShiftIds |-> OwnShiftAfter(capture[u], LockedEvidence[u][s], LockedRoster[u][s], s)]]

\* A late row for a locked event does not join a position somebody else holds.
\* The code asks the newest row of the position, one this capture has just written
\* included; here any row from before the capture answers.
Conflicts(c, s, t) ==
    /\ t # s /\ row[t] # Gone /\ row[t].at = c.facts[s].at
    /\ Named(row[t]) /\ Named(c.facts[s]) /\ row[t].who # c.facts[s].who

Refused(c) ==
    {s \in Listed(c) :
        c.facts[s].at \in LocksNow /\ row[s] = Gone /\ \E t \in ShiftIds : Conflicts(c, s, t)}

Saved(c) == Listed(c) \ Refused(c)

\* Mutant of RowAfter: the last capture is always right.
RowAfterRewritten(c, s) == c.facts[s]

\* The upsert: in a locked event a name that is there stays.
RowAfter(c, s) ==
    IF row[s] # Gone /\ c.facts[s].at \in LocksNow /\ Named(row[s])
    THEN [c.facts[s] EXCEPT !.who = row[s].who] ELSE c.facts[s]

Rows(c) == [s \in ShiftIds |-> IF s \in Saved(c) THEN RowAfter(c, s) ELSE row[s]]

\* _retire_positive_schedule_replacements and
\* _retire_positive_ordinary_vacancy_replacements: t is disproved by a named s.
Replaced(c, x, t) ==
    \E s \in Saved(c) \cap Ids(c, x) :
        /\ s # t /\ t \notin Ids(c, x)
        /\ Named(c.facts[s]) /\ c.facts[s].at \notin LocksNow /\ Rows(c)[t].at = c.facts[s].at
        /\ vt => Named(Rows(c)[t]) /\ (x = "native" \/ c.kind.direct = "exact")

\* _retire_complete_native_audio_absences: an audio row, or a vacancy, of a whole
\* event tells what is not there.
Converged(c, t) ==
    /\ t \notin c.native /\ Rows(c)[t].at \notin LocksNow
    /\ \E s \in c.native :
          /\ Rows(c)[s] # Gone /\ Rows(c)[s].at = Rows(c)[t].at
          /\ vt \/ Rows(c)[s].who = "open"

\* _evaluate_event_coverage: the capture shows less of an event than is known of
\* it, from personal evidence or from the rows that were there.
Partial(u, e) ==
    LET c == capture[u]
        incoming == {s \in Listed(c) : c.facts[s].at = e}
        Shows(who) == \E t \in incoming : Named(c.facts[t]) /\ c.facts[t].who \in who
    IN
    \/ \E v \in Users, s \in ShiftIds :
          /\ Evidence(u)[v][s].status \in {"confirmed", "possibly_missing"}
          /\ Evidence(u)[v][s].at = e /\ ~Shows({v})
    \/ /\ c.kind.direct # "exact"
       /\ \E s \in ShiftIds :
             /\ row[s] # Gone /\ row[s].at = e /\ Named(row[s])
             /\ \E v \in Users, x \in Sources : obs[s][v][x] = "active"
             /\ ~Shows(People)

\* _prune_missing_deputy_schedule_rows, for the account that made the capture.
Absent(u, t) ==
    LET c == capture[u] IN
    /\ obs[t][u]["direct"] # "none" /\ Rows(c)[t] # Gone /\ t \notin c.direct
    /\ c.kind.direct \in {"whole", "exact"} /\ Rows(c)[t].at \notin LocksNow \cup past
    /\ ~Partial(u, Rows(c)[t].at)

\* What account u no longer sees of the shift in source x.
Gives(u, x, t) ==
    \/ /\ obs[t][u][x] = "active" /\ Rows(capture[u])[t] # Gone
       /\ Replaced(capture[u], x, t) \/ (x = "native" /\ Converged(capture[u], t))
    \/ x = "direct" /\ Absent(u, t)

Observations(u) ==
    [t \in ShiftIds |-> [obs[t] EXCEPT ![u] = [x \in Sources |->
        IF t \in Saved(capture[u]) \cap Ids(capture[u], x) THEN "active"
        ELSE IF Gives(u, x, t) THEN "absent" ELSE obs[t][u][x]]]]

\* Mutant of SeenBySomebody: only the schedule search counts.
SeenByASearch(seen, t) == \E v \in Users : seen[t][v]["direct"] = "active"

\* A row goes with its last observer.
SeenBySomebody(seen, t) == \E v \in Users, x \in Sources : seen[t][v][x] = "active"

Dropped(u) ==
    {t \in ShiftIds : (\E x \in Sources : Gives(u, x, t)) /\ ~SeenBySomebody(Observations(u), t)}

Kept(u) == [t \in ShiftIds |-> IF t \in Dropped(u) THEN Gone ELSE Rows(capture[u])[t]]

\* Mutant of EffectiveShift: only a shift that has gone leaves the roster.
EffectiveShiftOfVanished(u, r, fact, seen) ==
    IF fact.who = u /\ fact.at \notin past /\ seen
    THEN IF r.source = "personal" THEN r
         ELSE [r EXCEPT !.source = "shared", !.live = TRUE, !.at = fact.at]
    ELSE IF r.source = "shared" /\ r.live /\ fact = Gone THEN [r EXCEPT !.live = FALSE]
    ELSE r

\* _reconcile_effective_personal_rosters_conn, for one account and shift.
EffectiveShift(u, r, fact, seen) ==
    IF fact.who = u /\ fact.at \notin past /\ seen
    THEN IF r.source = "personal" THEN r
         ELSE [r EXCEPT !.source = "shared", !.live = TRUE, !.at = fact.at]
    ELSE IF r.source = "shared" /\ r.live /\ r.at \notin past THEN [r EXCEPT !.live = FALSE]
    ELSE r

CaptureSaves(u) ==
    /\ capture[u].on
    /\ lockedEvents' = LocksNow /\ evidence' = Evidence(u) /\ row' = Kept(u)
    /\ obs' = [t \in ShiftIds |->
          IF t \in Dropped(u) THEN [v \in Users |-> [x \in Sources |-> "none"]] ELSE Observations(u)[t]]
    /\ roster' = [v \in Users |-> [s \in ShiftIds |->
          IF v \in purged THEN OwnRoster(u)[v][s]
          ELSE EffectiveShift(v, OwnRoster(u)[v][s], Kept(u)[s], SeenBySomebody(Observations(u), s))]]
    /\ last' = [last EXCEPT ![u] = [x \in Sources |-> Saved(capture[u]) \cap Ids(capture[u], x)]]
    /\ capture' = [capture EXCEPT ![u] = NoCapture]
    /\ UNCHANGED <<truth, edits, vt, slice, over, past, captures, purged>>

RosterNext ==
    \/ DeputyEdits \/ EventEnds \/ DateTurns
    \/ \E u \in Users : AccountPurged(u) \/ CaptureReads(u) \/ CaptureLost(u) \/ CaptureSaves(u)

RosterSpec == RosterInit /\ [][RosterNext]_rosterVars

-----------------------------------------------------------------------------
(* Properties                                                               *)

\* missing_count goes with the status, until the event is locked.
Counted(e) == /\ e.status \in {"none", "confirmed"} => e.missing = 0
              /\ e.status = "possibly_missing" => e.missing = 1
              /\ e.status = "cancelled" => e.missing = 2

RosterTypeOK ==
    /\ truth \in [ShiftIds -> Facts \cup {Gone}] /\ row \in [ShiftIds -> Facts \cup {Gone}]
    /\ edits \in 0..MaxEdits /\ captures \in 0..MaxCaptures
    /\ vt \in BOOLEAN /\ slice \in [Users -> SUBSET ShiftIds]
    /\ over \subseteq Events /\ past \subseteq Events /\ lockedEvents \subseteq Events
    /\ obs \in [ShiftIds -> [Users -> [Sources -> {"none", "active", "absent"}]]]
    /\ evidence \in [Users -> [ShiftIds ->
          [status : {"none", "confirmed", "possibly_missing", "cancelled", "historical_locked"},
           missing : 0..2, at : Events]]]
    /\ \A u \in Users, s \in ShiftIds : Counted(evidence[u][s])
    /\ roster \in [Users -> [ShiftIds ->
          [source : {"none", "personal", "shared"}, live : BOOLEAN, locked : BOOLEAN, at : Events]]]
    /\ capture \in [Users ->
          [on : BOOLEAN, kind : AllKinds, facts : [ShiftIds -> Facts \cup {Gone}], native : SUBSET ShiftIds,
           direct : SUBSET ShiftIds, page : SUBSET ShiftIds, own : SUBSET ShiftIds]]
    /\ last \in [Users -> [Sources -> SUBSET ShiftIds]]
    /\ purged \subseteq Users

\* A named row of an event that is over stays as it is, whatever later captures,
\* from the one that locks the event on, show, omit or put in its place; only a
\* shift that Deputy moved out of the event (to another date, location or span of
\* hours) leaves it.
SharedHistoryKept ==
    [][\A s \in ShiftIds :
          (row[s].at \in over /\ Named(row[s]) /\ row'[s] # row[s]) =>
              \E u \in Users : s \in Listed(capture[u]) /\ capture[u].facts[s].at # row[s].at]_rosterVars

\* What the last saved capture of an account listed is there: no capture of
\* another account, which may see less of Deputy, takes it away.
SeenIsKept ==
    \A u \in Users, x \in Sources : \A s \in last[u][x] : row[s] # Gone /\ obs[s][u][x] = "active"

\* A shift that others' captures put on somebody's roster is backed by a row that
\* names them in that event, until its date has passed.
SharedShiftBacked ==
    \A u \in Users, s \in ShiftIds :
        (roster[u][s].source = "shared" /\ roster[u][s].live /\ roster[u][s].at \notin past) =>
            row[s] = [who |-> u, at |-> roster[u][s].at]

=============================================================================
