-------------------------- MODULE RosterEvidenceProofs --------------------------
(***************************************************************************)
(* The shared schedule and the personal rosters keep their promises for    *)
(* any accounts, shifts, events, edits and captures.  RosterInv adds to    *)
(* the types that a capture holds facts of what it lists, and that a       *)
(* purged account has neither a capture nor a shared shift.                *)
(***************************************************************************)
EXTENDS RosterEvidence, TLAPS

FactsOrGone == Facts \cup {Gone}

EvidenceState ==
    [status : {"none", "confirmed", "possibly_missing", "cancelled", "historical_locked"},
     missing : 0..2, at : Events]

ShiftState ==
    [source : {"none", "personal", "shared"}, live : BOOLEAN, locked : BOOLEAN, at : Events]

CaptureState ==
    [on : BOOLEAN, kind : AllKinds, facts : [ShiftIds -> FactsOrGone], native : SUBSET ShiftIds,
     direct : SUBSET ShiftIds, page : SUBSET ShiftIds, own : SUBSET ShiftIds]

\* A capture has a fact of each shift it shows.
HasFacts(c) == \A s \in Listed(c) \cup c.own : c.facts[s] \in Facts

PurgedIsOut ==
    \A u \in purged : ~capture[u].on /\ \A s \in ShiftIds : roster[u][s].source # "shared"

RosterInv ==
    /\ RosterTypeOK /\ (\A u \in Users : HasFacts(capture[u])) /\ PurgedIsOut
    /\ SeenIsKept /\ SharedShiftBacked

-----------------------------------------------------------------------------
(* Facts, locks and captures                                                *)

LEMMA FactsApart ==
    /\ Gone \notin Facts /\ AnEvent \in Events /\ Gone.at \in Events /\ ~Named(Gone)
    /\ \A f \in FactsOrGone : f.at \in Events
    /\ \A f \in FactsOrGone, u \in Users : f.who = u => f = [who |-> u, at |-> f.at]
    /\ \A f, g \in FactsOrGone : f.who = g.who /\ f.at = g.at => f = g
    /\ \A f \in Facts, g \in FactsOrGone : Named(g) => [f EXCEPT !.who = g.who] \in Facts
    /\ \A f \in Facts, g \in FactsOrGone : [f EXCEPT !.who = g.who].at = f.at
    /\ \A f \in Facts, g \in FactsOrGone : [f EXCEPT !.who = g.who].who = g.who
<1>1. AnEvent \in Events /\ Gone = [who |-> "gone", at |-> AnEvent]
  BY RosterAssumption DEF AnEvent, Gone
<1>2. "gone" \notin People /\ "gone" # "open" /\ Users \subseteq People
  BY RosterAssumption DEF People
<1> QED BY <1>1, <1>2 DEF Facts, FactsOrGone, Named

LEMMA LocksTyped == RosterTypeOK => LocksNow \subseteq Events /\ lockedEvents \subseteq LocksNow
BY DEF RosterTypeOK, LocksNow

LEMMA CaptureTyped ==
    ASSUME RosterInv, NEW u \in Users
    PROVE  capture[u] \in CaptureState /\ HasFacts(capture[u])
BY DEF RosterInv, RosterTypeOK, CaptureState, FactsOrGone

\* The rows after the upsert: those of the capture are facts.
LEMMA RowsTyped ==
    ASSUME RosterInv, NEW u \in Users
    PROVE  LET c == capture[u] IN
           /\ Saved(c) \subseteq Listed(c) /\ Listed(c) \subseteq ShiftIds
           /\ \A s \in Saved(c) : /\ RowAfter(c, s) \in Facts
                                  /\ RowAfter(c, s).at = c.facts[s].at
                                  /\ Rows(c)[s] = RowAfter(c, s)
           /\ \A s \in ShiftIds : s \notin Saved(c) => Rows(c)[s] = row[s]
           /\ Rows(c) \in [ShiftIds -> FactsOrGone]
<1> DEFINE c == capture[u]
<1>1. c \in CaptureState /\ HasFacts(c) /\ row \in [ShiftIds -> FactsOrGone]
  BY CaptureTyped DEF RosterInv, RosterTypeOK, FactsOrGone
<1>2. Saved(c) \subseteq Listed(c) /\ Listed(c) \subseteq ShiftIds
  BY <1>1 DEF Saved, Listed, CaptureState
<1>3. ASSUME NEW s \in Saved(c)
      PROVE  RowAfter(c, s) \in Facts /\ RowAfter(c, s).at = c.facts[s].at
  <2>1. c.facts[s] \in Facts /\ row[s] \in FactsOrGone
    BY <1>1, <1>2 DEF HasFacts
  <2> QED BY <2>1, FactsApart DEF RowAfter
<1>4. \A s \in Saved(c) : Rows(c)[s] = RowAfter(c, s)
  BY <1>2 DEF Rows
<1>5. \A s \in ShiftIds : s \notin Saved(c) => Rows(c)[s] = row[s]
  BY DEF Rows
<1>6. Rows(c) \in [ShiftIds -> FactsOrGone]
  <2>1. \A s \in ShiftIds : Rows(c)[s] \in FactsOrGone
    BY <1>1, <1>3, <1>4, <1>5 DEF FactsOrGone
  <2>2. Rows(c) = [s \in ShiftIds |-> Rows(c)[s]]
    BY DEF Rows
  <2> QED BY <2>1, <2>2
<1> QED BY <1>2, <1>3, <1>4, <1>5, <1>6

LEMMA KeptTyped ==
    ASSUME RosterInv, NEW u \in Users
    PROVE  /\ Kept(u) \in [ShiftIds -> FactsOrGone]
           /\ \A s \in ShiftIds : Kept(u)[s] = IF s \in Dropped(u) THEN Gone ELSE Rows(capture[u])[s]
BY RowsTyped DEF Kept, FactsOrGone

LEMMA ObservationsTyped ==
    ASSUME RosterInv, NEW u \in Users
    PROVE  /\ Observations(u) \in [ShiftIds -> [Users -> [Sources -> {"none", "active", "absent"}]]]
           /\ \A t \in ShiftIds, v \in Users, x \in Sources :
                Observations(u)[t][v][x] =
                  IF v # u THEN obs[t][v][x]
                  ELSE IF t \in Saved(capture[u]) \cap Ids(capture[u], x) THEN "active"
                  ELSE IF Gives(u, x, t) THEN "absent" ELSE obs[t][u][x]
<1>1. obs \in [ShiftIds -> [Users -> [Sources -> {"none", "active", "absent"}]]]
  BY DEF RosterInv, RosterTypeOK
<1> DEFINE Row(t) == [x \in Sources |->
        IF t \in Saved(capture[u]) \cap Ids(capture[u], x) THEN "active"
        ELSE IF Gives(u, x, t) THEN "absent" ELSE obs[t][u][x]]
<1>2. \A t \in ShiftIds : Row(t) \in [Sources -> {"none", "active", "absent"}]
  BY <1>1
<1>3. \A t \in ShiftIds, x \in Sources :
        Row(t)[x] = IF t \in Saved(capture[u]) \cap Ids(capture[u], x) THEN "active"
                    ELSE IF Gives(u, x, t) THEN "absent" ELSE obs[t][u][x]
  OBVIOUS
<1>4. Observations(u) = [t \in ShiftIds |-> [obs[t] EXCEPT ![u] = Row(t)]]
  BY DEF Observations
<1> HIDE DEF Row
<1> QED BY <1>1, <1>2, <1>3, <1>4

-----------------------------------------------------------------------------
(* Personal evidence and rosters                                            *)

LEMMA EvidenceTyped ==
    ASSUME RosterInv, NEW u \in Users
    PROVE  /\ LockedEvidence \in [Users -> [ShiftIds -> EvidenceState]]
           /\ Evidence(u) \in [Users -> [ShiftIds -> EvidenceState]]
           /\ \A v \in Users, s \in ShiftIds : Counted(Evidence(u)[v][s])
<1>1. evidence \in [Users -> [ShiftIds -> EvidenceState]]
      /\ \A v \in Users, s \in ShiftIds : Counted(evidence[v][s])
  BY DEF RosterInv, RosterTypeOK, EvidenceState
<1>2. ASSUME NEW v \in Users, NEW s \in ShiftIds
      PROVE  /\ LockedEvidence[v][s] \in EvidenceState /\ Counted(LockedEvidence[v][s])
  <2>1. evidence[v][s] \in EvidenceState /\ Counted(evidence[v][s])
    BY <1>1
  <2>2. LockedEvidence[v][s] =
          IF evidence[v][s].status # "none" /\ evidence[v][s].at \in LocksNow
          THEN [evidence[v][s] EXCEPT !.status = "historical_locked"] ELSE evidence[v][s]
    BY DEF LockedEvidence
  <2> QED BY <2>1, <2>2 DEF EvidenceState, Counted
<1>3. LockedEvidence \in [Users -> [ShiftIds -> EvidenceState]]
  <2>1. LockedEvidence = [v \in Users |-> [s \in ShiftIds |-> LockedEvidence[v][s]]]
    BY DEF LockedEvidence
  <2> QED BY <1>2, <2>1
<1>4. ASSUME NEW e \in EvidenceState, Counted(e), NEW s \in ShiftIds
      PROVE  EvidenceAfter(capture[u], e, s) \in EvidenceState /\ Counted(EvidenceAfter(capture[u], e, s))
  <2>1. s \in capture[u].own => capture[u].facts[s].at \in Events
    BY CaptureTyped DEF HasFacts, Facts
  <2>2. CASE s \in capture[u].own
    BY <2>1, <2>2 DEF EvidenceAfter, EvidenceState, Counted
  <2>3. CASE s \notin capture[u].own /\ Missed(capture[u], e)
    <3>1. e.missing \in 0..1 /\ (e.status = "confirmed" => e.missing = 0)
          /\ (e.status = "possibly_missing" => e.missing = 1)
      BY <1>4, <2>3 DEF Missed, Counted, EvidenceState
    <3>2. e.missing + 1 \in 0..2 /\ (e.missing + 1 >= 2 => e.missing + 1 = 2)
          /\ (~(e.missing + 1 >= 2) => e.missing + 1 = 1)
      BY <3>1
    <3> DEFINE m == e.missing + 1
               t == IF m >= 2 THEN "cancelled" ELSE "possibly_missing"
    <3>3. EvidenceAfter(capture[u], e, s) = [e EXCEPT !.missing = m, !.status = t]
      BY <2>3 DEF EvidenceAfter, EvidenceState
    <3>4. m \in 0..2 /\ t \in {"cancelled", "possibly_missing"}
          /\ (t = "cancelled" => m = 2) /\ (t = "possibly_missing" => m = 1)
      BY <3>2
    <3> HIDE DEF m, t
    <3>5. [e EXCEPT !.missing = m, !.status = t] \in EvidenceState
          /\ [e EXCEPT !.missing = m, !.status = t].missing = m
          /\ [e EXCEPT !.missing = m, !.status = t].status = t
      BY <3>4 DEF EvidenceState
    <3> QED BY <3>3, <3>4, <3>5 DEF Counted
  <2>4. CASE s \notin capture[u].own /\ ~Missed(capture[u], e)
    BY <1>4, <2>4 DEF EvidenceAfter
  <2> QED BY <2>2, <2>3, <2>4
<1> DEFINE After == [s \in ShiftIds |-> EvidenceAfter(capture[u], LockedEvidence[u][s], s)]
<1>5. After \in [ShiftIds -> EvidenceState] /\ \A s \in ShiftIds : Counted(After[s])
  BY <1>2, <1>4
<1>6. Evidence(u) = [LockedEvidence EXCEPT ![u] = After]
  BY DEF Evidence
<1> HIDE DEF After
<1> QED BY <1>2, <1>3, <1>5, <1>6

LEMMA OwnRosterTyped ==
    ASSUME RosterInv, NEW u \in Users
    PROVE  /\ OwnRoster(u) \in [Users -> [ShiftIds -> ShiftState]]
           /\ \A v \in Users, s \in ShiftIds :
                v # u => OwnRoster(u)[v][s].source = roster[v][s].source
<1>1. roster \in [Users -> [ShiftIds -> ShiftState]]
  BY DEF RosterInv, RosterTypeOK, ShiftState
<1>2. ASSUME NEW v \in Users, NEW s \in ShiftIds
      PROVE  LockedRoster[v][s] \in ShiftState /\ LockedRoster[v][s].source = roster[v][s].source
  <2>1. roster[v][s] \in ShiftState
    BY <1>1
  <2>2. LockedRoster[v][s] =
          IF roster[v][s].live /\ roster[v][s].at \in over
          THEN [roster[v][s] EXCEPT !.locked = TRUE] ELSE roster[v][s]
    BY DEF LockedRoster
  <2> QED BY <2>1, <2>2 DEF ShiftState
<1>3. LockedRoster \in [Users -> [ShiftIds -> ShiftState]]
  <2>1. LockedRoster = [v \in Users |-> [s \in ShiftIds |-> LockedRoster[v][s]]]
    BY DEF LockedRoster
  <2> QED BY <1>2, <2>1
<1>4. ASSUME NEW e, NEW r \in ShiftState, NEW s \in ShiftIds
      PROVE  OwnShiftAfter(capture[u], e, r, s) \in ShiftState
  <2>1. s \in capture[u].own => capture[u].facts[s].at \in Events
    BY CaptureTyped DEF HasFacts, Facts
  <2> QED BY <2>1 DEF OwnShiftAfter, ShiftState
<1> DEFINE After == [s \in ShiftIds |->
                       OwnShiftAfter(capture[u], LockedEvidence[u][s], LockedRoster[u][s], s)]
<1>5. After \in [ShiftIds -> ShiftState]
  BY <1>2, <1>4
<1>6. OwnRoster(u) = [LockedRoster EXCEPT ![u] = After]
  BY DEF OwnRoster
<1> HIDE DEF After
<1> QED BY <1>2, <1>3, <1>5, <1>6

-----------------------------------------------------------------------------
(* What a save keeps                                                        *)

\* A shift somebody sees after the save is not dropped.
LEMMA SeenStays ==
    ASSUME RosterInv, NEW u \in Users, CaptureSaves(u), NEW v \in Users, NEW x \in Sources,
           NEW s \in last'[v][x]
    PROVE  row'[s] # Gone /\ obs'[s][v][x] = "active"
<1> DEFINE c == capture[u]
<1>1. last \in [Users -> [Sources -> SUBSET ShiftIds]]
  BY DEF RosterInv, RosterTypeOK
<1>2. last' = [last EXCEPT ![u] = [y \in Sources |-> Saved(c) \cap Ids(c, y)]]
  BY DEF CaptureSaves
<1>3. CASE v = u
  <2>1. s \in Saved(c) \cap Ids(c, x)
    BY <1>1, <1>2, <1>3
  <2>2. s \in ShiftIds /\ Rows(c)[s] \in Facts
    BY <2>1, RowsTyped
  <2>3. Observations(u)[s][v][x] = "active"
    BY <1>3, <2>1, <2>2, ObservationsTyped
  <2>4. s \notin Dropped(u)
    BY <2>3 DEF Dropped, SeenBySomebody
  <2> QED BY <2>2, <2>3, <2>4, KeptTyped, FactsApart DEF CaptureSaves
<1>4. CASE v # u
  <2>1. s \in last[v][x] /\ s \in ShiftIds
    BY <1>1, <1>2, <1>4
  <2>2. row[s] # Gone /\ obs[s][v][x] = "active"
    BY <2>1 DEF RosterInv, SeenIsKept
  <2>3. Observations(u)[s][v][x] = "active"
    BY <1>4, <2>1, <2>2, ObservationsTyped
  <2>4. s \notin Dropped(u)
    BY <2>3 DEF Dropped, SeenBySomebody
  <2>5. Rows(c)[s] # Gone
    <3>1. CASE s \in Saved(c)
      <4>1. Rows(c)[s] \in Facts
        BY <3>1, RowsTyped
      <4>2. Gone \notin Facts
        BY FactsApart
      <4> HIDE DEF c
      <4> QED BY <4>1, <4>2
    <3>2. CASE s \notin Saved(c)
      BY <2>1, <2>2, <3>2, RowsTyped
    <3> QED BY <3>1, <3>2
  <2> QED BY <2>1, <2>3, <2>4, <2>5, KeptTyped DEF CaptureSaves
<1> QED BY <1>3, <1>4

LEMMA EffectiveTyped ==
    ASSUME NEW r \in ShiftState, NEW fact \in FactsOrGone, NEW v \in Users, NEW seen \in BOOLEAN
    PROVE  /\ EffectiveShift(v, r, fact, seen) \in ShiftState
           /\ LET after == EffectiveShift(v, r, fact, seen) IN
              (after.source = "shared" /\ after.live /\ after.at \notin past) =>
                  fact = [who |-> v, at |-> after.at]
<1>1. fact.at \in Events /\ (fact.who = v => fact = [who |-> v, at |-> fact.at])
  BY FactsApart
<1> QED BY <1>1 DEF EffectiveShift, ShiftState

LEMMA SavesRoster ==
    ASSUME RosterInv, NEW u \in Users, CaptureSaves(u)
    PROVE  /\ roster' \in [Users -> [ShiftIds -> ShiftState]]
           /\ PurgedIsOut' /\ SharedShiftBacked'
<1> DEFINE Seen(s) == SeenBySomebody(Observations(u), s)
<1>1. \A v \in Users, s \in ShiftIds :
        roster'[v][s] = IF v \in purged THEN OwnRoster(u)[v][s]
                        ELSE EffectiveShift(v, OwnRoster(u)[v][s], Kept(u)[s], Seen(s))
  BY DEF CaptureSaves
<1>2. \A s \in ShiftIds : Seen(s) \in BOOLEAN
  BY DEF SeenBySomebody
<1> HIDE DEF Seen
<1>3. row' = Kept(u) /\ purged' = purged /\ past' = past /\ capture[u].on
      /\ capture' = [capture EXCEPT ![u] = NoCapture] /\ ~NoCapture.on
  BY DEF CaptureSaves, NoCapture
<1>4. u \notin purged
  BY <1>3 DEF RosterInv, PurgedIsOut
<1>5. ASSUME NEW v \in Users \ purged, NEW s \in ShiftIds
      PROVE  /\ roster'[v][s] \in ShiftState
             /\ (roster'[v][s].source = "shared" /\ roster'[v][s].live /\ roster'[v][s].at \notin past) =>
                  row'[s] = [who |-> v, at |-> roster'[v][s].at]
  <2>1. OwnRoster(u)[v][s] \in ShiftState /\ Kept(u)[s] \in FactsOrGone
    BY OwnRosterTyped, KeptTyped
  <2> QED BY <1>1, <1>2, <1>3, <2>1, EffectiveTyped
<1>6. ASSUME NEW v \in purged, NEW s \in ShiftIds
      PROVE  v \in Users /\ roster'[v][s] \in ShiftState /\ roster'[v][s].source # "shared"
  <2>1. v \in Users /\ v # u /\ roster[v][s].source # "shared"
    BY <1>4 DEF RosterInv, RosterTypeOK, PurgedIsOut
  <2> QED BY <1>1, <2>1, OwnRosterTyped
<1>7. roster' \in [Users -> [ShiftIds -> ShiftState]]
  <2>1. \A v \in Users, s \in ShiftIds : roster'[v][s] \in ShiftState
    BY <1>5, <1>6
  <2>2. roster' = [v \in Users |-> [s \in ShiftIds |-> roster'[v][s]]]
    BY DEF CaptureSaves
  <2> QED BY <2>1, <2>2
<1>8. PurgedIsOut'
  <2>1. \A v \in purged : v \in Users /\ v # u /\ capture'[v] = capture[v] /\ ~capture[v].on
    BY <1>3, <1>4 DEF RosterInv, RosterTypeOK, PurgedIsOut
  <2> QED BY <1>3, <1>6, <2>1 DEF PurgedIsOut
<1>9. SharedShiftBacked'
  BY <1>3, <1>5, <1>6 DEF SharedShiftBacked
<1> QED BY <1>7, <1>8, <1>9

LEMMA NoCaptureTyped == NoCapture \in CaptureState /\ HasFacts(NoCapture) /\ ~NoCapture.on
BY DEF NoCapture, NoKind, CaptureState, AllKinds, FactsOrGone, HasFacts, Listed

LEMMA SavesInv == ASSUME RosterInv, NEW u \in Users, CaptureSaves(u) PROVE RosterInv'
<1>1. /\ lockedEvents' = LocksNow /\ evidence' = Evidence(u) /\ row' = Kept(u)
      /\ last' = [last EXCEPT ![u] = [x \in Sources |-> Saved(capture[u]) \cap Ids(capture[u], x)]]
      /\ capture' = [capture EXCEPT ![u] = NoCapture]
      /\ UNCHANGED <<truth, edits, vt, slice, over, past, captures, purged>>
  BY DEF CaptureSaves
<1>2. obs' \in [ShiftIds -> [Users -> [Sources -> {"none", "active", "absent"}]]]
  <2>1. \A t \in ShiftIds : obs'[t] \in [Users -> [Sources -> {"none", "active", "absent"}]]
    BY ObservationsTyped DEF CaptureSaves
  <2>2. obs' = [t \in ShiftIds |-> obs'[t]]
    BY DEF CaptureSaves
  <2> QED BY <2>1, <2>2
<1>3. last' \in [Users -> [Sources -> SUBSET ShiftIds]]
  <2>1. Saved(capture[u]) \subseteq ShiftIds
    BY RowsTyped
  <2>2. [x \in Sources |-> Saved(capture[u]) \cap Ids(capture[u], x)] \in [Sources -> SUBSET ShiftIds]
    BY <2>1
  <2> QED BY <1>1, <2>2 DEF RosterInv, RosterTypeOK
<1>4. capture' \in [Users -> CaptureState] /\ \A v \in Users : HasFacts(capture'[v])
  <2>1. capture \in [Users -> CaptureState] /\ \A v \in Users : HasFacts(capture[v])
    BY CaptureTyped DEF RosterInv, RosterTypeOK, CaptureState, FactsOrGone
  <2> QED BY <1>1, <2>1, NoCaptureTyped
<1>5. RosterTypeOK'
  BY <1>1, <1>2, <1>3, <1>4, LocksTyped, EvidenceTyped, SavesRoster, KeptTyped
     DEF RosterInv, RosterTypeOK, EvidenceState, ShiftState, CaptureState, FactsOrGone
<1>6. SeenIsKept'
  BY SeenStays DEF SeenIsKept
<1>7. PurgedIsOut' /\ SharedShiftBacked'
  BY SavesRoster
<1>8. \A v \in Users : HasFacts(capture[v])'
  BY <1>4 DEF HasFacts, Listed
<1> QED BY <1>5, <1>6, <1>7, <1>8 DEF RosterInv

-----------------------------------------------------------------------------
(* The other actions                                                        *)

LEMMA ReadsInv == ASSUME RosterInv, NEW u \in Users, CaptureReads(u) PROVE RosterInv'
<1> DEFINE seen == {s \in slice[u] : truth[s] # Gone}
<1>1. seen \subseteq ShiftIds /\ \A s \in seen : truth[s] \in Facts
  BY DEF RosterInv, RosterTypeOK
<1> DEFINE Direct(k) == IF k.direct \in {"whole", "exact"} THEN {seen}
                        ELSE IF k.direct = "part" THEN SUBSET seen ELSE {{}}
           Own(k) == IF k.own = "none" THEN {{}} ELSE SUBSET {s \in ShiftIds : truth[s].who = u}
           Native(k) == IF k.native THEN seen ELSE {}
           Page(k, direct) == IF k.page THEN seen \ (Native(k) \cup direct) ELSE {}
           Got(k, direct, own) ==
             [on |-> TRUE, kind |-> k, native |-> Native(k), direct |-> direct, page |-> Page(k, direct),
              own |-> own,
              facts |-> [s \in ShiftIds |->
                  IF s \in Native(k) \cup direct \cup Page(k, direct) \cup own THEN truth[s] ELSE Gone]]
<1>2. PICK k \in Kinds : \E direct \in Direct(k), own \in Own(k) :
        capture' = [capture EXCEPT ![u] = Got(k, direct, own)]
  BY DEF CaptureReads
<1> HIDE DEF Got
<1>3. PICK direct \in Direct(k), own \in Own(k) : capture' = [capture EXCEPT ![u] = Got(k, direct, own)]
  BY <1>2
<1> DEFINE native == Native(k)
           page == Page(k, direct)
<1>4. /\ direct \in SUBSET seen /\ own \in SUBSET {s \in ShiftIds : truth[s].who = u}
       /\ native \in SUBSET seen /\ page \in SUBSET seen
  OBVIOUS
<1> USE DEF Got
<1>5. capture' = [capture EXCEPT ![u] =
          [on |-> TRUE, kind |-> k, native |-> native, direct |-> direct, page |-> page, own |-> own,
           facts |-> [s \in ShiftIds |->
               IF s \in native \cup direct \cup page \cup own THEN truth[s] ELSE Gone]]]
  BY <1>3
<1> HIDE DEF native, page, Direct, Own, Native, Page, Got
<1> DEFINE facts == [s \in ShiftIds |->
                       IF s \in native \cup direct \cup page \cup own THEN truth[s] ELSE Gone]
           c == [on |-> TRUE, kind |-> k, native |-> native, direct |-> direct, page |-> page,
                 own |-> own, facts |-> facts]
<1>6. truth \in [ShiftIds -> FactsOrGone] /\ k \in AllKinds
  BY RosterAssumption DEF RosterInv, RosterTypeOK, FactsOrGone
<1>7. facts \in [ShiftIds -> FactsOrGone]
  BY <1>6 DEF FactsOrGone
<1>8. \A s \in own : s \in ShiftIds /\ truth[s] \in Facts
  <2>1. \A s \in own : s \in ShiftIds /\ truth[s].who = u
    BY <1>4
  <2>2. u # "gone" /\ Gone.who = "gone"
    BY RosterAssumption DEF Gone
  <2> QED BY <1>6, <2>1, <2>2 DEF FactsOrGone
<1>9. native \cup direct \cup page \cup own \subseteq ShiftIds
      /\ \A s \in native \cup direct \cup page \cup own : facts[s] \in Facts
  BY <1>1, <1>4, <1>8
<1> HIDE DEF facts, seen
<1>10. c \in CaptureState /\ HasFacts(c)
  <2>1. c \in CaptureState
    BY <1>6, <1>7, <1>9 DEF CaptureState
  <2>2. HasFacts(c)
    BY <1>9 DEF HasFacts, Listed
  <2> QED BY <2>1, <2>2
<1>11. capture' = [capture EXCEPT ![u] = c]
  BY <1>5 DEF facts
<1> HIDE DEF c
<1>12. capture' \in [Users -> CaptureState] /\ \A v \in Users : HasFacts(capture'[v])
  <2>1. capture \in [Users -> CaptureState] /\ \A v \in Users : HasFacts(capture[v])
    BY CaptureTyped DEF RosterInv, RosterTypeOK, CaptureState, FactsOrGone
  <2> QED BY <1>10, <1>11, <2>1
<1>13. captures' \in 0..MaxCaptures /\ u \notin purged
       /\ UNCHANGED <<truth, edits, vt, slice, over, past, lockedEvents, row, obs, evidence, roster, last, purged>>
  BY RosterAssumption DEF CaptureReads, RosterInv, RosterTypeOK
<1>14. RosterTypeOK'
  BY <1>12, <1>13 DEF RosterInv, RosterTypeOK, CaptureState, FactsOrGone
<1>15. SeenIsKept' /\ SharedShiftBacked'
  BY <1>13 DEF RosterInv, SeenIsKept, SharedShiftBacked
<1>16. PurgedIsOut'
  BY <1>11, <1>13 DEF RosterInv, RosterTypeOK, PurgedIsOut
<1>17. \A v \in Users : HasFacts(capture[v])'
  BY <1>12 DEF HasFacts, Listed
<1> QED BY <1>14, <1>15, <1>16, <1>17 DEF RosterInv

LEMMA LostInv == ASSUME RosterInv, NEW u \in Users, CaptureLost(u) PROVE RosterInv'
<1>1. capture' = [capture EXCEPT ![u] = NoCapture]
      /\ UNCHANGED <<truth, edits, vt, slice, over, past, lockedEvents, row, obs, evidence, roster,
                     captures, last, purged>>
  BY DEF CaptureLost
<1>2. capture' \in [Users -> CaptureState] /\ \A v \in Users : HasFacts(capture'[v])
  <2>1. capture \in [Users -> CaptureState] /\ \A v \in Users : HasFacts(capture[v])
    BY CaptureTyped DEF RosterInv, RosterTypeOK, CaptureState, FactsOrGone
  <2> QED BY <1>1, <2>1, NoCaptureTyped
<1>3. RosterTypeOK'
  BY <1>1, <1>2 DEF RosterInv, RosterTypeOK, CaptureState, FactsOrGone
<1>4. SeenIsKept' /\ SharedShiftBacked'
  BY <1>1 DEF RosterInv, SeenIsKept, SharedShiftBacked
<1>5. PurgedIsOut'
  BY <1>1, NoCaptureTyped DEF RosterInv, RosterTypeOK, PurgedIsOut
<1>6. \A v \in Users : HasFacts(capture[v])'
  BY <1>2 DEF HasFacts, Listed
<1> QED BY <1>3, <1>4, <1>5, <1>6 DEF RosterInv

LEMMA PurgedInv == ASSUME RosterInv, NEW u \in Users, AccountPurged(u) PROVE RosterInv'
<1>1. /\ ~capture[u].on /\ purged' = purged \cup {u}
      /\ obs' = [s \in ShiftIds |-> [obs[s] EXCEPT ![u] = [x \in Sources |-> "none"]]]
      /\ evidence' = [evidence EXCEPT ![u] = [s \in ShiftIds |-> NoEvidence]]
      /\ roster' = [roster EXCEPT ![u] = [s \in ShiftIds |-> NoShift]]
      /\ last' = [last EXCEPT ![u] = Unseen]
      /\ UNCHANGED <<truth, edits, vt, slice, over, past, lockedEvents, row, capture, captures>>
  BY DEF AccountPurged
<1>2. /\ obs \in [ShiftIds -> [Users -> [Sources -> {"none", "active", "absent"}]]]
      /\ roster \in [Users -> [ShiftIds -> ShiftState]]
      /\ evidence \in [Users -> [ShiftIds -> EvidenceState]]
      /\ last \in [Users -> [Sources -> SUBSET ShiftIds]]
  BY DEF RosterInv, RosterTypeOK, ShiftState, EvidenceState
<1>3. NoEvidence \in EvidenceState /\ Counted(NoEvidence) /\ NoShift \in ShiftState
      /\ NoShift.source = "none" /\ Unseen \in [Sources -> SUBSET ShiftIds]
      /\ \A x \in Sources : Unseen[x] = {}
  BY FactsApart DEF NoEvidence, EvidenceState, Counted, NoShift, ShiftState, Unseen
<1>4. obs' \in [ShiftIds -> [Users -> [Sources -> {"none", "active", "absent"}]]]
      /\ \A s \in ShiftIds, v \in Users : v # u => obs'[s][v] = obs[s][v]
  BY <1>1, <1>2
<1>5. roster' \in [Users -> [ShiftIds -> ShiftState]]
      /\ \A v \in Users, s \in ShiftIds : roster'[v][s] = IF v = u THEN NoShift ELSE roster[v][s]
  BY <1>1, <1>2, <1>3
<1>6. evidence' \in [Users -> [ShiftIds -> EvidenceState]]
      /\ \A v \in Users, s \in ShiftIds : evidence'[v][s] = IF v = u THEN NoEvidence ELSE evidence[v][s]
  BY <1>1, <1>2, <1>3
<1>7. last' \in [Users -> [Sources -> SUBSET ShiftIds]]
      /\ \A v \in Users : last'[v] = IF v = u THEN Unseen ELSE last[v]
  BY <1>1, <1>2, <1>3
<1>8. RosterTypeOK'
  <2>1. \A v \in Users, s \in ShiftIds : Counted(evidence'[v][s])
    BY <1>3, <1>6 DEF RosterInv, RosterTypeOK
  <2> QED BY <1>1, <1>4, <1>5, <1>6, <1>7, <2>1
          DEF RosterInv, RosterTypeOK, ShiftState, EvidenceState, Counted
<1>9. SeenIsKept'
  <2> SUFFICES ASSUME NEW v \in Users, NEW x \in Sources, NEW s \in last'[v][x]
               PROVE  row'[s] # Gone /\ obs'[s][v][x] = "active"
    BY DEF SeenIsKept
  <2>1. v # u /\ s \in last[v][x] /\ s \in ShiftIds
    BY <1>2, <1>3, <1>7
  <2> QED BY <1>1, <1>4, <2>1 DEF RosterInv, SeenIsKept
<1>10. SharedShiftBacked'
  BY <1>1, <1>3, <1>5 DEF RosterInv, SharedShiftBacked
<1>11. PurgedIsOut'
  <2>1. \A v \in purged : v \in Users
    BY DEF RosterInv, RosterTypeOK
  <2> QED BY <1>1, <1>3, <1>5, <2>1 DEF RosterInv, PurgedIsOut
<1>12. \A v \in Users : HasFacts(capture[v])'
  BY <1>1 DEF RosterInv, HasFacts, Listed
<1> QED BY <1>8, <1>9, <1>10, <1>11, <1>12 DEF RosterInv

LEMMA AroundInv == RosterInv /\ (DeputyEdits \/ EventEnds \/ DateTurns \/ UNCHANGED rosterVars) => RosterInv'
<1> SUFFICES ASSUME RosterInv, DeputyEdits \/ EventEnds \/ DateTurns \/ UNCHANGED rosterVars
             PROVE  RosterInv'
  OBVIOUS
<1>1. /\ UNCHANGED <<vt, slice, lockedEvents, row, obs, evidence, roster, capture, captures, last, purged>>
      /\ past \subseteq past'
  BY DEF DeputyEdits, EventEnds, DateTurns, rosterVars
<1>2. RosterTypeOK'
  <2>1. truth' \in [ShiftIds -> Facts \cup {Gone}] /\ edits' \in 0..MaxEdits
        /\ over' \subseteq Events /\ past' \subseteq Events
    <3>1. CASE DeputyEdits
      BY <3>1, RosterAssumption DEF DeputyEdits, RosterInv, RosterTypeOK
    <3>2. CASE EventEnds \/ DateTurns \/ UNCHANGED rosterVars
      BY <3>2 DEF EventEnds, DateTurns, rosterVars, RosterInv, RosterTypeOK
    <3> QED BY <3>1, <3>2
  <2> QED BY <1>1, <2>1 DEF RosterInv, RosterTypeOK
<1>3. SeenIsKept' /\ PurgedIsOut' /\ SharedShiftBacked'
  BY <1>1 DEF RosterInv, SeenIsKept, PurgedIsOut, SharedShiftBacked
<1>4. \A v \in Users : HasFacts(capture[v])'
  BY <1>1 DEF RosterInv, HasFacts, Listed
<1> QED BY <1>2, <1>3, <1>4 DEF RosterInv

-----------------------------------------------------------------------------
(* The theorems                                                             *)

LEMMA RosterInitInv == RosterInit => RosterInv
<1> SUFFICES ASSUME RosterInit PROVE RosterInv
  OBVIOUS
<1>1. /\ NoEvidence \in EvidenceState /\ Counted(NoEvidence) /\ NoShift \in ShiftState
      /\ NoShift.source = "none" /\ Unseen \in [Sources -> SUBSET ShiftIds]
      /\ \A x \in Sources : Unseen[x] = {}
  BY FactsApart DEF NoEvidence, EvidenceState, Counted, NoShift, ShiftState, Unseen
<1>2. capture \in [Users -> CaptureState] /\ \A v \in Users : HasFacts(capture[v])
  BY NoCaptureTyped DEF RosterInit
<1>3. RosterTypeOK
  <2>1. /\ evidence \in [Users -> [ShiftIds -> EvidenceState]]
        /\ roster \in [Users -> [ShiftIds -> ShiftState]]
        /\ \A u \in Users, s \in ShiftIds : Counted(evidence[u][s])
    BY <1>1 DEF RosterInit
  <2>2. /\ last \in [Users -> [Sources -> SUBSET ShiftIds]]
        /\ obs \in [ShiftIds -> [Users -> [Sources -> {"none", "active", "absent"}]]]
        /\ row \in [ShiftIds -> FactsOrGone]
        /\ edits \in 0..MaxEdits /\ captures \in 0..MaxCaptures
    BY <1>1, RosterAssumption DEF RosterInit, FactsOrGone
  <2> QED BY <1>2, <2>1, <2>2
          DEF RosterInit, RosterTypeOK, ShiftState, EvidenceState, CaptureState, FactsOrGone
<1>4. PurgedIsOut /\ SharedShiftBacked /\ SeenIsKept
  BY <1>1 DEF RosterInit, PurgedIsOut, SharedShiftBacked, SeenIsKept
<1> QED BY <1>2, <1>3, <1>4 DEF RosterInv

LEMMA RosterNextInv == RosterInv /\ [RosterNext]_rosterVars => RosterInv'
BY AroundInv, PurgedInv, ReadsInv, LostInv, SavesInv DEF RosterNext

\* RosterInv is an inductive invariant of the captures.
THEOREM RosterInvariant == RosterSpec => []RosterInv
BY RosterInitInv, RosterNextInv, PTL DEF RosterSpec

\* The variables keep their types, and missing_count goes with the status.
THEOREM RosterTypes == RosterSpec => []RosterTypeOK
<1>1. RosterInv => RosterTypeOK
  BY DEF RosterInv
<1> QED BY <1>1, RosterInvariant, PTL

\* No capture takes away what another account's last capture listed.
THEOREM WhatIsSeenIsKept == RosterSpec => []SeenIsKept
<1>1. RosterInv => SeenIsKept
  BY DEF RosterInv
<1> QED BY <1>1, RosterInvariant, PTL

\* A live shared shift has a row that names its owner in that event.
THEOREM SharedShiftsAreBacked == RosterSpec => []SharedShiftBacked
<1>1. RosterInv => SharedShiftBacked
  BY DEF RosterInv
<1> QED BY <1>1, RosterInvariant, PTL

\* A named row of an event that is over survives every save that does not list
\* its shift in another event.
LEMMA HistoryKept ==
    ASSUME RosterInv, NEW u \in Users, CaptureSaves(u), NEW s \in ShiftIds,
           row[s].at \in over, Named(row[s]), row'[s] # row[s]
    PROVE  s \in Listed(capture[u]) /\ capture[u].facts[s].at # row[s].at
<1> DEFINE c == capture[u]
<1>1. row[s] \in FactsOrGone /\ row[s] # Gone
  BY FactsApart DEF RosterInv, RosterTypeOK, FactsOrGone
<1>2. row[s].at \in LocksNow
  BY <1>1 DEF LocksNow
<1>3. row'[s] = IF s \in Dropped(u) THEN Gone ELSE Rows(c)[s]
  BY KeptTyped DEF CaptureSaves
<1>4. \A x \in Sources : Gives(u, x, s) => Rows(c)[s].at \notin LocksNow
  BY DEF Gives, Replaced, Converged, Absent
<1>5. CASE Rows(c)[s].at \notin LocksNow
  <2>1. s \in Saved(c)
    BY <1>2, <1>5, RowsTyped
  <2> QED BY <1>2, <1>5, <2>1, RowsTyped
<1>6. CASE Rows(c)[s].at \in LocksNow
  <2>1. Rows(c)[s] # row[s]
    BY <1>3, <1>4, <1>6 DEF Dropped
  <2>2. s \in Saved(c)
    BY <2>1, RowsTyped
  <2>3. s \in Listed(c) /\ Rows(c)[s] = RowAfter(c, s) /\ RowAfter(c, s).at = c.facts[s].at
        /\ RowAfter(c, s) \in Facts
    BY <2>2, RowsTyped
  <2>4. RowAfter(c, s).who = row[s].who
    <3>1. c.facts[s] \in Facts /\ c.facts[s].at \in LocksNow
      BY <1>6, <2>3, CaptureTyped DEF HasFacts
    <3> QED BY <1>1, <3>1, FactsApart DEF RowAfter
  <2>5. RowAfter(c, s).at # row[s].at
    <3>1. RowAfter(c, s) \in FactsOrGone
      BY <2>3 DEF FactsOrGone
    <3> QED BY <1>1, <2>1, <2>3, <2>4, <3>1, FactsApart
  <2> QED BY <2>3, <2>5
<1> QED BY <1>5, <1>6

\* History is rewritten by no capture that does not move the shift elsewhere.
THEOREM HistoryIsKept == RosterSpec => SharedHistoryKept
<1>1. RosterInv /\ [RosterNext]_rosterVars =>
        [\A s \in ShiftIds :
            (row[s].at \in over /\ Named(row[s]) /\ row'[s] # row[s]) =>
                \E u \in Users : s \in Listed(capture[u]) /\ capture[u].facts[s].at # row[s].at]_rosterVars
  <2> SUFFICES ASSUME RosterInv, [RosterNext]_rosterVars, NEW s \in ShiftIds,
                      row[s].at \in over, Named(row[s]), row'[s] # row[s]
               PROVE  \E u \in Users : s \in Listed(capture[u]) /\ capture[u].facts[s].at # row[s].at
    OBVIOUS
  <2>1. PICK u \in Users : CaptureSaves(u)
    BY DEF RosterNext, rosterVars, DeputyEdits, EventEnds, DateTurns, AccountPurged, CaptureReads, CaptureLost
  <2> QED BY <2>1, HistoryKept
<1> QED BY <1>1, RosterInvariant, PTL DEF RosterSpec, SharedHistoryKept

=============================================================================
