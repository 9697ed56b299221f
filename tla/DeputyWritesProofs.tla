-------------------------- MODULE DeputyWritesProofs --------------------------
(***************************************************************************)
(* Proofs about DeputyWrites: type correctness; the provenance recorded in *)
(* a link, and that only rosters this program created are ever deleted;    *)
(* and, on top of that invariant, that a batch publishes last, that        *)
(* retries never leave a second shift or abandon one, and what alone can   *)
(* leave a publish in doubt when nothing fails.                            *)
(***************************************************************************)
EXTENDS DeputyWrites, FiniteSetTheorems, TLAPS

\* The tables and the running batch are well typed.
LocalType ==
    /\ workday \in [Keys -> Versions \cup {None}]
    /\ links \in [Keys -> Link]
    /\ ops \in [Ops -> {"none", "verified"} \cup Active \cup Refusals]
    /\ batch \in BatchState

\* Deputy's side and the history are well typed.
RemoteType ==
    /\ deputy \in [Rosters -> Shifts \cup {None}]
    /\ origin \in [Rosters -> {"none", "redeputy", "other"}]
    /\ published \subseteq Rosters /\ locked \subseteq Rosters
    /\ touched \subseteq Rosters /\ deleted \subseteq Rosters

\* What the program counter says of the kind of the running operation.
KindInv ==
    /\ batch.pc \notin {"idle", "preflight", "next"} => Kind \in Mutations \cup {"publish"}
    /\ batch.pc \in {"exact", "overlap", "post"} => Kind = "create"
    /\ batch.pc = "readback" => Kind \in {"create", "update"}
    /\ batch.pc = "finish" => Kind \in Mutations
    /\ batch.pc = "read" => Kind \in {"update", "delete"}
    /\ batch.pc = "put" => Kind = "update"
    /\ batch.pc \in {"delete", "gone"} => Kind = "delete"
    /\ batch.pc \in {"publishread", "publish", "publishverify"} => Kind = "publish"

\* What the running batch knows: what is left are mutations, the roster of a
\* removal is one this program created, an update wants a shift for the linked
\* roster, an operation works on the roster of its action, a create that found a
\* roster adopts it, and a created roster is this program's.
PlanInv ==
    /\ batch.pc \notin {"idle", "preflight"} => \A k \in batch.left : batch.plan[k] \in Mutations
    /\ \A k \in Keys : batch.plan[k] = "delete" =>
          batch.roster[k] \in Rosters /\ origin[batch.roster[k]] = "redeputy"
    /\ \A k \in Keys : batch.plan[k] = "update" =>
          /\ batch.roster[k] \in Rosters /\ links[k].roster = batch.roster[k]
          /\ batch.goal[k] \in Versions
    /\ (batch.pc \notin {"idle", "preflight", "next"} /\ Kind \in {"update", "delete"}) =>
          batch.target = batch.roster[batch.key]
    /\ batch.pc = "preflight" =>
          \A k \in Keys \ batch.left : batch.plan[k] = "unchanged" => batch.roster[k] \in Rosters
    /\ batch.pc \in {"readback", "finish"} => batch.target \in Rosters
    /\ (batch.pc = "overlap" /\ batch.target # None) => batch.own = "adopted"
    /\ (batch.pc = "readback" /\ Kind = "create" /\ batch.own = "created") =>
          origin[batch.target] = "redeputy"

IInv == LocalType /\ RemoteType /\ KindInv /\ PlanInv /\ OwnershipIsCurrent /\ DeleteAuthority

\* No roster loses its creator.
OriginKept == \A r \in Rosters : origin[r] = "redeputy" => origin'[r] = "redeputy"

LEMMA NoBatchType == NoBatch \in BatchState
BY DEF NoBatch, BatchState, Ops

LEMMA KindKeys ==
    ASSUME LocalType, Kind # "publish"
    PROVE  batch.key \in Keys /\ Kind = batch.plan[batch.key]
BY DEF LocalType, BatchState, Ops, Kind

-----------------------------------------------------------------------------
(* Deputy's side                                                            *)

\* What one step does to Deputy keeps its types, no creator is lost, and a
\* roster is deleted only when the step deletes one this program created.
RemoteOK == RemoteType' /\ OriginKept /\ DeleteAuthority'

LEMMA SameRemote ==
    ASSUME IInv, UNCHANGED remote
    PROVE  RemoteOK
BY DEF IInv, remote, RemoteOK, RemoteType, OriginKept, DeleteAuthority

LEMMA CreatedRemote ==
    ASSUME IInv, NEW r \in Rosters, Created(r), Kind = "create"
    PROVE  RemoteOK /\ origin'[r] = "redeputy"
<1>1. batch.goal[batch.key] \in Versions \cup {None}
  BY KindKeys DEF IInv, LocalType, BatchState
<1> QED BY <1>1 DEF IInv, RemoteType, Created, RemoteOK, OriginKept, DeleteAuthority, Shifts

LEMMA WrittenRemote ==
    ASSUME IInv, NEW r \in Rosters, NEW v \in Versions \cup {None}, Written(r, v),
           v = None => origin[r] = "redeputy"
    PROVE  RemoteOK
BY DEF IInv, RemoteType, Written, RemoteOK, OriginKept, DeleteAuthority, Shifts

LEMMA ShownRemote ==
    ASSUME IInv, NEW S \in SUBSET Rosters, Shown(S)
    PROVE  RemoteOK
BY DEF IInv, RemoteType, Shown, RemoteOK, OriginKept, DeleteAuthority

-----------------------------------------------------------------------------
(* The program's side                                                       *)

\* The obligations of a step besides those on Deputy's side.
LocalOK == LocalType' /\ KindInv' /\ PlanInv'

\* A batch that ended knows nothing.
LEMMA EndedBatch ==
    ASSUME IInv, batch' = NoBatch, UNCHANGED <<workday, links>>,
           ops' \in [Ops -> {"none", "verified"} \cup Active \cup Refusals]
    PROVE  LocalOK
<1>1. NoBatch.pc = "idle" /\ \A k \in Keys : NoBatch.plan[k] = "none"
  BY DEF NoBatch
<1>2. LocalType'
  BY NoBatchType DEF IInv, LocalType
<1>3. KindInv'
  BY <1>1 DEF KindInv
<1>4. PlanInv'
  BY <1>1 DEF PlanInv
<1> QED BY <1>2, <1>3, <1>4 DEF LocalOK

LEMMA StoppedBatch ==
    ASSUME IInv, NEW s \in Refusals \cup {"unknown", "verified"}, Stop(s), UNCHANGED <<workday, links>>
    PROVE  LocalOK
<1>1. ops' \in [Ops -> {"none", "verified"} \cup Active \cup Refusals]
  BY DEF Stop, IInv, LocalType, Active
<1> QED BY <1>1, EndedBatch DEF Stop

\* The operation goes on, with its key and plan, at another program counter.
LEMMA MovedBatch ==
    ASSUME IInv, OriginKept, UNCHANGED workday, batch' \in BatchState,
           batch'.plan = batch.plan, batch'.goal = batch.goal, batch'.roster = batch.roster,
           batch'.key = batch.key, batch'.left \subseteq batch.left, batch.pc \notin {"idle", "preflight", "next"},
           batch'.pc \notin {"idle", "preflight", "next"},
           ops' \in [Ops -> {"none", "verified"} \cup Active \cup Refusals],
           links' \in [Keys -> Link],
           \A k \in Keys : batch.plan[k] = "update" => links'[k].roster = links[k].roster,
           KindInv',
           Kind \in {"update", "delete"} => batch'.target = batch.target,
           batch'.pc \in {"readback", "finish"} => batch'.target \in Rosters,
           (batch'.pc = "overlap" /\ batch'.target # None) => batch'.own = "adopted",
           (batch'.pc = "readback" /\ Kind = "create" /\ batch'.own = "created") =>
               origin'[batch'.target] = "redeputy"
    PROVE  LocalOK
<1>1. LocalType'
  BY DEF IInv, LocalType
<1>2. Kind' = Kind
  BY DEF Kind
<1>3. PlanInv'
  BY <1>2 DEF IInv, PlanInv, OriginKept
<1> QED BY <1>1, <1>3 DEF LocalOK

\* A verified operation adds its roster to those to publish.
LEMMA VerifiedBatch ==
    ASSUME IInv, Verified, Kind # "publish", batch.pc \in {"read", "finish", "reconcile"}, batch.target \in Rosters, UNCHANGED <<workday, links, origin>>
    PROVE  LocalOK
<1>1. batch.key \in Keys
  BY KindKeys DEF IInv
<1>2. /\ batch'.pc = "next" /\ batch'.plan = batch.plan /\ batch'.roster = batch.roster
      /\ batch'.goal = batch.goal /\ batch' \in BatchState /\ batch'.left \subseteq batch.left
  BY <1>1 DEF Verified, IInv, LocalType, BatchState
<1>3. LocalType'
  BY <1>2 DEF Verified, IInv, LocalType
<1>4. KindInv'
  BY <1>2 DEF KindInv
<1>5. PlanInv'
  BY <1>2 DEF PlanInv, IInv
<1> QED BY <1>3, <1>4, <1>5 DEF LocalOK

\* A step that keeps the links keeps their provenance.
LEMMA SameLinks ==
    ASSUME IInv, OriginKept, UNCHANGED links
    PROVE  OwnershipIsCurrent'
BY DEF IInv, LocalType, Link, OriginKept, OwnershipIsCurrent

-----------------------------------------------------------------------------
(* The steps of a batch                                                     *)

StepOK == LocalOK /\ RemoteOK /\ OwnershipIsCurrent'

\* What a step that leaves links and Deputy alone owes besides LocalOK.
LEMMA LocalStep ==
    ASSUME IInv, UNCHANGED links, UNCHANGED remote, LocalOK
    PROVE  StepOK
<1>1. RemoteOK
  BY SameRemote
<1>2. OwnershipIsCurrent'
  BY <1>1, SameLinks DEF RemoteOK
<1> QED BY <1>1, <1>2 DEF StepOK

\* The operation stops and nothing else changes.
LEMMA StopStep ==
    ASSUME IInv, NEW s \in Refusals \cup {"unknown", "verified"}, Stop(s),
           UNCHANGED <<workday, links, remote>>
    PROVE  StepOK
<1>1. LocalOK
  BY StoppedBatch
<1> QED BY <1>1, LocalStep

\* The batch is dropped and nothing else changes.
LEMMA DropStep ==
    ASSUME IInv, batch' = NoBatch, UNCHANGED <<workday, links, ops, remote>>
    PROVE  StepOK
<1>1. LocalOK
  BY EndedBatch DEF IInv, LocalType
<1> QED BY <1>1, LocalStep

\* The operation goes to another request and nothing else changes.
LEMMA GotoStep ==
    ASSUME IInv, NEW pc \in {"reconcile", "finish"} \cup Requests, Goto(pc),
           batch.pc \notin {"idle", "preflight", "next"}, KindInv',
           pc # "overlap", pc \in {"readback", "finish"} => batch.target \in Rosters,
           (pc = "readback" /\ Kind = "create" /\ batch.own = "created") =>
               origin[batch.target] = "redeputy",
           UNCHANGED <<workday, links, ops, remote>>
    PROVE  StepOK
<1>1. batch' = [batch EXCEPT !.pc = pc] /\ batch \in BatchState
  BY DEF Goto, IInv, LocalType
<1>2. /\ batch' \in BatchState /\ batch'.pc = pc
      /\ batch'.plan = batch.plan /\ batch'.goal = batch.goal /\ batch'.roster = batch.roster
      /\ batch'.key = batch.key /\ batch'.target = batch.target /\ batch'.own = batch.own
      /\ batch'.left = batch.left
  BY <1>1 DEF BatchState
<1>3. OriginKept /\ UNCHANGED origin
  BY SameRemote DEF RemoteOK, remote
<1>4. pc \notin {"idle", "preflight", "next"}
  BY DEF Requests
<1>5. ops' \in [Ops -> {"none", "verified"} \cup Active \cup Refusals] /\ links' \in [Keys -> Link]
  BY DEF IInv, LocalType
<1>6. LocalOK
  BY <1>2, <1>3, <1>4, <1>5, MovedBatch
<1> QED BY <1>6, LocalStep

LEMMA BatchBeginsStep ==
    ASSUME IInv, BatchBegins
    PROVE  StepOK
<1> DEFINE b == [NoBatch EXCEPT !.pc = "preflight", !.plan = [k \in Keys |-> Planned(k)],
                   !.goal = workday, !.roster = [k \in Keys |-> links[k].roster],
                   !.left = {k \in Keys : Planned(k) # "none"}]
<1>1. \A k \in Keys : Planned(k) \in {"none", "unchanged"} \cup Mutations
  BY DEF Planned, Mutations
<1>2. \A k \in Keys : links[k] \in Link
  BY DEF IInv, LocalType
<1>3. workday \in [Keys -> Versions \cup {None}]
  BY DEF IInv, LocalType
<1>4. /\ b.pc = "preflight" /\ b.plan = [k \in Keys |-> Planned(k)]
      /\ b.goal = workday /\ b.roster = [k \in Keys |-> links[k].roster]
      /\ b.left = {k \in Keys : Planned(k) # "none"}
  BY DEF NoBatch
<1>5. b \in BatchState
  BY <1>1, <1>2, <1>3 DEF NoBatch, BatchState, Ops, Link, Requests
<1>6. batch' = b /\ UNCHANGED <<workday, links, ops, remote>>
  BY DEF BatchBegins
<1>7. LocalType'
  BY <1>5, <1>6 DEF IInv, LocalType
<1>8. KindInv'
  BY <1>4, <1>6 DEF KindInv
<1>9. PlanInv'
  <2>1. ASSUME NEW k \in Keys, Planned(k) = "delete"
        PROVE  links[k].roster \in Rosters /\ origin[links[k].roster] = "redeputy"
    BY <1>2, <2>1 DEF Planned, IInv, OwnershipIsCurrent, Link
  <2>2. ASSUME NEW k \in Keys, Planned(k) = "update"
        PROVE  links[k].roster \in Rosters /\ workday[k] \in Versions
    BY <1>2, <1>3, <2>2 DEF Planned, Link
  <2>3. UNCHANGED <<links, origin>>
    BY <1>6 DEF remote
  <2>4. \A k \in Keys \ b.left : b.plan[k] # "unchanged"
    BY <1>4
  <2> QED BY <1>4, <1>6, <2>1, <2>2, <2>3, <2>4 DEF PlanInv
<1>10. LocalOK
  BY <1>7, <1>8, <1>9 DEF LocalOK
<1> QED BY <1>6, <1>10, LocalStep

LEMMA PreflightPassesStep ==
    ASSUME IInv, NEW k \in Keys, PreflightPasses(k)
    PROVE  StepOK
<1>1. batch \in BatchState /\ batch.pc = "preflight"
  BY DEF PreflightPasses, At, IInv, LocalType
<1>2. /\ batch' \in BatchState /\ batch'.pc = "preflight" /\ batch'.plan = batch.plan
      /\ batch'.roster = batch.roster /\ batch'.goal = batch.goal /\ batch'.left = batch.left \ {k}
  BY <1>1 DEF PreflightPasses, BatchState
<1>3. batch.plan[k] = "unchanged" => batch.roster[k] \in Rosters
  BY <1>1 DEF PreflightPasses, Ready, BatchState
<1>4. UNCHANGED <<workday, links, ops, remote, origin>>
  BY DEF PreflightPasses, remote
<1>5. LocalType'
  BY <1>2, <1>4 DEF IInv, LocalType
<1>6. KindInv'
  BY <1>2 DEF KindInv
<1>7. PlanInv'
  BY <1>1, <1>2, <1>3, <1>4 DEF IInv, PlanInv
<1> QED BY <1>4, <1>5, <1>6, <1>7, LocalStep DEF LocalOK

LEMMA PreflightEndsStep ==
    ASSUME IInv, PreflightEnds
    PROVE  StepOK
<1> DEFINE I == {batch.roster[k] : k \in {h \in Keys : batch.plan[h] = "unchanged"}}
<1>1. batch \in BatchState /\ batch.pc = "preflight" /\ batch.left = {}
  BY DEF PreflightEnds, At, IInv, LocalType
<1>2. I \subseteq Rosters
  BY <1>1 DEF IInv, PlanInv
<1>3. /\ batch' \in BatchState /\ batch'.pc = "next" /\ batch'.plan = batch.plan
      /\ batch'.roster = batch.roster /\ batch'.goal = batch.goal /\ batch'.left = {k \in Keys : batch.plan[k] \in Mutations}
  BY <1>1, <1>2 DEF PreflightEnds, BatchState
<1>4. UNCHANGED <<workday, links, ops, remote, origin>>
  BY DEF PreflightEnds, remote
<1>5. LocalType'
  BY <1>3, <1>4 DEF IInv, LocalType
<1>6. KindInv'
  BY <1>3 DEF KindInv
<1>7. PlanInv'
  BY <1>3, <1>4 DEF IInv, PlanInv
<1> QED BY <1>4, <1>5, <1>6, <1>7, LocalStep DEF LocalOK

LEMMA PrepareStep ==
    ASSUME IInv, Prepare
    PROVE  StepOK
<1>1. batch \in BatchState
  BY DEF IInv, LocalType
<1>2. NextKeys \subseteq {Publish} \cup {k \in Keys : batch.plan[k] \in Mutations}
  BY <1>1 DEF Prepare, At, NextKeys, BatchState, IInv, PlanInv
<1>3. PICK k \in {Publish} \cup {h \in Keys : batch.plan[h] \in Mutations} :
        /\ ops' = [ops EXCEPT ![k] = "prepared"]
        /\ batch' = [batch EXCEPT !.pc = "execute", !.key = k, !.own = "created", !.sent = FALSE,
                       !.target = IF k = Publish THEN None ELSE batch.roster[k]]
  BY <1>2 DEF Prepare
<1>4. k \in Ops /\ (k # Publish => k \in Keys /\ batch.plan[k] \in Mutations)
  BY DEF Ops
<1>5. /\ batch' \in BatchState /\ batch'.pc = "execute" /\ batch'.left = batch.left/\ batch'.plan = batch.plan
      /\ batch'.roster = batch.roster /\ batch'.goal = batch.goal /\ batch'.key = k
      /\ k # Publish => batch'.target = batch'.roster[k]
  BY <1>1, <1>3, <1>4 DEF BatchState
<1>6. UNCHANGED <<workday, links, remote, origin>>
  BY DEF Prepare, remote
<1>7. LocalType'
  BY <1>3, <1>5, <1>6 DEF IInv, LocalType, Active
<1>8. KindInv'
  BY <1>4, <1>5 DEF KindInv, Kind
<1>9. PlanInv'
  BY <1>5, <1>6, DeputyWritesAssumption DEF IInv, PlanInv, Kind, Prepare, At
<1> QED BY <1>6, <1>7, <1>8, <1>9, LocalStep DEF LocalOK

LEMMA ExecuteStep ==
    ASSUME IInv, Execute
    PROVE  StepOK
<1>1. UNCHANGED <<workday, links, remote>> /\ batch.pc = "execute" /\ batch \in BatchState
  BY DEF Execute, At, IInv, LocalType
<1>2. CASE Stop("failed")
  BY <1>1, <1>2, StopStep DEF Refusals
<1>3. CASE /\ ops' = [ops EXCEPT ![batch.key] = "sending"]
           /\ Goto(CASE Kind = "create" -> "exact"
                     [] Kind \in {"update", "delete"} -> "read"
                     [] Kind = "publish" -> "publishread")
           /\ Kind \in Mutations \cup {"publish"}
  <2> DEFINE pc == CASE Kind = "create" -> "exact"
                     [] Kind \in {"update", "delete"} -> "read"
                     [] Kind = "publish" -> "publishread"
  <2>1. /\ pc \in {"exact", "read", "publishread"}
        /\ pc = "exact" => Kind = "create"
        /\ pc = "read" => Kind \in {"update", "delete"}
    BY <1>3 DEF Mutations
  <2>2. /\ batch' = [batch EXCEPT !.pc = pc]
    BY <1>3 DEF Goto
  <2>3. /\ batch' \in BatchState /\ batch'.pc = pc
        /\ batch'.plan = batch.plan /\ batch'.goal = batch.goal /\ batch'.roster = batch.roster
        /\ batch'.key = batch.key /\ batch'.target = batch.target /\ batch'.own = batch.own
        /\ batch'.left = batch.left
    BY <1>1, <2>1, <2>2 DEF BatchState, Requests
  <2>4. KindInv'
    BY <1>3, <2>1, <2>3 DEF KindInv, Kind, Mutations
  <2>5. OriginKept
    BY <1>1, SameRemote DEF RemoteOK
  <2>6. ops' \in [Ops -> {"none", "verified"} \cup Active \cup Refusals] /\ links' \in [Keys -> Link]
    BY <1>1, <1>3 DEF IInv, LocalType, Active
  <2>7. pc \notin {"idle", "preflight", "next", "readback", "finish", "overlap"}
    BY <2>1
  <2>8. LocalOK
    BY <1>1, <2>3, <2>4, <2>5, <2>6, <2>7, MovedBatch
  <2> QED BY <1>1, <2>8, LocalStep
<1>4. Kind \in Mutations \cup {"publish"}
  BY <1>1 DEF IInv, KindInv
<1> QED BY <1>1, <1>2, <1>3, <1>4 DEF Execute

LEMMA BatchStep ==
    ASSUME IInv, Batch
    PROVE  StepOK
<1>1. CASE PreflightBlocks
  BY <1>1, DropStep DEF PreflightBlocks
<1>2. CASE PrepareRaises
  BY <1>2, DropStep DEF PrepareRaises
<1>3. CASE ExecuteNotReady
  <2>1. CASE Stop("failed")
    BY <1>3, <2>1, StopStep DEF ExecuteNotReady, Refusals
  <2>2. CASE batch' = NoBatch /\ UNCHANGED ops
    BY <1>3, <2>2, DropStep DEF ExecuteNotReady
  <2> QED BY <1>3, <2>1, <2>2 DEF ExecuteNotReady
<1> QED BY <1>1, <1>2, <1>3, BatchBeginsStep, PreflightPassesStep, PreflightEndsStep, PrepareStep,
          ExecuteStep DEF Batch

-----------------------------------------------------------------------------
(* The requests of an operation                                             *)

\* A create that looked for candidates goes on to the next request.
LEMMA CreateGoesOn ==
    ASSUME IInv, batch.pc \in {"exact", "overlap"}, UNCHANGED <<workday, links, ops, remote>>,
           batch' \in BatchState, batch'.plan = batch.plan, batch'.goal = batch.goal,
           batch'.roster = batch.roster, batch'.key = batch.key, batch'.left = batch.left,
           batch'.pc \in {"overlap", "post", "readback"},
           batch'.pc = "readback" => batch'.target \in Rosters /\ batch'.own = "adopted",
           (batch'.pc = "overlap" /\ batch'.target # None) => batch'.own = "adopted"
    PROVE  StepOK
<1>1. Kind = "create" /\ Kind' = Kind
  BY DEF IInv, KindInv, Kind
<1>2. KindInv'
  BY <1>1 DEF KindInv, Mutations
<1>3. OriginKept
  BY SameRemote DEF RemoteOK
<1>4. ops' \in [Ops -> {"none", "verified"} \cup Active \cup Refusals] /\ links' \in [Keys -> Link]
  BY DEF IInv, LocalType
<1>5. LocalOK
  BY <1>1, <1>2, <1>3, <1>4, MovedBatch
<1> QED BY <1>5, LocalStep

LEMMA FindExactStep ==
    ASSUME IInv, FindExact
    PROVE  StepOK
<1> DEFINE E == Exact(batch.key, batch.goal[batch.key])
<1>1. batch.pc = "exact" /\ UNCHANGED <<workday, links, remote>> /\ batch \in BatchState
  BY DEF FindExact, At, IInv, LocalType
<1>2. CASE Stop("ambiguous")
  BY <1>1, <1>2, StopStep DEF Refusals
<1>3. CASE /\ batch' = [batch EXCEPT !.pc = "overlap",
                          !.target = IF E = {} THEN None ELSE CHOOSE r \in E : TRUE,
                          !.own = IF E = {} THEN "created" ELSE "adopted"]
           /\ UNCHANGED ops
  <2> DEFINE t == IF E = {} THEN None ELSE CHOOSE r \in E : TRUE
             o == IF E = {} THEN "created" ELSE "adopted"
  <2>1. t \in Rosters \cup {None} /\ o \in {"created", "adopted"}
    BY DEF Exact
  <2> HIDE DEF t, o
  <2>2. batch' = [batch EXCEPT !.pc = "overlap", !.target = t, !.own = o]
    BY <1>3 DEF t, o
  <2>3. /\ batch' \in BatchState /\ batch'.plan = batch.plan /\ batch'.goal = batch.goal
        /\ batch'.roster = batch.roster /\ batch'.key = batch.key /\ batch'.left = batch.left
        /\ batch'.pc = "overlap" /\ batch'.target = t /\ batch'.own = o
    BY <1>1, <2>1, <2>2 DEF BatchState, Requests
  <2>4. t # None => o = "adopted"
    BY DEF t, o
  <2> QED BY <1>1, <1>3, <2>3, <2>4, CreateGoesOn
<1> QED BY <1>1, <1>2, <1>3 DEF FindExact

LEMMA FindOverlapStep ==
    ASSUME IInv, FindOverlap
    PROVE  StepOK
<1>1. batch.pc = "overlap" /\ UNCHANGED <<workday, links, remote>> /\ batch \in BatchState
  BY DEF FindOverlap, At, IInv, LocalType
<1>2. CASE Stop("failed")
  BY <1>1, <1>2, StopStep DEF Refusals
<1>3. CASE /\ batch' = [batch EXCEPT !.pc = IF batch.target = None THEN "post" ELSE "readback",
                          !.sent = (batch.target = None)]
           /\ UNCHANGED ops
  <2>1. /\ batch' \in BatchState /\ batch'.plan = batch.plan /\ batch'.goal = batch.goal
        /\ batch'.roster = batch.roster /\ batch'.key = batch.key /\ batch'.left = batch.left
        /\ batch'.target = batch.target /\ batch'.own = batch.own
        /\ batch'.pc = IF batch.target = None THEN "post" ELSE "readback"
    BY <1>1, <1>3 DEF BatchState, Requests
  <2>2. batch.target # None => batch.target \in Rosters /\ batch.own = "adopted"
    BY <1>1 DEF BatchState, IInv, PlanInv
  <2> QED BY <1>1, <1>3, <2>1, <2>2, CreateGoesOn
<1> QED BY <1>1, <1>2, <1>3 DEF FindOverlap

\* A step of the operation changes Deputy and keeps the links.
LEMMA RemoteStep ==
    ASSUME IInv, RemoteOK, UNCHANGED links, LocalOK
    PROVE  StepOK
BY SameLinks DEF StepOK, RemoteOK

\* The operation stops after what it did to Deputy.
LEMMA StopAfter ==
    ASSUME IInv, RemoteOK, NEW s \in Refusals, Stop(s), UNCHANGED <<workday, links>>
    PROVE  StepOK
<1>1. LocalOK
  BY StoppedBatch
<1> QED BY <1>1, RemoteStep

\* The operation goes on after what it did to Deputy.
LEMMA GotoAfter ==
    ASSUME IInv, RemoteOK, NEW pc \in {"reconcile", "gone", "publishverify", "readback"}, Goto(pc),
           batch.pc \notin {"idle", "preflight", "next"},
           pc = "gone" => Kind = "delete",
           pc = "readback" => Kind = "update" /\ batch.target \in Rosters,
           pc = "publishverify" => Kind = "publish",
           UNCHANGED <<workday, links, ops>>
    PROVE  StepOK
<1>1. batch' = [batch EXCEPT !.pc = pc] /\ batch \in BatchState
  BY DEF Goto, IInv, LocalType
<1>2. /\ batch' \in BatchState /\ batch'.pc = pc
      /\ batch'.plan = batch.plan /\ batch'.goal = batch.goal /\ batch'.roster = batch.roster
      /\ batch'.key = batch.key /\ batch'.target = batch.target /\ batch'.own = batch.own
      /\ batch'.left = batch.left
  BY <1>1 DEF BatchState, Requests
<1>3. KindInv'
  BY <1>2 DEF IInv, KindInv, Kind
<1>4. ops' \in [Ops -> {"none", "verified"} \cup Active \cup Refusals] /\ links' \in [Keys -> Link]
  BY DEF IInv, LocalType
<1>5. pc \notin {"idle", "preflight", "next", "finish"}
  OBVIOUS
<1>6. LocalOK
  BY <1>2, <1>3, <1>4, <1>5, MovedBatch DEF RemoteOK
<1> QED BY <1>6, RemoteStep

LEMMA PostStep ==
    ASSUME IInv, Post
    PROVE  StepOK
<1>1. batch.pc = "post" /\ UNCHANGED <<workday, links>> /\ Kind = "create" /\ batch \in BatchState
  BY DEF Post, At, IInv, KindInv, LocalType
<1>2. ASSUME NEW r \in Rosters, Created(r), batch' = [batch EXCEPT !.pc = "readback", !.target = r],
             UNCHANGED ops
      PROVE  StepOK
  <2>1. RemoteOK /\ origin'[r] = "redeputy"
    BY <1>1, <1>2, CreatedRemote
  <2>2. /\ batch' \in BatchState /\ batch'.pc = "readback" /\ batch'.target = r
        /\ batch'.plan = batch.plan /\ batch'.goal = batch.goal /\ batch'.roster = batch.roster
        /\ batch'.key = batch.key /\ batch'.left = batch.left
    BY <1>1, <1>2 DEF BatchState, Requests
  <2>3. KindInv'
    BY <1>1, <2>2 DEF KindInv, Kind, Mutations
  <2>4. ops' \in [Ops -> {"none", "verified"} \cup Active \cup Refusals] /\ links' \in [Keys -> Link]
    BY <1>1, <1>2 DEF IInv, LocalType
  <2>5. LocalOK
    BY <1>1, <2>1, <2>2, <2>3, <2>4, MovedBatch DEF RemoteOK
  <2> QED BY <1>1, <2>1, <2>5, RemoteStep
<1>3. ASSUME NEW s \in Refusals, Stop(s), UNCHANGED remote
      PROVE  StepOK
  BY <1>1, <1>3, StopStep
<1>4. ASSUME NEW r \in Rosters, Created(r), NEW s \in Refusals, Stop(s)
      PROVE  StepOK
  BY <1>1, <1>4, CreatedRemote, StopAfter
<1>5. ASSUME NEW r \in Rosters, Created(r), Goto("reconcile"), UNCHANGED ops
      PROVE  StepOK
  <2>1. RemoteOK
    BY <1>1, <1>5, CreatedRemote
  <2> QED BY <1>1, <1>5, <2>1, GotoAfter
<1> QED BY <1>2, <1>3, <1>4, <1>5 DEF Post

\* The roster an update or a delete works on.
LEMMA TargetKnown ==
    ASSUME IInv, batch.pc \notin {"idle", "preflight", "next"}, Kind \in {"update", "delete"}
    PROVE  /\ batch.key \in Keys /\ Kind = batch.plan[batch.key]
           /\ batch.target \in Rosters
           /\ Kind = "delete" => origin[batch.target] = "redeputy"
           /\ Kind = "update" => batch.goal[batch.key] \in Versions /\ batch.target = links[batch.key].roster
BY KindKeys DEF IInv, PlanInv

LEMMA ReadStep ==
    ASSUME IInv, Read
    PROVE  StepOK
<1>1. batch.pc = "read" /\ UNCHANGED <<workday, links, remote>> /\ Kind \in {"update", "delete"}
  BY DEF Read, At, IInv, KindInv
<1>2. batch.target \in Rosters
  BY <1>1, TargetKnown
<1>3. CASE Stop("failed") \/ Stop("locked")
  BY <1>1, <1>3, StopStep DEF Refusals
<1>4. CASE Verified
  <2>1. LocalOK
    BY <1>1, <1>2, <1>4, VerifiedBatch DEF remote
  <2> QED BY <1>1, <2>1, LocalStep
<1>5. CASE Goto(IF Kind = "update" THEN "put" ELSE "delete") /\ UNCHANGED ops
  <2> DEFINE pc == IF Kind = "update" THEN "put" ELSE "delete"
  <2>1. pc \in {"put", "delete"} /\ (pc = "put" <=> Kind = "update")
    OBVIOUS
  <2>2. batch' = [batch EXCEPT !.pc = pc] /\ batch \in BatchState
    BY <1>5 DEF Goto, IInv, LocalType
  <2> HIDE DEF pc
  <2>3. batch'.pc = pc /\ Kind' = Kind
    BY <2>2 DEF BatchState, Kind
  <2>4. KindInv'
    BY <1>1, <2>1, <2>3 DEF KindInv, Mutations
  <2>5. pc \in Requests /\ Goto(pc)
    BY <1>5, <2>1 DEF Requests, pc
  <2>6. pc \notin {"overlap", "readback", "finish"} /\ batch.pc \notin {"idle", "preflight", "next"}
    BY <1>1, <2>1
  <2> QED BY <1>1, <1>5, <2>4, <2>5, <2>6, GotoStep
<1> QED BY <1>1, <1>3, <1>4, <1>5 DEF Read

LEMMA WriteStep ==
    ASSUME IInv, NEW v \in Versions \cup {None}, NEW then \in {"readback", "gone"},
           batch.pc \in {"put", "delete"}, Write(v, then),
           v = None => Kind = "delete",
           then = "gone" <=> Kind = "delete"
    PROVE  StepOK
<1>1. UNCHANGED <<workday, links>> /\ Kind \in {"update", "delete"}
  BY DEF Write, IInv, KindInv
<1>2. batch.target \in Rosters /\ (Kind = "delete" => origin[batch.target] = "redeputy")
  BY <1>1, TargetKnown
<1>3. Written(batch.target, v) => RemoteOK
  BY <1>2, WrittenRemote
<1>4. CASE Written(batch.target, v) /\ Goto(then) /\ UNCHANGED ops
  <2>1. RemoteOK
    BY <1>3, <1>4
  <2>2. (then = "gone" => Kind = "delete") /\ (then = "readback" => Kind = "update")
    BY <1>1
  <2> QED BY <1>1, <1>2, <1>4, <2>1, <2>2, GotoAfter
<1>5. ASSUME NEW s \in Refusals, Stop(s), UNCHANGED remote
      PROVE  StepOK
  BY <1>1, <1>5, StopStep
<1>6. ASSUME NEW s \in Refusals, Stop(s), Written(batch.target, v)
      PROVE  StepOK
  BY <1>1, <1>3, <1>6, StopAfter
<1>7. CASE Written(batch.target, v) /\ Goto("reconcile") /\ UNCHANGED ops
  <2>1. RemoteOK
    BY <1>3, <1>7
  <2> QED BY <1>1, <1>7, <2>1, GotoAfter
<1> QED BY <1>4, <1>5, <1>6, <1>7 DEF Write

LEMMA PutStep ==
    ASSUME IInv, Put
    PROVE  StepOK
<1>1. batch.pc = "put" /\ Kind = "update" /\ Write(batch.goal[batch.key], "readback")
  BY DEF Put, At, IInv, KindInv
<1>2. batch.goal[batch.key] \in Versions
  BY <1>1, TargetKnown
<1>3. batch.goal[batch.key] # None
  BY <1>2, DeputyWritesAssumption
<1> QED BY <1>1, <1>2, <1>3, WriteStep

LEMMA DeleteStep ==
    ASSUME IInv, Delete
    PROVE  StepOK
<1>1. batch.pc = "delete" /\ Kind = "delete" /\ Write(None, "gone")
  BY DEF Delete, At, IInv, KindInv
<1> QED BY <1>1, WriteStep

\* A saved link claims a roster as created only when it is this program's: a
\* create replaces the ownership, an update stays on the linked roster.
LEMMA SavedLink ==
    ASSUME IInv, OriginKept, NEW r \in Rosters, NEW own \in {"created", "adopted", "unconfirmed"},
           Kind \in {"create", "update"}, SaveLink(r, own),
           Kind = "create" /\ own = "created" => origin'[r] = "redeputy",
           Kind = "update" => r = links[batch.key].roster
    PROVE  /\ OwnershipIsCurrent' /\ links' \in [Keys -> Link]
           /\ \A k \in Keys : batch.plan[k] = "update" => links'[k].roster = links[k].roster
<1> DEFINE key == batch.key
           o == IF Kind = "create" THEN own ELSE links[key].own
<1>1. key \in Keys /\ Kind = batch.plan[key] /\ links \in [Keys -> Link]
      /\ batch.goal[key] \in Versions \cup {None}
  BY KindKeys DEF IInv, LocalType, BatchState
<1>2. links' = [links EXCEPT ![key] = [roster |-> r, own |-> o,
                                       hash |-> batch.goal[key], base |-> batch.goal[key]]]
  BY <1>1 DEF SaveLink
<1>3. o \in {"none", "created", "adopted", "unconfirmed"}
  BY <1>1 DEF Link
<1>4. o = "created" => origin'[r] = "redeputy"
  <2>1. CASE Kind = "create"
    BY <2>1
  <2>2. CASE Kind = "update"
    BY <1>1, <2>2, DeputyWritesAssumption DEF IInv, OwnershipIsCurrent, OriginKept, Rosters
  <2> QED BY <2>1, <2>2
<1> HIDE DEF o
<1>5. links' \in [Keys -> Link]
  BY <1>1, <1>2, <1>3 DEF Link
<1>6. \A k \in Keys : batch.plan[k] = "update" => links'[k].roster = links[k].roster
  BY <1>1, <1>2
<1>7. OwnershipIsCurrent'
  <2> SUFFICES ASSUME NEW k \in Keys, links'[k].own = "created", links'[k].roster # None
               PROVE  origin'[links'[k].roster] = "redeputy"
    BY DEF OwnershipIsCurrent
  <2>1. CASE k = key
    BY <1>1, <1>2, <1>4, <2>1
  <2>2. CASE k # key
    BY <1>1, <1>2, <2>2 DEF IInv, OwnershipIsCurrent, OriginKept, Link
  <2> QED BY <2>1, <2>2
<1> QED BY <1>5, <1>6, <1>7

LEMMA ReadBackStep ==
    ASSUME IInv, ReadBack
    PROVE  StepOK
<1>1. /\ batch.pc = "readback" /\ UNCHANGED <<workday, remote>> /\ Kind \in {"create", "update"}
      /\ batch.target \in Rosters /\ batch \in BatchState
  BY DEF ReadBack, At, IInv, KindInv, PlanInv, LocalType
<1>2. CASE Stop("unknown") /\ UNCHANGED links
  BY <1>1, <1>2, StopStep
<1>3. CASE SaveLink(batch.target, batch.own) /\ Goto("finish") /\ UNCHANGED ops
  <2>1. RemoteOK /\ OriginKept /\ UNCHANGED origin
    BY <1>1, SameRemote DEF RemoteOK, remote
  <2>2. Kind = "create" /\ batch.own = "created" => origin'[batch.target] = "redeputy"
    BY <1>1, <2>1 DEF IInv, PlanInv
  <2>3. Kind = "update" => batch.target = links[batch.key].roster
    BY <1>1, TargetKnown
  <2>4. batch.own \in {"created", "adopted"}
    BY <1>1 DEF BatchState
  <2>5. /\ OwnershipIsCurrent' /\ links' \in [Keys -> Link]
        /\ \A k \in Keys : batch.plan[k] = "update" => links'[k].roster = links[k].roster
    BY <1>1, <1>3, <2>1, <2>2, <2>3, <2>4, SavedLink
  <2>6. /\ batch' \in BatchState /\ batch'.pc = "finish"
        /\ batch'.plan = batch.plan /\ batch'.goal = batch.goal /\ batch'.roster = batch.roster
        /\ batch'.key = batch.key /\ batch'.target = batch.target /\ batch'.left = batch.left
    BY <1>1, <1>3 DEF Goto, BatchState
  <2>7. KindInv'
    BY <1>1, <2>6 DEF KindInv, Kind, Mutations
  <2>8. ops' \in [Ops -> {"none", "verified"} \cup Active \cup Refusals]
    BY <1>3 DEF IInv, LocalType
  <2>9. LocalOK
    BY <1>1, <2>1, <2>5, <2>6, <2>7, <2>8, MovedBatch
  <2> QED BY <2>1, <2>5, <2>9 DEF StepOK
<1> QED BY <1>1, <1>2, <1>3 DEF ReadBack

LEMMA ReadGoneStep ==
    ASSUME IInv, ReadGone
    PROVE  StepOK
<1>1. /\ batch.pc = "gone" /\ UNCHANGED <<workday, remote>> /\ Kind = "delete"
      /\ batch \in BatchState /\ links \in [Keys -> Link]
  BY DEF ReadGone, At, IInv, KindInv, LocalType
<1>2. CASE Stop("unknown") /\ UNCHANGED links
  BY <1>1, <1>2, StopStep
<1>3. CASE /\ links' = [links EXCEPT ![batch.key].roster = None, ![batch.key].base = None]
           /\ Goto("finish") /\ UNCHANGED ops
  <2>1. RemoteOK /\ OriginKept
    BY <1>1, SameRemote DEF RemoteOK
  <2>2. batch.key \in Keys /\ batch.plan[batch.key] = "delete" /\ batch.target \in Rosters
    BY <1>1, TargetKnown
  <2>3. links' \in [Keys -> Link]
    BY <1>1, <1>3, <2>2 DEF Link
  <2>4. \A k \in Keys : batch.plan[k] = "update" => links'[k].roster = links[k].roster
    BY <1>1, <1>3, <2>2
  <2>5. OwnershipIsCurrent'
    BY <1>1, <1>3, <2>1, <2>2 DEF IInv, OwnershipIsCurrent, OriginKept, Link
  <2>6. /\ batch' \in BatchState /\ batch'.pc = "finish"
        /\ batch'.plan = batch.plan /\ batch'.goal = batch.goal /\ batch'.roster = batch.roster
        /\ batch'.key = batch.key /\ batch'.target = batch.target /\ batch'.left = batch.left
    BY <1>1, <1>3 DEF Goto, BatchState
  <2>7. KindInv'
    BY <1>1, <2>6 DEF KindInv, Kind, Mutations
  <2>8. ops' \in [Ops -> {"none", "verified"} \cup Active \cup Refusals]
    BY <1>3 DEF IInv, LocalType
  <2>9. LocalOK
    BY <1>1, <2>1, <2>2, <2>3, <2>4, <2>6, <2>7, <2>8, MovedBatch
  <2> QED BY <2>1, <2>5, <2>9 DEF StepOK
<1> QED BY <1>1, <1>2, <1>3 DEF ReadGone

LEMMA FinishStep ==
    ASSUME IInv, Finish
    PROVE  StepOK
<1>1. /\ batch.pc = "finish" /\ UNCHANGED <<workday, links, remote, origin>> /\ Kind # "publish"
      /\ batch.target \in Rosters
  BY DEF Finish, At, IInv, KindInv, PlanInv, Mutations, remote
<1>2. LocalOK
  BY <1>1, VerifiedBatch DEF Finish
<1> QED BY <1>1, <1>2, LocalStep

\* A publish request stops or goes on.
LEMMA PublishReadStep ==
    ASSUME IInv, PublishRead
    PROVE  StepOK
<1>1. batch.pc = "publishread" /\ UNCHANGED <<workday, links, remote>> /\ batch \in BatchState
  BY DEF PublishRead, At, IInv, LocalType
<1>2. CASE Stop("unknown") \/ Stop("verified")
  BY <1>1, <1>2, StopStep
<1>3. CASE batch' = [batch EXCEPT !.pc = "publish", !.fresh = batch.ids \ published] /\ UNCHANGED ops
  <2>1. /\ batch' \in BatchState /\ batch'.pc = "publish"
        /\ batch'.plan = batch.plan /\ batch'.goal = batch.goal /\ batch'.roster = batch.roster
        /\ batch'.key = batch.key /\ batch'.target = batch.target /\ batch'.left = batch.left
    BY <1>1, <1>3 DEF BatchState, Requests
  <2>2. KindInv'
    BY <1>1, <2>1 DEF IInv, KindInv, Kind
  <2>3. OriginKept
    BY <1>1, SameRemote DEF RemoteOK
  <2>4. ops' \in [Ops -> {"none", "verified"} \cup Active \cup Refusals] /\ links' \in [Keys -> Link]
    BY <1>1, <1>3 DEF IInv, LocalType
  <2>5. LocalOK
    BY <1>1, <2>1, <2>2, <2>3, <2>4, MovedBatch
  <2> QED BY <1>1, <2>5, LocalStep
<1> QED BY <1>1, <1>2, <1>3 DEF PublishRead

LEMMA PublishPostStep ==
    ASSUME IInv, PublishPost
    PROVE  StepOK
<1>1. /\ batch.pc = "publish" /\ UNCHANGED <<workday, links>> /\ batch.fresh \subseteq Rosters
      /\ Kind = "publish"
  BY DEF PublishPost, At, IInv, LocalType, BatchState, KindInv
<1>2. Shown(batch.fresh) => RemoteOK
  BY <1>1, ShownRemote
<1>3. CASE Shown(batch.fresh) /\ (Goto("publishverify") \/ Goto("reconcile")) /\ UNCHANGED ops
  BY <1>1, <1>2, <1>3, GotoAfter
<1>4. ASSUME NEW s \in Refusals, Stop(s), UNCHANGED remote
      PROVE  StepOK
  BY <1>1, <1>4, StopStep
<1>5. ASSUME NEW s \in Refusals, Stop(s), Shown(batch.fresh)
      PROVE  StepOK
  BY <1>1, <1>2, <1>5, StopAfter
<1> QED BY <1>3, <1>4, <1>5 DEF PublishPost

LEMMA OperationStep ==
    ASSUME IInv, Operation
    PROVE  StepOK
<1>1. CASE PublishVerify
  BY <1>1, StopStep DEF PublishVerify
<1> QED BY <1>1, FindExactStep, FindOverlapStep, PostStep, ReadStep, PutStep, DeleteStep, ReadBackStep,
          ReadGoneStep, FinishStep, PublishReadStep, PublishPostStep DEF Operation

-----------------------------------------------------------------------------
(* Failures and what others do                                              *)

LEMMA RequestLostStep ==
    ASSUME IInv, RequestLost
    PROVE  StepOK
<1>1. batch.pc \in Requests /\ UNCHANGED <<workday, links, remote>>
  BY DEF RequestLost
<1>2. CASE Stop("unknown")
  BY <1>1, <1>2, StopStep
<1>3. CASE Goto("reconcile") /\ UNCHANGED ops
  <2>1. RemoteOK /\ batch.pc \notin {"idle", "preflight", "next"}
    BY <1>1, SameRemote DEF Requests
  <2> QED BY <1>1, <1>3, <2>1, GotoAfter
<1> QED BY <1>2, <1>3 DEF RequestLost

LEMMA ReconcileStep ==
    ASSUME IInv, Reconcile
    PROVE  StepOK
<1>1. batch.pc = "reconcile" /\ UNCHANGED <<workday, remote, origin>>
  BY DEF Reconcile, At, remote
<1>2. CASE UNCHANGED links /\ \E s \in Refusals \cup {"unknown", "verified"} : Stop(s)
  BY <1>1, <1>2, StopStep
<1>3. ASSUME Kind = "create", NEW r \in Rosters, SaveLink(r, "unconfirmed"), Stop("unknown")
      PROVE  StepOK
  <2>1. RemoteOK /\ OriginKept
    BY <1>1, SameRemote DEF RemoteOK
  <2>2. OwnershipIsCurrent' /\ links' \in [Keys -> Link]
    BY <1>3, <2>1, SavedLink
  <2>3. batch' = NoBatch /\ ops' \in [Ops -> {"none", "verified"} \cup Active \cup Refusals]
    BY <1>3 DEF Stop, IInv, LocalType, Active
  <2>4. NoBatch.pc = "idle" /\ \A k \in Keys : NoBatch.plan[k] = "none"
    BY DEF NoBatch
  <2>5. LocalType'
    BY <1>1, <2>2, <2>3, NoBatchType DEF IInv, LocalType
  <2>6. KindInv'
    BY <2>3, <2>4 DEF KindInv
  <2>7. PlanInv'
    <3>1. NoBatch.left = {}
      BY DEF NoBatch
    <3> QED BY <2>3, <2>4, <3>1 DEF PlanInv
  <2> QED BY <2>1, <2>2, <2>5, <2>6, <2>7 DEF StepOK, LocalOK
<1>4. CASE Verified /\ UNCHANGED links /\ Reconciled /\ Kind \notin {"create", "publish"}
  <2>1. batch.target \in Rosters
    BY <1>1, <1>4, TargetKnown DEF IInv, KindInv, Mutations
  <2>2. LocalOK
    BY <1>1, <1>4, <2>1, VerifiedBatch
  <2> QED BY <1>1, <1>4, <2>2, LocalStep
<1>5. CASE Kind = "create"
  <2>1. CASE Cardinality(Exact(batch.key, batch.goal[batch.key])) = 1
    <3>1. PICK r \in Rosters : SaveLink(r, "unconfirmed") /\ Stop("unknown")
      BY <1>5, <2>1 DEF Reconcile, ReconcileCreate, Exact
    <3> QED BY <1>3, <1>5, <3>1
  <2>2. CASE Cardinality(Exact(batch.key, batch.goal[batch.key])) # 1
    BY <1>2, <1>5, <2>2 DEF Reconcile, ReconcileCreate, Refusals
  <2> QED BY <2>1, <2>2
<1>6. CASE Kind # "create"
  BY <1>2, <1>4, <1>6 DEF Reconcile
<1> QED BY <1>5, <1>6

LEMMA FailureStep ==
    ASSUME IInv, Failure
    PROVE  StepOK
<1>1. CASE ReadFails
  BY <1>1, StopStep DEF ReadFails, Refusals
<1>2. CASE ReconcileFails
  <2>1. CASE Stop("unknown")
    BY <1>2, <2>1, StopStep DEF ReconcileFails
  <2>2. CASE batch' = NoBatch /\ UNCHANGED ops
    BY <1>2, <2>2, DropStep DEF ReconcileFails
  <2> QED BY <1>2, <2>1, <2>2 DEF ReconcileFails
<1>3. CASE Crash
  BY <1>3, DropStep DEF Crash
<1> QED BY <1>1, <1>2, <1>3, RequestLostStep, ReconcileStep DEF Failure

\* A step of others, between or during the requests of a batch.
LEMMA OutsideStep ==
    ASSUME IInv, Outside
    PROVE  StepOK
<1>1. ASSUME NEW k \in Keys, NEW v \in Versions \cup {None}, WorkdayChanges(k, v)
      PROVE  StepOK
  <2>1. workday' \in [Keys -> Versions \cup {None}] /\ UNCHANGED <<links, ops, batch, remote, origin>>
    BY <1>1 DEF WorkdayChanges, IInv, LocalType, remote
  <2>2. LocalOK
    BY <2>1 DEF LocalOK, IInv, LocalType, KindInv, PlanInv, Kind
  <2> QED BY <2>1, <2>2, LocalStep
<1>2. ASSUME UNCHANGED local, RemoteOK
      PROVE  StepOK
  <2>1. LocalType' /\ KindInv'
    BY <1>2 DEF IInv, local, LocalType, KindInv, Kind
  <2>2. PlanInv'
    BY <1>2 DEF IInv, local, LocalType, BatchState, PlanInv, Kind, RemoteOK, OriginKept
  <2> QED BY <1>2, <2>1, <2>2, RemoteStep DEF LocalOK, local
<1>3. ASSUME NEW r \in Rosters, NEW v \in Shifts, OutsideAdds(r, v)
      PROVE  StepOK
  BY <1>2, <1>3 DEF OutsideAdds, IInv, RemoteType, RemoteOK, OriginKept, DeleteAuthority
<1>4. ASSUME NEW r \in Rosters, NEW v \in Shifts, OutsideEdits(r, v)
      PROVE  StepOK
  BY <1>2, <1>4 DEF OutsideEdits, IInv, RemoteType, RemoteOK, OriginKept, DeleteAuthority
<1>5. ASSUME NEW r \in Rosters, OutsideRemoves(r)
      PROVE  StepOK
  BY <1>2, <1>5 DEF OutsideRemoves, IInv, RemoteType, RemoteOK, OriginKept, DeleteAuthority
<1>6. ASSUME NEW r \in Rosters, TimesheetLocks(r)
      PROVE  StepOK
  BY <1>2, <1>6 DEF TimesheetLocks, IInv, RemoteType, RemoteOK, OriginKept, DeleteAuthority
<1> QED BY <1>1, <1>3, <1>4, <1>5, <1>6 DEF Outside

-----------------------------------------------------------------------------
(* Theorems                                                                 *)

LEMMA InitIInv == Init => IInv
<1> SUFFICES ASSUME Init PROVE IInv
  OBVIOUS
<1>1. \A k \in Keys : links[k] = NoLink
  BY DEF Init
<1>2. LocalType
  BY NoBatchType DEF Init, LocalType, Link, NoLink
<1>3. RemoteType
  BY DEF Init, RemoteType
<1>4. KindInv
  BY DEF Init, NoBatch, KindInv
<1>5. PlanInv
  BY DEF Init, NoBatch, PlanInv
<1>6. OwnershipIsCurrent /\ DeleteAuthority
  BY <1>1 DEF Init, NoLink, OwnershipIsCurrent, DeleteAuthority
<1> QED BY <1>2, <1>3, <1>4, <1>5, <1>6 DEF IInv

LEMMA NextIInv == IInv /\ [Next]_vars => IInv'
<1> SUFFICES ASSUME IInv, [Next]_vars PROVE IInv'
  OBVIOUS
<1>1. CASE Next
  <2>1. StepOK
    BY <1>1, BatchStep, OperationStep, FailureStep, OutsideStep DEF Next
  <2> QED BY <2>1 DEF StepOK, LocalOK, RemoteOK, IInv
<1>2. CASE UNCHANGED vars
  BY <1>2 DEF vars, local, remote, IInv, LocalType, RemoteType, KindInv, PlanInv, Kind,
              OwnershipIsCurrent, DeleteAuthority
<1> QED BY <1>1, <1>2

\* Every reachable state satisfies the inductive invariant: what the running
\* batch of execute_trial_batch believes about provenance is true of Deputy.
THEOREM Inductive == Spec => []IInv
BY InitIInv, NextIInv, PTL DEF Spec

\* The tables, the batch and Deputy stay well typed.
THEOREM TypeCorrect == Spec => []TypeOK
<1>1. IInv => TypeOK
  BY DEF IInv, LocalType, RemoteType, TypeOK
<1> QED BY <1>1, Inductive, PTL

\* A link that says "created" names a roster this program's POST created:
\* _save_roster_link never leaves stale ownership on a new binding, whatever
\* is lost, refused, edited or restarted.
THEOREM Ownership == Spec => []OwnershipIsCurrent
<1>1. IInv => OwnershipIsCurrent
  BY DEF IInv
<1> QED BY <1>1, Inductive, PTL

\* No DELETE of this program ever removes a roster it did not create.
THEOREM OnlyOwnDeleted == Spec => []DeleteAuthority
<1>1. IInv => DeleteAuthority
  BY DEF IInv
<1> QED BY <1>1, Inductive, PTL

-----------------------------------------------------------------------------
(* What each step is to the running batch                                   *)

\* Outside the requests of an operation.
Between == {"idle", "preflight", "next"}

PublishSteps == {"publishread", "publish", "publishverify"}

\* The running operation goes on: only its own row, and the link of an
\* assignment it changes, may differ.
Moved ==
    /\ batch.pc \notin Between /\ batch'.pc \notin Between
    /\ batch'.plan = batch.plan /\ batch'.goal = batch.goal /\ batch'.roster = batch.roster
    /\ batch'.left = batch.left /\ batch'.key = batch.key
    /\ \A k \in Keys : k # batch.key => ops'[k] = ops[k]
    /\ \A k \in Keys : batch.plan[k] = "unchanged" => links'[k] = links[k]
    /\ batch'.pc \in PublishSteps => Kind = "publish"

\* The running operation is verified.
Done == Verified /\ UNCHANGED links /\ batch.key \in Keys /\ batch.pc \notin Between

\* Every step leaves the batch alone, ends it, moves or completes its running
\* operation, or is one between two operations.
Course ==
    \/ UNCHANGED <<batch, links, ops>>
    \/ batch' = NoBatch
    \/ Moved
    \/ Done
    \/ BatchBegins \/ (\E k \in Keys : PreflightPasses(k)) \/ PreflightEnds \/ Prepare

LEMMA StopCourse ==
    ASSUME NEW s, Stop(s)
    PROVE  Course
BY DEF Stop, Course

LEMMA GotoMoved ==
    ASSUME IInv, NEW pc, Goto(pc), batch.pc \notin Between, pc \notin Between,
           UNCHANGED ops, \A k \in Keys : batch.plan[k] = "unchanged" => links'[k] = links[k],
           pc \in PublishSteps => Kind = "publish"
    PROVE  Course
<1>1. batch' = [batch EXCEPT !.pc = pc] /\ batch \in BatchState
  BY DEF Goto, IInv, LocalType
<1>2. /\ batch'.pc = pc /\ batch'.plan = batch.plan /\ batch'.goal = batch.goal
      /\ batch'.roster = batch.roster /\ batch'.left = batch.left /\ batch'.key = batch.key
  BY <1>1 DEF BatchState
<1> QED BY <1>2 DEF Course, Moved

LEMMA BatchCourse ==
    ASSUME IInv, Batch
    PROVE  Course
<1>1. CASE PreflightBlocks \/ PrepareRaises
  BY <1>1 DEF PreflightBlocks, PrepareRaises, Course
<1>2. CASE ExecuteNotReady
  BY <1>2, StopCourse DEF ExecuteNotReady, Course
<1>3. CASE Execute
  <2>1. /\ UNCHANGED links /\ batch.pc = "execute" /\ batch \in BatchState
        /\ Kind \in Mutations \cup {"publish"}
    BY <1>3 DEF Execute, At, IInv, LocalType, KindInv
  <2>2. CASE Stop("failed")
    BY <2>2, StopCourse
  <2>3. CASE /\ ops' = [ops EXCEPT ![batch.key] = "sending"]
             /\ Goto(CASE Kind = "create" -> "exact"
                       [] Kind \in {"update", "delete"} -> "read"
                       [] Kind = "publish" -> "publishread")
    <3> DEFINE pc == CASE Kind = "create" -> "exact"
                       [] Kind \in {"update", "delete"} -> "read"
                       [] Kind = "publish" -> "publishread"
    <3>1. pc \in {"exact", "read", "publishread"} /\ (pc = "publishread" => Kind = "publish")
      BY <2>1 DEF Mutations
    <3>2. batch' = [batch EXCEPT !.pc = pc]
      BY <2>3 DEF Goto
    <3> HIDE DEF pc
    <3>3. /\ batch'.pc = pc /\ batch'.plan = batch.plan /\ batch'.goal = batch.goal
          /\ batch'.roster = batch.roster /\ batch'.left = batch.left /\ batch'.key = batch.key
      BY <2>1, <3>2 DEF BatchState
    <3>4. \A k \in Keys : k # batch.key => ops'[k] = ops[k]
      BY <2>3 DEF IInv, LocalType, Ops
    <3> QED BY <2>1, <3>1, <3>3, <3>4 DEF Course, Moved, Between, PublishSteps
  <2> QED BY <1>3, <2>2, <2>3 DEF Execute
<1> QED BY <1>1, <1>2, <1>3 DEF Batch, Course

LEMMA SaveLinkElsewhere ==
    ASSUME IInv, NEW r, NEW own, SaveLink(r, own), Kind \in {"create", "update"}
    PROVE  \A k \in Keys : batch.plan[k] = "unchanged" => links'[k] = links[k]
BY KindKeys DEF SaveLink, IInv, LocalType

LEMMA OperationCourse ==
    ASSUME IInv, Operation
    PROVE  Course
<1>0. batch \in BatchState
  BY DEF IInv, LocalType
<1>1. CASE FindExact
  <2>1. batch.pc = "exact" /\ UNCHANGED links
    BY <1>1 DEF FindExact, At
  <2>2. CASE Stop("ambiguous")
    BY <2>2, StopCourse
  <2>3. ASSUME UNCHANGED ops, NEW t, NEW o,
               batch' = [batch EXCEPT !.pc = "overlap", !.target = t, !.own = o]
        PROVE  Course
    BY <1>0, <2>1, <2>3 DEF BatchState, Course, Moved, Between, PublishSteps
  <2> QED BY <1>1, <2>2, <2>3 DEF FindExact
<1>2. CASE FindOverlap
  <2>1. batch.pc = "overlap" /\ UNCHANGED links
    BY <1>2 DEF FindOverlap, At
  <2>2. CASE Stop("failed")
    BY <2>2, StopCourse
  <2>3. ASSUME UNCHANGED ops, NEW t, NEW pc \in {"post", "readback"},
               batch' = [batch EXCEPT !.pc = pc, !.sent = t]
        PROVE  Course
    BY <1>0, <2>1, <2>3 DEF BatchState, Course, Moved, Between, PublishSteps
  <2> QED BY <1>2, <2>2, <2>3 DEF FindOverlap
<1>3. CASE Post
  <2>1. batch.pc = "post" /\ UNCHANGED links
    BY <1>3 DEF Post, At
  <2>2. ASSUME UNCHANGED ops, NEW t, batch' = [batch EXCEPT !.pc = "readback", !.target = t]
        PROVE  Course
    BY <1>0, <2>1, <2>2 DEF BatchState, Course, Moved, Between, PublishSteps
  <2>3. CASE Goto("reconcile") /\ UNCHANGED ops
    BY <2>1, <2>3, GotoMoved DEF Between, PublishSteps
  <2> QED BY <1>3, <2>2, <2>3, StopCourse DEF Post
<1>4. CASE Read
  <2>1. batch.pc = "read" /\ UNCHANGED links /\ Kind \in {"update", "delete"}
    BY <1>4 DEF Read, At, IInv, KindInv
  <2>2. CASE Verified
    BY <2>1, <2>2, TargetKnown DEF Course, Done, Between
  <2>3. ASSUME NEW pc \in {"put", "delete"}, Goto(pc), UNCHANGED ops
        PROVE  Course
    BY <2>1, <2>3, GotoMoved DEF Between, PublishSteps
  <2> QED BY <1>4, <2>2, <2>3, StopCourse DEF Read
<1>5. ASSUME NEW v, NEW then \in {"readback", "gone"}, Write(v, then), batch.pc \in {"put", "delete"}
      PROVE  Course
  <2>1. ASSUME NEW pc \in {"readback", "gone", "reconcile"}, Goto(pc), UNCHANGED ops
        PROVE  Course
    BY <1>5, <2>1, GotoMoved DEF Between, PublishSteps, Write
  <2> QED BY <1>5, <2>1, StopCourse DEF Write
<1>6. CASE ReadBack
  <2>1. batch.pc = "readback" /\ Kind \in {"create", "update"}
    BY <1>6 DEF ReadBack, At, IInv, KindInv
  <2>2. CASE SaveLink(batch.target, batch.own) /\ Goto("finish") /\ UNCHANGED ops
    <3>1. \A k \in Keys : batch.plan[k] = "unchanged" => links'[k] = links[k]
      BY <2>1, <2>2, SaveLinkElsewhere
    <3> QED BY <2>1, <2>2, <3>1, GotoMoved DEF Between, PublishSteps
  <2> QED BY <1>6, <2>2, StopCourse DEF ReadBack
<1>7. CASE ReadGone
  <2>1. batch.pc = "gone" /\ Kind = "delete"
    BY <1>7 DEF ReadGone, At, IInv, KindInv
  <2>2. CASE /\ links' = [links EXCEPT ![batch.key].roster = None, ![batch.key].base = None]
             /\ Goto("finish") /\ UNCHANGED ops
    <3>1. \A k \in Keys : batch.plan[k] = "unchanged" => links'[k] = links[k]
      BY <2>1, <2>2, KindKeys DEF IInv, LocalType
    <3> QED BY <2>1, <2>2, <3>1, GotoMoved DEF Between, PublishSteps
  <2> QED BY <1>7, <2>2, StopCourse DEF ReadGone
<1>8. CASE Finish
  <2>1. batch.pc = "finish" /\ UNCHANGED links /\ Kind # "publish"
    BY <1>8 DEF Finish, At, IInv, KindInv, Mutations
  <2> QED BY <1>8, <2>1, KindKeys DEF Finish, IInv, Course, Done, Between
<1>9. CASE PublishRead
  <2>1. batch.pc = "publishread" /\ UNCHANGED links
    BY <1>9 DEF PublishRead, At
  <2>2. ASSUME UNCHANGED ops, NEW f, batch' = [batch EXCEPT !.pc = "publish", !.fresh = f],
               Kind = "publish"
        PROVE  Course
    BY <1>0, <2>1, <2>2 DEF BatchState, Course, Moved, Between, PublishSteps
  <2>3. Kind = "publish"
    BY <2>1 DEF IInv, KindInv
  <2> QED BY <1>9, <2>2, <2>3, StopCourse DEF PublishRead
<1>10. CASE PublishPost
  <2>1. batch.pc = "publish" /\ UNCHANGED links
    BY <1>10 DEF PublishPost, At
  <2>2. ASSUME NEW pc \in {"publishverify", "reconcile"}, Goto(pc), UNCHANGED ops
        PROVE  Course
    BY <2>1, <2>2, GotoMoved DEF Between, IInv, KindInv
  <2> QED BY <1>10, <2>2, StopCourse DEF PublishPost
<1>11. CASE PublishVerify
  BY <1>11, StopCourse DEF PublishVerify
<1> QED BY <1>1, <1>2, <1>3, <1>4, <1>5, <1>6, <1>7, <1>8, <1>9, <1>10, <1>11 DEF Operation, Put, Delete, At

LEMMA FailureCourse ==
    ASSUME IInv, Failure
    PROVE  Course
<1>1. CASE RequestLost
  <2>1. batch.pc \in Requests /\ UNCHANGED links
    BY <1>1 DEF RequestLost
  <2>2. CASE Goto("reconcile") /\ UNCHANGED ops
    BY <2>1, <2>2, GotoMoved DEF Between, PublishSteps, Requests
  <2> QED BY <1>1, <2>2, StopCourse DEF RequestLost
<1>2. CASE ReadFails
  BY <1>2, StopCourse DEF ReadFails
<1>3. CASE Reconcile
  <2>1. batch.pc = "reconcile" /\ Kind \in Mutations \cup {"publish"}
    BY <1>3 DEF Reconcile, At, IInv, KindInv
  <2>2. CASE Kind = "create"
    BY <1>3, <2>2, StopCourse DEF Reconcile, ReconcileCreate
  <2>3. CASE Kind # "create" /\ Verified /\ UNCHANGED links /\ Kind # "publish"
    BY <2>1, <2>3, TargetKnown DEF Course, Done, Between, Mutations
  <2> QED BY <1>3, <2>2, <2>3, StopCourse DEF Reconcile
<1>4. CASE ReconcileFails
  BY <1>4, StopCourse DEF ReconcileFails, Course
<1>5. CASE Crash
  BY <1>5 DEF Crash, Course
<1> QED BY <1>1, <1>2, <1>3, <1>4, <1>5 DEF Failure

LEMMA OutsideCourse == Outside => Course
BY DEF Outside, Course, local, WorkdayChanges, OutsideAdds, OutsideEdits, OutsideRemoves,
       TimesheetLocks

LEMMA NextCourse ==
    ASSUME IInv, [Next]_vars
    PROVE  Course
<1>1. CASE UNCHANGED vars
  BY <1>1 DEF vars, local, Course
<1> QED BY <1>1, BatchCourse, OperationCourse, FailureCourse, OutsideCourse DEF Next

-----------------------------------------------------------------------------
(* Nothing is published before every intended mutation is verified          *)

\* What a batch has achieved: a mutation of the plan is still to be run or
\* verified, an unchanged assignment has its verified link, the running
\* operation is one of those to be run, and only when none is left it is the
\* publish operation.
BatchProgress ==
    /\ batch.pc = "preflight" =>
          \A k \in Keys : batch.plan[k] = "unchanged" => links[k].hash = batch.goal[k]
    /\ batch.pc \notin {"idle", "preflight"} =>
          \A k \in Keys :
             /\ batch.plan[k] \in Mutations => k \in batch.left \/ ops[k] = "verified"
             /\ batch.plan[k] = "unchanged" =>
                   batch.roster[k] # None /\ links[k].hash = batch.goal[k]
    /\ batch.pc \notin Between =>
          /\ batch.key = Publish => batch.left = {}
          /\ batch.key # Publish => batch.key \in batch.left

LEMMA CourseProgress ==
    ASSUME IInv, BatchProgress, Course
    PROVE  BatchProgress'
<1>0. batch \in BatchState /\ links \in [Keys -> Link] /\ DOMAIN ops = Ops
  BY DEF IInv, LocalType
<1>1. CASE UNCHANGED <<batch, links, ops>>
  BY <1>1 DEF BatchProgress
<1>2. CASE batch' = NoBatch
  <2>1. batch'.pc = "idle"
    BY <1>2 DEF NoBatch
  <2> QED BY <2>1 DEF BatchProgress, Between
<1>3. CASE Moved
  <2>1. batch'.pc \notin {"idle", "preflight"} /\ batch.pc \notin {"idle", "preflight"}
    BY <1>3 DEF Moved, Between
  <2>2. ASSUME NEW k \in Keys, batch.plan[k] \in Mutations
        PROVE  k \in batch.left \/ ops'[k] = "verified"
    <3>1. CASE k = batch.key
      BY <1>3, <3>1, DeputyWritesAssumption DEF Moved, BatchProgress
    <3>2. CASE k # batch.key
      BY <1>3, <2>1, <2>2, <3>2 DEF Moved, BatchProgress
    <3> QED BY <3>1, <3>2
  <2> QED BY <1>3, <2>1, <2>2 DEF Moved, BatchProgress
<1>4. CASE Done
  <2>1. /\ batch'.pc = "next" /\ batch'.plan = batch.plan /\ batch'.goal = batch.goal
        /\ batch'.roster = batch.roster /\ batch'.left = batch.left \ {batch.key}
    BY <1>0, <1>4 DEF Done, Verified, BatchState
  <2>2. \A k \in Keys : ops'[k] = IF k = batch.key THEN "verified" ELSE ops[k]
    BY <1>0, <1>4 DEF Done, Verified, Ops
  <2>3. batch.pc \notin {"idle", "preflight"} /\ UNCHANGED links
    BY <1>4 DEF Done, Between
  <2> QED BY <2>1, <2>2, <2>3 DEF BatchProgress, Between
<1>5. CASE BatchBegins
  <2>1. /\ batch'.pc = "preflight" /\ batch'.plan = [k \in Keys |-> Planned(k)]
        /\ batch'.goal = workday /\ UNCHANGED links
    BY <1>5 DEF BatchBegins, NoBatch
  <2>2. \A k \in Keys : Planned(k) = "unchanged" => links[k].hash = workday[k]
    BY DEF Planned
  <2> QED BY <2>1, <2>2 DEF BatchProgress, Between
<1>6. ASSUME NEW k \in Keys, PreflightPasses(k)
      PROVE  BatchProgress'
  <2>1. /\ batch'.pc = "preflight" /\ batch.pc = "preflight" /\ batch'.plan = batch.plan
        /\ batch'.goal = batch.goal /\ UNCHANGED links
    BY <1>0, <1>6 DEF PreflightPasses, At, BatchState
  <2> QED BY <2>1 DEF BatchProgress, Between
<1>7. CASE PreflightEnds
  <2>1. /\ batch'.pc = "next" /\ batch.pc = "preflight" /\ batch'.plan = batch.plan
        /\ batch'.goal = batch.goal /\ batch'.roster = batch.roster
        /\ batch'.left = {k \in Keys : batch.plan[k] \in Mutations} /\ batch.left = {}
        /\ UNCHANGED links
    BY <1>0, <1>7 DEF PreflightEnds, At, BatchState
  <2>2. \A k \in Keys : batch.plan[k] = "unchanged" => batch.roster[k] # None
    BY <2>1, DeputyWritesAssumption DEF IInv, PlanInv, Rosters
  <2> QED BY <2>1, <2>2 DEF BatchProgress, Between
<1>8. CASE Prepare
  <2>1. batch.pc = "next" /\ UNCHANGED links
    BY <1>8 DEF Prepare, At
  <2>2. PICK k \in NextKeys :
          /\ ops' = [ops EXCEPT ![k] = "prepared"]
          /\ batch' = [batch EXCEPT !.pc = "execute", !.key = k, !.own = "created", !.sent = FALSE,
                         !.target = IF k = Publish THEN None ELSE batch.roster[k]]
    BY <1>8 DEF Prepare
  <2>3. (k = Publish => batch.left = {}) /\ (k # Publish => k \in batch.left)
    BY <1>0, DeputyWritesAssumption DEF NextKeys, BatchState
  <2>4. /\ batch'.pc = "execute" /\ batch'.key = k /\ batch'.plan = batch.plan
        /\ batch'.goal = batch.goal /\ batch'.roster = batch.roster /\ batch'.left = batch.left
    BY <1>0, <2>2 DEF BatchState
  <2>5. \A h \in Keys : h # k => ops'[h] = ops[h]
    BY <1>0, <2>2 DEF Ops
  <2>6. ASSUME NEW h \in Keys, batch.plan[h] \in Mutations
        PROVE  h \in batch.left \/ ops'[h] = "verified"
    <3>1. CASE h = k
      BY <2>3, <3>1, DeputyWritesAssumption
    <3>2. CASE h # k
      BY <2>1, <2>5, <2>6, <3>2 DEF BatchProgress
    <3> QED BY <3>1, <3>2
  <2> QED BY <2>1, <2>3, <2>4, <2>6 DEF BatchProgress, Between
<1> QED BY <1>1, <1>2, <1>3, <1>4, <1>5, <1>6, <1>7, <1>8 DEF Course

LEMMA ProgressPublishes ==
    ASSUME IInv, BatchProgress
    PROVE  PublishAfterAll
<1> SUFFICES ASSUME batch.pc \in {"publishread", "publish", "publishverify"}
             PROVE  \A k \in Keys :
                      /\ batch.plan[k] \in Mutations => ops[k] = "verified"
                      /\ batch.plan[k] = "unchanged" =>
                            batch.roster[k] # None /\ links[k].hash = batch.goal[k]
  BY DEF PublishAfterAll
<1>1. batch.key = Publish
  BY DEF IInv, LocalType, BatchState, KindInv, Kind, Ops, Mutations
<1> QED BY <1>1 DEF BatchProgress, Between

\* "A batch publishes only after every intended mutation is verified": while
\* execute_trial_batch runs its publish operation, every mutation of the plan
\* ended verified and every unchanged assignment kept its verified link,
\* whatever faults, outside edits or restarts came before.
THEOREM PublishesLast == Spec => []PublishAfterAll
<1>1. Init => BatchProgress
  BY DEF Init, NoBatch, BatchProgress, Between
<1>2. IInv /\ BatchProgress /\ [Next]_vars => BatchProgress'
  BY NextCourse, CourseProgress
<1>3. Spec => []BatchProgress
  BY <1>1, <1>2, Inductive, PTL DEF Spec
<1>4. IInv /\ BatchProgress => PublishAfterAll
  BY ProgressPublishes
<1> QED BY <1>3, <1>4, Inductive, PTL

-----------------------------------------------------------------------------
(* Retries leave no second shift                                            *)

\* A roster this program created and nobody else edited.
Untouched(r) == origin[r] = "redeputy" /\ r \notin touched

\* What this program's rosters hold, and what a create has learnt of them
\* before it posts: none equals the shift it wants, then none is left at all.
\* Others may edit, add or remove rosters between its requests, but nobody
\* else makes one of these.
OwnInv ==
    /\ \A r \in Rosters : Untouched(r) => deputy[r] \in Versions \cup {None}
    /\ \A k \in Keys : batch.plan[k] = "create" => batch.goal[k] \in Versions
    /\ (batch.pc = "overlap" /\ batch.target = None) =>
          \A r \in Rosters : (Untouched(r) /\ r[1] = batch.key) => deputy[r] # batch.goal[batch.key]
    /\ batch.pc = "post" =>
          \A r \in Rosters : (Untouched(r) /\ r[1] = batch.key) => deputy[r] = None

\* No roster of this program gets another shift.
Quiet ==
    \A r \in Rosters :
        Untouched(r)' => deputy'[r] = None \/ (Untouched(r) /\ deputy'[r] = deputy[r])

\* The running operation writes its roster.
Writes ==
    /\ batch.target \in Rosters /\ \E v \in Versions \cup {None} : Written(batch.target, v)
    /\ batch'.pc \notin {"overlap", "post"}

\* The running operation posts a roster.
Posts == At("post") /\ (\E r \in Rosters : Created(r)) /\ batch'.pc \notin {"overlap", "post"}

\* What a step does to Deputy's rosters, and to a create's search of them.
Making ==
    \/ Quiet /\ (batch'.pc \in {"overlap", "post"} => UNCHANGED batch)
    \/ UNCHANGED remote /\ (FindExact \/ FindOverlap)
    \/ Writes
    \/ Posts

LEMMA QuietRemote ==
    ASSUME UNCHANGED remote
    PROVE  Quiet
BY DEF remote, Quiet, Untouched

LEMMA StopElsewhere ==
    ASSUME NEW s, Stop(s)
    PROVE  batch'.pc \notin {"overlap", "post"}
BY DEF Stop, NoBatch

LEMMA GotoElsewhere ==
    ASSUME IInv, NEW pc, Goto(pc), pc \notin {"overlap", "post"}
    PROVE  batch'.pc \notin {"overlap", "post"}
BY DEF Goto, IInv, LocalType, BatchState

LEMMA LocalMaking ==
    ASSUME IInv, UNCHANGED remote, batch'.pc \notin {"overlap", "post"}
    PROVE  Making
BY QuietRemote DEF Making

LEMMA BatchMaking ==
    ASSUME IInv, Batch
    PROVE  Making
<1>0. batch \in BatchState
  BY DEF IInv, LocalType
<1>1. UNCHANGED remote
  BY DEF Batch, BatchBegins, PreflightPasses, PreflightBlocks, PreflightEnds, Prepare, PrepareRaises,
         Execute, ExecuteNotReady
<1>2. CASE Execute
  <2>1. Kind \in Mutations \cup {"publish"}
    BY <1>2 DEF Execute, At, IInv, KindInv
  <2>2. CASE Goto(CASE Kind = "create" -> "exact"
                    [] Kind \in {"update", "delete"} -> "read"
                    [] Kind = "publish" -> "publishread")
    <3>1. (CASE Kind = "create" -> "exact"
             [] Kind \in {"update", "delete"} -> "read"
             [] Kind = "publish" -> "publishread") \in {"exact", "read", "publishread"}
      BY <2>1 DEF Mutations
    <3> QED BY <1>1, <2>2, <3>1, GotoElsewhere, LocalMaking
  <2> QED BY <1>1, <1>2, <2>2, StopElsewhere, LocalMaking DEF Execute
<1>3. CASE ~Execute
  <2>1. ASSUME PreflightBlocks \/ PrepareRaises \/ ExecuteNotReady
        PROVE  batch'.pc \notin {"overlap", "post"}
    BY <2>1, StopElsewhere DEF PreflightBlocks, PrepareRaises, ExecuteNotReady, NoBatch
  <2>2. ASSUME BatchBegins
        PROVE  batch'.pc \notin {"overlap", "post"}
    BY <2>2 DEF BatchBegins, NoBatch
  <2>3. ASSUME (\E k \in Keys : PreflightPasses(k)) \/ PreflightEnds
        PROVE  batch'.pc \notin {"overlap", "post"}
    BY <1>0, <2>3 DEF PreflightPasses, PreflightEnds, At, BatchState
  <2>4. ASSUME Prepare
        PROVE  batch'.pc \notin {"overlap", "post"}
    BY <1>0, <2>4 DEF Prepare, BatchState
  <2>5. batch'.pc \notin {"overlap", "post"}
    BY <1>3, <2>1, <2>2, <2>3, <2>4 DEF Batch
  <2> QED BY <1>1, <2>5, LocalMaking
<1> QED BY <1>2, <1>3

LEMMA WriteMaking ==
    ASSUME IInv, batch.pc \in {"put", "delete"}, NEW v \in Versions \cup {None},
           NEW then \in {"readback", "gone"}, Write(v, then)
    PROVE  Making
<1>1. batch.target \in Rosters
  BY TargetKnown DEF IInv, KindInv
<1>2. batch'.pc \notin {"overlap", "post"}
  BY StopElsewhere, GotoElsewhere DEF Write
<1> QED BY <1>1, <1>2, LocalMaking DEF Write, Writes, Making

LEMMA OperationMaking ==
    ASSUME IInv, Operation
    PROVE  Making
<1>0. batch \in BatchState
  BY DEF IInv, LocalType
<1>1. CASE FindExact \/ FindOverlap
  BY <1>1 DEF FindExact, FindOverlap, Making
<1>2. CASE Post
  <2>1. batch'.pc \notin {"overlap", "post"}
    BY <1>0, <1>2, StopElsewhere, GotoElsewhere DEF Post, BatchState
  <2> QED BY <1>2, <2>1, LocalMaking DEF Post, Posts, Making
<1>3. CASE Put
  <2>1. batch.pc = "put" /\ Kind = "update" /\ Write(batch.goal[batch.key], "readback")
    BY <1>3 DEF Put, At, IInv, KindInv
  <2>2. batch.goal[batch.key] \in Versions
    BY <2>1, TargetKnown
  <2> QED BY <2>1, <2>2, WriteMaking
<1>4. CASE Delete
  BY <1>4, WriteMaking DEF Delete, At
<1>5. CASE Read \/ ReadBack \/ ReadGone \/ Finish
  <2>1. UNCHANGED remote
    BY <1>5 DEF Read, ReadBack, ReadGone, Finish
  <2>2. Verified => batch'.pc = "next"
    BY <1>0 DEF Verified, BatchState
  <2>3. batch'.pc \notin {"overlap", "post"}
    BY <1>5, <2>2, StopElsewhere, GotoElsewhere DEF Read, ReadBack, ReadGone, Finish
  <2> QED BY <2>1, <2>3, LocalMaking
<1>6. CASE PublishRead \/ PublishPost \/ PublishVerify
  <2>1. Quiet
    BY <1>6, QuietRemote DEF PublishRead, PublishPost, PublishVerify, Shown, Quiet, Untouched
  <2>2. batch'.pc \notin {"overlap", "post"}
    BY <1>0, <1>6, StopElsewhere, GotoElsewhere
       DEF PublishRead, PublishPost, PublishVerify, BatchState
  <2> QED BY <2>1, <2>2 DEF Making
<1> QED BY <1>1, <1>2, <1>3, <1>4, <1>5, <1>6 DEF Operation

LEMMA FailureMaking ==
    ASSUME IInv, Failure
    PROVE  Making
<1>1. UNCHANGED remote
  BY DEF Failure, RequestLost, ReadFails, Reconcile, ReconcileFails, Crash
<1>2. Verified => batch'.pc = "next"
  BY DEF Verified, IInv, LocalType, BatchState
<1>3. batch' = NoBatch => batch'.pc = "idle"
  BY DEF NoBatch
<1>4. batch'.pc \notin {"overlap", "post"}
  BY <1>2, <1>3, StopElsewhere, GotoElsewhere
     DEF Failure, RequestLost, ReadFails, Reconcile, ReconcileCreate, ReconcileFails, Crash
<1> QED BY <1>1, <1>4, LocalMaking

\* What others do makes no roster of this program's.
LEMMA OutsideQuiet ==
    ASSUME IInv, Outside
    PROVE  Quiet
<1>1. ASSUME NEW k \in Keys, NEW v \in Versions \cup {None}, WorkdayChanges(k, v)
      PROVE  Quiet
  BY <1>1, QuietRemote DEF WorkdayChanges
<1>2. ASSUME NEW r \in Rosters, NEW v \in Shifts, OutsideAdds(r, v)
      PROVE  Quiet
  BY <1>2 DEF OutsideAdds, IInv, RemoteType, Quiet, Untouched
<1>3. ASSUME NEW r \in Rosters, NEW v \in Shifts, OutsideEdits(r, v)
      PROVE  Quiet
  BY <1>3 DEF OutsideEdits, IInv, RemoteType, Quiet, Untouched
<1>4. ASSUME NEW r \in Rosters, OutsideRemoves(r) \/ TimesheetLocks(r)
      PROVE  Quiet
  BY <1>4 DEF OutsideRemoves, TimesheetLocks, IInv, RemoteType, Quiet, Untouched
<1> QED BY <1>1, <1>2, <1>3, <1>4 DEF Outside

LEMMA OutsideMaking ==
    ASSUME IInv, Outside
    PROVE  Making
<1>1. UNCHANGED batch
  BY DEF Outside, local, WorkdayChanges, OutsideAdds, OutsideEdits, OutsideRemoves, TimesheetLocks
<1> QED BY <1>1, OutsideQuiet DEF Making

LEMMA NextMaking ==
    ASSUME IInv, [Next]_vars
    PROVE  Making
<1>1. CASE UNCHANGED vars
  BY <1>1, QuietRemote DEF vars, local, Making
<1> QED BY <1>1, BatchMaking, OperationMaking, FailureMaking, OutsideMaking DEF Next

\* What a batch wants of a create does not change while it runs.
LEMMA CreateWants ==
    ASSUME IInv, Course, \A k \in Keys : batch.plan[k] = "create" => batch.goal[k] \in Versions
    PROVE  \A k \in Keys : batch'.plan[k] = "create" => batch'.goal[k] \in Versions
<1>0. batch \in BatchState /\ workday \in [Keys -> Versions \cup {None}]
  BY DEF IInv, LocalType
<1>1. CASE batch'.plan = batch.plan /\ batch'.goal = batch.goal
  BY <1>1
<1>2. CASE batch' = NoBatch
  BY <1>2 DEF NoBatch
<1>3. CASE BatchBegins
  <2>1. batch'.plan = [k \in Keys |-> Planned(k)] /\ batch'.goal = workday
    BY <1>3 DEF BatchBegins, NoBatch
  <2>2. \A k \in Keys : Planned(k) = "create" => workday[k] \in Versions
    BY <1>0 DEF Planned
  <2> QED BY <2>1, <2>2
<1>4. CASE Done
  BY <1>0, <1>1, <1>4 DEF Done, Verified, BatchState
<1>5. CASE (\E k \in Keys : PreflightPasses(k)) \/ PreflightEnds
  BY <1>0, <1>1, <1>5 DEF PreflightPasses, PreflightEnds, BatchState
<1>6. CASE Prepare
  BY <1>0, <1>1, <1>6 DEF Prepare, BatchState
<1> QED BY <1>1, <1>2, <1>3, <1>4, <1>5, <1>6 DEF Course, Moved

\* Rosters of this program that hold a shift after a step held one before.
LEMMA KeptApart ==
    ASSUME IInv, OneOwnShift,
           \A r \in Rosters : Untouched(r)' /\ deputy'[r] # None => Untouched(r) /\ deputy[r] # None
    PROVE  OneOwnShift'
BY DEF OneOwnShift, Untouched

LEMMA QuietOwn ==
    ASSUME IInv, OwnInv, OneOwnShift, Course, Quiet,
           batch'.pc \in {"overlap", "post"} => UNCHANGED batch
    PROVE  OwnInv' /\ OneOwnShift'
<1>1. OneOwnShift'
  BY KeptApart DEF Quiet
<1>2. \A k \in Keys : batch'.plan[k] = "create" => batch'.goal[k] \in Versions
  BY CreateWants DEF OwnInv
<1>3. \A r \in Rosters : Untouched(r)' => deputy'[r] \in Versions \cup {None}
  BY DEF Quiet, OwnInv
<1>4. (batch'.pc = "overlap" /\ batch'.target = None) =>
         \A r \in Rosters : (Untouched(r)' /\ r[1] = batch'.key) => deputy'[r] # batch'.goal[batch'.key]
  <2> SUFFICES ASSUME batch'.pc = "overlap", batch'.target = None, NEW r \in Rosters,
                      Untouched(r)', r[1] = batch'.key
               PROVE  deputy'[r] # batch'.goal[batch'.key]
    OBVIOUS
  <2>1. batch' = batch /\ Kind = "create"
    BY DEF IInv, KindInv
  <2>2. batch.goal[batch.key] \in Versions
    BY <2>1, KindKeys DEF IInv, OwnInv
  <2> QED BY <2>1, <2>2, DeputyWritesAssumption DEF Quiet, OwnInv
<1>5. batch'.pc = "post" =>
         \A r \in Rosters : (Untouched(r)' /\ r[1] = batch'.key) => deputy'[r] = None
  BY DEF Quiet, OwnInv
<1> QED BY <1>1, <1>2, <1>3, <1>4, <1>5 DEF OwnInv

\* A step that makes no search leaves nothing to know about it.
LEMMA NoSearch ==
    ASSUME batch'.pc \notin {"overlap", "post"},
           \A r \in Rosters : Untouched(r)' => deputy'[r] \in Versions \cup {None},
           \A k \in Keys : batch'.plan[k] = "create" => batch'.goal[k] \in Versions
    PROVE  OwnInv'
BY DEF OwnInv

\* A create that finds no exact roster, and then none that overlaps, finds none
\* of this program's.
LEMMA SearchOwn ==
    ASSUME IInv, OwnInv, OneOwnShift, Course, UNCHANGED remote, FindExact \/ FindOverlap
    PROVE  OwnInv' /\ OneOwnShift'
<1>0. batch \in BatchState /\ UNCHANGED <<deputy, origin, touched>>
  BY DEF IInv, LocalType, remote
<1>1. OneOwnShift'
  BY <1>0 DEF OneOwnShift
<1>2. \A k \in Keys : batch'.plan[k] = "create" => batch'.goal[k] \in Versions
  BY CreateWants DEF OwnInv
<1>3. \A r \in Rosters : Untouched(r)' => deputy'[r] \in Versions \cup {None}
  BY <1>0 DEF OwnInv, Untouched
<1>4. CASE FindExact
  <2> DEFINE E == Exact(batch.key, batch.goal[batch.key])
  <2>1. CASE Stop("ambiguous")
    BY <1>1, <1>2, <1>3, <2>1, StopElsewhere, NoSearch
  <2>2. CASE batch' = [batch EXCEPT !.pc = "overlap",
                         !.target = IF E = {} THEN None ELSE CHOOSE r \in E : TRUE,
                         !.own = IF E = {} THEN "created" ELSE "adopted"]
    <3>1. /\ batch'.pc = "overlap" /\ batch'.key = batch.key /\ batch'.goal = batch.goal
          /\ batch'.target = IF E = {} THEN None ELSE CHOOSE r \in E : TRUE
      BY <1>0, <2>2 DEF BatchState
    <3>2. batch'.target = None => E = {}
      BY <3>1, DeputyWritesAssumption DEF Exact, Rosters
    <3>3. batch'.target = None =>
            \A r \in Rosters : r[1] = batch.key => deputy[r] # batch.goal[batch.key]
      BY <3>2 DEF Exact
    <3> QED BY <1>0, <1>1, <1>2, <1>3, <3>1, <3>3 DEF OwnInv
  <2> QED BY <1>4, <2>1, <2>2 DEF FindExact
<1>5. CASE FindOverlap
  <2>1. CASE Stop("failed")
    BY <1>1, <1>2, <1>3, <2>1, StopElsewhere, NoSearch
  <2>2. CASE /\ Overlapping(batch.key, batch.goal[batch.key]) = {} /\ batch.target = None
             /\ batch' = [batch EXCEPT !.pc = "post", !.sent = TRUE]
    <3>1. batch'.pc = "post" /\ batch'.key = batch.key /\ batch.pc = "overlap"
      BY <1>0, <1>5, <2>2 DEF BatchState, FindOverlap, At
    <3>2. ASSUME NEW r \in Rosters, Untouched(r), r[1] = batch.key
          PROVE  deputy[r] = None
      <4>1. deputy[r] \notin Versions \ {batch.goal[batch.key]}
        BY <2>2, <3>2 DEF Overlapping
      <4>2. deputy[r] # batch.goal[batch.key] /\ deputy[r] \in Versions \cup {None}
        BY <2>2, <3>1, <3>2 DEF OwnInv
      <4> QED BY <4>1, <4>2
    <3> QED BY <1>0, <1>1, <1>2, <1>3, <3>1, <3>2 DEF OwnInv, Untouched
  <2>3. CASE batch.target # None /\ batch' = [batch EXCEPT !.pc = "readback", !.sent = FALSE]
    BY <1>0, <1>1, <1>2, <1>3, <2>3, NoSearch DEF BatchState
  <2> QED BY <1>5, <2>1, <2>2, <2>3 DEF FindOverlap
<1> QED BY <1>4, <1>5

LEMMA WritesOwn ==
    ASSUME IInv, OwnInv, OneOwnShift, Course, Writes
    PROVE  OwnInv' /\ OneOwnShift'
<1>1. PICK v \in Versions \cup {None} : Written(batch.target, v)
  BY DEF Writes
<1>2. /\ batch.target \in Rosters /\ deputy[batch.target] # None
      /\ deputy' = [deputy EXCEPT ![batch.target] = v] /\ UNCHANGED <<origin, touched>>
  BY <1>1 DEF Writes, Written, Writable
<1>3. OneOwnShift'
  BY <1>2, KeptApart DEF Untouched, IInv, RemoteType
<1>4. \A r \in Rosters : Untouched(r)' => deputy'[r] \in Versions \cup {None}
  BY <1>2 DEF Untouched, OwnInv, IInv, RemoteType
<1>5. \A k \in Keys : batch'.plan[k] = "create" => batch'.goal[k] \in Versions
  BY CreateWants DEF OwnInv
<1> QED BY <1>3, <1>4, <1>5, NoSearch DEF Writes

\* The roster a create makes is the employee's only one of this program.
LEMMA PostsOwn ==
    ASSUME IInv, OwnInv, OneOwnShift, Course, Posts
    PROVE  OwnInv' /\ OneOwnShift'
<1>1. PICK r \in Rosters : Created(r)
  BY DEF Posts
<1>2. /\ r[1] = batch.key /\ batch.pc = "post"
      /\ deputy' = [deputy EXCEPT ![r] = batch.goal[batch.key]]
      /\ origin' = [origin EXCEPT ![r] = "redeputy"] /\ UNCHANGED touched
  BY <1>1 DEF Posts, At, Created
<1>3. batch.goal[batch.key] \in Versions
  BY <1>2, KindKeys DEF IInv, KindInv, OwnInv
<1>4. \A s \in Rosters : s # r => (Untouched(s)' <=> Untouched(s)) /\ deputy'[s] = deputy[s]
  BY <1>2 DEF Untouched, IInv, RemoteType
<1>5. deputy'[r] \in Versions
  BY <1>2, <1>3 DEF IInv, RemoteType
<1>6. \A s \in Rosters : s # r /\ Untouched(s)' /\ s[1] = r[1] => deputy'[s] = None
  BY <1>2, <1>4 DEF OwnInv
<1>7. OneOwnShift'
  <2> SUFFICES ASSUME NEW s \in Rosters, NEW t \in Rosters, s[1] = t[1], s # t,
                      Untouched(s)', Untouched(t)'
               PROVE  deputy'[s] = None \/ deputy'[t] = None
    BY DEF OneOwnShift, Untouched
  <2>1. CASE s = r \/ t = r
    BY <1>6, <2>1
  <2>2. CASE s # r /\ t # r
    BY <1>4, <2>2 DEF OneOwnShift, Untouched
  <2> QED BY <2>1, <2>2
<1>8. \A s \in Rosters : Untouched(s)' => deputy'[s] \in Versions \cup {None}
  BY <1>4, <1>5 DEF OwnInv
<1>9. \A k \in Keys : batch'.plan[k] = "create" => batch'.goal[k] \in Versions
  BY CreateWants DEF OwnInv
<1> QED BY <1>7, <1>8, <1>9, NoSearch DEF Posts

LEMMA OwnShifts == Spec => [](OwnInv /\ OneOwnShift)
<1>1. Init => OwnInv /\ OneOwnShift
  BY DEF Init, NoBatch, OwnInv, OneOwnShift, Untouched
<1>2. IInv /\ OwnInv /\ OneOwnShift /\ [Next]_vars => OwnInv' /\ OneOwnShift'
  <2> SUFFICES ASSUME IInv, OwnInv, OneOwnShift, [Next]_vars
               PROVE  OwnInv' /\ OneOwnShift'
    OBVIOUS
  <2>1. Course /\ Making
    BY NextCourse, NextMaking
  <2> QED BY <2>1, QuietOwn, SearchOwn, WritesOwn, PostsOwn DEF Making
<1> QED BY <1>1, <1>2, Inductive, PTL DEF Spec

\* Retries, lost answers and restarts of execute_operation never leave an
\* employee with two overlapping shifts that this program created and nobody
\* else edited: a create searches for exact and overlapping rosters first, and
\* only this program makes more of them.
THEOREM NoSecondShift == Spec => []OneOwnShift
BY OwnShifts, PTL

-----------------------------------------------------------------------------
(* What can spoil a publish when nothing fails                              *)

\* Without faults and outside edits nothing is reconciled, and the rosters of
\* the batch stand in Deputy, except those its own removals deleted: removed
\* rosters are among the ids to publish all the same.
Stand ==
    /\ batch.pc # "reconcile"
    /\ batch.pc = "preflight" =>
          \A k \in Keys \ batch.left : batch.plan[k] = "unchanged" => deputy[batch.roster[k]] # None
    /\ (batch.pc = "finish" /\ Kind # "delete") => deputy[batch.target] # None
    /\ \A r \in batch.ids : deputy[r] = None =>
          \E k \in Keys : batch.plan[k] = "delete" /\ batch.roster[k] = r
    /\ batch.pc \in {"publish", "publishverify"} =>
          batch.fresh \subseteq batch.ids /\ \A r \in batch.ids : deputy[r] # None
    /\ batch.pc = "publishverify" => batch.fresh \subseteq published

\* A batch that ended has no rosters.
LEMMA EndedStands ==
    ASSUME batch' = NoBatch
    PROVE  Stand'
BY DEF NoBatch, Stand

LEMMA StoppedStands ==
    ASSUME NEW s, Stop(s)
    PROVE  Stand'
BY EndedStands DEF Stop

\* The operation makes another request and no roster goes, but for one that the
\* batch removes.
LEMMA MovedStands ==
    ASSUME IInv, Stand, batch'.pc \notin {"preflight", "reconcile", "finish", "publish", "publishverify"},
           batch'.plan = batch.plan, batch'.roster = batch.roster, batch'.ids \subseteq batch.ids,
           \A r \in batch.ids : deputy'[r] = None => deputy[r] = None \/
               \E k \in Keys : batch.plan[k] = "delete" /\ batch.roster[k] = r
    PROVE  Stand'
BY DEF Stand

LEMMA GotoStands ==
    ASSUME IInv, Stand, NEW pc, Goto(pc),
           pc \notin {"preflight", "reconcile", "finish", "publish", "publishverify"},
           \A r \in batch.ids : deputy'[r] = None => deputy[r] = None \/
               \E k \in Keys : batch.plan[k] = "delete" /\ batch.roster[k] = r
    PROVE  Stand'
<1>1. /\ batch'.pc = pc /\ batch'.plan = batch.plan /\ batch'.roster = batch.roster
      /\ batch'.ids = batch.ids
  BY DEF Goto, IInv, LocalType, BatchState
<1> QED BY <1>1, MovedStands

\* A verified operation adds a roster that stands, or one the batch removed.
LEMMA VerifiedStands ==
    ASSUME IInv, Stand, UNCHANGED deputy, Verified, batch.pc \in {"read", "finish"},
           Kind # "delete" => deputy[batch.target] # None
    PROVE  Stand'
<1>1. /\ batch'.pc = "next" /\ batch'.plan = batch.plan /\ batch'.roster = batch.roster
      /\ batch'.ids = batch.ids \cup {batch.target}
  BY DEF Verified, IInv, LocalType, BatchState
<1>2. Kind = "delete" => batch.key \in Keys /\ batch.plan[batch.key] = "delete"
                           /\ batch.roster[batch.key] = batch.target
  BY KindKeys DEF IInv, PlanInv
<1>3. \A r \in batch'.ids : deputy'[r] = None =>
          \E k \in Keys : batch'.plan[k] = "delete" /\ batch'.roster[k] = r
  BY <1>1, <1>2 DEF Stand
<1> QED BY <1>1, <1>3 DEF Stand

LEMMA BatchStands ==
    ASSUME IInv, Stand, Batch
    PROVE  Stand'
<1>0. batch \in BatchState
  BY DEF IInv, LocalType
<1>1. CASE BatchBegins
  <2>1. /\ batch'.pc = "preflight" /\ batch'.plan = [k \in Keys |-> Planned(k)] /\ batch'.ids = {}
        /\ batch'.left = {k \in Keys : Planned(k) # "none"}
    BY <1>1 DEF BatchBegins, NoBatch
  <2>2. \A k \in Keys \ batch'.left : batch'.plan[k] # "unchanged"
    BY <2>1
  <2> QED BY <2>1, <2>2 DEF Stand
<1>2. ASSUME NEW k \in Keys, PreflightPasses(k)
      PROVE  Stand'
  <2>1. /\ batch'.pc = "preflight" /\ batch.pc = "preflight" /\ batch'.plan = batch.plan
        /\ batch'.roster = batch.roster /\ batch'.ids = batch.ids /\ batch'.left = batch.left \ {k}
        /\ UNCHANGED deputy
    BY <1>0, <1>2 DEF PreflightPasses, At, BatchState, remote
  <2>2. batch.plan[k] = "unchanged" => deputy[batch.roster[k]] # None
    BY <1>2 DEF PreflightPasses, Ready, Writable
  <2> QED BY <2>1, <2>2 DEF Stand
<1>3. CASE PreflightEnds
  <2>1. /\ batch'.pc = "next" /\ batch.pc = "preflight" /\ batch.left = {} /\ UNCHANGED deputy
        /\ batch'.ids = {batch.roster[k] : k \in {h \in Keys : batch.plan[h] = "unchanged"}}
    BY <1>0, <1>3 DEF PreflightEnds, At, BatchState, remote
  <2>2. \A r \in batch'.ids : deputy[r] # None
    BY <2>1 DEF Stand
  <2> QED BY <2>1, <2>2 DEF Stand
<1>4. CASE Prepare
  <2>1. /\ batch'.pc = "execute" /\ batch'.plan = batch.plan /\ batch'.roster = batch.roster
        /\ batch'.ids = batch.ids /\ UNCHANGED deputy
    BY <1>0, <1>4 DEF Prepare, BatchState, remote
  <2> QED BY <2>1, MovedStands
<1>5. CASE Execute
  <2>1. Kind \in Mutations \cup {"publish"}
    BY <1>5 DEF Execute, At, IInv, KindInv
  <2>2. CASE Goto(CASE Kind = "create" -> "exact"
                    [] Kind \in {"update", "delete"} -> "read"
                    [] Kind = "publish" -> "publishread")
    <3>1. (CASE Kind = "create" -> "exact"
             [] Kind \in {"update", "delete"} -> "read"
             [] Kind = "publish" -> "publishread") \in {"exact", "read", "publishread"}
      BY <2>1 DEF Mutations
    <3> QED BY <1>5, <2>2, <3>1, GotoStands DEF Execute, remote
  <2> QED BY <1>5, <2>2, StoppedStands DEF Execute
<1>6. CASE PreflightBlocks \/ PrepareRaises \/ ExecuteNotReady
  BY <1>6, EndedStands, StoppedStands DEF PreflightBlocks, PrepareRaises, ExecuteNotReady
<1> QED BY <1>1, <1>2, <1>3, <1>4, <1>5, <1>6 DEF Batch

LEMMA WriteStands ==
    ASSUME Faults = {}, IInv, Stand, batch.pc \in {"put", "delete"}, NEW v \in Versions \cup {None},
           NEW then \in {"readback", "gone"}, Write(v, then), v = None => Kind = "delete"
    PROVE  Stand'
<1>1. /\ batch.target \in Rosters
      /\ Kind = "delete" => batch.key \in Keys /\ batch.plan[batch.key] = "delete"
                              /\ batch.roster[batch.key] = batch.target
  BY TargetKnown DEF IInv, KindInv, PlanInv
<1>2. CASE Written(batch.target, v) /\ Goto(then)
  <2>1. \A r \in Rosters : deputy'[r] = None => deputy[r] = None \/ (r = batch.target /\ v = None)
    BY <1>1, <1>2 DEF Written, IInv, RemoteType
  <2>2. batch.ids \subseteq Rosters
    BY DEF IInv, LocalType, BatchState
  <2> QED BY <1>1, <1>2, <2>1, <2>2, GotoStands
<1> QED BY <1>2, StoppedStands DEF Write

LEMMA OperationStands ==
    ASSUME Faults = {}, IInv, OwnInv, Stand, Operation
    PROVE  Stand'
<1>0. batch \in BatchState /\ batch.ids \subseteq Rosters
  BY DEF IInv, LocalType, BatchState
<1>1. CASE FindExact
  <2>1. UNCHANGED deputy
    BY <1>1 DEF FindExact, remote
  <2>2. ASSUME NEW t, NEW own, batch' = [batch EXCEPT !.pc = "overlap", !.target = t, !.own = own]
        PROVE  Stand'
    <3>1. /\ batch'.pc = "overlap" /\ batch'.plan = batch.plan /\ batch'.roster = batch.roster
          /\ batch'.ids = batch.ids
      BY <1>0, <2>2 DEF BatchState
    <3> QED BY <2>1, <3>1, MovedStands
  <2> QED BY <1>1, <2>2, StoppedStands DEF FindExact
<1>2. CASE FindOverlap
  <2>1. UNCHANGED deputy
    BY <1>2 DEF FindOverlap, remote
  <2>2. ASSUME NEW pc \in {"post", "readback"}, NEW b, batch' = [batch EXCEPT !.pc = pc, !.sent = b]
        PROVE  Stand'
    <3>1. /\ batch'.pc = pc /\ batch'.plan = batch.plan /\ batch'.roster = batch.roster
          /\ batch'.ids = batch.ids
      BY <1>0, <2>2 DEF BatchState
    <3> QED BY <2>1, <3>1, MovedStands
  <2> QED BY <1>2, <2>2, StoppedStands DEF FindOverlap
<1>3. CASE Post
  <2>1. ASSUME NEW r \in Rosters, Created(r), batch' = [batch EXCEPT !.pc = "readback", !.target = r]
        PROVE  Stand'
    <3>1. batch.goal[batch.key] \in Versions
      BY <1>3, KindKeys DEF Post, At, IInv, KindInv, OwnInv
    <3>2. \A s \in Rosters : deputy'[s] = None => deputy[s] = None
      BY <2>1, <3>1, DeputyWritesAssumption DEF Created, IInv, RemoteType
    <3>3. /\ batch'.pc = "readback" /\ batch'.plan = batch.plan /\ batch'.roster = batch.roster
          /\ batch'.ids = batch.ids
      BY <1>0, <2>1 DEF BatchState
    <3> QED BY <1>0, <3>2, <3>3, MovedStands
  <2> QED BY <1>3, <2>1, StoppedStands DEF Post
<1>4. CASE Put
  <2>1. batch.pc = "put" /\ Kind = "update" /\ Write(batch.goal[batch.key], "readback")
    BY <1>4 DEF Put, At, IInv, KindInv
  <2>2. batch.goal[batch.key] \in Versions
    BY <2>1, TargetKnown
  <2> QED BY <2>1, <2>2, WriteStands, DeputyWritesAssumption
<1>5. CASE Delete
  <2>1. batch.pc = "delete" /\ Kind = "delete" /\ Write(None, "gone")
    BY <1>5 DEF Delete, At, IInv, KindInv
  <2> QED BY <2>1, WriteStands
<1>6. CASE Read
  <2>1. batch.pc = "read" /\ UNCHANGED deputy
    BY <1>6 DEF Read, At, remote
  <2>2. CASE Verified /\ deputy[batch.target] # None
    BY <2>1, <2>2, VerifiedStands
  <2>3. CASE Goto(IF Kind = "update" THEN "put" ELSE "delete")
    BY <2>1, <2>3, GotoStands
  <2> QED BY <1>6, <2>2, <2>3, StoppedStands DEF Read
<1>7. CASE ReadBack
  <2>1. batch.pc = "readback" /\ Kind \in {"create", "update"} /\ UNCHANGED deputy
    BY <1>7 DEF ReadBack, At, remote, IInv, KindInv
  <2>2. CASE deputy[batch.target] = batch.goal[batch.key] /\ Goto("finish")
    <3>1. batch.goal[batch.key] \in Versions
      BY <2>1, KindKeys, TargetKnown DEF IInv, OwnInv
    <3>2. /\ batch'.pc = "finish" /\ batch'.plan = batch.plan /\ batch'.roster = batch.roster
          /\ batch'.ids = batch.ids /\ batch'.target = batch.target
      BY <1>0, <2>2 DEF Goto, BatchState
    <3> QED BY <2>1, <2>2, <3>1, <3>2, DeputyWritesAssumption DEF Stand
  <2> QED BY <1>7, <2>2, StoppedStands DEF ReadBack
<1>8. CASE ReadGone
  <2>1. batch.pc = "gone" /\ Kind = "delete" /\ UNCHANGED deputy
    BY <1>8 DEF ReadGone, At, remote, IInv, KindInv
  <2>2. CASE Goto("finish")
    <3>1. /\ batch'.pc = "finish" /\ batch'.plan = batch.plan /\ batch'.roster = batch.roster
          /\ batch'.ids = batch.ids /\ batch'.key = batch.key
      BY <1>0, <2>2 DEF Goto, BatchState
    <3> QED BY <2>1, <3>1 DEF Stand, Kind
  <2> QED BY <1>8, <2>2, StoppedStands DEF ReadGone
<1>9. CASE Finish
  BY <1>9, VerifiedStands DEF Finish, At, remote, Stand
<1>10. CASE PublishRead
  <2>1. UNCHANGED deputy
    BY <1>10 DEF PublishRead, remote
  <2>2. CASE /\ \A r \in batch.ids : deputy[r] # None
             /\ batch' = [batch EXCEPT !.pc = "publish", !.fresh = batch.ids \ published]
    <3>1. /\ batch'.pc = "publish" /\ batch'.ids = batch.ids /\ batch'.fresh = batch.ids \ published
      BY <1>0, <2>2 DEF BatchState
    <3> QED BY <2>1, <2>2, <3>1 DEF Stand
  <2> QED BY <1>10, <2>2, StoppedStands DEF PublishRead
<1>11. CASE PublishPost
  <2>1. CASE Shown(batch.fresh) /\ Goto("publishverify")
    <3>1. /\ batch.pc = "publish" /\ batch'.pc = "publishverify" /\ batch'.plan = batch.plan
          /\ batch'.roster = batch.roster /\ batch'.ids = batch.ids /\ batch'.fresh = batch.fresh
      BY <1>0, <1>11, <2>1 DEF PublishPost, At, Goto, BatchState
    <3>2. UNCHANGED deputy /\ batch'.fresh \subseteq published'
      BY <2>1, <3>1 DEF Shown, Stand
    <3> QED BY <3>1, <3>2 DEF Stand
  <2> QED BY <1>11, <2>1, StoppedStands DEF PublishPost
<1>12. CASE PublishVerify
  BY <1>12, StoppedStands DEF PublishVerify
<1> QED BY <1>1, <1>2, <1>3, <1>4, <1>5, <1>6, <1>7, <1>8, <1>9, <1>10, <1>11, <1>12 DEF Operation

LEMMA NextStands ==
    ASSUME Faults = {}, Edits = {}, IInv, OwnInv, Stand, [Next]_vars
    PROVE  Stand'
<1>1. CASE Failure
  <2>1. ~RequestLost /\ ~ReadFails /\ ~Reconcile /\ ~ReconcileFails /\ ~Crash
    BY DEF RequestLost, ReadFails, Reconcile, ReconcileFails, Crash, At, Stand
  <2> QED BY <1>1, <2>1 DEF Failure
<1>2. CASE UNCHANGED <<batch, deputy, published>>
  BY <1>2 DEF Stand, Kind
<1>3. CASE Outside
  BY <1>2, <1>3 DEF Outside, WorkdayChanges, OutsideAdds, OutsideEdits, OutsideRemoves,
                    TimesheetLocks, remote
<1> QED BY <1>1, <1>2, <1>3, BatchStands, OperationStands DEF Next, vars, local, remote

\* The publish operation is left unknown only by a batch that removed a shift:
\* the roster its own delete emptied is among those it wants published.
SpoiledByRemoval ==
    (ops[Publish] # "unknown" /\ ops'[Publish] = "unknown") =>
        \E k \in Keys :
            batch.plan[k] = "delete" /\ batch.roster[k] \in batch.ids /\ deputy[batch.roster[k]] = None

LEMMA SpoilingStep ==
    ASSUME Faults = {}, IInv, Stand, Next
    PROVE  SpoiledByRemoval
<1> SUFFICES ASSUME ops[Publish] # "unknown", ops'[Publish] = "unknown"
             PROVE  \E k \in Keys : batch.plan[k] = "delete" /\ batch.roster[k] \in batch.ids
                                      /\ deputy[batch.roster[k]] = None
  BY DEF SpoiledByRemoval
<1>1. ops \in [Ops -> {"none", "verified"} \cup Active \cup Refusals] /\ Publish \in Ops
  BY DEF IInv, LocalType, Ops
<1>2. ASSUME NEW s, s # "unknown", Stop(s)
      PROVE  FALSE
  BY <1>1, <1>2 DEF Stop
<1>3. ASSUME Kind # "publish", NEW s, Stop(s)
      PROVE  FALSE
  BY <1>1, <1>3 DEF Stop, Kind
<1>4. ~Verified /\ ops' # ops
  BY <1>1 DEF Verified
<1>5. ~Failure
  BY DEF Failure, RequestLost, ReadFails, Reconcile, ReconcileFails, Crash, At, Stand
<1>6. ~Outside
  BY <1>4 DEF Outside, WorkdayChanges, OutsideAdds, OutsideEdits, OutsideRemoves, TimesheetLocks, local
<1>7. ~Batch
  <2>1. ~Prepare
    BY <1>1 DEF Prepare
  <2>2. ~Execute
    BY <1>1, <1>2 DEF Execute
  <2> QED BY <1>2, <1>4, <2>1, <2>2
          DEF Batch, BatchBegins, PreflightPasses, PreflightBlocks, PreflightEnds, PrepareRaises, ExecuteNotReady
<1>8. ~FindExact /\ ~FindOverlap /\ ~Read
  BY <1>2, <1>4 DEF FindExact, FindOverlap, Read
<1>9. ~Post /\ ~Put /\ ~Delete /\ ~PublishPost
  BY <1>2, <1>4 DEF Post, Put, Delete, Write, PublishPost, Refusals
<1>10. ~ReadBack /\ ~ReadGone /\ ~Finish
  BY <1>3, <1>4 DEF ReadBack, ReadGone, Finish, At, IInv, KindInv
<1>11. ~PublishVerify
  BY <1>2 DEF PublishVerify, At, Stand
<1>12. PublishRead
  BY <1>5, <1>6, <1>7, <1>8, <1>9, <1>10, <1>11 DEF Next, Operation
<1>13. PICK r \in batch.ids : deputy[r] = None
  BY <1>2, <1>4, <1>12 DEF PublishRead
<1> QED BY <1>13 DEF Stand

\* With a Deputy that answers every request and nobody editing it,
\* _execute_publish ends unknown for one reason only: the batch deleted a roster
\* and then asks Deputy to have that roster published too.  A batch without
\* removals is never left in doubt.
THEOREM OnlyRemovalsSpoil ==
    ASSUME Faults = {}, Edits = {}
    PROVE  Spec => [][SpoiledByRemoval]_vars
<1>1. Init => Stand
  BY DEF Init, NoBatch, Stand
<1>2. IInv /\ OwnInv /\ Stand /\ [Next]_vars => Stand'
  BY NextStands
<1>3. IInv /\ Stand /\ [Next]_vars => [SpoiledByRemoval]_vars
  BY SpoilingStep
<1> QED BY <1>1, <1>2, <1>3, Inductive, OwnShifts, PTL DEF Spec

-----------------------------------------------------------------------------
(* Links abandon no shift of this program's making                          *)

\* The rosters in Deputy that this program created for k and nobody edited.
Standing(k) == {r \in Rosters : r[1] = k /\ Untouched(r) /\ deputy[r] # None}

\* The link of an assignment names none of this program's rosters but the one
\* that stands.
OwnIsLinked == \A k \in Keys : links[k].roster # None => Standing(k) \subseteq {links[k].roster}

Creating == Kind = "create" /\ batch.pc \in {"execute", "exact", "overlap", "post", "readback", "reconcile"}

\* What a create knows while it runs: its assignment is not linked; what it
\* found, or has just made, is all that stands with the wanted shift; and it is
\* reconciled only after its POST.
LinkInv ==
    /\ OwnIsLinked
    /\ Creating => links[batch.key].roster = None
    /\ batch.pc \in {"execute", "exact", "overlap"} => ~batch.sent
    /\ (batch.pc = "overlap" /\ batch.target # None) =>
          \A r \in Standing(batch.key) : deputy[r] = batch.goal[batch.key] => r = batch.target
    /\ (batch.pc = "readback" /\ Kind = "create") =>
          \A r \in Standing(batch.key) : r = batch.target /\ deputy[r] = batch.goal[batch.key]
    /\ (batch.pc = "reconcile" /\ Kind = "create") =>
          \A r \in Standing(batch.key) : deputy[r] = batch.goal[batch.key]

\* Nothing of this program's making is added for an assignment.
Fewer == \A k \in Keys : Standing(k)' \subseteq Standing(k)

\* Nothing of this program's making is added or gets another shift.
Kept == \A r \in Rosters : Untouched(r)' /\ deputy'[r] # None => Untouched(r) /\ deputy'[r] = deputy[r]

LEMMA KeptFewer ==
    ASSUME Kept
    PROVE  Fewer
BY DEF Kept, Fewer, Standing

LEMMA RemoteKept ==
    ASSUME UNCHANGED remote
    PROVE  Kept
BY DEF remote, Kept, Untouched

LEMMA QuietKept ==
    ASSUME Quiet
    PROVE  Kept
BY DEF Quiet, Kept

\* A step that keeps the rosters of the links.
LEMMA FewerLinked ==
    ASSUME OwnIsLinked, Fewer, \A k \in Keys : links'[k].roster \in {links[k].roster, None}
    PROVE  OwnIsLinked'
BY DEF OwnIsLinked, Fewer

\* A step after which no create runs.
LEMMA NoCreate ==
    ASSUME OwnIsLinked', Kind' # "create" \/ batch'.pc \in {"idle", "preflight", "next", "finish"},
           batch'.pc \notin {"execute", "exact", "overlap"}
    PROVE  LinkInv'
BY DEF LinkInv, Creating

\* The batch ends, or goes on between two operations.
LEMMA QuietLinks ==
    ASSUME LinkInv, Fewer, \A k \in Keys : links'[k].roster \in {links[k].roster, None},
           batch'.pc \in {"idle", "preflight", "next", "finish"}
    PROVE  LinkInv'
<1>1. OwnIsLinked'
  BY FewerLinked DEF LinkInv
<1> QED BY <1>1, NoCreate

LEMMA StopLinks ==
    ASSUME LinkInv, Kept, UNCHANGED links, NEW s, Stop(s)
    PROVE  LinkInv'
BY KeptFewer, QuietLinks DEF Stop, NoBatch

\* The running operation, not a create, makes another request.
LEMMA GotoLinks ==
    ASSUME IInv, LinkInv, Fewer, UNCHANGED links, Kind # "create", NEW pc, Goto(pc),
           pc \notin {"execute", "exact", "overlap"}
    PROVE  LinkInv'
<1>1. batch'.pc = pc /\ Kind' = Kind
  BY DEF Goto, IInv, LocalType, BatchState, Kind
<1>2. OwnIsLinked'
  BY FewerLinked DEF LinkInv
<1> QED BY <1>1, <1>2, NoCreate

LEMMA ExactFinite ==
    ASSUME NEW k, NEW v
    PROVE  IsFiniteSet(Exact(k, v)) /\ Cardinality(Exact(k, v)) \in Nat
<1>1. IsFiniteSet(Exact(k, v))
  BY DeputyWritesAssumption, FS_Subset DEF Exact, Rosters
<1> QED BY <1>1, FS_CardinalityType

\* At most one exact candidate.
LEMMA ExactOnce ==
    ASSUME NEW k, NEW v, Cardinality(Exact(k, v)) <= 1, NEW r \in Exact(k, v), NEW s \in Exact(k, v)
    PROVE  r = s
<1>1. IsFiniteSet(Exact(k, v)) /\ Cardinality(Exact(k, v)) \in Nat
  BY ExactFinite
<1>2. IsFiniteSet({r}) /\ Cardinality({r}) = 1 /\ {r, s} = {r} \cup {s}
  BY FS_Singleton
<1>3. Cardinality({r, s}) <= Cardinality(Exact(k, v)) /\ Cardinality({r, s}) \in Nat
  <2>1. {r, s} \in SUBSET Exact(k, v)
    OBVIOUS
  <2>2. IsFiniteSet({r, s}) /\ Cardinality({r, s}) <= Cardinality(Exact(k, v))
    BY <1>1, <2>1, FS_Subset
  <2> QED BY <2>2, FS_CardinalityType
<1>4. SUFFICES ASSUME r # s PROVE FALSE
  OBVIOUS
<1>5. Cardinality({r, s}) = 2
  <2>1. s \notin {r}
    BY <1>4
  <2>2. Cardinality({r} \cup {s}) = Cardinality({r}) + 1
    BY <1>2, <2>1, FS_AddElement
  <2> QED BY <1>2, <2>2
<1> QED BY <1>1, <1>3, <1>5

LEMMA BatchLinks ==
    ASSUME IInv, LinkInv, Batch
    PROVE  LinkInv'
<1>0. batch \in BatchState
  BY DEF IInv, LocalType
<1>1. Kept /\ Fewer /\ UNCHANGED links
  <2>1. UNCHANGED remote /\ UNCHANGED links
    BY DEF Batch, BatchBegins, PreflightPasses, PreflightBlocks, PreflightEnds, Prepare, PrepareRaises,
           Execute, ExecuteNotReady
  <2> QED BY <2>1, RemoteKept, KeptFewer
<1>2. OwnIsLinked'
  BY <1>1, FewerLinked DEF LinkInv
<1>3. CASE Prepare
  <2>1. PICK k \in NextKeys :
           /\ (k # Publish /\ batch.plan[k] = "create") => links[k].roster = None
           /\ batch' = [batch EXCEPT !.pc = "execute", !.key = k, !.own = "created", !.sent = FALSE,
                          !.target = IF k = Publish THEN None ELSE batch.roster[k]]
    BY <1>3 DEF Prepare
  <2>2. batch'.pc = "execute" /\ batch'.key = k /\ batch'.plan = batch.plan /\ ~batch'.sent
    BY <1>0, <2>1 DEF BatchState
  <2>3. Kind' = "create" => links[k].roster = None
    BY <2>1, <2>2 DEF Kind
  <2> QED BY <1>1, <1>2, <2>2, <2>3 DEF LinkInv, Creating
<1>4. CASE Execute
  <2>1. Kind \in Mutations \cup {"publish"} /\ batch.pc = "execute"
    BY <1>4 DEF Execute, At, IInv, KindInv
  <2>2. CASE Goto(CASE Kind = "create" -> "exact"
                    [] Kind \in {"update", "delete"} -> "read"
                    [] Kind = "publish" -> "publishread")
    <3>1. CASE Kind = "create"
      <4>1. Goto("exact")
        BY <2>2, <3>1
      <4>2. batch'.pc = "exact" /\ batch'.key = batch.key /\ batch'.sent = batch.sent /\ Kind' = Kind
        BY <1>0, <4>1 DEF Goto, BatchState, Kind
      <4> QED BY <1>1, <1>2, <2>1, <3>1, <4>2 DEF LinkInv, Creating
    <3>2. CASE Kind # "create"
      <4>1. (CASE Kind = "create" -> "exact"
               [] Kind \in {"update", "delete"} -> "read"
               [] Kind = "publish" -> "publishread") \in {"read", "publishread"}
        BY <2>1, <3>2 DEF Mutations
      <4> QED BY <1>1, <2>2, <3>2, <4>1, GotoLinks
    <3> QED BY <3>1, <3>2
  <2>3. CASE Stop("failed")
    BY <1>1, <2>3, StopLinks
  <2> QED BY <1>4, <2>2, <2>3 DEF Execute
<1>5. CASE BatchBegins \/ PreflightBlocks \/ PrepareRaises
  <2>1. batch'.pc \in {"preflight", "idle"}
    <3>1. ASSUME BatchBegins
          PROVE  batch'.pc = "preflight"
      BY <3>1 DEF BatchBegins, NoBatch
    <3>2. ASSUME PreflightBlocks \/ PrepareRaises
          PROVE  batch'.pc = "idle"
      BY <3>2 DEF PreflightBlocks, PrepareRaises, NoBatch
    <3> QED BY <1>5, <3>1, <3>2
  <2> QED BY <1>1, <2>1, QuietLinks
<1>6. CASE (\E k \in Keys : PreflightPasses(k)) \/ PreflightEnds
  <2>1. batch'.pc \in {"preflight", "next"}
    BY <1>0, <1>6 DEF PreflightPasses, PreflightEnds, At, BatchState
  <2> QED BY <1>1, <2>1, QuietLinks
<1>7. CASE ExecuteNotReady
  BY <1>1, <1>7, StopLinks, QuietLinks DEF ExecuteNotReady, NoBatch
<1> QED BY <1>3, <1>4, <1>5, <1>6, <1>7 DEF Batch

\* A create that found a roster to adopt found all that stand with its shift,
\* and one that posts has found none.
LEMMA SearchLinks ==
    ASSUME IInv, OwnInv, LinkInv, FindExact \/ FindOverlap
    PROVE  LinkInv'
<1>0. batch \in BatchState /\ UNCHANGED <<deputy, origin, touched, links>> /\ Kept
  BY RemoteKept DEF IInv, LocalType, remote, FindExact, FindOverlap
<1>1. OwnIsLinked' /\ \A k : Standing(k)' = Standing(k)
  BY <1>0 DEF LinkInv, OwnIsLinked, Standing, Untouched
<1>2. Kind = "create" /\ batch.pc \in {"exact", "overlap"}
  BY DEF FindExact, FindOverlap, At, IInv, KindInv
<1>3. links[batch.key].roster = None /\ ~batch.sent
  BY <1>2 DEF LinkInv, Creating
<1>4. CASE FindExact
  <2> DEFINE E == Exact(batch.key, batch.goal[batch.key])
  <2>1. CASE /\ Cardinality(E) <= 1
             /\ batch' = [batch EXCEPT !.pc = "overlap",
                            !.target = IF E = {} THEN None ELSE CHOOSE r \in E : TRUE,
                            !.own = IF E = {} THEN "created" ELSE "adopted"]
    <3>1. /\ batch'.pc = "overlap" /\ batch'.key = batch.key /\ batch'.goal = batch.goal
          /\ batch'.sent = batch.sent /\ Kind' = Kind
          /\ batch'.target = IF E = {} THEN None ELSE CHOOSE r \in E : TRUE
      BY <1>0, <2>1 DEF BatchState, Kind
    <3>2. ASSUME NEW r \in Standing(batch.key), deputy[r] = batch.goal[batch.key]
          PROVE  r = batch'.target
      <4>1. r \in E
        BY <3>2 DEF Standing, Exact
      <4>2. \A t \in E : t = r
        BY <2>1, <4>1, ExactOnce
      <4> QED BY <3>1, <4>1, <4>2
    <3> QED BY <1>0, <1>1, <1>2, <1>3, <3>1, <3>2 DEF LinkInv, Creating
  <2>2. E = Exact(batch.key, batch.goal[batch.key])
    OBVIOUS
  <2>3. Cardinality(E) \in Nat
    BY ExactFinite
  <2> HIDE DEF E
  <2> QED BY <1>0, <1>4, <2>1, <2>2, <2>3, StopLinks DEF FindExact
<1>5. CASE FindOverlap
  <2>1. CASE /\ Overlapping(batch.key, batch.goal[batch.key]) = {}
             /\ batch' = [batch EXCEPT !.pc = IF batch.target = None THEN "post" ELSE "readback",
                            !.sent = (batch.target = None)]
    <3>1. /\ batch'.pc = IF batch.target = None THEN "post" ELSE "readback"
          /\ batch'.key = batch.key /\ batch'.goal = batch.goal /\ batch'.target = batch.target
          /\ Kind' = Kind /\ batch.pc = "overlap"
      BY <1>0, <1>5, <2>1 DEF BatchState, Kind, FindOverlap, At
    <3>2. ASSUME NEW r \in Standing(batch.key), batch.target # None
          PROVE  r = batch.target /\ deputy[r] = batch.goal[batch.key]
      <4>1. deputy[r] \in Versions /\ r \in Rosters /\ r[1] = batch.key
        BY <3>2 DEF Standing, OwnInv
      <4>2. deputy[r] = batch.goal[batch.key]
        BY <2>1, <4>1 DEF Overlapping
      <4> QED BY <3>1, <3>2, <4>2 DEF LinkInv
    <3> QED BY <1>0, <1>1, <1>2, <1>3, <3>1, <3>2 DEF LinkInv, Creating
  <2> QED BY <1>0, <1>5, <2>1, StopLinks DEF FindOverlap
<1> QED BY <1>4, <1>5

\* The roster a create makes is the only one that stands for its assignment.
LEMMA PostLinks ==
    ASSUME IInv, OwnInv, LinkInv, Post
    PROVE  LinkInv'
<1>0. batch \in BatchState /\ UNCHANGED links /\ batch.pc = "post" /\ Kind = "create"
  BY DEF IInv, LocalType, Post, At, KindInv
<1>1. links[batch.key].roster = None /\ batch.goal[batch.key] \in Versions /\ batch.key \in Keys
  BY <1>0, KindKeys DEF LinkInv, Creating, IInv, OwnInv
<1> PICK k \in Keys : k = batch.key
  BY <1>1
<1>2. ASSUME NEW r \in Rosters, Created(r)
      PROVE  /\ OwnIsLinked'
             /\ \A s \in Standing(k)' : s = r /\ deputy'[s] = batch.goal[batch.key]
  <2>1. /\ r[1] = batch.key /\ deputy'[r] = batch.goal[batch.key]
        /\ \A s \in Rosters : s # r => (Untouched(s)' <=> Untouched(s)) /\ deputy'[s] = deputy[s]
    BY <1>2 DEF Created, IInv, RemoteType, Untouched
  <2>2. \A h \in Keys : h # k => Standing(h)' \subseteq Standing(h)
    BY <2>1 DEF Standing
  <2>3. OwnIsLinked'
    BY <1>0, <1>1, <2>2 DEF LinkInv, OwnIsLinked
  <2>4. ASSUME NEW s \in Standing(k)', s # r
        PROVE  FALSE
    BY <1>0, <2>1, <2>4 DEF Standing, OwnInv
  <2> QED BY <2>1, <2>3, <2>4
<1>3. ASSUME NEW r \in Rosters, Created(r), batch' = [batch EXCEPT !.pc = "readback", !.target = r]
      PROVE  LinkInv'
  <2>1. /\ batch'.pc = "readback" /\ batch'.key = batch.key /\ batch'.goal = batch.goal
        /\ batch'.target = r /\ Kind' = Kind
    BY <1>0, <1>3 DEF BatchState, Kind
  <2> QED BY <1>0, <1>1, <1>2, <1>3, <2>1 DEF LinkInv, Creating
<1>4. ASSUME NEW r \in Rosters, Created(r), NEW s, Stop(s)
      PROVE  LinkInv'
  <2>1. batch'.pc = "idle"
    BY <1>4 DEF Stop, NoBatch
  <2> QED BY <1>2, <1>4, <2>1, NoCreate
<1>5. ASSUME NEW r \in Rosters, Created(r), Goto("reconcile")
      PROVE  LinkInv'
  <2>1. batch'.pc = "reconcile" /\ batch'.key = batch.key /\ batch'.goal = batch.goal /\ Kind' = Kind
    BY <1>0, <1>5 DEF Goto, BatchState, Kind
  <2> QED BY <1>0, <1>1, <1>2, <1>5, <2>1 DEF LinkInv, Creating
<1>6. ASSUME NEW s, Stop(s), UNCHANGED remote
      PROVE  LinkInv'
  BY <1>0, <1>6, StopLinks, RemoteKept
<1> QED BY <1>3, <1>4, <1>5, <1>6 DEF Post

LEMMA WriteLinks ==
    ASSUME IInv, LinkInv, batch.pc \in {"put", "delete"}, NEW v \in Versions \cup {None},
           NEW then \in {"readback", "gone"}, Write(v, then)
    PROVE  LinkInv'
<1>1. batch.target \in Rosters /\ Kind # "create" /\ UNCHANGED links
  BY TargetKnown DEF IInv, KindInv, Write
<1>2. ASSUME Written(batch.target, v)
      PROVE  Fewer
  BY <1>1, <1>2 DEF Written, Writable, Fewer, Standing, Untouched, IInv, RemoteType
<1>3. ASSUME Fewer, NEW s, Stop(s)
      PROVE  LinkInv'
  BY <1>1, <1>3, QuietLinks DEF Stop, NoBatch
<1>4. UNCHANGED remote => Fewer
  BY RemoteKept, KeptFewer
<1>5. ASSUME Fewer, Goto(then) \/ Goto("reconcile")
      PROVE  LinkInv'
  BY <1>1, <1>5, GotoLinks
<1> QED BY <1>2, <1>3, <1>4, <1>5 DEF Write

\* The link is saved for the roster that stands.
LEMMA ReadBackLinks ==
    ASSUME IInv, LinkInv, ReadBack
    PROVE  LinkInv'
<1>0. batch \in BatchState /\ batch.pc = "readback" /\ Kind \in {"create", "update"} /\ UNCHANGED remote
  BY DEF IInv, LocalType, ReadBack, At, KindInv
<1>1. \A k : Standing(k)' = Standing(k)
  BY <1>0 DEF Standing, Untouched, remote
<1>2. CASE SaveLink(batch.target, batch.own) /\ Goto("finish")
  <2>1. batch'.pc = "finish" /\ batch.key \in Keys
    BY <1>0, <1>2, KindKeys DEF Goto, BatchState, IInv
  <2>2. /\ links'[batch.key].roster = batch.target
        /\ \A k \in Keys : k # batch.key => links'[k] = links[k]
    BY <1>2, <2>1 DEF SaveLink, IInv, LocalType
  <2>3. Standing(batch.key) \subseteq {batch.target}
    <3>1. CASE Kind = "create"
      BY <1>0, <3>1 DEF LinkInv
    <3>2. CASE Kind = "update"
      <4>1. batch.target = links[batch.key].roster /\ batch.target \in Rosters
        BY <1>0, <3>2, TargetKnown
      <4> QED BY <2>1, <4>1, DeputyWritesAssumption DEF LinkInv, OwnIsLinked, Rosters
    <3> QED BY <1>0, <3>1, <3>2
  <2>4. OwnIsLinked'
    BY <1>1, <2>2, <2>3 DEF LinkInv, OwnIsLinked
  <2> QED BY <2>1, <2>4, NoCreate
<1> QED BY <1>0, <1>2, StopLinks, RemoteKept DEF ReadBack

LEMMA OperationLinks ==
    ASSUME IInv, OwnInv, LinkInv, Operation
    PROVE  LinkInv'
<1>0. batch \in BatchState
  BY DEF IInv, LocalType
<1>1. CASE Put
  <2>1. batch.pc = "put" /\ Kind = "update" /\ Write(batch.goal[batch.key], "readback")
    BY <1>1 DEF Put, At, IInv, KindInv
  <2>2. batch.goal[batch.key] \in Versions
    BY <2>1, TargetKnown
  <2> QED BY <2>1, <2>2, WriteLinks
<1>2. CASE Delete
  BY <1>2, WriteLinks DEF Delete, At
<1>3. Verified => batch'.pc = "next"
  BY <1>0 DEF Verified, BatchState
<1>4. CASE Read
  <2>1. UNCHANGED links /\ Kept /\ Fewer /\ Kind # "create"
    BY <1>4, RemoteKept, KeptFewer DEF Read, At, IInv, KindInv
  <2>2. CASE Goto(IF Kind = "update" THEN "put" ELSE "delete")
    BY <2>1, <2>2, GotoLinks
  <2> QED BY <1>3, <1>4, <2>1, <2>2, StopLinks, QuietLinks DEF Read
<1>5. CASE ReadGone
  <2>1. Kept /\ Fewer /\ Kind = "delete"
    BY <1>5, RemoteKept, KeptFewer DEF ReadGone, At, IInv, KindInv
  <2>2. CASE /\ links' = [links EXCEPT ![batch.key].roster = None, ![batch.key].base = None]
             /\ Goto("finish")
    <3>1. batch'.pc = "finish" /\ \A k \in Keys : links'[k].roster \in {links[k].roster, None}
      BY <1>0, <2>2 DEF Goto, BatchState, IInv, LocalType, Link
    <3> QED BY <2>1, <3>1, QuietLinks
  <2> QED BY <1>5, <2>1, <2>2, StopLinks DEF ReadGone
<1>6. CASE Finish
  BY <1>3, <1>6, RemoteKept, KeptFewer, QuietLinks DEF Finish
<1>7. CASE PublishRead
  <2>1. Kept /\ Fewer /\ UNCHANGED links /\ Kind = "publish"
    BY <1>7, RemoteKept, KeptFewer DEF PublishRead, At, IInv, KindInv
  <2>2. CASE batch' = [batch EXCEPT !.pc = "publish", !.fresh = batch.ids \ published]
    <3>1. batch'.pc = "publish" /\ Kind' = Kind /\ OwnIsLinked'
      BY <1>0, <2>1, <2>2, FewerLinked DEF BatchState, Kind, LinkInv
    <3> QED BY <2>1, <3>1, NoCreate
  <2> QED BY <1>7, <2>1, <2>2, StopLinks DEF PublishRead
<1>8. CASE PublishPost
  <2>1. Kept /\ UNCHANGED links /\ Kind = "publish"
    BY <1>8, RemoteKept DEF PublishPost, Shown, Kept, Untouched, At, IInv, KindInv
  <2> QED BY <1>8, <2>1, StopLinks, GotoLinks, KeptFewer DEF PublishPost
<1>9. CASE PublishVerify
  BY <1>9, StopLinks, RemoteKept DEF PublishVerify
<1> QED BY <1>1, <1>2, <1>4, <1>5, <1>6, <1>7, <1>8, <1>9, SearchLinks, PostLinks, ReadBackLinks
        DEF Operation

\* One equivalent roster is linked after a lost create: if one of this
\* program's stands it is that one.
LEMMA ReconcileLinks ==
    ASSUME IInv, LinkInv, Reconcile
    PROVE  LinkInv'
<1>0. batch.pc = "reconcile" /\ UNCHANGED remote
  BY DEF Reconcile, At
<1>1. \A k : Standing(k)' = Standing(k)
  BY <1>0 DEF Standing, Untouched, remote
<1>2. CASE Kind = "create"
  <2> DEFINE E == Exact(batch.key, batch.goal[batch.key])
  <2>1. batch'.pc = "idle" /\ batch.key \in Keys
    BY <1>2, KindKeys DEF Reconcile, ReconcileCreate, Stop, NoBatch, IInv
  <2>2. CASE UNCHANGED links
    BY <1>0, <2>1, <2>2, RemoteKept, KeptFewer, QuietLinks
  <2>3. CASE Cardinality(E) = 1 /\ \E r \in E : SaveLink(r, "unconfirmed")
    <3>1. PICK r \in E : SaveLink(r, "unconfirmed")
      BY <2>3
    <3>2. /\ links'[batch.key].roster = r
          /\ \A k \in Keys : k # batch.key => links'[k] = links[k]
      BY <2>1, <3>1 DEF SaveLink, IInv, LocalType
    <3>3. \A t \in E : t = r
      BY <2>3, <3>1, ExactOnce
    <3>4. Standing(batch.key) \subseteq E
      BY <1>0, <1>2 DEF LinkInv, Standing, Exact
    <3>5. OwnIsLinked'
      BY <1>1, <3>2, <3>3, <3>4 DEF LinkInv, OwnIsLinked
    <3> QED BY <2>1, <3>5, NoCreate
  <2> QED BY <1>2, <2>2, <2>3 DEF Reconcile, ReconcileCreate
<1>3. CASE Kind # "create"
  <2>1. Verified => batch'.pc = "next"
    BY DEF Verified, IInv, LocalType, BatchState
  <2> QED BY <1>0, <1>3, <2>1, RemoteKept, KeptFewer, StopLinks, QuietLinks DEF Reconcile
<1> QED BY <1>2, <1>3

LEMMA FailureLinks ==
    ASSUME IInv, LinkInv, OwnInv, Failure
    PROVE  LinkInv'
<1>0. batch \in BatchState
  BY DEF IInv, LocalType
<1>1. CASE RequestLost
  <2>1. Kept /\ Fewer /\ UNCHANGED <<links, remote>> /\ batch.pc \in Requests
    BY <1>1, RemoteKept, KeptFewer DEF RequestLost
  <2>2. CASE Goto("reconcile") /\ Kind = "create" /\ batch.sent
    <3>1. /\ batch'.pc = "reconcile" /\ batch'.key = batch.key /\ batch'.goal = batch.goal
          /\ Kind' = Kind
      BY <1>0, <2>2 DEF Goto, BatchState, Kind
    <3>2. batch.pc \in {"post", "readback"}
      BY <2>1, <2>2 DEF Requests, IInv, KindInv, LinkInv
    <3>3. links[batch.key].roster = None
      BY <2>2, <3>2 DEF LinkInv, Creating
    <3>4. \A r \in Standing(batch.key) : deputy[r] = batch.goal[batch.key]
      BY <2>2, <3>2 DEF LinkInv, OwnInv, Standing
    <3>5. Standing(batch.key)' = Standing(batch.key) /\ UNCHANGED deputy /\ OwnIsLinked'
      BY <2>1, <3>1, FewerLinked DEF Standing, Untouched, remote, LinkInv
    <3> QED BY <2>1, <3>1, <3>3, <3>4, <3>5 DEF LinkInv, Creating
  <2>3. CASE Goto("reconcile") /\ Kind # "create"
    BY <2>1, <2>3, GotoLinks
  <2> QED BY <1>1, <2>1, <2>2, <2>3, StopLinks DEF RequestLost
<1>2. CASE ReadFails
  BY <1>2, RemoteKept, StopLinks DEF ReadFails
<1>3. CASE ReconcileFails \/ Crash
  <2>1. UNCHANGED links /\ Kept /\ Fewer /\ batch'.pc = "idle"
    BY <1>3, RemoteKept, KeptFewer DEF ReconcileFails, Crash, Stop, NoBatch
  <2> QED BY <2>1, QuietLinks
<1> QED BY <1>1, <1>2, <1>3, ReconcileLinks DEF Failure

LEMMA OutsideLinks ==
    ASSUME IInv, LinkInv, Kept, UNCHANGED <<links, batch>>
    PROVE  LinkInv'
<1>1. OwnIsLinked'
  BY KeptFewer, FewerLinked DEF LinkInv
<1>2. \A k : \A r \in Standing(k)' : r \in Standing(k) /\ deputy'[r] = deputy[r]
  BY DEF Kept, Standing
<1>3. Kind' = Kind
  BY DEF Kind
<1> QED BY <1>1, <1>2, <1>3 DEF LinkInv, Creating

\* A shift this program created and nobody else edited is never abandoned: as
\* long as it stands in Deputy, _save_roster_link never binds its assignment to
\* another roster, whichever requests were lost, refused or retried, and
\* whatever others added in between.
THEOREM NoShiftAbandoned == Spec => []OwnIsLinked
<1>1. Init => LinkInv
  <2> SUFFICES ASSUME Init PROVE LinkInv
    OBVIOUS
  <2>1. \A k \in Keys : links[k].roster = None
    BY DEF Init, NoLink
  <2> QED BY <2>1 DEF Init, NoBatch, LinkInv, OwnIsLinked, Creating
<1>2. IInv /\ OwnInv /\ LinkInv /\ [Next]_vars => LinkInv'
  <2> SUFFICES ASSUME IInv, OwnInv, LinkInv, [Next]_vars
               PROVE  LinkInv'
    OBVIOUS
  <2>1. CASE Outside
    <3>1. UNCHANGED <<links, batch>>
      BY <2>1 DEF Outside, local, WorkdayChanges, OutsideAdds, OutsideEdits, OutsideRemoves, TimesheetLocks
    <3>2. Kept
      BY <2>1, OutsideQuiet, QuietKept
    <3> QED BY <3>1, <3>2, OutsideLinks
  <2>2. CASE UNCHANGED vars
    BY <2>2, RemoteKept, OutsideLinks DEF vars, local
  <2> QED BY <2>1, <2>2, BatchLinks, OperationLinks, FailureLinks DEF Next
<1>3. LinkInv => OwnIsLinked
  BY DEF LinkInv
<1> QED BY <1>1, <1>2, <1>3, Inductive, OwnShifts, PTL DEF Spec

=============================================================================
