----------------------------- MODULE BackupsProofs -----------------------------
(***************************************************************************)
(* Backups keeps what BackupStore promises, for any retention, any number  *)
(* of attempts and any time that passes: the inductive invariant, the      *)
(* backups that can be restored, and the refinement.                       *)
(***************************************************************************)
EXTENDS Backups, TLAPS

Early == {"building", "publishing", "promoting", "recording"}

JobState ==
    [pc : {"idle", "building", "publishing", "promoting", "recording", "scanning", "removing"},
     built : SUBSET Files, todo : SUBSET BackupIds]

\* Attempts to come have left nothing; the one under way no row.
Fresh ==
    /\ \A b \in BackupIds : b > attempts => files[b] = {} /\ runs[b] = "none"
    /\ job.pc \in Early => runs[attempts] = "none"
    /\ job.pc # "idle" => attempts \in BackupIds

\* What the attempt under way has on disk.
Progress ==
    /\ job.pc = "building" => job.built \in {{}, {"data"}} /\ files[attempts] = {}
    /\ job.pc = "publishing" => job.built = {"data", "pending"} /\ files[attempts] \subseteq job.built
    /\ job.pc = "promoting" => files[attempts] = {"data", "pending"}
    /\ job.pc \in {"recording", "scanning"} => Restorable(attempts)

Clock ==
    /\ \A b \in BackupIds : created[b] <= day
    /\ \A b, c \in BackupIds : b < c /\ c <= attempts => created[b] <= created[c]

\* A directory with a manifest and without its files was too old for retention
\* before the attempt under way began.
Torn ==
    \A b \in BackupIds : Managed(b) /\ ~Restorable(b) =>
        /\ created[b] + RetentionDays < day
        /\ job.pc \notin {"idle", "removing"} =>
             b < attempts /\ created[b] + RetentionDays < created[attempts]

\* Retention keeps one that can be restored, and removes what is too old.
Removing ==
    job.pc = "removing" =>
        /\ \E k \in BackupIds : Restorable(k) /\ k \notin job.todo
        /\ \A b \in job.todo : created[b] + RetentionDays < day

BackupInv == BackupTypeOK /\ Fresh /\ Progress /\ Clock /\ Torn /\ Removing /\ SuccessIsRestorable

-----------------------------------------------------------------------------
(* The actions                                                              *)

LEMMA BeginsInv == BackupInv /\ BackupBegins => BackupInv'
<1> SUFFICES ASSUME BackupInv, BackupBegins PROVE BackupInv'
  OBVIOUS
<1> DEFINE n == attempts + 1
<1>1. /\ attempts \in 0..MaxBackups /\ n \in BackupIds /\ attempts' = n /\ day \in Nat
      /\ job.pc = "idle" /\ job'.pc = "building" /\ job'.built = {} /\ UNCHANGED <<day, files, runs>>
      /\ created' = [created EXCEPT ![n] = day] /\ MaxBackups \in Nat /\ RetentionDays \in Nat
  BY BackupsAssumption DEF BackupBegins, BackupInv, BackupTypeOK, BackupIds, NoJob
<1>2. /\ files[n] = {} /\ runs[n] = "none" /\ created'[n] = day
      /\ \A b \in BackupIds : b # n => created'[b] = created[b]
      /\ \A b \in BackupIds : b \in Nat /\ created[b] \in Nat
  BY <1>1 DEF BackupInv, BackupTypeOK, Fresh, BackupIds
<1>3. BackupTypeOK'
  <2>1. job' \in JobState
    BY DEF BackupBegins, NoJob, JobState
  <2>2. created' \in [BackupIds -> Nat] /\ attempts' \in 0..MaxBackups
    BY <1>1 DEF BackupInv, BackupTypeOK, BackupIds
  <2> QED BY <1>1, <2>1, <2>2 DEF BackupInv, BackupTypeOK, JobState
<1>4. Fresh' /\ Progress'
  BY <1>1, <1>2 DEF BackupInv, Fresh, Progress, Early
<1>5. Clock'
  BY <1>1, <1>2 DEF BackupInv, Clock
<1>6. Torn'
  <2> SUFFICES ASSUME NEW b \in BackupIds, Managed(b), ~Restorable(b)
               PROVE  /\ created'[b] + RetentionDays < day /\ b < n
                      /\ created'[b] + RetentionDays < created'[n]
    BY <1>1 DEF Torn, Managed, Restorable
  <2>1. ~(b > attempts) /\ created[b] + RetentionDays < day
    BY DEF BackupInv, Fresh, Managed, Torn
  <2> QED BY <1>1, <1>2, <2>1
<1>7. Removing'
  BY <1>1 DEF Removing
<1>8. SuccessIsRestorable'
  BY <1>1, <1>2 DEF BackupInv, SuccessIsRestorable, Restorable, Managed
<1> QED BY <1>3, <1>4, <1>5, <1>6, <1>7, <1>8 DEF BackupInv

\* A step of the attempt under way that touches neither the clock nor a manifest
\* of another one.
LEMMA AttemptStep ==
    ASSUME BackupInv, job.pc \in Early, UNCHANGED <<day, attempts, created>>, BackupTypeOK',
           \A b \in BackupIds : b # attempts => files'[b] = files[b] /\ runs'[b] = runs[b],
           "manifest" \in files'[attempts] => Restorable(attempts)',
           runs'[attempts] = "success" => Restorable(attempts)',
           job'.pc \in Early => runs'[attempts] = "none",
           job'.pc # "removing", Progress'
    PROVE  BackupInv'
<1>1. attempts \in BackupIds /\ \A b \in BackupIds : b \in Nat
  BY DEF BackupInv, Fresh, Early, BackupIds
<1>2. Fresh'
  BY <1>1 DEF BackupInv, Fresh
<1>3. Clock' /\ Removing'
  BY DEF BackupInv, Clock, Removing
<1>4. Torn'
  BY <1>1 DEF BackupInv, Torn, Restorable, Managed, Early
<1>5. SuccessIsRestorable'
  BY <1>1 DEF BackupInv, SuccessIsRestorable, Restorable, Managed
<1> QED BY <1>2, <1>3, <1>4, <1>5 DEF BackupInv

LEMMA AttemptInv ==
    ASSUME BackupInv,
           \/ BackupBuilds \/ BackupRenames \/ BackupCopies \/ BackupPromotes \/ BackupRecords \/ BackupFails
    PROVE  BackupInv'
<1>1. /\ job.pc \in Early /\ attempts \in BackupIds /\ runs[attempts] = "none"
      /\ UNCHANGED <<day, attempts, created>> /\ files \in [BackupIds -> SUBSET Files]
      /\ runs \in [BackupIds -> {"none", "success", "failed"}]
  BY DEF BackupBuilds, BackupRenames, BackupCopies, BackupPromotes, BackupRecords, BackupFails, Early,
         BackupInv, BackupTypeOK, Fresh
<1>2. BackupTypeOK'
  <2>1. job \in JobState
    BY DEF BackupInv, BackupTypeOK, JobState
  <2>2. job' \in JobState
    <3>1. CASE BackupBuilds
      BY <2>1, <3>1 DEF BackupBuilds, JobState, Files
    <3>2. CASE BackupCopies
      BY <2>1, <3>2 DEF BackupCopies, JobState
    <3>3. CASE BackupRenames \/ BackupPromotes \/ BackupRecords \/ BackupFails
      BY <2>1, <3>3 DEF BackupRenames, BackupPromotes, BackupRecords, BackupFails, NoJob, JobState
    <3> QED BY <3>1, <3>2, <3>3
  <2>3. files' \in [BackupIds -> SUBSET Files]
    BY <1>1, <2>1 DEF BackupBuilds, BackupRenames, BackupCopies, BackupPromotes, BackupRecords, BackupFails,
                      JobState, Files
  <2>4. runs' \in [BackupIds -> {"none", "success", "failed"}]
    BY <1>1 DEF BackupBuilds, BackupRenames, BackupCopies, BackupPromotes, BackupRecords, BackupFails
  <2> QED BY <1>1, <2>2, <2>3, <2>4 DEF BackupInv, BackupTypeOK, JobState
<1>3. CASE BackupBuilds
  <2>1. job'.pc \in {"building", "publishing"} /\ UNCHANGED <<files, runs>>
        /\ job'.built = (IF job.built = {} THEN {"data"} ELSE job.built \cup {"pending"})
        /\ (job'.pc = "publishing" => job.built # {})
        /\ job.pc = "building"
    BY <1>3 DEF BackupBuilds, BackupInv, BackupTypeOK
  <2>2. job.built \in {{}, {"data"}} /\ files[attempts] = {}
    BY <2>1 DEF BackupInv, Progress
  <2>3. job'.pc = "building" => job.built = {}
    BY <1>3 DEF BackupBuilds, BackupInv, BackupTypeOK
  <2>4. Progress'
    BY <1>1, <2>1, <2>2, <2>3 DEF Progress
  <2> QED BY <1>1, <1>2, <2>1, <2>2, <2>4, AttemptStep DEF Early
<1>4. CASE BackupRenames
  <2>1. /\ files'[attempts] = {"data", "pending"} /\ job'.pc = "promoting" /\ UNCHANGED runs
        /\ \A b \in BackupIds : b # attempts => files'[b] = files[b]
    BY <1>1, <1>4 DEF BackupRenames, BackupInv, BackupTypeOK, Progress
  <2>2. Progress'
    BY <1>1, <2>1 DEF Progress
  <2> QED BY <1>1, <1>2, <2>1, <2>2, AttemptStep DEF Early
<1>5. CASE BackupCopies
  <2>1. /\ job.built = {"data", "pending"} /\ files'[attempts] \subseteq job.built /\ UNCHANGED runs
        /\ job'.built = job.built /\ job'.pc \in {"publishing", "promoting"}
        /\ job'.pc = "promoting" => files'[attempts] = job.built
        /\ \A b \in BackupIds : b # attempts => files'[b] = files[b]
    BY <1>1, <1>5 DEF BackupCopies, BackupInv, BackupTypeOK, Progress
  <2>2. Progress'
    BY <1>1, <2>1 DEF Progress
  <2> QED BY <1>1, <1>2, <2>1, <2>2, AttemptStep DEF Early
<1>6. CASE BackupPromotes
  <2>1. /\ files[attempts] = {"data", "pending"} /\ job'.pc = "recording" /\ UNCHANGED runs
        /\ files'[attempts] = (files[attempts] \ {"pending"}) \cup {"manifest"}
        /\ \A b \in BackupIds : b # attempts => files'[b] = files[b]
    BY <1>1, <1>6 DEF BackupPromotes, BackupInv, BackupTypeOK, Progress
  <2>2. Restorable(attempts)'
    BY <1>1, <2>1 DEF Restorable, Managed
  <2>3. Progress'
    BY <1>1, <2>1, <2>2 DEF Progress, Restorable, Managed
  <2> QED BY <1>1, <1>2, <2>1, <2>2, <2>3, AttemptStep DEF Early
<1>7. CASE BackupRecords
  <2>1. /\ UNCHANGED files /\ job'.pc = "scanning"
        /\ \A b \in BackupIds : b # attempts => runs'[b] = runs[b]
    BY <1>1, <1>7 DEF BackupRecords, BackupInv, BackupTypeOK
  <2>2. Restorable(attempts)
    BY <1>7 DEF BackupRecords, BackupInv, Progress
  <2>3. Restorable(attempts)'
    BY <1>1, <2>1, <2>2 DEF Restorable, Managed
  <2>4. Progress'
    BY <1>1, <2>1, <2>3 DEF Progress, Restorable, Managed
  <2> QED BY <1>1, <1>2, <2>1, <2>3, <2>4, AttemptStep DEF Early
<1>8. CASE BackupFails
  <2>1. /\ UNCHANGED files /\ job'.pc = "idle" /\ runs'[attempts] \in {"none", "failed"}
        /\ \A b \in BackupIds : b # attempts => runs'[b] = runs[b]
    BY <1>1, <1>8 DEF BackupFails, NoJob
  <2>2. Progress'
    BY <2>1 DEF Progress
  <2>3. "manifest" \in files[attempts] => Restorable(attempts)
    BY <1>1 DEF BackupInv, Torn, Managed, BackupIds, Early
  <2>4. "manifest" \in files'[attempts] => Restorable(attempts)'
    BY <1>1, <2>1, <2>3 DEF Restorable, Managed
  <2> QED BY <1>1, <1>2, <2>1, <2>2, <2>4, AttemptStep DEF Early
<1> QED BY <1>3, <1>4, <1>5, <1>6, <1>7, <1>8

\* A step that only ends the attempt or lets time pass.
LEMMA QuietInv ==
    ASSUME BackupInv, UNCHANGED <<attempts, created, files, runs>>,
           \/ DayPasses
           \/ UNCHANGED day /\ (job' = job \/ job' = NoJob)
    PROVE  BackupInv'
<1>1. day \in Nat /\ day' \in Nat /\ day <= day' /\ (job' = job \/ job' = NoJob)
      /\ RetentionDays \in Nat /\ \A b \in BackupIds : created[b] \in Nat
  BY BackupsAssumption DEF DayPasses, BackupInv, BackupTypeOK
<1>2. BackupTypeOK'
  BY <1>1 DEF BackupInv, BackupTypeOK, NoJob
<1>3. Fresh' /\ Progress'
  BY <1>1 DEF BackupInv, Fresh, Progress, Restorable, Managed, NoJob, Early
<1>5. Removing'
  <2>1. job.todo \subseteq BackupIds
    BY DEF BackupInv, BackupTypeOK
  <2> QED BY <1>1, <2>1 DEF BackupInv, Removing, Restorable, Managed, NoJob
<1>4. Clock' /\ Torn' /\ SuccessIsRestorable'
  BY <1>1 DEF BackupInv, Clock, Torn, SuccessIsRestorable, Restorable, Managed, NoJob
<1> QED BY <1>2, <1>3, <1>4, <1>5 DEF BackupInv

\* What the scan keeps can be restored.
LEMMA NewestRestorable ==
    ASSUME BackupInv, job.pc = "scanning", NEW k \in BackupIds, Newest(k)
    PROVE  Restorable(k)
<1>1. Restorable(attempts) /\ attempts \in BackupIds
  BY DEF BackupInv, Progress, Fresh
<1>2. created[attempts] <= created[k] /\ Managed(k)
  BY <1>1 DEF Newest, Restorable
<1>3. created[k] \in Nat /\ created[attempts] \in Nat /\ RetentionDays \in Nat
  BY <1>1, BackupsAssumption DEF BackupInv, BackupTypeOK
<1> QED BY <1>2, <1>3 DEF BackupInv, Torn

LEMMA ScansInv == BackupInv /\ PruneScans => BackupInv'
<1> SUFFICES ASSUME BackupInv, PruneScans PROVE BackupInv'
  OBVIOUS
<1>1. PICK k \in BackupIds : Newest(k) /\ job' = [job EXCEPT !.pc = "removing", !.todo = GivenUp(k)]
  BY DEF PruneScans
<1>2. job.pc = "scanning" /\ UNCHANGED <<day, attempts, created, files, runs>>
  BY DEF PruneScans
<1>3. job'.pc = "removing" /\ job'.todo = GivenUp(k) /\ BackupTypeOK'
  <2>1. GivenUp(k) \in SUBSET BackupIds
    BY DEF GivenUp
  <2> HIDE DEF GivenUp
  <2>2. job \in JobState
    BY DEF BackupInv, BackupTypeOK, JobState
  <2>3. job' \in JobState /\ job'.pc = "removing" /\ job'.todo = GivenUp(k)
    BY <1>1, <2>1, <2>2 DEF JobState
  <2> QED BY <1>2, <2>3 DEF BackupInv, BackupTypeOK, JobState
<1>4. Removing'
  <2>1. Restorable(k)' /\ k \notin GivenUp(k)
    BY <1>1, <1>2, NewestRestorable DEF Restorable, Managed, GivenUp
  <2>2. \A b \in GivenUp(k) : created[b] + RetentionDays < day
    BY DEF GivenUp, Expired
  <2> QED BY <1>2, <1>3, <2>1, <2>2 DEF Removing
<1>5. Fresh' /\ Progress'
  BY <1>2, <1>3 DEF BackupInv, Fresh, Progress, Early
<1>6. Clock' /\ Torn' /\ SuccessIsRestorable'
  BY <1>2, <1>3 DEF BackupInv, Clock, Torn, SuccessIsRestorable, Restorable, Managed
<1> QED BY <1>3, <1>4, <1>5, <1>6 DEF BackupInv

LEMMA RemovesInv == BackupInv /\ (PruneRemoves \/ PruneDenied) => BackupInv'
<1> SUFFICES ASSUME BackupInv, PruneRemoves \/ PruneDenied PROVE BackupInv'
  OBVIOUS
<1>1. job.pc = "removing" /\ UNCHANGED <<day, attempts, created, runs>>
  BY DEF PruneRemoves, PruneDenied
<1>2. /\ job'.pc = "removing" /\ job'.todo \subseteq job.todo /\ BackupTypeOK'
      /\ \A b \in BackupIds : files'[b] \subseteq files[b]
      /\ \A b \in BackupIds : files'[b] # files[b] => b \in job.todo
  BY <1>1 DEF PruneRemoves, PruneDenied, BackupInv, BackupTypeOK
<1>3. \A b \in job.todo : created[b] + RetentionDays < day
  BY <1>1 DEF BackupInv, Removing
<1>4. Removing'
  <2>1. PICK k \in BackupIds : Restorable(k) /\ k \notin job.todo
    BY <1>1 DEF BackupInv, Removing
  <2>2. Restorable(k)'
    BY <1>2, <2>1 DEF Restorable, Managed
  <2> QED BY <1>1, <1>2, <1>3, <2>1, <2>2 DEF Removing
<1>5. Fresh' /\ Progress' /\ Clock'
  BY <1>1, <1>2 DEF BackupInv, Fresh, Progress, Clock, Early
<1>6. Torn' /\ SuccessIsRestorable'
  BY <1>1, <1>2, <1>3 DEF BackupInv, Torn, SuccessIsRestorable, Restorable, Managed
<1> QED BY <1>2, <1>4, <1>5, <1>6 DEF BackupInv

-----------------------------------------------------------------------------
(* The theorems                                                             *)

LEMMA BackupInitInv == BackupInit => BackupInv
<1> SUFFICES ASSUME BackupInit PROVE BackupInv
  OBVIOUS
<1>1. BackupTypeOK
  BY BackupsAssumption DEF BackupInit, BackupTypeOK, NoJob
<1>2. Fresh /\ Progress /\ Clock /\ Torn /\ Removing /\ SuccessIsRestorable
  BY DEF BackupInit, Fresh, Progress, Clock, Torn, Removing, SuccessIsRestorable, Managed, Restorable,
         NoJob, Early
<1> QED BY <1>1, <1>2 DEF BackupInv

LEMMA BackupNextInv == BackupInv /\ [BackupNext]_backupVars => BackupInv'
<1> SUFFICES ASSUME BackupInv, [BackupNext]_backupVars PROVE BackupInv'
  OBVIOUS
<1>1. CASE DayPasses \/ BackupProcessStops \/ PruneEnds \/ UNCHANGED backupVars
  <2>1. UNCHANGED <<attempts, created, files, runs>>
        /\ (DayPasses \/ (UNCHANGED day /\ (job' = job \/ job' = NoJob)))
    BY <1>1 DEF DayPasses, BackupProcessStops, PruneEnds, backupVars
  <2> QED BY <2>1, QuietInv
<1> QED BY <1>1, BeginsInv, AttemptInv, ScansInv, RemovesInv DEF BackupNext

\* BackupInv is an inductive invariant of the backups.
THEOREM BackupInvariant == BackupSpec => []BackupInv
BY BackupInitInv, BackupNextInv, PTL DEF BackupSpec

\* The variables keep their types.
THEOREM BackupTypes == BackupSpec => []BackupTypeOK
<1>1. BackupInv => BackupTypeOK
  BY DEF BackupInv
<1> QED BY <1>1, BackupInvariant, PTL

\* What backup_runs calls a success can be restored until its time is over.
THEOREM SuccessesLast == BackupSpec => []SuccessIsRestorable
<1>1. BackupInv => SuccessIsRestorable
  BY DEF BackupInv
<1> QED BY <1>1, BackupInvariant, PTL

\* A manifest vouches for its files until their time is over.
THEOREM ManifestsVouch == BackupSpec => []ManifestVouches
<1>1. BackupInv => ManifestVouches
  BY DEF BackupInv, Torn, ManifestVouches
<1> QED BY <1>1, BackupInvariant, PTL

\* What BackupStore sees.
good == {b \in BackupIds : Restorable(b)}

LEMMA GoodStep ==
    ASSUME BackupInv, [BackupNext]_backupVars
    PROVE  \/ good' = good
           \/ \E b \in BackupIds : b \notin good /\ good' = good \cup {b}
           \/ \E b \in BackupIds : b \in good /\ good # {b} /\ good' = good \ {b}
<1>1. CASE UNCHANGED files
  BY <1>1 DEF good, Restorable, Managed
<1>2. CASE BackupRenames \/ BackupCopies
  <2>1. attempts \in BackupIds /\ job.built = {"data", "pending"} /\ files[attempts] \subseteq job.built
    BY <1>2 DEF BackupRenames, BackupCopies, BackupInv, Fresh, Progress
  <2>2. /\ "manifest" \notin files[attempts] /\ "manifest" \notin files'[attempts]
        /\ \A b \in BackupIds : b # attempts => files'[b] = files[b]
    BY <1>2, <2>1 DEF BackupRenames, BackupCopies, BackupInv, BackupTypeOK
  <2> QED BY <2>2 DEF good, Restorable, Managed
<1>3. CASE BackupPromotes
  <2>1. /\ attempts \in BackupIds /\ files[attempts] = {"data", "pending"}
        /\ files'[attempts] = (files[attempts] \ {"pending"}) \cup {"manifest"}
        /\ \A b \in BackupIds : b # attempts => files'[b] = files[b]
    BY <1>3 DEF BackupPromotes, BackupInv, BackupTypeOK, Fresh, Progress
  <2>2. attempts \notin good /\ good' = good \cup {attempts}
    BY <2>1 DEF good, Restorable, Managed
  <2> QED BY <2>1, <2>2
<1>4. CASE PruneRemoves
  <2>1. PICK b \in BackupIds : /\ b \in job.todo
                               /\ \A c \in BackupIds : c # b => files'[c] = files[c]
                               /\ files'[b] \subseteq files[b]
    BY <1>4 DEF PruneRemoves, BackupInv, BackupTypeOK
  <2>2. PICK k \in BackupIds : Restorable(k) /\ k \notin job.todo
    BY <1>4 DEF PruneRemoves, BackupInv, Removing
  <2>3. k \in good /\ k # b
    BY <2>1, <2>2 DEF good
  <2>4. good' = good \/ (b \in good /\ good' = good \ {b})
    BY <2>1 DEF good, Restorable, Managed
  <2> QED BY <2>1, <2>3, <2>4
<1> QED
  BY <1>1, <1>2, <1>3, <1>4 DEF BackupNext, backupVars, BackupBegins, BackupBuilds, BackupRecords, BackupFails,
     PruneScans, PruneDenied, PruneEnds, DayPasses, BackupProcessStops

\* The backups implement the store in which they appear whole and the last one
\* is never lost.
THEOREM StoreIsImplemented == BackupSpec => ImplementsStore
<1>1. BackupInit => Store!StoreInit
  BY DEF BackupInit, Store!StoreInit, Restorable, Managed
<1>2. BackupInv /\ [BackupNext]_backupVars => [Store!StoreNext]_good
  BY GoodStep DEF Store!StoreNext, Store!Keep, Store!Expire, good
<1> QED BY <1>1, <1>2, BackupInvariant, PTL DEF BackupSpec, ImplementsStore, Store!StoreSpec, good

=============================================================================
