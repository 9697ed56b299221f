------------------------------- MODULE Backups -------------------------------
(***************************************************************************)
(* app/backup_service.py: create_backup under its process lock, and the    *)
(* retention that follows a successful one.  Directories are sets of       *)
(* files, filled and emptied one file at a time, so that a process that    *)
(* stops, a failing disk or a file held by a scanner leaves what it really *)
(* leaves.  Ids are in the order of the attempts.  What an attempt leaves  *)
(* under its .tmp- name is never read again and is not kept here.          *)
(***************************************************************************)
EXTENDS Naturals

CONSTANTS
    RetentionDays,  \* backup_retention_days
    MaxBackups,     \* bound: attempts
    MaxDay          \* bound: the clock

ASSUME BackupsAssumption ==
    RetentionDays \in Nat /\ MaxBackups \in Nat /\ MaxDay \in Nat

BackupIds == 1..MaxBackups

\* "data" stands for the database and the persistent files copied after it.
Files == {"data", "pending", "manifest"}

VARIABLES
    day,       \* the clock
    attempts,  \* backup ids handed out
    created,   \* created_at of each attempt's manifest
    files,     \* files of its published directory
    runs,      \* status of its backup_runs row
    job        \* the attempt that holds _backup_lock, with its local variables

backupVars == <<day, attempts, created, files, runs, job>>

NoJob == [pc |-> "idle", built |-> {}, todo |-> {}]

\* _managed_manifest: the manifest is there and says "success".
Managed(b) == "manifest" \in files[b]

\* validate_backup accepts it.
Restorable(b) == Managed(b) /\ "data" \in files[b]

BackupInit ==
    /\ day = 0 /\ attempts = 0
    /\ created = [b \in BackupIds |-> 0]
    /\ files = [b \in BackupIds |-> {}]
    /\ runs = [b \in BackupIds |-> "none"]
    /\ job = NoJob

-----------------------------------------------------------------------------
(* create_backup                                                            *)

\* The lock is taken and the attempt gets a name nobody uses.  Whoever finds the
\* lock taken is told so and only leaves a failed row without an id.
BackupBegins ==
    /\ job.pc = "idle" /\ attempts < MaxBackups
    /\ attempts' = attempts + 1
    /\ created' = [created EXCEPT ![attempts + 1] = day]
    /\ job' = [NoJob EXCEPT !.pc = "building"]
    /\ UNCHANGED <<day, files, runs>>

\* The validated copies and then manifest.json.pending, into the temporary
\* directory.
BackupBuilds ==
    /\ job.pc = "building"
    /\ job' = IF job.built = {} THEN [job EXCEPT !.built = {"data"}]
              ELSE [job EXCEPT !.built = @ \cup {"pending"}, !.pc = "publishing"]
    /\ UNCHANGED <<day, attempts, created, files, runs>>

\* The directory takes its final name at once.
BackupRenames ==
    /\ job.pc = "publishing" /\ files[attempts] = {}
    /\ files' = [files EXCEPT ![attempts] = job.built]
    /\ job' = [job EXCEPT !.pc = "promoting"]
    /\ UNCHANGED <<day, attempts, created, runs>>

\* The rename is denied (PermissionError): its files are copied one by one.
BackupCopies ==
    /\ job.pc = "publishing"
    /\ \E f \in job.built \ files[attempts] :
          files' = [files EXCEPT ![attempts] = @ \cup {f}]
    /\ job' = IF files'[attempts] = job.built THEN [job EXCEPT !.pc = "promoting"] ELSE job
    /\ UNCHANGED <<day, attempts, created, runs>>

\* manifest.json.pending becomes manifest.json.
BackupPromotes ==
    /\ job.pc = "promoting"
    /\ files' = [files EXCEPT ![attempts] = (@ \ {"pending"}) \cup {"manifest"}]
    /\ job' = [job EXCEPT !.pc = "recording"]
    /\ UNCHANGED <<day, attempts, created, runs>>

\* The success row, after which only retention is left.
BackupRecords ==
    /\ job.pc = "recording"
    /\ runs' = [runs EXCEPT ![attempts] = "success"]
    /\ job' = [job EXCEPT !.pc = "scanning"]
    /\ UNCHANGED <<day, attempts, created, files>>

\* An exception before the success row is stored: a failed row is tried.
BackupFails ==
    /\ job.pc \in {"building", "publishing", "promoting", "recording"}
    /\ \E row \in {"none", "failed"} : runs' = [runs EXCEPT ![attempts] = row]
    /\ job' = NoJob
    /\ UNCHANGED <<day, attempts, created, files>>

-----------------------------------------------------------------------------
(* prune_managed_backups                                                    *)

\* One of the managed directories with the latest created_at.
Newest(b) == Managed(b) /\ \A c \in BackupIds : Managed(c) => created[c] <= created[b]

\* Mutant of Expired: a backup goes on its last day.
ExpiredEarly(b) == Managed(b) /\ created[b] + RetentionDays <= day

Expired(b) == Managed(b) /\ created[b] + RetentionDays < day

\* Mutant of GivenUp: the newest one goes like the others.
GivenUpAll(k) == {b \in BackupIds : Expired(b)}

\* What a scan gives up when it keeps k.
GivenUp(k) == {b \in BackupIds : Expired(b)} \ {k}

PruneScans ==
    /\ job.pc = "scanning"
    /\ \E k \in BackupIds : Newest(k) /\ job' = [job EXCEPT !.pc = "removing", !.todo = GivenUp(k)]
    /\ UNCHANGED <<day, attempts, created, files, runs>>

\* rmtree of one of them, file by file in no particular order.
PruneRemoves ==
    /\ job.pc = "removing"
    /\ \E b \in job.todo : \E f \in files[b] :
          /\ files' = [files EXCEPT ![b] = @ \ {f}]
          /\ job' = IF files[b] = {f} THEN [job EXCEPT !.todo = @ \ {b}] ELSE job
    /\ UNCHANGED <<day, attempts, created, runs>>

\* A file of it stays in use through every attempt (PermissionError).
PruneDenied ==
    /\ job.pc = "removing"
    /\ \E b \in job.todo : job' = [job EXCEPT !.todo = @ \ {b}]
    /\ UNCHANGED <<day, attempts, created, files, runs>>

\* Retention is through, or was cut short by an exception nobody hears of.
PruneEnds ==
    /\ job.pc \in {"scanning", "removing"}
    /\ job' = NoJob
    /\ UNCHANGED <<day, attempts, created, files, runs>>

-----------------------------------------------------------------------------
(* The environment                                                          *)

DayPasses ==
    /\ day < MaxDay /\ day' = day + 1
    /\ UNCHANGED <<attempts, created, files, runs, job>>

\* The process stops and starts again; no step of start-up looks at backups.
BackupProcessStops ==
    /\ job.pc # "idle"
    /\ job' = NoJob
    /\ UNCHANGED <<day, attempts, created, files, runs>>

BackupNext ==
    \/ BackupBegins \/ BackupBuilds \/ BackupRenames \/ BackupCopies
    \/ BackupPromotes \/ BackupRecords \/ BackupFails
    \/ PruneScans \/ PruneRemoves \/ PruneDenied \/ PruneEnds
    \/ DayPasses \/ BackupProcessStops

BackupSpec == BackupInit /\ [][BackupNext]_backupVars

-----------------------------------------------------------------------------
(* Properties                                                               *)

BackupTypeOK ==
    /\ day \in Nat /\ attempts \in 0..MaxBackups
    /\ created \in [BackupIds -> Nat]
    /\ files \in [BackupIds -> SUBSET Files]
    /\ runs \in [BackupIds -> {"none", "success", "failed"}]
    /\ job \in
          [pc : {"idle", "building", "publishing", "promoting", "recording", "scanning", "removing"},
           built : SUBSET Files, todo : SUBSET BackupIds]

\* A backup recorded as successful can be restored until retention may have
\* taken it, whatever failed, stopped or was denied since.
SuccessIsRestorable ==
    \A b \in BackupIds : runs[b] = "success" => Restorable(b) \/ created[b] + RetentionDays < day

\* A manifest never vouches for files that were not all published: it is put in
\* place last, and a directory that lost some to retention is past its time.
ManifestVouches ==
    \A b \in BackupIds : Managed(b) => Restorable(b) \/ created[b] + RetentionDays < day

Store == INSTANCE BackupStore
    WITH BackupIds <- BackupIds, good <- {b \in BackupIds : Restorable(b)}

\* Attempts, partial copies, retention and stops implement a store in which
\* backups appear whole and the last one is never lost.
ImplementsStore == Store!StoreSpec

=============================================================================
