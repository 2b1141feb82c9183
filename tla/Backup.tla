------------------------------- MODULE Backup -------------------------------
(***************************************************************************)
(* Backups: a job collects snapshots of the data one section after the     *)
(* other, writes one archive, uploads it and applies the retention; the    *)
(* hourly clean-up applies the retention too; a restore puts the sections  *)
(* of an archive back one after the other, each in a transaction of its    *)
(* own.  Jobs (scheduled and manual), clean-ups, restores and edits of the *)
(* data interleave at every await of the code.                             *)
(*                                                                         *)
(* The data are versions: an edit gives an item a new version, a snapshot  *)
(* is a function from items to versions, an archive member is a snapshot.  *)
(* An archive is named by its type and the second it is created in, so two *)
(* jobs can meet in one file.                                              *)
(***************************************************************************)
EXTENDS Naturals, Sequences

CONSTANTS
    Job,            \* the jobs: the scheduled one and manual ones
    Types,          \* backup types that are requested
    Included,       \* the backup_* switches that are on in backup_config
    RemoteStorage,  \* storage_type # "local"
    Retention,      \* retention_days, in ticks of the clock
    Edited,         \* the items that are edited meanwhile
    MaxTime, MaxDisturbance   \* bounds: of the clock, and of edits, failures and deletions

ASSUME BoundsAssumption == {Retention, MaxTime, MaxDisturbance} \subseteq Nat
ASSUME OptionsAssumption ==
    /\ Included \subseteq {"database", "config", "whitelist", "logs"}
    /\ Types \subseteq Included \cup {"full"}
    /\ RemoteStorage \in BOOLEAN
    /\ Edited \subseteq {"accounts", "settings", "whitelist", "branding"}

VARIABLES
    now,        \* the clock
    live,       \* version of each item of the running system
    job,        \* what each job collected and how far it is
    local,      \* the backup directory: archives by name
    remote,     \* the remote directory
    removed,    \* names an operator deleted
    restore,    \* the restore under way, or the last one
    disturbed   \* edits, failures and deletions so far

vars == <<now, live, job, local, remote, removed, restore, disturbed>>

Tables == {"accounts", "settings", "whitelist"}
Items == Tables \cup {"branding"}
Name == Types \X (0 .. MaxTime)
NoName == <<"none", 0>>

\* Member names are those os.path.basename leaves in the archive.
Holds == [member \in {"database.sql", "system_config.json", "branding.zip",
                     "whitelist.zip", "logs.zip", "config.zip"} |->
             CASE member = "database.sql" -> Tables
               [] member = "system_config.json" -> {"settings"}
               [] member = "branding.zip" -> {"branding"}
               [] member = "whitelist.zip" -> {"whitelist"}
               [] OTHER -> {}]
Snapshot(items) == [i \in items |-> live[i]]
None == [n \in {} |-> n]
Has(name, members) == name \in DOMAIN members
\* A directory with a file put under a name or without some names; a function
\* laid over another one.
Put(dir, name, file) ==
    [n \in DOMAIN dir \cup {name} |-> IF n = name THEN file ELSE dir[n]]
Over(new, old) ==
    [x \in DOMAIN new \cup DOMAIN old |-> IF x \in DOMAIN new THEN new[x] ELSE old[x]]
Without(dir, names) == [n \in DOMAIN dir \ names |-> dir[n]]

\* Mutated: the dump is restored last.
RestoreOrderDumpLast == <<"whitelist", "settings", "branding", "database", "logs">>
\* The sections of a restore, in the order restore_backup calls them.
RestoreOrder == <<"database", "settings", "branding", "whitelist", "logs">>
\* The path each restore step looks for below the extracted archive.
LookedUp == [database |-> "database.sql", settings |-> "config/system_config.json",
             branding |-> "branding.zip", whitelist |-> "whitelist.zip",
             logs |-> "logs.zip"]

Phases == {"idle", "database", "config", "whitelist", "logs", "open", "write",
           "seal", "upload", "tidy", "completed", "failed"}

Version == 0 .. MaxDisturbance
\* Each member of an archive is a version of every item it is made of.
IsArchive(members) ==
    /\ DOMAIN members \subseteq DOMAIN Holds
    /\ \A n \in DOMAIN members : members[n] \in [Holds[n] -> Version]
IsJob(r) ==
    /\ r \in [phase : Phases, type : Types \cup {"none"}, name : Name \cup {NoName},
              members : {r.members}, sealed : BOOLEAN, at : 0 .. MaxTime]
    /\ IsArchive(r.members)
IsFile(r) ==
    /\ r \in [members : {r.members}, empty : BOOLEAN, at : 0 .. MaxTime,
              writers : SUBSET Job, broken : BOOLEAN]
    /\ IsArchive(r.members)
IsDirectory(dir) == DOMAIN dir \subseteq Name /\ \A n \in DOMAIN dir : IsFile(dir[n])
IsRestore(r) ==
    /\ r \in [step : 0 .. Len(RestoreOrder), members : {r.members}, lost : SUBSET Items,
              touched : SUBSET Items, result : {"none", "true", "false"}]
    /\ IsArchive(r.members)

TypeOK ==
    /\ now \in 0 .. MaxTime
    /\ live \in [Items -> Version]
    /\ DOMAIN job = Job /\ \A j \in Job : IsJob(job[j])
    /\ IsDirectory(local) /\ IsDirectory(remote)
    /\ removed \subseteq Name
    /\ IsRestore(restore)
    /\ disturbed \in Version

IdleJob == [phase |-> "idle", type |-> "none", name |-> NoName, members |-> None,
            sealed |-> FALSE, at |-> 0]
NoRestore == [step |-> 0, members |-> None, lost |-> {}, touched |-> {},
              result |-> "none"]
Ended(result) == [NoRestore EXCEPT !.result = result]

Init ==
    /\ now = 0
    /\ live = [i \in Items |-> 0]
    /\ job = [j \in Job |-> IdleJob]
    /\ local = None /\ remote = None
    /\ removed = {}
    /\ restore = NoRestore
    /\ disturbed = 0

-----------------------------------------------------------------------------
(* A backup job. *)

Wanted(j, part) == job[j].type \in {"full", part} /\ part \in Included
Disturb == disturbed < MaxDisturbance /\ disturbed' = disturbed + 1

\* The job goes on to a phase, with the members in hand.
GoOn(j, phase, members) ==
    job' = [job EXCEPT ![j].phase = phase, ![j].members = members]
Fail(j) == GoOn(j, "failed", job[j].members)

\* POST /backup/run, POST /backup/whitelist and the scheduler.
Start(j, type) ==
    /\ job[j].phase = "idle"
    /\ job' = [job EXCEPT ![j].phase = "database", ![j].type = type]
    /\ UNCHANGED <<now, live, local, remote, removed, restore, disturbed>>

\* One section: collected when it is wanted, skipped when it is not.
Collect(j, part, next, names) ==
    /\ job[j].phase = part
    /\ GoOn(j, next, IF Wanted(j, part)
                     THEN Over([n \in names |-> Snapshot(Holds[n])], job[j].members)
                     ELSE job[j].members)
    /\ UNCHANGED <<now, live, local, remote, removed, restore, disturbed>>

DumpDatabase(j) == Collect(j, "database", "config", {"database.sql"})
CollectConfig(j) ==
    Collect(j, "config", "whitelist", {"config.zip", "system_config.json", "branding.zip"})
CollectWhitelist(j) == Collect(j, "whitelist", "logs", {"whitelist.zip"})
CollectLogs(j) == Collect(j, "logs", "open", {"logs.zip"})

\* Mutated: a dump that fails is skipped.
CollectFailsUnnoticed(j) ==
    /\ job[j].phase = "database" /\ Wanted(j, "database")
    /\ Disturb
    /\ GoOn(j, "config", job[j].members)
    /\ UNCHANGED <<now, live, local, remote, removed, restore>>
\* pg_dump, or the copy of the files and of the logs, fails: the job fails.
CollectFails(j) ==
    /\ job[j].phase \in {"database", "config", "logs"}
    /\ Wanted(j, job[j].phase)
    /\ Disturb
    /\ Fail(j)
    /\ UNCHANGED <<now, live, local, remote, removed, restore>>

\* A query for the settings or the whitelist fails: the section's path is ""
\* and the job goes on without it.
CollectSkips(j) ==
    /\ \/ /\ job[j].phase = "config"
          /\ GoOn(j, "whitelist", Over([n \in {"config.zip", "branding.zip"} |->
                                          Snapshot(Holds[n])], job[j].members))
       \/ job[j].phase = "whitelist" /\ GoOn(j, "logs", job[j].members)
    /\ Wanted(j, job[j].phase)
    /\ Disturb
    /\ UNCHANGED <<now, live, local, remote, removed, restore>>

\* ZipFile(path, "w") makes an empty file, or empties the one that is there
\* (whoever still writes to it shares it).  The name is taken afresh here.
OpenArchive(j) ==
    /\ job[j].phase = "open"
    /\ LET name == <<job[j].type, now>>
           others == IF name \in DOMAIN local THEN local[name].writers ELSE {}
       IN /\ local' = Put(local, name, [members |-> None, empty |-> TRUE, at |-> now,
                                        writers |-> others \cup {j},
                                        broken |-> others # {}])
          /\ job' = [job EXCEPT ![j].phase = "write", ![j].name = name]
    /\ UNCHANGED <<now, live, remote, removed, restore, disturbed>>

\* The members reach the file, unless the file was unlinked meanwhile.
WriteArchive(j) ==
    /\ job[j].phase = "write"
    /\ LET name == job[j].name
           mine == name \in DOMAIN local /\ j \in local[name].writers
       IN local' = IF mine
                   THEN [local EXCEPT ![name].members = job[j].members,
                                      ![name].empty = FALSE, ![name].at = now,
                                      ![name].writers = @ \ {j}]
                   ELSE local
    /\ job' = [job EXCEPT ![j].phase = "seal", ![j].at = now]
    /\ UNCHANGED <<now, live, remote, removed, restore, disturbed>>

\* Size and checksum, of whatever stands under the name.
SealArchive(j) ==
    /\ job[j].phase = "seal"
    /\ job' = [job EXCEPT ![j].phase = IF RemoteStorage THEN "upload" ELSE "tidy",
                          ![j].sealed = job[j].name \in DOMAIN local]
    /\ UNCHANGED <<now, live, local, remote, removed, restore, disturbed>>

\* SFTP or FTP: the file keeps its name; the server stamps it.
Upload(j) ==
    /\ job[j].phase = "upload"
    /\ job[j].name \in DOMAIN local
    /\ remote' = Put(remote, job[j].name,
                     [local[job[j].name] EXCEPT !.at = now, !.writers = {}])
    /\ GoOn(j, "tidy", job[j].members)
    /\ UNCHANGED <<now, live, local, removed, restore, disturbed>>

UploadFails(j) ==
    /\ job[j].phase = "upload"
    /\ IF job[j].name \in DOMAIN local THEN Disturb ELSE UNCHANGED disturbed
    /\ Fail(j)
    /\ UNCHANGED <<now, live, local, remote, removed, restore>>

-----------------------------------------------------------------------------
(* Retention. *)

\* Mutated: off by one.
ExpiredEarly(file) == now - file.at >= Retention
Expired(file) == now - file.at > Retention

\* What list_remote_backups names, by FTP or SFTP, that is too old: the server
\* stamps a file when it arrives.
OldRemotely == {n \in DOMAIN remote : Expired(remote[n])}
\* delete_from_remote, by FTP or SFTP: best effort for each name.
DeleteFromRemote(names) ==
    \E gone \in SUBSET (names \cap DOMAIN remote) : remote' = Without(remote, gone)

\* Mutated: the age of the files is forgotten.
CleanupOfEmptyFiles ==
    local' = Without(local, {n \in DOMAIN local : local[n].empty}) /\ remote' = remote
\* Local files go when they are empty or too old; remote ones when they are too
\* old and the server lets itself be listed and obeys.
CleanupOldBackups ==
    /\ local' = Without(local, {n \in DOMAIN local : local[n].empty \/ Expired(local[n])})
    /\ DeleteFromRemote(OldRemotely)

\* The job's own clean-up; when a file vanishes under it the job fails,
\* although its archive is complete.
Tidy(j) ==
    /\ job[j].phase = "tidy"
    /\ CleanupOldBackups
    /\ GoOn(j, "completed", job[j].members)
    /\ UNCHANGED <<now, live, removed, restore, disturbed>>

TidyFails(j) ==
    /\ job[j].phase = "tidy"
    /\ Disturb
    /\ Fail(j)
    /\ UNCHANGED <<now, live, local, remote, removed, restore>>

\* scheduled_backup_cleanup, under a lock that is not the backup's.
ScheduledCleanup ==
    /\ CleanupOldBackups
    /\ UNCHANGED <<now, live, job, removed, restore, disturbed>>

\* DELETE /backup/{filename}: the local file and, best effort, the remote one.
DeleteBackup(name) ==
    /\ name \in DOMAIN local \cup DOMAIN remote
    /\ local' = Without(local, {name})
    /\ DeleteFromRemote({name})
    /\ removed' = removed \cup {name}
    /\ Disturb
    /\ UNCHANGED <<now, live, job, restore>>

-----------------------------------------------------------------------------
(* Restore. *)

Restoring == restore.step \in 1 .. Len(RestoreOrder)
Section == RestoreOrder[restore.step]
Restorable(name) == ~ local[name].empty /\ ~ local[name].broken

\* POST /backup/restore/{filename}: the archive is checked and extracted; a
\* broken one restores nothing.
BeginRestore(name) ==
    /\ ~ Restoring
    /\ name \in DOMAIN local
    /\ restore' = IF Restorable(name)
                  THEN [NoRestore EXCEPT !.step = 1, !.members = local[name].members]
                  ELSE Ended("false")
    /\ UNCHANGED <<now, live, job, local, remote, removed, disturbed>>

\* Mutated: the end is missed by one.
NextSectionPast(r) ==
    IF r.step > Len(RestoreOrder)
    THEN Ended("true")
    ELSE [r EXCEPT !.step = r.step + 1]
\* The next section; after the last one the call returns True.
NextSection(r) ==
    IF r.step = Len(RestoreOrder)
    THEN Ended("true")
    ELSE [r EXCEPT !.step = r.step + 1]

\* A section whose member is found replaces its items; one whose member is
\* not found is skipped.
RestoreSection ==
    /\ Restoring
    /\ LET member == LookedUp[Section]
       IN live' = IF Has(member, restore.members)
                  THEN Over(restore.members[member], live)
                  ELSE live
    /\ restore' = NextSection(restore)
    /\ UNCHANGED <<now, job, local, remote, removed, disturbed>>

\* pg_restore fails, leaving the tables it had reached; restore_backup
\* returns False.
RestoreDatabaseFails(tables) ==
    /\ Restoring /\ Section = "database"
    /\ Has("database.sql", restore.members)
    /\ Disturb
    /\ live' = Over([t \in tables |-> restore.members["database.sql"][t]], live)
    /\ restore' = Ended("false")
    /\ UNCHANGED <<now, job, local, remote, removed>>

\* Every other section swallows its error: nothing of it is restored and the
\* restore goes on to return True.
RestoreSectionFails ==
    /\ Restoring /\ Section # "database"
    /\ Has(LookedUp[Section], restore.members)
    /\ Disturb
    /\ restore' = NextSection([restore EXCEPT !.lost = @ \cup Holds[LookedUp[Section]]])
    /\ UNCHANGED <<now, live, job, local, remote, removed>>

\* POST /backup/whitelist/restore/{filename}: looks for whitelist.json in the
\* archive itself.
WhitelistFiles == {"whitelist/whitelist.json", "whitelist.json"}
RestoreWhitelist(name) ==
    /\ ~ Restoring
    /\ name \in DOMAIN local
    /\ LET found == {f \in WhitelistFiles : Has(f, local[name].members)}
           ok == Restorable(name) /\ found # {}
       IN /\ live' = IF ok THEN Over(local[name].members[CHOOSE f \in found : TRUE], live)
                     ELSE live
          /\ restore' = Ended(IF ok THEN "true" ELSE "false")
    /\ UNCHANGED <<now, job, local, remote, removed, disturbed>>

-----------------------------------------------------------------------------
(* The environment. *)

Edit(item) ==
    /\ Disturb
    /\ live' = [live EXCEPT ![item] = disturbed + 1]
    /\ restore' = IF Restoring THEN [restore EXCEPT !.touched = @ \cup {item}] ELSE restore
    /\ UNCHANGED <<now, job, local, remote, removed>>

Tick ==
    /\ now < MaxTime
    /\ now' = now + 1
    /\ UNCHANGED <<live, job, local, remote, removed, restore, disturbed>>

Next ==
    \/ \E j \in Job :
        \/ \E type \in Types : Start(j, type)
        \/ DumpDatabase(j) \/ CollectConfig(j) \/ CollectWhitelist(j) \/ CollectLogs(j)
        \/ CollectFails(j) \/ CollectSkips(j)
        \/ OpenArchive(j) \/ WriteArchive(j) \/ SealArchive(j)
        \/ Upload(j) \/ UploadFails(j) \/ Tidy(j) \/ TidyFails(j)
    \/ ScheduledCleanup
    \/ \E name \in Name : DeleteBackup(name) \/ BeginRestore(name) \/ RestoreWhitelist(name)
    \/ RestoreSection \/ RestoreSectionFails
    \/ \E tables \in SUBSET Tables : RestoreDatabaseFails(tables)
    \/ \E item \in Edited : Edit(item)
    \/ Tick

\* The hourly clean-up runs whether or not a backup does.
Spec == Init /\ [][Next]_vars /\ WF_vars(ScheduledCleanup)

-----------------------------------------------------------------------------
(* Properties. *)

\* The archive of a job that completed with a checksum is there, whole and
\* with exactly what the job collected, until it outlives the retention
\* (whatever clean-ups and other jobs do meanwhile), unless an operator
\* deleted it or another job took the same name; with remote storage so is
\* its copy.  About _create_archive, run_backup and _cleanup_old_backups.
Alone(j) == \A k \in Job \ {j} : job[k].name # job[j].name
YoungArchivesSurvive ==
    \A j \in Job :
        LET name == job[j].name IN
        (/\ job[j].phase = "completed" /\ job[j].sealed
         /\ Alone(j) /\ name \notin removed
         /\ now - job[j].at <= Retention)
        => /\ name \in DOMAIN local /\ local[name].members = job[j].members
           /\ ~ local[name].empty /\ ~ local[name].broken
           /\ RemoteStorage => name \in DOMAIN remote

\* A job that says it completed holds the dump and the logs it was asked for:
\* only the settings and the whitelist may be missing (see CollectSkips).
\* About the exceptions run_backup lets through and those it does not.
CompletedHoldsTheDump ==
    \A j \in Job : job[j].phase = "completed" =>
        /\ Wanted(j, "database") => Has("database.sql", job[j].members)
        /\ Wanted(j, "logs") => Has("logs.zip", job[j].members)

\* When restore_backup returns True, every item nobody edited meanwhile and
\* whose section did not fail is as the archive has it; the whitelist as
\* whitelist.zip has it, although the dump, restored first, holds it too.
\* The settings are those of the dump: system_config.json is never found
\* below config/.
Authority(i, members) ==
    CASE i = "whitelist" /\ Has("whitelist.zip", members) -> "whitelist.zip"
      [] i = "branding" -> "branding.zip"
      [] OTHER -> "database.sql"
RestoredAsArchived ==
    [][(restore.step = Len(RestoreOrder) /\ restore'.result = "true") =>
         \A i \in Items \ (restore.touched \cup restore.lost) :
            LET member == Authority(i, restore.members)
            IN Has(member, restore.members) => live'[i] = restore.members[member][i]]_vars

\* An archive that outlived the retention leaves the directory, whether or
\* not another backup ever runs.  About scheduled_backup_cleanup.
OldArchivesGo ==
    \A n \in Name :
        (n \in DOMAIN local /\ Expired(local[n]))
            ~> (n \notin DOMAIN local \/ ~ Expired(local[n]))

=============================================================================
