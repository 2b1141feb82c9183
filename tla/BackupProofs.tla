---------------------------- MODULE BackupProofs ----------------------------
(***************************************************************************)
(* What backups and restores promise, for any jobs, types, switches and    *)
(* retention: the types, that young archives survive whatever clean-ups    *)
(* and other jobs do, that a completed job holds the dump, and that a      *)
(* restore that returns True has put back what the archive holds.          *)
(*                                                                         *)
(* The inductive invariant follows a job through its phases: what it holds *)
(* once a section is behind it, who writes to the file of its name, and    *)
(* that this file, and the copy on the server, are what the job wrote      *)
(* until they are too old; and it follows a restore through its sections.  *)
(***************************************************************************)
EXTENDS Backup, TLAPS

(* The tables of the code, spelled out.                                       *)
LEMMA HoldsAre ==
    /\ DOMAIN Holds = {"database.sql", "system_config.json", "branding.zip",
                       "whitelist.zip", "logs.zip", "config.zip"}
    /\ Holds["database.sql"] = Tables
    /\ Holds["system_config.json"] = {"settings"}
    /\ Holds["branding.zip"] = {"branding"}
    /\ Holds["whitelist.zip"] = {"whitelist"}
    /\ Holds["logs.zip"] = {}
    /\ Holds["config.zip"] = {}
BY DEF Holds

LEMMA LookedUpAre ==
    /\ LookedUp["database"] = "database.sql"
    /\ LookedUp["settings"] = "config/system_config.json"
    /\ LookedUp["branding"] = "branding.zip"
    /\ LookedUp["whitelist"] = "whitelist.zip"
    /\ LookedUp["logs"] = "logs.zip"
BY DEF LookedUp

LEMMA OrderIs ==
    /\ Len(RestoreOrder) = 5
    /\ RestoreOrder[1] = "database"
    /\ RestoreOrder[2] = "settings"
    /\ RestoreOrder[3] = "branding"
    /\ RestoreOrder[4] = "whitelist"
    /\ RestoreOrder[5] = "logs"
BY DEF RestoreOrder

(* Items, archives and directories: what the operations on them keep.         *)
LEMMA HoldsItems == \A n \in DOMAIN Holds : Holds[n] \subseteq Items
BY HoldsAre DEF Items, Tables

LEMMA EmptyArchive == IsArchive(None)
BY DEF IsArchive, None

LEMMA LargerArchive ==
  ASSUME NEW m, IsArchive(m), live \in [Items -> Version],
         NEW names \in SUBSET DOMAIN Holds
  PROVE  IsArchive(Over([n \in names |-> Snapshot(Holds[n])], m))
BY HoldsItems DEF IsArchive, Over, Snapshot

LEMMA CopyOverLive ==
  ASSUME live \in [Items -> Version], NEW S \in SUBSET Items, NEW copy \in [S -> Version]
  PROVE  Over(copy, live) \in [Items -> Version]
BY DEF Over

LEMMA PutInDirectory ==
  ASSUME NEW dir, IsDirectory(dir), NEW name \in Name, NEW file, IsFile(file)
  PROVE  IsDirectory(Put(dir, name, file))
BY DEF IsDirectory, Put

LEMMA WithoutInDirectory ==
  ASSUME NEW dir, IsDirectory(dir), NEW names
  PROVE  IsDirectory(Without(dir, names))
BY DEF IsDirectory, Without

JobsOK == DOMAIN job = Job /\ \A j \in Job : IsJob(job[j])

LEMMA JobGoesOn ==
  ASSUME JobsOK, NEW j \in Job, NEW phase \in Phases, NEW members, IsArchive(members),
         GoOn(j, phase, members)
  PROVE  JobsOK'
<1>1. IsJob([job[j] EXCEPT !.phase = phase, !.members = members])
  BY DEF JobsOK, IsJob
<1>2. job' = [job EXCEPT ![j] = [job[j] EXCEPT !.phase = phase, !.members = members]]
  BY DEF GoOn, JobsOK
<1> QED
  BY <1>1, <1>2 DEF JobsOK

-----------------------------------------------------------------------------
(* The inductive invariant, in parts. *)

(* A job that has been started has a type, and one past "open" a name.        *)
Unnamed == {"idle", "database", "config", "whitelist", "logs", "open"}
JobsAreNamed ==
    \A j \in Job :
        /\ job[j].phase # "idle" => job[j].type \in Types
        /\ job[j].phase \in Unnamed => job[j].name = NoName
        /\ job[j].phase \notin Unnamed \union {"failed"} => job[j].name \in Name
        /\ job[j].at <= now

(* Whoever writes to an archive is a job in its write phase, and it is the    *)
(* one of the job's name.                                                     *)
WritersWrite ==
    \A n \in DOMAIN local : \A j \in local[n].writers :
        job[j].phase = "write" /\ job[j].name = n

(* The archive a job has closed under its name, if the name is its own.       *)
Whole(j) ==
    LET file == local[job[j].name] IN
    /\ file.members = job[j].members /\ file.at = job[j].at
    /\ ~ file.empty /\ ~ file.broken
Own(j) == Alone(j) /\ job[j].name \notin removed
Young(j) == now - job[j].at <= Retention
ArchiveFollows(j) ==
    /\ (job[j].phase = "write" /\ job[j].name \in DOMAIN local) =>
          j \in local[job[j].name].writers /\ ~ local[job[j].name].broken
    /\ (job[j].phase \in {"seal", "upload", "tidy", "completed"}
          /\ job[j].name \in DOMAIN local) => Whole(j)
    /\ (job[j].phase \in {"upload", "tidy", "completed"} /\ job[j].sealed /\ Young(j))
          => job[j].name \in DOMAIN local
    /\ (RemoteStorage /\ job[j].phase \in {"tidy", "completed"} /\ job[j].sealed /\ Young(j))
          => /\ job[j].name \in DOMAIN remote
             /\ job[j].at <= remote[job[j].name].at
ArchivesFollow == \A j \in Job : Own(j) => ArchiveFollows(j)

(* What a job past a section holds of it.                                     *)
SectionsFollow ==
    \A j \in Job :
        /\ job[j].phase \notin {"idle", "database", "failed"} =>
              (Wanted(j, "database") => Has("database.sql", job[j].members))
        /\ job[j].phase \notin {"idle", "database", "config", "whitelist", "logs", "failed"} =>
              (Wanted(j, "logs") => Has("logs.zip", job[j].members))

(* What a restore under way has put back so far.                              *)
SectionDone(i) ==
    /\ (i \in Tables /\ restore.step > 1 /\ Has("database.sql", restore.members)
          /\ ~ (i = "whitelist" /\ Has("whitelist.zip", restore.members) /\ restore.step > 4))
       => live[i] = restore.members["database.sql"][i]
    /\ (i = "branding" /\ restore.step > 3 /\ Has("branding.zip", restore.members))
       => live[i] = restore.members["branding.zip"][i]
    /\ (i = "whitelist" /\ restore.step > 4 /\ Has("whitelist.zip", restore.members))
       => live[i] = restore.members["whitelist.zip"][i]
RestoredSoFar ==
    Restoring =>
        /\ restore.result = "none"
        /\ \A i \in Items \ (restore.touched \union restore.lost) : SectionDone(i)

-----------------------------------------------------------------------------
(* Type correctness. *)

LEMMA InitTypeOK == Init => TypeOK
<1> SUFFICES ASSUME Init PROVE TypeOK
  OBVIOUS
<1>1. IsJob(IdleJob)
  BY EmptyArchive, BoundsAssumption DEF IsJob, IdleJob, Phases
<1>2. IsRestore(NoRestore)
  BY EmptyArchive, OrderIs DEF IsRestore, NoRestore
<1>3. IsDirectory(None)
  BY DEF IsDirectory, None
<1> QED
  BY <1>1, <1>2, <1>3, BoundsAssumption DEF Init, TypeOK, Version

LEMMA CollectKeepsTypes ==
  ASSUME TypeOK, NEW j \in Job,
         DumpDatabase(j) \/ CollectConfig(j) \/ CollectWhitelist(j) \/ CollectLogs(j)
  PROVE  TypeOK'
<1>1. ASSUME NEW part, NEW next \in Phases, NEW names \in SUBSET DOMAIN Holds,
             Collect(j, part, next, names)
      PROVE  TypeOK'
  <2>1. PICK members : IsArchive(members) /\ GoOn(j, next, members)
    BY <1>1, LargerArchive DEF Collect, TypeOK, IsJob
  <2>2. JobsOK'
    BY <2>1, JobGoesOn DEF JobsOK, TypeOK
  <2> QED
    BY <1>1, <2>2 DEF Collect, TypeOK, JobsOK, IsDirectory
<1> QED
  BY <1>1, HoldsAre DEF DumpDatabase, CollectConfig, CollectWhitelist, CollectLogs, Phases

LEMMA CollectErrorsKeepTypes ==
  ASSUME TypeOK, NEW j \in Job, CollectFails(j) \/ CollectSkips(j) \/ UploadFails(j) \/ TidyFails(j)
  PROVE  TypeOK'
<1>1. PICK next, members : next \in Phases /\ IsArchive(members) /\ GoOn(j, next, members)
  <2>1. CASE CollectSkips(j)
    BY <2>1, LargerArchive, HoldsAre DEF CollectSkips, TypeOK, IsJob, Phases
  <2> QED
    BY <2>1 DEF CollectFails, UploadFails, TidyFails, Fail, TypeOK, IsJob, Phases
<1>2. JobsOK'
  BY <1>1, JobGoesOn DEF JobsOK, TypeOK
<1>3. disturbed' \in Version
  BY BoundsAssumption
     DEF CollectFails, CollectSkips, UploadFails, TidyFails, Disturb, TypeOK, Version
<1> QED
  BY <1>2, <1>3 DEF CollectFails, CollectSkips, UploadFails, TidyFails, TypeOK, JobsOK, IsDirectory

LEMMA ArchiveKeepsTypes ==
  ASSUME TypeOK, JobsAreNamed, NEW j \in Job,
         \/ \E type \in Types : Start(j, type)
         \/ OpenArchive(j) \/ WriteArchive(j) \/ SealArchive(j) \/ Upload(j)
  PROVE  TypeOK'
<1>0. IsJob(job[j]) /\ now \in 0 .. MaxTime
  BY DEF TypeOK
<1>1. ASSUME NEW type \in Types, Start(j, type) PROVE TypeOK'
  <2>1. IsJob([job[j] EXCEPT !.phase = "database", !.type = type])
    BY <1>0 DEF IsJob, Phases
  <2> QED
    BY <1>1, <2>1 DEF Start, TypeOK, IsDirectory
<1>2. CASE OpenArchive(j)
  <2> DEFINE name == <<job[j].type, now>>
             others == IF name \in DOMAIN local THEN local[name].writers ELSE {}
             file == [members |-> None, empty |-> TRUE, at |-> now,
                      writers |-> others \cup {j}, broken |-> others # {}]
  <2>1. local' = Put(local, name, file) /\ job' = [job EXCEPT ![j].phase = "write", ![j].name = name]
    BY <1>2 DEF OpenArchive
  <2>2. name \in Name
    BY <1>0, <1>2 DEF OpenArchive, JobsAreNamed, Name
  <2>3. others \in SUBSET Job
    BY DEF TypeOK, IsDirectory, IsFile
  <2>4. IsFile(file)
    <3>1. (others # {}) \in BOOLEAN /\ others \cup {j} \in SUBSET Job
      BY <2>3
    <3> HIDE DEF others
    <3> QED
      BY <1>0, <3>1, EmptyArchive DEF IsFile
  <2>5. IsDirectory(local')
    BY <2>1, <2>2, <2>4, PutInDirectory DEF TypeOK
  <2>6. IsJob([job[j] EXCEPT !.phase = "write", !.name = name])
    <3> HIDE DEF name
    <3> QED
      BY <1>0, <2>2 DEF IsJob, Phases
  <2>7. JobsOK'
    <3> HIDE DEF name
    <3> QED
      BY <2>1, <2>6 DEF JobsOK, TypeOK
  <2> QED
    BY <1>2, <2>5, <2>7 DEF OpenArchive, TypeOK, JobsOK, IsDirectory
<1>3. CASE WriteArchive(j)
  <2> DEFINE name == job[j].name
  <2>1. IsDirectory(local')
    <3>1. CASE name \in DOMAIN local /\ j \in local[name].writers
      <4> DEFINE file == [local[name] EXCEPT !.members = job[j].members, !.empty = FALSE,
                                             !.at = now, !.writers = @ \ {j}]
      <4>1. IsFile(local[name])
        BY <3>1 DEF TypeOK, IsDirectory
      <4>2. IsFile(file)
        BY <1>0, <4>1 DEF IsFile, IsJob
      <4>3. local' = [local EXCEPT ![name] = file]
        BY <1>3, <3>1 DEF WriteArchive
      <4> HIDE DEF file, name
      <4> QED
        BY <4>2, <4>3 DEF TypeOK, IsDirectory
    <3> QED
      BY <1>3, <3>1 DEF WriteArchive, TypeOK, IsDirectory
  <2>2. IsJob([job[j] EXCEPT !.phase = "seal", !.at = now])
    BY <1>0 DEF IsJob, Phases
  <2>3. JobsOK'
    BY <1>3, <2>2 DEF WriteArchive, JobsOK, TypeOK
  <2> QED
    BY <1>3, <2>1, <2>3 DEF WriteArchive, TypeOK, JobsOK, IsDirectory
<1>4. CASE SealArchive(j)
  <2> DEFINE next == IF RemoteStorage THEN "upload" ELSE "tidy"
             sealed == job[j].name \in DOMAIN local
  <2>1. next \in Phases /\ sealed \in BOOLEAN
    BY DEF Phases
  <2>2. job' = [job EXCEPT ![j].phase = next, ![j].sealed = sealed]
    BY <1>4 DEF SealArchive
  <2> HIDE DEF next, sealed
  <2>3. IsJob([job[j] EXCEPT !.phase = next, !.sealed = sealed])
    BY <1>0, <2>1 DEF IsJob
  <2>4. JobsOK'
    BY <2>2, <2>3 DEF JobsOK, TypeOK
  <2> QED
    BY <1>4, <2>4 DEF SealArchive, TypeOK, JobsOK, IsDirectory
<1>5. CASE Upload(j)
  <2> DEFINE name == job[j].name
             copy == [local[name] EXCEPT !.at = now, !.writers = {}]
  <2>1. name \in Name /\ IsFile(local[name])
    BY <1>5 DEF Upload, TypeOK, IsDirectory
  <2>2. IsFile(copy)
    BY <1>0, <2>1 DEF IsFile
  <2>3. IsDirectory(remote')
    BY <1>5, <2>1, <2>2, PutInDirectory DEF Upload, TypeOK
  <2>4. JobsOK'
    BY <1>0, <1>5, JobGoesOn DEF Upload, JobsOK, TypeOK, IsJob, Phases
  <2> QED
    BY <1>5, <2>3, <2>4 DEF Upload, TypeOK, JobsOK, IsDirectory
<1> QED
  BY <1>1, <1>2, <1>3, <1>4, <1>5

LEMMA RetentionKeepsTypes ==
  ASSUME TypeOK,
         \/ \E j \in Job : Tidy(j)
         \/ ScheduledCleanup
         \/ \E name \in Name : DeleteBackup(name)
  PROVE  TypeOK'
<1>1. ASSUME NEW names, DeleteFromRemote(names) PROVE IsDirectory(remote')
  BY <1>1, WithoutInDirectory DEF DeleteFromRemote, TypeOK
<1>2. ASSUME CleanupOldBackups PROVE IsDirectory(local') /\ IsDirectory(remote')
  BY <1>1, <1>2, WithoutInDirectory DEF CleanupOldBackups, TypeOK
<1>3. ASSUME NEW j \in Job, Tidy(j) PROVE TypeOK'
  <2>1. JobsOK'
    BY <1>3, JobGoesOn DEF Tidy, JobsOK, TypeOK, IsJob, Phases
  <2> QED
    BY <1>2, <1>3, <2>1 DEF Tidy, TypeOK, JobsOK
<1>4. CASE ScheduledCleanup
  BY <1>2, <1>4 DEF ScheduledCleanup, TypeOK
<1>5. ASSUME NEW name \in Name, DeleteBackup(name) PROVE TypeOK'
  BY <1>1, <1>5, WithoutInDirectory, BoundsAssumption DEF DeleteBackup, Disturb, TypeOK, Version
<1> QED
  BY <1>3, <1>4, <1>5

LEMMA EndedIsRestore == \A result \in {"none", "true", "false"} : IsRestore(Ended(result))
BY EmptyArchive, OrderIs DEF IsRestore, Ended, NoRestore

LEMMA NextSectionIsRestore ==
  ASSUME NEW r, IsRestore(r), r.step > 0 PROVE IsRestore(NextSection(r))
BY EndedIsRestore, OrderIs DEF IsRestore, NextSection

LEMMA BeginIsRestore ==
  ASSUME NEW members, IsArchive(members)
  PROVE  IsRestore([NoRestore EXCEPT !.step = 1, !.members = members])
<1> DEFINE first == [NoRestore EXCEPT !.step = 1]
           begun == [first EXCEPT !.members = members]
<1>1. first = [step |-> 1, members |-> None, lost |-> {}, touched |-> {}, result |-> "none"]
  BY DEF NoRestore
<1>2. begun = [NoRestore EXCEPT !.step = 1, !.members = members]
  OBVIOUS
<1> HIDE DEF first
<1>3. begun = [step |-> 1, members |-> members, lost |-> {}, touched |-> {}, result |-> "none"]
  BY <1>1
<1>4. IsRestore([step |-> 1, members |-> members, lost |-> {}, touched |-> {}, result |-> "none"])
  BY OrderIs DEF IsRestore
<1> QED
  BY <1>2, <1>3, <1>4

LEMMA RestoreKeepsTypes ==
  ASSUME TypeOK,
         \/ \E name \in Name : BeginRestore(name) \/ RestoreWhitelist(name)
         \/ RestoreSection \/ RestoreSectionFails
         \/ \E tables \in SUBSET Tables : RestoreDatabaseFails(tables)
  PROVE  TypeOK'
<1>0. IsRestore(restore) /\ live \in [Items -> Version]
  BY DEF TypeOK
<1>1. ASSUME NEW member, Has(member, restore.members)
      PROVE  Over(restore.members[member], live) \in [Items -> Version]
  <2>1. restore.members[member] \in [Holds[member] -> Version] /\ Holds[member] \in SUBSET Items
    BY <1>0, <1>1, HoldsItems DEF IsRestore, IsArchive, Has
  <2> QED
    BY <1>0, <2>1, CopyOverLive
<1>2. ASSUME NEW name \in Name, BeginRestore(name) PROVE TypeOK'
  <2>1. IsFile(local[name])
    BY <1>2 DEF BeginRestore, TypeOK, IsDirectory
  <2> DEFINE members == local[name].members
             begun == [NoRestore EXCEPT !.step = 1, !.members = members]
  <2>2. IsArchive(members)
    BY <2>1 DEF IsFile
  <2>3. IsRestore(begun)
    <3> HIDE DEF members
    <3> HIDE DEF begun
    <3> QED
      BY <2>2, BeginIsRestore DEF begun
  <2> QED
    BY <1>2, <2>3, EndedIsRestore DEF BeginRestore, TypeOK, IsDirectory
<1>3. ASSUME NEW name \in Name, RestoreWhitelist(name) PROVE TypeOK'
  <2>1. {f \in WhitelistFiles : Has(f, local[name].members)} = {}
    BY <1>3, HoldsAre DEF RestoreWhitelist, WhitelistFiles, Has, TypeOK, IsDirectory, IsFile, IsArchive
  <2>2. live' = live /\ restore' = Ended("false")
    BY <1>3, <2>1 DEF RestoreWhitelist
  <2> QED
    BY <1>3, <2>2, EndedIsRestore DEF RestoreWhitelist, TypeOK, IsDirectory
<1>4. CASE RestoreSection
  <2>1. live' \in [Items -> Version]
    BY <1>0, <1>1, <1>4 DEF RestoreSection
  <2>2. IsRestore(restore')
    BY <1>0, <1>4, NextSectionIsRestore DEF RestoreSection, Restoring
  <2> QED
    BY <1>4, <2>1, <2>2 DEF RestoreSection, TypeOK, IsDirectory
<1>5. CASE RestoreSectionFails
  <2> DEFINE poorer == [restore EXCEPT !.lost = @ \cup Holds[LookedUp[Section]]]
  <2>1. Holds[LookedUp[Section]] \subseteq Items
    BY <1>0, <1>5, HoldsItems DEF RestoreSectionFails, Has, IsRestore, IsArchive
  <2>2. IsRestore(poorer) /\ poorer.step > 0
    BY <1>0, <1>5, <2>1 DEF RestoreSectionFails, Restoring, IsRestore
  <2>3. IsRestore(restore')
    BY <1>5, <2>2, NextSectionIsRestore DEF RestoreSectionFails
  <2> QED
    BY <1>5, <2>3, BoundsAssumption DEF RestoreSectionFails, Disturb, TypeOK, IsDirectory, Version
<1>6. ASSUME NEW tables \in SUBSET Tables, RestoreDatabaseFails(tables) PROVE TypeOK'
  <2>1. [t \in tables |-> restore.members["database.sql"][t]] \in [tables -> Version]
    BY <1>0, <1>6, HoldsAre DEF RestoreDatabaseFails, Has, IsRestore, IsArchive
  <2>2. live' \in [Items -> Version]
    BY <1>0, <1>6, <2>1, CopyOverLive DEF RestoreDatabaseFails, Items
  <2> QED
    BY <1>6, <2>2, EndedIsRestore, BoundsAssumption
       DEF RestoreDatabaseFails, Disturb, TypeOK, IsDirectory, Version
<1> QED
  BY <1>2, <1>3, <1>4, <1>5, <1>6

LEMMA EnvironmentKeepsTypes ==
  ASSUME TypeOK, (\E item \in Edited : Edit(item)) \/ Tick \/ UNCHANGED vars
  PROVE  TypeOK'
<1>1. ASSUME NEW item \in Edited, Edit(item) PROVE TypeOK'
  <2>1. item \in Items
    BY OptionsAssumption DEF Items, Tables
  <2>2. IsRestore([restore EXCEPT !.touched = @ \cup {item}])
    BY <2>1 DEF TypeOK, IsRestore
  <2>3. disturbed + 1 \in Version
    BY <1>1, BoundsAssumption DEF Edit, Disturb, TypeOK, Version
  <2> QED
    BY <1>1, <2>1, <2>2, <2>3 DEF Edit, Disturb, TypeOK, IsDirectory
<1>2. CASE Tick
  BY <1>2, BoundsAssumption DEF Tick, TypeOK, IsDirectory
<1>3. CASE UNCHANGED vars
  BY <1>3 DEF vars, TypeOK, IsDirectory
<1> QED
  BY <1>1, <1>2, <1>3

LEMMA NextTypeOK == TypeOK /\ JobsAreNamed /\ [Next]_vars => TypeOK'
BY CollectKeepsTypes, CollectErrorsKeepTypes, ArchiveKeepsTypes, RetentionKeepsTypes,
   RestoreKeepsTypes, EnvironmentKeepsTypes DEF Next

-----------------------------------------------------------------------------
(* Jobs and the files they write. *)

(* The steps that touch a job, and those that leave all jobs alone.           *)
JobStep(j) ==
    \/ \E type \in Types : Start(j, type)
    \/ DumpDatabase(j) \/ CollectConfig(j) \/ CollectWhitelist(j) \/ CollectLogs(j)
    \/ CollectFails(j) \/ CollectSkips(j)
    \/ OpenArchive(j) \/ WriteArchive(j) \/ SealArchive(j)
    \/ Upload(j) \/ UploadFails(j) \/ Tidy(j) \/ TidyFails(j)

LEMMA OtherJobsStay ==
  ASSUME TypeOK, NEW j \in Job, JobStep(j), NEW k \in Job \ {j} PROVE job'[k] = job[k]
BY DEF JobStep, Start, DumpDatabase, CollectConfig, CollectWhitelist, CollectLogs, Collect,
   CollectFails, CollectSkips, OpenArchive, WriteArchive, SealArchive, Upload, UploadFails,
   Tidy, TidyFails, Fail, GoOn, TypeOK

LEMMA JobsStay ==
  ASSUME [Next]_vars PROVE (\E j \in Job : JobStep(j)) \/ job' = job
BY DEF Next, vars, JobStep, ScheduledCleanup, DeleteBackup, BeginRestore, RestoreWhitelist,
   RestoreSection, RestoreSectionFails, RestoreDatabaseFails, Edit, Tick

LEMMA TimePasses == ASSUME [Next]_vars PROVE now' = now \/ Tick
<1>1. ASSUME NEW j \in Job, JobStep(j) PROVE now' = now
  BY <1>1 DEF JobStep, Start, DumpDatabase, CollectConfig, CollectWhitelist, CollectLogs, Collect,
     CollectFails, CollectSkips, OpenArchive, WriteArchive, SealArchive, Upload, UploadFails,
     Tidy, TidyFails
<1> QED
  BY <1>1 DEF Next, vars, JobStep, ScheduledCleanup, DeleteBackup, BeginRestore, RestoreWhitelist,
     RestoreSection, RestoreSectionFails, RestoreDatabaseFails, Edit

(* What a job's step does to its own record, by the phase it starts from.     *)
Moves(j, from, to) ==
    /\ job[j].phase = from /\ job'[j].phase = to
    /\ job'[j].type = job[j].type /\ job'[j].name = job[j].name
    /\ job'[j].at = job[j].at /\ job'[j].sealed = job[j].sealed
LEMMA StepOfJob ==
  ASSUME TypeOK, NEW j \in Job, JobStep(j)
  PROVE  \/ /\ job[j].phase = "idle" /\ job'[j].phase = "database" /\ job'[j].type \in Types
            /\ job'[j].name = job[j].name /\ job'[j].at = job[j].at
         \/ Moves(j, "database", "config") \/ Moves(j, "config", "whitelist")
         \/ Moves(j, "whitelist", "logs") \/ Moves(j, "logs", "open")
         \/ \E from \in {"database", "config", "logs", "upload", "tidy"} : Moves(j, from, "failed")
         \/ OpenArchive(j) \/ WriteArchive(j) \/ SealArchive(j)
         \/ Moves(j, "upload", "tidy") /\ Upload(j)
         \/ Moves(j, "tidy", "completed") /\ Tidy(j)
<1>0. IsJob(job[j]) /\ DOMAIN job = Job
  BY DEF TypeOK
<1>1. ASSUME NEW to, NEW members, GoOn(j, to, members)
      PROVE  /\ job'[j].phase = to /\ job'[j].members = members
             /\ job'[j].type = job[j].type /\ job'[j].name = job[j].name
             /\ job'[j].at = job[j].at /\ job'[j].sealed = job[j].sealed
  BY <1>0, <1>1 DEF GoOn, IsJob
<1>2. ASSUME NEW from, NEW to, NEW names, Collect(j, from, to, names) PROVE Moves(j, from, to)
  BY <1>1, <1>2 DEF Collect, Moves
<1>3. ASSUME NEW type \in Types, Start(j, type)
      PROVE  /\ job[j].phase = "idle" /\ job'[j].phase = "database" /\ job'[j].type \in Types
             /\ job'[j].name = job[j].name /\ job'[j].at = job[j].at
  BY <1>0, <1>3 DEF Start, IsJob
<1>4. ASSUME CollectSkips(j) PROVE Moves(j, "config", "whitelist") \/ Moves(j, "whitelist", "logs")
  BY <1>1, <1>4 DEF CollectSkips, Moves
<1>5. ASSUME CollectFails(j) \/ UploadFails(j) \/ TidyFails(j)
      PROVE  \E from \in {"database", "config", "logs", "upload", "tidy"} : Moves(j, from, "failed")
  BY <1>1, <1>5 DEF CollectFails, UploadFails, TidyFails, Fail, Moves
<1>6. Upload(j) => Moves(j, "upload", "tidy")
  BY <1>1 DEF Upload, Moves
<1>7. Tidy(j) => Moves(j, "tidy", "completed")
  BY <1>1 DEF Tidy, Moves
<1> QED
  BY <1>2, <1>3, <1>4, <1>5, <1>6, <1>7
     DEF JobStep, DumpDatabase, CollectConfig, CollectWhitelist, CollectLogs

(* The same for the three steps around the file.                              *)
LEMMA StepsAtFile ==
  ASSUME TypeOK, NEW j \in Job
  PROVE  /\ OpenArchive(j) =>
              /\ job'[j].phase = "write" /\ job'[j].name = <<job[j].type, now>>
              /\ job'[j].type = job[j].type /\ job'[j].at = job[j].at
              /\ job'[j].members = job[j].members /\ job'[j].sealed = job[j].sealed
         /\ WriteArchive(j) =>
              /\ job'[j].phase = "seal" /\ job'[j].at = now
              /\ job'[j].type = job[j].type /\ job'[j].name = job[j].name
              /\ job'[j].members = job[j].members /\ job'[j].sealed = job[j].sealed
         /\ SealArchive(j) =>
              /\ job'[j].phase = (IF RemoteStorage THEN "upload" ELSE "tidy")
              /\ job'[j].sealed = (job[j].name \in DOMAIN local)
              /\ job'[j].type = job[j].type /\ job'[j].name = job[j].name
              /\ job'[j].members = job[j].members /\ job'[j].at = job[j].at
<1>0. IsJob(job[j]) /\ DOMAIN job = Job
  BY DEF TypeOK
<1> QED
  BY <1>0 DEF OpenArchive, WriteArchive, SealArchive, IsJob

LEMMA NextJobsAreNamed == TypeOK /\ JobsAreNamed /\ [Next]_vars => JobsAreNamed'
<1> SUFFICES ASSUME TypeOK, JobsAreNamed, [Next]_vars PROVE JobsAreNamed'
  OBVIOUS
<1>1. now' \in Nat /\ now \in Nat /\ now <= now'
  BY TimePasses, BoundsAssumption DEF TypeOK, Tick
<1>2. \A k \in Job : job[k].at \in Nat /\ job[k].at <= now'
  BY <1>1, BoundsAssumption DEF JobsAreNamed, TypeOK, IsJob
<1>3. ASSUME NEW j \in Job, JobStep(j) PROVE JobsAreNamed'
  <2> SUFFICES ASSUME NEW k \in Job
               PROVE  /\ job'[k].phase # "idle" => job'[k].type \in Types
                      /\ job'[k].phase \in Unnamed => job'[k].name = NoName
                      /\ job'[k].phase \notin Unnamed \union {"failed"} => job'[k].name \in Name
                      /\ job'[k].at <= now'
    BY DEF JobsAreNamed
  <2>1. CASE k # j
    BY <1>2, <1>3, <2>1, OtherJobsStay DEF JobsAreNamed
  <2>2. CASE k = j /\ OpenArchive(j)
    <3>1. job[j].type \in Types /\ now \in 0 .. MaxTime
      BY <2>2 DEF OpenArchive, JobsAreNamed, TypeOK
    <3>2. <<job[j].type, now>> \in Name
      BY <3>1 DEF Name
    <3> QED
      BY <1>2, <2>2, <3>1, <3>2, StepsAtFile DEF Unnamed
  <2>3. CASE k = j /\ (WriteArchive(j) \/ SealArchive(j))
    <3>1. job[j].name \in Name /\ job[j].type \in Types
      BY <2>3 DEF WriteArchive, SealArchive, JobsAreNamed, Unnamed
    <3> QED
      BY <1>1, <1>2, <2>3, <3>1, StepsAtFile DEF Unnamed
  <2>4. CASE k = j /\ ~ OpenArchive(j) /\ ~ WriteArchive(j) /\ ~ SealArchive(j)
    BY <1>2, <1>3, <2>4, StepOfJob DEF Moves, JobsAreNamed, Unnamed
  <2> QED
    BY <2>1, <2>2, <2>3, <2>4
<1> QED
  BY <1>2, <1>3, JobsStay DEF JobsAreNamed

LEMMA NextWritersWrite == TypeOK /\ JobsAreNamed /\ WritersWrite /\ [Next]_vars => WritersWrite'
<1> SUFFICES ASSUME TypeOK, JobsAreNamed, WritersWrite, [Next]_vars PROVE WritersWrite'
  OBVIOUS
<1>0. \A n \in DOMAIN local : IsFile(local[n])
  BY DEF TypeOK, IsDirectory
(* Files only leave: the writers of those that stay are the same.             *)
<1>1. ASSUME DOMAIN local' \subseteq DOMAIN local, \A n \in DOMAIN local' : local'[n] = local[n],
             \A k \in Job : job[k].phase = "write" => job'[k] = job[k]
      PROVE  WritersWrite'
  BY <1>0, <1>1 DEF WritersWrite, IsFile
<1>2. ASSUME NEW j \in Job, OpenArchive(j) PROVE WritersWrite'
  <2> DEFINE name == <<job[j].type, now>>
             others == IF name \in DOMAIN local THEN local[name].writers ELSE {}
             file == [members |-> None, empty |-> TRUE, at |-> now,
                      writers |-> others \cup {j}, broken |-> others # {}]
  <2>1. local' = Put(local, name, file)
    BY <1>2 DEF OpenArchive
  <2>2. job'[j].phase = "write" /\ job'[j].name = name
    BY <1>2, StepsAtFile
  <2>3. \A k \in Job \ {j} : job'[k] = job[k]
    BY <1>2, OtherJobsStay DEF JobStep
  <2>4. \A k \in others : k \in Job /\ job'[k].phase = "write" /\ job'[k].name = name
    BY <1>0, <2>2, <2>3 DEF WritersWrite, IsFile
  <2>5. \A n \in DOMAIN local : j \notin local[n].writers
    BY <1>2 DEF OpenArchive, WritersWrite
  <2>6. file.writers = others \cup {j}
    OBVIOUS
  <2> HIDE DEF name, others, file
  <2> QED
    BY <1>0, <2>1, <2>2, <2>3, <2>4, <2>5, <2>6 DEF WritersWrite, Put, IsFile
<1>3. ASSUME NEW j \in Job, WriteArchive(j) PROVE WritersWrite'
  <2>1. \A k \in Job \ {j} : job'[k] = job[k]
    BY <1>3, OtherJobsStay DEF JobStep
  <2>2. /\ DOMAIN local' = DOMAIN local
        /\ \A n \in DOMAIN local : local'[n].writers = local[n].writers \ {j}
    <3>1. CASE job[j].name \in DOMAIN local /\ j \in local[job[j].name].writers
      BY <1>0, <1>3, <3>1 DEF WriteArchive, WritersWrite, IsFile
    <3>2. CASE ~ (job[j].name \in DOMAIN local /\ j \in local[job[j].name].writers)
      BY <1>0, <1>3, <3>2 DEF WriteArchive, WritersWrite, IsFile
    <3> QED
      BY <3>1, <3>2
  <2> QED
    BY <1>0, <2>1, <2>2 DEF WritersWrite, IsFile
<1>4. ASSUME NEW j \in Job, JobStep(j), ~ OpenArchive(j), ~ WriteArchive(j) PROVE WritersWrite'
  <2>1. job[j].phase # "write"
    BY <1>4, StepOfJob DEF Moves, SealArchive
  <2>2. local' = local \/ Tidy(j)
    BY <1>4 DEF JobStep, Start, DumpDatabase, CollectConfig, CollectWhitelist, CollectLogs, Collect,
       CollectFails, CollectSkips, SealArchive, Upload, UploadFails, TidyFails
  <2>3. DOMAIN local' \subseteq DOMAIN local /\ \A n \in DOMAIN local' : local'[n] = local[n]
    BY <2>2 DEF Tidy, CleanupOldBackups, Without
  <2> QED
    BY <1>1, <1>4, <2>1, <2>3, OtherJobsStay
<1>5. CASE ScheduledCleanup \/ \E name \in Name : DeleteBackup(name)
  BY <1>1, <1>5 DEF ScheduledCleanup, DeleteBackup, CleanupOldBackups, Without
<1>6. CASE local' = local /\ job' = job
  BY <1>1, <1>6
<1> QED
  BY <1>2, <1>3, <1>4, <1>5, <1>6 DEF Next, vars, JobStep, BeginRestore, RestoreWhitelist,
     RestoreSection, RestoreSectionFails, RestoreDatabaseFails, Edit, Tick

-----------------------------------------------------------------------------
(* Archives follow the jobs that wrote them. *)

(* A name that is a job's own was so before, if the job had it.               *)
LEMMA OwnBefore ==
  ASSUME TypeOK, JobsAreNamed, [Next]_vars, NEW j \in Job, Own(j)',
         job'[j].name = job[j].name, job[j].name # NoName
  PROVE  Own(j)
<1>1. removed \subseteq removed'
  <2>1. ASSUME NEW k \in Job, JobStep(k) PROVE removed' = removed
    BY <2>1 DEF JobStep, Start, DumpDatabase, CollectConfig, CollectWhitelist, CollectLogs, Collect,
       CollectFails, CollectSkips, OpenArchive, WriteArchive, SealArchive, Upload, UploadFails,
       Tidy, TidyFails
  <2> QED
    BY <2>1 DEF Next, vars, JobStep, ScheduledCleanup, DeleteBackup, BeginRestore, RestoreWhitelist,
       RestoreSection, RestoreSectionFails, RestoreDatabaseFails, Edit, Tick
<1>2. \A k \in Job : job'[k].name = job[k].name \/ job[k].name = NoName
  <2>1. ASSUME NEW k \in Job, JobStep(k) PROVE job'[k].name = job[k].name \/ job[k].name = NoName
    <3>1. OpenArchive(k) => job[k].name = NoName
      BY DEF OpenArchive, JobsAreNamed, Unnamed
    <3> QED
      BY <2>1, <3>1, StepOfJob, StepsAtFile DEF Moves
  <2> QED
    BY <2>1, JobsStay, OtherJobsStay
<1> QED
  BY <1>1, <1>2 DEF Own, Alone

(* A step leaves a file and its copy, or takes them when they are too old.    *)
FileStays(n) ==
    /\ n \in DOMAIN local' => n \in DOMAIN local /\ local'[n] = local[n]
    /\ n \in DOMAIN local =>
          n \in DOMAIN local' \/ local[n].empty \/ Expired(local[n])
CopyStays(n) ==
    n \in DOMAIN remote =>
        (n \in DOMAIN remote' /\ remote'[n] = remote[n]) \/ Expired(remote[n])

LEMMA CleanupLeavesYoung ==
  ASSUME CleanupOldBackups, NEW n PROVE FileStays(n) /\ CopyStays(n)
BY DEF CleanupOldBackups, DeleteFromRemote, OldRemotely, Without, FileStays, CopyStays

(* The steps that touch the file of a name are those of the jobs of the name. *)
LEMMA FilesStay ==
  ASSUME TypeOK, JobsAreNamed, WritersWrite, [Next]_vars,
         NEW j \in Job, ~ OpenArchive(j), ~ WriteArchive(j), ~ Upload(j),
         NEW n, n \notin removed', \A k \in Job \ {j} : job'[k].name # n
  PROVE  FileStays(n) /\ CopyStays(n)
<1>1. ASSUME NEW k \in Job, OpenArchive(k) PROVE FileStays(n) /\ CopyStays(n)
  <2>1. job'[k].name = <<job[k].type, now>>
    BY <1>1, StepsAtFile
  <2> QED
    BY <1>1, <2>1 DEF OpenArchive, Put, FileStays, CopyStays
<1>2. ASSUME NEW k \in Job, WriteArchive(k) PROVE FileStays(n) /\ CopyStays(n)
  <2>1. job[k].name # n
    BY <1>2, StepsAtFile
  <2> QED
    BY <1>2, <2>1 DEF WriteArchive, FileStays, CopyStays
<1>3. ASSUME NEW k \in Job, Upload(k) PROVE FileStays(n) /\ CopyStays(n)
  <2>1. job[k].name # n
    BY <1>3, StepOfJob DEF JobStep, Upload, Moves, OpenArchive, WriteArchive, SealArchive
  <2> QED
    BY <1>3, <2>1 DEF Upload, Put, FileStays, CopyStays
<1>4. ASSUME NEW k \in Job, JobStep(k), ~ OpenArchive(k), ~ WriteArchive(k), ~ Upload(k)
      PROVE FileStays(n) /\ CopyStays(n)
  <2>1. CASE Tidy(k)
    BY <2>1, CleanupLeavesYoung DEF Tidy
  <2>2. CASE local' = local /\ remote' = remote
    BY <2>2 DEF FileStays, CopyStays
  <2> QED
    BY <1>4, <2>1, <2>2 DEF JobStep, Start, DumpDatabase, CollectConfig, CollectWhitelist,
       CollectLogs, Collect, CollectFails, CollectSkips, SealArchive, UploadFails, TidyFails
<1>5. CASE ScheduledCleanup
  BY <1>5, CleanupLeavesYoung DEF ScheduledCleanup
<1>6. ASSUME NEW name \in Name, DeleteBackup(name) PROVE FileStays(n) /\ CopyStays(n)
  <2>1. name # n
    BY <1>6 DEF DeleteBackup
  <2> QED
    BY <1>6, <2>1 DEF DeleteBackup, DeleteFromRemote, Without, FileStays, CopyStays
<1>7. CASE local' = local /\ remote' = remote
  BY <1>7 DEF FileStays, CopyStays
<1> QED
  BY <1>1, <1>2, <1>3, <1>4, <1>5, <1>6, <1>7 DEF Next, vars, JobStep, BeginRestore,
     RestoreWhitelist, RestoreSection, RestoreSectionFails, RestoreDatabaseFails, Edit, Tick

(* A job that keeps its name, and its record but for the step from "tidy" to  *)
(* "completed", finds its archive as it left it as long as it is young.       *)
LEMMA ArchiveOutlivesOthers ==
  ASSUME TypeOK, JobsAreNamed, NEW j \in Job, ArchiveFollows(j), now' \in Nat, now <= now',
         FileStays(job[j].name), CopyStays(job[j].name),
         job'[j].name = job[j].name, job'[j].members = job[j].members,
         job'[j].at = job[j].at, job'[j].sealed = job[j].sealed,
         \/ job'[j].phase = job[j].phase
         \/ job[j].phase = "tidy" /\ job'[j].phase = "completed"
  PROVE  ArchiveFollows(j)'
<1> DEFINE name == job[j].name
<1>1. job[j].at \in Nat /\ now \in Nat /\ Retention \in Nat
  BY BoundsAssumption DEF TypeOK, IsJob
<1>2. Young(j)' => Young(j)
  BY <1>1 DEF Young
<1>3. ASSUME job[j].phase \in {"seal", "upload", "tidy", "completed"}, name \in DOMAIN local'
      PROVE  Whole(j)'
  BY <1>3 DEF ArchiveFollows, FileStays, Whole
<1>4. ASSUME job[j].phase \in {"upload", "tidy", "completed"}, job[j].sealed, Young(j)
      PROVE  name \in DOMAIN local'
  <2>1. name \in DOMAIN local /\ Whole(j)
    BY <1>4 DEF ArchiveFollows
  <2>2. ~ local[name].empty /\ ~ Expired(local[name])
    BY <1>1, <1>4, <2>1 DEF Whole, Young, Expired
  <2> QED
    BY <2>1, <2>2 DEF FileStays
<1>5. ASSUME RemoteStorage, job[j].phase \in {"tidy", "completed"}, job[j].sealed, Young(j)
      PROVE  name \in DOMAIN remote' /\ job[j].at <= remote'[name].at
  <2>1. name \in DOMAIN remote /\ job[j].at <= remote[name].at
    BY <1>5 DEF ArchiveFollows
  <2>2. remote[name].at \in Nat
    BY <2>1, BoundsAssumption DEF TypeOK, IsDirectory, IsFile
  <2>3. ~ Expired(remote[name])
    BY <1>1, <1>5, <2>1, <2>2 DEF Young, Expired
  <2> QED
    BY <2>1, <2>3 DEF CopyStays
<1>6. ASSUME job[j].phase = "write", name \in DOMAIN local'
      PROVE  j \in local'[name].writers /\ ~ local'[name].broken
  BY <1>6 DEF ArchiveFollows, FileStays
<1> QED
  BY <1>2, <1>3, <1>4, <1>5, <1>6 DEF ArchiveFollows

LEMMA NextArchivesFollow ==
  TypeOK /\ JobsAreNamed /\ WritersWrite /\ ArchivesFollow /\ [Next]_vars => ArchivesFollow'
<1> SUFFICES ASSUME TypeOK, JobsAreNamed, WritersWrite, ArchivesFollow, [Next]_vars,
                    NEW j \in Job, Own(j)'
             PROVE  ArchiveFollows(j)'
  BY DEF ArchivesFollow
<1>0. IsJob(job[j]) /\ now \in Nat /\ job[j].at <= now /\ NoName \notin Name
  <2>1. "none" \notin Types
    BY OptionsAssumption
  <2> QED
    BY <2>1, BoundsAssumption DEF TypeOK, JobsAreNamed, Name, NoName
<1>1. CASE OpenArchive(j)
  <2> DEFINE name == <<job[j].type, now>>
             others == IF name \in DOMAIN local THEN local[name].writers ELSE {}
             file == [members |-> None, empty |-> TRUE, at |-> now,
                      writers |-> others \cup {j}, broken |-> others # {}]
  <2>1. local' = Put(local, name, file)
    BY <1>1 DEF OpenArchive
  <2>2. job'[j].phase = "write" /\ job'[j].name = name
    BY <1>1, StepsAtFile
  <2>3. others = {}
    <3> SUFFICES ASSUME NEW k \in others PROVE FALSE
      OBVIOUS
    <3>1. k \in Job /\ job[k].phase = "write" /\ job[k].name = name
      BY DEF TypeOK, IsDirectory, IsFile, WritersWrite
    <3>2. k # j
      BY <1>1, <3>1 DEF OpenArchive
    <3>3. job'[k].name = name
      BY <1>1, <3>1, <3>2, OtherJobsStay DEF JobStep
    <3> QED
      BY <2>2, <3>1, <3>2, <3>3 DEF Own, Alone
  <2>4. file.writers = {j} /\ file.broken = FALSE
    BY <2>3
  <2> HIDE DEF name, others, file
  <2> QED
    BY <2>1, <2>2, <2>4 DEF ArchiveFollows, Put
<1>2. CASE WriteArchive(j)
  <2> DEFINE name == job[j].name
  <2>1. /\ job'[j].phase = "seal" /\ job'[j].at = now /\ job'[j].name = name
        /\ job'[j].members = job[j].members
    BY <1>2, StepsAtFile
  <2>2. name # NoName
    BY <1>0, <1>2 DEF WriteArchive, JobsAreNamed, Unnamed
  <2>3. ArchiveFollows(j)
    BY <2>1, <2>2, OwnBefore DEF ArchivesFollow
  <2>4. ASSUME name \in DOMAIN local' PROVE Whole(j)'
    <3>1. name \in DOMAIN local
      BY <1>2, <2>4 DEF WriteArchive
    <3>2. j \in local[name].writers /\ ~ local[name].broken /\ IsFile(local[name])
      BY <1>2, <2>3, <3>1 DEF WriteArchive, ArchiveFollows, TypeOK, IsDirectory
    <3>3. local' = [local EXCEPT ![name].members = job[j].members, ![name].empty = FALSE,
                                 ![name].at = now, ![name].writers = @ \ {j}]
      BY <1>2, <3>1, <3>2 DEF WriteArchive
    <3> QED
      BY <2>1, <3>1, <3>2, <3>3 DEF Whole, IsFile
  <2> QED
    BY <2>1, <2>4 DEF ArchiveFollows
<1>3. ASSUME job[j].phase \in {"write", "seal", "upload", "tidy", "completed"},
             job'[j].name = job[j].name
      PROVE  ArchiveFollows(j)
  <2>1. job[j].name # NoName
    BY <1>0, <1>3 DEF JobsAreNamed, Unnamed
  <2> QED
    BY <1>3, <2>1, OwnBefore DEF ArchivesFollow
<1>4. CASE SealArchive(j)
  <2>1. ArchiveFollows(j)
    BY <1>3, <1>4, StepsAtFile DEF SealArchive
  <2>2. /\ job'[j].phase = (IF RemoteStorage THEN "upload" ELSE "tidy")
        /\ job'[j].sealed = (job[j].name \in DOMAIN local)
        /\ job'[j].name = job[j].name /\ job'[j].members = job[j].members
        /\ job'[j].at = job[j].at
    BY <1>4, StepsAtFile
  <2>3. local' = local /\ job[j].phase = "seal"
    BY <1>4 DEF SealArchive
  <2>4. job[j].name \in DOMAIN local => Whole(j)'
    BY <2>1, <2>2, <2>3 DEF ArchiveFollows, Whole
  <2>5. CASE RemoteStorage
    BY <2>2, <2>3, <2>4, <2>5 DEF ArchiveFollows
  <2>6. CASE ~ RemoteStorage
    BY <2>2, <2>3, <2>4, <2>6 DEF ArchiveFollows
  <2> QED
    BY <2>5, <2>6
<1>5. CASE Upload(j)
  <2> DEFINE name == job[j].name
             copy == [local[name] EXCEPT !.at = now, !.writers = {}]
  <2>1. /\ job'[j].phase = "tidy" /\ job'[j].name = name /\ job'[j].at = job[j].at
        /\ job'[j].members = job[j].members /\ job'[j].sealed = job[j].sealed
    BY <1>0, <1>5 DEF Upload, GoOn, TypeOK, IsJob
  <2>2. ArchiveFollows(j)
    BY <1>3, <1>5, <2>1 DEF Upload
  <2>3. remote' = Put(remote, name, copy) /\ local' = local /\ now' = now /\ name \in DOMAIN local
    BY <1>5 DEF Upload
  <2>4. copy.at = now
    BY <1>5 DEF Upload, TypeOK, IsDirectory, IsFile
  <2> HIDE DEF copy
  <2>5. name \in DOMAIN remote' /\ remote'[name].at = now
    BY <2>3, <2>4 DEF Put
  <2> QED
    BY <1>0, <1>5, <2>1, <2>2, <2>3, <2>5 DEF Upload, ArchiveFollows, Whole, Young
<1>6. CASE ~ OpenArchive(j) /\ ~ WriteArchive(j) /\ ~ SealArchive(j) /\ ~ Upload(j)
  <2>1. CASE job'[j].phase \in Unnamed \union {"failed"}
    BY <2>1 DEF ArchiveFollows, Unnamed
  <2>2. CASE job'[j].phase \notin Unnamed \union {"failed"}
    <3>1. /\ job'[j].name = job[j].name /\ job'[j].members = job[j].members
          /\ job'[j].at = job[j].at /\ job'[j].sealed = job[j].sealed
          /\ \/ job'[j].phase = job[j].phase
             \/ job[j].phase = "tidy" /\ job'[j].phase = "completed"
      <4>1. CASE JobStep(j)
        <5>1. Moves(j, "tidy", "completed") /\ Tidy(j)
          BY <1>6, <2>2, <4>1, StepOfJob DEF Moves, Unnamed
        <5>2. job'[j].members = job[j].members
          BY <1>0, <5>1 DEF Tidy, GoOn, TypeOK
        <5> QED
          BY <5>1, <5>2 DEF Moves
      <4> QED
        BY <4>1, JobsStay, OtherJobsStay
    <3>2. job[j].phase \in {"write", "seal", "upload", "tidy", "completed"}
      BY <1>0, <2>2, <3>1 DEF IsJob, Phases, Unnamed
    <3>3. FileStays(job[j].name) /\ CopyStays(job[j].name)
      BY <1>6, <3>1, FilesStay DEF Own, Alone
    <3>4. now' \in Nat /\ now <= now'
      BY <1>0, TimePasses DEF Tick
    <3> QED
      BY <1>3, <3>1, <3>2, <3>3, <3>4, ArchiveOutlivesOthers
  <2> QED
    BY <2>1, <2>2
<1> QED
  BY <1>1, <1>2, <1>4, <1>5, <1>6

-----------------------------------------------------------------------------
(* Sections a job is past, and sections a restore is past. *)

LEMMA NextSectionsFollow ==
  TypeOK /\ SectionsFollow /\ [Next]_vars => SectionsFollow'
<1> SUFFICES ASSUME TypeOK, SectionsFollow, [Next]_vars, NEW j \in Job
             PROVE  /\ job'[j].phase \notin {"idle", "database", "failed"} =>
                          (Wanted(j, "database")' => Has("database.sql", job'[j].members))
                    /\ job'[j].phase \notin {"idle", "database", "config", "whitelist", "logs", "failed"} =>
                          (Wanted(j, "logs")' => Has("logs.zip", job'[j].members))
  BY DEF SectionsFollow
<1>0. IsJob(job[j]) /\ DOMAIN job = Job
  BY DEF TypeOK
<1>1. CASE job'[j] = job[j]
  BY <1>1 DEF SectionsFollow, Wanted
<1>2. ASSUME NEW to, NEW members, GoOn(j, to, members)
      PROVE  job'[j].phase = to /\ job'[j].members = members /\ job'[j].type = job[j].type
  BY <1>0, <1>2 DEF GoOn, IsJob
<1>3. CASE \E type \in Types : Start(j, type)
  BY <1>0, <1>3 DEF Start, IsJob
<1>4. CASE DumpDatabase(j)
  BY <1>2, <1>4 DEF DumpDatabase, Collect, Wanted, Has, Over
<1>5. CASE CollectLogs(j)
  BY <1>2, <1>5 DEF CollectLogs, Collect, SectionsFollow, Wanted, Has, Over
<1>6. CASE CollectConfig(j) \/ CollectWhitelist(j) \/ CollectSkips(j)
  <2>1. /\ job[j].phase \in {"config", "whitelist"} /\ job'[j].phase \in {"whitelist", "logs"}
        /\ DOMAIN job[j].members \subseteq DOMAIN job'[j].members
        /\ job'[j].type = job[j].type
    BY <1>2, <1>6 DEF CollectConfig, CollectWhitelist, CollectSkips, Collect, Over
  <2> QED
    BY <2>1 DEF SectionsFollow, Wanted, Has
<1>7. CASE CollectFails(j) \/ UploadFails(j) \/ TidyFails(j)
  BY <1>2, <1>7 DEF CollectFails, UploadFails, TidyFails, Fail
<1>8. CASE OpenArchive(j) \/ WriteArchive(j) \/ SealArchive(j)
  BY <1>8, StepsAtFile DEF OpenArchive, WriteArchive, SealArchive, SectionsFollow, Wanted
<1>9. CASE Upload(j) \/ Tidy(j)
  BY <1>2, <1>9 DEF Upload, Tidy, SectionsFollow, Wanted
<1> QED
  BY <1>1, <1>3, <1>4, <1>5, <1>6, <1>7, <1>8, <1>9, JobsStay, OtherJobsStay DEF JobStep

-----------------------------------------------------------------------------
(* What a restore has put back. *)

LEMMA SectionIs ==
  ASSUME TypeOK, Restoring
  PROVE  \/ restore.step = 1 /\ Section = "database"
         \/ restore.step = 2 /\ Section = "settings"
         \/ restore.step = 3 /\ Section = "branding"
         \/ restore.step = 4 /\ Section = "whitelist"
         \/ restore.step = 5 /\ Section = "logs"
<1>1. restore.step \in 1 .. 5
  BY OrderIs DEF Restoring
<1> QED
  BY <1>1, OrderIs DEF Section

(* The items of the section at hand are replaced; the others stay.            *)
LEMMA SectionReplaces ==
  ASSUME TypeOK, RestoreSection, NEW i \in Items
  PROVE  LET member == LookedUp[Section] IN
         /\ (Has(member, restore.members) /\ i \in Holds[member]) =>
               live'[i] = restore.members[member][i]
         /\ ~ (Has(member, restore.members) /\ i \in Holds[member]) => live'[i] = live[i]
<1> DEFINE member == LookedUp[Section]
<1>1. IsRestore(restore) /\ live \in [Items -> Version]
  BY DEF TypeOK
<1>2. Has(member, restore.members) => DOMAIN restore.members[member] = Holds[member]
  BY <1>1 DEF IsRestore, IsArchive, Has
<1>3. live' = IF Has(member, restore.members) THEN Over(restore.members[member], live) ELSE live
  BY DEF RestoreSection
<1> HIDE DEF member
<1>4. /\ (Has(member, restore.members) /\ i \in Holds[member]) =>
            live'[i] = restore.members[member][i]
      /\ ~ (Has(member, restore.members) /\ i \in Holds[member]) => live'[i] = live[i]
  BY <1>1, <1>2, <1>3 DEF Over
<1> QED
  BY <1>4 DEF member

(* The restore goes on to the next section, or ends after the last one.       *)
GoesOn ==
    /\ restore'.step = restore.step + 1 /\ restore'.members = restore.members
    /\ restore'.result = restore.result /\ restore'.touched = restore.touched
    /\ restore.lost \subseteq restore'.lost
LEMMA SectionGoesOn ==
  ASSUME TypeOK, RestoreSection \/ RestoreSectionFails
  PROVE  /\ restore.step \in 1 .. 5
         /\ restore.step < 5 => GoesOn
         /\ restore.step = 5 => restore' = Ended("true")
<1>1. IsRestore(restore) /\ restore.step \in 1 .. 5
  BY OrderIs DEF TypeOK, Restoring, RestoreSection, RestoreSectionFails
<1>2. CASE RestoreSection
  BY <1>1, <1>2, OrderIs DEF RestoreSection, NextSection, GoesOn, IsRestore
<1>3. CASE RestoreSectionFails
  <2> DEFINE poorer == [restore EXCEPT !.lost = @ \cup Holds[LookedUp[Section]]]
  <2>1. /\ poorer.step = restore.step /\ poorer.members = restore.members
        /\ poorer.result = restore.result /\ poorer.touched = restore.touched
        /\ restore.lost \subseteq poorer.lost /\ DOMAIN poorer = DOMAIN restore
    BY <1>1 DEF IsRestore
  <2>2. restore' = NextSection(poorer)
    BY <1>3 DEF RestoreSectionFails
  <2> HIDE DEF poorer
  <2> QED
    BY <1>1, <2>1, <2>2, OrderIs DEF NextSection, GoesOn, IsRestore
<1> QED
  BY <1>2, <1>3

LEMMA SectionIsLost ==
  ASSUME TypeOK, RestoreSectionFails, restore.step < 5
  PROVE  live' = live /\ Holds[LookedUp[Section]] \subseteq restore'.lost
<1> DEFINE poorer == [restore EXCEPT !.lost = @ \cup Holds[LookedUp[Section]]]
<1>1. IsRestore(restore)
  BY DEF TypeOK
<1>2. Holds[LookedUp[Section]] \subseteq poorer.lost /\ poorer.step = restore.step
      /\ DOMAIN poorer = DOMAIN restore
  BY <1>1 DEF IsRestore
<1>3. restore' = NextSection(poorer)
  BY DEF RestoreSectionFails
<1> HIDE DEF poorer
<1>4. restore'.lost = poorer.lost
  BY <1>1, <1>2, <1>3, OrderIs DEF NextSection, IsRestore
<1> QED
  BY <1>2, <1>4 DEF RestoreSectionFails

LEMMA SectionsRestored ==
  ASSUME TypeOK, RestoredSoFar, RestoreSection \/ RestoreSectionFails PROVE RestoredSoFar'
<1>1. CASE restore.step = 5
  <2>1. restore'.step = 0
    BY <1>1, SectionGoesOn DEF Ended, NoRestore
  <2> QED
    BY <2>1, OrderIs DEF RestoredSoFar, Restoring
<1>2. CASE restore.step < 5
  <2>1. GoesOn /\ Restoring /\ restore.step \in 1 .. 4 /\ restore.result = "none"
    BY <1>2, SectionGoesOn DEF RestoreSection, RestoreSectionFails, RestoredSoFar
  <2> SUFFICES ASSUME NEW i \in Items, i \notin restore'.touched, i \notin restore'.lost
               PROVE  SectionDone(i)'
    BY <2>1 DEF RestoredSoFar, GoesOn
  <2>2. SectionDone(i)
    BY <2>1 DEF RestoredSoFar, GoesOn
  <2>3. \/ i \in Tables /\ i # "branding"
        \/ i = "branding"
    BY DEF Items, Tables
  <2>4. CASE RestoreSection
    <3> DEFINE member == LookedUp[Section]
    <3>0. /\ (Has(member, restore.members) /\ i \in Holds[member]) =>
               live'[i] = restore.members[member][i]
          /\ ~ (Has(member, restore.members) /\ i \in Holds[member]) => live'[i] = live[i]
      BY <2>4, SectionReplaces
    <3>1. CASE restore.step = 1
      <4>1. member = "database.sql" /\ Holds[member] = Tables
        BY <2>1, <3>1, SectionIs, LookedUpAre, HoldsAre
      <4> QED
        BY <2>1, <2>2, <2>3, <3>0, <3>1, <4>1 DEF SectionDone, GoesOn
    <3>2. CASE restore.step = 2
      <4>1. member \notin DOMAIN Holds
        BY <2>1, <3>2, SectionIs, LookedUpAre, HoldsAre
      <4>2. live'[i] = live[i]
        BY <3>0, <4>1 DEF Has, TypeOK, IsRestore, IsArchive
      <4> QED
        BY <2>1, <2>2, <2>3, <3>2, <4>2 DEF SectionDone, GoesOn
    <3>3. CASE restore.step = 3
      <4>1. member = "branding.zip" /\ Holds[member] = {"branding"}
        BY <2>1, <3>3, SectionIs, LookedUpAre, HoldsAre
      <4> QED
        BY <2>1, <2>2, <2>3, <3>0, <3>3, <4>1 DEF SectionDone, GoesOn, Tables
    <3>4. CASE restore.step = 4
      <4>1. member = "whitelist.zip" /\ Holds[member] = {"whitelist"}
        BY <2>1, <3>4, SectionIs, LookedUpAre, HoldsAre
      <4> QED
        BY <2>1, <2>2, <2>3, <3>0, <3>4, <4>1 DEF SectionDone, GoesOn
    <3> QED
      BY <2>1, <3>1, <3>2, <3>3, <3>4
  <2>5. CASE RestoreSectionFails
    <3>1. live' = live /\ i \notin Holds[LookedUp[Section]] /\ Section # "database"
      BY <1>2, <2>5, SectionIsLost DEF RestoreSectionFails
    <3>2. CASE restore.step = 2
      BY <2>1, <2>2, <2>3, <3>1, <3>2 DEF SectionDone, GoesOn
    <3>3. CASE restore.step = 3
      <4>1. i # "branding"
        BY <2>1, <3>1, <3>3, SectionIs, LookedUpAre, HoldsAre
      <4> QED
        BY <2>1, <2>2, <3>1, <3>3, <4>1 DEF SectionDone, GoesOn
    <3>4. CASE restore.step = 4
      <4>1. i # "whitelist"
        BY <2>1, <3>1, <3>4, SectionIs, LookedUpAre, HoldsAre
      <4> QED
        BY <2>1, <2>2, <3>1, <3>4, <4>1 DEF SectionDone, GoesOn
    <3> QED
      BY <2>1, <3>1, <3>2, <3>3, <3>4, SectionIs
  <2> QED
    BY <2>4, <2>5
<1> QED
  BY <1>1, <1>2, SectionGoesOn

(* Only edits and the restore itself reach the data and the restore.          *)
LEMMA RestoreStays ==
  ASSUME [Next]_vars
  PROVE  \/ live' = live /\ restore' = restore
         \/ \E name \in Name : BeginRestore(name) \/ RestoreWhitelist(name)
         \/ RestoreSection \/ RestoreSectionFails
         \/ \E tables \in SUBSET Tables : RestoreDatabaseFails(tables)
         \/ \E item \in Edited : Edit(item)
<1>1. ASSUME NEW j \in Job, JobStep(j) PROVE live' = live /\ restore' = restore
  BY <1>1 DEF JobStep, Start, DumpDatabase, CollectConfig, CollectWhitelist, CollectLogs, Collect,
     CollectFails, CollectSkips, OpenArchive, WriteArchive, SealArchive, Upload, UploadFails,
     Tidy, TidyFails
<1> QED
  BY <1>1 DEF Next, vars, JobStep, ScheduledCleanup, DeleteBackup, Tick

LEMMA EditWhileRestoring ==
  ASSUME TypeOK, NEW item \in Edited, Edit(item), Restoring
  PROVE  /\ restore'.step = restore.step /\ restore'.members = restore.members
         /\ restore'.result = restore.result /\ restore'.lost = restore.lost
         /\ restore'.touched = restore.touched \union {item}
         /\ \A i \in Items \ {item} : live'[i] = live[i]
<1>1. IsRestore(restore)
  BY DEF TypeOK
<1>2. restore' = [restore EXCEPT !.touched = @ \cup {item}]
  BY DEF Edit
<1> QED
  BY <1>1, <1>2 DEF Edit, TypeOK, IsRestore

LEMMA NextRestoredSoFar == TypeOK /\ RestoredSoFar /\ [Next]_vars => RestoredSoFar'
<1> SUFFICES ASSUME TypeOK, RestoredSoFar, [Next]_vars PROVE RestoredSoFar'
  OBVIOUS
<1>1. CASE live' = live /\ restore' = restore
  BY <1>1 DEF RestoredSoFar, Restoring, SectionDone
<1>2. ASSUME NEW result, restore' = Ended(result) PROVE RestoredSoFar'
  <2>1. restore'.step = 0
    BY <1>2 DEF Ended, NoRestore
  <2> QED
    BY <2>1, OrderIs DEF RestoredSoFar, Restoring
<1>3. ASSUME NEW name \in Name, BeginRestore(name) PROVE RestoredSoFar'
  <2>1. CASE Restorable(name)
    <3>1. restore'.step = 1 /\ restore'.result = "none"
      BY <1>3, <2>1 DEF BeginRestore, NoRestore
    <3> QED
      BY <3>1 DEF RestoredSoFar, SectionDone
  <2> QED
    BY <1>2, <1>3, <2>1 DEF BeginRestore
<1>4. ASSUME NEW name \in Name, RestoreWhitelist(name) PROVE RestoredSoFar'
  BY <1>2, <1>4 DEF RestoreWhitelist
<1>5. ASSUME NEW tables \in SUBSET Tables, RestoreDatabaseFails(tables) PROVE RestoredSoFar'
  BY <1>2, <1>5 DEF RestoreDatabaseFails
<1>6. ASSUME NEW item \in Edited, Edit(item) PROVE RestoredSoFar'
  <2>1. CASE Restoring
    BY <1>6, <2>1, EditWhileRestoring DEF RestoredSoFar, SectionDone
  <2>2. CASE ~ Restoring
    BY <1>6, <2>2 DEF Edit, RestoredSoFar, Restoring
  <2> QED
    BY <2>1, <2>2
<1> QED
  BY <1>1, <1>3, <1>4, <1>5, <1>6, SectionsRestored, RestoreStays

-----------------------------------------------------------------------------
(* The theorems. *)

IInv ==
    /\ TypeOK
    /\ JobsAreNamed
    /\ WritersWrite
    /\ ArchivesFollow
    /\ SectionsFollow
    /\ RestoredSoFar

LEMMA InitIInv == Init => IInv
<1> SUFFICES ASSUME Init PROVE IInv
  OBVIOUS
<1>1. now = 0 /\ \A j \in Job : job[j].phase = "idle" /\ job[j].name = NoName /\ job[j].at = 0
  BY DEF Init, IdleJob
<1>2. JobsAreNamed
  <2> SUFFICES ASSUME NEW j \in Job
               PROVE  /\ job[j].phase # "idle" => job[j].type \in Types
                      /\ job[j].phase \in Unnamed => job[j].name = NoName
                      /\ job[j].phase \notin Unnamed \union {"failed"} => job[j].name \in Name
                      /\ job[j].at <= now
    BY DEF JobsAreNamed
  <2>1. job[j].at <= now
    BY <1>1
  <2> QED
    BY <1>1, <2>1 DEF Unnamed
<1>3. WritersWrite
  BY DEF Init, None, WritersWrite
<1>4. ArchivesFollow /\ SectionsFollow
  BY <1>1 DEF ArchivesFollow, ArchiveFollows, SectionsFollow
<1>5. RestoredSoFar
  BY OrderIs DEF Init, NoRestore, RestoredSoFar, Restoring
<1> QED
  BY <1>2, <1>3, <1>4, <1>5, InitTypeOK DEF IInv

LEMMA Invariance == Spec => []IInv
<1>1. IInv /\ [Next]_vars => IInv'
  BY NextTypeOK, NextJobsAreNamed, NextWritersWrite, NextArchivesFollow, NextSectionsFollow,
     NextRestoredSoFar DEF IInv
<1> QED
  BY <1>1, InitIInv, PTL DEF Spec

(* Jobs, directories and the restore keep their shape; every member of an     *)
(* archive holds a version of exactly the items of its section.               *)
THEOREM TypeCorrect == Spec => []TypeOK
<1>1. IInv => TypeOK
  BY DEF IInv
<1> QED
  BY <1>1, Invariance, PTL

(* The archive of a completed job is there, whole, as long as it is young:    *)
(* no clean-up, other job, restore or edit takes it, whatever the order in    *)
(* which they come.  About _create_archive, run_backup, _cleanup_old_backups. *)
THEOREM YoungArchivesStay == Spec => []YoungArchivesSurvive
<1>1. IInv => YoungArchivesSurvive
  <2> SUFFICES ASSUME IInv, NEW j \in Job, job[j].phase = "completed", job[j].sealed,
                      Alone(j), job[j].name \notin removed, now - job[j].at <= Retention
               PROVE  LET name == job[j].name IN
                      /\ name \in DOMAIN local /\ local[name].members = job[j].members
                      /\ ~ local[name].empty /\ ~ local[name].broken
                      /\ RemoteStorage => name \in DOMAIN remote
    BY DEF YoungArchivesSurvive
  <2>1. ArchiveFollows(j) /\ Young(j)
    BY DEF IInv, ArchivesFollow, Own, Young
  <2> QED
    BY <2>1 DEF ArchiveFollows, Whole
<1> QED
  BY <1>1, Invariance, PTL

(* A completed job collected the dump and the logs it was asked for.  About   *)
(* the exceptions run_backup lets through and those it does not.              *)
THEOREM CompletedJobsHoldTheDump == Spec => []CompletedHoldsTheDump
<1>1. IInv => CompletedHoldsTheDump
  BY DEF IInv, SectionsFollow, CompletedHoldsTheDump
<1> QED
  BY <1>1, Invariance, PTL

(* A restore that returns True leaves each item that nobody edited meanwhile  *)
(* as the archive has it, in the member that has the last word on it.  About  *)
(* the order of the sections in restore_backup.                               *)
THEOREM RestoresAreTrue == Spec => RestoredAsArchived
<1> DEFINE
      True == (restore.step = Len(RestoreOrder) /\ restore'.result = "true") =>
                \A i \in Items \ (restore.touched \cup restore.lost) :
                   LET member == Authority(i, restore.members)
                   IN Has(member, restore.members) => live'[i] = restore.members[member][i]
<1>1. IInv /\ [Next]_vars => True
  <2> SUFFICES ASSUME IInv, [Next]_vars, restore.step = 5, restore'.result = "true",
                      NEW i \in Items, i \notin restore.touched, i \notin restore.lost,
                      NEW member, member = Authority(i, restore.members),
                      Has(member, restore.members)
               PROVE  live'[i] = restore.members[member][i]
    BY OrderIs
  <2>1. TypeOK /\ Restoring /\ restore.result = "none" /\ SectionDone(i) /\ Section = "logs"
    BY OrderIs DEF IInv, Restoring, RestoredSoFar, Section
  <2>2. live'[i] = live[i]
    <3>1. RestoreSection \/ RestoreSectionFails
      BY <2>1, RestoreStays, EditWhileRestoring DEF BeginRestore, RestoreWhitelist,
         RestoreDatabaseFails
    <3>2. CASE RestoreSection
      BY <2>1, <3>2, SectionReplaces, LookedUpAre, HoldsAre
    <3> QED
      BY <3>1, <3>2 DEF RestoreSectionFails
  <2>3. i \in Tables \/ i = "branding"
    BY DEF Items
  <2> QED
    BY <2>1, <2>2, <2>3 DEF SectionDone, Authority, Tables
<1> QED
  BY <1>1, Invariance, PTL DEF Spec, RestoredAsArchived
=============================================================================
