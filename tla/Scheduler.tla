------------------------------ MODULE Scheduler ------------------------------
(* The background loops of main.py in several instances of the service.  Each *)
(* loop sleeps, looks whether an operator paused the task, takes the task's   *)
(* lock in Redis (SET NX EX), does its round and deletes the lock.  The lock  *)
(* carries no owner; when Redis fails the task runs without it; the command   *)
(* line runs a task without asking for it.  Loops of different tasks share    *)
(* nothing but Redis, so a behaviour follows one task, chosen at the start.   *)
(*                                                                            *)
(* A tick is a minute: the poll of the backup loop, and the unit of the       *)
(* times to live.                                                             *)
EXTENDS Naturals

CONSTANTS
    Instance,       \* processes of the service, each with every loop
    Cli,            \* cli.py scheduler trigger, a process of its own
    Nobody,         \* the key's setter is gone
    NoKey,          \* the key does not exist
    LockTtl,        \* EX of the task lock, in ticks
    Day,            \* minutes of a day
    Due,            \* the minutes the backup's cron expression names
    MaxDisturbance  \* bound on crashes, stops, Redis outages, pauses, cli runs

ASSUME LockTtlAssumption == LockTtl \in Nat \ {0}
ASSUME DisturbanceAssumption == MaxDisturbance \in Nat
ASSUME DayAssumption == Day \in Nat \ {0} /\ Due \subseteq 0 .. Day - 1
ASSUME MemberAssumption == Cli \notin Instance /\ Nobody \notin Instance \union {Cli}
ASSUME NoKeyAssumption ==
    NoKey \notin {0, 1} \union [owner : Instance \union {Nobody}, left : 1 .. LockTtl]

VARIABLES
    task,           \* the task the loops run
    pc,             \* where each process is
    lock,           \* scheduler:lock:<task>: who set it (unknown to the code), ticks left
    spent,          \* ticks a process has been inside, at most LockTtl
    lastRun,        \* ticks since notify:last_backup_run was written, or NoKey
    redisUp,        \* Redis answers
    paused,         \* scheduler:ctrl:<task> = "paused"
    minute,         \* the wall clock
    ran,            \* scheduled backups begun this minute by holders of the lock
    disturbances
vars == <<task, pc, lock, spent, lastRun, redisUp, paused, minute, ran, disturbances>>

Task == {"backup", "compliance_check", "sweep"}
Member == Instance \union {Cli}
AtWork == {"round", "due", "clear", "running", "leaving", "failing"}
Outside == {"down", "sleeping", "rested", "asking", "again"}

(* Between taking the lock and giving it back.                                *)
Inside == {i \in Member : pc[i] \in AtWork}
Holds(i) == lock # NoKey /\ lock.owner = i
Overdue == {i \in Inside : spent[i] = LockTtl}

TypeOK ==
    /\ task \in Task
    /\ pc \in [Member -> AtWork \union Outside]
    /\ pc[Cli] \in {"sleeping", "running"}
    /\ lock \in [owner : Instance \union {Nobody}, left : 1 .. LockTtl] \union {NoKey}
    /\ spent \in [Member -> 0 .. LockTtl]
    /\ lastRun \in {NoKey, 0, 1}
    /\ redisUp \in BOOLEAN
    /\ paused \in BOOLEAN
    /\ minute \in 0 .. Day - 1
    /\ ran \in 0 .. 2
    /\ disturbances \in 0 .. MaxDisturbance

Init ==
    /\ task \in Task
    /\ pc = [i \in Member |-> "sleeping"]
    /\ lock = NoKey
    /\ spent = [i \in Member |-> 0]
    /\ lastRun = NoKey
    /\ redisUp = TRUE
    /\ paused = FALSE
    /\ minute = 0
    /\ ran = 0
    /\ disturbances = 0

Goto(i, place) == pc' = [pc EXCEPT ![i] = place]
Disturb == disturbances < MaxDisturbance /\ disturbances' = disturbances + 1
Calm == UNCHANGED disturbances
World == <<task, redisUp, paused, minute>>

(* ----------------------------------------------------------- the loop ---- *)

(* The sleep is over: a pause sends the loop back to sleep, unless Redis      *)
(* cannot be asked.                                                           *)
Wake(i) ==
    /\ pc[i] = "rested"
    /\ Goto(i, IF paused /\ redisUp THEN "sleeping" ELSE "asking")
    /\ UNCHANGED <<lock, spent, lastRun, ran>> /\ Calm /\ UNCHANGED World

\* Mutated: SET without NX.
AcquireOverwriting(i) ==
    /\ pc[i] = "asking" /\ redisUp
    /\ lock' = [owner |-> i, left |-> LockTtl]
    /\ spent' = [spent EXCEPT ![i] = 0]
    /\ Goto(i, "round")
    /\ UNCHANGED <<lastRun, ran>> /\ Calm /\ UNCHANGED World

(* SET NX EX: no key, and the key is this instance's.                         *)
Acquire(i) ==
    /\ pc[i] = "asking" /\ redisUp /\ lock = NoKey
    /\ lock' = [owner |-> i, left |-> LockTtl]
    /\ spent' = [spent EXCEPT ![i] = 0]
    /\ Goto(i, "round")
    /\ UNCHANGED <<lastRun, ran>> /\ Calm /\ UNCHANGED World

(* Another instance holds the key: no round this time.                        *)
TurnedAway(i) ==
    /\ pc[i] = "asking" /\ redisUp /\ lock # NoKey
    /\ Goto(i, "sleeping")
    /\ UNCHANGED <<lock, spent, lastRun, ran>> /\ Calm /\ UNCHANGED World

(* Redis fails: the task is allowed to run.                                   *)
AcquireOpen(i) ==
    /\ pc[i] = "asking" /\ ~redisUp
    /\ spent' = [spent EXCEPT ![i] = 0]
    /\ Goto(i, "round")
    /\ UNCHANGED <<lock, lastRun, ran>> /\ Calm /\ UNCHANGED World

(* The body of every loop but the backup's, over or failed half way.  An      *)
(* error leaves the compliance check by a path of its own.                    *)
Work(i) ==
    /\ pc[i] = "round" /\ task # "backup"
    /\ \/ Goto(i, "leaving")
       \/ task = "compliance_check" /\ Goto(i, "failing")
    /\ UNCHANGED <<lock, spent, lastRun, ran>> /\ Calm /\ UNCHANGED World

(* The key deleted, whoever set it; nothing if Redis fails.  What stays       *)
(* behind belongs to nobody who is inside.                                    *)
Deleted(i) ==
    lock' = IF redisUp THEN NoKey
            ELSE IF Holds(i) THEN [lock EXCEPT !.owner = Nobody] ELSE lock

Release(i) ==
    /\ pc[i] = "leaving"
    /\ Deleted(i)
    /\ Goto(i, "sleeping")
    /\ UNCHANGED <<spent, lastRun, ran>> /\ Calm /\ UNCHANGED World

(* The compliance check's finally, and then its outer except.                 *)
ReleaseFailed(i) ==
    /\ pc[i] = "failing"
    /\ Deleted(i)
    /\ Goto(i, "again")
    /\ UNCHANGED <<spent, lastRun, ran>> /\ Calm /\ UNCHANGED World

ReleaseAgain(i) ==
    /\ pc[i] = "again"
    /\ Deleted(i)
    /\ Goto(i, "sleeping")
    /\ UNCHANGED <<spent, lastRun, ran>> /\ Calm /\ UNCHANGED World

(* ------------------------------------------------- the backup's round ---- *)

(* The configuration is loaded; the minute is asked of the clock.             *)
CheckSchedule(i) ==
    /\ pc[i] = "round" /\ task = "backup"
    /\ \/ minute \in Due /\ Goto(i, "due")
       \/ Goto(i, "leaving") \* not enabled, or not the minute
    /\ UNCHANGED <<lock, spent, lastRun, ran>> /\ Calm /\ UNCHANGED World

(* GET last_backup_run.  The client decodes, so .decode() of any value there  *)
(* raises and ends the round, as Redis failing does.                          *)
ReadLastRun(i) ==
    /\ pc[i] = "due"
    /\ Goto(i, IF redisUp /\ lastRun = NoKey THEN "clear" ELSE "leaving")
    /\ UNCHANGED <<lock, spent, lastRun, ran>> /\ Calm /\ UNCHANGED World

\* Mutated: the last run is not written before the backup.
StartBackupUnmarked(i) ==
    /\ pc[i] = "clear"
    /\ Goto(i, "running")
    /\ ran' = IF Holds(i) /\ ran < 2 THEN ran + 1 ELSE ran
    /\ UNCHANGED <<lastRun, lock, spent>> /\ Calm /\ UNCHANGED World

(* SETEX 120, and the backup begins.                                          *)
StartBackup(i) ==
    /\ pc[i] = "clear"
    /\ IF redisUp
       THEN /\ Goto(i, "running")
            /\ lastRun' = 0
            /\ ran' = IF Holds(i) /\ ran < 2 THEN ran + 1 ELSE ran
       ELSE Goto(i, "leaving") /\ UNCHANGED <<lastRun, ran>>
    /\ UNCHANGED <<lock, spent>> /\ Calm /\ UNCHANGED World

FinishBackup(i) ==
    /\ pc[i] = "running" /\ i # Cli
    /\ Goto(i, "leaving")
    /\ UNCHANGED <<lock, spent, lastRun, ran>> /\ Calm /\ UNCHANGED World

(* ----------------------------------------------------------- the rest ---- *)

(* scheduler trigger: the same work, no pause, no lock, no last run.          *)
Trigger ==
    /\ pc[Cli] = "sleeping" /\ Disturb
    /\ Goto(Cli, "running")
    /\ spent' = [spent EXCEPT ![Cli] = 0]
    /\ UNCHANGED <<lock, lastRun, ran>> /\ UNCHANGED World

TriggerEnds ==
    /\ pc[Cli] = "running"
    /\ Goto(Cli, "sleeping")
    /\ UNCHANGED <<lock, spent, lastRun, ran>> /\ Calm /\ UNCHANGED World

(* The process dies; its key waits for its time to run out.                   *)
Crash(i) ==
    /\ pc[i] # "down" /\ Disturb
    /\ Goto(i, "down")
    /\ lock' = IF Holds(i) THEN [lock EXCEPT !.owner = Nobody] ELSE lock
    /\ UNCHANGED <<spent, lastRun, ran>> /\ UNCHANGED World

(* lifespan's end: the task is cancelled, its finally deletes the key.        *)
Shutdown(i) ==
    /\ pc[i] # "down" /\ Disturb
    /\ Goto(i, "down")
    /\ IF i \in Inside \/ pc[i] = "again" THEN Deleted(i) ELSE UNCHANGED lock
    /\ UNCHANGED <<spent, lastRun, ran>> /\ UNCHANGED World

(* Every loop begins with its sleep.                                          *)
Start(i) ==
    /\ pc[i] = "down"
    /\ Goto(i, "sleeping")
    /\ UNCHANGED <<lock, spent, lastRun, ran>> /\ Calm /\ UNCHANGED World

(* The operator's control key.                                                *)
SetPaused(p) ==
    /\ paused # p /\ redisUp
    /\ IF p THEN Disturb ELSE Calm
    /\ paused' = p
    /\ UNCHANGED <<pc, lock, spent, lastRun, ran, task, redisUp, minute>>

RedisFails ==
    /\ redisUp /\ Disturb
    /\ redisUp' = FALSE
    /\ UNCHANGED <<pc, lock, spent, lastRun, ran, task, paused, minute>>

RedisRecovers ==
    /\ ~redisUp
    /\ redisUp' = TRUE
    /\ UNCHANGED <<pc, lock, spent, lastRun, ran, task, paused, minute>> /\ Calm

\* Mutated: the key is set without EX.
KeyForGood(key) == key

(* EX: the task's key a minute later.                                         *)
KeyAMinuteLater(key) ==
    IF key = NoKey \/ key.left = 1 THEN NoKey ELSE [key EXCEPT !.left = @ - 1]

(* A minute passes: sleepers have slept, keys age, the last run's goes after  *)
(* two.                                                                       *)
Tick ==
    /\ minute' = (minute + 1) % Day
    /\ pc' = [i \in Member |-> IF i # Cli /\ pc[i] = "sleeping" THEN "rested" ELSE pc[i]]
    /\ spent' = [i \in Member |->
                   IF i \in Inside /\ spent[i] < LockTtl THEN spent[i] + 1 ELSE spent[i]]
    /\ lock' = KeyAMinuteLater(lock)
    /\ lastRun' = IF lastRun = 0 THEN 1 ELSE NoKey
    /\ ran' = 0
    /\ UNCHANGED <<task, redisUp, paused>> /\ Calm

Round(i) ==
    \/ Wake(i) \/ Acquire(i) \/ TurnedAway(i) \/ AcquireOpen(i) \/ Work(i)
    \/ Release(i) \/ ReleaseFailed(i) \/ ReleaseAgain(i)
    \/ CheckSchedule(i) \/ ReadLastRun(i) \/ StartBackup(i) \/ FinishBackup(i)

Next ==
    \/ \E i \in Instance : Round(i) \/ Crash(i) \/ Shutdown(i) \/ Start(i)
    \/ Trigger \/ TriggerEnds
    \/ \E p \in BOOLEAN : SetPaused(p)
    \/ RedisFails \/ RedisRecovers
    \/ Tick

Spec == Init /\ [][Next]_vars

(* Event loops run what is ready, the supervisor restarts the service, time   *)
(* passes, an outage ends.  Nothing says an operator resumes a task.          *)
FairSpec ==
    /\ Spec
    /\ \A i \in Instance : WF_vars(Round(i)) /\ WF_vars(Start(i))
    /\ WF_vars(Tick) /\ WF_vars(RedisRecovers)

(* ---------------------------------------------------------- properties ---- *)

(* The task lock is a lease: an instance gets in by the key only when whoever *)
(* is inside has lost it, and loses it only by running past its time, by      *)
(* Redis failing, or to the release of one that had no key any more.          *)
Exposed == {i \in Inside : ~Holds(i)}
Stray == {i \in Instance : pc[i] = "again"}
TaskLease == INSTANCE Lease WITH
    Member <- Member, inside <- Inside, exposed <- Exposed,
    overdue <- Overdue, stray <- Stray
LockIsALease == TaskLease!LeaseSpec

(* However instances, crashes and Redis fall, the holders of the lock begin   *)
(* one scheduled backup a minute: the last run is written before the backup.  *)
OneBackupAMinute == ran < 2

(* A holder that dies does not stop the task for good: unless it stays paused *)
(* some instance gets its round again and again.                              *)
RoundsKeepComing == ([]<>~paused) => []<>(\E i \in Instance : pc[i] \in AtWork)

===============================================================================
