---------------------------- MODULE SchedulerProofs ----------------------------
(* The task lock of Scheduler implements Lease, and the holders of it begin   *)
(* at most one scheduled backup a minute, for any instances, times to live    *)
(* and schedules.                                                             *)
EXTENDS Scheduler, TLAPS

(* A key that still names its setter: the setter is inside, and the key's     *)
(* remaining time and the setter's spent time make up the time to live.       *)
KeyInv ==
    lock # NoKey /\ lock.owner # Nobody =>
        lock.owner \in Inside /\ spent[lock.owner] + lock.left = LockTtl

(* A backup begun this minute left its mark, and a holder that saw no mark is *)
(* the only one that could have begun one since.                              *)
MarkInv ==
    /\ ran < 2
    /\ ran > 0 => lastRun = 0
    /\ \A i \in Instance : pc[i] = "clear" /\ Holds(i) => ran = 0

IInv == TypeOK /\ KeyInv /\ MarkInv

USE DisturbanceAssumption, LockTtlAssumption, DayAssumption, MemberAssumption, NoKeyAssumption

LEMMA InitIInv == Init => IInv
<1> SUFFICES ASSUME Init PROVE IInv
  OBVIOUS
<1>1. TypeOK
  <2>1. pc \in [Member -> AtWork \union Outside] /\ pc[Cli] \in {"sleeping", "running"}
    BY DEF Init, Member, AtWork, Outside
  <2>2. spent \in [Member -> 0 .. LockTtl]
    BY DEF Init
  <2>3. minute \in 0 .. Day - 1 /\ ran \in 0 .. 2 /\ disturbances \in 0 .. MaxDisturbance
    BY DEF Init
  <2>4. task \in Task /\ lock = NoKey /\ lastRun = NoKey /\ redisUp \in BOOLEAN /\ paused \in BOOLEAN
    BY DEF Init
  <2> QED
    BY <2>1, <2>2, <2>3, <2>4 DEF TypeOK
<1>2. KeyInv
  BY DEF Init, KeyInv
<1>3. MarkInv
  BY DEF Init, MarkInv, Holds
<1> QED
  BY <1>1, <1>2, <1>3 DEF IInv

(* What the records of TypeOK look like, for the provers.                     *)
LEMMA KeyType == ASSUME TypeOK PROVE lock # NoKey =>
    /\ lock.owner \in Instance \union {Nobody}
    /\ lock.left \in 1 .. LockTtl
    /\ lock = [owner |-> lock.owner, left |-> lock.left]
  BY DEF TypeOK

LEMMA RoundTypeOK ==
  ASSUME TypeOK, NEW i \in Instance, Round(i) PROVE TypeOK'
<1> USE DEF TypeOK, Member, AtWork, Outside, Goto, Calm, World, Holds
<1> i # Cli
  OBVIOUS
<1>1. CASE Wake(i)
  BY <1>1 DEF Wake
<1>2. CASE Acquire(i)
  BY <1>2 DEF Acquire
<1>3. CASE TurnedAway(i)
  BY <1>3 DEF TurnedAway
<1>4. CASE AcquireOpen(i)
  BY <1>4 DEF AcquireOpen
<1>5. CASE Work(i)
  BY <1>5 DEF Work
<1>6. CASE Release(i)
  BY <1>6 DEF Release, Deleted
<1>7. CASE ReleaseFailed(i)
  BY <1>7 DEF ReleaseFailed, Deleted
<1>8. CASE ReleaseAgain(i)
  BY <1>8 DEF ReleaseAgain, Deleted
<1>9. CASE CheckSchedule(i)
  BY <1>9 DEF CheckSchedule
<1>10. CASE ReadLastRun(i)
  BY <1>10 DEF ReadLastRun
<1>11. CASE StartBackup(i)
  BY <1>11 DEF StartBackup
<1>12. CASE FinishBackup(i)
  BY <1>12 DEF FinishBackup
<1> QED
  BY <1>1, <1>2, <1>3, <1>4, <1>5, <1>6, <1>7, <1>8, <1>9, <1>10, <1>11, <1>12 DEF Round

LEMMA KeyMinuteType ==
  ASSUME TypeOK
  PROVE  KeyAMinuteLater(lock) \in [owner : Instance \union {Nobody}, left : 1 .. LockTtl] \union {NoKey}
BY DEF TypeOK, KeyAMinuteLater

LEMMA NextTypeOK == TypeOK /\ [Next]_vars => TypeOK'
<1> SUFFICES ASSUME TypeOK, [Next]_vars PROVE TypeOK'
  OBVIOUS
<1>1. ASSUME NEW i \in Instance, Round(i) PROVE TypeOK'
  BY <1>1, RoundTypeOK
<1>2. ASSUME NEW i \in Instance, Crash(i) \/ Shutdown(i) \/ Start(i) PROVE TypeOK'
  <2> i # Cli
    OBVIOUS
  <2> USE DEF TypeOK, Member, AtWork, Outside, Goto, Calm, Disturb, World, Holds
  <2>1. CASE Crash(i)
    BY <2>1 DEF Crash
  <2>2. CASE Shutdown(i)
    BY <2>2 DEF Shutdown, Deleted
  <2>3. CASE Start(i)
    BY <2>3 DEF Start
  <2> QED
    BY <1>2, <2>1, <2>2, <2>3
<1>3. CASE Trigger \/ TriggerEnds
  BY <1>3 DEF Trigger, TriggerEnds, TypeOK, Member, AtWork, Outside, Goto, Calm, Disturb, World
<1>4. CASE RedisFails \/ RedisRecovers \/ \E p \in BOOLEAN : SetPaused(p)
  <2> USE DEF TypeOK, Disturb, Calm
  <2>1. CASE RedisFails
    <3>1. disturbances' \in 0 .. MaxDisturbance
      BY <2>1, SMT DEF RedisFails
    <3>2. redisUp' \in BOOLEAN
      BY <2>1 DEF RedisFails
    <3> QED
      BY <2>1, <3>1, <3>2 DEF RedisFails
  <2>2. CASE RedisRecovers
    BY <2>2 DEF RedisRecovers
  <2>3. ASSUME NEW p \in BOOLEAN, SetPaused(p) PROVE TypeOK'
    <3>1. paused' \in BOOLEAN
      BY <2>3 DEF SetPaused
    <3>2. disturbances' \in 0 .. MaxDisturbance
      BY <2>3, SMT DEF SetPaused
    <3> QED
      BY <2>3, <3>1, <3>2 DEF SetPaused
  <2> QED
    BY <1>4, <2>1, <2>2, <2>3
<1>5. CASE Tick
  <2>1. pc' \in [Member -> AtWork \union Outside] /\ pc'[Cli] \in {"sleeping", "running"}
    BY <1>5 DEF Tick, TypeOK, Member, AtWork, Outside
  <2>2. spent' \in [Member -> 0 .. LockTtl]
    BY <1>5 DEF Tick, TypeOK
  <2>3. minute' \in 0 .. Day - 1
    BY <1>5 DEF Tick, TypeOK
  <2>4. lock' \in [owner : Instance \union {Nobody}, left : 1 .. LockTtl] \union {NoKey}
    BY <1>5, KeyMinuteType DEF Tick
  <2> QED
    BY <1>5, <2>1, <2>2, <2>3, <2>4 DEF Tick, TypeOK, Calm
<1>6. CASE UNCHANGED vars
  BY <1>6 DEF vars, TypeOK
<1> QED
  BY <1>1, <1>2, <1>3, <1>4, <1>5, <1>6 DEF Next

(* ------------------------------------------------------------- the key ---- *)

(* A step that moves nobody in or out and leaves key and time alone.          *)
Steady ==
    /\ lock' = lock /\ spent' = spent
    /\ \A i \in Member : /\ pc'[i] \in AtWork <=> pc[i] \in AtWork
                         /\ pc'[i] = "again" <=> pc[i] = "again"

LEMMA RoundSteady ==
  ASSUME TypeOK, NEW i \in Instance,
         Wake(i) \/ TurnedAway(i) \/ Work(i) \/ CheckSchedule(i) \/ ReadLastRun(i)
           \/ StartBackup(i) \/ FinishBackup(i)
  PROVE  Steady
BY DEF Wake, TurnedAway, Work, CheckSchedule, ReadLastRun, StartBackup, FinishBackup,
  TypeOK, Member, AtWork, Outside, Goto, Steady

LEMMA RestSteady ==
  ASSUME TypeOK,
         \/ \E i \in Instance : Start(i)
         \/ RedisFails \/ RedisRecovers \/ \E p \in BOOLEAN : SetPaused(p)
         \/ UNCHANGED vars
  PROVE  Steady
BY DEF Start, RedisFails, RedisRecovers, SetPaused, vars, TypeOK, Member, AtWork, Outside, Goto, Steady

LEMMA SteadyKey == ASSUME TypeOK, KeyInv, Steady PROVE KeyInv'
BY DEF KeyInv, Steady, Inside, TypeOK, Member

LEMMA NextKeyInv == TypeOK /\ KeyInv /\ [Next]_vars => KeyInv'
<1> SUFFICES ASSUME TypeOK, KeyInv, [Next]_vars PROVE KeyInv'
  OBVIOUS
<1> USE DEF TypeOK, KeyInv, Inside, Holds, Member, Goto
<1>1. ASSUME NEW i \in Instance, Acquire(i) PROVE KeyInv'
  BY <1>1 DEF Acquire, AtWork
<1>2. ASSUME NEW i \in Instance, AcquireOpen(i) PROVE KeyInv'
  BY <1>2 DEF AcquireOpen, AtWork
<1>3. ASSUME NEW i \in Instance, Release(i) \/ ReleaseFailed(i) \/ ReleaseAgain(i) PROVE KeyInv'
  BY <1>3 DEF Release, ReleaseFailed, ReleaseAgain, Deleted, AtWork
<1>4. ASSUME NEW i \in Instance, Crash(i) PROVE KeyInv'
  BY <1>4 DEF Crash, AtWork
<1>5. ASSUME NEW i \in Instance, Shutdown(i) PROVE KeyInv'
  BY <1>5 DEF Shutdown, Deleted, AtWork
<1>6. CASE Trigger \/ TriggerEnds
  BY <1>6 DEF Trigger, TriggerEnds, AtWork, World
<1>7. CASE Tick
  <2> SUFFICES ASSUME lock' # NoKey, lock'.owner # Nobody
               PROVE  lock'.owner \in Inside' /\ spent'[lock'.owner] + lock'.left = LockTtl
    OBVIOUS
  <2>1. lock # NoKey /\ lock.left # 1 /\ lock'.owner = lock.owner /\ lock'.left = lock.left - 1
    BY <1>7 DEF Tick, KeyAMinuteLater
  <2>2. lock.owner \in Inside /\ spent[lock.owner] + lock.left = LockTtl
    BY <2>1
  <2>3. pc'[lock.owner] = pc[lock.owner]
    BY <1>7, <2>2 DEF Tick, AtWork
  <2>4. spent'[lock.owner] = spent[lock.owner] + 1
    BY <1>7, <2>1, <2>2 DEF Tick
  <2> QED
    BY <2>1, <2>2, <2>3, <2>4
<1>8. CASE Steady
  BY <1>8, SteadyKey
<1> QED
  BY <1>1, <1>2, <1>3, <1>4, <1>5, <1>6, <1>7, <1>8, RoundSteady, RestSteady DEF Next, Round

(* ------------------------------------------------------------ the mark ---- *)

LEMMA NextMarkInv == TypeOK /\ MarkInv /\ [Next]_vars => MarkInv'
<1> SUFFICES ASSUME TypeOK, MarkInv, [Next]_vars PROVE MarkInv'
  OBVIOUS
<1> USE DEF TypeOK, MarkInv, Holds, Member, Goto
<1>1. ASSUME NEW i \in Instance, Wake(i) \/ TurnedAway(i) \/ AcquireOpen(i) \/ Work(i) \/ CheckSchedule(i)
                \/ FinishBackup(i)
      PROVE MarkInv'
  BY <1>1 DEF Wake, TurnedAway, AcquireOpen, Work, CheckSchedule, FinishBackup
<1>2. ASSUME NEW i \in Instance, Acquire(i) PROVE MarkInv'
  BY <1>2 DEF Acquire
<1>3. ASSUME NEW i \in Instance, Release(i) \/ ReleaseFailed(i) \/ ReleaseAgain(i) PROVE MarkInv'
  BY <1>3 DEF Release, ReleaseFailed, ReleaseAgain, Deleted
<1>4. ASSUME NEW i \in Instance, ReadLastRun(i) PROVE MarkInv'
  BY <1>4 DEF ReadLastRun
<1>5. ASSUME NEW i \in Instance, StartBackup(i) PROVE MarkInv'
  BY <1>5 DEF StartBackup
<1>6. ASSUME NEW i \in Instance, Crash(i) \/ Shutdown(i) \/ Start(i) PROVE MarkInv'
  BY <1>6 DEF Crash, Shutdown, Start, Deleted
<1>7. CASE Trigger \/ TriggerEnds
  BY <1>7 DEF Trigger, TriggerEnds, World
<1>8. CASE RedisFails \/ RedisRecovers \/ \E p \in BOOLEAN : SetPaused(p)
  BY <1>8 DEF RedisFails, RedisRecovers, SetPaused
<1>9. CASE Tick
  BY <1>9 DEF Tick
<1>10. CASE UNCHANGED vars
  BY <1>10 DEF vars
<1> QED
  BY <1>1, <1>2, <1>3, <1>4, <1>5, <1>6, <1>7, <1>8, <1>9, <1>10 DEF Next, Round

LEMMA Invariance == Spec => []IInv
<1>1. IInv /\ [Next]_vars => IInv'
  BY NextTypeOK, NextKeyInv, NextMarkInv DEF IInv
<1> QED
  BY <1>1, InitIInv, PTL DEF Spec

(* Every variable keeps its type; a key in Redis has between one tick and its *)
(* full time to live.                                                         *)
THEOREM TypeCorrect == Spec => []TypeOK
<1>1. IInv => TypeOK
  BY DEF IInv
<1> QED
  BY <1>1, Invariance, PTL

(* However instances crash, stop, outlive the lock or lose Redis, those that  *)
(* hold the lock begin at most one scheduled backup a minute.                 *)
THEOREM OneBackup == Spec => []OneBackupAMinute
<1>1. IInv => OneBackupAMinute
  BY DEF IInv, MarkInv, OneBackupAMinute
<1> QED
  BY <1>1, Invariance, PTL

(* ------------------------------------------------------ the refinement ---- *)

LEMMA InitLease == Init => TaskLease!LeaseInit
BY DEF Init, TaskLease!LeaseInit, Inside, Exposed, Overdue, Stray, Member, AtWork

LEMMA SteadyLease ==
  ASSUME TypeOK, Steady
  PROVE  UNCHANGED <<Inside, Exposed, Overdue, Stray>>
BY DEF Steady, Inside, Exposed, Overdue, Stray, Holds, Member

(* i comes out: what the key was may have changed, but not into anybody's.    *)
LEMMA Departure ==
  ASSUME TypeOK, KeyInv, NEW i \in Member, i \in Inside, NEW x, x \notin AtWork,
         pc' = [pc EXCEPT ![i] = x], spent' = spent,
         \/ lock' = NoKey
         \/ lock' = IF Holds(i) THEN [lock EXCEPT !.owner = Nobody] ELSE lock
  PROVE  /\ Inside' = Inside \ {i}
         /\ Overdue' = Overdue \ {i}
         /\ Exposed \ {i} \subseteq Exposed' /\ Exposed' \subseteq Inside'
         /\ i \notin Exposed => Exposed' = Exposed
         /\ Stray' = IF x = "again" /\ i \in Instance THEN Stray \union {i} ELSE Stray
<1>1. Inside' = Inside \ {i}
  BY DEF Inside, TypeOK, Member
<1>2. Overdue' = Overdue \ {i}
  BY <1>1 DEF Overdue
<1>3. ASSUME NEW j \in Inside', Holds(j)' PROVE lock' = lock /\ Holds(j) /\ ~Holds(i)
  <2>1. j # Nobody /\ j # i /\ lock' # NoKey /\ lock'.owner = j
    BY <1>1, <1>3 DEF Holds, Inside, Member
  <2>2. ~Holds(i)
    BY <2>1, KeyType DEF Holds
  <2> QED
    BY <1>3, <2>1, <2>2 DEF Holds
<1>4. Exposed \ {i} \subseteq Exposed' /\ Exposed' \subseteq Inside'
  BY <1>1, <1>3 DEF Exposed
<1>5. ASSUME i \notin Exposed PROVE Exposed' = Exposed
  <2>1. Holds(i)
    BY <1>5 DEF Exposed
  <2>2. Exposed = Inside \ {i}
    BY <2>1 DEF Exposed, Holds
  <2>3. Exposed' = Inside'
    BY <1>3, <2>1 DEF Exposed
  <2> QED
    BY <1>1, <2>2, <2>3
<1>6. Stray' = IF x = "again" /\ i \in Instance THEN Stray \union {i} ELSE Stray
  BY DEF Stray, TypeOK, Member, Inside, AtWork
<1> QED
  BY <1>1, <1>2, <1>4, <1>5, <1>6

(* A release that comes after its process has left, or dies with it.          *)
LEMMA LateRelease ==
  ASSUME TypeOK, KeyInv, NEW i \in Instance, pc[i] = "again", NEW x \in {"sleeping", "down"},
         pc' = [pc EXCEPT ![i] = x], spent' = spent,
         \/ lock' = NoKey
         \/ lock' = IF Holds(i) THEN [lock EXCEPT !.owner = Nobody] ELSE lock
  PROVE  TaskLease!ReleaseLate(i)
<1>1. Inside' = Inside
  BY DEF Inside, TypeOK, Member, AtWork
<1>2. Overdue' = Overdue
  BY <1>1 DEF Overdue
<1>3. ~Holds(i)
  BY DEF KeyInv, Holds, Inside, AtWork
<1>4. Exposed \subseteq Exposed' /\ Exposed' \subseteq Inside
  BY <1>1, <1>3 DEF Exposed, Holds
<1>5. i \in Stray /\ Stray' = Stray \ {i}
  BY DEF Stray, TypeOK, Member
<1> QED
  BY <1>1, <1>2, <1>4, <1>5 DEF TaskLease!ReleaseLate

LEMMA TickLease == ASSUME TypeOK, KeyInv, Tick PROVE TaskLease!RunOut(Overdue')
<1>1. Inside' = Inside
  BY DEF Tick, Inside, TypeOK, AtWork
<1>2. Stray' = Stray
  BY DEF Tick, Stray, TypeOK, Member
<1>3. Overdue' \subseteq Inside /\ Overdue \subseteq Overdue'
  BY <1>1 DEF Tick, Overdue, Inside, TypeOK
<1>4. Exposed \subseteq Exposed'
  BY <1>1 DEF Tick, KeyAMinuteLater, Exposed, Holds
<1>5. ASSUME NEW j \in Exposed', j \notin Exposed PROVE j \in Overdue'
  <2>1. j \in Inside /\ Holds(j) /\ j # Nobody
    BY <1>1, <1>5 DEF Exposed, Inside, Member
  <2>2. lock.left = 1
    <3> SUFFICES ASSUME lock.left # 1 PROVE FALSE
      OBVIOUS
    <3>1. lock' = [lock EXCEPT !.left = @ - 1]
      BY <2>1 DEF Tick, KeyAMinuteLater, Holds
    <3>2. lock \in [owner : Instance \union {Nobody}, left : 1 .. LockTtl]
      BY <2>1 DEF TypeOK, Holds
    <3>3. lock.left - 1 \in 1 .. LockTtl
      BY <3>2
    <3>4. lock' \in [owner : Instance \union {Nobody}, left : 1 .. LockTtl] /\ lock'.owner = j
      BY <2>1, <3>1, <3>2, <3>3 DEF Holds
    <3> QED
      BY <1>5, <3>4 DEF Exposed, Holds
  <2>3. spent[j] + 1 = LockTtl
    BY <2>1, <2>2 DEF KeyInv, Holds
  <2>4. spent'[j] = LockTtl
    <3>1. j \in Member /\ spent[j] \in 0 .. LockTtl /\ spent[j] < LockTtl
      BY <2>1, <2>3 DEF Inside, TypeOK
    <3>2. spent'[j] = spent[j] + 1
      BY <2>1, <3>1 DEF Tick
    <3> QED
      BY <2>3, <3>2
  <2> QED
    BY <1>1, <2>1, <2>4 DEF Overdue
<1> QED
  BY <1>1, <1>2, <1>3, <1>4, <1>5 DEF TaskLease!RunOut

LEMMA NextLease == IInv /\ [Next]_vars => [TaskLease!LeaseNext]_(TaskLease!leaseVars)
<1> SUFFICES ASSUME IInv, [Next]_vars
             PROVE  TaskLease!LeaseNext \/ UNCHANGED TaskLease!leaseVars
  OBVIOUS
<1> USE DEF TaskLease!leaseVars
<1> TypeOK /\ KeyInv
  BY DEF IInv
<1>1. ASSUME NEW i \in Instance, Acquire(i) PROVE TaskLease!Enter(i)
  <2>1. pc' = [pc EXCEPT ![i] = "round"] /\ pc[i] = "asking" /\ lock = NoKey
        /\ lock' = [owner |-> i, left |-> LockTtl] /\ spent' = [spent EXCEPT ![i] = 0]
    BY <1>1 DEF Acquire, Goto
  <2>2. i \notin Inside /\ Inside' = Inside \union {i}
    BY <2>1 DEF Inside, AtWork, TypeOK, Member
  <2>3. Exposed = Inside
    BY <2>1 DEF Exposed, Holds
  <2>4. Exposed' = Exposed
    BY <2>1, <2>2, <2>3 DEF Exposed, Holds
  <2>5. Overdue' = Overdue
    BY <2>1, <2>2 DEF Overdue, TypeOK, Member, Inside
  <2>6. Stray' = Stray
    BY <2>1 DEF Stray, TypeOK, Member
  <2> QED
    BY <2>2, <2>3, <2>4, <2>5, <2>6 DEF TaskLease!Enter
<1>2. ASSUME NEW i \in Instance, AcquireOpen(i) PROVE TaskLease!EnterExposed(i)
  <2>1. pc' = [pc EXCEPT ![i] = "round"] /\ pc[i] = "asking" /\ lock' = lock
        /\ spent' = [spent EXCEPT ![i] = 0]
    BY <1>2 DEF AcquireOpen, Goto
  <2>2. i \notin Inside /\ Inside' = Inside \union {i}
    BY <2>1 DEF Inside, AtWork, TypeOK, Member
  <2>3. ~Holds(i)
    BY <2>2 DEF KeyInv, Holds
  <2>4. Exposed' = Exposed \union {i}
    BY <2>1, <2>2, <2>3 DEF Exposed, Holds
  <2>5. Overdue' = Overdue
    BY <2>1, <2>2 DEF Overdue, TypeOK, Member, Inside
  <2>6. Stray' = Stray
    BY <2>1 DEF Stray, TypeOK, Member
  <2> QED
    BY <2>2, <2>4, <2>5, <2>6 DEF TaskLease!EnterExposed
<1>3. ASSUME NEW i \in Instance, Release(i) \/ ReleaseFailed(i) PROVE TaskLease!Leave(i)
  <2>1. PICK x \in {"sleeping", "again"} : pc' = [pc EXCEPT ![i] = x]
    BY <1>3 DEF Release, ReleaseFailed, Goto
  <2>2. i \in Inside /\ spent' = spent
    BY <1>3 DEF Release, ReleaseFailed, Inside, AtWork, Member
  <2>3. \/ lock' = NoKey
        \/ lock' = IF Holds(i) THEN [lock EXCEPT !.owner = Nobody] ELSE lock
    BY <1>3 DEF Release, ReleaseFailed, Deleted
  <2> QED
    BY <2>1, <2>2, <2>3, Departure DEF TaskLease!Leave, AtWork, Member
<1>4. ASSUME NEW i \in Instance, ReleaseAgain(i) PROVE TaskLease!ReleaseLate(i)
  BY <1>4, LateRelease DEF ReleaseAgain, Deleted, Goto
<1>5. ASSUME NEW i \in Instance, Crash(i) \/ Shutdown(i)
      PROVE  TaskLease!Leave(i) \/ TaskLease!ReleaseLate(i) \/ UNCHANGED TaskLease!leaseVars
  <2>1. pc' = [pc EXCEPT ![i] = "down"] /\ spent' = spent
    BY <1>5 DEF Crash, Shutdown, Goto
  <2>2. \/ lock' = NoKey /\ (i \in Inside \/ pc[i] = "again")
        \/ lock' = IF Holds(i) THEN [lock EXCEPT !.owner = Nobody] ELSE lock
    <3>1. Holds(i) => i \in Inside
      BY DEF KeyInv, Holds
    <3> QED
      BY <1>5, <3>1 DEF Crash, Shutdown, Deleted
  <2>3. CASE i \in Inside
    BY <2>1, <2>2, <2>3, Departure DEF TaskLease!Leave, AtWork, Member
  <2>4. CASE pc[i] = "again"
    BY <2>1, <2>2, <2>4, LateRelease
  <2>5. CASE i \notin Inside /\ pc[i] # "again"
    <3>1. lock' = lock
      BY <2>2, <2>5 DEF KeyInv, Holds
    <3>2. Steady
      BY <2>1, <2>5, <3>1 DEF Steady, Inside, AtWork, TypeOK, Member
    <3> QED
      BY <3>2, SteadyLease
  <2> QED
    BY <2>3, <2>4, <2>5
<1>6. CASE Trigger
  <2>1. pc' = [pc EXCEPT ![Cli] = "running"] /\ pc[Cli] = "sleeping" /\ lock' = lock
        /\ spent' = [spent EXCEPT ![Cli] = 0]
    BY <1>6 DEF Trigger, Goto
  <2>2. Cli \notin Inside /\ Inside' = Inside \union {Cli}
    BY <2>1 DEF Inside, AtWork, TypeOK, Member
  <2>3. ~Holds(Cli)
    BY KeyType DEF Holds
  <2>4. Exposed' = Exposed \union {Cli}
    BY <2>1, <2>2, <2>3 DEF Exposed, Holds
  <2>5. Overdue' = Overdue
    BY <2>1, <2>2 DEF Overdue, TypeOK, Member, Inside
  <2>6. Stray' = Stray
    BY <2>1 DEF Stray, TypeOK, Member
  <2> QED
    BY <2>2, <2>4, <2>5, <2>6 DEF TaskLease!LeaseNext, TaskLease!EnterExposed, Member
<1>7. CASE TriggerEnds
  <2>1. pc' = [pc EXCEPT ![Cli] = "sleeping"] /\ Cli \in Inside /\ spent' = spent /\ lock' = lock
    BY <1>7 DEF TriggerEnds, Goto, Inside, AtWork, Member
  <2>2. ~Holds(Cli)
    BY KeyType DEF Holds
  <2>3. TaskLease!Leave(Cli)
    BY <2>1, <2>2, Departure DEF TaskLease!Leave, AtWork, Member
  <2> QED
    BY <2>3 DEF TaskLease!LeaseNext, Member
<1>8. CASE Tick
  <2>1. Overdue' \in SUBSET Member
    BY DEF Overdue, Inside
  <2>2. TaskLease!RunOut(Overdue')
    BY <1>8, TickLease
  <2> QED
    BY <2>1, <2>2 DEF TaskLease!LeaseNext
<1>9. CASE Steady
  BY <1>9, SteadyLease
<1>10. ASSUME NEW i \in Instance, Round(i)
       PROVE  TaskLease!LeaseNext \/ UNCHANGED TaskLease!leaseVars
  BY <1>1, <1>2, <1>3, <1>4, <1>9, <1>10, RoundSteady DEF Round, TaskLease!LeaseNext, Member
<1>11. ASSUME NEW i \in Instance, Crash(i) \/ Shutdown(i)
       PROVE  TaskLease!LeaseNext \/ UNCHANGED TaskLease!leaseVars
  BY <1>5, <1>11 DEF TaskLease!LeaseNext, Member
<1> QED
  BY <1>6, <1>7, <1>8, <1>9, <1>10, <1>11, RestSteady DEF Next

(* The task lock is a lease for any instances and any time to live: every     *)
(* step of the loops, of a crash, a stop, the clock or the command line is a  *)
(* step of Lease or none of its business.                                     *)
THEOREM SchedulerIsALease == Spec => LockIsALease
  BY InitLease, NextLease, Invariance, PTL DEF Spec, LockIsALease, TaskLease!LeaseSpec

-----------------------------------------------------------------------------
(* The promise of Lease itself, for a lease of any members.                   *)
CONSTANT AnyMember
VARIABLES inside, exposed, overdue, stray
AnyLease == INSTANCE Lease WITH Member <- AnyMember

(* Whatever the key's fate, of the members inside at most one is not exposed: *)
(* every step but an entry with the key only takes from those in safety, and  *)
(* that entry finds nobody among them.                                        *)
THEOREM LeaseIsExclusive == AnyLease!LeaseSpec => []AnyLease!AtMostOneIsSafe
<1> USE DEF AnyLease!AtMostOneIsSafe
<1>1. AnyLease!LeaseInit => AnyLease!AtMostOneIsSafe
  BY DEF AnyLease!LeaseInit
<1>2. AnyLease!AtMostOneIsSafe /\ [AnyLease!LeaseNext]_(AnyLease!leaseVars)
        => AnyLease!AtMostOneIsSafe'
  <2> SUFFICES ASSUME AnyLease!AtMostOneIsSafe, [AnyLease!LeaseNext]_(AnyLease!leaseVars)
               PROVE  AnyLease!AtMostOneIsSafe'
    OBVIOUS
  <2>1. CASE \E i \in AnyMember : AnyLease!Enter(i)
    BY <2>1 DEF AnyLease!Enter
  <2>2. CASE \E i \in AnyMember : AnyLease!EnterExposed(i)
    BY <2>2 DEF AnyLease!EnterExposed
  <2>3. CASE \E S \in SUBSET AnyMember : AnyLease!RunOut(S)
    BY <2>3 DEF AnyLease!RunOut
  <2>4. CASE \E i \in AnyMember : AnyLease!Leave(i)
    BY <2>4 DEF AnyLease!Leave
  <2>5. CASE \E i \in AnyMember : AnyLease!ReleaseLate(i)
    BY <2>5 DEF AnyLease!ReleaseLate
  <2>6. CASE UNCHANGED AnyLease!leaseVars
    BY <2>6 DEF AnyLease!leaseVars
  <2> QED
    BY <2>1, <2>2, <2>3, <2>4, <2>5, <2>6 DEF AnyLease!LeaseNext
<1> QED
  BY <1>1, <1>2, PTL DEF AnyLease!LeaseSpec
===============================================================================
