-------------------------- MODULE RecalculationProofs --------------------------
(* Types, and what the lock of the recalculation buys, for any number of      *)
(* requests, checks and batches.                                              *)
EXTENDS Recalculation, TLAPS

(* While no recalculation outlived it, the lock is that of whoever is at      *)
(* work; and it never names one that is not.                                  *)
LockInv ==
    /\ ~overran => \A p \in Inside : lock = p
    /\ lock \in Process => lock \in Inside

(* Batches are counted from the loading of the list on.                       *)
DoneInv ==
    /\ \A p \in Process : pc[p] \notin {"ready", "judged", "deleting"} => done[p] = 0
    /\ \A p \in Process : pc[p] = "ready" => done[p] < Batches

PointInv == \A e \in Editor : pc[e] = "edited" => kind[e] = "point"

(* A list under way has no entry that is not in the table but an import's:    *)
(* its own, one that is at work and keeps the others out, or an unsettled one.*)
ListsInv ==
    /\ \A p \in Process : \A e \in seen[p] \ rules : e \in Imports /\ (e = p \/ Unsettled(e))
    /\ \A l \in cache : \A e \in l \ rules : e \in Imports /\ (e \in Inside \/ Unsettled(e))

IInv == TypeOK /\ LockInv /\ DoneInv /\ PointInv /\ JudgedByOneList

USE BatchesAssumption, DisturbanceAssumption, ProcessAssumption, NobodyAssumption

LEMMA InitIInv == Init => IInv
<1> SUFFICES ASSUME Init PROVE IInv
  OBVIOUS
<1>1. TypeOK
  <2>1. pc \in [Process -> Step] /\ seen \in [Process -> SUBSET Editor]
        /\ done \in [Process -> 0 .. Batches] /\ applied \in [Batch -> SUBSET Editor]
    BY DEF Init, Step
  <2>2. disturbances \in 0 .. MaxDisturbance
    BY DEF Init
  <2>3. /\ rules \subseteq Editor /\ doomed \subseteq Editor /\ kind \in [Editor -> Kind]
        /\ cache \in {{}} \union {{l} : l \in SUBSET Editor}
        /\ lock \in Process \union {Nobody, None}
        /\ redisUp \in BOOLEAN /\ overran \in BOOLEAN
    BY DEF Init
  <2> QED
    BY <2>1, <2>2, <2>3 DEF TypeOK
<1>2. LockInv /\ DoneInv /\ PointInv /\ JudgedByOneList
  BY DEF Init, LockInv, DoneInv, PointInv, JudgedByOneList, Inside, Locked, Process
<1> QED
  BY <1>1, <1>2 DEF IInv

(* ----------------------------------------------------------- the types ---- *)

LEMMA RecalculateTypeOK ==
  ASSUME TypeOK, DoneInv, NEW p \in Process, Recalculate(p) PROVE TypeOK'
<1> USE DEF TypeOK, Step, Locked, Goto, Calm, Forget, Commit
<1>1. CASE Acquire(p)
  BY <1>1 DEF Acquire
<1>2. CASE Skip(p)
  BY <1>2 DEF Skip
<1>3. CASE LoadFromCache(p)
  BY <1>3 DEF LoadFromCache
<1>4. CASE LoadFromDatabase(p)
  <2>1. Visible(p) \subseteq Editor
    BY DEF Visible, Imports
  <2> QED
    BY <1>4, <2>1 DEF LoadFromDatabase
<1>5. CASE FillCache(p)
  BY <1>5 DEF FillCache
<1>6. CASE JudgeBatch(p)
  <2>1. done[p] + 1 \in Batch
    BY <1>6 DEF JudgeBatch, DoneInv, Batch
  <2>2. done[p] + 1 \in 0 .. Batches
    BY <2>1 DEF Batch
  <2> QED
    BY <1>6, <2>1, <2>2 DEF JudgeBatch
<1>7. CASE CompareToken(p)
  BY <1>7 DEF CompareToken
<1>8. CASE DeleteLock(p)
  BY <1>8 DEF DeleteLock
<1>9. CASE End(p)
  BY <1>9 DEF End
<1> QED
  BY <1>1, <1>2, <1>3, <1>4, <1>5, <1>6, <1>7, <1>8, <1>9 DEF Recalculate

LEMMA RestTypeOK == TypeOK /\ DoneInv /\ [Next]_vars => TypeOK'
<1> SUFFICES ASSUME TypeOK, DoneInv, [Next]_vars PROVE TypeOK'
  OBVIOUS
<1> USE DEF TypeOK, Step, Locked, Goto, Calm, Disturb, Forget, Commit, Process
<1>1. ASSUME NEW e \in Editor, BeginEdit(e) PROVE TypeOK'
  BY <1>1 DEF BeginEdit
<1>2. ASSUME NEW e \in Editor, BeginRestore(e) PROVE TypeOK'
  BY <1>2 DEF BeginRestore
<1>3. ASSUME NEW e \in Editor, CommitPoint(e) PROVE TypeOK'
  BY <1>3 DEF CommitPoint
<1>4. ASSUME NEW c \in Checker, BeginCheck(c) PROVE TypeOK'
  BY <1>4 DEF BeginCheck
<1>5. ASSUME NEW p \in Process, NoBaseline(p) PROVE TypeOK'
  BY <1>5 DEF NoBaseline
<1>6. ASSUME NEW p \in Process, Error(p) PROVE TypeOK'
  BY <1>6 DEF Error
<1>7. ASSUME NEW p \in Process, Crash(p) PROVE TypeOK'
  BY <1>7 DEF Crash
<1>8. CASE CacheExpires
  BY <1>8 DEF CacheExpires
<1>9. CASE LockExpires
  BY <1>9 DEF LockExpires
<1>10. CASE RedisFails
  <2>1. redisUp' \in BOOLEAN
    BY <1>10 DEF RedisFails
  <2>2. disturbances' \in 0 .. MaxDisturbance
    BY <1>10, SMT DEF RedisFails
  <2> QED
    BY <1>10, <2>1, <2>2 DEF RedisFails
<1>11. CASE RedisRecovers
  BY <1>11 DEF RedisRecovers
<1>12. CASE UNCHANGED vars
  BY <1>12 DEF vars
<1> QED
  BY <1>1, <1>2, <1>3, <1>4, <1>5, <1>6, <1>7, <1>8, <1>9, <1>10, <1>11, <1>12, RecalculateTypeOK
  DEF Next, Edit

(* ----------------------------------------------- lock, counts, points ---- *)

(* Steps of callers and the environment that leave locks and locals alone.    *)
Aside ==
    /\ lock' = lock /\ done' = done /\ seen' = seen /\ kind' = kind /\ overran' = overran
    /\ applied' = applied
    /\ \A p \in Process : pc[p] \in Locked \/ pc'[p] \in Locked => pc'[p] = pc[p]

LEMMA AsideSteps ==
  ASSUME TypeOK,
         \/ \E e \in Editor : BeginEdit(e) \/ BeginRestore(e)
         \/ \E c \in Checker : BeginCheck(c)
         \/ \E p \in Process : Skip(p) \/ End(p)
         \/ CacheExpires \/ RedisFails \/ RedisRecovers \/ UNCHANGED vars
  PROVE  Aside
BY DEF BeginEdit, BeginRestore, BeginCheck, Skip, End, CacheExpires, RedisFails, RedisRecovers, vars,
  TypeOK, Process, Step, Locked, Goto, Aside

LEMMA NextLockInv == TypeOK /\ LockInv /\ [Next]_vars => LockInv'
<1> SUFFICES ASSUME TypeOK, LockInv, [Next]_vars PROVE LockInv'
  OBVIOUS
<1> USE DEF TypeOK, LockInv, Inside, Locked, Goto, Process
<1>1. CASE Aside
  BY <1>1 DEF Aside
<1>2. ASSUME NEW e \in Editor, CommitPoint(e) PROVE LockInv'
  BY <1>2 DEF CommitPoint
<1>3. ASSUME NEW p \in Process, Acquire(p) PROVE LockInv'
  BY <1>3 DEF Acquire
<1>4. ASSUME NEW p \in Process, LoadFromCache(p) \/ LoadFromDatabase(p) \/ FillCache(p) PROVE LockInv'
  BY <1>4 DEF LoadFromCache, LoadFromDatabase, FillCache
<1>5. ASSUME NEW p \in Process, JudgeBatch(p) \/ NoBaseline(p) \/ Error(p) PROVE LockInv'
  BY <1>5 DEF JudgeBatch, NoBaseline, Error
<1>6. ASSUME NEW p \in Process, CompareToken(p) PROVE LockInv'
  BY <1>6 DEF CompareToken
<1>7. ASSUME NEW p \in Process, DeleteLock(p) PROVE LockInv'
  BY <1>7 DEF DeleteLock
<1>8. ASSUME NEW p \in Process, Crash(p) PROVE LockInv'
  BY <1>8 DEF Crash
<1>9. CASE LockExpires
  BY <1>9 DEF LockExpires
<1> QED
  BY <1>1, <1>2, <1>3, <1>4, <1>5, <1>6, <1>7, <1>8, <1>9, AsideSteps DEF Next, Edit, Recalculate

LEMMA NextDoneInv == TypeOK /\ DoneInv /\ [Next]_vars => DoneInv'
<1> SUFFICES ASSUME TypeOK, DoneInv, [Next]_vars PROVE DoneInv'
  OBVIOUS
<1> USE DEF TypeOK, DoneInv, Goto, Forget, Process
<1>1. CASE Aside
  BY <1>1 DEF Aside, Locked
<1>2. ASSUME NEW e \in Editor, CommitPoint(e) PROVE DoneInv'
  BY <1>2 DEF CommitPoint
<1>3. ASSUME NEW p \in Process, Acquire(p) PROVE DoneInv'
  BY <1>3 DEF Acquire
<1>4. ASSUME NEW p \in Process, LoadFromCache(p) \/ LoadFromDatabase(p) \/ FillCache(p) PROVE DoneInv'
  BY <1>4 DEF LoadFromCache, LoadFromDatabase, FillCache
<1>5. ASSUME NEW p \in Process, JudgeBatch(p) PROVE DoneInv'
  BY <1>5 DEF JudgeBatch
<1>6. ASSUME NEW p \in Process, NoBaseline(p) \/ Error(p) PROVE DoneInv'
  BY <1>6 DEF NoBaseline, Error
<1>7. ASSUME NEW p \in Process, CompareToken(p) \/ DeleteLock(p) PROVE DoneInv'
  BY <1>7 DEF CompareToken, DeleteLock
<1>8. ASSUME NEW p \in Process, Crash(p) PROVE DoneInv'
  BY <1>8 DEF Crash
<1>9. CASE LockExpires
  BY <1>9 DEF LockExpires
<1> QED
  BY <1>1, <1>2, <1>3, <1>4, <1>5, <1>6, <1>7, <1>8, <1>9, AsideSteps DEF Next, Edit, Recalculate

LEMMA NextPointInv == TypeOK /\ PointInv /\ [Next]_vars => PointInv'
<1> SUFFICES ASSUME TypeOK, PointInv, [Next]_vars PROVE PointInv'
  OBVIOUS
<1> USE DEF TypeOK, PointInv, Goto, Process
<1>1. ASSUME NEW e \in Editor, Edit(e) PROVE PointInv'
  BY <1>1 DEF Edit, BeginEdit, BeginRestore, CommitPoint
<1>2. ASSUME NEW c \in Checker, BeginCheck(c) PROVE PointInv'
  BY <1>2 DEF BeginCheck
<1>3. ASSUME NEW p \in Process, Acquire(p) \/ Skip(p) \/ LoadFromCache(p) \/ LoadFromDatabase(p)
                \/ FillCache(p)
      PROVE  PointInv'
  BY <1>3 DEF Acquire, Skip, LoadFromCache, LoadFromDatabase, FillCache
<1>4. ASSUME NEW p \in Process, JudgeBatch(p) \/ CompareToken(p) \/ DeleteLock(p) \/ End(p) PROVE PointInv'
  BY <1>4 DEF JudgeBatch, CompareToken, DeleteLock, End
<1>5. ASSUME NEW p \in Process, NoBaseline(p) \/ Error(p) \/ Crash(p) PROVE PointInv'
  BY <1>5 DEF NoBaseline, Error, Crash
<1>6. CASE CacheExpires \/ LockExpires \/ RedisFails \/ RedisRecovers \/ UNCHANGED vars
  BY <1>6 DEF CacheExpires, LockExpires, RedisFails, RedisRecovers, vars
<1> QED
  BY <1>1, <1>2, <1>3, <1>4, <1>5, <1>6 DEF Next, Recalculate

(* ---------------------------------------------------------- judgements ---- *)

LEMMA NextJudged == IInv /\ [Next]_vars => JudgedByOneList'
<1> SUFFICES ASSUME IInv, [Next]_vars, ~overran', NEW q \in Inside', pc'[q] # "locked",
                    NEW b \in 1 .. done'[q]
             PROVE  applied'[b] \ Points' = seen'[q] \ Points'
  BY DEF JudgedByOneList
<1> USE DEF TypeOK, Inside, Locked, Goto, Process, Points
<1>0. TypeOK /\ LockInv /\ DoneInv /\ PointInv /\ JudgedByOneList
  BY DEF IInv
<1> DEFINE Stands == applied'[b] \ Points' = seen'[q] \ Points'
<1>a. CASE ~overran /\ Aside
  BY <1>0, <1>a DEF Aside, JudgedByOneList
<1>b. ASSUME NEW e \in Editor, CommitPoint(e) PROVE Stands
  <2>1. kind' = kind /\ seen' = seen /\ done' = done /\ overran' = overran /\ pc[q] = pc'[q]
    BY <1>0, <1>b DEF CommitPoint, PointInv
  <2>2. applied[b] \ Points = seen[q] \ Points
    BY <1>0, <2>1 DEF JudgedByOneList
  <2>3. b \in Batch
    BY <1>0, <2>1 DEF Batch
  <2>4. e \in Points
    BY <1>0, <1>b DEF CommitPoint, PointInv
  <2>5. applied'[b] = applied[b] \/ applied'[b] = applied[b] \union {e}
    BY <1>0, <1>b, <2>3 DEF CommitPoint
  <2> QED
    BY <2>1, <2>2, <2>4, <2>5
<1>c. ASSUME NEW p \in Process, Acquire(p) PROVE Stands
  <2>1. /\ q # p /\ pc[q] = pc'[q] /\ done' = done /\ seen' = seen /\ kind' = kind
        /\ applied' = applied /\ overran' = overran
    BY <1>0, <1>c DEF Acquire
  <2> QED
    BY <1>0, <2>1 DEF JudgedByOneList
<1>d. ASSUME NEW p \in Process, LoadFromCache(p) \/ LoadFromDatabase(p) \/ FillCache(p) PROVE Stands
  <2>1. /\ done' = done /\ kind' = kind /\ applied' = applied /\ overran' = overran
        /\ q # p => pc[q] = pc'[q] /\ seen'[q] = seen[q]
        /\ pc[p] \in {"locked", "read"}
    BY <1>0, <1>d DEF LoadFromCache, LoadFromDatabase, FillCache
  <2>2. CASE q = p
    <3>1. done[p] = 0
      BY <1>0, <2>1 DEF DoneInv
    <3> QED
      BY <2>1, <2>2, <3>1
  <2>3. CASE q # p
    BY <1>0, <2>1, <2>3 DEF JudgedByOneList
  <2> QED
    BY <2>2, <2>3
<1>e. ASSUME NEW p \in Process, JudgeBatch(p) PROVE Stands
  <2>1. /\ pc[p] = "ready" /\ kind' = kind /\ seen' = seen /\ overran' = overran
        /\ applied' = [applied EXCEPT ![done[p] + 1] = seen[p]]
        /\ done' = [done EXCEPT ![p] = done[p] + 1]
        /\ q # p => pc[q] = pc'[q]
    BY <1>0, <1>e DEF JudgeBatch
  <2>2. q = p
    BY <1>0, <2>1 DEF LockInv
  <2>3. b \in 1 .. done[p] + 1
    BY <1>0, <2>1, <2>2
  <2>4. done[p] + 1 \in Batch /\ b \in Batch
    BY <1>0, <2>1, <2>3 DEF Batch, DoneInv
  <2>5. CASE b = done[p] + 1
    BY <1>0, <2>1, <2>2, <2>4, <2>5
  <2>6. CASE b # done[p] + 1
    <3>1. b \in 1 .. done[p]
      BY <1>0, <2>3, <2>6
    <3>2. applied[b] \ Points = seen[p] \ Points
      BY <1>0, <2>1, <3>1 DEF JudgedByOneList
    <3> QED
      BY <1>0, <2>1, <2>2, <2>4, <2>6, <3>2
  <2> QED
    BY <2>5, <2>6
<1>f. ASSUME NEW p \in Process, NoBaseline(p) \/ Error(p) PROVE Stands
  <2>1. /\ done' = done /\ seen' = seen /\ kind' = kind /\ applied' = applied /\ overran' = overran
        /\ q # p => pc[q] = pc'[q]
        /\ pc[p] \in {"locked", "ready"}
    BY <1>0, <1>f DEF NoBaseline, Error
  <2>2. CASE q = p /\ pc[p] = "locked"
    <3>1. done[p] = 0
      BY <1>0, <2>2 DEF DoneInv
    <3> QED
      BY <2>1, <2>2, <3>1
  <2>3. CASE q # p \/ pc[p] = "ready"
    BY <1>0, <2>1, <2>3 DEF JudgedByOneList
  <2> QED
    BY <2>1, <2>2, <2>3
<1>g. ASSUME NEW p \in Process, CompareToken(p) \/ DeleteLock(p) \/ Crash(p) PROVE Stands
  <2>1. /\ kind' = kind /\ applied' = applied /\ ~overran
        /\ q # p => pc[q] = pc'[q] /\ seen'[q] = seen[q] /\ done'[q] = done[q]
    BY <1>0, <1>g DEF CompareToken, DeleteLock, Crash, Forget
  <2>2. CASE q = p
    <3>1. CompareToken(p) /\ pc'[p] = "deleting"
      BY <1>0, <1>g, <2>2 DEF CompareToken, DeleteLock, Crash
    <3>2. pc[p] = "judged" /\ seen' = seen /\ done' = done
      BY <3>1 DEF CompareToken, Forget
    <3> QED
      BY <1>0, <2>1, <2>2, <3>2 DEF JudgedByOneList
  <2>3. CASE q # p
    BY <1>0, <2>1, <2>3 DEF JudgedByOneList
  <2> QED
    BY <2>2, <2>3
<1>h. CASE LockExpires
  BY <1>0, <1>h DEF LockExpires, JudgedByOneList
<1>i. Aside => ~overran
  BY DEF Aside
<1> QED
  BY <1>0, <1>a, <1>b, <1>c, <1>d, <1>e, <1>f, <1>g, <1>h, <1>i, AsideSteps DEF Next, Edit, Recalculate

LEMMA Invariance == Spec => []IInv
<1>1. IInv /\ [Next]_vars => IInv'
  BY RestTypeOK, NextLockInv, NextDoneInv, NextPointInv, NextJudged DEF IInv
<1> QED
  BY <1>1, InitIInv, PTL DEF Spec

(* The variables keep their types, so no batch is ever judged past the last.  *)
THEOREM TypeCorrect == Spec => []TypeOK
<1>1. IInv => TypeOK
  BY DEF IInv
<1> QED
  BY <1>1, Invariance, PTL

(* A recalculation whose lock did not run out leaves every batch it judged by *)
(* the one list it loaded, however many others ask meanwhile.                 *)
THEOREM OneList == Spec => []JudgedByOneList
<1>1. IInv => JudgedByOneList
  BY DEF IInv
<1> QED
  BY <1>1, Invariance, PTL

(* --------------------------------------------------- entries not in the table *)

(* No entry is ever taken out of the table.                                   *)
LEMMA Growing == ASSUME [Next]_vars PROVE rules \subseteq rules'
<1>1. CASE \E p \in Process : Recalculate(p)
  BY <1>1 DEF Recalculate, Acquire, Skip, LoadFromCache, LoadFromDatabase, FillCache,
    JudgeBatch, CompareToken, DeleteLock, End, Commit
<1>2. CASE ~ \E p \in Process : Recalculate(p)
  BY <1>2 DEF Next, Edit, BeginEdit, BeginRestore, CommitPoint, BeginCheck, NoBaseline,
    Error, Crash, CacheExpires, LockExpires, RedisFails, RedisRecovers, Commit, vars
<1> QED
  BY <1>1, <1>2

(* An import once unsettled stays so until its entry is in the table, and one *)
(* at work leaves it for good.                                                *)
LEMMA Settling ==
  ASSUME TypeOK, [Next]_vars, NEW e \in Imports, e \notin rules'
  PROVE  /\ e \in Imports' /\ e \notin rules
         /\ Unsettled(e) => Unsettled(e)'
         /\ e \in Inside => e \in Inside' \/ Unsettled(e)'
<1>a. e \in Editor /\ e \in Process
  BY DEF Imports, Process
<1> USE DEF TypeOK, Imports, Unsettled, Inside, Locked, Goto, Commit
<1>1. ASSUME NEW p \in Process, Recalculate(p)
      PROVE  /\ rules \subseteq rules' /\ kind' = kind /\ (overran => overran')
             /\ pc[e] \in {"released", "done"} => pc'[e] \in {"released", "done"}
             /\ e \in Inside => e \in Inside' \/ pc'[e] \in {"released", "done"}
  <2>1. CASE Acquire(p)
    BY <1>a, <2>1 DEF Acquire
  <2>2. CASE Skip(p)
    BY <1>a, <2>2 DEF Skip
  <2>3. CASE LoadFromCache(p)
    BY <1>a, <2>3 DEF LoadFromCache
  <2>4. CASE LoadFromDatabase(p)
    BY <1>a, <2>4 DEF LoadFromDatabase
  <2>5. CASE FillCache(p)
    BY <1>a, <2>5 DEF FillCache
  <2>6. CASE JudgeBatch(p)
    BY <1>a, <2>6 DEF JudgeBatch
  <2>7. CASE CompareToken(p)
    BY <1>a, <2>7 DEF CompareToken
  <2>8. CASE DeleteLock(p)
    BY <1>a, <2>8 DEF DeleteLock
  <2>9. CASE End(p)
    BY <1>a, <2>9 DEF End
  <2> QED
    BY <1>1, <2>1, <2>2, <2>3, <2>4, <2>5, <2>6, <2>7, <2>8, <2>9 DEF Recalculate
<1>2. ASSUME NEW p \in Process, NoBaseline(p) \/ Error(p)
      PROVE  /\ rules' = rules /\ kind' = kind /\ overran' = overran
             /\ pc[p] \in Locked /\ pc' = [pc EXCEPT ![p] = "judged"]
  BY <1>2 DEF NoBaseline, Error
<1>3. ASSUME NEW p \in Process, Crash(p)
      PROVE  /\ rules' = rules /\ kind' = kind /\ overran' = overran
             /\ pc' = [pc EXCEPT ![p] = IF p \in Editor THEN "done" ELSE "idle"]
  BY <1>3 DEF Crash
<1>4. ASSUME NEW d \in Editor, Edit(d)
      PROVE  /\ rules \subseteq rules' /\ kind' = kind /\ overran' = overran
             /\ pc[d] \in {"idle", "edited"} /\ \E s : pc' = [pc EXCEPT ![d] = s]
  BY <1>4 DEF Edit, BeginEdit, BeginRestore, CommitPoint
<1>5. ASSUME NEW c \in Checker, BeginCheck(c)
      PROVE  /\ rules' = rules /\ kind' = kind /\ overran' = overran
             /\ \A q \in Editor : pc'[q] = pc[q]
  BY <1>5, ProcessAssumption DEF BeginCheck, Process
<1>6. CASE CacheExpires \/ LockExpires \/ RedisFails \/ RedisRecovers \/ UNCHANGED vars
  <2>1. rules' = rules /\ kind' = kind /\ (overran => overran') /\ pc' = pc
    BY <1>6 DEF CacheExpires, LockExpires, RedisFails, RedisRecovers, vars
  <2> QED
    BY <2>1, <1>a
<1>7. CASE \E p \in Process : Recalculate(p)
  BY <1>a, <1>1, <1>7
<1>8. CASE \E p \in Process : NoBaseline(p) \/ Error(p)
  BY <1>a, <1>2, <1>8
<1>9. CASE \E p \in Process : Crash(p)
  BY <1>a, <1>3, <1>9
<1>10. CASE \E d \in Editor : Edit(d)
  BY <1>a, <1>4, <1>10
<1>11. CASE \E c \in Checker : BeginCheck(c)
  BY <1>a, <1>5, <1>11
<1> QED
  BY <1>6, <1>7, <1>8, <1>9, <1>10, <1>11 DEF Next

(* Where a step takes its lists from: a recalculation from the cache or the   *)
(* table, the cache from a recalculation, a batch from one that commits.      *)
LoadsAList(q) == q \in Inside /\ (seen'[q] \in cache \/ seen'[q] = Visible(q))
ListSources ==
    /\ \A q \in Process : seen'[q] \in {seen[q], {}} \/ LoadsAList(q)
    /\ cache' \in {cache, {}} \/ \E q \in Inside : cache' = {seen[q]}
    /\ \A b \in Batch : \/ applied'[b] \subseteq applied[b] \union rules'
                        \/ \E q \in Process : applied'[b] = seen[q] /\ {q} \intersect Editor \subseteq rules'

LEMMA ListsCome == ASSUME TypeOK, [Next]_vars PROVE ListSources
<1> USE DEF TypeOK, ListSources, LoadsAList, Inside, Locked, Goto, Commit, Forget
<1>1. ASSUME NEW p \in Process, Acquire(p) PROVE ListSources
  BY <1>1 DEF Acquire
<1>2. ASSUME NEW p \in Process, Skip(p) PROVE ListSources
  BY <1>2 DEF Skip
<1>3. ASSUME NEW p \in Process, LoadFromCache(p) PROVE ListSources
  BY <1>3 DEF LoadFromCache
<1>4. ASSUME NEW p \in Process, LoadFromDatabase(p) PROVE ListSources
  BY <1>4 DEF LoadFromDatabase
<1>5. ASSUME NEW p \in Process, FillCache(p) PROVE ListSources
  BY <1>5 DEF FillCache
<1>6. ASSUME NEW p \in Process, JudgeBatch(p) PROVE ListSources
  BY <1>6 DEF JudgeBatch
<1>7. ASSUME NEW p \in Process, CompareToken(p) PROVE ListSources
  BY <1>7 DEF CompareToken
<1>8. ASSUME NEW p \in Process, DeleteLock(p) PROVE ListSources
  BY <1>8 DEF DeleteLock
<1>9. ASSUME NEW p \in Process, End(p) PROVE ListSources
  BY <1>9 DEF End
<1>10. ASSUME NEW p \in Process, NoBaseline(p) PROVE ListSources
  BY <1>10 DEF NoBaseline
<1>11. ASSUME NEW p \in Process, Error(p) PROVE ListSources
  BY <1>11 DEF Error
<1>12. ASSUME NEW p \in Process, Crash(p) PROVE ListSources
  BY <1>12 DEF Crash
<1>13. ASSUME NEW d \in Editor, Edit(d) PROVE ListSources
  BY <1>13 DEF Edit, BeginEdit, BeginRestore, CommitPoint
<1>14. ASSUME NEW c \in Checker, BeginCheck(c) PROVE ListSources
  BY <1>14 DEF BeginCheck
<1>15. CASE CacheExpires \/ LockExpires \/ RedisFails \/ RedisRecovers \/ UNCHANGED vars
  BY <1>15 DEF CacheExpires, LockExpires, RedisFails, RedisRecovers, vars
<1> QED
  BY <1>1, <1>2, <1>3, <1>4, <1>5, <1>6, <1>7, <1>8, <1>9, <1>10, <1>11, <1>12, <1>13, <1>14, <1>15 DEF Next, Recalculate

LEMMA NextLists ==
  ASSUME TypeOK, LockInv, ListsInv, PhantomsAreExplained, [Next]_vars
  PROVE  ListsInv' /\ PhantomsAreExplained'
<1>1. ListSources
  BY ListsCome
<1>2. ASSUME NEW q \in Process, NEW e \in seen'[q] \ rules'
      PROVE  e \in Imports' /\ (e = q \/ Unsettled(e)')
  <2>1. e \in Imports /\ (e = q \/ Unsettled(e))
    <3>1. e \notin rules
      BY <1>2, Growing
    <3>2. CASE seen'[q] \in {seen[q], {}}
      BY <3>1, <3>2 DEF ListsInv
    <3>3. CASE q \in Inside /\ seen'[q] \in cache
      <4>1. e \in Imports /\ (e \in Inside \/ Unsettled(e))
        BY <3>1, <3>3 DEF ListsInv
      <4>2. q \in Inside /\ e \in Inside => q = e \/ overran
        BY DEF LockInv
      <4> QED
        BY <3>3, <4>1, <4>2 DEF Unsettled
    <3>4. CASE seen'[q] = Visible(q)
      BY <3>1, <3>4 DEF Visible
    <3> QED
      BY <1>1, <3>2, <3>3, <3>4 DEF ListSources, LoadsAList
  <2> QED
    BY <2>1, <1>2, Settling
<1>3. ASSUME NEW l \in cache', NEW e \in l \ rules'
      PROVE  e \in Imports' /\ (e \in Inside' \/ Unsettled(e)')
  <2>1. e \in Imports /\ (e \in Inside \/ Unsettled(e))
    <3>1. e \notin rules
      BY <1>3, Growing
    <3>2. CASE l \in cache
      BY <3>1, <3>2 DEF ListsInv
    <3>3. ASSUME NEW q \in Inside, l = seen[q]
          PROVE  e \in Imports /\ (e \in Inside \/ Unsettled(e))
      BY <3>1, <3>3 DEF ListsInv, Inside
    <3> QED
      BY <1>1, <3>2, <3>3 DEF ListSources
  <2> QED
    BY <2>1, <1>3, Settling
<1>4. ASSUME NEW b \in Batch, NEW e \in applied'[b] \ rules'
      PROVE  e \in Imports' /\ Unsettled(e)'
  <2>1. e \in Imports /\ Unsettled(e)
    <3>1. e \notin rules
      BY <1>4, Growing
    <3>2. CASE applied'[b] \subseteq applied[b] \union rules'
      BY <3>1, <3>2 DEF PhantomsAreExplained
    <3>3. ASSUME NEW q \in Process, applied'[b] = seen[q], {q} \intersect Editor \subseteq rules'
          PROVE  e \in Imports /\ Unsettled(e)
      BY <3>1, <3>3 DEF ListsInv, Imports
    <3> QED
      BY <1>1, <3>2, <3>3 DEF ListSources
  <2> QED
    BY <2>1, <1>4, Settling
<1> QED
  BY <1>2, <1>3, <1>4 DEF ListsInv, PhantomsAreExplained, Process, Batch

LEMMA ListsInvariance == Spec => [](ListsInv /\ PhantomsAreExplained)
<1>1. Init => ListsInv /\ PhantomsAreExplained
  BY DEF Init, ListsInv, PhantomsAreExplained
<1>2. IInv /\ ListsInv /\ PhantomsAreExplained /\ [Next]_vars => ListsInv' /\ PhantomsAreExplained'
  BY NextLists DEF IInv
<1> QED
  BY <1>1, <1>2, Invariance, PTL DEF Spec

(* Whoever is judged by an entry that is not in the table owes it to an       *)
(* import that was cut short, or went on without a batch to commit it, after  *)
(* its list had been put in the cache; or to a lock that was lost.            *)
THEOREM PhantomsHaveCauses == Spec => []PhantomsAreExplained
BY ListsInvariance, PTL

(* What the lock is for: two recalculations at work at a time are the work of *)
(* a lock that ran out, or was deleted by one that had lost its own.          *)
THEOREM OneAtATime == Spec => [](~overran => \A p, q \in Inside : p = q)
<1>1. IInv => (~overran => \A p, q \in Inside : p = q)
  BY DEF IInv, LockInv
<1> QED
  BY <1>1, Invariance, PTL
===============================================================================
