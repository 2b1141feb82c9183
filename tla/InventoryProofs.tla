---------------------------- MODULE InventoryProofs ----------------------------
(* Types, and where a stray exclusion mark can come from, for any number of   *)
(* terminals, rules, sources, collections and operators.                      *)
EXTENDS Inventory, TLAPS

(* A process that works for a source has one, and no transaction deletes a    *)
(* row that it flags.                                                         *)
WorkInv ==
    \A p \in Process :
        /\ pc[p] \in {"asking", "answered", "saving", "detecting", "marking", "removing"} => job[p] \in Source
        /\ pc[p] \in {"saving", "freeing", "sweeping"} => plan[p].drop \intersect plan[p].flag = {}

(* Whoever will still clear the mark of t: a refresh that has not read the    *)
(* rules, or that has read t as one to clear.                                 *)
WillClear(o, t) ==
    \/ pc[o] \in {"replacing", "sweeping", "refreshing"}
    \/ pc[o] = "clearing" /\ t \in plan[o].clear

Stray == (flagged \ Covered) \ belated

FlagInv == interrupted \/ \A t \in Stray : \E o \in Operator : WillClear(o, t)

IInv == TypeOK /\ WorkInv /\ FlagInv

USE ProcessAssumption, NoneAssumption, DisturbanceAssumption

LEMMA InitIInv == Init => IInv
<1> SUFFICES ASSUME Init PROVE IInv
  OBVIOUS
<1>1. plan \in [Process -> PlanType]
  BY DEF Init, NoPlan, PlanType
<1>2. tag \in [Terminal -> Source \union {None}] /\ listed \in [Terminal -> Source \union {None}]
      /\ job \in [Process -> Source \union {None}] /\ pc \in [Process -> Step]
  BY DEF Init, Step
<1>3. disturbances \in 0 .. MaxDisturbance
  BY DEF Init
<1>4. TypeOK
  BY <1>1, <1>2, <1>3 DEF Init, TypeOK, Rows
<1>5. WorkInv /\ FlagInv
  BY DEF Init, WorkInv, FlagInv, Stray
<1> QED
  BY <1>4, <1>5 DEF IInv

(* ----------------------------------------------------------- the types ---- *)

LEMMA FinishTypes ==
  ASSUME TypeOK, NEW p \in Process, Finish(p)
  PROVE  /\ pc' \in [Process -> Step] /\ job' \in [Process -> Source \union {None}]
         /\ saw' \in [Collector -> SUBSET Terminal] /\ known' \in [Process -> SUBSET Terminal]
         /\ plan' \in [Process -> PlanType]
<1>1. NoPlan \in PlanType /\ "idle" \in Step
  BY DEF NoPlan, PlanType, Step
<1>2. plan' \in [Process -> PlanType] /\ pc' \in [Process -> Step]
  BY <1>1 DEF TypeOK, Finish, Goto, Plan
<1>3. /\ job' \in [Process -> Source \union {None}] /\ known' \in [Process -> SUBSET Terminal]
  BY DEF TypeOK, Finish, Learn
<1>4. saw' \in [Collector -> SUBSET Terminal]
  BY DEF TypeOK, Finish
<1> QED
  BY <1>2, <1>3, <1>4

LEMMA CollectTypeOK ==
  ASSUME TypeOK, WorkInv, NEW c \in Collector, Collect(c) \/ NoAnswer(c) PROVE TypeOK'
<1> USE DEF TypeOK, Step, Goto, Plan, Learn, Calm, Disturb, Finish, NoPlan, PlanType, Process, Rows,
            table, world, local, ghost
<1>1. CASE Ask(c)
  BY <1>1 DEF Ask
<1>2. CASE EmptyAnswer(c) \/ NoAnswer(c)
  <2>1. Finish(c) /\ c \in Process
    BY <1>2 DEF EmptyAnswer, NoAnswer
  <2>2. disturbances' \in 0 .. MaxDisturbance
    BY <1>2 DEF EmptyAnswer, NoAnswer
  <2> HIDE DEF Finish, PlanType
  <2> QED
    BY <1>2, <2>1, <2>2, FinishTypes DEF EmptyAnswer, NoAnswer
<1>3. CASE Answer(c)
  <2>1. Covered \subseteq Terminal /\ Listed \subseteq Terminal /\ Entries(c) \subseteq Terminal
    BY <1>3 DEF Covered, Listed, Entries, Answer, WorkInv
  <2> QED
    <3>1. plan' \in [Process -> PlanType]
      BY <1>3, <2>1 DEF Answer, LoadRules
    <3>2. known' \in [Process -> SUBSET Terminal] /\ saw' \in [Collector -> SUBSET Terminal]
          /\ pc' \in [Process -> Step]
      BY <1>3, <2>1 DEF Answer, LoadRules
    <3>3. disturbances' \in 0 .. MaxDisturbance
      BY <1>3 DEF Answer, LoadRules
    <3> QED
      BY <1>3, <3>1, <3>2, <3>3 DEF Answer
<1>4. CASE Match(c)
  BY <1>4 DEF Match, ExcludedRows
<1>5. CASE SaveFails(c)
  BY <1>5 DEF SaveFails
<1>6. CASE Save(c)
  <2>1. /\ job[c] \in Source /\ plan[c] \in PlanType
        /\ plan[c].drop \intersect plan[c].flag = {} /\ plan[c].flag \subseteq Rows
    BY <1>6 DEF Save, WorkInv, Clash
  <2>2. tag' \in [Terminal -> Source \union {None}] /\ state' \in [Terminal -> {"none", "offline", "failed"}]
    BY <1>6, <2>1 DEF Save
  <2>3. Rows' = (Rows \ plan[c].drop) \union plan[c].touch \union plan[c].add
    BY <1>6, <2>1 DEF Save
  <2>4. blocked' \subseteq Rows' /\ flagged' \subseteq Rows' /\ stale' \subseteq Rows'
    BY <1>6, <2>1, <2>3 DEF Save
  <2>5. \A t \in Terminal \ Rows' : state'[t] = "none"
    BY <1>6, <2>1, <2>3 DEF Save
  <2>6. belated' \subseteq Terminal /\ plan' \in [Process -> PlanType] /\ pc' \in [Process -> Step]
    BY <1>6, <2>1 DEF Save
  <2> QED
    BY <1>6, <2>2, <2>4, <2>5, <2>6 DEF Save
<1>7. CASE Detect(c)
  <2>1. CASE Finish(c)
    <3> HIDE DEF Finish, PlanType
    <3> QED
      BY <1>7, <2>1, FinishTypes DEF Detect
  <2>2. CASE ~Finish(c)
    <3>1. PICK back \in SUBSET Terminal, gone \in SUBSET Terminal :
            plan' = [plan EXCEPT ![c] = [NoPlan EXCEPT !.back = back, !.gone = gone]]
      BY <1>7, <2>2 DEF Detect, MissingOnes
    <3>2. plan' \in [Process -> PlanType]
      BY <3>1
    <3>3. pc' \in [Process -> Step] /\ job' = job /\ saw' = saw /\ known' = known
      <4> HIDE DEF Finish
      <4> QED
        BY <1>7, <2>2 DEF Detect
    <3> QED
      BY <1>7, <3>2, <3>3 DEF Detect
  <2> QED
    BY <2>1, <2>2
<1>8. CASE Mark(c)
  BY <1>8 DEF Mark
<1> QED
  BY <1>1, <1>2, <1>3, <1>4, <1>5, <1>6, <1>7, <1>8 DEF Collect

LEMMA WorkTypeOK ==
  ASSUME TypeOK, WorkInv, NEW o \in Operator, Work(o) PROVE TypeOK'
<1> USE DEF TypeOK, Step, Goto, Plan, Learn, Calm, Disturb, Finish, NoPlan, PlanType, Process, Rows,
            table, world, local, ghost
<1>0. Covered \subseteq Terminal /\ Listed \subseteq Terminal
  BY DEF Covered, Listed
<1>1. CASE Evaluate(o)
  <2>1. PICK free \in {{}, IF pc[o] = "purging"
                             THEN (known[o] \intersect Rows \intersect (blocked \union Listed)) \intersect blocked
                             ELSE {}} :
          plan' = [plan EXCEPT ![o] = [NoPlan EXCEPT
            !.drop = (known[o] \intersect Rows) \ (known[o] \intersect Rows \intersect (blocked \union Listed)),
            !.flag = known[o] \intersect Rows \intersect (blocked \union Listed), !.free = free]]
    BY <1>1 DEF Evaluate
  <2>2. plan' \in [Process -> PlanType]
    BY <2>1
  <2> QED
    BY <1>1, <2>2 DEF Evaluate
<1>2. CASE Free(o)
  <2>1. PICK t \in plan[o].free :
          \/ plan' = [plan EXCEPT ![o] = [plan[o] EXCEPT !.free = @ \ {t}]]
          \/ plan' = [plan EXCEPT ![o] = [plan[o] EXCEPT !.free = @ \ {t}, !.clear = @ \union {t},
                                                        !.drop = @ \union {t}, !.flag = @ \ {t}]]
    BY <1>2 DEF Free
  <2>2. plan[o] \in PlanType /\ t \in Terminal
    BY <2>1
  <2>3. [plan[o] EXCEPT !.free = @ \ {t}] \in PlanType
    BY <2>2
  <2>4. [plan[o] EXCEPT !.free = @ \ {t}, !.clear = @ \union {t}, !.drop = @ \union {t},
                        !.flag = @ \ {t}] \in PlanType
    BY <2>2
  <2>5. plan' \in [Process -> PlanType]
    <3> HIDE DEF PlanType
    <3> QED
      BY <2>1, <2>3, <2>4
  <2> QED
    BY <1>2, <2>5 DEF Free
<1>3. CASE Purge(o)
  <2>1. plan[o] \in PlanType /\ plan[o].drop \intersect plan[o].flag = {}
    BY <1>3 DEF Purge, WorkInv
  <2>2. Retained(o) \subseteq Rows \ plan[o].drop
    BY <2>1 DEF Retained
  <2>3. Rows' = Rows \ plan[o].drop
    BY <1>3, <2>1 DEF Purge, Delete
  <2>4. blocked' \subseteq Rows' /\ flagged' \subseteq Rows' /\ stale' \subseteq Rows'
    BY <1>3, <2>1, <2>2, <2>3 DEF Purge, Delete
  <2>5. /\ tag' \in [Terminal -> Source \union {None}] /\ state' \in [Terminal -> {"none", "offline", "failed"}]
        /\ \A t \in Terminal \ Rows' : state'[t] = "none"
    BY <1>3, <2>1, <2>3 DEF Purge, Delete
  <2>6. belated' \subseteq Terminal /\ listed' \in [Terminal -> Source \union {None}]
    BY <1>3, <2>1, <2>2 DEF Purge
  <2>7. plan' \in [Process -> PlanType] /\ pc' \in [Process -> Step] /\ known' \in [Process -> SUBSET Terminal]
        /\ job' \in [Process -> Source \union {None}] /\ saw' \in [Collector -> SUBSET Terminal]
    <3>1. CASE Finish(o)
      BY <3>1, FinishTypes
    <3>2. CASE ~Finish(o)
      <4>1. NoPlan \in PlanType
        OBVIOUS
      <4>2. Goto(o, "refreshing") /\ Learn(o, {}) /\ Plan(o, NoPlan) /\ UNCHANGED <<job, saw>>
        <5> HIDE DEF Goto, Learn, Plan, Finish
        <5> QED
          BY <1>3, <3>2 DEF Purge
      <4> QED
        BY <4>1, <4>2
    <3> QED
      BY <3>1, <3>2
  <2> QED
    BY <1>3, <2>4, <2>5, <2>6, <2>7 DEF Purge
<1>4. CASE ReadFlags(o)
  BY <1>4 DEF ReadFlags
<1>5. CASE ClearFlags(o)
  BY <1>5 DEF ClearFlags
<1>6. CASE DeleteSource(o)
  <2>1. job[o] \in Source
    BY <1>6 DEF DeleteSource, WorkInv
  <2>2. CASE sources[job[o]] = "absent"
    BY <1>6, <2>2 DEF DeleteSource
  <2>3. CASE sources[job[o]] # "absent"
    <3>1. Rows' = Rows \ Mine(o)
      BY <1>6, <2>3 DEF DeleteSource, Delete, Mine
    <3>2. blocked' \subseteq Rows' /\ flagged' \subseteq Rows' /\ stale' \subseteq Rows'
      BY <1>6, <2>3, <3>1 DEF DeleteSource, Delete
    <3>3. /\ tag' \in [Terminal -> Source \union {None}]
          /\ state' \in [Terminal -> {"none", "offline", "failed"}]
          /\ \A t \in Terminal \ Rows' : state'[t] = "none"
      BY <1>6, <2>3, <3>1 DEF DeleteSource, Delete
    <3>4. belated' \subseteq Terminal /\ listed' \in [Terminal -> Source \union {None}]
          /\ sources' \in [Source -> {"absent", "off", "on"}]
      <4>1. belated' \subseteq Terminal
        BY <1>6, <2>3 DEF DeleteSource
      <4>2. listed' \in [Terminal -> Source \union {None}]
        BY <1>6, <2>3 DEF DeleteSource
      <4>3. sources' \in [Source -> {"absent", "off", "on"}]
        BY <1>6, <2>1, <2>3 DEF DeleteSource
      <4> QED
        BY <4>1, <4>2, <4>3
    <3>5. Finish(o) /\ o \in Process
      BY <1>6 DEF DeleteSource
    <3> HIDE DEF Finish, PlanType
    <3> QED
      BY <1>6, <3>2, <3>3, <3>4, <3>5, FinishTypes DEF DeleteSource
  <2> QED
    BY <2>2, <2>3
<1> QED
  BY <1>1, <1>2, <1>3, <1>4, <1>5, <1>6 DEF Work

LEMMA EditTypeOK ==
  ASSUME TypeOK, NEW o \in Operator,
         \/ \E r \in Rule : EditRule(o, r)
         \/ \E s \in Source : BeginDelete(o, s)
  PROVE  TypeOK'
<1> USE DEF TypeOK, Step, Goto, Learn, Disturb, Process, Rows, table, world, local, ghost
<1>1. ASSUME NEW r \in Rule, NEW ts \in SUBSET Terminal, CreateRule(o, r, ts) PROVE TypeOK'
  BY <1>1 DEF CreateRule, New
<1>2. ASSUME NEW r \in Rule, NEW ts \in SUBSET Terminal, UpdateRule(o, r, ts) PROVE TypeOK'
  BY <1>2 DEF UpdateRule, New
<1>3. ASSUME NEW r \in Rule, ToggleRule(o, r) PROVE TypeOK'
  BY <1>3 DEF ToggleRule
<1>4. ASSUME NEW r \in Rule, DeleteRule(o, r) PROVE TypeOK'
  BY <1>4 DEF DeleteRule
<1>5. ASSUME NEW s \in Source, BeginDelete(o, s) PROVE TypeOK'
  BY <1>5 DEF BeginDelete
<1> QED
  BY <1>1, <1>2, <1>3, <1>4, <1>5 DEF EditRule

LEMMA NextTypeOK == TypeOK /\ WorkInv /\ [Next]_vars => TypeOK'
<1> SUFFICES ASSUME TypeOK, WorkInv, [Next]_vars PROVE TypeOK'
  OBVIOUS
<1> USE DEF TypeOK, Step, Disturb, Calm, Process, Rows, table, world, local, ghost
<1>1. ASSUME NEW c \in Scheduled, BeginRound(c) PROVE TypeOK'
  BY <1>1 DEF BeginRound, Collector
<1>2. ASSUME NEW c \in Request, NEW s \in Source, SyncNow(c, s) PROVE TypeOK'
  BY <1>2 DEF SyncNow, Collector
<1>3. ASSUME NEW p \in Process, Crash(p) PROVE TypeOK'
  <2> HIDE DEF PlanType, Finish
  <2> QED
    BY <1>3, FinishTypes DEF Crash
<1>4. ASSUME NEW s \in Source, UpdateSource(s) PROVE TypeOK'
  BY <1>4 DEF UpdateSource
<1>5. ASSUME NEW s \in Source, NEW t \in Terminal, Move(s, t) PROVE TypeOK'
  BY <1>5 DEF Move
<1>6. ASSUME NEW t \in Terminal, Age(t) PROVE TypeOK'
  BY <1>6 DEF Age
<1>7. ASSUME NEW t \in Terminal, Block(t) PROVE TypeOK'
  BY <1>7 DEF Block, Listed
<1>8. ASSUME NEW t \in Terminal, Unblock(t) PROVE TypeOK'
  <2>1. plan' \in [Process -> PlanType]
    <3>1. \A p \in Process, ts \in SUBSET Terminal : [plan[p] EXCEPT !.clear = ts] \in PlanType
      <4> SUFFICES ASSUME NEW r \in PlanType, NEW ts \in SUBSET Terminal
                   PROVE  [r EXCEPT !.clear = ts] \in PlanType
        OBVIOUS
      <4> QED
        BY DEF PlanType
    <3>2. \A p \in Process : plan[p].clear \in SUBSET Terminal
      <4> SUFFICES ASSUME NEW r \in PlanType PROVE r.clear \in SUBSET Terminal
        OBVIOUS
      <4> QED
        BY DEF PlanType
    <3>3. plan' = [p \in Process |-> [plan[p] EXCEPT !.clear = IF pc[p] = "freeing" THEN plan[p].clear \ {t}
                                                               ELSE plan[p].clear]]
      BY <1>8 DEF Unblock
    <3> HIDE DEF TypeOK, PlanType
    <3> QED
      BY <3>1, <3>2, <3>3
  <2> QED
    BY <1>8, <2>1 DEF Unblock
<1>9. CASE UNCHANGED vars
  BY <1>9 DEF vars
<1> QED
  BY <1>1, <1>2, <1>3, <1>4, <1>5, <1>6, <1>7, <1>8, <1>9, CollectTypeOK, WorkTypeOK, EditTypeOK DEF Next

(* ------------------------------------------------------ work in hand ----- *)

LEMMA NextWorkInv == TypeOK /\ WorkInv /\ [Next]_vars => WorkInv'
<1> SUFFICES ASSUME TypeOK, WorkInv, [Next]_vars PROVE WorkInv'
  OBVIOUS
<1> USE DEF TypeOK, Step, Goto, Plan, Learn, Calm, Disturb, Finish, NoPlan, PlanType, Process, WorkInv,
            table, world, local, ghost
<1>1. ASSUME NEW c \in Collector, Ask(c) \/ EmptyAnswer(c) \/ NoAnswer(c) \/ SaveFails(c) \/ Mark(c)
      PROVE  WorkInv'
  BY <1>1 DEF Ask, EmptyAnswer, NoAnswer, SaveFails, Mark, Collector
<1>2. ASSUME NEW c \in Collector, Answer(c) PROVE WorkInv'
  BY <1>2 DEF Answer, LoadRules
<1>3. ASSUME NEW c \in Collector, Match(c) PROVE WorkInv'
  BY <1>3 DEF Match
<1>4. ASSUME NEW c \in Collector, Save(c) PROVE WorkInv'
  BY <1>4 DEF Save
<1>5. ASSUME NEW c \in Collector, Detect(c) PROVE WorkInv'
  BY <1>5 DEF Detect
<1>6. ASSUME NEW o \in Operator, Evaluate(o) PROVE WorkInv'
  BY <1>6 DEF Evaluate
<1>7. ASSUME NEW o \in Operator, Free(o) PROVE WorkInv'
  <2>1. PICK t \in plan[o].free :
          \/ plan' = [plan EXCEPT ![o] = [plan[o] EXCEPT !.free = @ \ {t}]]
          \/ plan' = [plan EXCEPT ![o] = [plan[o] EXCEPT !.free = @ \ {t}, !.clear = @ \union {t},
                                                        !.drop = @ \union {t}, !.flag = @ \ {t}]]
    BY <1>7 DEF Free
  <2>2. /\ pc' = pc /\ job' = job /\ \A p \in Process \ {o} : plan'[p] = plan[p]
        /\ plan[o].drop \intersect plan[o].flag = {}
    BY <1>7, <2>1 DEF Free
  <2>3. plan'[o].drop \intersect plan'[o].flag = {}
    <3>1. CASE plan'[o] = [plan[o] EXCEPT !.free = @ \ {t}]
      BY <2>2, <3>1
    <3>2. CASE plan'[o] = [plan[o] EXCEPT !.free = @ \ {t}, !.clear = @ \union {t},
                                          !.drop = @ \union {t}, !.flag = @ \ {t}]
      <4>1. plan'[o].drop = plan[o].drop \union {t} /\ plan'[o].flag = plan[o].flag \ {t}
        <5>1. plan[o] \in PlanType
          OBVIOUS
        <5> QED
          BY <3>2, <5>1
      <4> QED
        BY <2>2, <4>1
    <3> QED
      BY <2>1, <3>1, <3>2
  <2> QED
    BY <2>2, <2>3
<1>8. ASSUME NEW o \in Operator, Purge(o) PROVE WorkInv'
  BY <1>8 DEF Purge
<1>9. ASSUME NEW o \in Operator, ReadFlags(o) \/ ClearFlags(o) \/ DeleteSource(o) PROVE WorkInv'
  BY <1>9 DEF ReadFlags, ClearFlags, DeleteSource
<1>10. ASSUME NEW o \in Operator, NEW r \in Rule, EditRule(o, r) PROVE WorkInv'
  BY <1>10 DEF EditRule, CreateRule, UpdateRule, ToggleRule, DeleteRule
<1>11. ASSUME NEW o \in Operator, NEW s \in Source, BeginDelete(o, s) PROVE WorkInv'
  BY <1>11 DEF BeginDelete
<1>12. ASSUME NEW p \in Process, Crash(p) PROVE WorkInv'
  BY <1>12 DEF Crash
<1>13. ASSUME NEW t \in Terminal, Unblock(t) PROVE WorkInv'
  <2>1. \A p \in Process : plan'[p].drop = plan[p].drop /\ plan'[p].flag = plan[p].flag
    BY <1>13 DEF Unblock
  <2> QED
    BY <1>13, <2>1 DEF Unblock
<1>14. CASE UNCHANGED <<pc, job, plan>>
  BY <1>14
<1>15. ASSUME \/ \E c \in Scheduled : BeginRound(c)
              \/ \E c \in Request, s \in Source : SyncNow(c, s)
              \/ \E s \in Source : UpdateSource(s) \/ \E t \in Terminal : Move(s, t)
              \/ \E t \in Terminal : Age(t) \/ Block(t)
              \/ UNCHANGED vars
       PROVE  UNCHANGED <<pc, job, plan>>
  BY <1>15 DEF BeginRound, SyncNow, UpdateSource, Move, Age, Block, vars
<1> QED
  BY <1>1, <1>2, <1>3, <1>4, <1>5, <1>6, <1>7, <1>8, <1>9, <1>10, <1>11, <1>12, <1>13, <1>14, <1>15
  DEF Next, Collect, Work

(* ------------------------------------------------------ stray marks ------ *)

(* A step that adds no stray mark and takes none from those who will clear.   *)
LEMMA Harmless ==
  ASSUME FlagInv, interrupted => interrupted', Stray' \subseteq Stray,
         \A o \in Operator, t \in Stray' : WillClear(o, t) => WillClear(o, t)'
  PROVE  FlagInv'
BY DEF FlagInv

LEMMA CollectFlagInv ==
  ASSUME TypeOK, FlagInv, NEW c \in Collector, Collect(c) \/ NoAnswer(c) PROVE FlagInv'
<1>1. c \notin Operator /\ c \in Process
  BY DEF Collector, Process
<1>2. /\ interrupted' = interrupted /\ covers' = covers /\ active' = active
      /\ \A o \in Operator : pc'[o] = pc[o] /\ plan'[o] = plan[o]
  <2> USE DEF TypeOK, Process, Goto, Plan, Finish, world, ghost, local
  <2>1. CASE Ask(c) \/ EmptyAnswer(c) \/ NoAnswer(c) \/ SaveFails(c) \/ Mark(c)
    BY <1>1, <2>1 DEF Ask, EmptyAnswer, NoAnswer, SaveFails, Mark
  <2>2. CASE Answer(c) \/ Match(c)
    BY <1>1, <2>2 DEF Answer, LoadRules, Match
  <2>3. CASE Save(c) \/ Detect(c)
    BY <1>1, <2>3 DEF Save, Detect
  <2> QED
    BY <2>1, <2>2, <2>3 DEF Collect
<1>3. Covered' = Covered
  BY <1>2 DEF Covered
<1>4. CASE Save(c)
  <2>1. Stray' \subseteq Stray
    BY <1>3, <1>4 DEF Save, Stray
  <2> QED
    BY <1>2, <2>1, Harmless DEF WillClear
<1>5. CASE ~Save(c)
  <2>1. flagged' = flagged /\ belated' = belated
    BY <1>5 DEF Collect, Ask, EmptyAnswer, NoAnswer, Answer, Match, SaveFails, Detect, Mark, table, ghost
  <2>2. Stray' = Stray
    BY <1>3, <2>1 DEF Stray
  <2> QED
    BY <1>2, <2>2, Harmless DEF WillClear
<1> QED
  BY <1>4, <1>5

LEMMA WorkFlagInv ==
  ASSUME TypeOK, FlagInv, NEW o \in Operator, Work(o) PROVE FlagInv'
<1> USE DEF TypeOK, Process, Goto, Plan, Finish, world, ghost, local, table
<1>1. o \in Process
  OBVIOUS
<1>2. covers' = covers /\ active' = active /\ (interrupted => interrupted')
  BY DEF Work, Evaluate, Free, Purge, ReadFlags, ClearFlags, DeleteSource
<1>3. Covered' = Covered
  BY <1>2 DEF Covered
<1>4. \A q \in Operator \ {o} : pc'[q] = pc[q] /\ plan'[q] = plan[q]
  BY DEF Work, Evaluate, Free, Purge, ReadFlags, ClearFlags, DeleteSource
<1>5. CASE Evaluate(o) \/ Free(o)
  <2>1. Stray' = Stray
    BY <1>3, <1>5 DEF Evaluate, Free, Stray
  <2>2. \A t \in Stray' : WillClear(o, t) => WillClear(o, t)'
    BY <1>5 DEF Evaluate, Free, WillClear
  <2> QED
    BY <1>2, <1>4, <2>1, <2>2, Harmless DEF WillClear
<1>6. CASE Purge(o)
  <2>1. Stray' \subseteq Stray
    BY <1>3, <1>6 DEF Purge, Stray
  <2>2. \A t \in Stray' : WillClear(o, t) => WillClear(o, t)'
    BY <1>6 DEF Purge, WillClear
  <2> QED
    BY <1>2, <1>4, <2>1, <2>2, Harmless DEF WillClear
<1>7. CASE ReadFlags(o)
  <2>1. Stray' = Stray
    BY <1>3, <1>7 DEF ReadFlags, Stray
  <2>2. plan'[o].clear = flagged \ Covered /\ pc'[o] = "clearing"
    BY <1>7 DEF ReadFlags, NoPlan
  <2>3. \A t \in Stray' : WillClear(o, t)'
    BY <2>1, <2>2 DEF WillClear, Stray
  <2> QED
    BY <2>3 DEF FlagInv
<1>8. CASE ClearFlags(o)
  <2>1. CASE plan[o].clear \subseteq Rows
    <3>1. flagged' = flagged \ plan[o].clear /\ belated' = belated \ plan[o].clear
          /\ interrupted' = interrupted /\ pc[o] = "clearing"
      BY <1>8, <2>1 DEF ClearFlags
    <3>2. Stray' = Stray \ plan[o].clear
      BY <1>3, <3>1 DEF Stray
    <3>3. \A t \in Stray' : ~WillClear(o, t)
      BY <3>1, <3>2 DEF WillClear
    <3> QED
      BY <1>2, <1>4, <3>2, <3>3, Harmless DEF WillClear
  <2>2. CASE ~(plan[o].clear \subseteq Rows)
    <3>1. interrupted'
      BY <1>8, <2>2 DEF ClearFlags
    <3> QED
      BY <3>1 DEF FlagInv
  <2> QED
    BY <2>1, <2>2
<1>9. CASE DeleteSource(o)
  <2>1. Stray' \subseteq Stray
    BY <1>3, <1>9 DEF DeleteSource, Stray
  <2>2. \A t \in Stray' : ~WillClear(o, t)
    BY <1>9 DEF DeleteSource, WillClear
  <2> QED
    BY <1>2, <1>4, <2>1, <2>2, Harmless DEF WillClear
<1> QED
  BY <1>5, <1>6, <1>7, <1>8, <1>9 DEF Work

LEMMA EditFlagInv ==
  ASSUME TypeOK, FlagInv, NEW o \in Operator, NEW r \in Rule, EditRule(o, r) PROVE FlagInv'
<1> USE DEF TypeOK, Process, Goto, world, ghost, local, table
<1>1. /\ flagged' = flagged /\ belated' = belated /\ interrupted' = interrupted /\ plan' = plan
      /\ pc[o] = "idle" /\ \A q \in Operator \ {o} : pc'[q] = pc[q]
  BY DEF EditRule, CreateRule, UpdateRule, ToggleRule, DeleteRule
<1>2. CASE pc'[o] \in {"replacing", "refreshing"}
  BY <1>2 DEF FlagInv, WillClear
<1>3. CASE pc'[o] = "purging"
  <2>1. Covered \subseteq Covered'
    <3>1. CASE \E ts \in SUBSET Terminal : CreateRule(o, r, ts)
      BY <3>1 DEF CreateRule, Covered
    <3>2. CASE ToggleRule(o, r)
      <4>1. active' = active \union {r} /\ covers' = covers
        BY <1>3, <3>2 DEF ToggleRule
      <4> QED
        BY <4>1 DEF Covered
    <3> QED
      BY <1>3, <3>1, <3>2 DEF EditRule, UpdateRule, DeleteRule
  <2>2. Stray' \subseteq Stray
    BY <1>1, <2>1 DEF Stray
  <2>3. \A t \in Stray' : ~WillClear(o, t)
    BY <1>1 DEF WillClear
  <2> QED
    BY <1>1, <2>2, <2>3, Harmless DEF WillClear
<1>4. pc'[o] \in {"replacing", "refreshing", "purging"}
  BY DEF EditRule, CreateRule, UpdateRule, ToggleRule, DeleteRule
<1> QED
  BY <1>2, <1>3, <1>4

LEMMA NextFlagInv == TypeOK /\ FlagInv /\ [Next]_vars => FlagInv'
<1> SUFFICES ASSUME TypeOK, FlagInv, [Next]_vars PROVE FlagInv'
  OBVIOUS
<1> USE DEF Process, Goto, Plan, Finish, world, ghost, local, table
<1>1. ASSUME NEW p \in Process, Crash(p) PROVE FlagInv'
  <2>1. CASE pc[p] \in {"replacing", "sweeping", "refreshing", "clearing"}
    BY <1>1, <2>1 DEF Crash, FlagInv
  <2>2. CASE pc[p] \notin {"replacing", "sweeping", "refreshing", "clearing"}
    <3>1. Stray' = Stray /\ (interrupted => interrupted')
      BY <1>1, <2>2 DEF Crash, Stray, Covered
    <3>2. \A q \in Process \ {p} : pc'[q] = pc[q] /\ plan'[q] = plan[q]
      BY <1>1 DEF Crash, TypeOK
    <3> QED
      BY <2>2, <3>1, <3>2, Harmless DEF WillClear
  <2> QED
    BY <2>1, <2>2
<1>2. ASSUME NEW t \in Terminal, Unblock(t) PROVE FlagInv'
  <2>1. Stray' = Stray /\ interrupted' = interrupted /\ pc' = pc
    BY <1>2 DEF Unblock, Stray, Covered
  <2>2. \A q \in Process : pc[q] # "freeing" => plan'[q].clear = plan[q].clear
    BY <1>2 DEF Unblock, TypeOK, PlanType
  <2> QED
    BY <2>1, <2>2, Harmless DEF WillClear
<1>3. ASSUME NEW o \in Operator, NEW s \in Source, BeginDelete(o, s) PROVE FlagInv'
  <2>1. /\ Stray' = Stray /\ interrupted' = interrupted /\ plan' = plan /\ pc[o] = "idle"
        /\ \A q \in Operator \ {o} : pc'[q] = pc[q]
    BY <1>3 DEF BeginDelete, Stray, Covered, TypeOK
  <2> QED
    BY <2>1, Harmless DEF WillClear
<1>4. ASSUME \/ \E c \in Scheduled : BeginRound(c)
             \/ \E c \in Request, s \in Source : SyncNow(c, s)
             \/ \E s \in Source : UpdateSource(s) \/ \E t \in Terminal : Move(s, t)
             \/ \E t \in Terminal : Age(t) \/ Block(t)
             \/ UNCHANGED vars
      PROVE  FlagInv'
  <2>1. UNCHANGED <<pc, plan, flagged, belated, interrupted, covers, active>>
    BY <1>4 DEF BeginRound, SyncNow, UpdateSource, Move, Age, Block, vars
  <2>2. Stray' = Stray
    BY <2>1 DEF Stray, Covered
  <2> QED
    BY <2>1, <2>2, Harmless DEF WillClear
<1> QED
  BY <1>1, <1>2, <1>3, <1>4, CollectFlagInv, WorkFlagInv, EditFlagInv DEF Next

(* ----------------------------------------------------------- theorems ---- *)

LEMMA Invariance == Spec => []IInv
<1>1. IInv /\ [Next]_vars => IInv'
  BY NextTypeOK, NextWorkInv, NextFlagInv DEF IInv
<1> QED
  BY <1>1, InitIInv, PTL DEF Spec

(* The table stays well formed: marks, blocks and ages are those of rows that *)
(* exist, whatever collections, purges and deletions take from each other.    *)
THEOREM TypeCorrect == Spec => []TypeOK
<1>1. IInv => TypeOK
  BY DEF IInv
<1> QED
  BY <1>1, Invariance, PTL

(* A row without a rule keeps its mark only if somebody wrote it by a rule    *)
(* that had gone, an edit was interrupted, or one is still at work.           *)
THEOREM StrayMarksAreExplained == Spec => []FlagsAreExplained
<1>1. IInv => FlagsAreExplained
  BY DEF IInv, FlagInv, FlagsAreExplained, WillClear, Stray
<1> QED
  BY <1>1, Invariance, PTL
================================================================================
