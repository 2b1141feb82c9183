---------------------- MODULE NotificationDeliveryProofs ----------------------
(***************************************************************************)
(* What the pipeline promises about a notification, for any events,        *)
(* channels, rules and number of retries: the types, that an open window   *)
(* lets one ordinary message through at most, that nothing vanishes, that  *)
(* a channel takes a notification once for each time it was asked for, and *)
(* that it is tried MaxRetries + 1 times at most for each.                 *)
(*                                                                         *)
(* The inductive invariant has one part for each argument.  WindowInv      *)
(* counts who may still send past an open window.  CopiesAreOnRecord and   *)
(* WholesAreNew say what each copy of a payload, queued, waiting or in     *)
(* hand, stands for; LaterRowsAreFinal says what a second row of the log   *)
(* says.  Counted weighs the copies of a pair: what it was tried, and what *)
(* its copies may still try, never exceed what was asked for.              *)
(***************************************************************************)
EXTENDS NotificationDelivery, SequenceTheorems, FiniteSetTheorems, TLAPS

USE BoundsAssumption, ChannelAssumption

-----------------------------------------------------------------------------
(* Type correctness.                                                          *)

(* What a worker has in hand.                                                 *)
WorkOK ==
    /\ work \in [Worker -> Hand]
    /\ \A w \in Worker :
        /\ work[w].phase # "idle" => work[w].alive /\ work[w].payload \in Payload
        /\ work[w].phase \notin {"idle", "taken"} => work[w].todo # {}

LEMMA IdleIsHand == Idle \in Hand /\ [Idle EXCEPT !.alive = FALSE] \in Hand
BY DEF Idle, Hand

LEMMA TurnIsLeft ==
  ASSUME WorkOK, NEW w \in Worker, work[w].phase \in {"deliver", "send", "sent"}
  PROVE  /\ Turn(w) \in work[w].todo /\ Turn(w) \in Channel
         /\ work[w].payload \in Payload /\ work[w].alive
BY DEF WorkOK, Hand, Turn

LEMMA RoundOverKeepsWork ==
  ASSUME WorkOK, NEW w \in Worker, work[w].phase \in {"deliver", "send", "sent"},
         RoundOver(w, Turn(w))
  PROVE  WorkOK'
<1>1. work[w] \in Hand /\ work[w].alive /\ work[w].payload \in Payload /\ Turn(w) \in work[w].todo
  BY TurnIsLeft DEF WorkOK
<1> DEFINE left == work[w].todo \ {Turn(w)}
           rest == [work[w] EXCEPT !.todo = left, !.phase = "deliver"]
<1>2. work' = [work EXCEPT ![w] = IF left = {} THEN Idle ELSE rest]
  BY DEF RoundOver
<1>3. /\ rest \in Hand /\ rest.phase = "deliver" /\ rest.alive /\ rest.payload \in Payload
      /\ rest.todo = left
  <2>1. left \in SUBSET Channel
    BY <1>1 DEF Hand
  <2> HIDE DEF left
  <2> QED
    BY <1>1, <2>1 DEF Hand
<1> HIDE DEF left, rest
<1>4. CASE left = {}
  BY <1>2, <1>4, IdleIsHand DEF WorkOK, Idle
<1>5. CASE left # {}
  BY <1>2, <1>3, <1>5 DEF WorkOK
<1> QED
  BY <1>4, <1>5

LEMMA PhaseKeepsWork ==
  ASSUME WorkOK, NEW w \in Worker, work[w].phase \in {"deliver", "send", "sent"},
         NEW phase \in {"deliver", "send", "sent"}, work' = [work EXCEPT ![w].phase = phase]
  PROVE  WorkOK'
<1>1. work[w] \in Hand /\ work[w].alive /\ work[w].payload \in Payload /\ work[w].todo # {}
  BY DEF WorkOK
<1>2. [work[w] EXCEPT !.phase = phase] \in Hand
  BY <1>1 DEF Hand
<1> QED
  BY <1>1, <1>2 DEF WorkOK, Hand

LEMMA TakeUpKeepsWork ==
  ASSUME WorkOK, NEW w \in Worker, Free(w), NEW p \in Payload, TakeUp(w, p)
  PROVE  WorkOK'
<1>1. work[w] \in Hand /\ work[w].alive
  BY DEF WorkOK, Free
<1>2. [work[w] EXCEPT !.payload = p, !.phase = "taken"] \in Hand
  BY <1>1 DEF Hand
<1> QED
  BY <1>1, <1>2 DEF WorkOK, TakeUp, Hand

LEMMA LogOneKeepsLog ==
  ASSUME log \in [Pair -> Seq(Status)], NEW x, NEW status \in Status, LogOne(x, status)
  PROVE  log' \in [Pair -> Seq(Status)]
<1>1. <<status>> \in Seq(Status)
  OBVIOUS
<1> HIDE DEF Status
<1> QED
  BY <1>1 DEF LogOne

LEMMA LogMoreKeepsLog ==
  ASSUME log \in [Pair -> Seq(Status)], NEW x, NEW status \in Status, LogMore(x, status)
  PROVE  log' \in [Pair -> Seq(Status)]
<1>1. \A s \in Seq(Status) : Append(s, status) \in Seq(Status)
  OBVIOUS
<1> QED
  BY <1>1 DEF LogMore

LEMMA CheckEscalationKeepsTypes ==
  ASSUME WorkOK, NEW w \in Worker, work[w].phase = "taken", NEW ruled \in BOOLEAN, NEW over \in BOOLEAN,
         escalation \in Nat, Threshold > 0 => escalation < Threshold,
         Targets(work[w].payload) # {}, Targets(work[w].payload) \subseteq Channel,
         CheckEscalation(w, ruled, over)
  PROVE  /\ WorkOK'
         /\ escalation' \in Nat /\ (Threshold > 0 => escalation' < Threshold)
<1> DEFINE count == 1 + IF over THEN 0 ELSE escalation
           checked == ruled /\ Threshold > 0
           escalates == checked /\ count >= Threshold
           targets == Targets(work[w].payload)
           hand == [work[w] EXCEPT !.phase = "deliver", !.todo = targets,
                                   !.ruled = ruled, !.escalated = escalates]
<1>1. escalation' = IF escalates THEN 0 ELSE IF checked THEN count ELSE escalation
  BY DEF CheckEscalation
<1>2. escalation' \in Nat /\ (Threshold > 0 => escalation' < Threshold)
  <2>1. count \in Nat /\ Threshold \in Nat
    OBVIOUS
  <2> HIDE DEF count
  <2> QED
    BY <1>1, <2>1
<1>3. escalates \in BOOLEAN /\ work[w] \in Hand /\ work[w].alive /\ work[w].payload \in Payload
  BY DEF WorkOK
<1>4. work' = [work EXCEPT ![w] = hand]
  BY DEF CheckEscalation, WorkOK
<1> HIDE DEF escalates, targets
<1>5. /\ hand \in Hand /\ hand.phase = "deliver" /\ hand.alive /\ hand.payload \in Payload
      /\ hand.todo = targets
  BY <1>3 DEF Hand, targets
<1>6. targets # {}
  BY DEF targets
<1> HIDE DEF hand
<1> QED
  BY <1>2, <1>4, <1>5, <1>6 DEF WorkOK

LEMMA Disturbs ==
  ASSUME disturbed \in 0 .. MaxDisturbance, Disturb PROVE disturbed' \in 0 .. MaxDisturbance
BY DEF Disturb

LEMMA CheckTargets ==
  ASSUME TypeOK, NEW p \in Payload PROVE Targets(p) \subseteq Channel
BY DEF TypeOK, Targets

LEMMA LoadedFromType ==
  ASSUME NEW table \in [Channel -> Setting]
  PROVE  /\ DOMAIN LoadedFrom(table) \subseteq Channel
         /\ LoadedFrom(table) \in [DOMAIN LoadedFrom(table) -> BOOLEAN]
BY DEF LoadedFrom

LEMMA InitTypeOK == Init => TypeOK
<1> SUFFICES ASSUME Init PROVE TypeOK
  OBVIOUS
<1>1. queue \in Seq(Payload) /\ retries \subseteq Payload
  BY DEF Init
<1>2. WorkOK
  BY IdleIsHand DEF Init, WorkOK, Idle
<1>3. stored \in [Channel -> Setting]
  BY DEF Init, Setting
<1>4. DOMAIN loaded \subseteq Channel /\ loaded \in [DOMAIN loaded -> BOOLEAN]
  BY <1>3, LoadedFromType DEF Init
<1>5. log \in [Pair -> Seq(Status)]
  <2>1. <<>> \in Seq(Status)
    OBVIOUS
  <2> QED
    BY <2>1 DEF Init
<1>6. tally \in [Pair -> Tally] /\ late \in [Channel -> Nat]
  BY DEF Init, Tally
<1>7. reload \in [Operator -> [phase : {"no", "committed", "cleared", "read", "failed"},
                              read : [Channel -> Setting]]]
  BY <1>3 DEF Init
<1>8. /\ escalation \in Nat /\ (Threshold > 0 => escalation < Threshold)
      /\ disturbed \in 0 .. MaxDisturbance
  BY DEF Init
<1>9. window = {} /\ due = {} /\ excused = {} /\ emitted = {}
  BY DEF Init
<1> QED
  BY <1>1, <1>2, <1>3, <1>4, <1>5, <1>6, <1>7, <1>8, <1>9 DEF TypeOK, WorkOK

(* The steps of a worker at its loop.                                         *)
LEMMA QueueKeepsTypes ==
  ASSUME TypeOK, Emit \/ TakeQueued \/ \E p \in Payload : TakeRetry(p) PROVE TypeOK'
<1>0. WorkOK
  BY DEF TypeOK, WorkOK
<1>1. CASE Emit
  <2>1. PICK e \in Event : /\ emitted' = emitted \cup {e}
                           /\ queue' = Append(queue, [event |-> e, retry |-> 0, scope |-> "all"])
    BY <1>1 DEF Emit, TypeOK
  <2>2. [event |-> e, retry |-> 0, scope |-> "all"] \in Payload
    BY DEF Payload
  <2>3. queue' \in Seq(Payload)
    BY <2>1, <2>2 DEF TypeOK
  <2> QED
    BY <1>1, <2>1, <2>3 DEF Emit, TypeOK, cache, rules, ghosts
<1>2. CASE TakeQueued
  <2>1. Head(queue) \in Payload /\ Tail(queue) \in Seq(Payload)
    BY <1>2 DEF TakeQueued, TypeOK
  <2>2. WorkOK'
    BY <1>0, <1>2, <2>1, TakeUpKeepsWork DEF TakeQueued, Worker
  <2> QED
    BY <1>2, <2>1, <2>2 DEF TakeQueued, TypeOK, WorkOK, cache, rules, ghosts
<1>3. ASSUME NEW p \in Payload, TakeRetry(p) PROVE TypeOK'
  <2>1. WorkOK'
    BY <1>0, <1>3, TakeUpKeepsWork DEF TakeRetry, Worker
  <2> QED
    BY <1>3, <2>1 DEF TakeRetry, TypeOK, WorkOK, cache, rules, ghosts
<1> QED
  BY <1>1, <1>2, <1>3

LEMMA CargoIsDue == ASSUME NEW p PROVE Cargo(p) \subseteq due
BY DEF Cargo

LEMMA BeginDeliveryKeepsTypes ==
  ASSUME TypeOK, NEW w \in Worker, NEW ruled \in BOOLEAN, BeginDelivery(w, ruled) PROVE TypeOK'
<1>0. WorkOK /\ work[w].phase = "taken" /\ work[w].payload \in Payload
  BY DEF TypeOK, WorkOK, BeginDelivery
<1> DEFINE p == work[w].payload
<1>1. Targets(p) \subseteq Channel /\ p.event \in Event
  BY <1>0, CheckTargets DEF Payload
<1>2. disturbed' \in 0 .. MaxDisturbance
  BY DEF BeginDelivery, Disturb, TypeOK
<1>3. CASE Targets(p) = {}
  <2>1. work' = [work EXCEPT ![w] = Idle] /\ excused' = excused \cup Cargo(p)
        /\ escalation' = escalation /\ due' = due
    BY <1>3 DEF BeginDelivery
  <2>2. WorkOK'
    BY <1>0, <2>1, IdleIsHand DEF WorkOK, Idle
  <2> QED
    BY <1>2, <2>1, <2>2, CargoIsDue DEF BeginDelivery, TypeOK, WorkOK, cache
<1>4. CASE Targets(p) # {}
  <2>1. PICK over \in BOOLEAN : CheckEscalation(w, ruled, over)
    BY <1>4 DEF BeginDelivery
  <2>2. due' = due \cup ({p.event} \X Targets(p)) /\ excused' = excused
    BY <1>4 DEF BeginDelivery
  <2>3. due' \subseteq Pair
    <3> HIDE DEF p
    <3> QED
      BY <1>1, <2>2 DEF TypeOK, Pair
  <2>4. WorkOK' /\ escalation' \in Nat /\ (Threshold > 0 => escalation' < Threshold)
    BY <1>0, <1>1, <1>4, <2>1, CheckEscalationKeepsTypes DEF TypeOK
  <2> QED
    BY <1>2, <2>2, <2>3, <2>4 DEF BeginDelivery, TypeOK, WorkOK, cache
<1> QED
  BY <1>3, <1>4

LEMMA RequeueKeepsTypes ==
  ASSUME TypeOK, NEW w \in Worker, Requeue(w) PROVE TypeOK'
<1>0. WorkOK /\ work[w].payload \in Payload
  BY DEF TypeOK, WorkOK, Requeue
<1> DEFINE p == work[w].payload
<1>1. p.retry < MaxRetries => [p EXCEPT !.retry = @ + 1] \in Payload
  <2> HIDE DEF p
  <2> QED
    BY <1>0 DEF Payload, p
<1>2. retries' \subseteq Payload /\ excused' \subseteq Pair
  BY <1>1, CargoIsDue DEF Requeue, TypeOK
<1>3. WorkOK'
  BY <1>0, IdleIsHand DEF Requeue, WorkOK, Idle
<1> QED
  BY <1>2, <1>3, Disturbs DEF Requeue, TypeOK, WorkOK, cache, rules

(* The steps of a delivery.                                                   *)
LEMMA ScheduleKeepsTypes ==
  ASSUME TypeOK, NEW p \in Payload, NEW c \in Channel, ScheduleOrFail(p, c)
  PROVE  retries' \subseteq Payload /\ log' \in [Pair -> Seq(Status)]
<1>1. p.retry < MaxRetries => [event |-> p.event, retry |-> p.retry + 1, scope |-> c] \in Payload
  BY DEF Payload
<1>2. "retrying" \in Status /\ "failed" \in Status
  BY DEF Status
<1>3. log' \in [Pair -> Seq(Status)]
  BY <1>2, LogOneKeepsLog DEF ScheduleOrFail, TypeOK
<1> QED
  BY <1>1, <1>3 DEF ScheduleOrFail, TypeOK

LEMMA TallyKeepsType ==
  ASSUME tally \in [Pair -> Tally], NEW x,
         \/ tally' = [tally EXCEPT ![x].attempts = @ + 1, ![x].accepted = @ + 1]
         \/ tally' = [tally EXCEPT ![x].attempts = @ + 1]
         \/ tally' = [tally EXCEPT ![x].rounds = @ + 1]
         \/ tally' = [tally EXCEPT ![x].attempts = @ + 1, ![x].accepted = @ + 1, ![x].again = @ + 1]
  PROVE  tally' \in [Pair -> Tally]
BY DEF Tally

LEMMA TakenKeepsType ==
  ASSUME late \in [Channel -> Nat], NEW w, NEW c \in Channel, Taken(w, c)
  PROVE  late' \in [Channel -> Nat]
<1>1. [late EXCEPT ![c] = @ + 1] \in [Channel -> Nat]
  OBVIOUS
<1> QED
  BY <1>1 DEF Taken

LEMMA LoopKeepsTypes ==
  ASSUME TypeOK, NEW w \in Worker,
         \/ SkipUnloaded(w) \/ Suppress(w) \/ BeginSend(w) \/ SendAccepted(w) \/ RecordSent(w)
         \/ SendRefused(w) \/ SendUnanswered(w) \/ SendUnauthorised(w) \/ RetryLost(w)
  PROVE  TypeOK'
<1>0. WorkOK /\ work[w].phase \in {"deliver", "send", "sent"}
  BY DEF TypeOK, WorkOK, SkipUnloaded, Suppress, BeginSend, SendAccepted, RecordSent, SendRefused,
     SendUnanswered, SendUnauthorised, RetryLost
<1>1. Turn(w) \in Channel /\ work[w].payload \in Payload /\ <<work[w].payload.event, Turn(w)>> \in Pair
  BY <1>0, TurnIsLeft DEF Payload, Pair
<1>2. /\ RoundOver(w, Turn(w)) => WorkOK'
      /\ \A phase \in {"send", "sent"} : work' = [work EXCEPT ![w].phase = phase] => WorkOK'
  BY <1>0, RoundOverKeepsWork, PhaseKeepsWork
<1>3. {"failed", "sent", "suppressed"} \subseteq Status
  BY DEF Status
<1>4. CASE SkipUnloaded(w)
  BY <1>1, <1>2, <1>4 DEF SkipUnloaded, TypeOK, WorkOK, cache, rules
<1>5. CASE Suppress(w)
  <2>1. log' \in [Pair -> Seq(Status)]
    BY <1>3, <1>5, LogMoreKeepsLog DEF Suppress, TypeOK
  <2> QED
    BY <1>2, <1>5, <2>1 DEF Suppress, TypeOK, WorkOK, cache, rules, ghosts
<1>6. CASE BeginSend(w)
  BY <1>2, <1>6 DEF BeginSend, TypeOK, WorkOK, cache, rules, ghosts
<1>7. CASE SendAccepted(w)
  <2>1. tally' \in [Pair -> Tally] /\ late' \in [Channel -> Nat]
    BY <1>1, <1>7, TallyKeepsType, TakenKeepsType DEF SendAccepted, TypeOK
  <2> QED
    BY <1>2, <1>7, <2>1 DEF SendAccepted, TypeOK, WorkOK, cache, rules
<1>8. CASE RecordSent(w)
  <2>1. log' \in [Pair -> Seq(Status)]
    BY <1>3, <1>8, LogMoreKeepsLog DEF RecordSent, TypeOK
  <2>2. window' \subseteq Suppressing
    BY <1>8 DEF RecordSent, Ruled, TypeOK
  <2> QED
    BY <1>2, <1>8, <2>1, <2>2 DEF RecordSent, TypeOK, WorkOK, cache, ghosts
<1>9. CASE SendRefused(w)
  <2>1. retries' \subseteq Payload /\ log' \in [Pair -> Seq(Status)]
    BY <1>1, <1>9, ScheduleKeepsTypes DEF SendRefused
  <2>2. tally' \in [Pair -> Tally]
    BY <1>9, TallyKeepsType DEF SendRefused, TypeOK
  <2> QED
    BY <1>2, <1>9, <2>1, <2>2 DEF SendRefused, TypeOK, WorkOK, cache, rules
<1>10. CASE SendUnanswered(w)
  <2>1. retries' \subseteq Payload /\ log' \in [Pair -> Seq(Status)]
    BY <1>1, <1>10, ScheduleKeepsTypes DEF SendUnanswered
  <2>2. tally' \in [Pair -> Tally] /\ late' \in [Channel -> Nat]
    BY <1>1, <1>10, TallyKeepsType, TakenKeepsType DEF SendUnanswered, TypeOK
  <2> QED
    BY <1>2, <1>10, <2>1, <2>2, Disturbs DEF SendUnanswered, TypeOK, WorkOK, cache, rules
<1>11. CASE SendUnauthorised(w)
  <2>1. log' \in [Pair -> Seq(Status)]
    BY <1>3, <1>11, LogOneKeepsLog DEF SendUnauthorised, TypeOK
  <2>2. tally' \in [Pair -> Tally]
    BY <1>11, TallyKeepsType DEF SendUnauthorised, TypeOK
  <2> QED
    BY <1>2, <1>11, <2>1, <2>2 DEF SendUnauthorised, TypeOK, WorkOK, cache, rules
<1>12. CASE RetryLost(w)
  <2>1. tally' \in [Pair -> Tally]
    BY <1>12, TallyKeepsType DEF RetryLost, TypeOK
  <2> QED
    BY <1>1, <1>2, <1>12, <2>1, Disturbs DEF RetryLost, TypeOK, WorkOK, cache, rules
<1> QED
  BY <1>4, <1>5, <1>6, <1>7, <1>8, <1>9, <1>10, <1>11, <1>12

(* Keys that expire, workers that end, restarts, and the operators.           *)
LEMMA InHandType == ASSUME TypeOK, NEW w \in Worker PROVE InHand(w) \subseteq Pair
<1>1. work[w] \in Hand /\ (work[w].phase # "idle" => work[w].payload \in Payload)
  BY DEF TypeOK
<1> QED
  BY <1>1, CargoIsDue DEF InHand, TypeOK, Hand, Payload, Pair

LEMMA WorkersKeepTypes ==
  ASSUME TypeOK,
         \/ \E w \in Worker : WorkerEnds(w) \/ Supervise(w)
         \/ \E c \in Channel : ExpireSuppression(c)
         \/ Restart
  PROVE  TypeOK'
<1>0. WorkOK
  BY DEF TypeOK, WorkOK
<1>1. ASSUME NEW w \in Worker, WorkerEnds(w) PROVE TypeOK'
  <2>1. WorkOK'
    BY <1>0, <1>1, IdleIsHand DEF WorkerEnds, WorkOK, Idle
  <2>2. excused' \subseteq Pair
    BY <1>1, InHandType DEF WorkerEnds, TypeOK
  <2> QED
    BY <1>1, <2>1, <2>2, Disturbs DEF WorkerEnds, TypeOK, WorkOK, cache, rules
<1>2. ASSUME NEW w \in Worker, Supervise(w) PROVE TypeOK'
  <2>1. WorkOK'
    BY <1>0, <1>2, IdleIsHand DEF Supervise, WorkOK, Idle
  <2> QED
    BY <1>2, <2>1 DEF Supervise, TypeOK, WorkOK, cache, rules, ghosts
<1>3. ASSUME NEW c \in Channel, ExpireSuppression(c) PROVE TypeOK'
  <2>1. late' \in [Channel -> Nat] /\ window' \subseteq Suppressing
    BY <1>3 DEF ExpireSuppression, TypeOK
  <2> QED
    BY <1>3, <2>1 DEF ExpireSuppression, TypeOK, cache
<1>4. CASE Restart
  <2>1. WorkOK'
    BY <1>4, IdleIsHand DEF Restart, WorkOK, Idle
  <2>2. excused' \subseteq Pair
    <3>1. UNION {InHand(w) : w \in Worker} \subseteq Pair
      BY InHandType
    <3> QED
      BY <1>4, <3>1 DEF Restart, TypeOK
  <2>3. stored' \in [Channel -> Setting]
    BY <1>4 DEF Restart, TypeOK, Setting
  <2>4. DOMAIN loaded' \subseteq Channel /\ loaded' \in [DOMAIN loaded' -> BOOLEAN]
    BY <1>4, <2>3, LoadedFromType DEF Restart
  <2>5. reload' \in [Operator -> [phase : {"no", "committed", "cleared", "read", "failed"},
                                  read : [Channel -> Setting]]]
    BY <1>4, <2>3 DEF Restart
  <2> QED
    BY <1>4, <2>1, <2>2, <2>3, <2>4, <2>5, Disturbs DEF Restart, TypeOK, WorkOK, rules
<1> QED
  BY <1>1, <1>2, <1>3, <1>4

ReloadState == [phase : {"no", "committed", "cleared", "read", "failed"}, read : [Channel -> Setting]]
LEMMA OperatorsKeepTypes ==
  ASSUME TypeOK, NEW o \in Operator,
         \/ \E c \in Channel, setting \in Setting : EditChannel(o, c, setting)
         \/ ClearCache(o) \/ ReadChannels(o) \/ FillCache(o) \/ ReloadFails(o)
  PROVE  TypeOK'
<1>0. reload \in [Operator -> ReloadState] /\ stored \in [Channel -> Setting]
  BY DEF TypeOK, ReloadState
<1>1. ASSUME NEW phase \in {"no", "committed", "cleared", "read", "failed"},
             reload' = [reload EXCEPT ![o].phase = phase]
      PROVE  reload' \in [Operator -> ReloadState]
  BY <1>0, <1>1 DEF ReloadState
<1>2. ASSUME NEW c \in Channel, NEW setting \in Setting, EditChannel(o, c, setting) PROVE TypeOK'
  <2>1. stored' \in [Channel -> Setting] /\ reload' \in [Operator -> ReloadState]
    BY <1>0, <1>1, <1>2 DEF EditChannel
  <2> QED
    BY <1>2, <2>1, Disturbs DEF EditChannel, TypeOK, ReloadState, rules, ghosts
<1>3. CASE ClearCache(o)
  BY <1>1, <1>3 DEF ClearCache, TypeOK, ReloadState, rules, ghosts
<1>4. CASE ReadChannels(o)
  <2>1. reload' \in [Operator -> ReloadState]
    BY <1>0, <1>4 DEF ReadChannels, ReloadState
  <2> QED
    BY <1>4, <2>1 DEF ReadChannels, TypeOK, ReloadState, rules, ghosts
<1>5. CASE FillCache(o)
  <2> DEFINE new == LoadedFrom(reload[o].read)
  <2>1. DOMAIN new \subseteq Channel /\ new \in [DOMAIN new -> BOOLEAN]
    BY <1>0, LoadedFromType DEF ReloadState
  <2>2. loaded' = [c \in DOMAIN new \cup DOMAIN loaded |-> IF c \in DOMAIN new THEN new[c] ELSE loaded[c]]
    BY <1>5 DEF FillCache
  <2>3. reload' \in [Operator -> ReloadState]
    BY <1>1, <1>5 DEF FillCache
  <2> HIDE DEF new
  <2>4. DOMAIN loaded' \subseteq Channel /\ loaded' \in [DOMAIN loaded' -> BOOLEAN]
    BY <2>1, <2>2 DEF TypeOK
  <2> QED
    BY <1>5, <2>3, <2>4 DEF FillCache, TypeOK, ReloadState, rules, ghosts
<1>6. CASE ReloadFails(o)
  BY <1>1, <1>6 DEF ReloadFails, TypeOK, ReloadState, rules, ghosts
<1> QED
  BY <1>2, <1>3, <1>4, <1>5, <1>6

LEMMA HandsKeepTypes ==
  ASSUME TypeOK, NEW x \in Pair, NEW i \in 1 .. Len(log[x]), RetryByHand(x, i) \/ DeleteLog(x, i)
  PROVE  TypeOK'
<1>0. log[x] \in Seq(Status) /\ i \in DOMAIN log[x] /\ x[1] \in Event /\ x[2] \in Channel
  BY DEF TypeOK, Pair
<1>1. CASE RetryByHand(x, i)
  <2>1. [event |-> x[1], retry |-> 0, scope |-> x[2]] \in Payload
    BY <1>0 DEF Payload
  <2>2. queue' \in Seq(Payload)
    BY <1>1, <2>1 DEF RetryByHand, TypeOK
  <2>3. tally' \in [Pair -> Tally]
    BY <1>1, TallyKeepsType DEF RetryByHand, TypeOK
  <2>4. [log[x] EXCEPT ![i] = "pending"] \in Seq(Status)
    <3>1. "pending" \in Status
      BY DEF Status
    <3> QED
      BY <1>0, <3>1
  <2>5. log' \in [Pair -> Seq(Status)]
    BY <1>1, <2>4 DEF RetryByHand, TypeOK
  <2> QED
    BY <1>1, <2>2, <2>3, <2>5, Disturbs DEF RetryByHand, TypeOK, cache, rules
<1>2. CASE DeleteLog(x, i)
  <2> DEFINE rest == SubSeq(log[x], 1, i - 1) \o SubSeq(log[x], i + 1, Len(log[x]))
  <2>1. rest \in Seq(Status)
    BY <1>0
  <2>2. log' = [log EXCEPT ![x] = rest]
    BY <1>2 DEF DeleteLog
  <2> HIDE DEF rest
  <2>3. log' \in [Pair -> Seq(Status)]
    BY <2>1, <2>2 DEF TypeOK
  <2> QED
    BY <1>2, <2>3, Disturbs DEF DeleteLog, TypeOK, cache, rules
<1> QED
  BY <1>1, <1>2

LEMMA NextTypeOK == TypeOK /\ [Next]_vars => TypeOK'
<1> SUFFICES ASSUME TypeOK, [Next]_vars PROVE TypeOK'
  OBVIOUS
<1>1. CASE UNCHANGED vars
  BY <1>1 DEF vars, rules, cache, ghosts, TypeOK
<1>2. ASSUME NEW w \in Worker, Deliver(w) PROVE TypeOK'
  BY <1>2, BeginDeliveryKeepsTypes, LoopKeepsTypes DEF Deliver
<1> QED
  BY <1>1, <1>2, QueueKeepsTypes, BeginDeliveryKeepsTypes, RequeueKeepsTypes, LoopKeepsTypes,
     WorkersKeepTypes, OperatorsKeepTypes, HandsKeepTypes DEF Next

-----------------------------------------------------------------------------
(* The steps in groups, and what they leave alone. *)

QueueStep == Emit \/ TakeQueued \/ \E p \in Payload : TakeRetry(p)
StartStep(w) == BeginDelivery(w, TRUE) \/ BeginDelivery(w, FALSE) \/ Requeue(w)
LoopStep(w) ==
    \/ SkipUnloaded(w) \/ Suppress(w) \/ BeginSend(w) \/ SendAccepted(w) \/ RecordSent(w)
    \/ SendRefused(w) \/ SendUnanswered(w) \/ SendUnauthorised(w) \/ RetryLost(w)
OperatorStep(o) ==
    \/ \E c \in Channel, setting \in Setting : EditChannel(o, c, setting)
    \/ ClearCache(o) \/ ReadChannels(o) \/ FillCache(o) \/ ReloadFails(o)

LEMMA NextIs ==
  ASSUME [Next]_vars
  PROVE  \/ QueueStep \/ \E w \in Worker : StartStep(w) \/ LoopStep(w) \/ WorkerEnds(w) \/ Supervise(w)
         \/ \E c \in Channel : ExpireSuppression(c)
         \/ Restart
         \/ \E o \in Operator : OperatorStep(o)
         \/ \E x \in Pair : \E i \in 1 .. Len(log[x]) : RetryByHand(x, i) \/ DeleteLog(x, i)
         \/ UNCHANGED vars
BY DEF Next, Deliver, QueueStep, StartStep, LoopStep, OperatorStep

LEMMA OperatorsTouchTheCache ==
  ASSUME NEW o, OperatorStep(o)
  PROVE  UNCHANGED <<queue, retries, work, rules, log, ghosts, emitted>>
BY DEF OperatorStep, EditChannel, ClearCache, ReadChannels, FillCache, ReloadFails

(* After a round: the worker is free, or goes on with the other channels.     *)
LEMMA AfterRound ==
  ASSUME WorkOK, NEW w \in Worker, work[w].phase \in {"deliver", "send", "sent"},
         RoundOver(w, Turn(w))
  PROVE  /\ \A v \in Worker \ {w} : work'[v] = work[v]
         /\ \/ work'[w] = Idle /\ work[w].todo = {Turn(w)}
            \/ /\ work'[w].phase = "deliver" /\ work'[w].todo = work[w].todo \ {Turn(w)}
               /\ work'[w].payload = work[w].payload
<1>1. work[w] \in Hand /\ Turn(w) \in work[w].todo
  BY TurnIsLeft DEF WorkOK
<1> DEFINE left == work[w].todo \ {Turn(w)}
           rest == [work[w] EXCEPT !.todo = left, !.phase = "deliver"]
<1>2. work' = [work EXCEPT ![w] = IF left = {} THEN Idle ELSE rest]
  BY DEF RoundOver
<1>3. left = {} => work[w].todo = {Turn(w)}
  BY <1>1
<1>4. rest.phase = "deliver" /\ rest.todo = left /\ rest.payload = work[w].payload
  BY <1>1 DEF Hand
<1> HIDE DEF left, rest
<1>5. CASE left = {}
  BY <1>2, <1>3, <1>5 DEF WorkOK
<1>6. CASE left # {}
  <2>1. work'[w] = rest /\ \A v \in Worker \ {w} : work'[v] = work[v]
    BY <1>2, <1>6 DEF WorkOK
  <2> QED
    BY <1>4, <2>1 DEF left
<1> QED
  BY <1>5, <1>6

LEMMA LoopPhases ==
  ASSUME TypeOK, NEW w \in Worker, LoopStep(w)
  PROVE  /\ WorkOK /\ work[w].phase \in {"deliver", "send", "sent"}
         /\ \A v \in Worker \ {w} : work'[v] = work[v]
         /\ \/ RoundOver(w, Turn(w))
            \/ BeginSend(w)
            \/ SendAccepted(w)
<1>1. WorkOK /\ work[w].phase \in {"deliver", "send", "sent"}
  BY DEF TypeOK, WorkOK, LoopStep, SkipUnloaded, Suppress, BeginSend, SendAccepted, RecordSent,
     SendRefused, SendUnanswered, SendUnauthorised, RetryLost
<1>2. RoundOver(w, Turn(w)) \/ BeginSend(w) \/ SendAccepted(w)
  BY DEF LoopStep, SkipUnloaded, Suppress, RecordSent, SendRefused, SendUnanswered,
     SendUnauthorised, RetryLost
<1>3. CASE RoundOver(w, Turn(w))
  BY <1>1, <1>3, AfterRound
<1>4. CASE BeginSend(w) \/ SendAccepted(w)
  BY <1>1, <1>4 DEF BeginSend, SendAccepted, WorkOK
<1> QED
  BY <1>1, <1>2, <1>3, <1>4

LEMMA StartPhases ==
  ASSUME TypeOK, NEW w \in Worker, StartStep(w)
  PROVE  /\ work[w].phase = "taken" /\ work[w].payload \in Payload
         /\ \A v \in Worker \ {w} : work'[v] = work[v]
         /\ work'[w] = Idle \/ work'[w].phase = "deliver"
<1>1. work \in [Worker -> Hand] /\ work[w].phase = "taken" /\ work[w].payload \in Payload
  BY DEF TypeOK, StartStep, BeginDelivery, Requeue
<1>2. CASE Requeue(w)
  BY <1>1, <1>2 DEF Requeue
<1>3. ASSUME NEW ruled \in BOOLEAN, BeginDelivery(w, ruled)
      PROVE  /\ \A v \in Worker \ {w} : work'[v] = work[v]
             /\ work'[w] = Idle \/ work'[w].phase = "deliver"
  <2>1. CASE Targets(work[w].payload) = {}
    BY <1>1, <1>3, <2>1 DEF BeginDelivery
  <2>2. CASE Targets(work[w].payload) # {}
    <3>1. PICK over \in BOOLEAN : CheckEscalation(w, ruled, over)
      BY <1>3, <2>2 DEF BeginDelivery
    <3> QED
      BY <1>1, <3>1 DEF CheckEscalation, Hand
  <2> QED
    BY <2>1, <2>2
<1> QED
  BY <1>1, <1>2, <1>3 DEF StartStep

-----------------------------------------------------------------------------
(* Suppression windows. *)

(* An ordinary message of a suppressing channel is about to be sent.          *)
Sender(w, c) ==
    work[w].phase = "send" /\ Turn(w) = c /\ Ruled(w, c) /\ ~ work[w].escalated

(* Nothing has come late while no window is open; while one is, either the    *)
(* one late message has come or at most one can still come.                   *)
WindowInv ==
    \A c \in Channel :
        /\ c \notin window => late[c] = 0
        /\ c \in window => /\ late[c] <= 1
                           /\ late[c] = 1 => \A w \in Worker : ~ Sender(w, c)
                           /\ \A w, v \in Worker : Sender(w, c) /\ Sender(v, c) => w = v

LEMMA SendersLeave ==
  ASSUME WindowInv, window' = window, late' = late,
         \A w \in Worker : work'[w] = work[w] \/ work'[w].phase # "send"
  PROVE  WindowInv'
<1>1. \A w \in Worker, c \in Channel : Sender(w, c)' => Sender(w, c)
  BY DEF Sender, Turn, Ruled
<1> QED
  BY <1>1 DEF WindowInv

LEMMA LoopWindow == ASSUME TypeOK, WindowInv, NEW w \in Worker, LoopStep(w) PROVE WindowInv'
<1>c. PICK c : c = Turn(w)
  OBVIOUS
<1>0. /\ WorkOK /\ work[w].phase \in {"deliver", "send", "sent"}
      /\ c \in Channel /\ late \in [Channel -> Nat]
      /\ \A v \in Worker \ {w} : work'[v] = work[v]
  BY <1>c, LoopPhases, TurnIsLeft DEF TypeOK
<1>1. \A v \in Worker \ {w}, d \in Channel : Sender(v, d)' => Sender(v, d)
  BY <1>0 DEF Sender, Turn, Ruled
<1>2. CASE BeginSend(w)
  <2>1. c \in window => ~ Ruled(w, c) \/ work[w].escalated
    BY <1>c, <1>2 DEF BeginSend, Suppressed
  <2>2. /\ work'[w].todo = work[w].todo /\ work'[w].ruled = work[w].ruled
        /\ work'[w].escalated = work[w].escalated /\ late' = late /\ window' = window
    BY <1>0, <1>2 DEF BeginSend, WorkOK, Hand, rules, ghosts
  <2>3. \A d \in window : ~ Sender(w, d)'
    BY <1>c, <2>1, <2>2 DEF Sender, Turn, Ruled
  <2> QED
    BY <1>1, <2>2, <2>3 DEF WindowInv
<1>3. CASE SendAccepted(w) \/ SendUnanswered(w)
  <2>1. Taken(w, c) /\ window' = window /\ work[w].phase = "send"
    BY <1>c, <1>3 DEF SendAccepted, SendUnanswered, rules
  <2>2. work'[w].phase # "send"
    BY <1>0, <1>3, AfterRound DEF SendAccepted, SendUnanswered, WorkOK, Hand, Idle
  <2>3. \A d \in Channel : ~ Sender(w, d)'
    BY <2>2 DEF Sender
  <2>4. CASE c \in window /\ Ruled(w, c) /\ ~ work[w].escalated
    <3>1. late' = [late EXCEPT ![c] = @ + 1]
      BY <2>1, <2>4 DEF Taken
    <3>2. Sender(w, c)
      BY <1>c, <2>1, <2>4 DEF Sender
    <3>3. late[c] = 0
      BY <1>0, <2>4, <3>2 DEF WindowInv
    <3>4. late'[c] = 1 /\ \A d \in Channel \ {c} : late'[d] = late[d]
      BY <1>0, <3>1, <3>3
    <3>5. ASSUME NEW v \in Worker PROVE ~ Sender(v, c)'
      <4>1. CASE v = w
        BY <1>0, <2>3, <4>1
      <4>2. CASE v # w
        <5>1. Sender(v, c) => v = w
          BY <1>0, <2>4, <3>2 DEF WindowInv
        <5> QED
          BY <1>0, <1>1, <4>2, <5>1
      <4> QED
        BY <4>1, <4>2
    <3>6. ASSUME NEW d \in Channel \ {c}, NEW v \in Worker, Sender(v, d)' PROVE Sender(v, d)
      BY <1>1, <2>3, <3>6
    <3>7. ASSUME NEW d \in Channel
          PROVE  /\ d \notin window' => late'[d] = 0
                 /\ d \in window' => /\ late'[d] <= 1
                                     /\ late'[d] = 1 => \A v \in Worker : ~ Sender(v, d)'
                                     /\ \A u, v \in Worker : Sender(u, d)' /\ Sender(v, d)' => u = v
      <4>1. CASE d = c
        BY <2>1, <2>4, <3>4, <3>5, <4>1
      <4>2. CASE d # c
        BY <2>1, <3>4, <3>6, <4>2 DEF WindowInv
      <4> QED
        BY <4>1, <4>2
    <3> QED
      BY <3>7 DEF WindowInv
  <2>5. CASE ~ (c \in window /\ Ruled(w, c) /\ ~ work[w].escalated)
    <3>1. late' = late
      BY <2>1, <2>5 DEF Taken
    <3> QED
      BY <1>1, <2>1, <2>3, <3>1 DEF WindowInv
  <2> QED
    BY <2>4, <2>5
<1>4. CASE RecordSent(w)
  <2>1. work[w].phase = "sent" /\ late' = late /\ window' \in {window, window \cup {c}}
    BY <1>c, <1>4 DEF RecordSent, ghosts
  <2>2. work'[w].phase # "send"
    BY <1>0, <1>4, AfterRound DEF RecordSent, Idle
  <2>3. \A d \in Channel : ~ Sender(w, d) /\ ~ Sender(w, d)'
    BY <2>1, <2>2 DEF Sender
  <2>4. \A v, u \in Worker : v # w /\ u # w => v = u
    BY DEF Worker
  <2> QED
    BY <1>0, <1>1, <2>1, <2>3, <2>4 DEF WindowInv
<1>5. CASE SkipUnloaded(w) \/ Suppress(w) \/ SendRefused(w) \/ SendUnauthorised(w) \/ RetryLost(w)
  <2>1. RoundOver(w, c) /\ late' = late /\ window' = window
    BY <1>c, <1>5 DEF SkipUnloaded, Suppress, SendRefused, SendUnauthorised, RetryLost, rules, ghosts
  <2>2. work'[w].phase # "send"
    BY <1>c, <1>0, <2>1, AfterRound DEF Idle
  <2> QED
    BY <1>0, <2>1, <2>2, SendersLeave
<1> QED
  BY <1>2, <1>3, <1>4, <1>5 DEF LoopStep

LEMMA NextWindowInv == TypeOK /\ WindowInv /\ [Next]_vars => WindowInv'
<1> SUFFICES ASSUME TypeOK, WindowInv, [Next]_vars PROVE WindowInv'
  OBVIOUS
<1>0. work \in [Worker -> Hand]
  BY DEF TypeOK
<1>1. CASE QueueStep
  <2>1. window' = window /\ late' = late
    BY <1>1 DEF QueueStep, Emit, TakeQueued, TakeRetry, rules, ghosts
  <2>2. \A w \in Worker : work'[w] = work[w] \/ work'[w].phase # "send"
    <3>1. CASE Emit
      BY <3>1 DEF Emit
    <3>2. ASSUME NEW v \in Worker, NEW p, TakeUp(v, p)
          PROVE  \A w \in Worker : work'[w] = work[w] \/ work'[w].phase # "send"
      BY <1>0, <3>2 DEF TakeUp, Hand
    <3> QED
      BY <1>1, <3>1, <3>2 DEF QueueStep, TakeQueued, TakeRetry, Worker
  <2> QED
    BY <2>1, <2>2, SendersLeave
<1>2. ASSUME NEW w \in Worker, StartStep(w) PROVE WindowInv'
  <2>1. window' = window /\ late' = late
    BY <1>2 DEF StartStep, BeginDelivery, Requeue, rules
  <2> QED
    BY <1>2, <2>1, StartPhases, SendersLeave DEF Idle
<1>3. ASSUME NEW w \in Worker, WorkerEnds(w) \/ Supervise(w) PROVE WindowInv'
  <2>1. window' = window /\ late' = late
    BY <1>3 DEF WorkerEnds, Supervise, rules, ghosts
  <2>2. \A v \in Worker : work'[v] = work[v] \/ work'[v].phase # "send"
    BY <1>0, <1>3 DEF WorkerEnds, Supervise, Idle
  <2> QED
    BY <2>1, <2>2, SendersLeave
<1>4. ASSUME NEW c \in Channel, ExpireSuppression(c) PROVE WindowInv'
  <2>1. /\ window' = window \ {c} /\ late'[c] = 0 /\ \A d \in Channel \ {c} : late'[d] = late[d]
        /\ work' = work
    BY <1>4 DEF ExpireSuppression, TypeOK
  <2>2. \A w \in Worker, d \in Channel : Sender(w, d)' = Sender(w, d)
    BY <2>1 DEF Sender, Turn, Ruled
  <2> QED
    BY <2>1, <2>2 DEF WindowInv
<1>5. CASE Restart
  BY <1>5, SendersLeave DEF Restart, Idle, rules
<1>6. ASSUME NEW o \in Operator, OperatorStep(o) PROVE WindowInv'
  BY <1>6, OperatorsTouchTheCache, SendersLeave DEF rules, ghosts
<1>7. CASE \E x \in Pair : \E i \in 1 .. Len(log[x]) : RetryByHand(x, i) \/ DeleteLog(x, i)
  BY <1>7, SendersLeave DEF RetryByHand, DeleteLog, rules
<1>8. CASE UNCHANGED vars
  BY <1>8, SendersLeave DEF vars, rules, ghosts
<1> QED
  BY <1>1, <1>2, <1>3, <1>4, <1>5, <1>6, <1>7, <1>8, LoopWindow, NextIs

-----------------------------------------------------------------------------
(* Everything names emitted events and deliveries that have begun.            *)

OnRecord(p, events, begun) ==
    p.event \in events /\ (p.scope # "all" => <<p.event, p.scope>> \in begun)

(* A payload is of an emitted event; one for a channel, a channel a worker    *)
(* still has to do and a row are of a delivery that has begun.                *)
CopiesAreOnRecord ==
    /\ \A i \in DOMAIN queue : OnRecord(queue[i], emitted, due)
    /\ \A p \in retries : OnRecord(p, emitted, due)
    /\ \A w \in Worker : work[w].phase = "taken" => OnRecord(work[w].payload, emitted, due)
    /\ \A w \in Worker : work[w].phase \notin {"idle", "taken"} =>
          \A c \in work[w].todo : <<work[w].payload.event, c>> \in due
    /\ \A x \in Pair : log[x] # <<>> => x \in due
    /\ \A x \in due : x[1] \in emitted

LEMMA AppendedIs ==
  ASSUME NEW S, NEW s \in Seq(S), NEW e \in S
  PROVE  /\ DOMAIN Append(s, e) = DOMAIN s \cup {Len(s) + 1} /\ Len(s) + 1 \notin DOMAIN s
         /\ \A i \in DOMAIN s : Append(s, e)[i] = s[i]
         /\ Append(s, e)[Len(s) + 1] = e
         /\ \A i \in DOMAIN Append(s, e) :
              Append(s, e)[i] = e \/ (i \in DOMAIN s /\ Append(s, e)[i] = s[i])
OBVIOUS

(* A row that is added or overwritten is of a delivery that has begun.        *)
LEMMA RowsOnRecord ==
  ASSUME TypeOK, CopiesAreOnRecord, NEW x \in due, NEW rows,
         log' = log \/ log' = [log EXCEPT ![x] = rows]
  PROVE  \A y \in Pair : log'[y] # <<>> => y \in due
BY DEF TypeOK, CopiesAreOnRecord

LEMMA StaysOnRecord ==
  ASSUME emitted \subseteq emitted', due \subseteq due'
  PROVE  \A p : OnRecord(p, emitted, due) => OnRecord(p, emitted', due')
BY DEF OnRecord

(* Steps that add no row and no delivery.                                     *)
LEMMA SameRecord ==
  ASSUME CopiesAreOnRecord, UNCHANGED <<log, due>>, emitted \subseteq emitted',
         \A i \in DOMAIN queue' : OnRecord(queue'[i], emitted', due'),
         \A p \in retries' : p \in retries \/ OnRecord(p, emitted', due'),
         \A w \in Worker :
            \/ work'[w] = work[w] \/ work'[w].phase = "idle"
            \/ work'[w].phase = "taken" /\ OnRecord(work'[w].payload, emitted', due')
  PROVE  CopiesAreOnRecord'
<1>1. \A p : OnRecord(p, emitted, due) => OnRecord(p, emitted', due')
  BY StaysOnRecord
<1>2. \A w \in Worker : work'[w].phase = "taken" => OnRecord(work'[w].payload, emitted', due')
  BY <1>1 DEF CopiesAreOnRecord
<1>3. \A w \in Worker : work'[w].phase \notin {"idle", "taken"} => work'[w] = work[w]
  OBVIOUS
<1> QED
  BY <1>1, <1>2, <1>3 DEF CopiesAreOnRecord

LEMMA QueueOnRecord == ASSUME TypeOK, CopiesAreOnRecord, QueueStep PROVE CopiesAreOnRecord'
<1>1. queue \in Seq(Payload) /\ work \in [Worker -> Hand] /\ emitted \subseteq Event
  BY DEF TypeOK
<1>2. CASE Emit
  <2>1. PICK e \in Event \ emitted :
           /\ emitted' = emitted \cup {e}
           /\ queue' = Append(queue, [event |-> e, retry |-> 0, scope |-> "all"])
    BY <1>1, <1>2 DEF Emit
  <2>2. PICK p : p = [event |-> e, retry |-> 0, scope |-> "all"]
    OBVIOUS
  <2>3. p \in Payload /\ p.event = e /\ p.scope = "all"
    BY <2>1, <2>2 DEF Payload
  <2>4. \A i \in DOMAIN queue' : queue'[i] = p \/ (i \in DOMAIN queue /\ queue'[i] = queue[i])
    <3>1. \A i \in DOMAIN Append(queue, p) :
             Append(queue, p)[i] = p \/ (i \in DOMAIN queue /\ Append(queue, p)[i] = queue[i])
      BY <1>1, <2>3, AppendedIs
    <3> QED
      BY <2>1, <2>2, <3>1
  <2>5. UNCHANGED <<log, due, retries, work>>
    BY <1>2 DEF Emit, ghosts
  <2>6. \A i \in DOMAIN queue' : OnRecord(queue'[i], emitted', due')
    <3>1. OnRecord(p, emitted', due')
      BY <2>1, <2>3 DEF OnRecord
    <3>2. \A i \in DOMAIN queue : OnRecord(queue[i], emitted', due')
      BY <2>1, <2>5, StaysOnRecord DEF CopiesAreOnRecord
    <3> QED
      BY <2>4, <3>1, <3>2
  <2> QED
    BY <2>1, <2>5, <2>6, SameRecord
<1>3. CASE TakeQueued
  <2>1. /\ queue # <<>> /\ queue' = Tail(queue) /\ TakeUp("main", Head(queue))
        /\ UNCHANGED <<log, due, retries, emitted>>
    BY <1>3 DEF TakeQueued, ghosts
  <2>2. OnRecord(Head(queue), emitted, due) /\ \A i \in DOMAIN queue' : OnRecord(queue'[i], emitted, due)
    <3>1. DOMAIN queue = 1 .. Len(queue) /\ 1 \in DOMAIN queue /\ Head(queue) = queue[1]
      BY <1>1, <2>1
    <3>2. \A i \in DOMAIN Tail(queue) : i + 1 \in DOMAIN queue /\ Tail(queue)[i] = queue[i + 1]
      BY <1>1, <2>1
    <3> QED
      BY <2>1, <3>1, <3>2 DEF CopiesAreOnRecord
  <2>3. /\ work'["main"].payload = Head(queue) /\ work'["main"].phase = "taken"
        /\ work'["retry"] = work["retry"]
    BY <1>1, <2>1 DEF TakeUp, Worker, Hand
  <2> QED
    BY <2>1, <2>2, <2>3, SameRecord DEF Worker
<1>4. ASSUME NEW p \in Payload, TakeRetry(p) PROVE CopiesAreOnRecord'
  <2>1. /\ p \in retries /\ retries' \subseteq retries
        /\ UNCHANGED <<log, due, queue, emitted>>
    BY <1>4 DEF TakeRetry, ghosts
  <2>2. /\ work'["retry"].payload = p /\ work'["retry"].phase = "taken"
        /\ work'["main"] = work["main"]
    BY <1>1, <1>4 DEF TakeRetry, TakeUp, Worker, Hand
  <2>3. OnRecord(p, emitted, due) /\ \A i \in DOMAIN queue : OnRecord(queue[i], emitted, due)
    BY <2>1 DEF CopiesAreOnRecord
  <2> QED
    BY <2>1, <2>2, <2>3, SameRecord DEF Worker
<1> QED
  BY <1>2, <1>3, <1>4 DEF QueueStep

LEMMA StartOnRecord ==
  ASSUME TypeOK, CopiesAreOnRecord, NEW w \in Worker, StartStep(w) PROVE CopiesAreOnRecord'
<1>1. PICK p : p = work[w].payload
  OBVIOUS
<1>2. p \in Payload /\ OnRecord(p, emitted, due)
  BY <1>1, StartPhases DEF CopiesAreOnRecord
<1>3. CASE Requeue(w)
  <2>1. /\ UNCHANGED <<queue, log, due, emitted>>
        /\ work'[w] = Idle /\ \A v \in Worker \ {w} : work'[v] = work[v]
    BY <1>3, StartPhases DEF Requeue, TypeOK
  <2>2. PICK q : q = [p EXCEPT !.retry = @ + 1]
    OBVIOUS
  <2>3. OnRecord(q, emitted, due)
    BY <1>2, <2>2 DEF OnRecord, Payload
  <2>4. \A r \in retries' : r \in retries \/ r = q
    BY <1>1, <1>3, <2>2 DEF Requeue
  <2>5. \A v \in Worker : work'[v] = work[v] \/ work'[v].phase = "idle"
    BY <2>1 DEF Idle
  <2>6. \A i \in DOMAIN queue' : OnRecord(queue'[i], emitted', due')
    BY <2>1 DEF CopiesAreOnRecord
  <2> QED
    BY <2>1, <2>3, <2>4, <2>5, <2>6, SameRecord
<1>4. ASSUME NEW ruled \in BOOLEAN, BeginDelivery(w, ruled) PROVE CopiesAreOnRecord'
  <2>1. /\ UNCHANGED <<queue, retries, log, emitted>>
        /\ \A v \in Worker \ {w} : work'[v] = work[v]
    BY <1>4, StartPhases DEF BeginDelivery, StartStep
  <2>2. CASE Targets(p) = {}
    <3>1. due' = due /\ work'[w].phase = "idle"
      BY <1>1, <1>4, <2>2 DEF BeginDelivery, TypeOK, Idle
    <3> QED
      BY <2>1, <3>1, SameRecord DEF CopiesAreOnRecord
  <2>3. CASE Targets(p) # {}
    <3>1. PICK over \in BOOLEAN : CheckEscalation(w, ruled, over)
      BY <1>1, <1>4, <2>3 DEF BeginDelivery
    <3>2. work'[w].payload = p /\ work'[w].todo = Targets(p) /\ work'[w].phase = "deliver"
      BY <1>1, <3>1 DEF CheckEscalation, TypeOK, Hand
    <3>3. due' = due \cup ({p.event} \X Targets(p))
      BY <1>1, <1>4, <2>3 DEF BeginDelivery
    <3>4. \A q : OnRecord(q, emitted, due) => OnRecord(q, emitted', due')
      BY <2>1, <3>3, StaysOnRecord
    <3>5. \A c \in Targets(p) : <<p.event, c>> \in due'
      BY <3>3
    <3>6. \A x \in due' : x[1] \in emitted'
      BY <1>2, <2>1, <3>3 DEF CopiesAreOnRecord, OnRecord
    <3>7. due \subseteq due'
      BY <3>3
    <3>8. \A v \in Worker : work'[v].phase \notin {"idle", "taken"} =>
             \A c \in work'[v].todo : <<work'[v].payload.event, c>> \in due'
      BY <2>1, <3>2, <3>5, <3>7 DEF CopiesAreOnRecord
    <3>9. \A v \in Worker : work'[v].phase = "taken" => OnRecord(work'[v].payload, emitted', due')
      BY <2>1, <3>2, <3>4 DEF CopiesAreOnRecord
    <3> QED
      BY <2>1, <3>4, <3>6, <3>7, <3>8, <3>9 DEF CopiesAreOnRecord
  <2> QED
    BY <2>2, <2>3
<1> QED
  BY <1>3, <1>4 DEF StartStep

LEMMA LoopOnRecord ==
  ASSUME TypeOK, CopiesAreOnRecord, NEW w \in Worker, LoopStep(w) PROVE CopiesAreOnRecord'
<1>1. PICK c, p : c = Turn(w) /\ p = work[w].payload
  OBVIOUS
<1>2. /\ WorkOK /\ work[w].phase \in {"deliver", "send", "sent"}
      /\ c \in Channel /\ c \in work[w].todo /\ p \in Payload
      /\ \A v \in Worker \ {w} : work'[v] = work[v]
  BY <1>1, LoopPhases, TurnIsLeft
<1>3. PICK x : x = <<p.event, c>>
  OBVIOUS
<1>4. x \in due /\ p.event \in emitted
  BY <1>1, <1>2, <1>3 DEF CopiesAreOnRecord
<1>5. queue' = queue /\ emitted' = emitted /\ due' = due
  BY DEF LoopStep, SkipUnloaded, Suppress, BeginSend, SendAccepted, RecordSent, SendRefused,
     SendUnanswered, SendUnauthorised, RetryLost, ghosts
<1>6. retries' = retries \/
        retries' = retries \cup {[event |-> p.event, retry |-> p.retry + 1, scope |-> c]}
  BY <1>1 DEF LoopStep, SkipUnloaded, Suppress, BeginSend, SendAccepted, RecordSent, SendRefused,
     SendUnanswered, SendUnauthorised, RetryLost, ScheduleOrFail
<1>7. log' = log \/ \E rows : log' = [log EXCEPT ![x] = rows]
  BY <1>1, <1>3 DEF LoopStep, SkipUnloaded, Suppress, BeginSend, SendAccepted, RecordSent,
     SendRefused, SendUnanswered, SendUnauthorised, RetryLost, ScheduleOrFail, LogOne, LogMore
<1>8. \/ work'[w].phase = "idle"
      \/ /\ work'[w].phase \in {"deliver", "send", "sent"}
         /\ work'[w].payload = p /\ work'[w].todo \subseteq work[w].todo
  <2>1. CASE RoundOver(w, Turn(w))
    BY <1>1, <1>2, <2>1, AfterRound DEF Idle
  <2>2. CASE BeginSend(w) \/ SendAccepted(w)
    BY <1>1, <1>2, <2>2 DEF BeginSend, SendAccepted, WorkOK, Hand
  <2> QED
    BY <2>1, <2>2, LoopPhases
<1>9. \A q \in retries' : OnRecord(q, emitted, due)
  <2>1. PICK q : q = [event |-> p.event, retry |-> p.retry + 1, scope |-> c]
    OBVIOUS
  <2>2. OnRecord(q, emitted, due)
    BY <1>3, <1>4, <2>1 DEF OnRecord
  <2> QED
    BY <1>6, <2>1, <2>2 DEF CopiesAreOnRecord
<1>10. \A y \in Pair : log'[y] # <<>> => y \in due
  BY <1>4, <1>7, RowsOnRecord
<1>11. \A v \in Worker : work'[v].phase \notin {"idle", "taken"} =>
          \A d \in work'[v].todo : <<work'[v].payload.event, d>> \in due
  BY <1>1, <1>2, <1>8 DEF CopiesAreOnRecord
<1>12. \A v \in Worker : work'[v].phase = "taken" => OnRecord(work'[v].payload, emitted, due)
  BY <1>2, <1>8 DEF CopiesAreOnRecord
<1> QED
  BY <1>5, <1>9, <1>10, <1>11, <1>12 DEF CopiesAreOnRecord

LEMMA NextOnRecord == TypeOK /\ CopiesAreOnRecord /\ [Next]_vars => CopiesAreOnRecord'
<1> SUFFICES ASSUME TypeOK, CopiesAreOnRecord, [Next]_vars PROVE CopiesAreOnRecord'
  OBVIOUS
<1>0. /\ work \in [Worker -> Hand] /\ queue \in Seq(Payload) /\ log \in [Pair -> Seq(Status)]
  BY DEF TypeOK
<1>1. ASSUME NEW w \in Worker, WorkerEnds(w) \/ Supervise(w) PROVE CopiesAreOnRecord'
  <2>1. \A v \in Worker : work'[v] = work[v] \/ work'[v].phase = "idle"
    BY <1>0, <1>1 DEF WorkerEnds, Supervise, Idle
  <2>2. UNCHANGED <<queue, retries, log, due, emitted>>
    BY <1>1 DEF WorkerEnds, Supervise, ghosts
  <2> QED
    BY <2>1, <2>2, SameRecord DEF CopiesAreOnRecord
<1>2. ASSUME NEW c \in Channel, ExpireSuppression(c) PROVE CopiesAreOnRecord'
  BY <1>2, SameRecord DEF CopiesAreOnRecord, ExpireSuppression
<1>3. CASE Restart
  BY <1>3, SameRecord DEF CopiesAreOnRecord, Restart, Idle
<1>4. ASSUME NEW o \in Operator, OperatorStep(o) PROVE CopiesAreOnRecord'
  BY <1>4, OperatorsTouchTheCache, SameRecord DEF CopiesAreOnRecord, ghosts
<1>5. ASSUME NEW x \in Pair, NEW i \in 1 .. Len(log[x]), RetryByHand(x, i) PROVE CopiesAreOnRecord'
  <2>1. log[x] # <<>>
    BY <1>0, <1>5
  <2>2. x \in due /\ x[1] \in emitted
    BY <2>1 DEF CopiesAreOnRecord
  <2>3. \A y \in Pair : log'[y] # <<>> => y \in due
    <3>1. log' = log \/ \E rows : log' = [log EXCEPT ![x] = rows]
      BY <1>5 DEF RetryByHand
    <3> QED
      BY <2>2, <3>1, RowsOnRecord
  <2>4. PICK p : p = [event |-> x[1], retry |-> 0, scope |-> x[2]]
    OBVIOUS
  <2>5. p \in Payload /\ OnRecord(p, emitted, due)
    BY <2>2, <2>4 DEF Payload, Pair, OnRecord
  <2>6. queue' = Append(queue, p)
    BY <1>5, <2>4 DEF RetryByHand
  <2>7. \A j \in DOMAIN queue' : queue'[j] = p \/ (j \in DOMAIN queue /\ queue'[j] = queue[j])
    <3>1. \A j \in DOMAIN Append(queue, p) :
             Append(queue, p)[j] = p \/ (j \in DOMAIN queue /\ Append(queue, p)[j] = queue[j])
      BY <1>0, <2>5, AppendedIs
    <3> QED
      BY <2>6, <3>1
  <2>8. UNCHANGED <<retries, work, due, emitted>>
    BY <1>5 DEF RetryByHand
  <2>9. \A j \in DOMAIN queue' : OnRecord(queue'[j], emitted, due)
    BY <2>5, <2>7 DEF CopiesAreOnRecord
  <2> QED
    BY <2>3, <2>8, <2>9 DEF CopiesAreOnRecord
<1>6. ASSUME NEW x \in Pair, NEW i \in 1 .. Len(log[x]), DeleteLog(x, i) PROVE CopiesAreOnRecord'
  <2>1. log[x] # <<>>
    BY <1>0, <1>6
  <2>2. \A y \in Pair : log'[y] # <<>> => y \in due
    <3>1. \E rows : log' = [log EXCEPT ![x] = rows]
      BY <1>6 DEF DeleteLog
    <3>2. x \in due
      BY <2>1 DEF CopiesAreOnRecord
    <3> QED
      BY <3>1, <3>2, RowsOnRecord
  <2>3. UNCHANGED <<queue, retries, work, due, emitted>>
    BY <1>6 DEF DeleteLog
  <2> QED
    BY <2>2, <2>3 DEF CopiesAreOnRecord
<1>7. CASE UNCHANGED vars
  BY <1>7, SameRecord DEF CopiesAreOnRecord, vars, ghosts
<1> QED
  BY <1>1, <1>2, <1>3, <1>4, <1>5, <1>6, <1>7, QueueOnRecord, StartOnRecord, LoopOnRecord, NextIs

-----------------------------------------------------------------------------
(* A payload for all channels is one nobody has delivered yet.                *)

Whole(p, e) == p.event = e /\ p.scope = "all"
WholeTaken(w, e) == work[w].phase = "taken" /\ Whole(work[w].payload, e)
Begun(e) == \E x \in due : x[1] = e

(* An event has at most one payload for all channels, in one place, and none  *)
(* once a delivery of the event has begun.                                    *)
WholesAreNew ==
    \A e \in Event :
        /\ \A i, j \in DOMAIN queue : Whole(queue[i], e) /\ Whole(queue[j], e) => i = j
        /\ \A p, q \in retries : Whole(p, e) /\ Whole(q, e) => p = q
        /\ \A w, v \in Worker : WholeTaken(w, e) /\ WholeTaken(v, e) => w = v
        /\ \A i \in DOMAIN queue : Whole(queue[i], e) =>
              /\ ~ Begun(e)
              /\ \A p \in retries : ~ Whole(p, e)
              /\ \A w \in Worker : ~ WholeTaken(w, e)
        /\ \A p \in retries : Whole(p, e) => ~ Begun(e) /\ \A w \in Worker : ~ WholeTaken(w, e)
        /\ \A w \in Worker : WholeTaken(w, e) => ~ Begun(e)

(* Steps that put no payload for all channels anywhere.                       *)
LEMMA WholesShrink ==
  ASSUME WholesAreNew,
         \A i \in DOMAIN queue' :
            queue'[i].scope = "all" => i \in DOMAIN queue /\ queue'[i] = queue[i],
         \A p \in retries' : p.scope = "all" => p \in retries,
         \A w \in Worker, e \in Event : WholeTaken(w, e)' => WholeTaken(w, e),
         due' = due
  PROVE  WholesAreNew'
BY DEF WholesAreNew, Whole, Begun

LEMMA NoLongerTaken ==
  ASSUME \A w \in Worker : work'[w] = work[w] \/ work'[w].phase # "taken"
  PROVE  \A w \in Worker, e \in Event : WholeTaken(w, e)' => WholeTaken(w, e)
BY DEF WholeTaken

LEMMA QueueWholes ==
  ASSUME TypeOK, CopiesAreOnRecord, WholesAreNew, QueueStep PROVE WholesAreNew'
<1>0. queue \in Seq(Payload) /\ work \in [Worker -> Hand] /\ emitted \subseteq Event
  BY DEF TypeOK
<1>1. CASE Emit
  <2>1. PICK e \in Event \ emitted :
           queue' = Append(queue, [event |-> e, retry |-> 0, scope |-> "all"])
    BY <1>0, <1>1 DEF Emit
  <2>2. PICK p : p = [event |-> e, retry |-> 0, scope |-> "all"]
    OBVIOUS
  <2>3. p \in Payload /\ p.event = e
    BY <2>1, <2>2 DEF Payload
  <2>4. PICK n : n = Len(queue) + 1
    OBVIOUS
  <2>5. /\ DOMAIN queue' = DOMAIN queue \cup {n} /\ n \notin DOMAIN queue /\ queue'[n] = p
        /\ \A i \in DOMAIN queue : queue'[i] = queue[i]
    BY <1>0, <2>1, <2>2, <2>3, <2>4, AppendedIs
  <2>6. /\ \A i \in DOMAIN queue : ~ Whole(queue[i], e)
        /\ \A q \in retries : ~ Whole(q, e)
        /\ \A w \in Worker : ~ WholeTaken(w, e)
        /\ ~ Begun(e)
    BY <2>1 DEF CopiesAreOnRecord, OnRecord, Whole, WholeTaken, Begun
  <2>7. retries' = retries /\ work' = work /\ due' = due
    BY <1>1 DEF Emit, ghosts
  <2>8. ASSUME NEW d \in Event \ {e} PROVE ~ Whole(p, d)
    BY <2>3 DEF Whole
  <2>9. /\ \A d \in Event, w \in Worker : WholeTaken(w, d)' <=> WholeTaken(w, d)
        /\ \A d \in Event : Begun(d)' <=> Begun(d)
    BY <2>7 DEF WholeTaken, Begun
  <2>10. ASSUME NEW d \in Event
         PROVE  \/ d # e /\ \A i \in DOMAIN queue' :
                      Whole(queue'[i], d) => i \in DOMAIN queue /\ Whole(queue[i], d)
                \/ d = e /\ \A i \in DOMAIN queue' : Whole(queue'[i], d) => i = n
    BY <2>5, <2>6, <2>8
  <2> QED
    BY <2>6, <2>7, <2>9, <2>10 DEF WholesAreNew
<1>2. CASE TakeQueued
  <2>1. /\ Free("main") /\ queue # <<>> /\ queue' = Tail(queue)
        /\ TakeUp("main", Head(queue)) /\ retries' = retries /\ due' = due
    BY <1>2 DEF TakeQueued, ghosts
  <2>2. PICK p : p = queue[1]
    OBVIOUS
  <2>3. 1 \in DOMAIN queue /\ Head(queue) = p
    BY <1>0, <2>1, <2>2
  <2>4. \A i \in DOMAIN queue' :
           /\ i + 1 \in DOMAIN queue /\ i + 1 # 1 /\ queue'[i] = queue[i + 1]
           /\ \A j \in DOMAIN queue' : i + 1 = j + 1 => i = j
    BY <1>0, <2>1
  <2>5. /\ work'["main"].payload = p /\ work'["main"].phase = "taken"
        /\ work'["retry"] = work["retry"] /\ work["main"].phase = "idle"
    BY <1>0, <2>1, <2>3 DEF TakeUp, Worker, Hand, Free
  <2>6. \A e \in Event : /\ WholeTaken("main", e)' <=> Whole(p, e)
                         /\ ~ WholeTaken("main", e)
                         /\ WholeTaken("retry", e)' <=> WholeTaken("retry", e)
                         /\ Begun(e)' <=> Begun(e)
    BY <2>1, <2>5 DEF WholeTaken, Begun
  <2> QED
    BY <2>1, <2>2, <2>3, <2>4, <2>6 DEF WholesAreNew, Worker
<1>3. ASSUME NEW p \in Payload, TakeRetry(p) PROVE WholesAreNew'
  <2>1. /\ Free("retry") /\ p \in retries /\ retries' = retries \ {p} /\ queue' = queue
        /\ TakeUp("retry", p) /\ due' = due
    BY <1>3 DEF TakeRetry, ghosts
  <2>2. /\ work'["retry"].payload = p /\ work'["retry"].phase = "taken"
        /\ work'["main"] = work["main"] /\ work["retry"].phase = "idle"
    BY <1>0, <2>1 DEF TakeUp, Worker, Hand, Free
  <2>3. \A e \in Event : /\ WholeTaken("retry", e)' <=> Whole(p, e)
                         /\ ~ WholeTaken("retry", e)
                         /\ WholeTaken("main", e)' <=> WholeTaken("main", e)
                         /\ Begun(e)' <=> Begun(e)
    BY <2>1, <2>2 DEF WholeTaken, Begun
  <2> QED
    BY <2>1, <2>3 DEF WholesAreNew, Worker
<1> QED
  BY <1>1, <1>2, <1>3 DEF QueueStep

LEMMA StartWholes ==
  ASSUME TypeOK, CopiesAreOnRecord, WholesAreNew, NEW w \in Worker, StartStep(w) PROVE WholesAreNew'
<1>1. PICK p : p = work[w].payload
  OBVIOUS
<1>2. /\ work[w].phase = "taken" /\ p \in Payload
      /\ \A v \in Worker \ {w} : work'[v] = work[v]
      /\ work'[w].phase # "taken"
  BY <1>1, StartPhases DEF Idle
<1>3. \A e \in Event : /\ ~ WholeTaken(w, e)'
                       /\ WholeTaken(w, e) <=> Whole(p, e)
                       /\ \A v \in Worker \ {w} : WholeTaken(v, e)' <=> WholeTaken(v, e)
  BY <1>1, <1>2 DEF WholeTaken
<1>4. CASE Requeue(w)
  <2>1. queue' = queue /\ due' = due
    BY <1>4 DEF Requeue
  <2>2. CASE p.retry < MaxRetries
    <3>1. PICK q : q = [p EXCEPT !.retry = @ + 1]
      OBVIOUS
    <3>2. retries' = retries \cup {q} /\ \A e \in Event : (Whole(q, e) <=> Whole(p, e))
      BY <1>1, <1>2, <1>4, <2>2, <3>1 DEF Requeue, Payload, Whole
    <3>3. \A e \in Event : Begun(e)' <=> Begun(e)
      BY <2>1 DEF Begun
    <3> QED
      BY <1>3, <2>1, <3>2, <3>3 DEF WholesAreNew
  <2>3. CASE ~ p.retry < MaxRetries
    <3>1. retries' = retries
      BY <1>1, <1>4, <2>3 DEF Requeue
    <3>2. \A v \in Worker, e \in Event : WholeTaken(v, e)' => WholeTaken(v, e)
      BY <1>3
    <3> QED
      BY <2>1, <3>1, <3>2, WholesShrink
  <2> QED
    BY <2>2, <2>3
<1>5. ASSUME NEW ruled, BeginDelivery(w, ruled) PROVE WholesAreNew'
  <2>1. queue' = queue /\ retries' = retries
    BY <1>5 DEF BeginDelivery
  <2>2. due' = due \/ due' = due \cup ({p.event} \X Targets(p))
    BY <1>1, <1>5 DEF BeginDelivery
  <2>3. \A e \in Event : Begun(e)' => Begun(e) \/ e = p.event
    BY <2>2 DEF Begun
  <2>4. \A v \in Worker, e \in Event : WholeTaken(v, e)' => WholeTaken(v, e)
    BY <1>3
  <2>5. CASE p.scope # "all"
    <3>1. <<p.event, p.scope>> \in due
      BY <1>1, <1>2, <2>5 DEF CopiesAreOnRecord, OnRecord
    <3>2. {p.event} \X Targets(p) \subseteq due
      BY <2>5, <3>1 DEF Targets
    <3>3. due' = due
      BY <2>2, <3>2
    <3> QED
      BY <2>1, <2>4, <3>3, WholesShrink
  <2>6. CASE p.scope = "all"
    <3>1. WholeTaken(w, p.event) /\ p.event \in Event
      BY <1>1, <1>2, <2>6 DEF WholeTaken, Whole, Payload
    <3>2. /\ \A i \in DOMAIN queue : ~ Whole(queue[i], p.event)
          /\ \A q \in retries : ~ Whole(q, p.event)
          /\ \A v \in Worker : ~ WholeTaken(v, p.event)'
      BY <1>3, <3>1 DEF WholesAreNew
    <3> QED
      BY <2>1, <2>3, <2>4, <3>2 DEF WholesAreNew
  <2> QED
    BY <2>5, <2>6
<1> QED
  BY <1>4, <1>5 DEF StartStep

LEMMA NextWholes ==
  TypeOK /\ CopiesAreOnRecord /\ WholesAreNew /\ [Next]_vars => WholesAreNew'
<1> SUFFICES ASSUME TypeOK, CopiesAreOnRecord, WholesAreNew, [Next]_vars PROVE WholesAreNew'
  OBVIOUS
<1>0. /\ work \in [Worker -> Hand] /\ queue \in Seq(Payload)
  BY DEF TypeOK
<1>1. ASSUME NEW w \in Worker, LoopStep(w) PROVE WholesAreNew'
  <2>1. PICK c : c = Turn(w)
    OBVIOUS
  <2>2. c \in Channel /\ c # "all"
    BY <1>1, <2>1, LoopPhases, TurnIsLeft
  <2>3. queue' = queue /\ due' = due
    BY <1>1 DEF LoopStep, SkipUnloaded, Suppress, BeginSend, SendAccepted, RecordSent,
       SendRefused, SendUnanswered, SendUnauthorised, RetryLost, ghosts
  <2>4. retries' = retries \/ \E e, n : retries' = retries \cup {[event |-> e, retry |-> n, scope |-> c]}
    BY <1>1, <2>1 DEF LoopStep, SkipUnloaded, Suppress, BeginSend, SendAccepted, RecordSent,
       SendRefused, SendUnanswered, SendUnauthorised, RetryLost, ScheduleOrFail
  <2>5. \A p \in retries' : p.scope = "all" => p \in retries
    BY <2>2, <2>4
  <2>6. work'[w].phase # "taken"
    <3>1. CASE RoundOver(w, Turn(w))
      BY <1>1, <3>1, LoopPhases, AfterRound DEF Idle
    <3>2. CASE BeginSend(w) \/ SendAccepted(w)
      BY <1>0, <1>1, <3>2 DEF BeginSend, SendAccepted, Hand
    <3> QED
      BY <1>1, <3>1, <3>2, LoopPhases
  <2>7. \A v \in Worker : work'[v] = work[v] \/ work'[v].phase # "taken"
    BY <1>1, <2>6, LoopPhases
  <2> QED
    BY <2>3, <2>5, <2>7, NoLongerTaken, WholesShrink
<1>2. ASSUME NEW w \in Worker, WorkerEnds(w) \/ Supervise(w) PROVE WholesAreNew'
  <2>1. \A v \in Worker : work'[v] = work[v] \/ work'[v].phase # "taken"
    BY <1>0, <1>2 DEF WorkerEnds, Supervise, Idle
  <2>2. UNCHANGED <<queue, retries, due>>
    BY <1>2 DEF WorkerEnds, Supervise, ghosts
  <2> QED
    BY <2>1, <2>2, NoLongerTaken, WholesShrink
<1>3. CASE UNCHANGED <<queue, retries, work, due>>
  BY <1>3, NoLongerTaken, WholesShrink
<1>4. ASSUME NEW c \in Channel, ExpireSuppression(c) PROVE WholesAreNew'
  BY <1>3, <1>4 DEF ExpireSuppression
<1>5. CASE Restart
  BY <1>5, NoLongerTaken, WholesShrink DEF Restart, Idle
<1>6. ASSUME NEW o \in Operator, OperatorStep(o) PROVE WholesAreNew'
  BY <1>3, <1>6, OperatorsTouchTheCache DEF ghosts
<1>7. ASSUME NEW x \in Pair, NEW i \in 1 .. Len(log[x]), RetryByHand(x, i) PROVE WholesAreNew'
  <2>1. PICK p : p = [event |-> x[1], retry |-> 0, scope |-> x[2]]
    OBVIOUS
  <2>2. p \in Payload /\ p.scope # "all"
    BY <2>1 DEF Payload, Pair
  <2>3. queue' = Append(queue, p) /\ UNCHANGED <<retries, work, due>>
    BY <1>7, <2>1 DEF RetryByHand
  <2>4. \A j \in DOMAIN queue' : queue'[j] = p \/ (j \in DOMAIN queue /\ queue'[j] = queue[j])
    <3>1. \A j \in DOMAIN Append(queue, p) :
             Append(queue, p)[j] = p \/ (j \in DOMAIN queue /\ Append(queue, p)[j] = queue[j])
      BY <1>0, <2>2, AppendedIs
    <3> QED
      BY <2>3, <3>1
  <2>5. \A j \in DOMAIN queue' : queue'[j].scope = "all" => j \in DOMAIN queue /\ queue'[j] = queue[j]
    BY <2>2, <2>4
  <2> QED
    BY <2>3, <2>5, NoLongerTaken, WholesShrink
<1>8. ASSUME NEW x \in Pair, NEW i \in 1 .. Len(log[x]), DeleteLog(x, i) PROVE WholesAreNew'
  BY <1>3, <1>8 DEF DeleteLog
<1>9. CASE UNCHANGED vars
  BY <1>3, <1>9 DEF vars, ghosts
<1> QED
  BY <1>1, <1>2, <1>4, <1>5, <1>6, <1>7, <1>8, <1>9, QueueWholes, StartWholes, NextIs

-----------------------------------------------------------------------------
(* The first row of a delivery is the one the retries write anew.             *)

(* Unless an operator deleted rows, all rows after the first are final.       *)
LaterRowsAreFinal ==
    \A x \in Pair \ excused : \A i \in 2 .. Len(log[x]) : log[x][i] \in {"sent", "suppressed"}

LEMMA RowsStay ==
  ASSUME LaterRowsAreFinal, log' = log, excused \subseteq excused' PROVE LaterRowsAreFinal'
BY DEF LaterRowsAreFinal

LEMMA OneRow ==
  ASSUME TypeOK, LaterRowsAreFinal, NEW x \in Pair, NEW status, LogOne(x, status),
         excused \subseteq excused'
  PROVE  LaterRowsAreFinal'
<1>1. log \in [Pair -> Seq(Status)] /\ Len(<<status>>) = 1
  BY DEF TypeOK
<1>2. /\ \A y \in Pair \ {x} : log'[y] = log[y]
      /\ log'[x] = log[x] \/ Len(log'[x]) = 1
  BY <1>1 DEF LogOne
<1> QED
  BY <1>2 DEF LaterRowsAreFinal

LEMMA MoreRows ==
  ASSUME TypeOK, LaterRowsAreFinal, NEW x \in Pair, NEW status \in {"sent", "suppressed"},
         LogMore(x, status), excused \subseteq excused'
  PROVE  LaterRowsAreFinal'
<1>1. log[x] \in Seq(Status) /\ status \in Status /\ log \in [Pair -> Seq(Status)]
  BY DEF TypeOK, Status
<1>2. PICK rows : rows = Append(log[x], status)
  OBVIOUS
<1>3. /\ Len(rows) = Len(log[x]) + 1
      /\ \A i \in DOMAIN rows : rows[i] = status \/ (i \in DOMAIN log[x] /\ rows[i] = log[x][i])
  BY <1>1, <1>2, AppendedIs
<1>4. log'[x] = rows /\ \A y \in Pair \ {x} : log'[y] = log[y]
  BY <1>1, <1>2 DEF LogMore
<1>5. \A i \in 2 .. Len(rows) : rows[i] = status \/ (i \in 2 .. Len(log[x]) /\ rows[i] = log[x][i])
  <2>1. DOMAIN rows = 1 .. Len(rows) /\ DOMAIN log[x] = 1 .. Len(log[x]) /\ Len(log[x]) \in Nat
    BY <1>1, <1>2
  <2> QED
    BY <1>3, <2>1
<1> QED
  BY <1>4, <1>5 DEF LaterRowsAreFinal

LEMMA ScheduledRows ==
  ASSUME TypeOK, LaterRowsAreFinal, NEW p, NEW c, <<p.event, c>> \in Pair, ScheduleOrFail(p, c),
         excused \subseteq excused'
  PROVE  LaterRowsAreFinal'
BY OneRow DEF ScheduleOrFail

LEMMA NextRows == TypeOK /\ LaterRowsAreFinal /\ [Next]_vars => LaterRowsAreFinal'
<1> SUFFICES ASSUME TypeOK, LaterRowsAreFinal, [Next]_vars PROVE LaterRowsAreFinal'
  OBVIOUS
<1>0. log \in [Pair -> Seq(Status)]
  BY DEF TypeOK
<1>1. CASE QueueStep
  BY <1>1, RowsStay DEF QueueStep, Emit, TakeQueued, TakeRetry, ghosts
<1>2. ASSUME NEW w \in Worker, StartStep(w) PROVE LaterRowsAreFinal'
  <2>1. log' = log
    BY <1>2 DEF StartStep, BeginDelivery, Requeue
  <2>2. excused \subseteq excused'
    BY <1>2 DEF StartStep, BeginDelivery, Requeue
  <2> QED
    BY <2>1, <2>2, RowsStay
<1>3. ASSUME NEW w \in Worker, LoopStep(w) PROVE LaterRowsAreFinal'
  <2>1. PICK c, p, x : c = Turn(w) /\ p = work[w].payload /\ x = <<p.event, c>>
    OBVIOUS
  <2>2. x \in Pair
    BY <1>3, <2>1, LoopPhases, TurnIsLeft DEF Payload, Pair
  <2>3. excused \subseteq excused'
    BY <1>3 DEF LoopStep, SkipUnloaded, Suppress, BeginSend, SendAccepted, RecordSent,
       SendRefused, SendUnanswered, SendUnauthorised, RetryLost, ghosts
  <2>4. CASE SkipUnloaded(w) \/ BeginSend(w) \/ SendAccepted(w) \/ RetryLost(w)
    BY <2>3, <2>4, RowsStay DEF SkipUnloaded, BeginSend, SendAccepted, RetryLost
  <2>5. CASE Suppress(w)
    BY <2>1, <2>2, <2>3, <2>5, MoreRows DEF Suppress
  <2>6. CASE RecordSent(w)
    BY <2>1, <2>2, <2>3, <2>6, MoreRows DEF RecordSent
  <2>7. CASE SendRefused(w)
    BY <2>1, <2>2, <2>3, <2>7, ScheduledRows DEF SendRefused
  <2>8. CASE SendUnanswered(w)
    BY <2>1, <2>2, <2>3, <2>8, ScheduledRows DEF SendUnanswered
  <2>9. CASE SendUnauthorised(w)
    BY <2>1, <2>2, <2>3, <2>9, OneRow DEF SendUnauthorised
  <2> QED
    BY <1>3, <2>4, <2>5, <2>6, <2>7, <2>8, <2>9 DEF LoopStep
<1>4. ASSUME NEW w \in Worker, WorkerEnds(w) \/ Supervise(w) PROVE LaterRowsAreFinal'
  BY <1>4, RowsStay DEF WorkerEnds, Supervise, ghosts
<1>5. ASSUME NEW c \in Channel, ExpireSuppression(c) PROVE LaterRowsAreFinal'
  BY <1>5, RowsStay DEF ExpireSuppression
<1>6. CASE Restart
  BY <1>6, RowsStay DEF Restart
<1>7. ASSUME NEW o \in Operator, OperatorStep(o) PROVE LaterRowsAreFinal'
  BY <1>7, OperatorsTouchTheCache, RowsStay DEF ghosts
<1>8. ASSUME NEW x \in Pair, NEW i \in 1 .. Len(log[x]), RetryByHand(x, i) PROVE LaterRowsAreFinal'
  <2>1. excused' = excused /\ i \in DOMAIN log[x] /\ log[x][i] \in Open
    BY <1>8 DEF RetryByHand
  <2>2. CASE log' = log
    BY <2>1, <2>2, RowsStay
  <2>3. CASE log' = [log EXCEPT ![x][i] = "pending"]
    <3>1. PICK rows : rows = [log[x] EXCEPT ![i] = "pending"]
      OBVIOUS
    <3>2. log'[x] = rows /\ \A y \in Pair \ {x} : log'[y] = log[y]
      BY <1>0, <2>3, <3>1
    <3>3. Len(rows) = Len(log[x]) /\ \A j \in DOMAIN log[x] : j # i => rows[j] = log[x][j]
      <4>1. log[x] \in Seq(Status) /\ "pending" \in Status
        BY <1>0 DEF Status
      <4> QED
        BY <2>1, <3>1, <4>1
    <3>4. \A j \in 2 .. Len(log[x]) : j \in DOMAIN log[x]
      BY <1>0
    <3>5. x \notin excused => \A j \in 2 .. Len(log[x]) : j # i
      BY <2>1 DEF LaterRowsAreFinal, Open
    <3> QED
      BY <2>1, <3>2, <3>3, <3>4, <3>5 DEF LaterRowsAreFinal
  <2> QED
    BY <1>8, <2>2, <2>3 DEF RetryByHand
<1>9. ASSUME NEW x \in Pair, NEW i \in 1 .. Len(log[x]), DeleteLog(x, i) PROVE LaterRowsAreFinal'
  <2>1. excused' = excused \cup {x} /\ \A y \in Pair \ {x} : log'[y] = log[y]
    BY <1>0, <1>9 DEF DeleteLog
  <2> QED
    BY <2>1 DEF LaterRowsAreFinal
<1>10. CASE UNCHANGED vars
  BY <1>10, RowsStay DEF vars, ghosts
<1> QED
  BY <1>1, <1>2, <1>3, <1>4, <1>5, <1>6, <1>7, <1>8, <1>9, <1>10, NextIs

-----------------------------------------------------------------------------
(* Nothing vanishes.                                                          *)

Queued(x) == \E i \in DOMAIN queue : Carries(queue[i], x)
Waiting(x) == \E p \in retries : Carries(p, x)
AtWorker(w, x) ==
    \/ work[w].phase = "taken" /\ Carries(work[w].payload, x)
    \/ /\ work[w].phase \notin {"idle", "taken"}
       /\ work[w].payload.event = x[1] /\ x[2] \in work[w].todo
Accepted(x) == tally[x].accepted > 0
ClosedRow(x) == \E i \in DOMAIN log[x] : log[x][i] \in Closed
Safe(x) == Accepted(x) \/ ClosedRow(x) \/ Queued(x) \/ Waiting(x) \/ \E w \in Worker : AtWorker(w, x)

LEMMA InHandIs ==
  ASSUME NEW w, NEW x \in due, due \subseteq Pair
  PROVE  x \in InHand(w) <=> AtWorker(w, x)
<1>1. CASE work[w].phase = "idle"
  BY <1>1 DEF InHand, AtWorker
<1>2. CASE work[w].phase = "taken"
  BY <1>2 DEF InHand, AtWorker, Cargo
<1>3. CASE work[w].phase \notin {"idle", "taken"}
  <2>1. InHand(w) = {work[w].payload.event} \X work[w].todo
    BY <1>3 DEF InHand
  <2>2. x = <<x[1], x[2]>>
    BY DEF Pair
  <2> QED
    BY <1>3, <2>1, <2>2 DEF AtWorker
<1> QED
  BY <1>1, <1>2, <1>3

LEMMA SafeIs == ASSUME due \subseteq Pair PROVE NothingVanishes <=> \A x \in due \ excused : Safe(x)
<1>1. ASSUME NEW x \in due
      PROVE  OnItsWay(x) <=> Queued(x) \/ Waiting(x) \/ \E w \in Worker : AtWorker(w, x)
  <2>1. \A w \in Worker : x \in InHand(w) <=> AtWorker(w, x)
    BY <1>1, InHandIs
  <2>2. \A w \in Worker : work[w].phase = "taken" => (AtWorker(w, x) <=> Carries(work[w].payload, x))
    BY DEF AtWorker
  <2> QED
    BY <2>1, <2>2 DEF OnItsWay, Queued, Waiting
<1> QED
  BY <1>1 DEF NothingVanishes, Safe, Accepted, ClosedRow

(* Where steps leave the pieces alone.                                        *)
LEMMA StaysAtWorker ==
  ASSUME NEW v, NEW x, work'[v] = work[v], AtWorker(v, x) PROVE AtWorker(v, x)'
BY DEF AtWorker, Carries

LEMMA SafeStays ==
  ASSUME UNCHANGED <<queue, log, tally>>, retries \subseteq retries', NEW x, Safe(x),
         \A w \in Worker : AtWorker(w, x) => AtWorker(w, x)'
  PROVE  Safe(x)'
BY DEF Safe, Accepted, ClosedRow, Queued, Waiting

LEMMA QueueSafe ==
  ASSUME TypeOK, QueueStep, NEW x \in due, Safe(x) PROVE Safe(x)'
<1>0. queue \in Seq(Payload) /\ work \in [Worker -> Hand] /\ emitted \subseteq Event
  BY DEF TypeOK
<1>1. CASE Emit
  <2>1. PICK e \in Event : queue' = Append(queue, [event |-> e, retry |-> 0, scope |-> "all"])
    BY <1>0, <1>1 DEF Emit
  <2>2. [event |-> e, retry |-> 0, scope |-> "all"] \in Payload
    BY DEF Payload
  <2>3. \A i \in DOMAIN queue : i \in DOMAIN queue' /\ queue'[i] = queue[i]
    BY <1>0, <2>1, <2>2, AppendedIs
  <2>4. Queued(x) => Queued(x)'
    BY <2>3 DEF Queued, Carries
  <2>5. UNCHANGED <<log, tally, retries, work>>
    BY <1>1 DEF Emit, ghosts
  <2> QED
    BY <2>4, <2>5, StaysAtWorker DEF Safe, Accepted, ClosedRow, Waiting
<1>2. CASE TakeQueued
  <2>1. /\ Free("main") /\ queue # <<>> /\ queue' = Tail(queue) /\ TakeUp("main", Head(queue))
        /\ UNCHANGED <<log, tally, retries>>
    BY <1>2 DEF TakeQueued, ghosts
  <2>2. /\ work'["main"].payload = Head(queue) /\ work'["main"].phase = "taken"
        /\ work'["retry"] = work["retry"] /\ work["main"].phase = "idle"
    BY <1>0, <2>1 DEF TakeUp, Worker, Hand, Free
  <2>3. Queued(x) => Queued(x)' \/ AtWorker("main", x)'
    <3>1. ASSUME NEW i \in DOMAIN queue, Carries(queue[i], x), i # 1 PROVE Queued(x)'
      <4>1. i - 1 \in DOMAIN queue' /\ queue'[i - 1] = queue[i]
        BY <1>0, <2>1, <3>1
      <4> QED
        BY <3>1, <4>1 DEF Queued, Carries
    <3>2. ASSUME Carries(queue[1], x) PROVE AtWorker("main", x)'
      <4>1. Head(queue) = queue[1]
        BY <1>0, <2>1
      <4> QED
        BY <2>2, <3>2, <4>1 DEF AtWorker, Carries
    <3> QED
      BY <3>1, <3>2 DEF Queued
  <2>4. ~ AtWorker("main", x) /\ (AtWorker("retry", x) => AtWorker("retry", x)')
    BY <2>2, StaysAtWorker DEF AtWorker
  <2> QED
    BY <2>1, <2>3, <2>4 DEF Safe, Accepted, ClosedRow, Waiting, Worker
<1>3. ASSUME NEW p \in Payload, TakeRetry(p) PROVE Safe(x)'
  <2>1. /\ Free("retry") /\ p \in retries /\ retries' = retries \ {p} /\ TakeUp("retry", p)
        /\ UNCHANGED <<log, tally, queue>>
    BY <1>3 DEF TakeRetry, ghosts
  <2>2. /\ work'["retry"].payload = p /\ work'["retry"].phase = "taken"
        /\ work'["main"] = work["main"] /\ work["retry"].phase = "idle"
    BY <1>0, <2>1 DEF TakeUp, Worker, Hand, Free
  <2>3. Waiting(x) => Waiting(x)' \/ AtWorker("retry", x)'
    BY <2>1, <2>2 DEF Waiting, AtWorker, Carries
  <2>4. ~ AtWorker("retry", x) /\ (AtWorker("main", x) => AtWorker("main", x)')
    BY <2>2, StaysAtWorker DEF AtWorker
  <2> QED
    BY <2>1, <2>3, <2>4 DEF Safe, Accepted, ClosedRow, Queued, Worker
<1> QED
  BY <1>1, <1>2, <1>3 DEF QueueStep

(* A delivery that starts, or that cannot.                                    *)
LEMMA StartSafe ==
  ASSUME TypeOK, CopiesAreOnRecord, WholesAreNew, NEW w \in Worker, StartStep(w)
  PROVE  /\ \A x \in due : Safe(x) => Safe(x)' \/ x \in excused'
         /\ \A x \in due' \ due : Safe(x)'
         /\ excused \subseteq excused'
<1>1. PICK p : p = work[w].payload
  OBVIOUS
<1>2. /\ work[w].phase = "taken" /\ p \in Payload /\ due \subseteq Pair
      /\ \A v \in Worker \ {w} : work'[v] = work[v]
      /\ UNCHANGED <<queue, log, tally>> /\ retries \subseteq retries'
  BY <1>1, StartPhases DEF StartStep, BeginDelivery, Requeue, TypeOK
<1>3. \A x : AtWorker(w, x) <=> Carries(p, x)
  BY <1>1, <1>2 DEF AtWorker
<1>4. ASSUME NEW x, Safe(x), AtWorker(w, x) => AtWorker(w, x)' \/ Waiting(x)' PROVE Safe(x)'
  <2>1. CASE Waiting(x)'
    BY <2>1 DEF Safe
  <2>2. CASE AtWorker(w, x) => AtWorker(w, x)'
    BY <1>2, <1>4, <2>2, SafeStays, StaysAtWorker
  <2> QED
    BY <1>4, <2>1, <2>2
<1>5. CASE Requeue(w)
  <2>1. due' = due
    BY <1>5 DEF Requeue
  <2>2. CASE p.retry < MaxRetries
    <3>1. PICK q : q = [p EXCEPT !.retry = @ + 1]
      OBVIOUS
    <3>2. retries' = retries \cup {q} /\ excused' = excused
      BY <1>1, <1>5, <2>2, <3>1 DEF Requeue
    <3>3. \A x : Carries(p, x) => Carries(q, x)
      BY <1>2, <3>1 DEF Carries, Payload
    <3>4. \A x : AtWorker(w, x) => Waiting(x)'
      BY <1>3, <3>2, <3>3 DEF Waiting, Carries
    <3> QED
      BY <1>4, <2>1, <3>2, <3>4
  <2>3. CASE ~ p.retry < MaxRetries
    <3>1. excused' = excused \cup Cargo(p)
      BY <1>1, <1>5, <2>3 DEF Requeue
    <3> QED
      BY <1>3, <1>4, <2>1, <3>1 DEF Cargo
  <2> QED
    BY <2>2, <2>3
<1>6. ASSUME NEW ruled \in BOOLEAN, BeginDelivery(w, ruled)
      PROVE  /\ \A x \in due : Safe(x) => Safe(x)' \/ x \in excused'
             /\ \A x \in due' \ due : Safe(x)'
             /\ excused \subseteq excused'
  <2>1. CASE Targets(p) = {}
    <3>1. excused' = excused \cup Cargo(p) /\ due' = due
      BY <1>1, <1>6, <2>1 DEF BeginDelivery
    <3> QED
      BY <1>3, <1>4, <3>1 DEF Cargo
  <2>2. CASE Targets(p) # {}
    <3>1. excused' = excused /\ due' = due \cup ({p.event} \X Targets(p))
      BY <1>1, <1>6, <2>2 DEF BeginDelivery
    <3>2. PICK over \in BOOLEAN : CheckEscalation(w, ruled, over)
      BY <1>1, <1>6, <2>2 DEF BeginDelivery
    <3>3. work'[w].payload = p /\ work'[w].todo = Targets(p) /\ work'[w].phase = "deliver"
      BY <1>1, <3>2 DEF CheckEscalation, TypeOK, Hand
    <3>4. \A x : AtWorker(w, x)' <=> p.event = x[1] /\ x[2] \in Targets(p)
      BY <3>3 DEF AtWorker
    <3>5. ASSUME NEW x \in due, AtWorker(w, x) PROVE AtWorker(w, x)'
      <4>1. Carries(p, x)
        BY <1>3, <3>5
      <4>2. p.scope # "all"
        <5>1. ASSUME p.scope = "all" PROVE FALSE
          <6>1. WholeTaken(w, p.event) /\ p.event \in Event
            BY <1>1, <1>2, <5>1 DEF WholeTaken, Whole, Payload
          <6>2. Begun(p.event)
            BY <4>1 DEF Begun, Carries
          <6> QED
            BY <6>1, <6>2 DEF WholesAreNew
        <5> QED
          BY <5>1
      <4>3. x[2] = p.scope /\ x[1] = p.event
        BY <1>2, <3>5, <4>1, <4>2 DEF Carries
      <4>4. Targets(p) = {p.scope}
        BY <2>2, <4>2 DEF Targets
      <4> QED
        BY <3>4, <4>3, <4>4
    <3>6. ASSUME NEW x \in due' \ due PROVE Safe(x)'
      <4>1. AtWorker(w, x)'
        BY <3>1, <3>4, <3>6
      <4> QED
        BY <4>1 DEF Safe
    <3> QED
      BY <1>4, <3>1, <3>5, <3>6
  <2> QED
    BY <2>1, <2>2
<1> QED
  BY <1>5, <1>6 DEF StartStep

(* What writing a row does to the others.                                     *)
LEMMA OneRowClosed ==
  ASSUME TypeOK, LaterRowsAreFinal, NEW y \in Pair, NEW status \in {"failed", "retrying"},
         LogOne(y, status)
  PROVE  /\ \A x \in Pair : ClosedRow(x) => ClosedRow(x)' \/ (x = y /\ status = "retrying")
         /\ status = "failed" => ClosedRow(y)' \/ y \in excused
<1>1. log \in [Pair -> Seq(Status)]
  BY DEF TypeOK
<1>2. \A x \in Pair \ {y} : log'[x] = log[x]
  BY <1>1 DEF LogOne
<1>3. \/ log'[y] = log[y] /\ Len(log[y]) > 1
      \/ log'[y] = <<status>>
  BY <1>1 DEF LogOne
<1>4. status = "failed" /\ log'[y] = <<status>> => ClosedRow(y)'
  BY DEF ClosedRow, Closed
<1>5. ASSUME log'[y] = log[y], Len(log[y]) > 1, y \notin excused PROVE ClosedRow(y)'
  <2>1. 2 \in DOMAIN log[y] /\ 2 \in 2 .. Len(log[y])
    BY <1>1, <1>5
  <2>2. log[y][2] \in Closed
    BY <1>5, <2>1 DEF LaterRowsAreFinal, Closed
  <2> QED
    BY <1>5, <2>1, <2>2 DEF ClosedRow
<1> QED
  BY <1>2, <1>3, <1>4, <1>5 DEF ClosedRow

LEMMA MoreRowsClosed ==
  ASSUME TypeOK, NEW y \in Pair, NEW status \in {"sent", "suppressed"}, LogMore(y, status)
  PROVE  (\A x \in Pair : ClosedRow(x) => ClosedRow(x)') /\ ClosedRow(y)'
<1>1. log \in [Pair -> Seq(Status)] /\ status \in Status /\ status \in Closed
  BY DEF TypeOK, Status, Closed
<1>2. /\ \A x \in Pair \ {y} : log'[x] = log[x]
      /\ log'[y] = Append(log[y], status)
  BY <1>1 DEF LogMore
<1>3. /\ \A i \in DOMAIN log[y] : i \in DOMAIN log'[y] /\ log'[y][i] = log[y][i]
      /\ Len(log[y]) + 1 \in DOMAIN log'[y] /\ log'[y][Len(log[y]) + 1] = status
  BY <1>1, <1>2, AppendedIs
<1> QED
  BY <1>1, <1>2, <1>3 DEF ClosedRow

LEMMA TalliesGrow ==
  ASSUME TypeOK, NEW y \in Pair, NEW x \in Pair, Accepted(x),
         \/ tally' = tally
         \/ tally' = [tally EXCEPT ![y].attempts = @ + 1]
         \/ tally' = [tally EXCEPT ![y].rounds = @ + 1]
         \/ tally' = [tally EXCEPT ![y].attempts = @ + 1, ![y].accepted = @ + 1]
         \/ tally' = [tally EXCEPT ![y].attempts = @ + 1, ![y].accepted = @ + 1, ![y].again = @ + 1]
  PROVE  Accepted(x)'
<1>1. tally \in [Pair -> Tally] /\ tally[y] \in Tally
  BY DEF TypeOK
<1>2. PICK t : t = tally[y]
  OBVIOUS
<1>3. t \in Tally
  BY <1>1, <1>2
<1>4. /\ [t EXCEPT !.attempts = @ + 1].accepted = t.accepted
      /\ [t EXCEPT !.rounds = @ + 1].accepted = t.accepted
      /\ [t EXCEPT !.attempts = @ + 1, !.accepted = @ + 1].accepted = t.accepted + 1
      /\ [t EXCEPT !.attempts = @ + 1, !.accepted = @ + 1, !.again = @ + 1].accepted
            = t.accepted + 1
      /\ t.accepted \in Nat
  BY <1>3 DEF Tally
<1>5. \/ tally' = tally
      \/ tally' = [tally EXCEPT ![y] = [t EXCEPT !.attempts = @ + 1]]
      \/ tally' = [tally EXCEPT ![y] = [t EXCEPT !.rounds = @ + 1]]
      \/ tally' = [tally EXCEPT ![y] = [t EXCEPT !.attempts = @ + 1, !.accepted = @ + 1]]
      \/ tally' = [tally EXCEPT ![y] =
                     [t EXCEPT !.attempts = @ + 1, !.accepted = @ + 1, !.again = @ + 1]]
  BY <1>1, <1>2, <1>3 DEF Tally
<1>6. \A z \in Pair \ {y} : tally'[z] = tally[z]
  BY <1>1, <1>5
<1>7. tally'[y].accepted \in {t.accepted, t.accepted + 1}
  BY <1>1, <1>2, <1>4, <1>5
<1> QED
  BY <1>2, <1>4, <1>6, <1>7 DEF Accepted

(* Scheduling a retry or writing the last failure keeps track of the pair.    *)
LEMMA ScheduledIsSafe ==
  ASSUME TypeOK, LaterRowsAreFinal, NEW p, NEW c, <<p.event, c>> \in Pair, ScheduleOrFail(p, c),
         <<p.event, c>> \notin excused
  PROVE  /\ retries \subseteq retries'
         /\ ClosedRow(<<p.event, c>>)' \/ Waiting(<<p.event, c>>)'
         /\ \A x \in Pair : ClosedRow(x) => ClosedRow(x)' \/ Waiting(x)'
<1>1. PICK y : y = <<p.event, c>>
  OBVIOUS
<1>2. CASE p.retry < MaxRetries
  <2>1. PICK q : q = [event |-> p.event, retry |-> p.retry + 1, scope |-> c]
    OBVIOUS
  <2>2. retries' = retries \cup {q} /\ LogOne(y, "retrying")
    BY <1>1, <1>2, <2>1 DEF ScheduleOrFail
  <2>3. Carries(q, y)
    BY <1>1, <2>1 DEF Carries
  <2>4. Waiting(y)'
    BY <2>2, <2>3 DEF Waiting, Carries
  <2> QED
    BY <1>1, <2>2, <2>4, OneRowClosed
<1>3. CASE ~ p.retry < MaxRetries
  <2>1. LogOne(y, "failed") /\ retries' = retries
    BY <1>1, <1>3 DEF ScheduleOrFail
  <2> QED
    BY <1>1, <2>1, OneRowClosed
<1> QED
  BY <1>2, <1>3

LEMMA LoopSafe ==
  ASSUME TypeOK, LaterRowsAreFinal, CopiesAreOnRecord, NEW w \in Worker, LoopStep(w)
  PROVE  /\ \A x \in due \ excused : Safe(x) => Safe(x)' \/ x \in excused'
         /\ due' = due /\ excused \subseteq excused'
<1>1. PICK c, p, y : c = Turn(w) /\ p = work[w].payload /\ y = <<p.event, c>>
  OBVIOUS
<1>2. /\ WorkOK /\ work[w].phase \in {"deliver", "send", "sent"}
      /\ p \in Payload /\ c \in Channel /\ y \in Pair /\ due \subseteq Pair
      /\ \A v \in Worker \ {w} : work'[v] = work[v]
  BY <1>1, LoopPhases, TurnIsLeft DEF TypeOK, Pair, Payload
<1>3. queue' = queue /\ due' = due /\ excused \subseteq excused'
  BY DEF LoopStep, SkipUnloaded, Suppress, BeginSend, SendAccepted, RecordSent, SendRefused,
     SendUnanswered, SendUnauthorised, RetryLost, ghosts
<1>4. SUFFICES ASSUME NEW x \in due \ excused, Safe(x) PROVE Safe(x)' \/ x \in excused'
  BY <1>3
<1>5. Accepted(x) => Accepted(x)'
  <2>1. \/ tally' = tally
        \/ tally' = [tally EXCEPT ![y].attempts = @ + 1]
        \/ tally' = [tally EXCEPT ![y].rounds = @ + 1]
        \/ tally' = [tally EXCEPT ![y].attempts = @ + 1, ![y].accepted = @ + 1]
        \/ tally' = [tally EXCEPT ![y].attempts = @ + 1, ![y].accepted = @ + 1, ![y].again = @ + 1]
    BY <1>1 DEF LoopStep, SkipUnloaded, Suppress, BeginSend, SendAccepted, RecordSent,
       SendRefused, SendUnanswered, SendUnauthorised, RetryLost, ghosts
  <2> QED
    BY <1>2, <2>1, TalliesGrow
<1>6. retries' = retries \/ ScheduleOrFail(p, c)
  BY <1>1 DEF LoopStep, SkipUnloaded, Suppress, BeginSend, SendAccepted, RecordSent, SendRefused,
     SendUnanswered, SendUnauthorised, RetryLost
<1>7. Waiting(x) => Waiting(x)'
  <2>1. retries \subseteq retries'
    BY <1>6 DEF ScheduleOrFail
  <2> QED
    BY <2>1 DEF Waiting, Carries
<1>8. Queued(x) => Queued(x)'
  BY <1>3 DEF Queued, Carries
<1>9. \A v \in Worker : AtWorker(v, x) => AtWorker(v, x)' \/ (v = w /\ x = y)
  <2>1. ASSUME AtWorker(w, x), x # y PROVE AtWorker(w, x)'
    <3>1. x[1] = p.event /\ x[2] \in work[w].todo /\ x[2] # c
      BY <1>1, <1>2, <2>1 DEF AtWorker, Pair
    <3>2. CASE RoundOver(w, Turn(w))
      <4>1. /\ work'[w].phase = "deliver" /\ work'[w].todo = work[w].todo \ {c}
            /\ work'[w].payload = p
        BY <1>1, <1>2, <3>1, <3>2, AfterRound
      <4> QED
        BY <3>1, <4>1 DEF AtWorker
    <3>3. CASE BeginSend(w) \/ SendAccepted(w)
      BY <1>1, <1>2, <3>1, <3>3 DEF BeginSend, SendAccepted, AtWorker, WorkOK, Hand
    <3> QED
      BY <3>2, <3>3, LoopPhases
  <2> QED
    BY <1>2, <2>1, StaysAtWorker
<1>10. /\ ClosedRow(x) => Safe(x)'
       /\ x = y => Safe(x)' \/ x \in excused'
  <2>1. CASE SkipUnloaded(w) \/ RetryLost(w)
    BY <1>1, <2>1 DEF SkipUnloaded, RetryLost, Safe, ClosedRow
  <2>2. CASE Suppress(w)
    BY <1>1, <1>2, <2>2, MoreRowsClosed DEF Suppress, Safe
  <2>3. CASE BeginSend(w) \/ SendAccepted(w)
    <3>1. log' = log
      BY <2>3 DEF BeginSend, SendAccepted
    <3>2. x = y => AtWorker(w, x)'
      <4>1. c \in work[w].todo
        BY <1>1, <1>2, TurnIsLeft
      <4> QED
        BY <1>1, <1>2, <2>3, <4>1 DEF BeginSend, SendAccepted, AtWorker, WorkOK, Hand
    <3> QED
      BY <3>1, <3>2 DEF Safe, ClosedRow
  <2>4. CASE RecordSent(w)
    BY <1>1, <1>2, <2>4, MoreRowsClosed DEF RecordSent, Safe
  <2>5. CASE SendRefused(w) \/ SendUnanswered(w)
    <3>1. ScheduleOrFail(p, c)
      BY <1>1, <2>5 DEF SendRefused, SendUnanswered
    <3>2. CASE y \notin excused
      BY <1>1, <1>2, <3>1, <3>2, ScheduledIsSafe DEF Safe
    <3>3. CASE y \in excused
      <4>1. x # y /\ log'[x] = log[x]
        BY <1>1, <1>2, <3>1, <3>3 DEF ScheduleOrFail, LogOne, TypeOK
      <4> QED
        BY <4>1 DEF Safe, ClosedRow
    <3> QED
      BY <3>2, <3>3
  <2>6. CASE SendUnauthorised(w)
    <3>1. LogOne(y, "failed")
      BY <1>1, <2>6 DEF SendUnauthorised
    <3> QED
      BY <1>2, <3>1, OneRowClosed DEF Safe
  <2> QED
    BY <2>1, <2>2, <2>3, <2>4, <2>5, <2>6 DEF LoopStep
<1> QED
  BY <1>4, <1>5, <1>7, <1>8, <1>9, <1>10 DEF Safe

LEMMA NextSafe ==
  ASSUME TypeOK, LaterRowsAreFinal, CopiesAreOnRecord, WholesAreNew, [Next]_vars
  PROVE  /\ \A x \in due \ excused : Safe(x) => Safe(x)' \/ x \in excused'
         /\ \A x \in due' \ due : Safe(x)'
         /\ excused \subseteq excused'
<1>0. /\ due \subseteq Pair /\ work \in [Worker -> Hand] /\ queue \in Seq(Payload)
      /\ log \in [Pair -> Seq(Status)]
  BY DEF TypeOK
<1>1. ASSUME NEW S, excused' = excused \cup S, UNCHANGED <<queue, retries, log, tally, due>>,
             \A w \in Worker, x \in due : AtWorker(w, x) => AtWorker(w, x)' \/ x \in S
      PROVE  /\ \A x \in due \ excused : Safe(x) => Safe(x)' \/ x \in excused'
             /\ \A x \in due' \ due : Safe(x)'
             /\ excused \subseteq excused'
  BY <1>1, SafeStays
<1>2. CASE QueueStep
  <2>1. due' = due /\ excused' = excused
    BY <1>2 DEF QueueStep, Emit, TakeQueued, TakeRetry, ghosts
  <2> QED
    BY <1>2, <2>1, QueueSafe
<1>3. ASSUME NEW w \in Worker, WorkerEnds(w)
      PROVE  /\ \A x \in due \ excused : Safe(x) => Safe(x)' \/ x \in excused'
             /\ \A x \in due' \ due : Safe(x)'
             /\ excused \subseteq excused'
  <2>1. \A v \in Worker, x \in due : AtWorker(v, x) => AtWorker(v, x)' \/ x \in InHand(w)
    <3>1. \A v \in Worker \ {w} : work'[v] = work[v]
      BY <1>0, <1>3 DEF WorkerEnds
    <3> QED
      BY <1>0, <3>1, InHandIs, StaysAtWorker
  <2> QED
    BY <1>1, <1>3, <2>1 DEF WorkerEnds
<1>4. ASSUME NEW w \in Worker, Supervise(w)
      PROVE  /\ \A x \in due \ excused : Safe(x) => Safe(x)' \/ x \in excused'
             /\ \A x \in due' \ due : Safe(x)'
             /\ excused \subseteq excused'
  <2>1. \A v \in Worker, x \in due : AtWorker(v, x) => AtWorker(v, x)' \/ x \in {}
    <3>1. work[w].phase = "idle" /\ \A v \in Worker \ {w} : work'[v] = work[v]
      BY <1>0, <1>4 DEF Supervise, TypeOK
    <3>2. \A x : ~ AtWorker(w, x)
      BY <3>1 DEF AtWorker
    <3> QED
      BY <3>1, <3>2, StaysAtWorker
  <2>2. excused' = excused \cup {}
    BY <1>4 DEF Supervise, ghosts
  <2> QED
    BY <1>1, <1>4, <2>1, <2>2 DEF Supervise, ghosts
<1>5. CASE Restart
  <2>1. \A v \in Worker, x \in due : AtWorker(v, x) => x \in UNION {InHand(w) : w \in Worker}
    BY <1>0, InHandIs
  <2> QED
    BY <1>1, <1>5, <2>1 DEF Restart
<1>6. ASSUME UNCHANGED <<queue, retries, log, tally, due, work, excused>>
      PROVE  /\ \A x \in due \ excused : Safe(x) => Safe(x)' \/ x \in excused'
             /\ \A x \in due' \ due : Safe(x)'
             /\ excused \subseteq excused'
  <2>1. \A w \in Worker, x \in due : AtWorker(w, x) => AtWorker(w, x)' \/ x \in {}
    BY <1>6, StaysAtWorker
  <2>2. excused' = excused \cup {}
    BY <1>6
  <2> QED
    BY <1>1, <1>6, <2>1, <2>2
<1>7. ASSUME NEW c \in Channel, ExpireSuppression(c)
      PROVE  UNCHANGED <<queue, retries, log, tally, due, work, excused>>
  BY <1>7 DEF ExpireSuppression
<1>8. ASSUME NEW o \in Operator, OperatorStep(o)
      PROVE  UNCHANGED <<queue, retries, log, tally, due, work, excused>>
  BY <1>8, OperatorsTouchTheCache DEF ghosts
<1>9. ASSUME NEW y \in Pair, NEW i \in 1 .. Len(log[y]), RetryByHand(y, i)
      PROVE  /\ \A x \in due \ excused : Safe(x) => Safe(x)' \/ x \in excused'
             /\ \A x \in due' \ due : Safe(x)'
             /\ excused \subseteq excused'
  <2>1. UNCHANGED <<retries, work, due, excused>>
    BY <1>9 DEF RetryByHand
  <2>2. PICK p : p = [event |-> y[1], retry |-> 0, scope |-> y[2]]
    OBVIOUS
  <2>3. p \in Payload /\ Carries(p, y) /\ queue' = Append(queue, p)
    BY <1>9, <2>2 DEF RetryByHand, Carries, Payload, Pair
  <2>4. /\ \A j \in DOMAIN queue : j \in DOMAIN queue' /\ queue'[j] = queue[j]
        /\ Len(queue) + 1 \in DOMAIN queue' /\ queue'[Len(queue) + 1] = p
    BY <1>0, <2>3, AppendedIs
  <2>5. \A x \in due : Queued(x) => Queued(x)'
    BY <2>4 DEF Queued, Carries
  <2>6. Queued(y)'
    BY <2>3, <2>4 DEF Queued, Carries
  <2>7. \A x \in Pair \ {y} : log'[x] = log[x]
    BY <1>0, <1>9 DEF RetryByHand
  <2>8. \A x \in Pair : Accepted(x) => Accepted(x)'
    <3>1. tally' = [tally EXCEPT ![y].rounds = @ + 1]
      BY <1>9 DEF RetryByHand
    <3> QED
      BY <3>1, TalliesGrow
  <2>9. ASSUME NEW x \in due, Safe(x) PROVE Safe(x)'
    <3>1. CASE x = y
      BY <2>6, <3>1 DEF Safe
    <3>2. CASE x # y
      <4>1. ClosedRow(x) => ClosedRow(x)'
        BY <1>0, <2>7, <3>2 DEF ClosedRow
      <4> QED
        BY <1>0, <2>1, <2>5, <2>8, <2>9, <4>1, StaysAtWorker DEF Safe, Waiting
    <3> QED
      BY <3>1, <3>2
  <2> QED
    BY <2>1, <2>9
<1>10. ASSUME NEW y \in Pair, NEW i \in 1 .. Len(log[y]), DeleteLog(y, i)
       PROVE  /\ \A x \in due \ excused : Safe(x) => Safe(x)' \/ x \in excused'
              /\ \A x \in due' \ due : Safe(x)'
              /\ excused \subseteq excused'
  <2>1. /\ UNCHANGED <<queue, retries, work, due, tally>> /\ excused' = excused \cup {y}
        /\ \A x \in Pair \ {y} : log'[x] = log[x]
    BY <1>0, <1>10 DEF DeleteLog
  <2>2. ASSUME NEW x \in due, x # y, Safe(x) PROVE Safe(x)'
    BY <1>0, <2>1, <2>2, StaysAtWorker DEF Safe, Accepted, ClosedRow, Queued, Waiting
  <2> QED
    BY <2>1, <2>2
<1>11. CASE UNCHANGED vars
  BY <1>6, <1>11 DEF vars, ghosts
<1> QED
  BY <1>2, <1>3, <1>4, <1>5, <1>6, <1>7, <1>8, <1>9, <1>10, <1>11, StartSafe, LoopSafe, NextIs

-----------------------------------------------------------------------------
(* Counting the tries that are left.                                          *)
(*                                                                            *)
(* A payload has tokens for the pairs it carries: one for each try it still   *)
(* has, or a single one where only the copies are counted.  All tokens of a   *)
(* pair, in the queue, in the retry set and in hand, are its load.            *)

Weights == [Payload -> SUBSET (0 .. MaxRetries)]
Budget == [p \in Payload |-> p.retry .. MaxRetries]
Once == [p \in Payload |-> {0}]

Tokens(T, p, x) == IF Carries(p, x) THEN T[p] ELSE {}
QueueTokens(T, x) == {y \in (DOMAIN queue) \X (0 .. MaxRetries) : y[2] \in Tokens(T, queue[y[1]], x)}
RetryTokens(T, x) == {y \in retries \X (0 .. MaxRetries) : y[2] \in Tokens(T, y[1], x)}
Unsent(w, x) == AtWorker(w, x) /\ ~ (work[w].phase = "sent" /\ Turn(w) = x[2])
Held(T, w, x) == IF Unsent(w, x) THEN Cardinality(T[work[w].payload]) ELSE 0

Queues(T, x) == Cardinality(QueueTokens(T, x))
Waits(T, x) == Cardinality(RetryTokens(T, x))
Load(T, x) == Queues(T, x) + Waits(T, x) + Held(T, "main", x) + Held(T, "retry", x)

LEMMA ColumnSize ==
  ASSUME NEW d, NEW S \in SUBSET (0 .. MaxRetries)
  PROVE  /\ IsFiniteSet(S) /\ Cardinality(S) \in Nat
         /\ IsFiniteSet({d} \X S) /\ Cardinality({d} \X S) = Cardinality(S)
<1>1. IsFiniteSet(0 .. MaxRetries)
  BY FS_Interval
<1>2. IsFiniteSet(S)
  BY <1>1, FS_Subset
<1>3. Cardinality(S) \in Nat
  BY <1>2, FS_CardinalityType
<1>4. IsFiniteSet({d}) /\ Cardinality({d}) = 1
  BY FS_Singleton
<1>5. IsFiniteSet({d} \X S) /\ Cardinality({d} \X S) = 1 * Cardinality(S)
  BY <1>2, <1>4, FS_Product
<1> QED
  BY <1>2, <1>3, <1>5

LEMMA ColumnAdded ==
  ASSUME NEW A, IsFiniteSet(A), NEW d, NEW S \in SUBSET (0 .. MaxRetries),
         NEW B \in SUBSET (A \cup ({d} \X S))
  PROVE  IsFiniteSet(B) /\ Cardinality(B) <= Cardinality(A) + Cardinality(S)
<1>1. PICK C : C = {d} \X S
  OBVIOUS
<1>2. IsFiniteSet(C) /\ Cardinality(C) = Cardinality(S)
  BY <1>1, ColumnSize
<1>3. /\ IsFiniteSet(A \cup C)
      /\ Cardinality(A \cup C) = Cardinality(A) + Cardinality(C) - Cardinality(A \cap C)
  BY <1>2, FS_Union
<1>4. IsFiniteSet(A \cap C)
  BY FS_Intersection
<1>5. Cardinality(A \cap C) \in Nat /\ Cardinality(A) \in Nat /\ Cardinality(C) \in Nat
  BY <1>2, <1>4, FS_CardinalityType
<1>6. IsFiniteSet(B) /\ Cardinality(B) <= Cardinality(A \cup C)
  BY <1>1, <1>3, FS_Subset
<1>7. Cardinality(B) \in Nat
  BY <1>6, FS_CardinalityType
<1> QED
  BY <1>2, <1>3, <1>5, <1>6, <1>7

LEMMA ColumnTaken ==
  ASSUME NEW A, IsFiniteSet(A), NEW d, NEW S \in SUBSET (0 .. MaxRetries), {d} \X S \subseteq A
  PROVE  /\ IsFiniteSet(A \ ({d} \X S))
         /\ Cardinality(A \ ({d} \X S)) = Cardinality(A) - Cardinality(S)
<1>1. PICK C : C = {d} \X S
  OBVIOUS
<1>2. IsFiniteSet(A \ C) /\ Cardinality(A \ C) = Cardinality(A) - Cardinality(A \cap C)
  BY FS_Difference
<1>3. A \cap C = C
  BY <1>1
<1>4. Cardinality(C) = Cardinality(S)
  BY <1>1, ColumnSize
<1> QED
  BY <1>1, <1>2, <1>3, <1>4

LEMMA TokensType ==
  ASSUME NEW T \in Weights, NEW p \in Payload, NEW x
  PROVE  /\ T[p] \in SUBSET (0 .. MaxRetries) /\ Cardinality(T[p]) \in Nat
         /\ Tokens(T, p, x) \in SUBSET (0 .. MaxRetries)
         /\ Cardinality(Tokens(T, p, x)) \in Nat
<1>1. T[p] \in SUBSET (0 .. MaxRetries) /\ Tokens(T, p, x) \in SUBSET (0 .. MaxRetries)
  BY DEF Weights, Tokens
<1> QED
  BY <1>1, ColumnSize

LEMMA LoadType ==
  ASSUME TypeOK, IsFiniteSet(retries), NEW T \in Weights, NEW x \in Pair
  PROVE  /\ IsFiniteSet(QueueTokens(T, x)) /\ Queues(T, x) \in Nat
         /\ IsFiniteSet(RetryTokens(T, x)) /\ Waits(T, x) \in Nat
         /\ \A w \in Worker : Held(T, w, x) \in Nat
         /\ Load(T, x) \in Nat
<1>1. IsFiniteSet(0 .. MaxRetries)
  BY FS_Interval
<1>2. IsFiniteSet((DOMAIN queue) \X (0 .. MaxRetries))
  <2>1. DOMAIN queue = 1 .. Len(queue) /\ Len(queue) \in Nat
    BY DEF TypeOK
  <2>2. IsFiniteSet(1 .. Len(queue))
    BY <2>1, FS_Interval
  <2> QED
    BY <1>1, <2>1, <2>2, FS_Product, Zenon
<1>3. IsFiniteSet(retries \X (0 .. MaxRetries))
  BY <1>1, FS_Product
<1>4. QueueTokens(T, x) \subseteq (DOMAIN queue) \X (0 .. MaxRetries)
  BY DEF QueueTokens
<1>5. RetryTokens(T, x) \subseteq retries \X (0 .. MaxRetries)
  BY DEF RetryTokens
<1>6. IsFiniteSet(QueueTokens(T, x)) /\ IsFiniteSet(RetryTokens(T, x))
  BY <1>2, <1>3, <1>4, <1>5, FS_Subset
<1>7. Queues(T, x) \in Nat /\ Waits(T, x) \in Nat
  BY <1>6, FS_CardinalityType DEF Queues, Waits
<1>8. \A w \in Worker : Held(T, w, x) \in Nat
  <2>1. \A w \in Worker : work[w].phase # "idle" => work[w].payload \in Payload
    BY DEF TypeOK
  <2>2. \A w \in Worker : Unsent(w, x) => work[w].payload \in Payload
    BY <2>1 DEF Unsent, AtWorker
  <2> QED
    BY <2>2, TokensType DEF Held
<1> QED
  BY <1>6, <1>7, <1>8 DEF Load, Worker

(* What steps do to the parts of a load.                                      *)
LEMMA QueuesAppend ==
  ASSUME TypeOK, IsFiniteSet(retries), NEW T \in Weights, NEW x \in Pair,
         NEW p \in Payload, queue' = Append(queue, p)
  PROVE  Queues(T, x)' \in Nat /\ Queues(T, x)' <= Queues(T, x) + Cardinality(Tokens(T, p, x))
<1>1. PICK n, B, S : n = Len(queue) + 1 /\ B = QueueTokens(T, x)' /\ S = Tokens(T, p, x)
  OBVIOUS
<1>2. /\ DOMAIN queue' = DOMAIN queue \cup {n} /\ queue'[n] = p
      /\ \A i \in DOMAIN queue : queue'[i] = queue[i]
  BY <1>1, AppendedIs DEF TypeOK
<1>3. B \subseteq QueueTokens(T, x) \cup ({n} \X S)
  <2>1. ASSUME NEW y \in B PROVE y \in QueueTokens(T, x) \cup ({n} \X S)
    <3>1. y = <<y[1], y[2]>> /\ y[1] \in DOMAIN queue' /\ y[2] \in 0 .. MaxRetries
          /\ y[2] \in Tokens(T, queue'[y[1]], x)
      BY <1>1, <2>1 DEF QueueTokens, Tokens, Carries
    <3>2. CASE y[1] \in DOMAIN queue
      BY <1>2, <3>1, <3>2 DEF QueueTokens
    <3>3. CASE y[1] = n
      BY <1>1, <1>2, <3>1, <3>3
    <3> QED
      BY <1>2, <3>1, <3>2, <3>3
  <2> QED
    BY <2>1
<1>4. S \in SUBSET (0 .. MaxRetries) /\ IsFiniteSet(QueueTokens(T, x))
  BY <1>1, TokensType, LoadType
<1>5. IsFiniteSet(B) /\ Cardinality(B) <= Cardinality(QueueTokens(T, x)) + Cardinality(S)
  BY <1>3, <1>4, ColumnAdded
<1>6. Cardinality(B) \in Nat
  BY <1>5, FS_CardinalityType
<1> QED
  BY <1>1, <1>5, <1>6 DEF Queues

LEMMA QueuesTail ==
  ASSUME TypeOK, IsFiniteSet(retries), NEW T \in Weights, NEW x \in Pair,
         queue # <<>>, queue' = Tail(queue)
  PROVE  /\ Queues(T, x)' \in Nat
         /\ Queues(T, x)' + Cardinality(Tokens(T, Head(queue), x)) <= Queues(T, x)
<1>1. PICK A, B, S : A = QueueTokens(T, x) /\ B = QueueTokens(T, x)' /\ S = Tokens(T, queue[1], x)
  OBVIOUS
<1>2. /\ 1 \in DOMAIN queue /\ Head(queue) = queue[1] /\ queue[1] \in Payload
      /\ \A i \in DOMAIN queue' : /\ i \in Nat \ {0} /\ i + 1 \in DOMAIN queue
                                  /\ queue'[i] = queue[i + 1]
  BY DEF TypeOK
<1>3. S \in SUBSET (0 .. MaxRetries) /\ IsFiniteSet(A)
  BY <1>1, <1>2, TokensType, LoadType
<1>4. {1} \X S \subseteq A
  BY <1>1, <1>2, <1>3 DEF QueueTokens
<1>5. /\ IsFiniteSet(A \ ({1} \X S))
      /\ Cardinality(A \ ({1} \X S)) = Cardinality(A) - Cardinality(S)
  BY <1>3, <1>4, ColumnTaken
<1> DEFINE f == [y \in B |-> <<y[1] + 1, y[2]>>]
<1>6. ASSUME NEW y \in B
      PROVE  /\ y = <<y[1], y[2]>> /\ y[1] \in Nat \ {0}
             /\ <<y[1] + 1, y[2]>> \in A \ ({1} \X S)
  <2>1. /\ y = <<y[1], y[2]>> /\ y[1] \in DOMAIN queue' /\ y[2] \in 0 .. MaxRetries
        /\ y[2] \in Tokens(T, queue'[y[1]], x)
    BY <1>1, <1>6 DEF QueueTokens, Tokens, Carries
  <2>2. y[1] \in Nat \ {0} /\ y[1] + 1 # 1
    BY <1>2, <2>1
  <2>3. y[2] \in Tokens(T, queue[y[1] + 1], x) /\ y[1] + 1 \in DOMAIN queue
    BY <1>2, <2>1
  <2>4. <<y[1] + 1, y[2]>> \in A
    BY <1>1, <2>1, <2>3 DEF QueueTokens
  <2> QED
    BY <2>1, <2>2, <2>4
<1>7. f \in [B -> A \ ({1} \X S)]
  BY <1>6
<1>8. ASSUME NEW y \in B, NEW z \in B, f[y] = f[z] PROVE y = z
  <2>1. y[1] + 1 = z[1] + 1 /\ y[2] = z[2]
    BY <1>8
  <2>2. y[1] \in Nat /\ z[1] \in Nat
    BY <1>6
  <2>3. y[1] = z[1]
    BY <2>1, <2>2
  <2>4. y = <<y[1], y[2]>> /\ z = <<z[1], z[2]>>
    BY <1>6
  <2> QED
    BY <2>1, <2>3, <2>4
<1>9. f \in Injection(B, A \ ({1} \X S))
  BY <1>7, <1>8 DEF Injection, IsInjective
<1>10. IsFiniteSet(B) /\ Cardinality(B) <= Cardinality(A \ ({1} \X S))
  BY <1>5, <1>9, FS_Injection
<1>11. Cardinality(B) \in Nat /\ Cardinality(A) \in Nat /\ Cardinality(S) \in Nat
  BY <1>3, <1>10, FS_CardinalityType, ColumnSize
<1>12. Cardinality(B) + Cardinality(S) <= Cardinality(A)
  BY <1>5, <1>10, <1>11
<1> QED
  BY <1>1, <1>2, <1>11, <1>12 DEF Queues

LEMMA QueuesSame ==
  ASSUME queue' = queue, NEW T, NEW x PROVE Queues(T, x)' = Queues(T, x)
BY DEF Queues, QueueTokens, Tokens, Carries

LEMMA WaitsSame ==
  ASSUME retries' = retries, NEW T, NEW x PROVE Waits(T, x)' = Waits(T, x)
BY DEF Waits, RetryTokens, Tokens, Carries

LEMMA WaitsAdd ==
  ASSUME TypeOK, IsFiniteSet(retries), NEW T \in Weights, NEW x \in Pair,
         NEW q \in Payload, retries' = retries \cup {q}
  PROVE  Waits(T, x)' \in Nat /\ Waits(T, x)' <= Waits(T, x) + Cardinality(Tokens(T, q, x))
<1>1. PICK B, S : B = RetryTokens(T, x)' /\ S = Tokens(T, q, x)
  OBVIOUS
<1>2. B \subseteq RetryTokens(T, x) \cup ({q} \X S)
  <2>1. ASSUME NEW y \in B PROVE y \in RetryTokens(T, x) \cup ({q} \X S)
    <3>1. y = <<y[1], y[2]>> /\ y[1] \in retries' /\ y[2] \in 0 .. MaxRetries
          /\ y[2] \in Tokens(T, y[1], x)
      BY <1>1, <2>1 DEF RetryTokens, Tokens, Carries
    <3>2. CASE y[1] \in retries
      BY <3>1, <3>2 DEF RetryTokens
    <3>3. CASE y[1] = q
      BY <1>1, <3>1, <3>3
    <3> QED
      BY <3>1, <3>2, <3>3
  <2> QED
    BY <2>1
<1>3. S \in SUBSET (0 .. MaxRetries) /\ IsFiniteSet(RetryTokens(T, x))
  BY <1>1, TokensType, LoadType
<1>4. IsFiniteSet(B) /\ Cardinality(B) <= Cardinality(RetryTokens(T, x)) + Cardinality(S)
  BY <1>2, <1>3, ColumnAdded
<1>5. Cardinality(B) \in Nat
  BY <1>4, FS_CardinalityType
<1> QED
  BY <1>1, <1>4, <1>5 DEF Waits

LEMMA WaitsTake ==
  ASSUME TypeOK, IsFiniteSet(retries), NEW T \in Weights, NEW x \in Pair,
         NEW p \in retries, retries' = retries \ {p}
  PROVE  /\ Waits(T, x)' \in Nat
         /\ Waits(T, x)' + Cardinality(Tokens(T, p, x)) <= Waits(T, x)
<1>1. PICK A, B, S : A = RetryTokens(T, x) /\ B = RetryTokens(T, x)' /\ S = Tokens(T, p, x)
  OBVIOUS
<1>2. S \in SUBSET (0 .. MaxRetries) /\ IsFiniteSet(A)
  BY <1>1, TokensType, LoadType DEF TypeOK
<1>3. {p} \X S \subseteq A
  BY <1>1, <1>2 DEF RetryTokens
<1>4. /\ IsFiniteSet(A \ ({p} \X S))
      /\ Cardinality(A \ ({p} \X S)) = Cardinality(A) - Cardinality(S)
  BY <1>2, <1>3, ColumnTaken
<1>5. B \subseteq A \ ({p} \X S)
  BY <1>1 DEF RetryTokens, Tokens, Carries
<1>6. IsFiniteSet(B) /\ Cardinality(B) <= Cardinality(A \ ({p} \X S))
  BY <1>4, <1>5, FS_Subset
<1>7. Cardinality(B) \in Nat /\ Cardinality(A) \in Nat /\ Cardinality(S) \in Nat
  BY <1>2, <1>6, FS_CardinalityType, ColumnSize
<1>8. Cardinality(B) + Cardinality(S) <= Cardinality(A)
  BY <1>4, <1>6, <1>7
<1> QED
  BY <1>1, <1>7, <1>8 DEF Waits

LEMMA HeldSame ==
  ASSUME NEW w, work'[w] = work[w], NEW T, NEW x PROVE Held(T, w, x)' = Held(T, w, x)
BY DEF Held, Unsent, AtWorker, Turn, Carries

LEMMA HeldIdle ==
  ASSUME NEW w, work[w].phase = "idle" PROVE \A T, x : Held(T, w, x) = 0
BY DEF Held, Unsent, AtWorker

LEMMA HeldTaken ==
  ASSUME NEW w, work[w].phase = "taken", NEW T, NEW x
  PROVE  Held(T, w, x) = Cardinality(Tokens(T, work[w].payload, x))
<1>1. Unsent(w, x) <=> Carries(work[w].payload, x)
  BY DEF Unsent, AtWorker
<1>2. CASE Carries(work[w].payload, x)
  BY <1>1, <1>2 DEF Held, Tokens
<1>3. CASE ~ Carries(work[w].payload, x)
  BY <1>1, <1>3, FS_EmptySet DEF Held, Tokens
<1> QED
  BY <1>2, <1>3

LEMMA HeldTakenNext ==
  ASSUME NEW w, work'[w].phase = "taken", NEW T, NEW x
  PROVE  Held(T, w, x)' = Cardinality(Tokens(T, work'[w].payload, x))
<1>1. Unsent(w, x)' <=> Carries(work'[w].payload, x)
  BY DEF Unsent, AtWorker, Carries
<1>2. CASE Carries(work'[w].payload, x)
  BY <1>1, <1>2 DEF Held, Tokens
<1>3. CASE ~ Carries(work'[w].payload, x)
  BY <1>1, <1>3, FS_EmptySet DEF Held, Tokens
<1> QED
  BY <1>2, <1>3

-----------------------------------------------------------------------------
(* What steps do to a load.                                                   *)

(* A payload that has been retried more often has no more tokens.             *)
Falling(T) ==
    \A p, q \in Payload : p.retry <= q.retry => Cardinality(T[q]) <= Cardinality(T[p])

LEMMA FiniteRetries == TypeOK /\ IsFiniteSet(retries) /\ [Next]_vars => IsFiniteSet(retries')
<1> SUFFICES ASSUME TypeOK, IsFiniteSet(retries), [Next]_vars PROVE IsFiniteSet(retries')
  OBVIOUS
<1>1. \A q : IsFiniteSet(retries \cup {q}) /\ IsFiniteSet(retries \ {q})
  BY FS_AddElement, FS_RemoveElement
<1>2. CASE QueueStep
  BY <1>1, <1>2 DEF QueueStep, Emit, TakeQueued, TakeRetry
<1>3. ASSUME NEW w \in Worker, StartStep(w) PROVE IsFiniteSet(retries')
  BY <1>1, <1>3 DEF StartStep, BeginDelivery, Requeue
<1>4. ASSUME NEW w \in Worker, LoopStep(w) PROVE IsFiniteSet(retries')
  BY <1>1, <1>4 DEF LoopStep, SkipUnloaded, Suppress, BeginSend, SendAccepted, RecordSent,
     SendRefused, SendUnanswered, SendUnauthorised, RetryLost, ScheduleOrFail
<1>5. ASSUME NEW w \in Worker, WorkerEnds(w) \/ Supervise(w) PROVE IsFiniteSet(retries')
  BY <1>5 DEF WorkerEnds, Supervise
<1>6. ASSUME NEW c \in Channel, ExpireSuppression(c) PROVE IsFiniteSet(retries')
  BY <1>6 DEF ExpireSuppression
<1>7. CASE Restart
  BY <1>7 DEF Restart
<1>8. ASSUME NEW o \in Operator, OperatorStep(o) PROVE IsFiniteSet(retries')
  BY <1>8, OperatorsTouchTheCache
<1>9. CASE \E x \in Pair : \E i \in 1 .. Len(log[x]) : RetryByHand(x, i) \/ DeleteLog(x, i)
  BY <1>9 DEF RetryByHand, DeleteLog
<1>10. CASE UNCHANGED vars
  BY <1>10 DEF vars
<1> QED
  BY <1>2, <1>3, <1>4, <1>5, <1>6, <1>7, <1>8, <1>9, <1>10, NextIs

(* Steps that put no payload anywhere, and leave each worker with what it had *)
(* or with nothing.                                                           *)
LEMMA LoadFalls ==
  ASSUME TypeOK, IsFiniteSet(retries), NEW T \in Weights, NEW x \in Pair,
         UNCHANGED <<queue, retries>>,
         \A w \in Worker : work'[w] = work[w] \/ work'[w].phase = "idle"
  PROVE  Load(T, x)' \in Nat /\ Load(T, x)' <= Load(T, x)
<1>1. ASSUME NEW w \in Worker PROVE Held(T, w, x)' <= Held(T, w, x) /\ Held(T, w, x)' \in Nat
  <2>1. CASE work'[w] = work[w]
    BY <2>1, HeldSame, LoadType
  <2>2. CASE work'[w].phase = "idle"
    <3>1. Held(T, w, x)' = 0
      BY <2>2 DEF Held, Unsent, AtWorker
    <3> QED
      BY <3>1, LoadType
  <2> QED
    BY <2>1, <2>2
<1>2. Queues(T, x)' = Queues(T, x) /\ Waits(T, x)' = Waits(T, x)
  BY QueuesSame, WaitsSame
<1>3. Queues(T, x) \in Nat /\ Waits(T, x) \in Nat /\ \A w \in Worker : Held(T, w, x) \in Nat
  BY LoadType
<1> QED
  BY <1>1, <1>2, <1>3 DEF Load, Worker

(* Nothing is known of an event that was not emitted.                         *)
LEMMA LoadOfNew ==
  ASSUME TypeOK, CopiesAreOnRecord, NEW T \in Weights, NEW x \in Pair, x[1] \notin emitted
  PROVE  Load(T, x) = 0
<1>1. QueueTokens(T, x) = {}
  <2>1. \A i \in DOMAIN queue : Tokens(T, queue[i], x) = {}
    BY DEF CopiesAreOnRecord, OnRecord, Tokens, Carries
  <2> QED
    BY <2>1 DEF QueueTokens
<1>2. RetryTokens(T, x) = {}
  <2>1. \A p \in retries : Tokens(T, p, x) = {}
    BY DEF CopiesAreOnRecord, OnRecord, Tokens, Carries
  <2> QED
    BY <2>1 DEF RetryTokens
<1>3. ASSUME NEW w \in Worker PROVE Held(T, w, x) = 0
  <2>1. ~ AtWorker(w, x)
    <3>1. CASE work[w].phase = "taken"
      BY <3>1 DEF AtWorker, CopiesAreOnRecord, OnRecord, Carries
    <3>2. CASE work[w].phase \notin {"idle", "taken"}
      <4>1. \A c \in work[w].todo : work[w].payload.event \in emitted
        BY <3>2 DEF CopiesAreOnRecord
      <4> QED
        BY <3>2, <4>1 DEF AtWorker
    <3>3. CASE work[w].phase = "idle"
      BY <3>3 DEF AtWorker
    <3> QED
      BY <3>1, <3>2, <3>3
  <2> QED
    BY <2>1 DEF Held, Unsent
<1>4. Queues(T, x) = 0 /\ Waits(T, x) = 0
  BY <1>1, <1>2, FS_EmptySet DEF Queues, Waits
<1> QED
  BY <1>3, <1>4 DEF Load, Worker

LEMMA QueueLoad ==
  ASSUME TypeOK, IsFiniteSet(retries), NEW T \in Weights, NEW x \in Pair, QueueStep
  PROVE  /\ Load(T, x)' \in Nat
         /\ \/ Load(T, x)' <= Load(T, x)
            \/ /\ x[1] \notin emitted
               /\ \E p \in Payload : p.retry = 0 /\ Load(T, x)' <= Load(T, x) + Cardinality(T[p])
<1>0. /\ queue \in Seq(Payload) /\ work \in [Worker -> Hand] /\ emitted \subseteq Event
      /\ retries \subseteq Payload
      /\ Queues(T, x) \in Nat /\ Waits(T, x) \in Nat
      /\ Held(T, "main", x) \in Nat /\ Held(T, "retry", x) \in Nat
  BY LoadType DEF TypeOK, Worker
<1>1. CASE Emit
  <2>0. PICK e \in Event \ emitted :
           queue' = Append(queue, [event |-> e, retry |-> 0, scope |-> "all"])
    BY <1>0, <1>1 DEF Emit
  <2>1. PICK p : p = [event |-> e, retry |-> 0, scope |-> "all"] /\ queue' = Append(queue, p)
    BY <2>0
  <2>2. p \in Payload /\ p.retry = 0 /\ p.event = e
    BY <2>1 DEF Payload
  <2>3. /\ Queues(T, x)' \in Nat /\ Queues(T, x)' <= Queues(T, x) + Cardinality(Tokens(T, p, x))
        /\ Waits(T, x)' = Waits(T, x)
        /\ Held(T, "main", x)' = Held(T, "main", x) /\ Held(T, "retry", x)' = Held(T, "retry", x)
    BY <1>1, <2>1, <2>2, QueuesAppend, WaitsSame, HeldSame DEF Emit
  <2>4. CASE x[1] = e
    <3>1. Tokens(T, p, x) = T[p] /\ Cardinality(T[p]) \in Nat
      BY <2>1, <2>2, <2>4, TokensType DEF Tokens, Carries
    <3>2. Load(T, x)' <= Load(T, x) + Cardinality(T[p])
      BY <1>0, <2>3, <3>1 DEF Load
    <3>3. Load(T, x)' \in Nat
      BY <1>0, <2>3 DEF Load
    <3> QED
      BY <2>1, <2>2, <2>4, <3>2, <3>3
  <2>5. CASE x[1] # e
    <3>1. Cardinality(Tokens(T, p, x)) = 0
      BY <2>2, <2>5, FS_EmptySet DEF Tokens, Carries
    <3>2. Load(T, x)' \in Nat /\ Load(T, x)' <= Load(T, x)
      BY <1>0, <2>3, <3>1 DEF Load
    <3> QED
      BY <3>2
  <2> QED
    BY <2>4, <2>5
<1>2. CASE TakeQueued
  <2>1. /\ Free("main") /\ queue # <<>> /\ queue' = Tail(queue) /\ TakeUp("main", Head(queue))
        /\ retries' = retries
    BY <1>2 DEF TakeQueued
  <2>2. PICK p : p = Head(queue)
    OBVIOUS
  <2>3. /\ work'["main"].payload = p /\ work'["main"].phase = "taken"
        /\ work'["retry"] = work["retry"] /\ work["main"].phase = "idle" /\ p \in Payload
    BY <1>0, <2>1, <2>2 DEF TakeUp, Worker, Hand, Free
  <2>4. /\ Queues(T, x)' \in Nat /\ Queues(T, x)' + Cardinality(Tokens(T, p, x)) <= Queues(T, x)
        /\ Waits(T, x)' = Waits(T, x) /\ Held(T, "retry", x)' = Held(T, "retry", x)
    BY <2>1, <2>2, <2>3, QueuesTail, WaitsSame, HeldSame
  <2>5. Held(T, "main", x)' = Cardinality(Tokens(T, p, x)) /\ Held(T, "main", x) = 0
    BY <2>3, HeldTakenNext, HeldIdle
  <2>6. Cardinality(Tokens(T, p, x)) \in Nat
    BY <2>3, TokensType
  <2> QED
    BY <1>0, <2>4, <2>5, <2>6 DEF Load
<1>3. ASSUME NEW p \in Payload, TakeRetry(p)
      PROVE  Load(T, x)' \in Nat /\ Load(T, x)' <= Load(T, x)
  <2>1. /\ Free("retry") /\ p \in retries /\ retries' = retries \ {p} /\ TakeUp("retry", p)
        /\ queue' = queue
    BY <1>3 DEF TakeRetry
  <2>2. /\ work'["retry"].payload = p /\ work'["retry"].phase = "taken"
        /\ work'["main"] = work["main"] /\ work["retry"].phase = "idle"
    BY <1>0, <2>1 DEF TakeUp, Worker, Hand, Free
  <2>3. /\ Waits(T, x)' \in Nat /\ Waits(T, x)' + Cardinality(Tokens(T, p, x)) <= Waits(T, x)
        /\ Queues(T, x)' = Queues(T, x) /\ Held(T, "main", x)' = Held(T, "main", x)
    BY <2>1, <2>2, WaitsTake, QueuesSame, HeldSame
  <2>4. Held(T, "retry", x)' = Cardinality(Tokens(T, p, x)) /\ Held(T, "retry", x) = 0
    BY <2>2, HeldTakenNext, HeldIdle
  <2>5. Cardinality(Tokens(T, p, x)) \in Nat
    BY TokensType
  <2> QED
    BY <1>0, <2>3, <2>4, <2>5 DEF Load
<1> QED
  BY <1>1, <1>2, <1>3 DEF QueueStep

LEMMA StartLoad ==
  ASSUME TypeOK, IsFiniteSet(retries), NEW T \in Weights, Falling(T), NEW x \in Pair,
         NEW w \in Worker, StartStep(w)
  PROVE  Load(T, x)' \in Nat /\ Load(T, x)' <= Load(T, x)
<1>1. PICK p : p = work[w].payload
  OBVIOUS
<1>2. /\ work[w].phase = "taken" /\ p \in Payload /\ queue' = queue
      /\ \A v \in Worker \ {w} : work'[v] = work[v]
  BY <1>1, StartPhases DEF StartStep, BeginDelivery, Requeue
<1>3. /\ Queues(T, x) \in Nat /\ Waits(T, x) \in Nat /\ \A v \in Worker : Held(T, v, x) \in Nat
      /\ Cardinality(T[p]) \in Nat /\ Cardinality(Tokens(T, p, x)) \in Nat
  BY <1>2, LoadType, TokensType
<1>4. Held(T, w, x) = Cardinality(Tokens(T, p, x))
  BY <1>1, <1>2, HeldTaken
<1>5. /\ Queues(T, x)' = Queues(T, x)
      /\ \A v \in Worker \ {w} : Held(T, v, x)' = Held(T, v, x)
  BY <1>2, QueuesSame, HeldSame
<1>6. SUFFICES /\ Waits(T, x)' \in Nat /\ Held(T, w, x)' \in Nat
               /\ Waits(T, x)' + Held(T, w, x)' <= Waits(T, x) + Held(T, w, x)
  BY <1>3, <1>5 DEF Load, Worker
<1>7. CASE Requeue(w)
  <2>1. Held(T, w, x)' = 0
    <3>1. work'[w].phase = "idle"
      BY <1>7 DEF Requeue, TypeOK, Idle
    <3> QED
      BY <3>1 DEF Held, Unsent, AtWorker
  <2>2. CASE p.retry < MaxRetries
    <3>1. PICK q : q = [p EXCEPT !.retry = @ + 1]
      OBVIOUS
    <3>2. retries' = retries \cup {q}
      BY <1>1, <1>7, <2>2, <3>1 DEF Requeue
    <3>3. q \in Payload /\ p.retry <= q.retry /\ (Carries(q, x) <=> Carries(p, x))
      BY <1>2, <2>2, <3>1 DEF Payload, Carries
    <3>4. Cardinality(Tokens(T, q, x)) <= Cardinality(Tokens(T, p, x))
      <4>1. Cardinality(T[q]) <= Cardinality(T[p])
        BY <1>2, <3>3 DEF Falling
      <4>2. CASE Carries(p, x)
        BY <3>3, <4>1, <4>2 DEF Tokens
      <4>3. CASE ~ Carries(p, x)
        BY <3>3, <4>3, FS_EmptySet DEF Tokens
      <4> QED
        BY <4>2, <4>3
    <3>5. Waits(T, x)' \in Nat /\ Waits(T, x)' <= Waits(T, x) + Cardinality(Tokens(T, q, x))
      BY <3>2, <3>3, WaitsAdd
    <3>6. Cardinality(Tokens(T, q, x)) \in Nat
      BY <3>3, TokensType
    <3> QED
      BY <1>3, <1>4, <2>1, <3>4, <3>5, <3>6
  <2>3. CASE ~ p.retry < MaxRetries
    <3>1. Waits(T, x)' = Waits(T, x)
      BY <1>1, <1>7, <2>3, WaitsSame DEF Requeue
    <3> QED
      BY <1>3, <2>1, <3>1
  <2> QED
    BY <2>2, <2>3
<1>8. ASSUME NEW ruled \in BOOLEAN, BeginDelivery(w, ruled)
      PROVE  /\ Waits(T, x)' \in Nat /\ Held(T, w, x)' \in Nat
             /\ Waits(T, x)' + Held(T, w, x)' <= Waits(T, x) + Held(T, w, x)
  <2>1. Waits(T, x)' = Waits(T, x)
    BY <1>8, WaitsSame DEF BeginDelivery
  <2>2. CASE Targets(p) = {}
    <3>1. work'[w].phase = "idle"
      BY <1>1, <1>8, <2>2 DEF BeginDelivery, TypeOK, Idle
    <3>2. Held(T, w, x)' = 0
      BY <3>1 DEF Held, Unsent, AtWorker
    <3> QED
      BY <1>3, <2>1, <3>2
  <2>3. CASE Targets(p) # {}
    <3>1. PICK over \in BOOLEAN : CheckEscalation(w, ruled, over)
      BY <1>1, <1>8, <2>3 DEF BeginDelivery
    <3>2. work'[w].payload = p /\ work'[w].todo = Targets(p) /\ work'[w].phase = "deliver"
      BY <1>1, <3>1 DEF CheckEscalation, TypeOK, Hand
    <3>3. Unsent(w, x)' => Carries(p, x)
      <4>1. Unsent(w, x)' => p.event = x[1] /\ x[2] \in Targets(p)
        BY <3>2 DEF Unsent, AtWorker
      <4>2. x[2] \in Targets(p) => p.scope \in {"all", x[2]}
        BY DEF Targets
      <4> QED
        BY <4>1, <4>2 DEF Carries
    <3>4. Held(T, w, x)' = 0 \/ (Carries(p, x) /\ Held(T, w, x)' = Cardinality(T[p]))
      BY <3>2, <3>3 DEF Held
    <3>5. Held(T, w, x)' \in Nat /\ Held(T, w, x)' <= Held(T, w, x)
      BY <1>3, <1>4, <3>4 DEF Tokens
    <3> QED
      BY <1>3, <2>1, <3>5
  <2> QED
    BY <2>2, <2>3
<1> QED
  BY <1>7, <1>8 DEF StartStep

(* The worker's own part of a round.                                          *)
LEMMA LoopHeld ==
  ASSUME TypeOK, IsFiniteSet(retries), NEW T \in Weights, NEW x \in Pair,
         NEW w \in Worker, LoopStep(w), NEW y, y = <<work[w].payload.event, Turn(w)>>
  PROVE  /\ Held(T, w, x)' \in Nat
         /\ x # y \/ BeginSend(w) => Held(T, w, x)' <= Held(T, w, x)
         /\ ~ BeginSend(w) => Held(T, w, y)' = 0
         /\ work[w].phase # "sent" => Held(T, w, y) = Cardinality(T[work[w].payload])
<1>1. PICK c, p : c = Turn(w) /\ p = work[w].payload
  OBVIOUS
<1>2. /\ WorkOK /\ work[w].phase \in {"deliver", "send", "sent"}
      /\ p \in Payload /\ c \in work[w].todo /\ y = <<p.event, c>>
  BY <1>1, LoopPhases, TurnIsLeft
<1>3. /\ Cardinality(T[p]) \in Nat /\ Held(T, w, x) \in Nat
  BY <1>2, TokensType, LoadType
<1>4. work[w].phase # "sent" => Held(T, w, y) = Cardinality(T[p])
  BY <1>1, <1>2 DEF Held, Unsent, AtWorker
<1>5. AtWorker(w, x) /\ x # y => Unsent(w, x)
  BY <1>1, <1>2 DEF AtWorker, Unsent, Pair
<1>6. CASE RoundOver(w, Turn(w))
  <2>1. \/ work'[w].phase = "idle"
        \/ /\ work'[w].phase = "deliver" /\ work'[w].todo = work[w].todo \ {c}
           /\ work'[w].payload = p
    BY <1>1, <1>2, <1>6, AfterRound DEF Idle
  <2>2. ~ AtWorker(w, y)' /\ (AtWorker(w, x)' => AtWorker(w, x) /\ work'[w].payload = p)
    BY <1>1, <1>2, <2>1 DEF AtWorker, Carries
  <2>3. x # y /\ Unsent(w, x)' => Unsent(w, x) /\ work'[w].payload = p
    BY <1>5, <2>2 DEF Unsent
  <2>4. x = y => ~ Unsent(w, x)'
    BY <2>2 DEF Unsent
  <2>5. Held(T, w, x)' = 0 \/ (x # y /\ Unsent(w, x) /\ Held(T, w, x)' = Cardinality(T[p]))
    BY <2>3, <2>4 DEF Held
  <2>6. Held(T, w, x)' \in Nat /\ (x # y => Held(T, w, x)' <= Held(T, w, x))
    BY <1>1, <1>3, <2>5 DEF Held
  <2>7. Held(T, w, y)' = 0
    BY <2>2 DEF Held, Unsent
  <2>8. ~ BeginSend(w)
    <3>1. BeginSend(w) => work'[w].phase = "send"
      BY DEF BeginSend, TypeOK, Hand
    <3> QED
      BY <2>1, <3>1
  <2> QED
    BY <1>1, <1>4, <2>6, <2>7, <2>8
<1>7. CASE BeginSend(w) \/ SendAccepted(w)
  <2>1. /\ work'[w].payload = p /\ work'[w].todo = work[w].todo
        /\ work'[w].phase = IF BeginSend(w) THEN "send" ELSE "sent"
    BY <1>1, <1>2, <1>7 DEF BeginSend, SendAccepted, WorkOK, Hand
  <2>2. AtWorker(w, x)' => AtWorker(w, x)
    BY <1>1, <1>2, <2>1 DEF AtWorker, Carries
  <2>3. (Turn(w) = c)'
    BY <1>1, <2>1 DEF Turn
  <2>4. ~ BeginSend(w) => ~ Unsent(w, y)'
    BY <1>2, <2>1, <2>3 DEF Unsent
  <2>5. (x # y \/ BeginSend(w)) /\ Unsent(w, x)' => Unsent(w, x)
    <3>1. BeginSend(w) => work[w].phase # "sent"
      BY DEF BeginSend
    <3> QED
      BY <1>5, <2>2, <3>1 DEF Unsent
  <2>6. Held(T, w, x)' = 0 \/ (Unsent(w, x)' /\ Held(T, w, x)' = Cardinality(T[p]))
    BY <2>1 DEF Held
  <2>7. Held(T, w, x)' \in Nat /\ (x # y \/ BeginSend(w) => Held(T, w, x)' <= Held(T, w, x))
    BY <1>1, <1>3, <2>5, <2>6 DEF Held
  <2>8. ~ BeginSend(w) => Held(T, w, y)' = 0
    BY <2>4 DEF Held
  <2> QED
    BY <1>1, <1>4, <2>7, <2>8
<1> QED
  BY <1>6, <1>7, LoopPhases

(* A round of the loop takes the tokens of its own pair, and puts back those  *)
(* of the retry it schedules.                                                 *)
LEMMA LoopLoad ==
  ASSUME TypeOK, IsFiniteSet(retries), NEW T \in Weights, NEW x \in Pair,
         NEW w \in Worker, LoopStep(w), NEW p, p = work[w].payload,
         NEW y, y = <<p.event, Turn(w)>>
  PROVE  /\ p \in Payload /\ y \in Pair /\ Load(T, x)' \in Nat
         /\ x # y => Load(T, x)' <= Load(T, x)
         /\ work[w].phase # "send" => Load(T, x)' <= Load(T, x)
         /\ work[w].phase = "send" =>
              \/ Load(T, y)' + Cardinality(T[p]) <= Load(T, y)
              \/ /\ retries' # retries
                 /\ \E q \in Payload : /\ q.retry = p.retry + 1
                                       /\ Load(T, y)' + Cardinality(T[p]) <= Load(T, y) + Cardinality(T[q])
<1>1. PICK c : c = Turn(w)
  OBVIOUS
<1>2. /\ WorkOK /\ work[w].phase \in {"deliver", "send", "sent"}
      /\ p \in Payload /\ c \in Channel /\ y = <<p.event, c>> /\ y \in Pair
      /\ \A v \in Worker \ {w} : work'[v] = work[v]
  BY <1>1, LoopPhases, TurnIsLeft DEF Payload, Pair
<1>3. queue' = queue
  BY DEF LoopStep, SkipUnloaded, Suppress, BeginSend, SendAccepted, RecordSent, SendRefused,
     SendUnanswered, SendUnauthorised, RetryLost
<1>4. ASSUME NEW z \in Pair
      PROVE  /\ Queues(T, z) \in Nat /\ Waits(T, z) \in Nat /\ \A v \in Worker : Held(T, v, z) \in Nat
             /\ Queues(T, z)' = Queues(T, z)
             /\ \A v \in Worker \ {w} : Held(T, v, z)' = Held(T, v, z)
  BY <1>2, <1>3, LoadType, QueuesSame, HeldSame
<1>5. Cardinality(T[p]) \in Nat
  BY <1>2, TokensType
<1>6. ASSUME NEW z \in Pair, NEW a \in Int, Waits(T, z)' \in Nat, Held(T, w, z)' \in Nat,
             Waits(T, z)' + Held(T, w, z)' <= Waits(T, z) + Held(T, w, z) + a
      PROVE  Load(T, z)' \in Nat /\ Load(T, z) \in Nat /\ Load(T, z)' <= Load(T, z) + a
  BY <1>4, <1>6 DEF Load, Worker
<1>7. /\ Held(T, w, x)' \in Nat
      /\ x # y \/ BeginSend(w) => Held(T, w, x)' <= Held(T, w, x)
      /\ ~ BeginSend(w) => Held(T, w, y)' = 0
      /\ work[w].phase # "sent" => Held(T, w, y) = Cardinality(T[p])
  BY LoopHeld
<1>8. CASE retries' = retries
  <2>1. \A z : Waits(T, z)' = Waits(T, z)
    BY <1>8, WaitsSame
  <2>2. x # y \/ BeginSend(w) =>
           Load(T, x)' \in Nat /\ Load(T, x) \in Nat /\ Load(T, x)' <= Load(T, x) + 0
    BY <1>4, <1>6, <1>7, <2>1
  <2>3. ASSUME ~ BeginSend(w) PROVE  /\ Load(T, y)' \in Nat /\ Load(T, y) \in Nat
               /\ Load(T, y)' <= Load(T, y) + (0 - Held(T, w, y))
    <3>1. Held(T, w, y)' = 0 /\ Held(T, w, y) \in Nat /\ Waits(T, y) \in Nat
      BY <1>2, <1>4, <1>7, <2>3
    <3>2. Waits(T, y)' + Held(T, w, y)' <= Waits(T, y) + Held(T, w, y) + (0 - Held(T, w, y))
      BY <2>1, <3>1
    <3> QED
      BY <1>2, <1>6, <2>1, <3>1, <3>2
  <2>4. Held(T, w, y) \in Nat
    BY <1>2, <1>4
  <2>5. work[w].phase = "send" => ~ BeginSend(w)
    BY DEF BeginSend
  <2> QED
    BY <1>2, <1>5, <1>7, <2>2, <2>3, <2>4, <2>5
<1>9. CASE retries' # retries
  <2>1. SendRefused(w) \/ SendUnanswered(w)
    BY <1>9 DEF LoopStep, SkipUnloaded, Suppress, BeginSend, SendAccepted, RecordSent, SendRefused,
       SendUnanswered, SendUnauthorised, RetryLost
  <2>2. work[w].phase = "send" /\ ~ BeginSend(w)
    BY <2>1 DEF SendRefused, SendUnanswered, BeginSend
  <2>3. ScheduleOrFail(p, c)
    BY <1>1, <2>1 DEF SendRefused, SendUnanswered
  <2>4. PICK q : q = [event |-> p.event, retry |-> p.retry + 1, scope |-> c]
    OBVIOUS
  <2>5. p.retry < MaxRetries /\ retries' = retries \cup {q}
    BY <1>9, <2>3, <2>4 DEF ScheduleOrFail
  <2>6. q \in Payload /\ q.retry = p.retry + 1 /\ (Carries(q, x) <=> x = y) /\ Carries(q, y)
    BY <1>2, <2>4, <2>5 DEF Payload, Carries, Pair
  <2>7. \A z \in Pair : Waits(T, z)' \in Nat /\ Waits(T, z)' <= Waits(T, z) + Cardinality(Tokens(T, q, z))
    BY <2>5, <2>6, WaitsAdd
  <2>8. Cardinality(Tokens(T, q, y)) = Cardinality(T[q]) /\ Cardinality(T[q]) \in Nat
    BY <2>6, TokensType DEF Tokens
  <2>9. x # y => Cardinality(Tokens(T, q, x)) = 0
    BY <2>6, FS_EmptySet DEF Tokens
  <2>10. x # y => Load(T, x)' \in Nat /\ Load(T, x) \in Nat /\ Load(T, x)' <= Load(T, x) + 0
    BY <1>4, <1>6, <1>7, <2>7, <2>9
  <2>11. /\ Load(T, y)' \in Nat /\ Load(T, y) \in Nat
         /\ Load(T, y)' <= Load(T, y) + (Cardinality(T[q]) - Cardinality(T[p]))
    <3>1. Held(T, w, y)' = 0 /\ Held(T, w, y) = Cardinality(T[p]) /\ Waits(T, y) \in Nat
      BY <1>2, <1>4, <1>7, <2>2
    <3>2. Waits(T, y)' \in Nat /\ Waits(T, y)' <= Waits(T, y) + Cardinality(T[q])
      BY <1>2, <2>7, <2>8
    <3>3. PICK a \in Int : a = Cardinality(T[q]) - Cardinality(T[p])
      BY <1>5, <2>8
    <3>4. Waits(T, y)' + Held(T, w, y)' <= Waits(T, y) + Held(T, w, y) + a
      BY <1>5, <2>8, <3>1, <3>2, <3>3
    <3> QED
      BY <1>2, <1>6, <3>1, <3>2, <3>3, <3>4
  <2>12. Load(T, y)' + Cardinality(T[p]) <= Load(T, y) + Cardinality(T[q])
    BY <1>5, <2>8, <2>11
  <2> QED
    BY <1>2, <1>9, <2>2, <2>6, <2>10, <2>11, <2>12
<1> QED
  BY <1>2, <1>8, <1>9

-----------------------------------------------------------------------------
(* What is spent and what is left stays within what was asked for.            *)

CountedOf(x) ==
    /\ tally[x].rounds >= 1
    /\ x[1] \notin emitted => tally[x].accepted = 0 /\ tally[x].attempts = 0
    /\ tally[x].accepted + Load(Once, x) <= tally[x].rounds + tally[x].again
    /\ tally[x].attempts + Load(Budget, x) <= (MaxRetries + 1) * tally[x].rounds
Counted == \A x \in Pair : CountedOf(x)

LEMMA OnceIs ==
    /\ Once \in Weights /\ Falling(Once)
    /\ \A p \in Payload : Cardinality(Once[p]) = 1
<1>1. Once \in Weights
  BY DEF Once, Weights
<1>2. \A p \in Payload : Cardinality(Once[p]) = 1
  BY FS_Singleton DEF Once
<1> QED
  BY <1>1, <1>2 DEF Falling

LEMMA BudgetIs ==
    /\ Budget \in Weights /\ Falling(Budget)
    /\ \A p \in Payload : Cardinality(Budget[p]) = MaxRetries + 1 - p.retry
<1>1. \A p \in Payload : p.retry \in 0 .. MaxRetries /\ Budget[p] = p.retry .. MaxRetries
  BY DEF Budget, Payload
<1>2. Budget \in Weights
  BY <1>1 DEF Budget, Weights
<1>3. ASSUME NEW p \in Payload PROVE Cardinality(Budget[p]) = MaxRetries + 1 - p.retry
  <2>1. p.retry \in Int /\ MaxRetries \in Int /\ ~ p.retry > MaxRetries
    BY <1>1
  <2>2. Cardinality(p.retry .. MaxRetries) = MaxRetries - p.retry + 1
    BY <2>1, FS_Interval
  <2> QED
    BY <1>1, <2>1, <2>2
<1>4. Falling(Budget)
  BY <1>1, <1>3 DEF Falling
<1> QED
  BY <1>2, <1>3, <1>4

LEMMA Product ==
  ASSUME NEW m \in Nat, NEW r \in Nat
  PROVE  /\ m * r \in Nat /\ r >= 1 => m * r >= m
         /\ m * (r + 1) = m * r + m
OBVIOUS

LEMMA TallyType ==
  ASSUME TypeOK, NEW x \in Pair
  PROVE  /\ tally[x].accepted \in Nat /\ tally[x].again \in Nat
         /\ tally[x].attempts \in Nat /\ tally[x].rounds \in Nat
BY DEF TypeOK, Tally

LEMMA CountedFalls ==
  ASSUME TypeOK, IsFiniteSet(retries), NEW x \in Pair, CountedOf(x),
         tally'[x] = tally[x], emitted \subseteq emitted',
         \A T \in Weights : Falling(T) => Load(T, x)' \in Nat /\ Load(T, x)' <= Load(T, x)
  PROVE  CountedOf(x)'
<1>1. /\ Load(Once, x)' \in Nat /\ Load(Once, x)' <= Load(Once, x) /\ Load(Once, x) \in Nat
      /\ Load(Budget, x)' \in Nat /\ Load(Budget, x)' <= Load(Budget, x) /\ Load(Budget, x) \in Nat
  BY OnceIs, BudgetIs, LoadType
<1>2. (MaxRetries + 1) * tally[x].rounds \in Nat
  BY TallyType, Product
<1> QED
  BY <1>1, <1>2, TallyType DEF CountedOf

LEMMA OneMore ==
  ASSUME NEW n \in Nat, NEW a \in Nat, NEW b \in Nat, NEW r \in Nat, NEW g \in Nat,
         n + a <= r + g, b <= a + 1
  PROVE  n + b <= r + 1 + g
OBVIOUS

LEMMA QueueCounted ==
  ASSUME TypeOK, IsFiniteSet(retries), CopiesAreOnRecord, Counted, QueueStep PROVE Counted'
<1>1. tally' = tally /\ emitted \subseteq emitted'
  BY DEF QueueStep, Emit, TakeQueued, TakeRetry, ghosts
<1>2. ASSUME NEW x \in Pair PROVE CountedOf(x)'
  <2>1. CountedOf(x)
    BY DEF Counted
  <2>2. CASE x[1] \in emitted
    BY <1>1, <2>1, <2>2, QueueLoad, CountedFalls
  <2>3. CASE x[1] \notin emitted
    <3>1. Load(Once, x) = 0 /\ Load(Budget, x) = 0
      BY <2>3, LoadOfNew, OnceIs, BudgetIs
    <3>2. \A p \in Payload : /\ Cardinality(Once[p]) = 1
                             /\ p.retry = 0 => Cardinality(Budget[p]) = MaxRetries + 1
      BY OnceIs, BudgetIs
    <3>3. Load(Once, x)' \in Nat /\ Load(Once, x)' <= 1
      BY <3>1, <3>2, QueueLoad, OnceIs
    <3>4. Load(Budget, x)' \in Nat /\ Load(Budget, x)' <= MaxRetries + 1
      BY <3>1, <3>2, QueueLoad, BudgetIs
    <3>5. /\ (MaxRetries + 1) * tally[x].rounds \in Nat
          /\ (MaxRetries + 1) * tally[x].rounds >= MaxRetries + 1
      BY <2>1, TallyType, Product DEF CountedOf
    <3>6. tally[x].accepted = 0 /\ tally[x].attempts = 0 /\ tally[x].rounds >= 1
      BY <2>1, <2>3 DEF CountedOf
    <3>7. /\ tally[x].accepted + Load(Once, x)' <= tally[x].rounds + tally[x].again
          /\ tally[x].attempts + Load(Budget, x)' <= (MaxRetries + 1) * tally[x].rounds
      BY <3>3, <3>4, <3>5, <3>6, TallyType
    <3> QED
      BY <1>1, <3>6, <3>7 DEF CountedOf
  <2> QED
    BY <2>2, <2>3
<1> QED
  BY <1>2 DEF Counted

LEMMA LoopCounted ==
  ASSUME TypeOK, IsFiniteSet(retries), CopiesAreOnRecord, Counted, NEW w \in Worker, LoopStep(w)
  PROVE  Counted'
<1>1. PICK p : p = work[w].payload
  OBVIOUS
<1>2. PICK y : y = <<p.event, Turn(w)>>
  OBVIOUS
<1>3. p \in Payload /\ y \in Pair /\ y \in due /\ y[1] \in emitted
  <2>1. Turn(w) \in work[w].todo /\ work[w].payload \in Payload /\ Turn(w) \in Channel
    BY LoopPhases, TurnIsLeft
  <2>2. y \in due
    BY <1>1, <1>2, <2>1, LoopPhases DEF CopiesAreOnRecord
  <2> QED
    BY <1>1, <1>2, <2>1, <2>2 DEF CopiesAreOnRecord, Payload, Pair
<1>4. emitted' = emitted
  BY DEF LoopStep, SkipUnloaded, Suppress, BeginSend, SendAccepted, RecordSent, SendRefused,
     SendUnanswered, SendUnauthorised, RetryLost
<1>5. tally \in [Pair -> Tally]
  BY DEF TypeOK
<1>6. ASSUME NEW x \in Pair, x # y \/ work[w].phase # "send" PROVE CountedOf(x)'
  <2>1. \A T \in Weights : Load(T, x)' \in Nat /\ Load(T, x)' <= Load(T, x)
    BY <1>1, <1>2, <1>6, LoopLoad
  <2>2. tally'[x] = tally[x]
    BY <1>1, <1>2, <1>3, <1>5, <1>6 DEF LoopStep, SkipUnloaded, Suppress, BeginSend,
       SendAccepted, RecordSent, SendRefused, SendUnanswered, SendUnauthorised, RetryLost, ghosts
  <2> QED
    BY <1>4, <2>1, <2>2, CountedFalls DEF Counted
<1>7. CASE work[w].phase = "send"
  <2>1. /\ Load(Once, y)' \in Nat /\ Load(Budget, y)' \in Nat
        /\ Load(Once, y) \in Nat /\ Load(Budget, y) \in Nat
    BY <1>1, <1>2, <1>3, LoopLoad, LoadType, OnceIs, BudgetIs
  <2>2. Load(Once, y)' <= Load(Once, y) /\ (retries' = retries => Load(Once, y)' + 1 <= Load(Once, y))
    <3>1. \A q \in Payload : Cardinality(Once[q]) = 1
      BY OnceIs
    <3>2. \/ Load(Once, y)' + Cardinality(Once[p]) <= Load(Once, y)
          \/ /\ retries' # retries
             /\ \E q \in Payload :
                   Load(Once, y)' + Cardinality(Once[p]) <= Load(Once, y) + Cardinality(Once[q])
      BY <1>1, <1>2, <1>3, <1>7, LoopLoad, OnceIs
    <3> QED
      BY <1>3, <2>1, <3>1, <3>2
  <2>3. Load(Budget, y)' + 1 <= Load(Budget, y)
    <3>1. \A q \in Payload : /\ Cardinality(Budget[q]) = MaxRetries + 1 - q.retry
                             /\ q.retry \in 0 .. MaxRetries
      BY BudgetIs DEF Payload
    <3>2. \/ Load(Budget, y)' + Cardinality(Budget[p]) <= Load(Budget, y)
          \/ \E q \in Payload :
                /\ q.retry = p.retry + 1
                /\ Load(Budget, y)' + Cardinality(Budget[p])
                      <= Load(Budget, y) + Cardinality(Budget[q])
      BY <1>1, <1>2, <1>3, <1>7, LoopLoad, BudgetIs
    <3>3. Cardinality(Budget[p]) = MaxRetries + 1 - p.retry /\ p.retry \in 0 .. MaxRetries
      BY <1>3, <3>1
    <3>4. CASE Load(Budget, y)' + Cardinality(Budget[p]) <= Load(Budget, y)
      BY <2>1, <3>3, <3>4
    <3>5. ASSUME NEW q \in Payload, q.retry = p.retry + 1,
                 Load(Budget, y)' + Cardinality(Budget[p])
                    <= Load(Budget, y) + Cardinality(Budget[q])
          PROVE  Load(Budget, y)' + 1 <= Load(Budget, y)
      <4>1. Cardinality(Budget[q]) = MaxRetries - p.retry
        BY <3>1, <3>3, <3>5
      <4> QED
        BY <2>1, <3>3, <3>5, <4>1
    <3> QED
      BY <3>2, <3>4, <3>5
  <2>4. PICK t : t = tally[y]
    OBVIOUS
  <2>5. /\ t.accepted \in Nat /\ t.again \in Nat /\ t.attempts \in Nat /\ t.rounds \in Nat
        /\ t \in Tally
    BY <1>3, <1>5, <2>4, TallyType
  <2>6. /\ tally'[y].rounds = t.rounds /\ tally'[y].attempts = t.attempts + 1
        /\ \/ tally'[y].accepted = t.accepted /\ tally'[y].again = t.again
           \/ /\ tally'[y].accepted = t.accepted + 1
              /\ tally'[y].again = t.again + 1 \/ (tally'[y].again = t.again /\ retries' = retries)
    <3>1. CASE SendAccepted(w)
      <4>1. tally' = [tally EXCEPT ![y].attempts = @ + 1, ![y].accepted = @ + 1] /\ retries' = retries
        BY <1>1, <1>2, <3>1 DEF SendAccepted
      <4>2. tally'[y] = [t EXCEPT !.attempts = @ + 1, !.accepted = @ + 1]
        BY <1>3, <1>5, <2>4, <2>5, <4>1 DEF Tally
      <4> QED
        BY <2>5, <4>1, <4>2 DEF Tally
    <3>2. CASE SendUnanswered(w)
      <4>1. tally' = [tally EXCEPT ![y].attempts = @ + 1, ![y].accepted = @ + 1, ![y].again = @ + 1]
        BY <1>1, <1>2, <3>2 DEF SendUnanswered
      <4>2. tally'[y] = [t EXCEPT !.attempts = @ + 1, !.accepted = @ + 1, !.again = @ + 1]
        BY <1>3, <1>5, <2>4, <2>5, <4>1 DEF Tally
      <4> QED
        BY <2>5, <4>2 DEF Tally
    <3>3. CASE SendRefused(w) \/ SendUnauthorised(w) \/ RetryLost(w)
      <4>1. tally' = [tally EXCEPT ![y].attempts = @ + 1]
        BY <1>1, <1>2, <3>3 DEF SendRefused, SendUnauthorised, RetryLost
      <4>2. tally'[y] = [t EXCEPT !.attempts = @ + 1]
        BY <1>3, <1>5, <2>4, <2>5, <4>1 DEF Tally
      <4> QED
        BY <2>5, <4>2 DEF Tally
    <3> QED
      BY <1>7, <3>1, <3>2, <3>3 DEF LoopStep, SkipUnloaded, Suppress, BeginSend, RecordSent
  <2>7. CountedOf(y) /\ (MaxRetries + 1) * t.rounds \in Nat
    BY <1>3, <2>5, Product DEF Counted
  <2>8. tally'[y].accepted + Load(Once, y)' <= tally'[y].rounds + tally'[y].again
    BY <2>1, <2>2, <2>4, <2>5, <2>6, <2>7 DEF CountedOf
  <2>9. tally'[y].attempts + Load(Budget, y)' <= (MaxRetries + 1) * tally'[y].rounds
    BY <2>1, <2>3, <2>4, <2>5, <2>6, <2>7 DEF CountedOf
  <2>10. CountedOf(y)'
    BY <1>3, <1>4, <2>4, <2>6, <2>7, <2>8, <2>9 DEF CountedOf
  <2> QED
    BY <1>6, <2>10 DEF Counted
<1> QED
  BY <1>6, <1>7 DEF Counted

LEMMA RetryCounted ==
  ASSUME TypeOK, IsFiniteSet(retries), CopiesAreOnRecord, Counted,
         NEW y \in Pair, NEW i \in 1 .. Len(log[y]), RetryByHand(y, i)
  PROVE  Counted'
<1>0. tally \in [Pair -> Tally] /\ log \in [Pair -> Seq(Status)]
  BY DEF TypeOK
<1>1. PICK p : p = [event |-> y[1], retry |-> 0, scope |-> y[2]]
  OBVIOUS
<1>2. /\ p \in Payload /\ p.retry = 0 /\ queue' = Append(queue, p)
      /\ UNCHANGED <<retries, work, emitted>>
      /\ tally' = [tally EXCEPT ![y].rounds = @ + 1]
  BY <1>1 DEF RetryByHand, Payload, Pair
<1>3. ASSUME NEW T \in Weights, NEW x \in Pair
      PROVE  /\ Load(T, x) \in Nat /\ Load(T, x)' \in Nat
             /\ Load(T, x)' <= Load(T, x) + Cardinality(Tokens(T, p, x))
             /\ Cardinality(Tokens(T, p, x)) \in Nat
  <2>1. /\ Queues(T, x)' \in Nat /\ Queues(T, x)' <= Queues(T, x) + Cardinality(Tokens(T, p, x))
        /\ Waits(T, x)' = Waits(T, x) /\ \A w \in Worker : Held(T, w, x)' = Held(T, w, x)
    BY <1>2, QueuesAppend, WaitsSame, HeldSame
  <2>2. Cardinality(Tokens(T, p, x)) \in Nat
    BY <1>2, TokensType
  <2>3. Queues(T, x) \in Nat /\ Waits(T, x) \in Nat /\ \A w \in Worker : Held(T, w, x) \in Nat
    BY LoadType
  <2>4. Load(T, x) \in Nat /\ Load(T, x)' \in Nat
    BY <2>1, <2>3 DEF Load, Worker
  <2>5. Load(T, x)' <= Load(T, x) + Cardinality(Tokens(T, p, x))
    BY <2>1, <2>2, <2>3 DEF Load, Worker
  <2> QED
    BY <2>2, <2>4, <2>5
<1>4. ASSUME NEW x \in Pair, x # y PROVE CountedOf(x)'
  <2>1. \A T : Cardinality(Tokens(T, p, x)) = 0
    <3>1. ~ Carries(p, x)
      BY <1>1, <1>4 DEF Carries, Pair
    <3> QED
      BY <3>1, FS_EmptySet DEF Tokens
  <2>2. \A T \in Weights : Load(T, x)' \in Nat /\ Load(T, x)' <= Load(T, x)
    BY <1>3, <2>1
  <2>3. tally'[x] = tally[x]
    BY <1>0, <1>2, <1>4
  <2> QED
    BY <1>2, <2>2, <2>3, CountedFalls DEF Counted
<1>5. CountedOf(y)'
  <2>1. Tokens(Once, p, y) = Once[p] /\ Tokens(Budget, p, y) = Budget[p]
    BY <1>1 DEF Tokens, Carries
  <2>2. Cardinality(Once[p]) = 1 /\ Cardinality(Budget[p]) = MaxRetries + 1
    BY <1>2, OnceIs, BudgetIs
  <2>3. /\ Load(Once, y) \in Nat /\ Load(Once, y)' \in Nat /\ Load(Once, y)' <= Load(Once, y) + 1
        /\ Load(Budget, y) \in Nat /\ Load(Budget, y)' \in Nat
        /\ Load(Budget, y)' <= Load(Budget, y) + (MaxRetries + 1)
    BY <1>3, <2>1, <2>2, OnceIs, BudgetIs
  <2>4. PICK t : t = tally[y]
    OBVIOUS
  <2>5. /\ t.accepted \in Nat /\ t.again \in Nat /\ t.attempts \in Nat /\ t.rounds \in Nat
        /\ t \in Tally
    BY <1>0, <2>4, TallyType
  <2>6. /\ tally'[y].rounds = t.rounds + 1 /\ tally'[y].attempts = t.attempts
        /\ tally'[y].accepted = t.accepted /\ tally'[y].again = t.again
    <3>1. tally'[y] = [t EXCEPT !.rounds = @ + 1]
      BY <1>0, <1>2, <2>4, <2>5 DEF Tally
    <3> QED
      BY <2>5, <3>1 DEF Tally
  <2>7. /\ (MaxRetries + 1) * t.rounds \in Nat
        /\ (MaxRetries + 1) * (t.rounds + 1) = (MaxRetries + 1) * t.rounds + (MaxRetries + 1)
    BY <2>5, Product
  <2>8. /\ t.rounds >= 1 /\ (y[1] \notin emitted => t.accepted = 0 /\ t.attempts = 0)
        /\ t.accepted + Load(Once, y) <= t.rounds + t.again
        /\ t.attempts + Load(Budget, y) <= (MaxRetries + 1) * t.rounds
    BY <2>4 DEF Counted, CountedOf
  <2>9. tally'[y].accepted + Load(Once, y)' <= tally'[y].rounds + tally'[y].again
    <3>1. PICK a, b : a \in Nat /\ b \in Nat /\ a = Load(Once, y) /\ b = Load(Once, y)' /\ b <= a + 1
      BY <2>3
    <3>2. t.accepted + a <= t.rounds + t.again
      BY <2>8, <3>1
    <3>3. t.accepted + b <= t.rounds + 1 + t.again
      BY <2>5, <3>1, <3>2, OneMore
    <3> QED
      BY <2>6, <3>1, <3>3
  <2>10. tally'[y].attempts + Load(Budget, y)' <= (MaxRetries + 1) * tally'[y].rounds
    <3>1. PICK m \in Nat : m = (MaxRetries + 1) * t.rounds
      BY <2>7
    <3>2. t.attempts + Load(Budget, y)' <= m + (MaxRetries + 1)
      BY <2>3, <2>5, <2>8, <3>1
    <3> QED
      BY <2>6, <2>7, <3>1, <3>2
  <2> QED
    BY <1>2, <2>4, <2>5, <2>6, <2>8, <2>9, <2>10 DEF CountedOf
<1> QED
  BY <1>4, <1>5 DEF Counted

LEMMA NextCounted ==
  TypeOK /\ IsFiniteSet(retries) /\ CopiesAreOnRecord /\ Counted /\ [Next]_vars => Counted'
<1> SUFFICES ASSUME TypeOK, IsFiniteSet(retries), CopiesAreOnRecord, Counted, [Next]_vars
             PROVE  Counted'
  OBVIOUS
<1>0. work \in [Worker -> Hand]
  BY DEF TypeOK
<1>1. ASSUME UNCHANGED <<queue, retries, tally, emitted>>,
             \A w \in Worker : work'[w] = work[w] \/ work'[w].phase = "idle"
      PROVE  Counted'
  BY <1>1, LoadFalls, CountedFalls DEF Counted
<1>2. ASSUME NEW w \in Worker, StartStep(w) PROVE Counted'
  <2>1. UNCHANGED <<tally, emitted>>
    BY <1>2 DEF StartStep, BeginDelivery, Requeue
  <2> QED
    BY <1>2, <2>1, StartLoad, CountedFalls DEF Counted
<1>3. ASSUME NEW w \in Worker, WorkerEnds(w) \/ Supervise(w) PROVE Counted'
  BY <1>0, <1>1, <1>3 DEF WorkerEnds, Supervise, Idle, ghosts
<1>4. ASSUME NEW c \in Channel, ExpireSuppression(c) PROVE Counted'
  BY <1>1, <1>4 DEF ExpireSuppression
<1>5. CASE Restart
  BY <1>1, <1>5 DEF Restart, Idle
<1>6. ASSUME NEW o \in Operator, OperatorStep(o) PROVE Counted'
  BY <1>1, <1>6, OperatorsTouchTheCache DEF ghosts
<1>7. ASSUME NEW x \in Pair, NEW i \in 1 .. Len(log[x]), DeleteLog(x, i) PROVE Counted'
  BY <1>1, <1>7 DEF DeleteLog
<1>8. CASE UNCHANGED vars
  BY <1>1, <1>8 DEF vars, ghosts
<1> QED
  BY <1>2, <1>3, <1>4, <1>5, <1>6, <1>7, <1>8, QueueCounted, LoopCounted, RetryCounted, NextIs

-----------------------------------------------------------------------------
(* The inductive invariant and what follows from it.                          *)

IInv ==
    /\ TypeOK
    /\ WindowInv
    /\ CopiesAreOnRecord
    /\ WholesAreNew
    /\ LaterRowsAreFinal
    /\ NothingVanishes
    /\ IsFiniteSet(retries)
    /\ Counted

LEMMA InitIInv == Init => IInv
<1> SUFFICES ASSUME Init PROVE IInv
  OBVIOUS
<1>1. TypeOK
  BY InitTypeOK
<1>2. /\ DOMAIN queue = {} /\ retries = {} /\ window = {} /\ due = {} /\ excused = {}
      /\ \A w \in Worker : work[w].phase = "idle"
      /\ \A c \in Channel : late[c] = 0
      /\ \A x \in Pair : log[x] = <<>> /\ Len(log[x]) = 0
  BY DEF Init, Idle
<1>3. WindowInv
  BY <1>2 DEF WindowInv
<1>4. CopiesAreOnRecord
  BY <1>2 DEF CopiesAreOnRecord
<1>5. WholesAreNew
  BY <1>2 DEF WholesAreNew, WholeTaken
<1>6. LaterRowsAreFinal
  BY <1>2 DEF LaterRowsAreFinal
<1>7. NothingVanishes
  BY <1>2 DEF NothingVanishes
<1>8. IsFiniteSet(retries)
  BY <1>2, FS_EmptySet
<1>9. ASSUME NEW x \in Pair PROVE CountedOf(x)
  <2>1. Load(Once, x) = 0 /\ Load(Budget, x) = 0
    <3>1. emitted = {}
      BY DEF Init
    <3> QED
      BY <1>1, <1>4, <3>1, LoadOfNew, OnceIs, BudgetIs
  <2>2. /\ tally[x].rounds = 1 /\ tally[x].accepted = 0
        /\ tally[x].attempts = 0 /\ tally[x].again = 0
    BY DEF Init
  <2> QED
    BY <2>1, <2>2 DEF CountedOf
<1> QED
  BY <1>1, <1>3, <1>4, <1>5, <1>6, <1>7, <1>8, <1>9 DEF IInv, Counted

LEMMA NextIInv == IInv /\ [Next]_vars => IInv'
<1> SUFFICES ASSUME IInv, [Next]_vars PROVE IInv'
  OBVIOUS
<1>1. TypeOK'
  BY NextTypeOK DEF IInv
<1>2. WindowInv' /\ CopiesAreOnRecord' /\ WholesAreNew' /\ LaterRowsAreFinal'
  BY NextWindowInv, NextOnRecord, NextWholes, NextRows DEF IInv
<1>3. \A x \in due \ excused : Safe(x)
  BY SafeIs DEF IInv, TypeOK
<1>4. \A x \in due' \ excused' : Safe(x)'
  BY <1>3, NextSafe DEF IInv
<1>5. (due \subseteq Pair)' /\ (\A x \in due \ excused : Safe(x))'
  BY <1>1, <1>4 DEF TypeOK
<1>6. NothingVanishes'
  BY <1>5, SafeIs, PTL
<1>7. IsFiniteSet(retries)' /\ Counted'
  BY FiniteRetries, NextCounted DEF IInv
<1> QED
  BY <1>1, <1>2, <1>6, <1>7 DEF IInv

LEMMA Invariance == Spec => []IInv
BY InitIInv, NextIInv, PTL DEF Spec

(* Every variable keeps its type: what the queue, the retry set, the workers, *)
(* the cache of channels and the log hold, whatever channels answer, workers  *)
(* die and operators edit.                                                    *)
THEOREM TypeCorrect == Spec => []TypeOK
<1>1. IInv => TypeOK
  BY DEF IInv
<1> QED
  BY <1>1, Invariance, PTL

(* check_suppression and set_suppression are two steps of two workers: while  *)
(* the window of a channel is open, at most one ordinary message still gets   *)
(* through, whatever the number of events and channels.                       *)
THEOREM WindowsHold == Spec => []WindowHolds
<1>1. IInv => WindowHolds
  BY DEF IInv, WindowInv, TypeOK, WindowHolds
<1> QED
  BY <1>1, Invariance, PTL

(* The delivery loop, _schedule_retry, _requeue and the manual retry never    *)
(* drop a notification that was begun: it is taken, has a closed row or is on *)
(* its way, unless one of the named losses met it.                            *)
THEOREM NoneVanishes == Spec => []NothingVanishes
<1>1. IInv => NothingVanishes
  BY DEF IInv
<1> QED
  BY <1>1, Invariance, PTL

(* The retries, the requeues and the siblings of a delivery never hand a      *)
(* channel a notification again: it is accepted once for each time it was     *)
(* asked for, but for the answers that were lost.                             *)
THEOREM AcceptedOnce == Spec => []DeliveredOnce
<1>1. ASSUME IInv, NEW x \in Pair PROVE tally[x].accepted <= tally[x].rounds + tally[x].again
  <2>1. Load(Once, x) \in Nat /\ tally[x].accepted + Load(Once, x) <= tally[x].rounds + tally[x].again
    BY <1>1, LoadType, OnceIs DEF IInv, Counted, CountedOf
  <2> QED
    BY <1>1, <2>1, TallyType DEF IInv
<1>2. IInv => DeliveredOnce
  BY <1>1 DEF DeliveredOnce
<1> QED
  BY <1>2, Invariance, PTL

(* _requeue and _schedule_retry spend one budget, MAX_RETRIES: a channel is   *)
(* tried at most MaxRetries + 1 times for each time it was asked for, for any *)
(* MaxRetries and however many copies are under way.                          *)
THEOREM TriesBounded == Spec => []TriesAreBounded
<1>1. ASSUME IInv, NEW x \in Pair PROVE tally[x].attempts <= (MaxRetries + 1) * tally[x].rounds
  <2>1. /\ Load(Budget, x) \in Nat
        /\ tally[x].attempts + Load(Budget, x) <= (MaxRetries + 1) * tally[x].rounds
    BY <1>1, LoadType, BudgetIs DEF IInv, Counted, CountedOf
  <2>2. tally[x].attempts \in Nat /\ (MaxRetries + 1) * tally[x].rounds \in Nat
    BY <1>1, TallyType, Product DEF IInv
  <2> QED
    BY <2>1, <2>2
<1>2. IInv => TriesAreBounded
  BY <1>1 DEF TriesAreBounded
<1> QED
  BY <1>2, Invariance, PTL

===============================================================================
