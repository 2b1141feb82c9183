------------------------ MODULE NotificationDelivery ------------------------
(***************************************************************************)
(* The notification pipeline.  emit() pushes an event on a Redis list; the *)
(* main worker pops it and tries every channel subscribed to it, one after *)
(* the other; a channel that refuses gets a retry of its own in a Redis    *)
(* sorted set, which the retry worker serves.  Rules suppress a channel    *)
(* for a window after a delivery and escalate an event that is frequent.   *)
(* Operators edit channels, which reloads the workers' cache of channels,  *)
(* and retry notifications by hand.                                        *)
(*                                                                         *)
(* All events are of one type: the keys of the rules differ by the type    *)
(* and types do not meet otherwise.  Time is left out: a retry may be      *)
(* served, and a key of Redis may expire, at any moment; a retry is never  *)
(* due (10 seconds at least) before its row is written.                    *)
(***************************************************************************)
EXTENDS Naturals, Sequences

CONSTANTS
    Event, Channel,
    Operator,        \* operators who edit channels at the same time
    MaxRetries,      \* MAX_RETRIES
    Suppressing,     \* the channels whose rule has suppress_enabled
    Threshold,       \* escalate_threshold of the first escalating rule; 0: none
    Mail,            \* the e-mail channels: only they answer AUTH_ERROR
    MaxDisturbance   \* bound on edits, failures and manual retries

ASSUME BoundsAssumption == {MaxRetries, Threshold, MaxDisturbance} \subseteq Nat
ASSUME ChannelAssumption == Suppressing \cup Mail \subseteq Channel /\ {"all", "none"} \cap Channel = {}

VARIABLES
    queue,       \* notify:queue:main, the next payload first
    retries,     \* notify:queue:retry
    work,        \* what each worker has in hand
    stored,      \* the channels as the database has them
    loaded,      \* the cache: loaded channels, whether they are subscribed
    reload,      \* each operator's reload of the cache: its phase and what it read
    window,      \* channels whose suppression key is set
    escalation,  \* the counter of check_escalation
    log,         \* rows of notification_logs, by event and channel
    due,         \* pairs a delivery was begun for
    excused,     \* pairs lost to a crash, to Redis or to an operator
    tally,       \* attempts, acceptances, and what allows more than one
    late,        \* acceptances of ordinary events while the window was set
    emitted,     \* the events emitted so far
    disturbed    \* edits, failures and manual retries so far

vars == <<queue, retries, work, stored, loaded, reload, window, escalation, log,
          due, excused, tally, late, emitted, disturbed>>
rules == <<window, escalation>>
cache == <<stored, loaded, reload>>
ghosts == <<due, excused, tally, late>>

Worker == {"main", "retry"}
Pair == Event \X Channel
Payload == [event : Event, retry : 0 .. MaxRetries, scope : Channel \cup {"all"}]
\* A channel in the database: absent or disabled, enabled without any event,
\* with other events, with this one.
Setting == {"off", "silent", "unsubscribed", "subscribed"}
Status == {"pending", "retrying", "sent", "failed", "suppressed"}
Closed == {"sent", "failed", "suppressed"}
Open == {"failed", "retrying"}

NoPayload == [event |-> "none", retry |-> 0, scope |-> "all"]
Idle == [alive |-> TRUE, escalated |-> FALSE, payload |-> NoPayload, phase |-> "idle",
         ruled |-> TRUE, todo |-> {}]
Hand == [alive : BOOLEAN, escalated : BOOLEAN, payload : Payload \cup {NoPayload},
         phase : {"idle", "taken", "deliver", "send", "sent"}, ruled : BOOLEAN,
         todo : SUBSET Channel]
Tally == [accepted : Nat, again : Nat, attempts : Nat, rounds : Nat]

TypeOK ==
    /\ queue \in Seq(Payload) /\ retries \subseteq Payload
    /\ work \in [Worker -> Hand]
    /\ \A w \in Worker :
        /\ work[w].phase # "idle" => work[w].alive /\ work[w].payload \in Payload
        /\ work[w].phase \notin {"idle", "taken"} => work[w].todo # {}
    /\ stored \in [Channel -> Setting]
    /\ DOMAIN loaded \subseteq Channel /\ loaded \in [DOMAIN loaded -> BOOLEAN]
    /\ reload \in [Operator -> [phase : {"no", "committed", "cleared", "read", "failed"},
                                read : [Channel -> Setting]]]
    /\ window \subseteq Suppressing
    /\ escalation \in Nat /\ (Threshold > 0 => escalation < Threshold)
    /\ log \in [Pair -> Seq(Status)]
    /\ due \subseteq Pair /\ excused \subseteq Pair
    /\ tally \in [Pair -> Tally]
    /\ late \in [Channel -> Nat]
    /\ emitted \subseteq Event
    /\ disturbed \in 0 .. MaxDisturbance

\* What initialize_channels puts in the cache.
LoadedFrom(table) ==
    [c \in {d \in Channel : table[d] # "off"} |->
        table[c] = "subscribed"]

Init ==
    /\ queue = <<>> /\ retries = {}
    /\ work = [w \in Worker |-> Idle]
    /\ stored = [c \in Channel |-> "subscribed"]
    /\ loaded = LoadedFrom(stored)
    /\ reload = [o \in Operator |-> [phase |-> "no", read |-> stored]]
    /\ window = {} /\ escalation = 0
    /\ log = [p \in Pair |-> <<>>]
    /\ due = {} /\ excused = {}
    /\ tally = [p \in Pair |-> [accepted |-> 0, again |-> 0, attempts |-> 0, rounds |-> 1]]
    /\ late = [c \in Channel |-> 0]
    /\ emitted = {} /\ disturbed = 0

Disturb == disturbed < MaxDisturbance /\ disturbed' = disturbed + 1

-----------------------------------------------------------------------------
(* The log. *)

\* log_retrying and log_failed look for the one row of the event and channel
\* and write it anew; with two rows the query raises and nothing is written.
LogOne(p, status) ==
    log' = [log EXCEPT ![p] = IF Len(@) > 1 THEN @ ELSE <<status>>]
\* log_sent and log_suppressed add a row.
LogMore(p, status) == log' = [log EXCEPT ![p] = Append(@, status)]

-----------------------------------------------------------------------------
(* The workers. *)

\* emit_event, and the workers' emit: LPUSH of an event with a fresh id.
\* (When Redis refuses, the event is as if it had not been emitted.)
Emit ==
    /\ emitted # Event
    /\ LET e == CHOOSE x \in Event \ emitted : TRUE IN
       /\ emitted' = emitted \cup {e}
       /\ queue' = Append(queue, [event |-> e, retry |-> 0, scope |-> "all"])
    /\ UNCHANGED <<retries, work, cache, rules, log, ghosts, disturbed>>

\* The pairs a payload stands for, of those a delivery was begun for.
Carries(p, x) == p.event = x[1] /\ p.scope \in {"all", x[2]}
Cargo(p) == {x \in due : Carries(p, x)}

Free(w) == work[w].alive /\ work[w].phase = "idle"
TakeUp(w, p) == work' = [work EXCEPT ![w].payload = p, ![w].phase = "taken"]

\* BRPOP.
TakeQueued ==
    /\ Free("main") /\ queue # <<>>
    /\ TakeUp("main", Head(queue))
    /\ queue' = Tail(queue)
    /\ UNCHANGED <<retries, cache, rules, log, ghosts, emitted, disturbed>>

\* ZRANGEBYSCORE and ZREM of a member that is due.
TakeRetry(p) ==
    /\ Free("retry") /\ p \in retries
    /\ TakeUp("retry", p)
    /\ retries' = retries \ {p}
    /\ UNCHANGED <<queue, cache, rules, log, ghosts, emitted, disturbed>>

\* The channels of a delivery: a retry's own, if it is still loaded, whether
\* or not it is still subscribed; else all that are subscribed.
Targets(p) ==
    IF p.scope = "all"
    THEN {c \in DOMAIN loaded : loaded[c]}
    ELSE {p.scope} \cap DOMAIN loaded

\* Mutated: the counter is not deleted at the threshold.
CheckEscalationKept(w, ruled, over) ==
    LET count == 1 + IF over THEN 0 ELSE escalation
        checked == ruled /\ Threshold > 0
    IN /\ escalation' = IF checked THEN count ELSE escalation
       /\ work' = [work EXCEPT ![w].phase = "deliver", ![w].todo = Targets(work[w].payload),
                               ![w].ruled = ruled,
                               ![w].escalated = checked /\ count >= Threshold]
\* check_escalation counts the delivery, from one again when escalate_window
\* is over; at the threshold the event is escalated and the counter deleted.
CheckEscalation(w, ruled, over) ==
    LET count == 1 + IF over THEN 0 ELSE escalation
        checked == ruled /\ Threshold > 0
        escalates == checked /\ count >= Threshold
    IN /\ escalation' = IF escalates THEN 0 ELSE IF checked THEN count ELSE escalation
       /\ work' = [work EXCEPT ![w].phase = "deliver", ![w].todo = Targets(work[w].payload),
                               ![w].ruled = ruled, ![w].escalated = escalates]

\* The start of _deliver_notification.  Nobody to deliver to: the payload is
\* dropped.  ruled is FALSE when the rules cannot be read: there are none.
BeginDelivery(w, ruled) ==
    /\ work[w].phase = "taken"
    /\ IF ruled THEN UNCHANGED disturbed ELSE Targets(work[w].payload) # {} /\ Disturb
    /\ LET p == work[w].payload IN
       IF Targets(p) = {}
       THEN /\ work' = [work EXCEPT ![w] = Idle]
            /\ excused' = excused \cup Cargo(p)
            /\ UNCHANGED <<escalation, due>>
       ELSE /\ \E over \in BOOLEAN : CheckEscalation(w, ruled, over)
            /\ due' = due \cup ({p.event} \X Targets(p))
            /\ UNCHANGED excused
    /\ UNCHANGED <<queue, retries, cache, window, log, tally, late, emitted>>

\* _requeue, when the start of a delivery raises: the payload goes to the
\* retry set as a whole, or is dropped when it has been there often enough.
Requeue(w) ==
    /\ work[w].phase = "taken"
    /\ Disturb
    /\ LET p == work[w].payload IN
       IF p.retry < MaxRetries
       THEN retries' = retries \cup {[p EXCEPT !.retry = @ + 1]} /\ UNCHANGED excused
       ELSE UNCHANGED retries /\ excused' = excused \cup Cargo(p)
    /\ work' = [work EXCEPT ![w] = Idle]
    /\ UNCHANGED <<queue, cache, rules, log, due, tally, late, emitted>>

\* One round of the loop is over; after the last one the worker is free.
RoundOver(w, c) ==
    LET left == work[w].todo \ {c} IN
    work' = [work EXCEPT ![w] = IF left = {} THEN Idle
                                ELSE [work[w] EXCEPT !.todo = left, !.phase = "deliver"]]
\* The loop goes through the channels in the order they were loaded in.
Turn(w) == CHOOSE c \in work[w].todo : TRUE
Ruled(w, c) == work[w].ruled /\ c \in Suppressing
\* Mutated: the suppression key is looked up under another name.
SuppressedByNothing(w, c) == FALSE
Suppressed(w, c) == Ruled(w, c) /\ ~ work[w].escalated /\ c \in window

\* The next channel of the loop: gone from the cache meanwhile, or
\* suppressed, or to be sent to.
SkipUnloaded(w) ==
    /\ work[w].phase = "deliver" /\ Turn(w) \notin DOMAIN loaded
    /\ RoundOver(w, Turn(w))
    /\ excused' = excused \cup {<<work[w].payload.event, Turn(w)>>}
    /\ UNCHANGED <<queue, retries, cache, rules, log, due, tally, late, emitted, disturbed>>

Suppress(w) ==
    /\ work[w].phase = "deliver" /\ Turn(w) \in DOMAIN loaded
    /\ Suppressed(w, Turn(w))
    /\ RoundOver(w, Turn(w))
    /\ LogMore(<<work[w].payload.event, Turn(w)>>, "suppressed")
    /\ UNCHANGED <<queue, retries, cache, rules, ghosts, emitted, disturbed>>

BeginSend(w) ==
    /\ work[w].phase = "deliver" /\ Turn(w) \in DOMAIN loaded
    /\ ~ Suppressed(w, Turn(w))
    /\ work' = [work EXCEPT ![w].phase = "send"]
    /\ UNCHANGED <<queue, retries, cache, rules, log, ghosts, emitted, disturbed>>

\* The channel's answers.  A message that is taken while the window is open,
\* and that is ordinary, comes late.
Taken(w, c) ==
    late' = IF c \in window /\ Ruled(w, c) /\ ~ work[w].escalated
            THEN [late EXCEPT ![c] = @ + 1] ELSE late

SendAccepted(w) ==
    /\ work[w].phase = "send"
    /\ LET c == Turn(w)  x == <<work[w].payload.event, c>> IN
       /\ tally' = [tally EXCEPT ![x].attempts = @ + 1, ![x].accepted = @ + 1]
       /\ Taken(w, c)
    /\ work' = [work EXCEPT ![w].phase = "sent"]
    /\ UNCHANGED <<queue, retries, cache, rules, log, due, excused, emitted, disturbed>>

\* set_suppression and log_sent.
RecordSent(w) ==
    /\ work[w].phase = "sent"
    /\ LET c == Turn(w) IN
       /\ window' = IF Ruled(w, c) THEN window \cup {c} ELSE window
       /\ LogMore(<<work[w].payload.event, c>>, "sent")
       /\ RoundOver(w, c)
    /\ UNCHANGED <<queue, retries, cache, escalation, ghosts, emitted, disturbed>>

\* Mutated: the last failure is not logged.
ScheduleOrForget(p, c) ==
    IF p.retry < MaxRetries
    THEN /\ retries' = retries \cup {[event |-> p.event, retry |-> p.retry + 1, scope |-> c]}
         /\ LogOne(<<p.event, c>>, "retrying")
    ELSE UNCHANGED <<retries, log>>
\* Mutated: the retry is not scoped to the channel that failed.
ScheduleAllOrFail(p, c) ==
    IF p.retry < MaxRetries
    THEN /\ retries' = retries \cup {[event |-> p.event, retry |-> p.retry + 1, scope |-> "all"]}
         /\ LogOne(<<p.event, c>>, "retrying")
    ELSE LogOne(<<p.event, c>>, "failed") /\ UNCHANGED retries
\* Mutated: a retry starts with a fresh budget.
ScheduleAfreshOrFail(p, c) ==
    IF p.retry < MaxRetries
    THEN /\ retries' = retries \cup {[event |-> p.event, retry |-> p.retry, scope |-> c]}
         /\ LogOne(<<p.event, c>>, "retrying")
    ELSE LogOne(<<p.event, c>>, "failed") /\ UNCHANGED retries
\* _schedule_retry for this channel alone, or log_failed after the last try.
ScheduleOrFail(p, c) ==
    IF p.retry < MaxRetries
    THEN /\ retries' = retries \cup {[event |-> p.event, retry |-> p.retry + 1, scope |-> c]}
         /\ LogOne(<<p.event, c>>, "retrying")
    ELSE /\ LogOne(<<p.event, c>>, "failed")
         /\ UNCHANGED retries

SendRefused(w) ==
    /\ work[w].phase = "send"
    /\ LET c == Turn(w)  p == work[w].payload IN
       /\ ScheduleOrFail(p, c)
       /\ tally' = [tally EXCEPT ![<<p.event, c>>].attempts = @ + 1]
       /\ RoundOver(w, c)
    /\ UNCHANGED <<queue, cache, rules, due, excused, late, emitted, disturbed>>

\* The channel took the message, and its answer timed out.
SendUnanswered(w) ==
    /\ work[w].phase = "send"
    /\ Disturb
    /\ LET c == Turn(w)  p == work[w].payload IN
       /\ ScheduleOrFail(p, c)
       /\ tally' = [tally EXCEPT ![<<p.event, c>>].attempts = @ + 1,
                                 ![<<p.event, c>>].accepted = @ + 1,
                                 ![<<p.event, c>>].again = @ + 1]
       /\ Taken(w, c)
       /\ RoundOver(w, c)
    /\ UNCHANGED <<queue, cache, rules, due, excused, emitted>>

\* AUTH_ERROR of the e-mail channel is final.
SendUnauthorised(w) ==
    /\ work[w].phase = "send" /\ Turn(w) \in Mail
    /\ LET c == Turn(w)  x == <<work[w].payload.event, c>> IN
       /\ LogOne(x, "failed")
       /\ tally' = [tally EXCEPT ![x].attempts = @ + 1]
       /\ RoundOver(w, c)
    /\ UNCHANGED <<queue, retries, cache, rules, due, excused, late, emitted, disturbed>>

\* Redis refuses the retry: _schedule_retry logs the error and returns.
RetryLost(w) ==
    /\ work[w].phase = "send" /\ work[w].payload.retry < MaxRetries
    /\ Disturb
    /\ LET c == Turn(w)  x == <<work[w].payload.event, c>> IN
       /\ tally' = [tally EXCEPT ![x].attempts = @ + 1]
       /\ excused' = excused \cup {x}
       /\ RoundOver(w, c)
    /\ UNCHANGED <<queue, retries, cache, rules, log, due, late, emitted>>

-----------------------------------------------------------------------------
(* Keys that expire, workers that end, restarts. *)

ExpireSuppression(c) ==
    /\ c \in window
    /\ window' = window \ {c}
    /\ late' = [late EXCEPT ![c] = 0]
    /\ UNCHANGED <<queue, retries, work, cache, escalation, log, due, excused, tally,
                   emitted, disturbed>>

\* What a worker that ends takes with it.
InHand(w) ==
    CASE work[w].phase = "idle" -> {}
      [] work[w].phase = "taken" -> Cargo(work[w].payload)
      [] OTHER -> {work[w].payload.event} \X work[w].todo

\* An exception gets past the handlers of a worker's loop; the supervisor finds
\* the task done and starts it again.  (It would leave a cancelled one as it is,
\* but only stop_workers cancels.)
WorkerEnds(w) ==
    /\ work[w].alive
    /\ Disturb
    /\ work' = [work EXCEPT ![w] = [Idle EXCEPT !.alive = FALSE]]
    /\ excused' = excused \cup InHand(w)
    /\ UNCHANGED <<queue, retries, cache, rules, log, due, tally, late, emitted>>

\* Mutated: the supervisor watches the main worker only.
SuperviseMain(w) ==
    /\ w = "main" /\ ~ work[w].alive
    /\ work' = [work EXCEPT ![w] = Idle]
    /\ UNCHANGED <<queue, retries, cache, rules, log, ghosts, emitted, disturbed>>
Supervise(w) ==
    /\ ~ work[w].alive
    /\ work' = [work EXCEPT ![w] = Idle]
    /\ UNCHANGED <<queue, retries, cache, rules, log, ghosts, emitted, disturbed>>

\* The process stops (stop_workers cancels what is under way) or dies, and
\* starts again: default subscriptions, channels, workers.
Restart ==
    /\ Disturb
    /\ work' = [w \in Worker |-> Idle]
    /\ excused' = excused \cup UNION {InHand(w) : w \in Worker}
    /\ stored' = [c \in Channel |-> IF stored[c] = "silent" THEN "subscribed" ELSE stored[c]]
    /\ loaded' = LoadedFrom(stored')
    /\ reload' = [o \in Operator |-> [phase |-> "no", read |-> stored']]
    /\ UNCHANGED <<queue, retries, rules, log, due, tally, late, emitted>>

-----------------------------------------------------------------------------
(* Operators. *)

\* create_channel (which fills in missing events), update_channel and
\* delete_channel commit, then reload the cache of the workers.
EditChannel(o, c, setting) ==
    /\ reload[o].phase \in {"no", "failed"}
    /\ setting # stored[c]
    /\ Disturb
    /\ stored' = [stored EXCEPT ![c] = setting]
    /\ reload' = [reload EXCEPT ![o].phase = "committed"]
    /\ UNCHANGED <<queue, retries, work, loaded, rules, log, ghosts, emitted>>

\* initialize_channels clears the cache, reads the table and fills the cache.
ClearCache(o) ==
    /\ reload[o].phase = "committed"
    /\ loaded' = [c \in {} |-> FALSE]
    /\ reload' = [reload EXCEPT ![o].phase = "cleared"]
    /\ UNCHANGED <<queue, retries, work, stored, rules, log, ghosts, emitted, disturbed>>

ReadChannels(o) ==
    /\ reload[o].phase = "cleared"
    /\ reload' = [reload EXCEPT ![o].phase = "read", ![o].read = stored]
    /\ UNCHANGED <<queue, retries, work, stored, loaded, rules, log, ghosts, emitted, disturbed>>

FillCache(o) ==
    /\ reload[o].phase = "read"
    /\ LET new == LoadedFrom(reload[o].read)
       IN loaded' = [c \in DOMAIN new \cup DOMAIN loaded |->
                       IF c \in DOMAIN new THEN new[c] ELSE loaded[c]]
    /\ reload' = [reload EXCEPT ![o].phase = "no"]
    /\ UNCHANGED <<queue, retries, work, stored, rules, log, ghosts, emitted, disturbed>>

\* The read fails: the cache stays empty until the next edit or restart.
ReloadFails(o) ==
    /\ reload[o].phase = "cleared"
    /\ reload' = [reload EXCEPT ![o].phase = "failed"]
    /\ UNCHANGED <<queue, retries, work, stored, loaded, rules, log, ghosts, emitted, disturbed>>

\* retry_failed_notification: LPUSH first, then the row; the commit may
\* fail, which leaves the row as it was.
RetryByHand(x, i) ==
    /\ Disturb
    /\ i \in DOMAIN log[x] /\ log[x][i] \in Open
    /\ queue' = Append(queue, [event |-> x[1], retry |-> 0, scope |-> x[2]])
    /\ tally' = [tally EXCEPT ![x].rounds = @ + 1]
    /\ log' = [log EXCEPT ![x][i] = "pending"] \/ UNCHANGED log
    /\ UNCHANGED <<retries, work, cache, rules, due, excused, late, emitted>>

\* DELETE /notifications/logs/{id} and the clean-up of archived rows.
DeleteLog(x, i) ==
    /\ i \in DOMAIN log[x]
    /\ Disturb
    /\ log' = [log EXCEPT ![x] = SubSeq(@, 1, i - 1) \o SubSeq(@, i + 1, Len(@))]
    /\ excused' = excused \cup {x}
    /\ UNCHANGED <<queue, retries, work, cache, rules, due, tally, late, emitted>>

Deliver(w) ==
    \/ BeginDelivery(w, TRUE)
    \/ SkipUnloaded(w) \/ Suppress(w) \/ BeginSend(w)
    \/ SendAccepted(w) \/ RecordSent(w) \/ SendRefused(w) \/ SendUnauthorised(w)

Next ==
    \/ Emit
    \/ TakeQueued \/ \E p \in Payload : TakeRetry(p)
    \/ \E w \in Worker :
        \/ Deliver(w)
        \/ BeginDelivery(w, FALSE) \/ Requeue(w) \/ SendUnanswered(w) \/ RetryLost(w)
        \/ WorkerEnds(w) \/ Supervise(w)
    \/ \E c \in Channel : ExpireSuppression(c)
    \/ Restart
    \/ \E o \in Operator :
        \/ \E c \in Channel, setting \in Setting : EditChannel(o, c, setting)
        \/ ClearCache(o) \/ ReadChannels(o) \/ FillCache(o) \/ ReloadFails(o)
    \/ \E x \in Pair : \E i \in 1 .. Len(log[x]) : RetryByHand(x, i) \/ DeleteLog(x, i)

\* The workers are loops of the event loop, the supervisor another.
Fairness ==
    /\ WF_vars(TakeQueued) /\ \A p \in Payload : WF_vars(TakeRetry(p))
    /\ \A w \in Worker : WF_vars(Deliver(w)) /\ WF_vars(Supervise(w))
Spec == Init /\ [][Next]_vars /\ Fairness

-----------------------------------------------------------------------------
(* Properties. *)

\* A copy of the payload of a pair is queued, waits for its retry or is in a
\* worker's hands with this channel still to do.
OnItsWay(x) ==
    \/ \E i \in DOMAIN queue : Carries(queue[i], x)
    \/ \E p \in retries : Carries(p, x)
    \/ \E w \in Worker : work[w].phase = "taken" /\ Carries(work[w].payload, x)
    \/ \E w \in Worker : work[w].phase # "taken" /\ x \in InHand(w)

\* No notification vanishes: once a delivery has begun, a subscribed channel
\* has the message, or a row says it failed or was suppressed, or a copy is
\* on its way; the exceptions are named: a payload in the hands of a worker
\* that ended, a channel unloaded meanwhile, a retry Redis refused, too many
\* requeues, a deleted row.
NothingVanishes ==
    \A x \in due \ excused :
        \/ tally[x].accepted > 0
        \/ \E i \in DOMAIN log[x] : log[x][i] \in Closed
        \/ OnItsWay(x)

\* A channel gets a notification once, however its siblings fare and however
\* often the payload is retried, but for answers that were lost and retries
\* an operator asked for.
DeliveredOnce ==
    \A x \in Pair : tally[x].accepted <= tally[x].rounds + tally[x].again

\* Requeues and retries share one budget: a channel is tried at most
\* MaxRetries + 1 times for each time the notification was asked for.
TriesAreBounded ==
    \A x \in Pair : tally[x].attempts <= (MaxRetries + 1) * tally[x].rounds

\* While a suppression window is open at most one ordinary notification
\* still gets through: the one the other worker had checked before.
WindowHolds == \A c \in Channel : late[c] <= 1

\* Everything emitted is done with in the end, whatever the channels answer.
EverythingIsProcessed ==
    <>[](queue = <<>> /\ retries = {} /\ \A w \in Worker : work[w].phase = "idle")

=============================================================================
