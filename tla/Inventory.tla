------------------------------- MODULE Inventory -------------------------------
(* The table of terminals and who adds to it and removes from it: the ARP     *)
(* collector, which reads the tables of the switches, drops what an exclusion *)
(* rule covers, and marks offline what it has not seen for long; the exclusion*)
(* rules, whose edits purge the table or return rows to the statistics; the   *)
(* data sources, whose deletion takes their rows along.  Each works in a      *)
(* transaction of its own and decides by what it read before.                 *)
(*                                                                            *)
(* A terminal is a (MAC, IP) pair, a rule the set of pairs it matches, a      *)
(* source a switch and its tag.  Verdicts and firewalls are in other modules; *)
(* of them only the status, the block_state and the active blacklist entry of *)
(* a terminal are here.                                                       *)
EXTENDS Naturals

CONSTANTS
    Terminal, Rule, Source,
    Scheduled,      \* the scheduler's collection
    Request,        \* "sync now" of one source
    Operator,       \* requests that edit rules and sources
    None,
    MaxDisturbance  \* bound on edits, moves, verdicts, errors and crashes

ASSUME ProcessAssumption ==
    /\ Scheduled \intersect (Request \union Operator) = {}
    /\ Request \intersect Operator = {}
ASSUME NoneAssumption == None \notin Source
ASSUME DisturbanceAssumption == MaxDisturbance \in Nat

VARIABLES
    covers,         \* what each rule matches, {} when there is no such rule
    active,         \* rules.is_active
    sources,        \* data sources: "absent", "off" (disabled), "on"
    present,        \* what the switches' ARP tables hold
    tag,            \* source_tag of each row, None when there is no row
    blocked,        \* rows with status blocked
    listed,         \* source_tag of the active blacklist entry, None without one
    state,          \* block_state of each row
    flagged,        \* rows with excluded_by_rule
    stale,          \* rows not updated for longer than the threshold
    pc, job,        \* what each process is doing, and for which source
    round,          \* sources a collection has still to ask
    saw,            \* the entries it was given
    known,          \* what the rules it loaded, or the rule it edited, match
    plan,           \* what its transaction will do
    belated,        \* rows flagged by rules that no longer covered them
    interrupted,    \* an edit of a rule died before its clean-up
    disturbances
table == <<tag, blocked, state, flagged, stale>>
world == <<covers, active, sources, present>>
local == <<pc, job, round, saw, known, plan>>
ghost == <<belated, interrupted>>
vars == <<table, world, local, ghost, listed, disturbances>>

Collector == Scheduled \union Request
Process == Collector \union Operator
Rows == {t \in Terminal : tag[t] # None}
Covered == UNION {covers[r] : r \in active}
Listed == {t \in Terminal : listed[t] # None}

(* drop, flag, clear: rows deleted, flagged, unflagged; touch, add: rows      *)
(* updated and inserted; back, gone: found again and missed; free: blocked    *)
(* rows still to be released.                                                 *)
NoPlan == [add |-> {}, back |-> {}, clear |-> {}, drop |-> {}, flag |-> {},
           free |-> {}, gone |-> {}, touch |-> {}]
PlanType == [add : SUBSET Terminal, back : SUBSET Terminal, clear : SUBSET Terminal,
             drop : SUBSET Terminal, flag : SUBSET Terminal, free : SUBSET Terminal,
             gone : SUBSET Terminal, touch : SUBSET Terminal]
Step == {"idle", "asking", "answered", "saving", "detecting", "marking",
         "purging", "replacing", "freeing", "refreshing", "clearing", "sweeping", "removing"}

TypeOK ==
    /\ covers \in [Rule -> SUBSET Terminal] /\ active \subseteq {r \in Rule : covers[r] # {}}
    /\ sources \in [Source -> {"absent", "off", "on"}]
    /\ present \in [Source -> SUBSET Terminal]
    /\ tag \in [Terminal -> Source \union {None}]
    /\ listed \in [Terminal -> Source \union {None}]
    /\ blocked \subseteq Rows /\ flagged \subseteq Rows /\ stale \subseteq Rows
    /\ state \in [Terminal -> {"none", "offline", "failed"}]
    /\ \A t \in Terminal \ Rows : state[t] = "none"
    /\ pc \in [Process -> Step]
    /\ job \in [Process -> Source \union {None}]
    /\ round \in [Collector -> SUBSET Source]
    /\ saw \in [Collector -> SUBSET Terminal]
    /\ known \in [Process -> SUBSET Terminal]
    /\ plan \in [Process -> PlanType]
    /\ belated \subseteq Terminal /\ interrupted \in BOOLEAN
    /\ disturbances \in 0 .. MaxDisturbance

Init ==
    /\ covers = [r \in Rule |-> {}] /\ active = {}
    /\ sources = [s \in Source |-> "on"]
    /\ present \in [Source -> SUBSET Terminal]
    /\ tag = [t \in Terminal |-> None]
    /\ listed = [t \in Terminal |-> None]
    /\ blocked = {} /\ flagged = {} /\ stale = {}
    /\ state = [t \in Terminal |-> "none"]
    /\ pc = [p \in Process |-> "idle"]
    /\ job = [p \in Process |-> None]
    /\ round = [c \in Collector |-> {}]
    /\ saw = [c \in Collector |-> {}]
    /\ known = [p \in Process |-> {}]
    /\ plan = [p \in Process |-> NoPlan]
    /\ belated = {} /\ interrupted = FALSE
    /\ disturbances = 0

Disturb == disturbances < MaxDisturbance /\ disturbances' = disturbances + 1
Calm == UNCHANGED disturbances
Goto(p, step) == pc' = [pc EXCEPT ![p] = step]
Plan(p, pl) == plan' = [plan EXCEPT ![p] = pl]
Learn(p, ts) == known' = [known EXCEPT ![p] = ts]

\* The process is through, its session closed.
Finish(p) ==
    /\ Goto(p, "idle") /\ Learn(p, {}) /\ Plan(p, NoPlan)
    /\ job' = [job EXCEPT ![p] = None]
    /\ saw' = [c \in Collector |-> IF c = p THEN {} ELSE saw[c]]

\* The rows that go, with all their columns.
Delete(ts) ==
    /\ blocked' = blocked \ ts
    /\ stale' = stale \ ts
    /\ tag' = [t \in Terminal |-> IF t \in ts THEN None ELSE tag[t]]
    /\ state' = [t \in Terminal |-> IF t \in ts THEN "none" ELSE state[t]]

(* ------------------------------------------------------ the collector ---- *)

(* run_scheduled_collection asks the sources enabled when it starts ...       *)
BeginRound(c) ==
    /\ pc[c] = "idle" /\ round[c] = {}
    /\ round' = [round EXCEPT ![c] = {s \in Source : sources[s] = "on"}]
    /\ UNCHANGED <<table, world, ghost, listed, pc, job, saw, known, plan>> /\ Calm

SyncNow(c, s) ==
    /\ pc[c] = "idle" /\ round[c] = {} /\ sources[s] = "on" /\ Disturb
    /\ round' = [round EXCEPT ![c] = {s}]
    /\ UNCHANGED <<table, world, ghost, listed, pc, job, saw, known, plan>>

(* ... one after the other.                                                   *)
Ask(c) ==
    /\ pc[c] = "idle"
    /\ \E s \in round[c] :
        /\ round' = [round EXCEPT ![c] = @ \ {s}]
        /\ job' = [job EXCEPT ![c] = s]
    /\ Goto(c, "asking")
    /\ UNCHANGED <<table, world, ghost, listed, saw, known, plan>> /\ Calm

(* What the output of the switch, or the JSON of the API, parses to.          *)
Entries(c) == present[job[c]]

(* No connection, or an error status: the round goes on with the next source. *)
NoAnswer(c) ==
    /\ pc[c] = "asking" /\ Disturb
    /\ Finish(c)
    /\ UNCHANGED <<table, world, ghost, listed, round>>

(* No entries is a success: nothing is processed, nobody marked offline.      *)
EmptyAnswer(c) ==
    /\ pc[c] = "asking" /\ Entries(c) = {}
    /\ Finish(c)
    /\ UNCHANGED <<table, world, ghost, listed, round>> /\ Calm

(* The active rules and the blacklisted addresses, once for the whole batch;  *)
(* without them, if the query fails, nothing is excluded.                     *)
LoadRules(c) ==
    /\ \/ Learn(c, Covered) /\ Calm
       \/ Learn(c, {}) /\ Disturb
    /\ Plan(c, [NoPlan EXCEPT !.flag = Listed])

Answer(c) ==
    /\ pc[c] = "asking" /\ Entries(c) # {}
    /\ saw' = [saw EXCEPT ![c] = Entries(c)]
    /\ LoadRules(c)
    /\ Goto(c, "answered")
    /\ UNCHANGED <<table, world, ghost, listed, job, round>>

\* Mutated: an excluded entry is dropped before its row is looked up.
ExcludedRowsUnseen(c) == {}

ExcludedRows(c) == saw[c] \intersect known[c] \intersect Rows

(* Every entry is an exclusion, an update or an insertion; the blacklist is   *)
(* the one loaded with the rules, the status is the row's.                    *)
Match(c) ==
    LET out == ExcludedRows(c)
        in == saw[c] \ known[c]
        kept == out \intersect (blocked \union plan[c].flag) IN
    /\ pc[c] = "answered"
    /\ Plan(c, [NoPlan EXCEPT !.drop = out \ kept, !.flag = kept \ flagged,
                              !.touch = in \intersect Rows, !.add = in \ Rows])
    /\ Goto(c, "saving")
    /\ UNCHANGED <<table, world, ghost, listed, job, round, saw, known>> /\ Calm

(* The batch is committed as a whole: a row it updates or flags that is gone, *)
(* or one it inserts that is there, fails it.                                 *)
Clash(c) == ~ (plan[c].touch \union plan[c].flag \subseteq Rows) \/ plan[c].add \intersect Rows # {}

SaveFails(c) ==
    /\ pc[c] = "saving" /\ Clash(c)
    /\ Finish(c)
    /\ UNCHANGED <<table, world, ghost, listed, round>> /\ Calm

Save(c) ==
    LET pl == plan[c] IN
    /\ pc[c] = "saving" /\ ~Clash(c)
    /\ tag' = [t \in Terminal |-> IF t \in pl.touch \union pl.add THEN job[c]
                                  ELSE IF t \in pl.drop THEN None ELSE tag[t]]
    /\ state' = [t \in Terminal |-> IF t \in pl.drop THEN "none" ELSE state[t]]
    /\ blocked' = blocked \ pl.drop
    /\ flagged' = (flagged \ pl.drop) \union pl.flag
    /\ stale' = stale \ (pl.drop \union pl.touch \union pl.add)
    /\ belated' = (belated \ pl.drop) \union (pl.flag \ Covered)
    /\ Plan(c, NoPlan)
    /\ Goto(c, "detecting")
    /\ UNCHANGED <<world, listed, interrupted, job, round, saw, known>> /\ Calm

\* Mutated: the membership test of the pairs seen is the wrong way round.
MissingOnesSeen(c) == {t \in Rows : tag[t] = job[c] /\ t \in saw[c] /\ t \in stale}

MissingOnes(c) == {t \in Rows : tag[t] = job[c] /\ t \notin saw[c] /\ t \in stale}

(* The rows of the source as they are now: those seen lose the offline mark,  *)
(* those missed for long get it, unless they are blocked or marked already.   *)
Detect(c) ==
    LET back == {t \in Rows \intersect saw[c] : tag[t] = job[c] /\ state[t] = "offline"}
        gone == {t \in MissingOnes(c) \ blocked : state[t] = "none"} IN
    /\ pc[c] = "detecting"
    /\ IF back \union gone = {}
       THEN Finish(c)
       ELSE /\ Plan(c, [NoPlan EXCEPT !.back = back, !.gone = gone])
            /\ Goto(c, "marking") /\ UNCHANGED <<job, saw, known>>
    /\ UNCHANGED <<table, world, ghost, listed, round>> /\ Calm

(* Committed together; a row deleted meanwhile fails them all, unnoticed.     *)
Mark(c) ==
    LET pl == plan[c] IN
    /\ pc[c] = "marking"
    /\ state' = IF pl.back \union pl.gone \subseteq Rows
                THEN [t \in Terminal |-> IF t \in pl.gone THEN "offline"
                                         ELSE IF t \in pl.back THEN "none" ELSE state[t]]
                ELSE state
    /\ Finish(c)
    /\ UNCHANGED <<tag, blocked, flagged, stale, world, ghost, listed, round>> /\ Calm

(* ------------------------------------------------------- the operators --- *)

New(r, ts) == ts # {} /\ \A q \in Rule \ {r} : covers[q] # ts

(* Every edit of a rule is committed before its consequences.                 *)
CreateRule(o, r, ts) ==
    /\ pc[o] = "idle" /\ covers[r] = {} /\ New(r, ts) /\ Disturb
    /\ covers' = [covers EXCEPT ![r] = ts]
    /\ active' = active \union {r}
    /\ Learn(o, ts)
    /\ Goto(o, "purging")
    /\ UNCHANGED <<table, sources, present, ghost, listed, job, round, saw, plan>>

(* Other conditions: the rule's new matches are purged if it is active, and   *)
(* the flags refreshed.                                                       *)
UpdateRule(o, r, ts) ==
    /\ pc[o] = "idle" /\ covers[r] # {} /\ New(r, ts) /\ Disturb
    /\ covers' = [covers EXCEPT ![r] = ts]
    /\ \/ UNCHANGED active
       \/ active' = active \union {r}
       \/ active' = active \ {r}
    /\ IF r \in active'
       THEN Learn(o, ts) /\ Goto(o, "replacing")
       ELSE UNCHANGED known /\ Goto(o, "refreshing")
    /\ UNCHANGED <<table, sources, present, ghost, listed, job, round, saw, plan>>

\* Mutated: switched off, its flags are left.
ToggleRuleOnly(o, r) ==
    /\ pc[o] = "idle" /\ covers[r] # {} /\ Disturb
    /\ active' = IF r \in active THEN active \ {r} ELSE active \union {r}
    /\ IF r \in active'
       THEN Learn(o, covers[r]) /\ Goto(o, "purging")
       ELSE UNCHANGED <<known, pc>>
    /\ UNCHANGED <<table, covers, sources, present, ghost, listed, job, round, saw, plan>>

ToggleRule(o, r) ==
    /\ pc[o] = "idle" /\ covers[r] # {} /\ Disturb
    /\ active' = IF r \in active THEN active \ {r} ELSE active \union {r}
    /\ IF r \in active'
       THEN Learn(o, covers[r]) /\ Goto(o, "purging")
       ELSE UNCHANGED known /\ Goto(o, "refreshing")
    /\ UNCHANGED <<table, covers, sources, present, ghost, listed, job, round, saw, plan>>

DeleteRule(o, r) ==
    /\ pc[o] = "idle" /\ covers[r] # {} /\ Disturb
    /\ covers' = [covers EXCEPT ![r] = {}]
    /\ active' = active \ {r}
    /\ Goto(o, "refreshing")
    /\ UNCHANGED <<table, sources, present, ghost, listed, job, round, saw, known, plan>>

(* Matching rows go unless blocked or blacklisted; on request, and never for  *)
(* an update, the blocked ones are released first.                            *)
Evaluate(o) ==
    LET hit == known[o] \intersect Rows
        kept == hit \intersect (blocked \union Listed) IN
    /\ pc[o] \in {"purging", "replacing"}
    /\ \E free \in {{}, IF pc[o] = "purging" THEN kept \intersect blocked ELSE {}} :
        Plan(o, [NoPlan EXCEPT !.drop = hit \ kept, !.flag = kept, !.free = free])
    /\ Goto(o, IF pc[o] = "purging" THEN "freeing" ELSE "sweeping")
    /\ UNCHANGED <<table, world, ghost, listed, job, round, saw, known>> /\ Calm

(* Released on every firewall of its entries it is deleted with the others;   *)
(* on some or none, or without an entry, it stays.                            *)
Free(o) ==
    /\ pc[o] = "freeing"
    /\ \E t \in plan[o].free :
        \/ Plan(o, [plan[o] EXCEPT !.free = @ \ {t}])
        \/ /\ t \in Listed
           /\ Plan(o, [plan[o] EXCEPT !.free = @ \ {t}, !.clear = @ \union {t},
                                      !.drop = @ \union {t}, !.flag = @ \ {t}])
    /\ UNCHANGED <<table, world, ghost, listed, pc, job, round, saw, known>> /\ Calm

\* UPDATE ... WHERE id IN: what is left of the rows retained.
Retained(o) == plan[o].flag \intersect Rows

(* One transaction: the entries of the released end, rows go, rows are        *)
(* flagged.                                                                   *)
Purge(o) ==
    LET pl == plan[o] IN
    /\ pc[o] = "sweeping" \/ (pc[o] = "freeing" /\ pl.free = {})
    /\ Delete(pl.drop)
    /\ listed' = [t \in Terminal |-> IF t \in pl.clear THEN None ELSE listed[t]]
    /\ flagged' = (flagged \ pl.drop) \union Retained(o)
    /\ belated' = (belated \ pl.drop) \union (Retained(o) \ Covered)
    /\ IF pc[o] = "sweeping"
       THEN Goto(o, "refreshing") /\ Learn(o, {}) /\ Plan(o, NoPlan) /\ UNCHANGED <<job, saw>>
       ELSE Finish(o)
    /\ UNCHANGED <<world, round, interrupted>> /\ Calm

(* clear_stale_exclusion_flags: the rules are read ...                        *)
ReadFlags(o) ==
    /\ pc[o] = "refreshing"
    /\ Plan(o, [NoPlan EXCEPT !.clear = flagged \ Covered])
    /\ Goto(o, "clearing")
    /\ UNCHANGED <<table, world, ghost, listed, job, round, saw, known>> /\ Calm

(* ... and the rows they do not match unflagged, all or, when one is gone,    *)
(* none.                                                                      *)
ClearFlags(o) ==
    LET cleared == IF plan[o].clear \subseteq Rows THEN plan[o].clear ELSE {} IN
    /\ pc[o] = "clearing"
    /\ flagged' = flagged \ cleared
    /\ belated' = belated \ cleared
    /\ interrupted' = (interrupted \/ cleared # plan[o].clear)
    /\ Finish(o)
    /\ UNCHANGED <<tag, blocked, state, stale, world, listed, round>> /\ Calm

(* A source is switched on or off, or added under the tag of an old one.      *)
UpdateSource(s) ==
    /\ Disturb
    /\ \E to \in {"off", "on"} \ {sources[s]} : sources' = [sources EXCEPT ![s] = to]
    /\ UNCHANGED <<table, covers, active, present, local, ghost, listed>>

Mine(o) == {t \in Rows : tag[t] = job[o]}

(* Its deletion asks the firewalls first ...                                  *)
BeginDelete(o, s) ==
    /\ pc[o] = "idle" /\ sources[s] # "absent" /\ Disturb
    /\ job' = [job EXCEPT ![o] = s]
    /\ Goto(o, "removing")
    /\ UNCHANGED <<table, world, ghost, listed, round, saw, known, plan>>

(* ... and deletes entries, rows, bindings and the source in one transaction, *)
(* whatever they answered; a source somebody else has deleted fails it.       *)
DeleteSource(o) ==
    /\ pc[o] = "removing"
    /\ IF sources[job[o]] = "absent"
       THEN UNCHANGED <<tag, blocked, stale, state, flagged, belated, listed, sources>>
       ELSE /\ Delete(Mine(o))
            /\ flagged' = flagged \ Mine(o)
            /\ belated' = belated \ Mine(o)
            /\ listed' = [t \in Terminal |-> IF listed[t] = job[o] THEN None ELSE listed[t]]
            /\ sources' = [sources EXCEPT ![job[o]] = "absent"]
    /\ Finish(o)
    /\ UNCHANGED <<covers, active, present, interrupted, round>> /\ Calm

(* ------------------------------------------------------------- the rest -- *)

(* A process dies or its request fails before its commit.                     *)
Crash(p) ==
    /\ pc[p] # "idle" /\ Disturb
    /\ interrupted' = (interrupted \/ pc[p] \in {"replacing", "sweeping", "refreshing", "clearing"})
    /\ Finish(p)
    /\ UNCHANGED <<table, world, belated, listed, round>>

(* A terminal joins or leaves a network.                                      *)
Move(s, t) ==
    /\ Disturb
    /\ present' = [present EXCEPT ![s] = IF t \in @ THEN @ \ {t} ELSE @ \union {t}]
    /\ UNCHANGED <<table, covers, active, sources, local, ghost, listed>>

Age(t) ==
    /\ t \in Rows \ stale
    /\ stale' = stale \union {t}
    /\ UNCHANGED <<tag, blocked, state, flagged, world, local, ghost, listed>> /\ Calm

(* A verdict is enforced: blocked with an entry of the row's source, an entry *)
(* alone for a terminal that shares the address, or no firewall took it.      *)
Block(t) ==
    /\ t \in Rows \ (blocked \union Listed) /\ state[t] # "offline" /\ Disturb
    /\ \/ /\ listed' = [listed EXCEPT ![t] = tag[t]]
          /\ \/ /\ blocked' = blocked \union {t}
                /\ state' = [state EXCEPT ![t] = "none"]
             \/ UNCHANGED <<blocked, state>>
       \/ state' = [state EXCEPT ![t] = "failed"] /\ UNCHANGED <<blocked, listed>>
    /\ UNCHANGED <<tag, flagged, stale, world, local, ghost>>

(* It is released; an entry that ends is not one a purge still closes.        *)
Unblock(t) ==
    /\ t \in Listed /\ Disturb
    /\ listed' = [listed EXCEPT ![t] = None]
    /\ blocked' = blocked \ {t}
    /\ state' = [state EXCEPT ![t] = "none"]
    /\ plan' = [p \in Process |-> [plan[p] EXCEPT !.clear = IF pc[p] = "freeing" THEN @ \ {t} ELSE @]]
    /\ UNCHANGED <<tag, flagged, stale, world, pc, job, round, saw, known, ghost>>

Collect(c) ==
    \/ Ask(c) \/ EmptyAnswer(c) \/ Answer(c) \/ Match(c)
    \/ SaveFails(c) \/ Save(c) \/ Detect(c) \/ Mark(c)

Work(o) == Evaluate(o) \/ Free(o) \/ Purge(o) \/ ReadFlags(o) \/ ClearFlags(o) \/ DeleteSource(o)

EditRule(o, r) ==
    \/ \E ts \in SUBSET Terminal : CreateRule(o, r, ts) \/ UpdateRule(o, r, ts)
    \/ ToggleRule(o, r) \/ DeleteRule(o, r)

Next ==
    \/ \E c \in Scheduled : BeginRound(c)
    \/ \E c \in Request, s \in Source : SyncNow(c, s)
    \/ \E c \in Collector : Collect(c) \/ NoAnswer(c)
    \/ \E o \in Operator, r \in Rule : EditRule(o, r)
    \/ \E o \in Operator, s \in Source : BeginDelete(o, s)
    \/ \E o \in Operator : Work(o)
    \/ \E p \in Process : Crash(p)
    \/ \E s \in Source : UpdateSource(s) \/ \E t \in Terminal : Move(s, t)
    \/ \E t \in Terminal : Age(t) \/ Block(t) \/ Unblock(t)

Spec == Init /\ [][Next]_vars

(* The scheduler's rounds go on, what was begun is finished, time passes.     *)
FairSpec ==
    /\ Spec
    /\ \A c \in Scheduled : WF_vars(BeginRound(c))
    /\ \A c \in Collector : WF_vars(Collect(c))
    /\ \A o \in Operator : WF_vars(Work(o))
    /\ \A t \in Terminal : WF_vars(Age(t))

(* ---------------------------------------------------------- properties ---- *)

(* A row keeps the mark that takes it out of the statistics after its rule is *)
(* gone only if somebody wrote the mark by a rule that had gone already, or   *)
(* the edit that should have cleared it was interrupted.                      *)
FlagsAreExplained ==
    flagged \ Covered # {} =>
        \/ flagged \ Covered \subseteq belated
        \/ interrupted
        \/ \E o \in Operator : pc[o] \in {"replacing", "sweeping", "refreshing", "clearing"}

(* A terminal that a rule covers for good and a switch still reports leaves   *)
(* the table or, retained, the statistics: also one that a collection with    *)
(* older rules put back, or that a clean-up with older rules unflagged.       *)
Reported(t) == \E s \in Source : sources[s] = "on" /\ t \in present[s]
ExcludedTerminalsLeave ==
    \A t \in Terminal :
        <>[](t \in Covered /\ Reported(t)) => <>[](t \notin Rows \/ t \in flagged)

(* A terminal no switch reports any more is marked offline, unless it is      *)
(* blocked, has another block_state or its source is not collected, provided  *)
(* that every enabled source reports something.                               *)
Answering == \A s \in Source : sources[s] = "on" => present[s] # {}
AtRest(t) ==
    \/ t \notin Rows \/ t \in blocked \/ state[t] # "none"
    \/ sources[tag[t]] # "on"
GoneTerminalsGoOffline ==
    \A t \in Terminal :
        <>[](Answering /\ \A s \in Source : t \notin present[s]) => <>[]AtRest(t)
================================================================================
