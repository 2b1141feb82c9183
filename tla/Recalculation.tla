----------------------------- MODULE Recalculation -----------------------------
(* How an edit of the whitelist reaches the terminals.  Requests and the      *)
(* periodic check call recalculate_all_compliance, which takes a lock in      *)
(* Redis (a token, a time to live, skipped when it is held or Redis fails),   *)
(* loads the list from a cache or the database, and judges the terminals in   *)
(* batches that it commits one by one.  What a judgement is belongs to        *)
(* ComplianceDecision; here it is the list it was made with.                  *)
(*                                                                            *)
(* A list is the set of the edits it contains.  The session of a request does *)
(* not flush before it queries, and a batch's commit commits the request's    *)
(* edit with it.                                                              *)
EXTENDS Naturals

CONSTANTS
    Editor,         \* requests that edit the whitelist, one edit each
    Checker,        \* the periodic check, and every caller that edits nothing
    Nobody,         \* the lock's owner is gone
    None,           \* no lock
    Batches,        \* batches of terminals
    MaxDisturbance  \* bound on crashes, errors, Redis outages, locks that run out

ASSUME BatchesAssumption == Batches \in Nat \ {0}
ASSUME DisturbanceAssumption == MaxDisturbance \in Nat
ASSUME ProcessAssumption ==
    Editor \intersect Checker = {} /\ {Nobody, None} \intersect (Editor \union Checker) = {}
ASSUME NobodyAssumption == Nobody # None

VARIABLES
    rules,          \* the edits committed to the table
    cache,          \* whitelist:all, the list in it if there is one
    applied,        \* for each batch, the list its terminals were judged with
    lock,           \* compliance:recalc:lock, by the owner of its token
    pc,             \* where each process is
    kind,           \* how a request edits
    seen,           \* the list a recalculation loaded
    done,           \* the batches it has judged
    doomed,         \* requests whose transaction was rolled back
    redisUp,
    overran,        \* a recalculation at work lost its lock
    disturbances
vars == <<rules, cache, applied, lock, pc, kind, seen, done, doomed, redisUp, overran, disturbances>>

Process == Editor \union Checker
Batch == 1 .. Batches

(* "range": add_to_whitelist and delete_from_whitelist of a pattern.          *)
(* "import": a file, row by row in savepoints.  "restore": from a backup.     *)
(* "point": one MAC, prefix or IP, applied to its terminals directly.         *)
Kind == {"range", "import", "restore", "point"}
Locked == {"locked", "read", "ready", "judged", "deleting"}
Step == Locked \union {"idle", "edited", "asking", "released", "done"}
Inside == {p \in Process : pc[p] \in Locked}

TypeOK ==
    /\ rules \subseteq Editor
    /\ cache \in {{}} \union {{l} : l \in SUBSET Editor}
    /\ applied \in [Batch -> SUBSET Editor]
    /\ lock \in Process \union {Nobody, None}
    /\ pc \in [Process -> Step]
    /\ kind \in [Editor -> Kind]
    /\ seen \in [Process -> SUBSET Editor]
    /\ done \in [Process -> 0 .. Batches]
    /\ doomed \subseteq Editor
    /\ redisUp \in BOOLEAN
    /\ overran \in BOOLEAN
    /\ disturbances \in 0 .. MaxDisturbance

Init ==
    /\ rules = {}
    /\ cache = {}
    /\ applied = [b \in Batch |-> {}]
    /\ lock = None
    /\ pc = [p \in Process |-> "idle"]
    /\ kind \in [Editor -> Kind]
    /\ seen = [p \in Process |-> {}]
    /\ done = [p \in Process |-> 0]
    /\ doomed = {}
    /\ redisUp = TRUE
    /\ overran = FALSE
    /\ disturbances = 0

Goto(p, step) == pc' = [pc EXCEPT ![p] = step]
Disturb == disturbances < MaxDisturbance /\ disturbances' = disturbances + 1
Calm == UNCHANGED disturbances
\* A recalculation that is over has no locals.
Forget(p, over) ==
    /\ seen' = IF over THEN [seen EXCEPT ![p] = {}] ELSE seen
    /\ done' = IF over THEN [done EXCEPT ![p] = 0] ELSE done
Commit(p) == rules' = rules \union ({p} \intersect Editor)

(* -------------------------------------------------------- the callers ---- *)

(* import_whitelist_csv and import_whitelist_from_backup.                     *)
Imports == {e \in Editor : kind[e] = "import"}

(* The edit is made in the request's transaction and the cache dropped, which *)
(* a failing Redis turns into nothing.                                        *)
BeginEdit(e) ==
    /\ pc[e] = "idle" /\ kind[e] # "restore"
    /\ cache' = IF redisUp THEN {} ELSE cache
    /\ Goto(e, IF kind[e] = "point" THEN "edited" ELSE "asking")
    /\ UNCHANGED <<rules, applied, lock, kind, seen, done, doomed, redisUp, overran>> /\ Calm

(* A restore commits the table first, and drops nothing.                      *)
BeginRestore(e) ==
    /\ pc[e] = "idle" /\ kind[e] = "restore"
    /\ Commit(e)
    /\ Goto(e, "asking")
    /\ UNCHANGED <<cache, applied, lock, kind, seen, done, doomed, redisUp, overran>> /\ Calm

(* The terminals of one MAC, prefix or IP become bypass in the transaction of *)
(* the edit; a deletion leaves them unknown for the next check to judge.      *)
CommitPoint(e) ==
    /\ pc[e] = "edited"
    /\ Commit(e)
    /\ \/ applied' = [b \in Batch |-> applied[b] \union {e}]
       \/ UNCHANGED applied
    /\ Goto(e, "done")
    /\ UNCHANGED <<cache, lock, kind, seen, done, doomed, redisUp, overran>> /\ Calm

(* The periodic check, a binding or baseline changed; a source switched on    *)
(* drops the cache as well.                                                   *)
BeginCheck(c) ==
    /\ pc[c] = "idle"
    /\ \/ UNCHANGED cache
       \/ redisUp /\ cache' = {}
    /\ Goto(c, "asking")
    /\ UNCHANGED <<rules, applied, lock, kind, seen, done, doomed, redisUp, overran>> /\ Calm

(* The caller's commit after the recalculation, or nothing left to do.        *)
End(p) ==
    /\ pc[p] = "released"
    /\ IF p \in doomed THEN UNCHANGED rules ELSE Commit(p)
    /\ doomed' = doomed \ {p}
    /\ Goto(p, IF p \in Editor THEN "done" ELSE "idle")
    /\ UNCHANGED <<cache, applied, lock, kind, seen, done, redisUp, overran>> /\ Calm

(* --------------------------------------------------- the recalculation ---- *)

\* Mutated: SET without NX.
AcquireHeld(p) ==
    /\ pc[p] = "asking" /\ redisUp
    /\ lock' = p
    /\ Goto(p, "locked")
    /\ UNCHANGED <<rules, cache, applied, kind, seen, done, doomed, redisUp, overran>> /\ Calm

(* SET NX EX with a token of its own.                                         *)
Acquire(p) ==
    /\ pc[p] = "asking" /\ redisUp /\ lock = None
    /\ lock' = p
    /\ Goto(p, "locked")
    /\ UNCHANGED <<rules, cache, applied, kind, seen, done, doomed, redisUp, overran>> /\ Calm

(* Held by another, or Redis fails: skipped, and the caller goes on.          *)
Skip(p) ==
    /\ pc[p] = "asking" /\ (~redisUp \/ lock # None)
    /\ Goto(p, "released")
    /\ UNCHANGED <<rules, cache, applied, lock, kind, seen, done, doomed, redisUp, overran>> /\ Calm

LoadFromCache(p) ==
    /\ pc[p] = "locked" /\ redisUp
    /\ \E list \in cache : seen' = [seen EXCEPT ![p] = list]
    /\ Goto(p, "ready")
    /\ UNCHANGED <<rules, cache, applied, lock, kind, done, doomed, redisUp, overran>> /\ Calm

(* The session sees what it has flushed: an import's savepoints, not a row    *)
(* that was only added to it or marked deleted.                               *)
Visible(p) == rules \union ({p} \intersect Imports)

LoadFromDatabase(p) ==
    /\ pc[p] = "locked" /\ (~redisUp \/ cache = {})
    /\ seen' = [seen EXCEPT ![p] = Visible(p)]
    /\ Goto(p, "read")
    /\ UNCHANGED <<rules, cache, applied, lock, kind, done, doomed, redisUp, overran>> /\ Calm

(* SETEX of what was read, whatever happened since.                           *)
FillCache(p) ==
    /\ pc[p] = "read"
    /\ cache' = IF redisUp THEN {seen[p]} ELSE cache
    /\ Goto(p, "ready")
    /\ UNCHANGED <<rules, applied, lock, kind, seen, done, doomed, redisUp, overran>> /\ Calm

(* Without any baseline data nothing is judged.                               *)
NoBaseline(p) ==
    /\ pc[p] = "ready" /\ done[p] = 0 /\ Disturb
    /\ Goto(p, "judged")
    /\ UNCHANGED <<rules, cache, applied, lock, kind, seen, done, doomed, redisUp, overran>>

(* One batch judged and committed, the caller's edit with it.                 *)
JudgeBatch(p) ==
    LET b == done[p] + 1 IN
    /\ pc[p] = "ready"
    /\ applied' = [applied EXCEPT ![b] = seen[p]]
    /\ Commit(p)
    /\ done' = [done EXCEPT ![p] = b]
    /\ Goto(p, IF b = Batches THEN "judged" ELSE "ready")
    /\ UNCHANGED <<cache, lock, kind, seen, doomed, redisUp, overran>> /\ Calm

(* An error on the way: rolled back to the last batch's commit.  A request    *)
(* that edits a pattern fails; an import goes on if its session still can,    *)
(* every other caller goes on.                                                *)
Error(p) ==
    /\ pc[p] \in {"locked", "ready"} /\ Disturb
    /\ Goto(p, "judged")
    /\ \/ doomed' = doomed \union ({p} \intersect {e \in Editor : kind[e] \in {"range", "import"}})
       \/ p \notin {e \in Editor : kind[e] = "range"} /\ UNCHANGED doomed
    /\ UNCHANGED <<rules, cache, applied, lock, kind, seen, done, redisUp, overran>>

(* The release: GET and compare the token ...                                 *)
CompareToken(p) ==
    /\ pc[p] = "judged"
    /\ IF redisUp /\ lock = p
       THEN Goto(p, "deleting") /\ UNCHANGED lock
       ELSE /\ Goto(p, "released")
            /\ lock' = IF lock = p THEN Nobody ELSE lock
    /\ Forget(p, pc'[p] = "released")
    /\ UNCHANGED <<rules, cache, applied, kind, doomed, redisUp, overran>> /\ Calm

(* ... and DEL, whoever's it is by now.                                       *)
DeleteLock(p) ==
    /\ pc[p] = "deleting"
    /\ lock' = IF redisUp THEN None ELSE IF lock = p THEN Nobody ELSE lock
    /\ overran' = (overran \/ (redisUp /\ lock \in Process \ {p}))
    /\ Goto(p, "released")
    /\ Forget(p, TRUE)
    /\ UNCHANGED <<rules, cache, applied, kind, doomed, redisUp>> /\ Calm

(* ----------------------------------------------------------- the rest ---- *)

\* Mutated: SET without EX.
CacheStays == FALSE /\ UNCHANGED vars

(* The EX of the list's key runs out.                                         *)
CacheExpires ==
    /\ cache # {}
    /\ cache' = {}
    /\ UNCHANGED <<rules, applied, lock, pc, kind, seen, done, doomed, redisUp, overran>> /\ Calm

(* The lock's time runs out, after its owner or while it is at work.          *)
LockExpires ==
    /\ lock # None
    /\ IF lock = Nobody THEN Calm ELSE Disturb
    /\ overran' = (overran \/ lock # Nobody)
    /\ lock' = None
    /\ UNCHANGED <<rules, cache, applied, pc, kind, seen, done, doomed, redisUp>>

(* A process dies; what was not committed is gone.                            *)
Crash(p) ==
    /\ pc[p] \notin {"idle", "done"} /\ Disturb
    /\ Goto(p, IF p \in Editor THEN "done" ELSE "idle")
    /\ lock' = IF lock = p THEN Nobody ELSE lock
    /\ Forget(p, TRUE)
    /\ UNCHANGED <<rules, cache, applied, kind, doomed, redisUp, overran>>

RedisFails ==
    /\ redisUp /\ Disturb
    /\ redisUp' = FALSE
    /\ UNCHANGED <<rules, cache, applied, lock, pc, kind, seen, done, doomed, overran>>

RedisRecovers ==
    /\ ~redisUp
    /\ redisUp' = TRUE
    /\ UNCHANGED <<rules, cache, applied, lock, pc, kind, seen, done, doomed, overran>> /\ Calm

Edit(e) == BeginEdit(e) \/ BeginRestore(e) \/ CommitPoint(e)

Recalculate(p) ==
    \/ Acquire(p) \/ Skip(p) \/ LoadFromCache(p) \/ LoadFromDatabase(p) \/ FillCache(p)
    \/ JudgeBatch(p) \/ CompareToken(p) \/ DeleteLock(p) \/ End(p)

Next ==
    \/ \E e \in Editor : Edit(e)
    \/ \E c \in Checker : BeginCheck(c)
    \/ \E p \in Process : Recalculate(p) \/ NoBaseline(p) \/ Error(p) \/ Crash(p)
    \/ CacheExpires \/ LockExpires \/ RedisFails \/ RedisRecovers

Spec == Init /\ [][Next]_vars

(* Requests and checks run on, the check comes round again, times to live end *)
(* and Redis comes back.                                                      *)
FairSpec ==
    /\ Spec
    /\ \A e \in Editor : WF_vars(CommitPoint(e))
    /\ \A c \in Checker : WF_vars(BeginCheck(c))
    /\ \A p \in Process : WF_vars(Recalculate(p))
    /\ WF_vars(CacheExpires) /\ WF_vars(LockExpires) /\ WF_vars(RedisRecovers)

(* ---------------------------------------------------------- properties ---- *)

(* What the lock is for: unless a recalculation ran past the lock's time to   *)
(* live, every batch one has judged still stands as it judged it, by the one  *)
(* list it loaded, up to entries applied to their terminals directly.         *)
Points == {e \in Editor : kind[e] = "point"}
JudgedByOneList ==
    ~overran => \A p \in Inside : pc[p] # "locked" =>
        \A b \in 1 .. done[p] : applied[b] \ Points = seen[p] \ Points

(* No batch is judged by an entry that is not in the table, but by one of an  *)
(* import that has left its recalculation without a batch to commit it, or    *)
(* was cut short, and whose list others found in the cache; or while a lock   *)
(* was lost.                                                                  *)
Unsettled(e) == overran \/ pc[e] \in {"released", "done"}
PhantomsAreExplained ==
    \A b \in Batch : \A e \in applied[b] \ rules : e \in Imports /\ Unsettled(e)

(* Whatever the order of edits, cache and recalculations, in the end every    *)
(* terminal is judged by the list in the table, and stays so.                 *)
EditsTakeEffect == <>[](\A b \in Batch : applied[b] = rules)

(* What the docstring of recalculate_all_compliance says: called after a      *)
(* change it updates the terminals in real time instead of waiting for the    *)
(* next round.  A range edit whose recalculation judged every batch is in     *)
(* their judgement.                                                           *)
RangeEditsActAtOnce ==
    \A e \in Editor : kind[e] = "range" /\ pc[e] = "judged" /\ done[e] = Batches => e \in seen[e]
===============================================================================
