----------------------------- MODULE Enforcement -----------------------------
(***************************************************************************)
(* Enforcement of the compliance verdict on the firewalls: the terminals   *)
(* table, the blacklist table and the blacklists of the Sangfor firewalls, *)
(* and every task or request that moves one of the three.                  *)
(*                                                                         *)
(* A terminal is a (MAC, IP) pair; a firewall blocks by IP only; an active *)
(* blacklist row is unique per (IP, firewall) and names one MAC.  Each     *)
(* action below is one handler applied to one terminal, one (MAC, IP)      *)
(* group or one (IP, firewall) pair, with all the firewall calls it makes; *)
(* the commit that ends it may be lost (CrashAfterBlock,                   *)
(* CrashAfterUnblock).  Time is abstracted to what it decides: a row       *)
(* expires, a cooldown window ends, enough checks have failed.             *)
(***************************************************************************)
EXTENDS Naturals

CONSTANTS
    Mac, Ip, Firewall,
    Terminal,           \* the (MAC, IP) pairs ARP can discover
    NoMac,              \* mac_address IS NULL on a blacklist row
    NoRow,              \* no active blacklist row
    MaxDisturbance      \* bound on what the environment does to the system

ASSUME TerminalAssumption == Terminal \subseteq [mac : Mac, ip : Ip]
ASSUME NullAssumption == NoMac \notin Mac /\ NoRow \notin Mac /\ NoMac # NoRow
ASSUME DisturbanceAssumption == MaxDisturbance \in Nat

VARIABLES
    known,      \* terminals that have a row in the terminals table
    term,       \* the compliance and firewall fields of a terminal
    row,        \* active blacklist row of (ip, firewall): its MAC, or NoRow
    lapsed,     \* (ip, firewall) whose active row has expires_at < now
    ended,      \* (mac, ip, firewall) of rows with unblocked_at set by the
                \* expiry cleanup but auto_unblocked still False
    entry,      \* blacklist entry of an IP on a firewall, and who made it
    up,         \* enabled firewalls that answer
    bound,      \* firewalls bound to the ARP source of the terminals
    wl,         \* whitelist entries: a MAC or a single IP
    ig,         \* terminals the IPGuard baseline matches
    cool,       \* rows of a MAC auto-unblocked within the cooldown (2: several)
    drift,      \* history: blocks TAM lost track of, see EveryOrphanIsExplained
    disturbed   \* disturbances so far

data == <<known, term, row, lapsed, ended, cool>>
facts == <<up, bound, wl, ig, disturbed>>
vars == <<data, facts, entry, drift>>

Pairs == Ip \X Firewall
Good == {"compliant", "bypass"}
FieldsOfTerminal ==
    [comp : {"unknown", "compliant", "bypass", "non_compliant"},
     status : {"blocked", "unblocked"},
     fwTag : SUBSET Firewall,
     bstate : {"none", "no_firewall", "block_failed", "offline"}]

TypeOK ==
    /\ known \subseteq Terminal
    /\ term \in [Terminal -> FieldsOfTerminal]
    /\ row \in [Pairs -> Mac \cup {NoMac, NoRow}]
    /\ lapsed \subseteq Pairs
    /\ ended \subseteq (Mac \cup {NoMac}) \X Ip \X Firewall
    /\ entry \in [Pairs -> {"none", "tam", "foreign"}]
    /\ up \subseteq Firewall
    /\ bound \subseteq Firewall
    /\ wl \subseteq Mac \cup Ip
    /\ ig \subseteq Terminal
    /\ cool \in [Mac -> 0..2]
    /\ drift \subseteq Pairs
    /\ disturbed \in 0..MaxDisturbance

NewTerminal == [comp |-> "unknown", status |-> "unblocked",
                fwTag |-> {}, bstate |-> "none"]

Init ==
    /\ known \in SUBSET Terminal
    /\ term = [t \in Terminal |-> NewTerminal]
    /\ row = [p \in Pairs |-> NoRow]
    /\ lapsed = {}
    /\ ended = {}
    /\ entry = [p \in Pairs |-> "none"]
    /\ up = Firewall
    /\ bound = Firewall
    /\ wl = {}
    /\ ig \in SUBSET Terminal
    /\ cool = [m \in Mac |-> 0]
    /\ drift = {}
    /\ disturbed = 0

-----------------------------------------------------------------------------
(* What the handlers ask and what they write.                              *)

Whitelisted(t) == t.mac \in wl \/ t.ip \in wl

Verdict(t) == IF Whitelisted(t) THEN "bypass"
              ELSE IF t \in ig THEN "compliant" ELSE "non_compliant"

\* Firewalls with an active row for exactly this (MAC, IP), expired or not.
Active(t) == {f \in Firewall : row[<<t.ip, f>>] = t.mac}

\* The firewalls an unblock call may report as done.  A firewall that does not
\* answer raises in most calls, but the lookup that precedes the DELETE swallows
\* every error as "not in the blacklist", and that counts as success.
Reports == {up \cup L : L \in SUBSET (Firewall \ up)}

\* Blocking adds a TAM entry unless the IP is listed already, whoever listed it.
Block(P) == entry' = [p \in Pairs |->
    IF p \in P /\ p[2] \in up /\ entry[p] = "none" THEN "tam" ELSE entry[p]]

\* Mutated: an entry is deleted whoever made it.
UnblockAny(P) == entry' = [p \in Pairs |->
    IF p \in P /\ p[2] \in up THEN "none" ELSE entry[p]]

\* Unblocking deletes TAM entries only; an entry of the firewall's own stays.
Unblock(P) == entry' = [p \in Pairs |->
    IF p \in P /\ p[2] \in up /\ entry[p] = "tam" THEN "none" ELSE entry[p]]

\* Mutated: a row for one of the firewalls that accepted the block.
AttachOne(t, F) ==
    LET one == IF F = {} THEN {} ELSE {CHOOSE f \in F : TRUE}
    IN /\ row' = [p \in Pairs |-> IF p \in {t.ip} \X one THEN t.mac ELSE row[p]]
       /\ lapsed' = lapsed \ ({t.ip} \X one)

\* Insert the active row of (t.ip, f), or overwrite the MAC of the one there is.
Attach(t, F) ==
    /\ row' = [p \in Pairs |-> IF p \in {t.ip} \X F THEN t.mac ELSE row[p]]
    /\ lapsed' = lapsed \ ({t.ip} \X F)

\* Mark active rows auto_unblocked.
CloseRows(P) ==
    /\ row' = [p \in Pairs |-> IF p \in P THEN NoRow ELSE row[p]]
    /\ lapsed' = lapsed \ P

\* n auto-unblocked rows of a MAC within the cooldown, and those of S as well.
Bump(n, S) == IF S = {} THEN n
              ELSE IF n = 0 /\ \E p \in S : S = {p} THEN 1 ELSE 2

CooldownAfter(P) ==
    cool' = [m \in Mac |-> Bump(cool[m], {p \in P : row[p] = m})]

\* Mutated: the tag survives the unblocking.
ReleasedTagged(r) == [r EXCEPT !.status = "unblocked", !.bstate = "none"]

Released(r) == [r EXCEPT !.status = "unblocked", !.fwTag = {}, !.bstate = "none"]

\* The orphans of this step: TAM entries left without an active row.  Only the
\* causes a handler names keep one out of the ledger of orphans for long.
Explain(P) == drift' = {p \in drift \cup P : entry'[p] = "tam" /\ row'[p] = NoRow}

\* P, as far as a report of success covers a firewall that did not answer.
Unconfirmed(P) == {p \in P : p[2] \notin up}

-----------------------------------------------------------------------------
(* _apply_compliance_result: verdict d, reached by a recalculation or by a   *)
(* first check, becomes the compliance status of t.                          *)

\* Recovered while blocked: unblock on every bound firewall and on every
\* firewall that has a row; one success is enough to call the terminal
\* unblocked, the rows of the firewalls that failed stay active.
ApplyRelease(t, d) ==
    LET targets == bound \cup Active(t)
    IN \E rep \in Reports :
        LET done == targets \cap rep
            closed == {t.ip} \X (Active(t) \cap rep)
        IN /\ term[t].status = "blocked"
           /\ term' = [term EXCEPT ![t] =
                [IF targets = {} \/ done # {} THEN Released(@) ELSE @
                 EXCEPT !.comp = d]]
           /\ Unblock({t.ip} \X targets)
           /\ CloseRows(closed)
           /\ CooldownAfter(closed)
           /\ Explain(Unconfirmed(closed))
           /\ UNCHANGED ended

\* Recovered while unblocked: only the leftover block_state is cleared.
ApplyClear(t, d) ==
    /\ term[t].status = "unblocked"
    /\ term' = [term EXCEPT ![t].comp = d, ![t].bstate = "none", ![t].fwTag = {}]
    /\ UNCHANGED <<row, lapsed, ended, cool, entry, drift>>

\* No firewall bound: non_compliant, and reported as impossible to block.
ApplyNoFirewall(t) ==
    /\ bound = {}
    /\ term' = [term EXCEPT ![t] =
         [comp |-> "non_compliant", status |-> "unblocked",
          fwTag |-> {}, bstate |-> "no_firewall"]]
    /\ UNCHANGED <<row, lapsed, ended, cool, entry, drift>>

\* Every bound firewall has an active row already.
ApplyAlreadyListed(t) ==
    /\ bound # {} /\ bound \subseteq Active(t)
    /\ term' = [term EXCEPT ![t] =
         IF @.status = "blocked" THEN [@ EXCEPT !.comp = "non_compliant"]
         ELSE [comp |-> "non_compliant", status |-> "blocked",
               fwTag |-> bound, bstate |-> "none"]]
    /\ UNCHANGED <<row, lapsed, ended, cool, entry, drift>>

\* Block on the firewalls that lack a row.  One the terminal is tagged with
\* already is taken for blocked without a call.  All failed: the verdict is
\* rolled back.
ApplyBlock(t) ==
    LET missing == bound \ Active(t)
        tagged == IF term[t].status = "blocked" THEN missing \cap term[t].fwTag ELSE {}
        done == tagged \cup (missing \cap up)
    IN /\ missing # {}
       /\ IF done = {}
          THEN /\ term' = [term EXCEPT ![t].bstate = "none",
                    ![t].fwTag = IF term[t].status = "blocked" THEN @ ELSE {}]
               /\ UNCHANGED <<row, lapsed>>
          ELSE /\ term' = [term EXCEPT ![t] =
                    [comp |-> "non_compliant", status |-> "blocked",
                     fwTag |-> Active(t) \cup done, bstate |-> "none"]]
               /\ Attach(t, done)
       /\ Block({t.ip} \X (missing \ tagged))
       /\ Explain({})
       /\ UNCHANGED <<ended, cool>>

\* A MAC auto-unblocked within the cooldown is not downgraded.  The query
\* expects at most one such row: with several it raises, the error is
\* swallowed, and the cooldown does not apply.
InCooldown(t) == cool[t.mac] = 1

Apply(t, d) ==
    /\ d # term[t].comp
    /\ \/ d \in Good /\ (ApplyRelease(t, d) \/ ApplyClear(t, d))
       \/ /\ d = "non_compliant" /\ ~InCooldown(t)
          /\ ApplyNoFirewall(t) \/ ApplyAlreadyListed(t) \/ ApplyBlock(t)

Recalculable(t) ==
    t \in known /\ ~(term[t].bstate = "offline" /\ term[t].status # "blocked")

\* recalculate_all_compliance, one terminal: a good verdict at once, a bad one
\* when enough checks failed (module ComplianceDecision counts them).
RecalcApply(t) ==
    /\ Recalculable(t)
    /\ Apply(t, Verdict(t))
    /\ UNCHANGED <<known, facts>>

\* recalculate_all_compliance, verdict unchanged or held: a blocked terminal
\* that has no firewall tag gets the bound ones.
RecalcKeep(t) ==
    /\ Recalculable(t)
    /\ term[t].status = "blocked" /\ term[t].fwTag = {}
    /\ term' = [term EXCEPT ![t].fwTag = bound]
    /\ UNCHANGED <<known, row, lapsed, ended, cool, facts, entry, drift>>

\* apply_initial_compliance_result from the compliance check: results are
\* looked up by MAC alone, so that of a sibling on another IP may be applied,
\* a non_compliant one before a compliant one before a bypass.
FirstCheck(t) ==
    /\ t \in known /\ term[t].comp = "unknown"
    /\ \E group \in SUBSET {u \in known : u.mac = t.mac /\ term[u].comp = "unknown"} :
         LET verdicts == {Verdict(u) : u \in group \cup {t}}
             d == IF "non_compliant" \in verdicts THEN "non_compliant"
                  ELSE IF "compliant" \in verdicts THEN "compliant" ELSE "bypass"
         IN (d = "non_compliant" => Recalculable(t)) /\ Apply(t, d)
    /\ UNCHANGED <<known, facts>>

-----------------------------------------------------------------------------
(* The passes of the compliance check that block what is still unblocked.    *)

\* Mutated: a terminal not judged yet is blocked as well.
BlockableUnlessGood(t) ==
    /\ t \in known
    /\ term[t].comp \notin Good /\ term[t].status = "unblocked"
    /\ term[t].bstate # "offline"

Blockable(t) ==
    /\ t \in known
    /\ term[t].comp = "non_compliant" /\ term[t].status = "unblocked"
    /\ term[t].bstate # "offline"

\* Both passes: a whitelisted terminal is set right instead of blocked; only
\* the retry pass clears its block_state.
HealWhitelisted(t) ==
    /\ Blockable(t) /\ Whitelisted(t)
    /\ \E b \in {"none", term[t].bstate} :
         term' = [term EXCEPT ![t].comp = "bypass", ![t].bstate = b]
    /\ UNCHANGED <<known, row, lapsed, ended, cool, facts, entry, drift>>

MarkNoFirewall(t) ==
    /\ Blockable(t) /\ ~Whitelisted(t)
    /\ bound = {}
    /\ term' = [term EXCEPT ![t].bstate = "no_firewall"]
    /\ UNCHANGED <<known, row, lapsed, ended, cool, facts, entry, drift>>

\* auto_block_non_compliant: a terminal with a row already is passed over, and
\* one success out of the bound firewalls is enough.
AutoBlock(t) ==
    LET done == bound \cap up
    IN /\ Blockable(t) /\ ~Whitelisted(t)
       /\ bound # {} /\ Active(t) = {}
       /\ IF done = {}
          THEN /\ term' = [term EXCEPT ![t].bstate = "block_failed"]
               /\ UNCHANGED <<row, lapsed>>
          ELSE /\ term' = [term EXCEPT ![t].status = "blocked",
                                       ![t].fwTag = done, ![t].bstate = "none"]
               /\ Attach(t, done)
       /\ Block({t.ip} \X bound)
       /\ Explain({})
       /\ UNCHANGED <<known, ended, cool, facts>>

\* Mutated: a block that failed once is not retried.
RetryBlockOnce(t) ==
    /\ Blockable(t) /\ ~Whitelisted(t) /\ term[t].bstate = "none"
    /\ bound # {} /\ bound \subseteq up
    /\ Block({t.ip} \X bound)
    /\ Attach(t, bound)
    /\ term' = [term EXCEPT ![t].status = "blocked",
                             ![t].fwTag = bound, ![t].bstate = "none"]
    /\ Explain({})
    /\ UNCHANGED <<known, ended, cool, facts>>

\* The retry pass of scheduled_compliance_check: every bound firewall must
\* accept the block, or none of those that did gets a row.
RetryBlock(t) ==
    /\ Blockable(t) /\ ~Whitelisted(t)
    /\ bound # {}
    /\ Block({t.ip} \X bound)
    /\ IF bound \subseteq up
       THEN /\ term' = [term EXCEPT ![t].status = "blocked",
                                    ![t].fwTag = bound, ![t].bstate = "none"]
            /\ Attach(t, bound)
       ELSE /\ term' = [term EXCEPT ![t].bstate = "block_failed"]
            /\ UNCHANGED <<row, lapsed>>
    /\ Explain({t.ip} \X (bound \cap up))
    /\ UNCHANGED <<known, ended, cool, facts>>

-----------------------------------------------------------------------------
(* auto_unblock_compliant, one (MAC, IP) group of the rows that are not      *)
(* auto_unblocked: the active ones and those the expiry cleanup left.        *)

Rows(m, i) == {f \in Firewall : row[<<i, f>>] = m}
Ended(m, i) == {f \in Firewall : <<m, i, f>> \in ended}
IsGroup(m, i) == Rows(m, i) \cup Ended(m, i) # {}

\* Mutated: the terminal of a group is looked up by MAC alone.
OwnersByMac(m, i) == {t \in known : IF m = NoMac THEN t.ip = i ELSE t.mac = m}

\* The terminal of a group, as a set: by (MAC, IP), or by IP if MAC is NULL.
Owners(m, i) == {t \in known : t.ip = i /\ (m = NoMac \/ t.mac = m)}

\* A NULL-MAC group whose IP several terminals share raises in the lookup and
\* ends the whole pass, before its commit.
PassAborts == \E i \in Ip : IsGroup(NoMac, i)
                  /\ \E t, u \in Owners(NoMac, i) : t # u

\* Mutated: only the baseline releases, not the whitelist.
GroupIsMatched(m, i) == \E t \in Owners(m, i) : Verdict(t) = "compliant"

GroupIsGood(m, i) ==
    IF Owners(m, i) = {} THEN m \in wl \/ i \in wl
    ELSE \E t \in Owners(m, i) : Verdict(t) \in Good

\* Every firewall of the group reports success: rows and terminal are updated.
AutoUnblock(m, i) ==
    LET all == Rows(m, i) \cup Ended(m, i)
    IN \E rep \in Reports :
        LET rows == {i} \X Rows(m, i)
        IN /\ ~PassAborts /\ IsGroup(m, i) /\ GroupIsGood(m, i)
           /\ all \subseteq rep
           /\ term' = [t \in Terminal |-> IF t \in Owners(m, i)
                        THEN [term[t] EXCEPT !.status = "unblocked", !.fwTag = {},
                                             !.comp = Verdict(t)]
                        ELSE term[t]]
           /\ Unblock({i} \X all)
           /\ CloseRows(rows)
           /\ ended' = ended \ ({m} \X {i} \X Firewall)
           /\ cool' = IF m = NoMac THEN cool
                      ELSE [cool EXCEPT ![m] =
                        Bump(@, ({"row"} \X Rows(m, i)) \cup ({"ended"} \X Ended(m, i)))]
           /\ Explain(Unconfirmed(rows))
           /\ UNCHANGED <<known, facts>>

\* Some firewall failed: the rows of the others are marked, but the pass
\* commits only when another group was unblocked entirely.
AutoUnblockPartly(m, i) ==
    LET all == Rows(m, i) \cup Ended(m, i)
    IN \E rep \in Reports :
        LET rows == {i} \X (Rows(m, i) \cap rep)
            committed == \E n \in Mac \cup {NoMac}, j \in Ip :
                            /\ <<n, j>> # <<m, i>>
                            /\ IsGroup(n, j) /\ GroupIsGood(n, j)
                            /\ Rows(n, j) \cup Ended(n, j) \subseteq rep
        IN /\ ~PassAborts /\ IsGroup(m, i) /\ GroupIsGood(m, i)
           /\ ~(all \subseteq rep)
           /\ Unblock({i} \X all)
           /\ IF committed
              THEN /\ CloseRows(rows)
                   /\ ended' = ended \ ({m} \X {i} \X (Ended(m, i) \cap rep))
                   /\ CooldownAfter(rows)
                   /\ Explain(Unconfirmed(rows))
              ELSE UNCHANGED <<row, lapsed, ended, cool, drift>>
           /\ UNCHANGED <<known, term, facts>>

-----------------------------------------------------------------------------
(* cleanup_expired_blacklist, one (MAC, IP) group of expired rows; the rows  *)
(* it ended before come back, because auto_unblocked is all it filters on.   *)

ExpiredRows(m, i) == {f \in Rows(m, i) : <<i, f>> \in lapsed}
CleanupDue(m, i) == ExpiredRows(m, i) \cup Ended(m, i) # {}

\* The terminal has an unexpired row elsewhere: the expired rows are ended
\* without asking their firewalls.
CleanupElsewhereActive(m, i) ==
    LET expired == {i} \X ExpiredRows(m, i)
    IN /\ m # NoMac /\ CleanupDue(m, i)
       /\ Rows(m, i) # ExpiredRows(m, i)
       /\ CloseRows(expired)
       /\ ended' = ended \cup {<<m, i, f>> : f \in ExpiredRows(m, i)}
       /\ UNCHANGED <<known, term, cool, facts, entry>>
       /\ Explain(expired)

\* Otherwise each firewall is asked; a failure extends the row.
CleanupUnblock(m, i) ==
    LET all == ExpiredRows(m, i) \cup Ended(m, i)
    IN \E rep \in Reports :
        LET done == {i} \X (ExpiredRows(m, i) \cap rep)
            freed == {t \in Owners(m, i) : /\ m # NoMac /\ all \cap rep # {}
                                           /\ term[t].status = "blocked"}
        IN /\ CleanupDue(m, i)
           /\ m = NoMac \/ Rows(m, i) = ExpiredRows(m, i)
           /\ Unblock({i} \X all)
           /\ row' = [p \in Pairs |-> IF p \in done THEN NoRow ELSE row[p]]
           /\ lapsed' = lapsed \ ({i} \X ExpiredRows(m, i))
           /\ ended' = ended \cup {<<m, i, f>> : f \in ExpiredRows(m, i) \cap rep}
           /\ term' = [t \in Terminal |->
                IF t \in freed
                THEN [Released(term[t]) EXCEPT !.comp = "unknown"] ELSE term[t]]
           /\ Explain(Unconfirmed(done))
           /\ UNCHANGED <<known, cool, facts>>

-----------------------------------------------------------------------------
(* Requests of an operator.                                                  *)

\* Mutated: an entry for a MAC also covers the terminals on that MAC's IPs.
AddWhitelistBroad(x) ==
    /\ x \notin wl
    /\ wl' = wl \cup {x}
    /\ term' = [t \in Terminal |->
         IF t \in known /\ (t.ip = x \/ \E u \in known : u.mac = x /\ u.ip = t.ip)
         THEN [term[t] EXCEPT !.comp = "bypass"] ELSE term[t]]
    /\ UNCHANGED <<known, row, lapsed, ended, cool, entry, drift, up, bound, ig>>

\* add_to_whitelist with apply_manual_whitelist_for_terminal on every terminal
\* the entry matches: one unblocked row makes a terminal unblocked.
AddWhitelist(x) ==
    LET matched == {t \in known : t.mac = x \/ t.ip = x}
        rows == {p \in Pairs : \E t \in matched :
                    /\ term[t].status = "blocked"
                    /\ p[1] = t.ip /\ row[p] = t.mac}
    IN \E rep \in Reports :
        LET closed == {p \in rows : p[2] \in rep}
        IN /\ x \notin wl
           /\ wl' = wl \cup {x}
           /\ term' = [t \in Terminal |->
                IF t \notin matched THEN term[t]
                ELSE IF term[t].status = "blocked" /\ Active(t) \cap rep # {}
                THEN [term[t] EXCEPT !.comp = "bypass", !.status = "unblocked",
                                     !.fwTag = {}]
                ELSE [term[t] EXCEPT !.comp = "bypass"]]
           /\ Unblock(rows)
           /\ CloseRows(closed)
           /\ CooldownAfter(closed)
           /\ Explain(Unconfirmed(closed))
           /\ UNCHANGED <<known, ended, up, bound, ig>>

\* delete_from_whitelist: the terminal of a MAC entry is reset to unknown; a
\* MAC with several terminals raises, and the entry stays.
DeleteWhitelist(x) ==
    LET reset == {t \in known : t.mac = x}
    IN /\ x \in wl
       /\ \A t, u \in reset : t = u
       /\ wl' = wl \ {x}
       /\ term' = [t \in Terminal |->
            IF t \in reset THEN [term[t] EXCEPT !.comp = "unknown"] ELSE term[t]]
       /\ UNCHANGED <<known, row, lapsed, ended, cool, entry, drift, up, bound, ig>>

\* retry_unblock of one active row whose terminal has recovered.  A failure
\* only counts the attempt.
RetryUnblock(i, f) ==
    LET m == row[<<i, f>>]
    IN \E rep \in Reports : \E t, u \in Owners(m, i) :
        /\ m # NoRow /\ term[t].comp \in Good
        /\ f \in rep
        /\ term' = [term EXCEPT ![u] =
             IF @.status = "blocked"
                /\ \A g \in Rows(m, i) \ {f} : <<i, g>> \in lapsed
             THEN Released(@) ELSE @]
        /\ Unblock({<<i, f>>})
        /\ CloseRows({<<i, f>>})
        /\ CooldownAfter({<<i, f>>})
        /\ Explain(Unconfirmed({<<i, f>>}))
        /\ UNCHANGED <<known, ended, up, bound, wl, ig>>

-----------------------------------------------------------------------------
(* FirewallReconciliationService, one IP on one firewall that answers.       *)

OnIp(i) == {t \in known : t.ip = i}
Recorded(p) == row[p] # NoRow /\ p \notin lapsed

\* Mutated: the entry of a terminal that is not to be blocked is left alone.
ReconcileCreateBad(i, f) ==
    LET p == <<i, f>>
    IN /\ f \in up /\ entry[p] # "none" /\ row[p] = NoRow
       /\ \E t \in OnIp(i) :
            /\ term[t].comp \notin Good
            /\ term' = [term EXCEPT ![t].status = "blocked", ![t].comp = "non_compliant"]
            /\ row' = [row EXCEPT ![p] = t.mac]
       /\ UNCHANGED <<known, lapsed, ended, cool, facts, entry>>
       /\ Explain({})

\* Listed by the firewall without a row: adopt it for the newest terminal on
\* that IP, or with a NULL MAC if there is none.  An unknown terminal is taken
\* for non-compliant.
ReconcileCreate(i, f) ==
    LET p == <<i, f>>
    IN /\ f \in up /\ entry[p] # "none" /\ row[p] = NoRow
       /\ \/ /\ OnIp(i) = {}
             /\ row' = [row EXCEPT ![p] = NoMac]
             /\ UNCHANGED term
          \/ \E t \in OnIp(i) :
             /\ ~(Whitelisted(t) /\ term[t].comp \in {"bypass", "unknown"})
             /\ term' = [term EXCEPT ![t].status = "blocked",
                  ![t].comp = IF @ = "unknown" THEN "non_compliant" ELSE @]
             /\ row' = [row EXCEPT ![p] = t.mac]
       /\ UNCHANGED <<known, lapsed, ended, cool, facts, entry>>
       /\ Explain({})

\* Listed, but the terminal is whitelisted or the expired row is still there:
\* only the terminal is updated, and only if something else makes the pass commit.
ReconcileSkip(i, f) ==
    LET p == <<i, f>>
    IN /\ f \in up /\ entry[p] # "none" /\ ~Recorded(p)
       /\ \E t \in OnIp(i) :
            /\ row[p] # NoRow \/ (Whitelisted(t) /\ term[t].comp \in {"bypass", "unknown"})
            /\ term' = [term EXCEPT ![t].status = "blocked",
                 ![t].comp = IF @ # "unknown" THEN @
                             ELSE IF Whitelisted(t) THEN "bypass" ELSE "non_compliant"]
       /\ UNCHANGED <<known, row, lapsed, ended, cool, facts, entry, drift>>

\* Recorded, but not listed by a firewall that lists something: block again.
\* A firewall that lists nothing at all is left alone.
ReconcileReblock(i, f) ==
    LET p == <<i, f>>
    IN /\ f \in up /\ Recorded(p) /\ entry[p] = "none"
       /\ \E j \in Ip : entry[<<j, f>>] # "none"
       /\ Block({p})
       /\ \/ Owners(row[p], i) = {} /\ UNCHANGED term
          \/ \E t \in Owners(row[p], i) :
               term' = [term EXCEPT ![t] =
                 [comp |-> IF @.comp = "unknown" THEN "non_compliant" ELSE @.comp,
                  status |-> "blocked",
                  fwTag |-> IF @.fwTag = {} /\ @.status = "unblocked" THEN {f} ELSE @.fwTag,
                  bstate |-> IF @.status = "unblocked" THEN "none" ELSE @.bstate]]
       /\ UNCHANGED <<known, row, lapsed, ended, cool, facts, drift>>

\* _repair_stale_terminal_status: blocked without any row behind it.
Backed(t) == \E f \in Firewall : row[<<t.ip, f>>] \in {t.mac, NoMac}

Repair(t) ==
    /\ t \in known /\ term[t].status = "blocked" /\ ~Backed(t)
    /\ term' = [term EXCEPT ![t].status = "unblocked", ![t].fwTag = {}]
    /\ UNCHANGED <<known, row, lapsed, ended, cool, facts, entry, drift>>

-----------------------------------------------------------------------------
(* ARP collection, and what happens to the system.                           *)

Discover(t) ==
    /\ t \notin known
    /\ known' = known \cup {t}
    /\ UNCHANGED <<term, row, lapsed, ended, cool, up, bound, wl, ig, entry, drift>>

MarkOffline(t) ==
    /\ t \in known /\ term[t].status # "blocked" /\ term[t].bstate = "none"
    /\ term' = [term EXCEPT ![t].bstate = "offline"]
    /\ UNCHANGED <<known, row, lapsed, ended, cool, up, bound, wl, ig, entry, drift>>

SeenAgain(t) ==
    /\ t \in known /\ term[t].bstate = "offline"
    /\ term' = [term EXCEPT ![t].bstate = "none"]
    /\ UNCHANGED <<known, row, lapsed, ended, cool, facts, entry, drift>>

\* The firewalls accepted a block, the transaction was not committed.
CrashAfterBlock(t) ==
    /\ ~Whitelisted(t)
    /\ \/ Blockable(t)
       \/ Recalculable(t) /\ Verdict(t) = "non_compliant" /\ ~InCooldown(t)
    /\ UNCHANGED <<data, up, bound, wl, ig>>
    /\ \E F \in SUBSET bound : Block({t.ip} \X F) /\ Explain({t.ip} \X F)

\* The firewalls removed a block, the transaction was not committed.
CrashAfterUnblock(m, i) ==
    /\ IsGroup(m, i)
    /\ GroupIsGood(m, i) \/ CleanupDue(m, i)
    /\ \E F \in SUBSET (Rows(m, i) \cup Ended(m, i)) : Unblock({i} \X F)
    /\ UNCHANGED <<data, up, bound, wl, ig, drift>>

\* An entry of the firewall's own, or its administrator's.
ForeignBlock(i, f) ==
    /\ entry[<<i, f>>] = "none"
    /\ entry' = [entry EXCEPT ![<<i, f>>] = "foreign"]
    /\ UNCHANGED <<data, up, bound, wl, ig, drift>>

ForeignRemove(i, f) ==
    /\ entry[<<i, f>>] # "none"
    /\ entry' = [entry EXCEPT ![<<i, f>>] = "none"]
    /\ UNCHANGED <<data, up, bound, wl, ig>>
    /\ Explain({})

FirewallDown(f) == /\ f \in up /\ up' = up \ {f}
                   /\ UNCHANGED <<data, bound, wl, ig, entry, drift>>
FirewallUp(f) == /\ f \notin up /\ up' = up \cup {f}
                 /\ UNCHANGED <<data, bound, wl, ig, disturbed, entry, drift>>

Bind(f) == /\ f \notin bound /\ bound' = bound \cup {f}
           /\ UNCHANGED <<data, up, wl, ig, entry, drift>>

\* safe_delete_binding: the rows of the binding's firewall are unblocked there,
\* an error being swallowed, and deleted with those long closed.  A terminal that
\* never had a row elsewhere is reset, any other loses the tag.  Closed rows are
\* not in the state, so who has an old row (past, other) is left open; so is the
\* number of rows within the cooldown that go.  The recalculation it ends with
\* skips when another one runs: it is the RecalcApply that comes next, or later.
Unbind(f) ==
    \E past, other \in SUBSET known :
        LET hit == past \cup {t \in known : f \in Active(t) \cup Ended(t.mac, t.ip)}
            kept == other \cup {t \in known :
                        (Active(t) \cup Ended(t.mac, t.ip)) \ {f} # {}}
            gone == {p \in Ip \X {f} : row[p] \in Mac}
        IN /\ f \in bound /\ bound' = bound \ {f}
           /\ Unblock(gone \cup {<<t.ip, f>> : t \in past})
           /\ CloseRows(gone)
           /\ ended' = ended \ (Mac \X Ip \X {f})
           /\ term' = [t \in Terminal |->
                IF t \in hit \ kept
                THEN [term[t] EXCEPT !.status = "unblocked", !.fwTag = {},
                                     !.comp = "unknown"]
                ELSE IF t \in hit THEN [term[t] EXCEPT !.fwTag = @ \ {f}]
                ELSE term[t]]
           /\ cool' \in [Mac -> 0..2]
           /\ \A m \in Mac : cool'[m] \in
                IF \E t \in past : t.mac = m THEN 0..cool[m] ELSE {cool[m]}
           /\ Explain(Unconfirmed(gone))
           /\ UNCHANGED <<known, up, wl, ig>>

BaselineChange(t) ==
    /\ ig' = IF t \in ig THEN ig \ {t} ELSE ig \cup {t}
    /\ UNCHANGED <<data, up, bound, wl, entry, drift>>

Expire(i, f) ==
    /\ row[<<i, f>>] # NoRow /\ <<i, f>> \notin lapsed
    /\ lapsed' = lapsed \cup {<<i, f>>}
    /\ UNCHANGED <<known, term, row, ended, cool, up, bound, wl, ig, entry, drift>>

\* The oldest unblocking of the MAC leaves the cooldown window.
CooldownEnds(m) ==
    /\ cool[m] # 0
    /\ \E n \in 0..(cool[m] - 1) : cool' = [cool EXCEPT ![m] = n]
    /\ UNCHANGED <<known, term, row, lapsed, ended, facts, entry, drift>>

Disturbance ==
    \/ \E x \in Mac \cup Ip : AddWhitelist(x) \/ DeleteWhitelist(x)
    \/ \E t \in Terminal : \/ Discover(t) \/ MarkOffline(t)
                           \/ CrashAfterBlock(t) \/ BaselineChange(t)
    \/ \E m \in Mac \cup {NoMac}, i \in Ip : CrashAfterUnblock(m, i)
    \/ \E i \in Ip, f \in Firewall :
         \/ ForeignBlock(i, f) \/ ForeignRemove(i, f) \/ Expire(i, f)
         \/ RetryUnblock(i, f)
    \/ \E f \in Firewall : FirewallDown(f) \/ Bind(f) \/ Unbind(f)

Task ==
    \/ \E t \in Terminal :
         \/ RecalcApply(t) \/ RecalcKeep(t) \/ FirstCheck(t)
         \/ HealWhitelisted(t) \/ MarkNoFirewall(t) \/ AutoBlock(t) \/ RetryBlock(t)
         \/ Repair(t) \/ SeenAgain(t)
    \/ \E m \in Mac \cup {NoMac}, i \in Ip :
         \/ AutoUnblock(m, i) \/ AutoUnblockPartly(m, i)
         \/ CleanupElsewhereActive(m, i) \/ CleanupUnblock(m, i)
    \/ \E i \in Ip, f \in Firewall :
         ReconcileCreate(i, f) \/ ReconcileSkip(i, f) \/ ReconcileReblock(i, f)

Next ==
    \/ Task
    \/ \E f \in Firewall : FirewallUp(f)
    \/ \E m \in Mac : CooldownEnds(m)
    \/ /\ disturbed < MaxDisturbance
       /\ disturbed' = disturbed + 1
       /\ Disturbance

Spec == Init /\ [][Next]_vars

-----------------------------------------------------------------------------
(* Safety.                                                                   *)

\* A terminal shown as unblocked never carries a firewall tag, through all the
\* handlers that move one of the two fields (list filters and the short cut of
\* ApplyBlock read the tag as "blocked there").
UnblockedHasNoTag ==
    \A t \in Terminal : term[t].status = "unblocked" => term[t].fwTag = {}

\* A TAM entry on a firewall without an active row comes from one of: a
\* transaction lost after the call, a retry that failed on another firewall, a
\* success reported for a firewall that did not answer, an expired row ended
\* while the terminal had another one, a binding deleted while its firewall did
\* not answer.  No other handler loses track of a block.
EveryOrphanIsExplained ==
    \A p \in Pairs : entry[p] = "tam" /\ row[p] = NoRow => p \in drift

\* TAM adds an entry to a firewall only for an IP that an unexpired row asks
\* for, or on which a terminal that no whitelist entry covers is recorded or
\* judged non-compliant.  Crashes included.
BlockHasCause ==
    [][\A p \in Pairs : entry[p] = "none" /\ entry'[p] = "tam" =>
        \/ Recorded(p)
        \/ \E t \in known : /\ t.ip = p[1] /\ ~Whitelisted(t)
                             /\ "non_compliant" \in {term[t].comp, Verdict(t)}
      ]_vars

\* A first verdict is the terminal's own, by the whitelist and the baseline; or
\* non_compliant or bypass because a firewall blocks its IP already.  "One record
\* per (IP, MAC) pair; a single MAC may appear on multiple IPs".
FirstVerdictIsOwn ==
    [][\A t \in known : term[t].comp = "unknown" /\ term'[t].comp # "unknown" =>
        \/ term'[t].comp = Verdict(t)'
        \/ \E f \in Firewall : entry[<<t.ip, f>>] # "none" \/ Recorded(<<t.ip, f>>)
      ]_vars

\* The abstract state: who made the entry of a pair, which pairs have an active
\* row; a disturbance is what happens to the system.
Entries(who) == {p \in Pairs : entry[p] = who}
WithRow == {p \in Pairs : row[p] # NoRow}
Book == INSTANCE Ledger WITH
    listed <- Entries("tam"), foreign <- Entries("foreign"),
    recorded <- WithRow, overdue <- lapsed, reachable <- up, happened <- disturbed

\* The ledger of entries and rows is kept through every handler, crash and
\* failure: only firewalls that answer are touched, only TAM's entries, what is
\* added is recorded, and an entry outlives its row for the reasons Ledger gives.
LedgerIsKept == Book!LedgerSpec

-----------------------------------------------------------------------------
(* Liveness.  Every periodic task keeps coming round and treats each terminal, *)
(* group and firewall in turn; a firewall that is down comes back; a cooldown  *)
(* window passes.  Disturbances are finitely many, so the facts settle.        *)

Fairness ==
    /\ \A t \in Terminal :
         /\ WF_vars(RecalcApply(t)) /\ WF_vars(HealWhitelisted(t))
         /\ WF_vars(MarkNoFirewall(t)) /\ WF_vars(RetryBlock(t))
         /\ WF_vars(Repair(t))
    /\ \A m \in Mac \cup {NoMac}, i \in Ip :
         /\ WF_vars(AutoUnblock(m, i))
         /\ WF_vars(CleanupElsewhereActive(m, i)) /\ WF_vars(CleanupUnblock(m, i))
    /\ \A i \in Ip, f \in Firewall :
         WF_vars(ReconcileCreate(i, f)) /\ WF_vars(ReconcileReblock(i, f))
    /\ \A f \in Firewall : WF_vars(FirewallUp(f))
    /\ \A m \in Mac : WF_vars(CooldownEnds(m))

FairSpec == Spec /\ Fairness

Judged(t, v) == t \in known /\ term[t].bstate # "offline" /\ Verdict(t) = v

Foreign(i) == \E f \in Firewall : entry[<<i, f>>] = "foreign"

\* A terminal the baseline matches for good ends up compliant, unblocked, on no
\* firewall's blacklist through TAM and without an active row, whatever was lost
\* on the way.  (An entry of the firewall's own is adopted and closed for ever.)
CompliantIsReleased ==
    \A t \in Terminal : <>[](Judged(t, "compliant") /\ ~Foreign(t.ip)) =>
        <>[](/\ term[t].comp = "compliant" /\ term[t].status = "unblocked"
             /\ \A f \in Firewall : entry[<<t.ip, f>>] # "tam" /\ row[<<t.ip, f>>] = NoRow)

\* A terminal the whitelist covers for good ends up bypass, and no active row
\* asks a firewall to block it.
WhitelistedIsBypass ==
    \A t \in Terminal : <>[]Judged(t, "bypass") =>
        <>[](term[t].comp = "bypass" /\ Active(t) = {})

\* A terminal nothing vouches for, with a firewall to block it on, ends up
\* non-compliant and blocked, with an active row of its MAC, or of none, behind it.
\* (A firewall's own entry on another address of the MAC renews its cooldown for
\* ever: it is adopted and auto-unblocked again and again.)
NonCompliantIsBlocked ==
    \A t \in Terminal :
        <>[](/\ Judged(t, "non_compliant") /\ bound # {}
             /\ \A u \in known \ {t} : u.mac = t.mac => ~Foreign(u.ip)) =>
        <>[](term[t].comp = "non_compliant" /\ term[t].status = "blocked" /\ Backed(t))

\* A block TAM lost track of does not stay unrecorded.
OrphanIsAdopted ==
    \A p \in Pairs : (entry[p] = "tam" /\ row[p] = NoRow) ~>
        \/ entry[p] # "tam" \/ row[p] # NoRow
        \/ \E t \in known : t.ip = p[1] /\ Whitelisted(t)

=============================================================================
