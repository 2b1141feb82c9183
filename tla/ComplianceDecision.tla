-------------------------- MODULE ComplianceDecision --------------------------
(***************************************************************************)
(* The compliance verdict of a terminal: how evidence from the IPGuard     *)
(* baseline is turned into unknown, compliant, bypass or non_compliant by  *)
(* the first check of a new terminal and by the periodic recalculation,    *)
(* and the thresholds, grace periods and intervals that damp a downgrade.  *)
(*                                                                         *)
(* A check of one terminal is one action.  Any number of checks may fall   *)
(* between two ticks of the clock: the recalculation has a dozen triggers. *)
(* A timestamp column is modelled by its age in ticks, capped at the       *)
(* longest window that looks at it; NULL is an age past every window.      *)
(* What the firewalls make of a verdict is Enforcement's subject: here the *)
(* application of a downgrade either sticks or is refused.                 *)
(***************************************************************************)
EXTENDS Naturals, FiniteSets, FiniteSetsExt

CONSTANTS
    Mac, Terminal,          \* a terminal is a record with a field mac
    Scopes,                 \* matching strategies in use: "exact", "ip", "or"
    Evidence,               \* what a look at the baseline may find
    Grouping,               \* device_grouping_enabled
    Confirm,                \* compliance_confirm_threshold
    CompliantDowngrade,     \* compliance_compliant_downgrade_threshold
    Absence,                \* compliance_ipguard_absence_threshold
    WhitelistMiss,          \* compliance_whitelist_miss_threshold
    MinInterval,            \* compliance_confirm_min_interval_seconds, in ticks
    NewGrace,               \* compliance_new_terminal_grace_minutes
    GoodGrace,              \* compliance_compliant_grace_minutes
    IpGrace                 \* compliance_ip_grace_minutes

AllEvidence == {"match", "mismatch", "ip_only", "mac_only", "absent"}
Thresholds == {Confirm, CompliantDowngrade, Absence, WhitelistMiss}
Windows == {MinInterval, NewGrace, GoodGrace, IpGrace}

ASSUME TerminalAssumption == \A t \in Terminal : t.mac \in Mac
ASSUME FiniteAssumption == IsFiniteSet(Terminal)
ASSUME StrategyAssumption ==
    /\ Scopes \subseteq {"exact", "ip", "or"}
    /\ Evidence \subseteq AllEvidence
    /\ Grouping \in BOOLEAN
\* The clamps of the _get_*_threshold and _get_*_minutes readers.
ASSUME ConfigAssumption ==
    /\ Thresholds \subseteq Nat \ {0}
    /\ Windows \subseteq Nat \ {0}

VARIABLES
    known,      \* discovered terminals
    scope,      \* the strategy the scope conditions select for a terminal
    ev,         \* what the baseline holds about a terminal now
    data,       \* state of the IPGuard cache
    device,     \* terminals with a stamped device_id
    mapped,     \* terminals whose MAC the device registry maps to a device
    registry,   \* the device registry can be read
    wl,         \* whitelisted terminals
    offline,    \* block_state = "offline" and status # "blocked"
    comp,       \* compliance_status
    miss,       \* non_compliant_confirm_count
    checked,    \* age of compliance_checked_at
    good,       \* age of compliant_checked_at
    born,       \* age of timestamp, the moment of discovery
    moved,      \* ip_changed_at is set; it is set at discovery or never
    since       \* history: time since a MAC's first miss after a reset

world == <<scope, ev, data, mapped, registry, wl>>
row == <<comp, miss, checked, good, device>>
vars == <<known, world, offline, row, born, moved, since>>

Good == {"compliant", "bypass"}
Status == {"unknown", "non_compliant"} \cup Good
MaxOf(S) == Max(S)
BirthWindow == IF NewGrace > IpGrace THEN NewGrace ELSE IpGrace
MaxSpan == (MaxOf(Thresholds) - 1) * MinInterval
Capped(n, cap) == IF n < cap THEN n + 1 ELSE cap

TypeOK ==
    /\ known \subseteq Terminal
    /\ scope \in [Terminal -> Scopes]
    /\ ev \in [Terminal -> Evidence]
    /\ data \in {"ready", "stale", "empty", "none"}
    /\ device \subseteq Terminal
    /\ mapped \subseteq Terminal
    /\ registry \in BOOLEAN
    /\ wl \subseteq Terminal
    /\ offline \subseteq known
    /\ comp \in [Terminal -> Status]
    /\ miss \in [Terminal -> 0..(MaxOf(Thresholds) - 1)]
    /\ checked \in [Terminal -> 0..MinInterval]
    /\ good \in [Terminal -> 0..GoodGrace]
    /\ born \in [Terminal -> 0..BirthWindow]
    /\ moved \subseteq known
    /\ since \in [Mac -> 0..MaxSpan]

Init ==
    /\ known = {}
    /\ scope \in [Terminal -> Scopes]
    /\ ev \in [Terminal -> Evidence]
    /\ data \in {"ready", "none"}
    /\ mapped \in IF Grouping THEN SUBSET Terminal ELSE {{}}
    /\ device = {}
    /\ registry = TRUE
    /\ wl \in SUBSET Terminal
    /\ offline = {}
    /\ comp = [t \in Terminal |-> "unknown"]
    /\ miss = [t \in Terminal |-> 0]
    /\ checked = [t \in Terminal |-> MinInterval]
    /\ good = [t \in Terminal |-> GoodGrace]
    /\ born = [t \in Terminal |-> BirthWindow]
    /\ moved = {}
    /\ since = [m \in Mac |-> 0]

-----------------------------------------------------------------------------
(* What a check sees.                                                      *)

IpFound(e) == e \in {"match", "mismatch", "ip_only"}
MacFound(e) == e \in {"match", "mismatch", "mac_only"}
Matches(s, e) ==
    \/ s = "exact" /\ e = "match"
    \/ s = "ip" /\ IpFound(e)
    \/ s = "or" /\ e # "absent"

SyncReady == data \in {"ready", "empty"}
Available == data \in {"ready", "stale"}
Seen(t) == IF Available THEN ev[t] ELSE "absent"

\* A readable registry is authoritative; without it the stamp is trusted, but
\* the set of devices in the baseline comes from the same registry.
Grouped(t) == Grouping /\ IF registry THEN t \in mapped ELSE t \in device
InBaseline(t) == IF Grouped(t) THEN registry ELSE Matches(scope[t], Seen(t))

\* The recalculation overrides both flags of a grouped terminal.
RecalcIpFound(t) == IF Grouped(t) THEN registry ELSE IpFound(ev[t])
RecalcMacFound(t) == IF Grouped(t) THEN registry ELSE MacFound(ev[t])

TotalAbsence(s, ip, mac) == ~ip /\ (s = "ip" \/ ~mac)
MacFallback(s, ip, mac) == s = "ip" /\ ~ip /\ mac

\* Mutated: the address grace protects compliant terminals only.
InIpGraceIfCompliant(t) == comp[t] = "compliant" /\ t \in moved /\ born[t] < IpGrace

InIpGrace(t) == t \in moved /\ born[t] < IpGrace

Siblings(t) == {u \in known : u.mac = t.mac}
\* The sum of the counts of a MAC: how many pairs of a record and one of its
\* misses there are.
Misses(m, count) == UNION {{u} \X (1..count[u]) : u \in {v \in Terminal : v.mac = m}}
TotalOf(m, count) == Cardinality(Misses(m, count))
Total(m) == TotalOf(m, miss)

-----------------------------------------------------------------------------
(* What a check writes.                                                    *)

\* _apply_compliance_result.  A downgrade is refused in the cooldown after an
\* automatic unblock, and rolled back when every firewall fails to block.
Apply(t, v, sticks) ==
    /\ comp' = IF v = "non_compliant" /\ ~sticks THEN comp ELSE [comp EXCEPT ![t] = v]
    /\ good' = IF v \in Good /\ v # comp[t] THEN [good EXCEPT ![t] = 0] ELSE good

\* Mutated: the misses of each record count for themselves.
CountMissAlone(t, threshold, sticks) ==
    LET counted == [miss EXCEPT ![t] = @ + 1]
    IN IF counted[t] >= threshold
       THEN miss' = [counted EXCEPT ![t] = 0] /\ Apply(t, "non_compliant", sticks)
       ELSE miss' = counted /\ UNCHANGED <<comp, good>>

\* One more miss.  The misses of every record of the MAC count together, and a
\* verdict resets them all, whether or not the downgrade then sticks.
CountMiss(t, threshold, sticks) ==
    LET counted == [miss EXCEPT ![t] = @ + 1]
    IN IF TotalOf(t.mac, counted) >= threshold
       THEN /\ miss' = [u \in Terminal |-> IF u \in Siblings(t) THEN 0 ELSE miss[u]]
            /\ Apply(t, "non_compliant", sticks)
       ELSE /\ miss' = counted
            /\ UNCHANGED <<comp, good>>

\* A readable registry corrects the device_id stamped on a terminal.
Restamp(t) ==
    device' = IF ~Grouping \/ ~registry THEN device
              ELSE IF t \in mapped THEN device \cup {t} ELSE device \ {t}

Accept(t, v) ==
    /\ miss' = [miss EXCEPT ![t] = 0]
    /\ Apply(t, v, TRUE)

History ==
    /\ since' = [m \in Mac |-> IF Total(m)' = 0 THEN 0 ELSE since[m]]

-----------------------------------------------------------------------------
(* recalculate_all_compliance, one terminal.                               *)

\* Mutated: stale data hold the way up as well.
RecalcAcceptsWhenReady(t) ==
    /\ UNCHANGED checked
    /\ SyncReady /\ t \notin wl /\ InBaseline(t) /\ Accept(t, "compliant")

RecalcAccepts(t) ==
    /\ UNCHANGED checked
    /\ \/ t \in wl /\ Accept(t, "bypass")
       \/ /\ t \notin wl /\ InBaseline(t)
          /\ comp[t] = "bypass" \/ ~InIpGrace(t)
          /\ Accept(t, "compliant")

\* Mutated: a miss is believed whatever the age of the data.
RecalcMissesAnyway(t) ==
    /\ t \notin wl
    /\ ~InBaseline(t)
    /\ ~MacFallback(scope[t], RecalcIpFound(t), RecalcMacFound(t))

\* The check found the terminal in neither list and may not look away.
RecalcMisses(t) ==
    /\ t \notin wl
    /\ ~InBaseline(t)
    /\ ~MacFallback(scope[t], RecalcIpFound(t), RecalcMacFound(t))
    /\ data = "ready"

\* A bypass terminal loses its whitelist entry after enough misses in a row.
RecalcBypassMissed(t, sticks) ==
    /\ comp[t] = "bypass"
    /\ RecalcMisses(t)
    /\ CountMiss(t, WhitelistMiss, sticks)
    /\ UNCHANGED checked

\* Mutated: the interval between two counted misses is not looked at.
SparedInHaste(t) ==
    \/ InIpGrace(t)
    \/ comp[t] = "unknown" /\ born[t] < NewGrace
    \/ comp[t] = "compliant" /\ good[t] < GoodGrace

\* The guards that hold an unknown or compliant terminal without counting.
Spared(t) ==
    \/ InIpGrace(t)
    \/ comp[t] = "unknown" /\ born[t] < NewGrace
    \/ comp[t] = "compliant" /\ good[t] < GoodGrace
    \/ checked[t] < MinInterval

Threshold(t) ==
    IF TotalAbsence(scope[t], RecalcIpFound(t), RecalcMacFound(t)) THEN Absence
    ELSE IF comp[t] = "compliant" THEN CompliantDowngrade ELSE Confirm

RecalcMissed(t, sticks) ==
    /\ comp[t] \in {"unknown", "compliant"}
    /\ RecalcMisses(t)
    /\ ~Spared(t)
    /\ CountMiss(t, Threshold(t), sticks)
    /\ checked' = [checked EXCEPT ![t] = 0]

\* The check reaches no verdict.
HasNoVerdict(t) ==
    /\ t \notin wl
    /\ IF InBaseline(t) THEN comp[t] # "bypass" /\ InIpGrace(t)
       ELSE \/ ~RecalcMisses(t)
            \/ comp[t] = "non_compliant"
            \/ comp[t] \in {"unknown", "compliant"} /\ Spared(t)

\* Mutated: a check that comes too early renews the interval.
RecalcHoldsRenewing(t) ==
    /\ HasNoVerdict(t)
    /\ checked' = [checked EXCEPT ![t] = 0]
    /\ UNCHANGED <<comp, miss, good>>

RecalcHolds(t) ==
    /\ HasNoVerdict(t)
    /\ UNCHANGED <<comp, miss, good, checked>>

Recalc(t, sticks) ==
    /\ t \in known \ offline
    /\ Available
    /\ \/ RecalcAccepts(t)
       \/ RecalcBypassMissed(t, sticks)
       \/ RecalcMissed(t, sticks)
       \/ RecalcHolds(t)
    /\ Restamp(t)
    /\ History
    /\ UNCHANGED <<known, world, offline, born, moved>>

-----------------------------------------------------------------------------
(* The first check of an unknown terminal.                                 *)

\* apply_initial_compliance_result on the flags of the terminal u the caller
\* looked up; match says whether u was found in the baseline.
FirstVerdict(t, u, match, sticks) ==
    IF u \in wl \/ match
    THEN /\ Accept(t, IF u \in wl THEN "bypass" ELSE "compliant")
         /\ UNCHANGED checked
    ELSE LET ip == IpFound(Seen(u))
             mac == MacFound(Seen(u))
         IN /\ ~InIpGrace(t)
            /\ t \notin offline
            /\ SyncReady
            /\ born[t] >= NewGrace
            /\ checked[t] >= MinInterval
            /\ ~MacFallback(scope[u], ip, mac)
            /\ CountMiss(t, IF TotalAbsence(scope[u], ip, mac)
                            THEN Absence ELSE Confirm, sticks)
            /\ checked' = [checked EXCEPT ![t] = 0]

\* The ARP collection looks the result up by (MAC, IP) and passes the stamp.
CollectorFirstCheck(t, sticks) ==
    /\ t \in known /\ comp[t] = "unknown"
    /\ FirstVerdict(t, t, InBaseline(t), sticks)
    /\ History
    /\ UNCHANGED <<known, world, offline, device, born, moved>>

\* The scheduler looks it up by MAC, so a sibling's may be found, and passes no
\* stamp: without the registry the terminal is judged by its own addresses.
ScheduledFirstCheck(t, sticks) ==
    /\ t \in known /\ comp[t] = "unknown"
    /\ checked[t] >= MinInterval
    /\ \E u \in Siblings(t) :
         /\ comp[u] = "unknown" /\ checked[u] >= MinInterval
         /\ FirstVerdict(t, u, IF Grouping /\ registry /\ u \in mapped THEN TRUE
                               ELSE Matches(scope[u], Seen(u)), sticks)
    /\ History
    /\ UNCHANGED <<known, world, offline, device, born, moved>>

-----------------------------------------------------------------------------
(* The other writers of the status and of the count.                       *)

Rewrite(t, c) ==
    /\ comp' = [comp EXCEPT ![t] = c]
    /\ miss' = [miss EXCEPT ![t] = 0]
    /\ History
    /\ UNCHANGED <<known, world, checked, good, device, born, moved>>

\* auto_unblock_compliant: judged by its own addresses, without device, grace
\* or count; Enforcement has the firewall side.
AutoUnblock(t) ==
    /\ t \in known /\ comp[t] = "non_compliant"
    /\ t \in wl \/ (Available /\ Matches(scope[t], ev[t]))
    /\ Rewrite(t, IF t \in wl THEN "bypass" ELSE "compliant")
    /\ UNCHANGED offline

\* The last block of the terminal expires, or its firewall is unbound: blocked
\* or blocked once, whatever its status has become since.
Forget(t) ==
    /\ t \in known
    /\ Rewrite(t, "unknown")
    /\ offline' = offline \ {t}

\* Reconciliation finds the terminal's IP listed on a firewall.
Converge(t) ==
    /\ t \in known /\ comp[t] = "unknown"
    /\ Rewrite(t, IF t \in wl THEN "bypass" ELSE "non_compliant")
    /\ offline' = IF t \in wl THEN offline ELSE offline \ {t}

\* add_to_whitelist of a MAC: every terminal that has it, offline or not.
AddMacEntry(m) ==
    LET hit == {t \in known : t.mac = m}
    IN /\ wl' = wl \cup {t \in Terminal : t.mac = m}
       /\ comp' = [t \in Terminal |-> IF t \in hit THEN "bypass" ELSE comp[t]]
       /\ miss' = [t \in Terminal |-> IF t \in hit THEN 0 ELSE miss[t]]
       /\ History
       /\ UNCHANGED <<known, scope, ev, data, mapped, registry, offline, checked,
                      good, device, born, moved>>

\* delete_from_whitelist of a MAC; a MAC with several terminals raises.
DeleteMacEntry(t) ==
    /\ Siblings(t) = {t} /\ t \in wl
    /\ wl' = wl \ {t}
    /\ comp' = [comp EXCEPT ![t] = "unknown"]
    /\ miss' = [miss EXCEPT ![t] = 0]
    /\ History
    /\ UNCHANGED <<known, scope, ev, data, mapped, registry, offline, checked,
                   good, device, born, moved>>

-----------------------------------------------------------------------------
(* The ARP collection and the world around the checks.                     *)

\* A terminal seen for the first time.
Discover(t) ==
    /\ t \notin known
    /\ known' = known \cup {t}
    /\ born' = [born EXCEPT ![t] = 0]
    /\ moved' = IF Siblings(t) = {} THEN moved ELSE moved \cup {t}
    /\ Restamp(t)
    /\ UNCHANGED <<world, offline, comp, miss, checked, good, since>>

\* A terminal missing from the collections for long enough.
GoOffline(t) ==
    /\ t \in known
    /\ offline' = offline \cup {t}
    /\ UNCHANGED <<known, world, row, born, moved, since>>

\* Seen again.  For a terminal that was offline the misses of every record of
\* its MAC are forgotten.
SeenAgain(t) ==
    /\ t \in known
    /\ offline' = offline \ {t}
    /\ miss' = [u \in Terminal |->
         IF t \in offline /\ u \in Siblings(t) THEN 0 ELSE miss[u]]
    /\ Restamp(t)
    /\ UNCHANGED <<known, world, comp, checked, good, born, moved>>
    /\ History

\* A round of the IPGuard synchronisation, or its failure, or a change there.
ChangeEvidence(t) ==
    /\ t \in known
    /\ \E e \in Evidence \ {ev[t]} : ev' = [ev EXCEPT ![t] = e]
    /\ UNCHANGED <<known, scope, data, mapped, registry, wl, offline, row, born,
                   moved, since>>

ChangeCache ==
    /\ \E d \in {"ready", "stale", "empty", "none"} \ {data} : data' = d
    /\ UNCHANGED <<known, scope, ev, mapped, registry, wl, offline, row, born,
                   moved, since>>

\* The device of a terminal enters or leaves the registry.
ChangeDevice(t) ==
    /\ Grouping
    /\ mapped' = IF t \in mapped THEN mapped \ {t} ELSE mapped \cup {t}
    /\ UNCHANGED <<known, scope, ev, data, registry, wl, offline, row, born,
                   moved, since>>

\* The key of the registry is lost or cannot be read; a later sync restores it.
ChangeRegistry ==
    /\ Grouping
    /\ registry' = ~registry
    /\ UNCHANGED <<known, scope, ev, data, mapped, wl, offline, row, born,
                   moved, since>>

\* An address range of the whitelist comes to cover a terminal, or no longer
\* does; the recalculation it asks for may find the lock taken.
ChangeRange(t) ==
    /\ t \in known
    /\ wl' = IF t \in wl THEN wl \ {t} ELSE wl \cup {t}
    /\ UNCHANGED <<known, scope, ev, data, mapped, registry, offline, row, born,
                   moved, since>>

Tick ==
    /\ checked' = [t \in Terminal |-> Capped(checked[t], MinInterval)]
    /\ good' = [t \in Terminal |-> Capped(good[t], GoodGrace)]
    /\ born' = [t \in Terminal |-> Capped(born[t], BirthWindow)]
    /\ since' = [m \in Mac |-> IF Total(m) = 0 THEN 0 ELSE Capped(since[m], MaxSpan)]
    /\ UNCHANGED <<known, world, offline, comp, miss, device, moved>>

Checks(t) == \E sticks \in BOOLEAN :
    Recalc(t, sticks) \/ CollectorFirstCheck(t, sticks) \/ ScheduledFirstCheck(t, sticks)

Writers(t) ==
    \/ AutoUnblock(t) \/ Forget(t) \/ Converge(t)
    \/ AddMacEntry(t.mac) \/ DeleteMacEntry(t)

World(t) ==
    \/ Discover(t) \/ GoOffline(t) \/ SeenAgain(t)
    \/ ChangeEvidence(t) \/ ChangeDevice(t) \/ ChangeRange(t)

Next ==
    \/ Tick \/ ChangeCache \/ ChangeRegistry
    \/ \E t \in Terminal : Checks(t) \/ Writers(t) \/ World(t)

Spec == Init /\ [][Next]_vars

-----------------------------------------------------------------------------
(* Fairness: time passes, every terminal is checked again and again by the  *)
(* scheduler, and the firewalls do not refuse every downgrade for ever.     *)

Downgrade(t) ==
    /\ Recalc(t, TRUE) \/ CollectorFirstCheck(t, TRUE) \/ ScheduledFirstCheck(t, TRUE)
    /\ comp'[t] # comp[t] /\ comp'[t] = "non_compliant"

Fairness ==
    /\ WF_vars(Tick)
    /\ \A t \in Terminal :
         /\ WF_vars(\E sticks \in BOOLEAN : Recalc(t, sticks))
         /\ SF_vars(Downgrade(t))

FairSpec == Spec /\ Fairness

-----------------------------------------------------------------------------
(* Properties.                                                             *)

\* A step that turns t non_compliant on the strength of the checks.
Condemns(t) ==
    /\ comp[t] # "non_compliant" /\ comp'[t] = "non_compliant"
    /\ ~Converge(t)

LeastThreshold(t) ==
    IF comp[t] = "compliant" THEN Min({CompliantDowngrade, Absence})
                             ELSE Min({Confirm, Absence})

\* The misses of a MAC never pile up past the verdict they should have led to,
\* whatever mixture of paths, thresholds and addresses they were counted under
\* (_mac_non_compliant_total and _reset_mac_non_compliant_counts).
MissesLeadToAVerdict == \A m \in Mac : Total(m) < MaxOf(Thresholds)

\* The N misses that condemn an unknown or compliant terminal were seen in N
\* distinct confirmation intervals, as long as its MAC has no other address:
\* the guards of the two checks interlock through compliance_checked_at.
LoneDowngradeIsSpaced ==
    [][\A t \in Terminal :
         Condemns(t) /\ comp[t] # "bypass" /\ Siblings(t) = {t}
         => since[t.mac] >= (LeastThreshold(t) - 1) * MinInterval]_vars

\* No path condemns a terminal that is new, or whose address is new, before the
\* baseline has had time to catch up; misses of siblings do not shorten this.
NewcomerIsSpared ==
    [][\A t \in Terminal : Condemns(t) /\ comp[t] = "unknown"
         => born[t] >= NewGrace /\ (t \in moved => born[t] >= IpGrace)]_vars

\* While the synchronisation is not ready nothing counts against a terminal, on
\* any path, and nothing condemns one.
StaleDataNeverCounts ==
    [][~SyncReady => \A t \in Terminal : miss'[t] <= miss[t] /\ ~Condemns(t)]_vars

PlainlyBad(t) ==
    /\ t \in known \ (offline \cup wl)
    /\ Siblings(t) = {t}
    /\ RecalcMisses(t)
    /\ ~Matches(scope[t], ev[t])

PlainlyGood(t) ==
    /\ t \in known \ offline
    /\ Available
    /\ t \in wl \/ InBaseline(t)

\* The guards delay a downgrade but cannot starve it: a terminal that stays out
\* of both lists ends up non_compliant, again after each time it is forgotten,
\* unless it is forgotten for ever before it gets there.
BadIsCondemned ==
    \A t \in Terminal :
        <>[]PlainlyBad(t) /\ <>[][comp[t] = "unknown" => ~Forget(t)]_vars
        => []<>(comp[t] = "non_compliant")

\* A terminal that stays in one of the lists ends up compliant or bypass, in
\* spite of the address grace, which holds the way up as well.
GoodIsRecognised ==
    \A t \in Terminal : <>[]PlainlyGood(t) => []<>(comp[t] \in Good)

=============================================================================
