----------------------- MODULE ComplianceDecisionProofs -----------------------
(***************************************************************************)
(* What holds of the verdict for every set of terminals, every evidence    *)
(* and every setting of the thresholds and windows.                        *)
(*                                                                         *)
(* First the action properties that only need counts to be numbers.  Then  *)
(* the sums: below the greatest threshold, as long as an undiscovered      *)
(* record has missed nothing.  Then the spacing: what a lone terminal has  *)
(* missed, times the interval, plus the age of its last check, is at most  *)
(* the time since its first miss.                                          *)
(***************************************************************************)
EXTENDS ComplianceDecision, FiniteSetTheorems, TLAPS

\* The part of the type invariant the action properties rest on.
CountsAreNumbers ==
    /\ known \subseteq Terminal
    /\ miss \in [Terminal -> Nat]
    /\ comp \in [Terminal -> Status]
    /\ checked \in [Terminal -> 0..MinInterval]
    /\ born \in [Terminal -> Nat]

\* The two ways a check can touch the count of a terminal.
LEMMA CountMissWrites ==
    ASSUME CountsAreNumbers, NEW t \in Terminal, NEW threshold, NEW sticks \in BOOLEAN,
           CountMiss(t, threshold, sticks)
    PROVE  /\ miss' \in [Terminal -> Nat]
           /\ comp' \in [Terminal -> Status]
           /\ \A u \in Terminal : u # t => miss'[u] <= miss[u] /\ comp'[u] = comp[u]
PROOF
  <1>1. CASE TotalOf(t.mac, [miss EXCEPT ![t] = @ + 1]) >= threshold
    BY <1>1, SMT DEF CountMiss, CountsAreNumbers, Apply, Status, Good
  <1>2. CASE ~(TotalOf(t.mac, [miss EXCEPT ![t] = @ + 1]) >= threshold)
    BY <1>2, SMT DEF CountMiss, CountsAreNumbers
  <1> QED BY <1>1, <1>2

LEMMA AcceptWrites ==
    ASSUME CountsAreNumbers, NEW t \in Terminal, NEW v \in Good, Accept(t, v)
    PROVE  /\ miss' \in [Terminal -> Nat]
           /\ comp' \in [Terminal -> Status]
           /\ \A u \in Terminal : miss'[u] <= miss[u]
           /\ \A u \in Terminal : comp'[u] = "non_compliant" => comp'[u] = comp[u]
PROOF BY SMT DEF Accept, Apply, CountsAreNumbers, Status, Good

LEMMA AgesStay ==
    ASSUME CountsAreNumbers, NEW t \in Terminal
    PROVE  [checked EXCEPT ![t] = 0] \in [Terminal -> 0..MinInterval]
PROOF BY ConfigAssumption, SMT DEF CountsAreNumbers, Windows

-----------------------------------------------------------------------------
(* What each action does to counts and statuses.                           *)

\* A step that raises no count and condemns nobody.
Harmless ==
    /\ \A u \in Terminal : miss'[u] <= miss[u]
    /\ \A u \in Terminal : comp'[u] = "non_compliant" => comp'[u] = comp[u]

\* A recalculated terminal: either nothing counts, or every guard has let the
\* miss through.
LEMMA RecalcWrites ==
    ASSUME CountsAreNumbers, NEW t \in Terminal, NEW sticks \in BOOLEAN, Recalc(t, sticks)
    PROVE  /\ CountsAreNumbers'
           /\ \/ Harmless
              \/ /\ data = "ready"
                 /\ comp[t] # "bypass" => ~Spared(t)
                 /\ \A u \in Terminal : u # t => comp'[u] = comp[u]
PROOF
  <1> UNCHANGED <<known, born>>
    BY DEF Recalc
  <1>1. CASE RecalcAccepts(t)
    <2>1. PICK v \in Good : Accept(t, v)
      BY <1>1 DEF RecalcAccepts, Good
    <2>2. Harmless /\ miss' \in [Terminal -> Nat] /\ comp' \in [Terminal -> Status]
      BY <2>1, AcceptWrites DEF Harmless
    <2> QED BY <1>1, <2>2 DEF RecalcAccepts, CountsAreNumbers
  <1>2. CASE RecalcBypassMissed(t, sticks)
    <2>1. CountMiss(t, WhitelistMiss, sticks) /\ data = "ready" /\ comp[t] = "bypass"
      BY <1>2 DEF RecalcBypassMissed, RecalcMisses
    <2>2. /\ miss' \in [Terminal -> Nat] /\ comp' \in [Terminal -> Status]
          /\ \A u \in Terminal : u # t => comp'[u] = comp[u]
      BY <2>1, CountMissWrites
    <2> QED BY <1>2, <2>1, <2>2 DEF RecalcBypassMissed, CountsAreNumbers
  <1>3. CASE RecalcMissed(t, sticks)
    <2>1. CountMiss(t, Threshold(t), sticks) /\ data = "ready" /\ ~Spared(t)
      BY <1>3 DEF RecalcMissed, RecalcMisses
    <2>2. /\ miss' \in [Terminal -> Nat] /\ comp' \in [Terminal -> Status]
          /\ \A u \in Terminal : u # t => comp'[u] = comp[u]
      BY <2>1, CountMissWrites
    <2>3. checked' \in [Terminal -> 0..MinInterval]
      BY <1>3, AgesStay DEF RecalcMissed
    <2> QED BY <2>1, <2>2, <2>3 DEF CountsAreNumbers
  <1>4. CASE RecalcHolds(t)
    BY <1>4, SMT DEF RecalcHolds, CountsAreNumbers, Harmless
  <1> QED BY <1>1, <1>2, <1>3, <1>4 DEF Recalc

\* A first verdict: the same, under the guards of apply_initial.
LEMMA FirstVerdictWrites ==
    ASSUME CountsAreNumbers, NEW t \in Terminal, NEW u \in Terminal, NEW match,
           NEW sticks \in BOOLEAN, FirstVerdict(t, u, match, sticks), UNCHANGED <<known, born>>
    PROVE  /\ CountsAreNumbers'
           /\ \/ Harmless
              \/ /\ SyncReady
                 /\ born[t] >= NewGrace /\ ~InIpGrace(t)
                 /\ \A w \in Terminal : w # t => comp'[w] = comp[w]
PROOF
  <1>1. CASE u \in wl \/ match
    <2>1. PICK v \in Good : Accept(t, v) /\ UNCHANGED checked
      BY <1>1 DEF FirstVerdict, Good
    <2>2. Harmless /\ miss' \in [Terminal -> Nat] /\ comp' \in [Terminal -> Status]
      BY <2>1, AcceptWrites DEF Harmless
    <2> QED BY <2>1, <2>2 DEF CountsAreNumbers
  <1>2. CASE ~(u \in wl \/ match)
    <2>1. PICK threshold : CountMiss(t, threshold, sticks)
      BY <1>2 DEF FirstVerdict
    <2>2. /\ miss' \in [Terminal -> Nat] /\ comp' \in [Terminal -> Status]
          /\ \A w \in Terminal : w # t => comp'[w] = comp[w]
      BY <2>1, CountMissWrites
    <2>3. checked' \in [Terminal -> 0..MinInterval]
      BY <1>2, AgesStay DEF FirstVerdict
    <2>4. SyncReady /\ born[t] >= NewGrace /\ ~InIpGrace(t)
      BY <1>2 DEF FirstVerdict
    <2> QED BY <2>2, <2>3, <2>4 DEF CountsAreNumbers
  <1> QED BY <1>1, <1>2

-----------------------------------------------------------------------------
(* Every step but a check lowers counts, and condemns only by convergence.  *)

Settles(t) == AutoUnblock(t) \/ Forget(t) \/ AddMacEntry(t.mac) \/ DeleteMacEntry(t)

LEMMA RewriteWrites ==
    ASSUME CountsAreNumbers, NEW t \in Terminal, NEW c \in Status, Rewrite(t, c)
    PROVE  /\ CountsAreNumbers'
           /\ \A u \in Terminal : miss'[u] <= miss[u]
           /\ \A u \in Terminal : comp'[u] = "non_compliant" =>
                 comp'[u] = comp[u] \/ (u = t /\ c = "non_compliant")
PROOF BY SMT DEF Rewrite, CountsAreNumbers, world

LEMMA SettlingIsHarmless ==
    ASSUME CountsAreNumbers, NEW t \in Terminal, Settles(t)
    PROVE  CountsAreNumbers' /\ Harmless
PROOF
  <1>1. CASE AutoUnblock(t)
    <2>1. PICK c \in Good : Rewrite(t, c)
      BY <1>1 DEF AutoUnblock, Good
    <2>2. c \in Status /\ c # "non_compliant"
      BY DEF Good, Status
    <2> QED BY <2>1, <2>2, RewriteWrites DEF Harmless
  <1>2. CASE Forget(t)
    <2>1. Rewrite(t, "unknown") /\ "unknown" \in Status
      BY <1>2 DEF Forget, Status
    <2> QED BY <2>1, RewriteWrites, SMT DEF Harmless
  <1>3. CASE AddMacEntry(t.mac)
    BY <1>3, SMT DEF AddMacEntry, CountsAreNumbers, Harmless, Status, Good
  <1>4. CASE DeleteMacEntry(t)
    BY <1>4, SMT DEF DeleteMacEntry, CountsAreNumbers, Harmless, Status, Good
  <1> QED BY <1>1, <1>2, <1>3, <1>4 DEF Settles

LEMMA ConvergeLowers ==
    ASSUME CountsAreNumbers, NEW t \in Terminal, Converge(t)
    PROVE  /\ CountsAreNumbers'
           /\ \A u \in Terminal : miss'[u] <= miss[u]
           /\ \A u \in Terminal : ~Condemns(u)
PROOF
  <1>1. PICK c \in Status : Rewrite(t, c)
    BY DEF Converge, Status, Good
  <1>2. \A u \in Terminal : comp'[u] = "non_compliant" => comp'[u] = comp[u] \/ u = t
    BY <1>1, RewriteWrites
  <1> QED BY <1>1, <1>2, RewriteWrites DEF Condemns

LEMMA WorldIsHarmless ==
    ASSUME CountsAreNumbers,
           \/ Tick \/ ChangeCache \/ ChangeRegistry
           \/ \E t \in Terminal : World(t)
           \/ UNCHANGED vars
    PROVE  CountsAreNumbers' /\ Harmless
PROOF
  <1>1. CASE Tick
    <2>1. checked' \in [Terminal -> 0..MinInterval] /\ born' \in [Terminal -> Nat]
      BY <1>1, ConfigAssumption, SMT
         DEF Tick, Capped, CountsAreNumbers, Windows, BirthWindow
    <2>2. UNCHANGED <<known, miss, comp>>
      BY <1>1 DEF Tick
    <2> QED BY <2>1, <2>2, SMT DEF CountsAreNumbers, Harmless
  <1>2. CASE ChangeCache \/ ChangeRegistry
    BY <1>2, SMT DEF ChangeCache, ChangeRegistry, row, CountsAreNumbers, Harmless
  <1>3. ASSUME NEW t \in Terminal, World(t)
        PROVE  CountsAreNumbers' /\ Harmless
    <2>1. CASE SeenAgain(t)
      BY <2>1, SMT DEF SeenAgain, CountsAreNumbers, Harmless
    <2>2. CASE Discover(t)
      BY <2>2, SMT DEF Discover, CountsAreNumbers, Harmless
    <2>3. CASE GoOffline(t) \/ ChangeEvidence(t) \/ ChangeDevice(t) \/ ChangeRange(t)
      BY <2>3, SMT DEF GoOffline, ChangeEvidence, ChangeDevice, ChangeRange, row,
                       CountsAreNumbers, Harmless
    <2> QED BY <1>3, <2>1, <2>2, <2>3 DEF World
  <1>4. CASE UNCHANGED vars
    BY <1>4, SMT DEF vars, row, CountsAreNumbers, Harmless
  <1> QED BY <1>1, <1>2, <1>3, <1>4

-----------------------------------------------------------------------------
(* One step of the system, and what follows from its effect alone.         *)

\* What a step may do, by the kind of step it is.
LEMMA StepEffect ==
    ASSUME CountsAreNumbers, [Next]_vars
    PROVE  /\ CountsAreNumbers'
           /\ SyncReady \/ \A t \in Terminal : miss'[t] <= miss[t] /\ ~Condemns(t)
           /\ \A t \in Terminal : Condemns(t) /\ comp[t] = "unknown"
                 => born[t] >= NewGrace /\ (t \in moved => born[t] >= IpGrace)
PROOF
  <1> DEFINE Claim ==
        /\ CountsAreNumbers'
        /\ SyncReady \/ \A t \in Terminal : miss'[t] <= miss[t] /\ ~Condemns(t)
        /\ \A t \in Terminal : Condemns(t) /\ comp[t] = "unknown"
              => born[t] >= NewGrace /\ (t \in moved => born[t] >= IpGrace)
  <1>a. CountsAreNumbers' /\ Harmless => Claim
    BY SMT DEF Harmless, Condemns
  <1>1. ASSUME NEW t \in Terminal, Checks(t)
        PROVE  Claim
    <2>1. PICK sticks \in BOOLEAN : \/ Recalc(t, sticks)
                                    \/ CollectorFirstCheck(t, sticks)
                                    \/ ScheduledFirstCheck(t, sticks)
      BY <1>1 DEF Checks
    <2>2. CASE Recalc(t, sticks)
      <3>1. CASE CountsAreNumbers' /\ Harmless
        BY <3>1, <1>a
      <3>2. CASE ~Harmless
        <4>1. data = "ready" /\ (comp[t] # "bypass" => ~Spared(t)) /\ CountsAreNumbers'
          BY <2>2, <3>2, RecalcWrites
        <4>2. \A u \in Terminal : u # t => comp'[u] = comp[u]
          BY <2>2, <3>2, RecalcWrites
        <4>3. SyncReady
          BY <4>1 DEF SyncReady
        <4>4. ASSUME NEW u \in Terminal, Condemns(u), comp[u] = "unknown"
              PROVE  born[u] >= NewGrace /\ (u \in moved => born[u] >= IpGrace)
          <5>1. u = t
            BY <4>2, <4>4 DEF Condemns
          <5>0. born[t] \in Nat /\ NewGrace \in Nat /\ IpGrace \in Nat
            BY ConfigAssumption DEF CountsAreNumbers, Windows
          <5>2. ~(born[t] < NewGrace) /\ ~(t \in moved /\ born[t] < IpGrace)
            BY <4>1, <4>4, <5>1 DEF Spared, InIpGrace
          <5> QED BY <5>0, <5>1, <5>2, SMT
        <4> QED BY <4>1, <4>3, <4>4
      <3> QED BY <2>2, <3>1, <3>2, RecalcWrites
    <2>3. CASE CollectorFirstCheck(t, sticks) \/ ScheduledFirstCheck(t, sticks)
      <3>0. PICK u \in Terminal : \E match : FirstVerdict(t, u, match, sticks)
        BY <2>3 DEF CollectorFirstCheck, ScheduledFirstCheck, Siblings, CountsAreNumbers
      <3>1. PICK match : FirstVerdict(t, u, match, sticks)
        BY <3>0
      <3>2. UNCHANGED <<known, born>>
        BY <2>3 DEF CollectorFirstCheck, ScheduledFirstCheck
      <3>3. CASE CountsAreNumbers' /\ Harmless
        BY <3>3, <1>a
      <3>4. CASE ~Harmless
        <4>1. SyncReady /\ born[t] >= NewGrace /\ ~InIpGrace(t) /\ CountsAreNumbers'
          BY <3>1, <3>2, <3>4, FirstVerdictWrites
        <4>2. \A w \in Terminal : w # t => comp'[w] = comp[w]
          BY <3>1, <3>2, <3>4, FirstVerdictWrites
        <4>3. t \in moved => born[t] >= IpGrace
          <5>1. born[t] \in Nat /\ IpGrace \in Nat
            BY ConfigAssumption DEF CountsAreNumbers, Windows
          <5> QED BY <4>1, <5>1, SMT DEF InIpGrace
        <4>4. \A w \in Terminal : Condemns(w) => w = t
          BY <4>2 DEF Condemns
        <4>5. ASSUME NEW w \in Terminal, Condemns(w)
              PROVE  born[w] >= NewGrace /\ (w \in moved => born[w] >= IpGrace)
          BY <4>1, <4>3, <4>4, <4>5
        <4> QED BY <4>1, <4>5
      <3> QED BY <3>1, <3>2, <3>3, <3>4, FirstVerdictWrites
    <2> QED BY <2>1, <2>2, <2>3
  <1>2. ASSUME NEW t \in Terminal, Writers(t)
        PROVE  Claim
    <2>1. CASE Converge(t)
      BY <2>1, ConvergeLowers
    <2>2. CASE Settles(t)
      BY <2>2, SettlingIsHarmless, <1>a
    <2> QED BY <1>2, <2>1, <2>2 DEF Writers, Settles
  <1>3. CASE \/ Tick \/ ChangeCache \/ ChangeRegistry
             \/ \E t \in Terminal : World(t)
             \/ UNCHANGED vars
    BY <1>3, WorldIsHarmless, <1>a
  <1> QED BY <1>1, <1>2, <1>3 DEF Next

LEMMA InitCounts == Init => CountsAreNumbers
PROOF
  <1> SUFFICES ASSUME Init PROVE CountsAreNumbers
    OBVIOUS
  <1>1. MinInterval \in Nat /\ BirthWindow \in Nat
    BY ConfigAssumption, SMT DEF Windows, BirthWindow
  <1>2. known = {} /\ comp = [t \in Terminal |-> "unknown"] /\ miss = [t \in Terminal |-> 0]
    BY DEF Init
  <1>3. checked = [t \in Terminal |-> MinInterval] /\ born = [t \in Terminal |-> BirthWindow]
    BY DEF Init
  <1> QED BY <1>1, <1>2, <1>3, SMT DEF CountsAreNumbers, Status, Good

\* Counts stay numbers and statuses stay statuses, under every configuration.
THEOREM CountsInvariant == Spec => []CountsAreNumbers
PROOF
  <1>1. CountsAreNumbers /\ [Next]_vars => CountsAreNumbers'
    BY StepEffect
  <1> QED BY InitCounts, <1>1, PTL DEF Spec

\* While the IPGuard synchronisation is not ready no path counts a miss against
\* any terminal or condemns one: not the recalculation, whose bypass branch has
\* no other guard, not either caller of the first check, and no rewriting of the
\* status in between.
THEOREM NothingCountsOnStaleData == Spec => StaleDataNeverCounts
PROOF
  <1>1. CountsAreNumbers /\ [Next]_vars =>
          [~SyncReady => \A t \in Terminal : miss'[t] <= miss[t] /\ ~Condemns(t)]_vars
    BY StepEffect
  <1> QED BY <1>1, CountsInvariant, PTL DEF Spec, StaleDataNeverCounts

\* A new terminal, and a terminal at a new address, keep their grace on every
\* path and however many records their MAC has, although the misses of all of
\* them count together.
THEOREM NewcomersKeepTheirGrace == Spec => NewcomerIsSpared
PROOF
  <1>1. CountsAreNumbers /\ [Next]_vars =>
          [\A t \in Terminal : Condemns(t) /\ comp[t] = "unknown"
             => born[t] >= NewGrace /\ (t \in moved => born[t] >= IpGrace)]_vars
    BY StepEffect
  <1> QED BY <1>1, CountsInvariant, PTL DEF Spec, NewcomerIsSpared

-----------------------------------------------------------------------------
(* The counts of a MAC added up.                                           *)

\* No threshold is above the greatest, which is one of them.
LEMMA GreatestThreshold ==
    /\ MaxOf(Thresholds) \in Nat \ {0}
    /\ \A n \in Thresholds : n \in Nat \ {0} /\ n <= MaxOf(Thresholds)
PROOF
  <1> DEFINE Greater(a, b) == IF a >= b THEN a ELSE b
             g == Greater(Greater(Confirm, CompliantDowngrade), Greater(Absence, WhitelistMiss))
  <1>1. /\ Confirm \in Nat \ {0} /\ CompliantDowngrade \in Nat \ {0}
        /\ Absence \in Nat \ {0} /\ WhitelistMiss \in Nat \ {0}
    BY ConfigAssumption DEF Thresholds
  <1>2. g \in Thresholds /\ \A n \in Thresholds : g >= n
    BY <1>1, SMT DEF Thresholds
  <1>3. MaxOf(Thresholds) \in Thresholds /\ \A n \in Thresholds : MaxOf(Thresholds) >= n
    BY <1>2 DEF MaxOf, Max
  <1>4. \A n \in Thresholds : n \in Nat \ {0}
    BY ConfigAssumption
  <1> HIDE DEF g, Thresholds
  <1>5. PICK x \in Thresholds : x = MaxOf(Thresholds)
    BY <1>3
  <1> QED BY <1>3, <1>4, <1>5

\* Counts of at most b each add up to a number.
LEMMA TotalIsNumber ==
    ASSUME NEW b \in Nat, NEW count \in [Terminal -> 0..b], NEW m
    PROVE  IsFiniteSet(Misses(m, count)) /\ TotalOf(m, count) \in Nat
PROOF
  <1>1. IsFiniteSet(Terminal \X (1..b))
    <2>1. IsFiniteSet(1..b)
      BY FS_Interval
    <2> QED BY <2>1, FiniteAssumption, FS_Product
  <1>2. Misses(m, count) \in SUBSET (Terminal \X (1..b))
    BY SMT DEF Misses
  <1> QED BY <1>1, <1>2, FS_Subset, FS_CardinalityType DEF TotalOf

\* The sum grows with the counts.
LEMMA TotalGrows ==
    ASSUME NEW b \in Nat, NEW count \in [Terminal -> 0..b], NEW other \in [Terminal -> 0..b],
           NEW m, \A u \in Terminal : u.mac = m => count[u] <= other[u]
    PROVE  TotalOf(m, count) <= TotalOf(m, other)
PROOF
  <1>1. Misses(m, count) \in SUBSET Misses(m, other)
    BY SMT DEF Misses
  <1>2. IsFiniteSet(Misses(m, other))
    BY TotalIsNumber
  <1> QED BY <1>1, <1>2, FS_Subset DEF TotalOf

\* A terminal that is the only one of its MAC to have missed is the whole sum.
LEMMA TotalOfOne ==
    ASSUME NEW b \in Nat, NEW count \in [Terminal -> 0..b], NEW t \in Terminal,
           \A u \in Terminal : u # t /\ u.mac = t.mac => count[u] = 0
    PROVE  TotalOf(t.mac, count) = count[t]
PROOF
  <1>1. Misses(t.mac, count) = {t} \X (1..count[t])
    <2>1. \A u \in Terminal : u # t /\ u.mac = t.mac => 1..count[u] = {}
      BY SMT
    <2> QED BY <2>1 DEF Misses
  <1>2. IsFiniteSet({t}) /\ Cardinality({t}) = 1
    BY FS_Singleton
  <1>3. PICK S : S = 1..count[t]
    OBVIOUS
  <1>4. count[t] \in Nat /\ IsFiniteSet(S) /\ Cardinality(S) = count[t]
    BY <1>3, FS_Interval
  <1>5. Cardinality({t} \X S) = 1 * count[t]
    BY <1>2, <1>4, FS_Product
  <1> QED BY <1>1, <1>3, <1>4, <1>5 DEF TotalOf

\* No single count is above the sum.
LEMMA TotalCoversEach ==
    ASSUME NEW b \in Nat, NEW count \in [Terminal -> 0..b], NEW t \in Terminal
    PROVE  count[t] <= TotalOf(t.mac, count)
PROOF
  <1> DEFINE own == [u \in Terminal |-> IF u = t THEN count[t] ELSE 0]
  <1>1. own \in [Terminal -> 0..b] /\ own[t] = count[t]
    OBVIOUS
  <1>2. \A u \in Terminal : u # t => own[u] = 0
    OBVIOUS
  <1>3. \A u \in Terminal : own[u] <= count[u]
    BY SMT
  <1> HIDE DEF own
  <1>4. TotalOf(t.mac, own) = count[t]
    BY <1>1, <1>2, TotalOfOne
  <1> QED BY <1>1, <1>3, <1>4, TotalGrows

\* Where nobody has missed the sum is zero.
LEMMA TotalOfNone ==
    ASSUME NEW count \in [Terminal -> Nat], NEW m, \A u \in Terminal : u.mac = m => count[u] = 0
    PROVE  TotalOf(m, count) = 0
PROOF
  <1>1. Misses(m, count) = {}
    BY SMT DEF Misses
  <1> QED BY <1>1, FS_EmptySet DEF TotalOf

-----------------------------------------------------------------------------
(* The counts: every sum is below the greatest threshold.                  *)

\* A record that was never discovered has missed nothing.
UnknownMissNothing == \A t \in Terminal \ known : miss[t] = 0

CountsOK ==
    /\ miss \in [Terminal -> 0..(MaxOf(Thresholds) - 1)]
    /\ MissesLeadToAVerdict
    /\ UnknownMissNothing

LEMMA CountsFall ==
    ASSUME CountsOK, known \subseteq known', miss' \in [Terminal -> Nat],
           \A u \in Terminal : miss'[u] <= miss[u]
    PROVE  CountsOK'
PROOF
  <1>1. PICK b \in Nat : b = MaxOf(Thresholds) - 1
    BY GreatestThreshold
  <1>2. miss \in [Terminal -> 0..b] /\ miss' \in [Terminal -> 0..b]
    BY <1>1 DEF CountsOK
  <1>3. ASSUME NEW m \in Mac PROVE TotalOf(m, miss') < MaxOf(Thresholds)
    <2>1. TotalOf(m, miss') <= TotalOf(m, miss)
      BY <1>2, TotalGrows
    <2>2. TotalOf(m, miss) \in Nat /\ TotalOf(m, miss') \in Nat
      BY <1>2, TotalIsNumber
    <2>3. TotalOf(m, miss) < MaxOf(Thresholds)
      BY DEF CountsOK, MissesLeadToAVerdict, Total
    <2> QED BY <2>1, <2>2, <2>3, GreatestThreshold
  <1>4. UnknownMissNothing'
    BY <1>2 DEF CountsOK, UnknownMissNothing
  <1> QED BY <1>1, <1>2, <1>3, <1>4 DEF CountsOK, MissesLeadToAVerdict, Total

\* One more miss leaves the sum of the MAC below its threshold, or at zero.
LEMMA CountMissBounded ==
    ASSUME CountsOK, NEW t \in known, t \in Terminal, UNCHANGED known,
           NEW n \in Thresholds, NEW sticks \in BOOLEAN, CountMiss(t, n, sticks)
    PROVE  CountsOK'
PROOF
  <1>1. PICK b \in Nat : b = MaxOf(Thresholds) - 1 /\ b + 1 = MaxOf(Thresholds)
    BY GreatestThreshold
  <1>2. PICK counted : counted = [miss EXCEPT ![t] = @ + 1]
    OBVIOUS
  <1>3. miss \in [Terminal -> 0..b] /\ counted \in [Terminal -> 0..(b + 1)]
    BY <1>1, <1>2 DEF CountsOK
  <1>4. /\ n \in Nat /\ n <= MaxOf(Thresholds)
        /\ TotalOf(t.mac, counted) \in Nat /\ counted[t] <= TotalOf(t.mac, counted)
    <2>1. b + 1 \in Nat
      BY <1>1
    <2> QED BY <1>3, <2>1, GreatestThreshold, TotalIsNumber, TotalCoversEach
  <1>5. CASE TotalOf(t.mac, counted) >= n
    <2>1. miss' = [u \in Terminal |-> IF u \in Siblings(t) THEN 0 ELSE miss[u]]
      BY <1>2, <1>5 DEF CountMiss
    <2>2. miss' \in [Terminal -> Nat] /\ \A u \in Terminal : miss'[u] <= miss[u]
      BY <1>3, <2>1, SMT
    <2> QED BY <2>2, CountsFall
  <1>6. CASE ~ (TotalOf(t.mac, counted) >= n)
    <2>1. miss' = counted
      BY <1>2, <1>6 DEF CountMiss
    <2>2. TotalOf(t.mac, counted) < MaxOf(Thresholds) /\ counted[t] <= b
      <3>1. counted[t] \in Nat
        BY <1>3
      <3> QED BY <1>1, <1>4, <1>6, <3>1, GreatestThreshold
    <2>3. miss' \in [Terminal -> 0..b]
      BY <1>2, <1>3, <2>1, <2>2, SMT
    <2>4. ASSUME NEW m \in Mac, m # t.mac PROVE TotalOf(m, miss') < MaxOf(Thresholds)
      <3>1. Misses(m, counted) = Misses(m, miss)
        BY <1>2, <1>3, <2>4 DEF Misses
      <3> QED BY <2>1, <3>1 DEF TotalOf, CountsOK, MissesLeadToAVerdict, Total
    <2>5. MissesLeadToAVerdict'
      BY <2>1, <2>2, <2>4 DEF MissesLeadToAVerdict, Total
    <2>6. UnknownMissNothing'
      BY <1>2, <2>1 DEF CountsOK, UnknownMissNothing
    <2> QED BY <1>1, <2>3, <2>5, <2>6 DEF CountsOK
  <1> QED BY <1>5, <1>6

-----------------------------------------------------------------------------
(* What a check is.                                                        *)

\* A verdict that clears the terminal; a miss in the whitelist; a miss that
\* opens a new interval; nothing.
Cleared(t) == \E v \in Good : Accept(t, v) /\ UNCHANGED checked
WhitelistMissed(t, sticks) ==
    comp[t] = "bypass" /\ CountMiss(t, WhitelistMiss, sticks) /\ UNCHANGED checked
IntervalMissed(t, sticks) ==
    /\ comp[t] \in {"unknown", "compliant"}
    /\ ~ (checked[t] < MinInterval)
    /\ \E n \in Thresholds :
        /\ n = Absence \/ n = IF comp[t] = "compliant" THEN CompliantDowngrade ELSE Confirm
        /\ CountMiss(t, n, sticks)
    /\ checked' = [checked EXCEPT ![t] = 0]
Held(t) == UNCHANGED <<comp, miss, good, checked>>

Verdict(t, sticks) ==
    \/ Cleared(t) \/ WhitelistMissed(t, sticks) \/ IntervalMissed(t, sticks) \/ Held(t)

LEMMA FirstVerdictIs ==
    ASSUME NEW t, NEW u, NEW match, NEW sticks, comp[t] = "unknown",
           checked[t] \in Nat, FirstVerdict(t, u, match, sticks)
    PROVE  Verdict(t, sticks)
PROOF
  <1>1. CASE u \in wl \/ match
    BY <1>1 DEF FirstVerdict, Verdict, Cleared, Good
  <1>2. CASE ~ (u \in wl \/ match)
    <2>1. ~ (checked[t] < MinInterval) /\ checked' = [checked EXCEPT ![t] = 0]
      <3>1. checked[t] >= MinInterval
        BY <1>2 DEF FirstVerdict
      <3>2. MinInterval \in Nat /\ (checked[t] >= MinInterval => ~ (checked[t] < MinInterval))
        BY ConfigAssumption DEF Windows
      <3> QED BY <1>2, <3>1, <3>2 DEF FirstVerdict
    <2>2. CountMiss(t, Absence, sticks) \/ CountMiss(t, Confirm, sticks)
      BY <1>2 DEF FirstVerdict
    <2> QED BY <2>1, <2>2 DEF Verdict, IntervalMissed, Thresholds
  <1> QED BY <1>1, <1>2

\* Every check is a verdict of this kind on a discovered terminal.
LEMMA CheckIs ==
    ASSUME NEW t \in Terminal, checked[t] \in Nat, Checks(t)
    PROVE  /\ t \in known /\ UNCHANGED <<known, world, offline, born, moved>>
           /\ History
           /\ device \subseteq Terminal => device' \subseteq Terminal
           /\ \E sticks \in BOOLEAN : Verdict(t, sticks)
PROOF
  <1>1. PICK sticks \in BOOLEAN : \/ Recalc(t, sticks)
                                  \/ CollectorFirstCheck(t, sticks)
                                  \/ ScheduledFirstCheck(t, sticks)
    BY DEF Checks
  <1>2. CASE Recalc(t, sticks)
    <2>1. /\ t \in known /\ UNCHANGED <<known, world, offline, born, moved>> /\ History
          /\ device \subseteq Terminal => device' \subseteq Terminal
      BY <1>2 DEF Recalc, Restamp
    <2>2. ASSUME RecalcAccepts(t) PROVE Verdict(t, sticks)
      BY <2>2 DEF RecalcAccepts, Verdict, Cleared, Good
    <2>3. ASSUME RecalcBypassMissed(t, sticks) PROVE Verdict(t, sticks)
      BY <2>3 DEF RecalcBypassMissed, Verdict, WhitelistMissed
    <2>4. ASSUME RecalcMissed(t, sticks) PROVE Verdict(t, sticks)
      BY <2>4 DEF RecalcMissed, Spared, Threshold, Thresholds, Verdict, IntervalMissed
    <2>5. ASSUME RecalcHolds(t) PROVE Verdict(t, sticks)
      BY <2>5 DEF RecalcHolds, Verdict, Held
    <2>6. Verdict(t, sticks)
      BY <1>2, <2>2, <2>3, <2>4, <2>5 DEF Recalc
    <2> QED BY <2>1, <2>6
  <1>3. CASE CollectorFirstCheck(t, sticks) \/ ScheduledFirstCheck(t, sticks)
    <2>1. /\ t \in known /\ UNCHANGED <<known, world, offline, born, moved>> /\ History
          /\ UNCHANGED device /\ comp[t] = "unknown"
      BY <1>3 DEF CollectorFirstCheck, ScheduledFirstCheck
    <2>2. \E u, match : FirstVerdict(t, u, match, sticks)
      BY <1>3 DEF CollectorFirstCheck, ScheduledFirstCheck
    <2>3. Verdict(t, sticks)
      BY <2>1, <2>2, FirstVerdictIs
    <2> QED BY <2>1, <2>3
  <1> QED BY <1>1, <1>2, <1>3

-----------------------------------------------------------------------------
(* Type correctness.                                                       *)

LEMMA WindowsAre ==
    /\ MinInterval \in Nat \ {0} /\ NewGrace \in Nat \ {0} /\ GoodGrace \in Nat \ {0}
    /\ IpGrace \in Nat \ {0} /\ BirthWindow \in Nat /\ MaxSpan \in Nat
PROOF
  <1>1. /\ MinInterval \in Nat \ {0} /\ NewGrace \in Nat \ {0} /\ GoodGrace \in Nat \ {0}
        /\ IpGrace \in Nat \ {0}
    BY ConfigAssumption DEF Windows
  <1>2. PICK b \in Nat : b = MaxOf(Thresholds) - 1
    BY GreatestThreshold
  <1>3. b * MinInterval \in Nat
    BY <1>1
  <1> QED BY <1>1, <1>2, <1>3 DEF BirthWindow, MaxSpan

LEMMA NumbersOfTypes == ASSUME TypeOK PROVE CountsAreNumbers
PROOF
  <1>1. miss \in [Terminal -> Nat] /\ born \in [Terminal -> Nat]
    BY GreatestThreshold, WindowsAre DEF TypeOK
  <1> QED BY <1>1 DEF TypeOK, CountsAreNumbers

LEMMA HistoryIs ==
    ASSUME since \in [Mac -> 0..MaxSpan], History
    PROVE  /\ since' \in [Mac -> 0..MaxSpan]
           /\ \A m \in Mac : since'[m] = IF Total(m)' = 0 THEN 0 ELSE since[m]
PROOF
  <1>1. since' = [m \in Mac |-> IF Total(m)' = 0 THEN 0 ELSE since[m]]
    BY DEF History
  <1>2. 0 \in 0..MaxSpan
    BY WindowsAre
  <1> QED BY <1>1, <1>2

LEMMA VerdictKeepsTypes ==
    ASSUME TypeOK, NEW t \in Terminal, NEW sticks \in BOOLEAN, Verdict(t, sticks)
    PROVE  /\ comp' \in [Terminal -> Status] /\ good' \in [Terminal -> 0..GoodGrace]
           /\ checked' \in [Terminal -> 0..MinInterval]
PROOF
  <1>1. 0 \in 0..GoodGrace /\ 0 \in 0..MinInterval
    BY WindowsAre
  <1>2. ASSUME NEW v \in Status, NEW s \in BOOLEAN, Apply(t, v, s)
        PROVE  comp' \in [Terminal -> Status] /\ good' \in [Terminal -> 0..GoodGrace]
    BY <1>1, <1>2 DEF Apply, TypeOK
  <1>3. ASSUME NEW n, CountMiss(t, n, sticks)
        PROVE  comp' \in [Terminal -> Status] /\ good' \in [Terminal -> 0..GoodGrace]
    <2>1. "non_compliant" \in Status
      BY DEF Status
    <2> QED BY <1>2, <1>3, <2>1 DEF CountMiss, TypeOK
  <1>4. CASE Cleared(t)
    <2>1. \E v \in Status : Apply(t, v, TRUE)
      BY <1>4 DEF Cleared, Accept, Status
    <2> QED BY <1>2, <1>4, <2>1 DEF Cleared, TypeOK
  <1>5. CASE WhitelistMissed(t, sticks)
    BY <1>3, <1>5 DEF WhitelistMissed, TypeOK
  <1>6. CASE IntervalMissed(t, sticks)
    BY <1>1, <1>3, <1>6 DEF IntervalMissed, TypeOK
  <1>7. CASE Held(t)
    BY <1>7 DEF Held, TypeOK
  <1> QED BY <1>4, <1>5, <1>6, <1>7 DEF Verdict

\* Every step keeps the types, given that of the counts.
LEMMA StepKeepsTypes ==
    ASSUME TypeOK, [Next]_vars, miss' \in [Terminal -> 0..(MaxOf(Thresholds) - 1)]
    PROVE  TypeOK'
PROOF
  <1>1. ASSUME NEW t \in Terminal, Checks(t) PROVE TypeOK'
    <2>1. checked[t] \in Nat
      BY WindowsAre DEF TypeOK
    <2>2. PICK sticks \in BOOLEAN : Verdict(t, sticks)
      BY <1>1, <2>1, CheckIs
    <2>3. /\ UNCHANGED <<known, world, offline, born, moved>> /\ History
          /\ device' \subseteq Terminal
      BY <1>1, <2>1, CheckIs DEF TypeOK
    <2>4. since' \in [Mac -> 0..MaxSpan]
      BY <2>3, HistoryIs DEF TypeOK
    <2> QED BY <2>2, <2>3, <2>4, VerdictKeepsTypes DEF TypeOK, world
  <1>2. ASSUME NEW t \in Terminal, Writers(t) PROVE TypeOK'
    <2>1. History /\ UNCHANGED <<known, scope, ev, data, mapped, registry, checked, good,
                                 device, born, moved>>
      BY <1>2 DEF Writers, AutoUnblock, Forget, Converge, Rewrite, AddMacEntry, DeleteMacEntry, world
    <2>2. since' \in [Mac -> 0..MaxSpan]
      BY <2>1, HistoryIs DEF TypeOK
    <2>3. wl' \subseteq Terminal /\ offline' \subseteq known
      BY <1>2 DEF Writers, AutoUnblock, Forget, Converge, Rewrite, AddMacEntry, DeleteMacEntry,
         world, TypeOK
    <2>4. comp' \in [Terminal -> Status]
      <3>1. CASE AddMacEntry(t.mac) \/ DeleteMacEntry(t)
        BY <3>1 DEF AddMacEntry, DeleteMacEntry, TypeOK, Status, Good
      <3>2. CASE AutoUnblock(t) \/ Forget(t) \/ Converge(t)
        BY <3>2 DEF AutoUnblock, Forget, Converge, Rewrite, TypeOK, Status, Good
      <3> QED BY <1>2, <3>1, <3>2 DEF Writers
    <2> QED BY <2>1, <2>2, <2>3, <2>4 DEF TypeOK
  <1>3. ASSUME NEW t \in Terminal, World(t) PROVE TypeOK'
    <2>1. CASE Discover(t)
      <3>1. 0 \in 0..BirthWindow
        BY WindowsAre
      <3> QED BY <2>1, <3>1 DEF Discover, Restamp, TypeOK, world
    <2>2. CASE SeenAgain(t)
      <3>1. since' \in [Mac -> 0..MaxSpan]
        BY <2>2, HistoryIs DEF SeenAgain, TypeOK
      <3> QED BY <2>2, <3>1 DEF SeenAgain, Restamp, TypeOK, world
    <2>3. CASE GoOffline(t) \/ ChangeEvidence(t) \/ ChangeDevice(t) \/ ChangeRange(t)
      BY <2>3 DEF GoOffline, ChangeEvidence, ChangeDevice, ChangeRange, TypeOK, world, row
    <2> QED BY <1>3, <2>1, <2>2, <2>3 DEF World
  <1>4. CASE Tick
    <2>1. \A cap \in Nat : \A n \in 0..cap : Capped(n, cap) \in 0..cap
      BY DEF Capped
    <2>2. checked' \in [Terminal -> 0..MinInterval]
      BY <1>4, <2>1, WindowsAre DEF Tick, TypeOK
    <2>3. good' \in [Terminal -> 0..GoodGrace]
      BY <1>4, <2>1, WindowsAre DEF Tick, TypeOK
    <2>4. born' \in [Terminal -> 0..BirthWindow]
      BY <1>4, <2>1, WindowsAre DEF Tick, TypeOK
    <2>5. since' \in [Mac -> 0..MaxSpan]
      BY <1>4, <2>1, WindowsAre DEF Tick, TypeOK
    <2> QED BY <1>4, <2>2, <2>3, <2>4, <2>5 DEF Tick, TypeOK, world
  <1>5. CASE ChangeCache \/ ChangeRegistry \/ UNCHANGED vars
    BY <1>5 DEF ChangeCache, ChangeRegistry, vars, TypeOK, world, row
  <1> QED BY <1>1, <1>2, <1>3, <1>4, <1>5 DEF Next

LEMMA InitTypes == Init => TypeOK /\ CountsOK
PROOF
  <1> SUFFICES ASSUME Init PROVE TypeOK /\ CountsOK
    OBVIOUS
  <1>1. PICK b \in Nat : b = MaxOf(Thresholds) - 1 /\ b < MaxOf(Thresholds)
    BY GreatestThreshold
  <1>2. /\ miss = [t \in Terminal |-> 0] /\ comp = [t \in Terminal |-> "unknown"]
        /\ checked = [t \in Terminal |-> MinInterval] /\ good = [t \in Terminal |-> GoodGrace]
        /\ born = [t \in Terminal |-> BirthWindow] /\ since = [m \in Mac |-> 0]
    BY DEF Init
  <1>3. miss \in [Terminal -> 0..(MaxOf(Thresholds) - 1)] /\ miss \in [Terminal -> Nat]
    BY <1>1, <1>2
  <1>4. \A m \in Mac : TotalOf(m, miss) = 0
    BY <1>2, <1>3, TotalOfNone
  <1>5. CountsOK
    BY <1>2, <1>3, <1>4, GreatestThreshold
       DEF CountsOK, MissesLeadToAVerdict, UnknownMissNothing, Total
  <1>6. /\ comp \in [Terminal -> Status] /\ checked \in [Terminal -> 0..MinInterval]
        /\ good \in [Terminal -> 0..GoodGrace] /\ born \in [Terminal -> 0..BirthWindow]
        /\ since \in [Mac -> 0..MaxSpan]
    BY <1>2, WindowsAre DEF Status
  <1>7. /\ mapped \subseteq Terminal /\ known = {} /\ device = {} /\ offline = {} /\ moved = {}
        /\ registry = TRUE /\ data \in {"ready", "none"} /\ wl \subseteq Terminal
        /\ scope \in [Terminal -> Scopes] /\ ev \in [Terminal -> Evidence]
    BY DEF Init
  <1> QED BY <1>3, <1>5, <1>6, <1>7 DEF TypeOK

\* The counts stay below their thresholds.
LEMMA StepKeepsCounts ==
    ASSUME TypeOK, CountsOK, [Next]_vars PROVE CountsOK'
PROOF
  <1>0. CountsAreNumbers
    BY NumbersOfTypes
  <1>1. ASSUME NEW t \in Terminal, Checks(t) PROVE CountsOK'
    <2>1. checked[t] \in Nat
      BY WindowsAre DEF TypeOK
    <2>2. PICK sticks \in BOOLEAN : Verdict(t, sticks)
      BY <1>1, <2>1, CheckIs
    <2>3. t \in known /\ known' = known
      BY <1>1, <2>1, CheckIs
    <2>4. CASE Cleared(t)
      BY <1>0, <2>3, <2>4, AcceptWrites, CountsFall DEF Cleared
    <2>5. CASE WhitelistMissed(t, sticks)
      BY <2>3, <2>5, CountMissBounded DEF WhitelistMissed, Thresholds
    <2>6. CASE IntervalMissed(t, sticks)
      BY <2>3, <2>6, CountMissBounded DEF IntervalMissed
    <2>7. CASE Held(t)
      <3>1. miss' = miss
        BY <2>7 DEF Held
      <3>2. \A u \in Terminal : miss'[u] <= miss[u]
        BY <1>0, <3>1 DEF CountsAreNumbers
      <3> QED BY <1>0, <2>3, <3>1, <3>2, CountsFall DEF CountsAreNumbers
    <2> QED BY <2>2, <2>4, <2>5, <2>6, <2>7 DEF Verdict
  <1>2. ASSUME NEW t \in Terminal, Writers(t) PROVE CountsOK'
    <2>1. CountsAreNumbers' /\ \A u \in Terminal : miss'[u] <= miss[u]
      BY <1>0, <1>2, ConvergeLowers, SettlingIsHarmless DEF Writers, Settles, Harmless
    <2>2. known' = known
      BY <1>2 DEF Writers, AutoUnblock, Forget, Converge, Rewrite, AddMacEntry, DeleteMacEntry
    <2> QED BY <2>1, <2>2, CountsFall DEF CountsAreNumbers
  <1>3. CASE \/ Tick \/ ChangeCache \/ ChangeRegistry
             \/ \E t \in Terminal : World(t)
             \/ UNCHANGED vars
    <2>1. CountsAreNumbers' /\ \A u \in Terminal : miss'[u] <= miss[u]
      BY <1>0, <1>3, WorldIsHarmless DEF Harmless
    <2>2. known \subseteq known'
      BY <1>3 DEF Tick, ChangeCache, ChangeRegistry, World, Discover, GoOffline, SeenAgain,
         ChangeEvidence, ChangeDevice, ChangeRange, vars
    <2> QED BY <2>1, <2>2, CountsFall DEF CountsAreNumbers
  <1> QED BY <1>1, <1>2, <1>3 DEF Next

-----------------------------------------------------------------------------
(* The misses of a lone terminal are an interval apart.                    *)

\* The first miss opens an interval and each later one was counted when the
\* interval of the one before was over.
SpacedOf(t) ==
    (t \in known /\ Siblings(t) = {t} /\ comp[t] # "bypass" /\ miss[t] > 0)
    => (miss[t] - 1) * MinInterval + checked[t] <= since[t.mac]
MissesAreSpaced == \A t \in Terminal : SpacedOf(t)

\* A step that touches neither the clock nor the counts of a terminal, or
\* resets them.
LEMMA SpacedStays ==
    ASSUME TypeOK, miss' \in [Terminal -> 0..(MaxOf(Thresholds) - 1)], NEW t \in Terminal,
           SpacedOf(t), History, known \subseteq known', checked'[t] = checked[t],
           t \in known' /\ t \notin known => miss[t] = 0,
           miss'[t] = 0 \/ (miss'[t] = miss[t] /\ (comp'[t] # "bypass" => comp[t] # "bypass"))
    PROVE  SpacedOf(t)'
PROOF
  <1> SUFFICES ASSUME t \in known', Siblings(t)' = {t}, comp'[t] # "bypass", miss'[t] > 0
               PROVE  (miss'[t] - 1) * MinInterval + checked'[t] <= since'[t.mac]
    BY DEF SpacedOf
  <1>1. miss'[t] = miss[t] /\ comp[t] # "bypass" /\ miss[t] > 0
    BY GreatestThreshold
  <1>2. t \in known
    BY <1>1
  <1>3. Siblings(t) = {t}
    BY <1>2 DEF Siblings
  <1>4. Total(t.mac)' # 0
    <2>1. PICK b \in Nat : b = MaxOf(Thresholds) - 1
      BY GreatestThreshold
    <2>2. miss'[t] <= TotalOf(t.mac, miss') /\ TotalOf(t.mac, miss') \in Nat
      BY <2>1, TotalCoversEach, TotalIsNumber
    <2>3. miss'[t] \in Nat
      BY <2>1
    <2> QED BY <2>2, <2>3 DEF Total
  <1>5. since'[t.mac] = since[t.mac]
    BY <1>4, HistoryIs, TerminalAssumption DEF TypeOK
  <1> QED BY <1>1, <1>2, <1>3, <1>5 DEF SpacedOf

\* What a lone terminal has missed is the sum of its MAC.
LEMMA LoneTotal ==
    ASSUME CountsOK, NEW t \in Terminal, t \in known, Siblings(t) = {t}
    PROVE  /\ Total(t.mac) = miss[t]
           /\ TotalOf(t.mac, [miss EXCEPT ![t] = @ + 1]) = miss[t] + 1
PROOF
  <1>1. PICK b \in Nat : b = MaxOf(Thresholds) - 1
    BY GreatestThreshold
  <1>2. PICK counted : counted = [miss EXCEPT ![t] = @ + 1]
    OBVIOUS
  <1>3. /\ miss \in [Terminal -> 0..b] /\ counted \in [Terminal -> 0..(b + 1)]
        /\ counted[t] = miss[t] + 1
    BY <1>1, <1>2 DEF CountsOK
  <1>4. ASSUME NEW u \in Terminal, u # t, u.mac = t.mac PROVE miss[u] = 0 /\ counted[u] = 0
    <2>1. u \notin known
      BY <1>4 DEF Siblings
    <2> QED BY <1>2, <1>3, <1>4, <2>1 DEF CountsOK, UnknownMissNothing
  <1>5. b + 1 \in Nat
    BY <1>1
  <1> QED BY <1>2, <1>3, <1>4, <1>5, TotalOfOne DEF Total

\* An interval that is over makes room for one more.
LEMMA IntervalOver ==
    ASSUME TypeOK, NEW t \in Terminal, SpacedOf(t), t \in known, Siblings(t) = {t},
           comp[t] # "bypass", ~ (checked[t] < MinInterval)
    PROVE  miss[t] \in Nat /\ since[t.mac] \in Nat /\ miss[t] * MinInterval <= since[t.mac]
PROOF
  <1>1. PICK n, s, i, c : /\ n \in Nat /\ s \in Nat /\ i \in Nat /\ c \in Nat
                          /\ n = miss[t] /\ s = since[t.mac] /\ i = MinInterval /\ c = checked[t]
    BY GreatestThreshold, WindowsAre, TerminalAssumption DEF TypeOK
  <1>2. c = i
    BY <1>1 DEF TypeOK
  <1>3. CASE n = 0
    BY <1>1, <1>3
  <1>4. CASE n > 0
    <2>1. (n - 1) * i + c <= s
      BY <1>1, <1>4 DEF SpacedOf
    <2>2. (n - 1) * i + i = n * i
      BY <1>1
    <2> QED BY <1>1, <1>2, <2>1, <2>2
  <1> QED BY <1>1, <1>3, <1>4

\* The write of a miss to a terminal: one more, or none left.
LEMMA CountMissOne ==
    ASSUME CountsAreNumbers, NEW t \in known, NEW n, NEW sticks \in BOOLEAN, CountMiss(t, n, sticks)
    PROVE  /\ miss'[t] = 0 \/ (miss'[t] = miss[t] + 1 /\ comp' = comp)
           /\ \A u \in Terminal : u # t => miss'[u] = 0 \/ (miss'[u] = miss[u] /\ comp'[u] = comp[u])
PROOF
  <1>1. t \in Terminal /\ t \in Siblings(t)
    BY DEF CountsAreNumbers, Siblings
  <1>2. CASE TotalOf(t.mac, [miss EXCEPT ![t] = @ + 1]) >= n
    BY <1>1, <1>2 DEF CountMiss, CountsAreNumbers, Apply
  <1>3. CASE ~ (TotalOf(t.mac, [miss EXCEPT ![t] = @ + 1]) >= n)
    BY <1>1, <1>3 DEF CountMiss, CountsAreNumbers
  <1> QED BY <1>2, <1>3

LEMMA CheckKeepsSpacing ==
    ASSUME TypeOK, CountsOK, CountsOK', NEW t \in Terminal, NEW u \in Terminal, SpacedOf(u), Checks(t)
    PROVE  SpacedOf(u)'
PROOF
  <1>0. CountsAreNumbers /\ checked[t] \in Nat
    BY NumbersOfTypes, WindowsAre DEF TypeOK
  <1>1. PICK sticks \in BOOLEAN : Verdict(t, sticks)
    BY <1>0, CheckIs
  <1>2. t \in known /\ known' = known /\ History
    BY <1>0, CheckIs
  <1>3. miss' \in [Terminal -> 0..(MaxOf(Thresholds) - 1)]
    BY DEF CountsOK
  <1>4. ASSUME checked'[u] = checked[u],
               miss'[u] = 0 \/ (miss'[u] = miss[u] /\ (comp'[u] # "bypass" => comp[u] # "bypass"))
        PROVE  SpacedOf(u)'
    BY <1>2, <1>3, <1>4, SpacedStays
  <1>5. CASE Cleared(t)
    BY <1>4, <1>5 DEF Cleared, Accept, Apply, TypeOK
  <1>6. CASE WhitelistMissed(t, sticks)
    <2>1. checked' = checked /\ comp[t] = "bypass"
      BY <1>6 DEF WhitelistMissed
    <2>2. /\ miss'[t] = 0 \/ (miss'[t] = miss[t] + 1 /\ comp' = comp)
          /\ u # t => miss'[u] = 0 \/ (miss'[u] = miss[u] /\ comp'[u] = comp[u])
      BY <1>0, <1>2, <1>6, CountMissOne DEF WhitelistMissed
    <2>3. CASE u = t /\ comp'[t] = "bypass"
      BY <2>3 DEF SpacedOf
    <2> QED BY <1>4, <2>1, <2>2, <2>3
  <1>7. CASE IntervalMissed(t, sticks)
    <2>1. checked' = [checked EXCEPT ![t] = 0] /\ comp[t] # "bypass" /\ ~ (checked[t] < MinInterval)
      BY <1>7 DEF IntervalMissed
    <2>2. /\ miss'[t] = 0 \/ (miss'[t] = miss[t] + 1 /\ comp' = comp)
          /\ u # t => miss'[u] = 0 \/ (miss'[u] = miss[u] /\ comp'[u] = comp[u])
      BY <1>0, <1>2, <1>7, CountMissOne DEF IntervalMissed
    <2>3. CASE u # t
      BY <1>4, <2>1, <2>2, <2>3 DEF TypeOK
    <2>4. CASE u = t /\ miss'[t] = 0
      BY <2>4 DEF SpacedOf
    <2>5. CASE u = t /\ miss'[t] = miss[t] + 1
      <3> SUFFICES ASSUME Siblings(t)' = {t}
                   PROVE  (miss'[t] - 1) * MinInterval + checked'[t] <= since'[t.mac]
        BY <2>5 DEF SpacedOf
      <3>1. Siblings(t) = {t}
        BY <1>2 DEF Siblings
      <3>2. miss[t] \in Nat /\ since[t.mac] \in Nat /\ miss[t] * MinInterval <= since[t.mac]
        BY <1>2, <2>1, <2>5, <3>1, IntervalOver
      <3>3. Total(t.mac)' # 0
        <4>1. PICK b \in Nat : b = MaxOf(Thresholds) - 1
          BY GreatestThreshold
        <4>2. miss'[t] <= TotalOf(t.mac, miss') /\ TotalOf(t.mac, miss') \in Nat
          BY <1>3, <4>1, TotalCoversEach, TotalIsNumber
        <4> QED BY <2>5, <3>2, <4>2 DEF Total
      <3>4. since'[t.mac] = since[t.mac]
        BY <1>2, <3>3, HistoryIs, TerminalAssumption DEF TypeOK
      <3>5. checked'[t] = 0 /\ miss'[t] - 1 = miss[t]
        BY <2>1, <2>5, <3>2 DEF TypeOK
      <3>6. miss[t] * MinInterval \in Nat
        BY <3>2, WindowsAre
      <3> QED BY <3>2, <3>4, <3>5, <3>6
    <2> QED BY <2>2, <2>3, <2>4, <2>5
  <1>8. CASE Held(t)
    BY <1>4, <1>8 DEF Held
  <1> QED BY <1>1, <1>5, <1>6, <1>7, <1>8 DEF Verdict

LEMMA TickKeepsSpacing ==
    ASSUME TypeOK, CountsOK, NEW t \in Terminal, SpacedOf(t), Tick
    PROVE  SpacedOf(t)'
PROOF
  <1>1. /\ UNCHANGED <<known, comp, miss>>
        /\ checked'[t] = Capped(checked[t], MinInterval)
        /\ since'[t.mac] = IF Total(t.mac) = 0 THEN 0 ELSE Capped(since[t.mac], MaxSpan)
    BY TerminalAssumption DEF Tick
  <1> SUFFICES ASSUME t \in known, Siblings(t) = {t}, comp[t] # "bypass", miss[t] > 0
               PROVE  (miss[t] - 1) * MinInterval + checked'[t] <= since'[t.mac]
    BY <1>1 DEF SpacedOf, Siblings
  <1>2. PICK k, s, i, c, g :
            /\ k \in Nat /\ s \in Nat /\ i \in Nat /\ c \in Nat /\ g \in Nat
            /\ k = miss[t] - 1 /\ s = since[t.mac] /\ i = MinInterval /\ c = checked[t]
            /\ g = MaxOf(Thresholds) - 1 /\ k + 1 <= g /\ c <= i /\ s <= MaxSpan
    BY GreatestThreshold, WindowsAre, TerminalAssumption DEF TypeOK
  <1>3. k * i + c <= s /\ k * i \in Nat
    BY <1>2 DEF SpacedOf
  <1>4. Total(t.mac) # 0
    <2>1. Total(t.mac) = miss[t]
      BY LoneTotal
    <2> QED BY <2>1
  <1>5. MaxSpan = g * i /\ g * i \in Nat
    BY <1>2 DEF MaxSpan
  <1>6. k * i + i <= g * i
    <2>1. (k + 1) * i <= g * i
      BY <1>2
    <2>2. (k + 1) * i = k * i + i
      BY <1>2
    <2> QED BY <2>1, <2>2
  <1>7. PICK p, q \in Nat : p = k * i /\ q = g * i
    BY <1>3, <1>5
  <1>8. checked'[t] = Capped(c, i) /\ since'[t.mac] = Capped(s, q)
    BY <1>1, <1>2, <1>4, <1>5, <1>7
  <1>9. p + Capped(c, i) <= Capped(s, q)
    BY <1>2, <1>3, <1>5, <1>6, <1>7 DEF Capped
  <1> QED BY <1>2, <1>7, <1>8, <1>9

LEMMA StepKeepsSpacing ==
    ASSUME TypeOK, CountsOK, CountsOK', MissesAreSpaced, [Next]_vars
    PROVE  MissesAreSpaced'
PROOF
  <1>1. ASSUME NEW u \in Terminal PROVE SpacedOf(u)'
    <2>0. SpacedOf(u)
      BY DEF MissesAreSpaced
    <2>1. miss' \in [Terminal -> 0..(MaxOf(Thresholds) - 1)]
      BY DEF CountsOK
    <2>2. ASSUME NEW t \in Terminal, Checks(t) PROVE SpacedOf(u)'
      BY <2>0, <2>2, CheckKeepsSpacing
    <2>3. ASSUME NEW t \in Terminal, Writers(t) PROVE SpacedOf(u)'
      <3>1. History /\ UNCHANGED <<known, checked>>
        BY <2>3 DEF Writers, AutoUnblock, Forget, Converge, Rewrite, AddMacEntry, DeleteMacEntry
      <3>2. miss'[u] = 0 \/ (miss'[u] = miss[u] /\ comp'[u] = comp[u])
        BY <2>3 DEF Writers, AutoUnblock, Forget, Converge, Rewrite, AddMacEntry, DeleteMacEntry,
           TypeOK
      <3> QED BY <2>0, <2>1, <3>1, <3>2, SpacedStays
    <2>4. ASSUME NEW t \in Terminal, World(t) PROVE SpacedOf(u)'
      <3>1. CASE SeenAgain(t)
        <4>1. History /\ UNCHANGED <<known, checked, comp>> /\ (miss'[u] = 0 \/ miss'[u] = miss[u])
          BY <3>1 DEF SeenAgain
        <4> QED BY <2>0, <2>1, <4>1, SpacedStays
      <3>2. CASE World(t) /\ ~ SeenAgain(t)
        <4>1. UNCHANGED <<checked, comp, miss, since>> /\ known \subseteq known'
          BY <3>2 DEF World, Discover, GoOffline, ChangeEvidence, ChangeDevice, ChangeRange, row
        <4>2. u \notin known => miss[u] = 0
          BY DEF CountsOK, UnknownMissNothing
        <4>3. u \in known /\ Siblings(u)' = {u} => Siblings(u) = {u}
          BY <4>1 DEF Siblings
        <4> QED BY <2>0, <4>1, <4>2, <4>3 DEF SpacedOf
      <3> QED BY <2>4, <3>1, <3>2
    <2>5. CASE Tick
      BY <2>0, <2>5, TickKeepsSpacing
    <2>6. CASE ChangeCache \/ ChangeRegistry \/ UNCHANGED vars
      BY <2>0, <2>6 DEF ChangeCache, ChangeRegistry, vars, row, SpacedOf, Siblings
    <2> QED BY <2>2, <2>3, <2>4, <2>5, <2>6 DEF Next
  <1> QED BY <1>1 DEF MissesAreSpaced

-----------------------------------------------------------------------------
(* The inductive invariant of the counts, and the theorems.                *)

IInv == TypeOK /\ CountsOK /\ MissesAreSpaced

LEMMA InitIInv == Init => IInv
PROOF
  <1> SUFFICES ASSUME Init PROVE IInv
    OBVIOUS
  <1>1. TypeOK /\ CountsOK
    BY InitTypes
  <1>2. MissesAreSpaced
    BY DEF Init, MissesAreSpaced, SpacedOf
  <1> QED BY <1>1, <1>2 DEF IInv

LEMMA NextIInv == IInv /\ [Next]_vars => IInv'
PROOF
  <1> SUFFICES ASSUME IInv, [Next]_vars PROVE IInv'
    OBVIOUS
  <1>1. CountsOK'
    BY StepKeepsCounts DEF IInv
  <1>2. TypeOK'
    BY <1>1, StepKeepsTypes DEF IInv, CountsOK
  <1>3. MissesAreSpaced'
    BY <1>1, StepKeepsSpacing DEF IInv
  <1> QED BY <1>1, <1>2, <1>3 DEF IInv

LEMMA Invariance == Spec => []IInv
PROOF BY InitIInv, NextIInv, PTL DEF Spec

\* A downgrade takes as many misses as its threshold says, which for a lone
\* terminal are an interval apart.
LEMMA CondemnedIsSpaced ==
    ASSUME IInv, [Next]_vars, NEW t \in Terminal, Condemns(t), comp[t] # "bypass", Siblings(t) = {t}
    PROVE  since[t.mac] >= (LeastThreshold(t) - 1) * MinInterval
PROOF
  <1>0. CountsAreNumbers /\ \A u \in Terminal : checked[u] \in Nat
    BY NumbersOfTypes, WindowsAre DEF IInv, TypeOK
  <1>1. comp'[t] = "non_compliant" /\ comp[t] # "non_compliant" /\ ~ Converge(t)
    BY DEF Condemns
  <1>2. ~ Harmless
    BY <1>1 DEF Harmless
  <1>3. PICK u \in Terminal : Checks(u)
    <2>1. ASSUME NEW u \in Terminal, Writers(u) PROVE FALSE
      <3>1. CASE Converge(u)
        <4>1. ~ Condemns(t)
          BY <1>0, <3>1, ConvergeLowers
        <4> QED BY <4>1
      <3>2. CASE Settles(u)
        BY <1>0, <1>2, <3>2, SettlingIsHarmless
      <3> QED BY <2>1, <3>1, <3>2 DEF Writers, Settles
    <2> QED BY <1>0, <1>2, <2>1, WorldIsHarmless DEF Next
  <1>4. PICK sticks \in BOOLEAN : Verdict(u, sticks)
    BY <1>0, <1>3, CheckIs
  <1>5. u \in known
    BY <1>0, <1>3, CheckIs
  <1>6. CASE Cleared(u)
    BY <1>0, <1>1, <1>6, AcceptWrites DEF Cleared
  <1>7. CASE Held(u)
    BY <1>1, <1>7 DEF Held
  <1>8. CASE WhitelistMissed(u, sticks)
    <2>1. u # t
      BY <1>8 DEF WhitelistMissed
    <2> QED BY <1>0, <1>1, <1>8, <2>1, CountMissWrites DEF WhitelistMissed
  <1>9. CASE IntervalMissed(u, sticks)
    <2>1. PICK n \in Thresholds :
            /\ n = Absence \/ n = IF comp[u] = "compliant" THEN CompliantDowngrade ELSE Confirm
            /\ CountMiss(u, n, sticks)
      BY <1>9 DEF IntervalMissed
    <2>2. u = t
      BY <1>0, <1>1, <2>1, CountMissWrites
    <2>3. LeastThreshold(t) \in Nat \ {0} /\ LeastThreshold(t) <= n /\ n \in Nat
      <3>1. \A a, b \in Nat \ {0} : Min({a, b}) \in {a, b} /\ Min({a, b}) <= a /\ Min({a, b}) <= b
        <4> SUFFICES ASSUME NEW a \in Nat \ {0}, NEW b \in Nat \ {0}
                     PROVE  Min({a, b}) \in {a, b} /\ Min({a, b}) <= a /\ Min({a, b}) <= b
          OBVIOUS
        <4>1. \E x \in {a, b} : \A y \in {a, b} : x <= y
          OBVIOUS
        <4> QED BY <4>1 DEF Min
      <3>2. /\ Absence \in Nat \ {0} /\ CompliantDowngrade \in Nat \ {0} /\ Confirm \in Nat \ {0}
        BY ConfigAssumption DEF Thresholds
      <3> QED BY <2>1, <2>2, <3>1, <3>2 DEF LeastThreshold
    <2>4. TotalOf(t.mac, [miss EXCEPT ![t] = @ + 1]) >= n
      BY <1>1, <2>1, <2>2 DEF CountMiss
    <2>5. miss[t] + 1 >= n
      BY <1>5, <2>2, <2>4, LoneTotal DEF IInv
    <2>6. miss[t] \in Nat /\ since[t.mac] \in Nat /\ miss[t] * MinInterval <= since[t.mac]
      BY <1>5, <1>9, <2>2, IntervalOver DEF IInv, MissesAreSpaced, IntervalMissed
    <2>7. PICK k, j, i \in Nat : k = miss[t] /\ j = LeastThreshold(t) - 1 /\ i = MinInterval
      BY <2>3, <2>6, WindowsAre
    <2>8. j <= k
      BY <2>3, <2>5, <2>7
    <2>9. j * i <= k * i /\ j * i \in Nat /\ k * i \in Nat
      BY <2>8
    <2> QED BY <2>6, <2>7, <2>9
  <1> QED BY <1>4, <1>6, <1>7, <1>8, <1>9 DEF Verdict

\* Every variable keeps its type: counts stay below the greatest threshold and
\* ages within their windows, on every path that writes them.
THEOREM TypeCorrect == Spec => []TypeOK
PROOF
  <1>1. IInv => TypeOK
    BY DEF IInv
  <1> QED BY <1>1, Invariance, PTL

\* _mac_non_compliant_total never reaches the greatest threshold and stays: the
\* miss that would bring it there leads to a verdict, which resets the counts of
\* the MAC, for any number of records and any mixture of paths.
THEOREM VerdictsComeInTime == Spec => []MissesLeadToAVerdict
PROOF
  <1>1. IInv => MissesLeadToAVerdict
    BY DEF IInv, CountsOK
  <1> QED BY <1>1, Invariance, PTL

\* The guards on compliance_checked_at in the two checks space the misses of a
\* lone terminal: it is condemned no sooner than its threshold of intervals
\* after the first, however often the checks are triggered.
THEOREM LoneDowngradesTakeTime == Spec => LoneDowngradeIsSpaced
PROOF
  <1>1. IInv /\ [Next]_vars =>
          [\A t \in Terminal :
             Condemns(t) /\ comp[t] # "bypass" /\ Siblings(t) = {t}
             => since[t.mac] >= (LeastThreshold(t) - 1) * MinInterval]_vars
    BY CondemnedIsSpaced
  <1> QED BY <1>1, Invariance, PTL DEF Spec, LoneDowngradeIsSpaced

=============================================================================
