------------------------- MODULE EnforcementProofs -------------------------
(* What Enforcement guarantees for every set of terminals, IPs and firewalls. *)
EXTENDS Enforcement, TLAPS

(* Lemmas on the record of a terminal.                                       *)

\* Each field of a terminal, rewritten within its range, leaves a terminal.
LEMMA FieldUpdates ==
    ASSUME NEW r \in FieldsOfTerminal
    PROVE  /\ \A c \in {"unknown", "compliant", "bypass", "non_compliant"} :
                [r EXCEPT !.comp = c] \in FieldsOfTerminal
           /\ \A s \in {"blocked", "unblocked"} :
                [r EXCEPT !.status = s] \in FieldsOfTerminal
           /\ \A F \in SUBSET Firewall : [r EXCEPT !.fwTag = F] \in FieldsOfTerminal
           /\ \A b \in {"none", "no_firewall", "block_failed", "offline"} :
                [r EXCEPT !.bstate = b] \in FieldsOfTerminal
BY DEF FieldsOfTerminal

LEMMA ReleasedType ==
    ASSUME NEW r \in FieldsOfTerminal
    PROVE  Released(r) \in FieldsOfTerminal
BY DEF FieldsOfTerminal, Released

LEMMA VerdictType ==
    ASSUME NEW t
    PROVE  Verdict(t) \in {"compliant", "bypass", "non_compliant"}
BY DEF Verdict

LEMMA InitType == Init => TypeOK
BY DisturbanceAssumption DEF Init, TypeOK, NewTerminal, FieldsOfTerminal, Pairs

LEMMA ApplyType ==
    ASSUME TypeOK, NEW t \in Terminal, NEW d \in {"compliant", "bypass", "non_compliant"},
           Apply(t, d)
    PROVE  term' \in [Terminal -> FieldsOfTerminal]
<1>0. term[t] \in FieldsOfTerminal  BY DEF TypeOK
<1>1. CASE ApplyRelease(t, d)
  <2>1. PICK good \in BOOLEAN :
          term' = [term EXCEPT ![t] =
            [IF good THEN Released(term[t]) ELSE term[t] EXCEPT !.comp = d]]
    BY <1>1 DEF ApplyRelease
  <2> DEFINE r == IF good THEN Released(term[t]) ELSE term[t]
  <2>2. r \in FieldsOfTerminal  BY <1>0, ReleasedType
  <2>3. [r EXCEPT !.comp = d] \in FieldsOfTerminal  BY <2>2, FieldUpdates
  <2>. QED BY <2>1, <2>3 DEF TypeOK
<1>2. CASE ApplyClear(t, d)
  BY <1>0, <1>2 DEF TypeOK, ApplyClear, FieldsOfTerminal
<1>3. CASE ApplyNoFirewall(t)
  BY <1>0, <1>3 DEF TypeOK, ApplyNoFirewall, FieldsOfTerminal
<1>4. CASE ApplyAlreadyListed(t)
  BY <1>0, <1>4 DEF TypeOK, ApplyAlreadyListed, FieldsOfTerminal
<1>5. CASE ApplyBlock(t)
  <2>1. PICK done \in SUBSET Firewall : 
          \/ term' = [term EXCEPT ![t].bstate = "none",
                ![t].fwTag = IF term[t].status = "blocked" THEN @ ELSE {}]
          \/ term' = [term EXCEPT ![t] =
                [comp |-> "non_compliant", status |-> "blocked",
                 fwTag |-> Active(t) \cup done, bstate |-> "none"]]
    <3> DEFINE missing == bound \ Active(t)
               tagged == IF term[t].status = "blocked"
                         THEN missing \cap term[t].fwTag ELSE {}
    <3>1. tagged \cup (missing \cap up) \in SUBSET Firewall  BY DEF TypeOK
    <3>. QED BY <1>5, <3>1 DEF ApplyBlock
  <2>2. Active(t) \cup done \in SUBSET Firewall  BY DEF Active
  <2>. QED BY <1>0, <2>1, <2>2 DEF TypeOK, FieldsOfTerminal
<1>. QED BY <1>1, <1>2, <1>3, <1>4, <1>5 DEF Apply

(* Lemmas on what the handlers share.                                        *)

LEMMA BlockType == ASSUME TypeOK, NEW P, Block(P)
                   PROVE  entry' \in [Pairs -> {"none", "tam", "foreign"}]
BY DEF TypeOK, Block

LEMMA UnblockType == ASSUME TypeOK, NEW P, Unblock(P)
                     PROVE  entry' \in [Pairs -> {"none", "tam", "foreign"}]
BY DEF TypeOK, Unblock

LEMMA AttachType == ASSUME TypeOK, NEW t \in Terminal, NEW F, Attach(t, F)
                    PROVE  /\ row' \in [Pairs -> Mac \cup {NoMac, NoRow}]
                           /\ lapsed' \subseteq Pairs
<1>1. t.mac \in Mac  BY TerminalAssumption
<1>. QED BY <1>1 DEF TypeOK, Attach

LEMMA CloseRowsType == ASSUME TypeOK, NEW P, CloseRows(P)
                       PROVE  /\ row' \in [Pairs -> Mac \cup {NoMac, NoRow}]
                              /\ lapsed' \subseteq Pairs
BY DEF TypeOK, CloseRows

\* The cooldown counter saturates at 2.
LEMMA BumpType == ASSUME NEW n \in 0..2, NEW S PROVE Bump(n, S) \in 0..2
BY DEF Bump

LEMMA CooldownType == ASSUME TypeOK, NEW P, CooldownAfter(P)
                      PROVE  cool' \in [Mac -> 0..2]
<1>1. \A m \in Mac : Bump(cool[m], {p \in P : row[p] = m}) \in 0..2
  BY BumpType DEF TypeOK
<1>. QED BY <1>1 DEF CooldownAfter

\* The ledger only names pairs the handler touched or had named before.
LEMMA ExplainType == ASSUME TypeOK, NEW P \in SUBSET Pairs, Explain(P)
                     PROVE  drift' \subseteq Pairs
BY DEF TypeOK, Explain

\* The terminals table when a binding to f is deleted.
Unbound(f, reset, untag) == [t \in Terminal |->
    IF t \in reset
    THEN [term[t] EXCEPT !.status = "unblocked", !.fwTag = {}, !.comp = "unknown"]
    ELSE IF t \in untag THEN [term[t] EXCEPT !.fwTag = @ \ {f}] ELSE term[t]]

LEMMA UnbindTerm ==
    ASSUME NEW f, Unbind(f)
    PROVE  \E reset, untag : term' = Unbound(f, reset, untag)
<1>1. PICK past, other \in SUBSET known :
        LET hit == past \cup {t \in known : f \in Active(t) \cup Ended(t.mac, t.ip)}
            kept == other \cup {t \in known :
                        (Active(t) \cup Ended(t.mac, t.ip)) \ {f} # {}}
        IN term' = Unbound(f, hit \ kept, hit)
  BY DEF Unbind, Unbound
<1>. QED BY <1>1

(* Type correctness, one step per action.                                    *)

LEMMA TaskType ==
    ASSUME TypeOK, Task
    PROVE  TypeOK'
<1>1. ASSUME NEW t \in Terminal, NEW d \in {"compliant", "bypass", "non_compliant"},
             Apply(t, d), UNCHANGED <<known, facts>>
      PROVE  TypeOK'
  <2>0. term' \in [Terminal -> FieldsOfTerminal]  BY <1>1, ApplyType
  <2>1. /\ row' \in [Pairs -> Mac \cup {NoMac, NoRow}]
        /\ lapsed' \subseteq Pairs
        /\ entry' \in [Pairs -> {"none", "tam", "foreign"}]
        /\ cool' \in [Mac -> 0..2]
        /\ drift' \subseteq Pairs
        /\ ended' = ended
    <3>1. CASE ApplyRelease(t, d)
      <4>1. PICK rep \in Reports :
              LET closed == {t.ip} \X (Active(t) \cap rep)
              IN /\ Unblock({t.ip} \X (bound \cup Active(t)))
                 /\ CloseRows(closed) /\ CooldownAfter(closed)
                 /\ Explain(Unconfirmed(closed)) /\ ended' = ended
        BY <3>1 DEF ApplyRelease
      <4>2. Unconfirmed({t.ip} \X (Active(t) \cap rep)) \subseteq Pairs
        BY TerminalAssumption DEF Unconfirmed, Active, Pairs
      <4>. QED BY <4>1, <4>2, UnblockType, CloseRowsType, CooldownType, ExplainType
    <3>2. CASE ApplyClear(t, d)  BY <3>2 DEF ApplyClear, TypeOK
    <3>3. CASE ApplyNoFirewall(t)  BY <3>3 DEF ApplyNoFirewall, TypeOK
    <3>4. CASE ApplyAlreadyListed(t)  BY <3>4 DEF ApplyAlreadyListed, TypeOK
    <3>5. CASE ApplyBlock(t)
      <4>1. PICK F, P : /\ \/ Attach(t, F) \/ UNCHANGED <<row, lapsed>>
                        /\ Block(P) /\ Explain({}) /\ UNCHANGED <<ended, cool>>
        BY <3>5, Zenon DEF ApplyBlock
      <4>. QED BY <4>1, BlockType, AttachType, ExplainType DEF TypeOK
    <3>. QED BY <1>1, <3>1, <3>2, <3>3, <3>4, <3>5 DEF Apply
  <2>. QED BY <1>1, <2>0, <2>1 DEF TypeOK, facts
<1>2. ASSUME NEW t \in Terminal, RecalcApply(t) PROVE TypeOK'
  BY <1>1, <1>2, VerdictType DEF RecalcApply
<1>3. ASSUME NEW t \in Terminal, FirstCheck(t) PROVE TypeOK'
  BY <1>1, <1>3 DEF FirstCheck
<1>4. ASSUME NEW t \in Terminal, RecalcKeep(t) PROVE TypeOK'
  BY <1>4 DEF RecalcKeep, TypeOK, FieldsOfTerminal, facts
<1>5. ASSUME NEW t \in Terminal, HealWhitelisted(t) PROVE TypeOK'
  <2>1. PICK b \in {"none", term[t].bstate} :
          term' = [term EXCEPT ![t].comp = "bypass", ![t].bstate = b]
    BY <1>5 DEF HealWhitelisted
  <2>2. term[t] \in FieldsOfTerminal  BY DEF TypeOK
  <2>3. b \in {"none", "no_firewall", "block_failed", "offline"}
    BY <2>2 DEF FieldsOfTerminal
  <2>4. term' \in [Terminal -> FieldsOfTerminal]
    BY <2>1, <2>2, <2>3 DEF TypeOK, FieldsOfTerminal
  <2>. QED BY <1>5, <2>4 DEF HealWhitelisted, TypeOK, facts
<1>6. ASSUME NEW t \in Terminal, MarkNoFirewall(t) PROVE TypeOK'
  BY <1>6 DEF MarkNoFirewall, TypeOK, FieldsOfTerminal, facts
<1>7. ASSUME NEW t \in Terminal, AutoBlock(t) PROVE TypeOK'
  <2>1. term' \in [Terminal -> FieldsOfTerminal]
    BY <1>7 DEF AutoBlock, TypeOK, FieldsOfTerminal
  <2>2. /\ \/ Attach(t, bound \cap up) \/ UNCHANGED <<row, lapsed>>
        /\ Block({t.ip} \X bound) /\ Explain({})
        /\ UNCHANGED <<known, ended, cool, facts>>
    BY <1>7 DEF AutoBlock
  <2>. QED BY <2>1, <2>2, BlockType, AttachType, ExplainType DEF TypeOK, facts
<1>8. ASSUME NEW t \in Terminal, RetryBlock(t) PROVE TypeOK'
  <2>1. term' \in [Terminal -> FieldsOfTerminal]
    BY <1>8 DEF RetryBlock, TypeOK, FieldsOfTerminal
  <2>2. /\ \/ Attach(t, bound) \/ UNCHANGED <<row, lapsed>>
        /\ Block({t.ip} \X bound) /\ Explain({t.ip} \X (bound \cap up))
        /\ UNCHANGED <<known, ended, cool, facts>>
    BY <1>8 DEF RetryBlock
  <2>3. {t.ip} \X (bound \cap up) \in SUBSET Pairs
    BY TerminalAssumption DEF Pairs, TypeOK
  <2>. QED BY <2>1, <2>2, <2>3, BlockType, AttachType, ExplainType DEF TypeOK, facts
<1>9. ASSUME NEW t \in Terminal, Repair(t) \/ SeenAgain(t) PROVE TypeOK'
  BY <1>9 DEF Repair, SeenAgain, TypeOK, FieldsOfTerminal, facts
<1>10. ASSUME NEW m \in Mac \cup {NoMac}, NEW i \in Ip, AutoUnblock(m, i) PROVE TypeOK'
  <2>0. \A t \in Terminal : Verdict(t) \in {"compliant", "bypass", "non_compliant"}
    BY VerdictType
  <2>1. term' \in [Terminal -> FieldsOfTerminal]
    <3>1. term' = [t \in Terminal |-> IF t \in Owners(m, i)
                    THEN [term[t] EXCEPT !.status = "unblocked", !.fwTag = {},
                                         !.comp = Verdict(t)]
                    ELSE term[t]]
      BY <1>10, Zenon DEF AutoUnblock
    <3>2. ASSUME NEW t \in Terminal
          PROVE  [term[t] EXCEPT !.status = "unblocked", !.fwTag = {},
                                 !.comp = Verdict(t)] \in FieldsOfTerminal
      <4>1. term[t] \in FieldsOfTerminal  BY DEF TypeOK
      <4>. QED BY <2>0, <4>1 DEF FieldsOfTerminal
    <3>. QED BY <3>1, <3>2 DEF TypeOK
  <2>2. PICK P : /\ Unblock(P)
                 /\ CloseRows({i} \X Rows(m, i))
                 /\ ended' = ended \ ({m} \X {i} \X Firewall)
                 /\ Explain(Unconfirmed({i} \X Rows(m, i)))
                 /\ UNCHANGED <<known, facts>>
    BY <1>10 DEF AutoUnblock
  <2>3. Unconfirmed({i} \X Rows(m, i)) \in SUBSET Pairs
    BY DEF Unconfirmed, Rows, Pairs
  <2>4. cool' \in [Mac -> 0..2]
    <3>1. PICK S : cool' = IF m = NoMac THEN cool
                           ELSE [cool EXCEPT ![m] = Bump(@, S)]
      BY <1>10 DEF AutoUnblock
    <3>2. CASE m = NoMac  BY <3>1, <3>2 DEF TypeOK
    <3>3. CASE m # NoMac
      <4>1. cool[m] \in 0..2  BY <3>3 DEF TypeOK
      <4>. QED BY <3>1, <3>3, <4>1, BumpType DEF TypeOK
    <3>. QED BY <3>2, <3>3
  <2>. QED BY <2>1, <2>2, <2>3, <2>4, UnblockType, CloseRowsType, ExplainType
           DEF TypeOK, facts
<1>11. ASSUME NEW m \in Mac \cup {NoMac}, NEW i \in Ip, AutoUnblockPartly(m, i)
       PROVE  TypeOK'
  <2>1. PICK rep : /\ Unblock({i} \X (Rows(m, i) \cup Ended(m, i)))
                   /\ \/ /\ CloseRows({i} \X (Rows(m, i) \cap rep))
                         /\ ended' = ended \ ({m} \X {i} \X (Ended(m, i) \cap rep))
                         /\ CooldownAfter({i} \X (Rows(m, i) \cap rep))
                         /\ Explain(Unconfirmed({i} \X (Rows(m, i) \cap rep)))
                      \/ UNCHANGED <<row, lapsed, ended, cool, drift>>
                   /\ UNCHANGED <<known, term, facts>>
    BY <1>11, Zenon DEF AutoUnblockPartly
  <2>2. Unconfirmed({i} \X (Rows(m, i) \cap rep)) \in SUBSET Pairs
    BY DEF Unconfirmed, Rows, Pairs
  <2>. QED BY <2>1, <2>2, UnblockType, CloseRowsType, CooldownType, ExplainType
           DEF TypeOK, facts
<1>12. ASSUME NEW m \in Mac \cup {NoMac}, NEW i \in Ip, CleanupElsewhereActive(m, i)
       PROVE  TypeOK'
  <2>1. {i} \X ExpiredRows(m, i) \in SUBSET Pairs  BY DEF ExpiredRows, Rows, Pairs
  <2>2. /\ CloseRows({i} \X ExpiredRows(m, i)) /\ Explain({i} \X ExpiredRows(m, i))
        /\ ended' = ended \cup {<<m, i, f>> : f \in ExpiredRows(m, i)}
        /\ UNCHANGED <<known, term, cool, facts, entry>>
    BY <1>12 DEF CleanupElsewhereActive
  <2>3. ended' \subseteq (Mac \cup {NoMac}) \X Ip \X Firewall
    <3>1. \A f \in ExpiredRows(m, i) : f \in Firewall  BY DEF ExpiredRows, Rows
    <3>. QED BY <2>2, <3>1 DEF TypeOK
  <2>. QED BY <2>1, <2>2, <2>3, CloseRowsType, ExplainType DEF TypeOK, facts
<1>13. ASSUME NEW m \in Mac \cup {NoMac}, NEW i \in Ip, CleanupUnblock(m, i)
       PROVE  TypeOK'
  <2>1. term' \in [Terminal -> FieldsOfTerminal]
    <3>1. PICK freed : term' = [t \in Terminal |->
            IF t \in freed THEN [Released(term[t]) EXCEPT !.comp = "unknown"] ELSE term[t]]
      BY <1>13, Zenon DEF CleanupUnblock
    <3>2. ASSUME NEW t \in Terminal
          PROVE  [Released(term[t]) EXCEPT !.comp = "unknown"] \in FieldsOfTerminal
      <4>1. Released(term[t]) \in FieldsOfTerminal  BY ReleasedType DEF TypeOK
      <4>. QED BY <4>1 DEF FieldsOfTerminal
    <3>. QED BY <3>1, <3>2 DEF TypeOK
  <2>2. PICK rep : LET done == {i} \X (ExpiredRows(m, i) \cap rep)
                   IN /\ Unblock({i} \X (ExpiredRows(m, i) \cup Ended(m, i)))
                      /\ row' = [p \in Pairs |-> IF p \in done THEN NoRow ELSE row[p]]
                      /\ lapsed' = lapsed \ ({i} \X ExpiredRows(m, i))
                      /\ ended' = ended \cup {<<m, i, f>> : f \in ExpiredRows(m, i) \cap rep}
                      /\ Explain(Unconfirmed(done))
                      /\ UNCHANGED <<known, cool, facts>>
    BY <1>13, Zenon DEF CleanupUnblock
  <2>3. /\ ended' \subseteq (Mac \cup {NoMac}) \X Ip \X Firewall
        /\ Unconfirmed({i} \X (ExpiredRows(m, i) \cap rep)) \in SUBSET Pairs
    <3>1. \A f \in ExpiredRows(m, i) : f \in Firewall  BY DEF ExpiredRows, Rows
    <3>2. ended' \subseteq (Mac \cup {NoMac}) \X Ip \X Firewall
      BY <2>2, <3>1 DEF TypeOK
    <3>3. Unconfirmed({i} \X (ExpiredRows(m, i) \cap rep)) \in SUBSET Pairs
      BY <3>1 DEF Unconfirmed, Pairs
    <3>. QED BY <3>2, <3>3
  <2>. QED BY <2>1, <2>2, <2>3, UnblockType, ExplainType DEF TypeOK, facts
<1>14. ASSUME NEW i \in Ip, NEW f \in Firewall, ReconcileCreate(i, f) PROVE TypeOK'
  <2>1. \A t \in OnIp(i) : t \in Terminal /\ t.mac \in Mac
    BY TerminalAssumption DEF OnIp, TypeOK
  <2>2. term' \in [Terminal -> FieldsOfTerminal]
    <3>1. CASE UNCHANGED term  BY <3>1 DEF TypeOK
    <3>2. CASE \E t \in OnIp(i) : term' = [term EXCEPT ![t].status = "blocked",
                 ![t].comp = IF @ = "unknown" THEN "non_compliant" ELSE @]
      <4>1. PICK t \in OnIp(i) : term' = [term EXCEPT ![t].status = "blocked",
                 ![t].comp = IF @ = "unknown" THEN "non_compliant" ELSE @]
        BY <3>2
      <4>2. term[t] \in FieldsOfTerminal  BY <2>1 DEF TypeOK
      <4>. QED BY <4>1, <4>2 DEF TypeOK, FieldsOfTerminal
    <3>. QED BY <1>14, <3>1, <3>2, Zenon DEF ReconcileCreate
  <2>3. row' \in [Pairs -> Mac \cup {NoMac, NoRow}]
    BY <1>14, <2>1 DEF ReconcileCreate, TypeOK, Pairs
  <2>4. Explain({}) /\ UNCHANGED <<known, lapsed, ended, cool, facts, entry>>
    BY <1>14 DEF ReconcileCreate
  <2>. QED BY <2>2, <2>3, <2>4, ExplainType DEF TypeOK, facts
<1>15. ASSUME NEW i \in Ip, NEW f \in Firewall, ReconcileSkip(i, f) PROVE TypeOK'
  <2>1. PICK t \in OnIp(i) : \E c \in {term[t].comp, "bypass", "non_compliant"} :
          term' = [term EXCEPT ![t].status = "blocked", ![t].comp = c]
    BY <1>15 DEF ReconcileSkip
  <2>2. t \in Terminal /\ term[t] \in FieldsOfTerminal  BY DEF OnIp, TypeOK
  <2>3. PICK c \in {"unknown", "compliant", "bypass", "non_compliant"} :
          term' = [term EXCEPT ![t].status = "blocked", ![t].comp = c]
    BY <2>1, <2>2 DEF FieldsOfTerminal
  <2>4. term' \in [Terminal -> FieldsOfTerminal]
    BY <2>2, <2>3 DEF TypeOK, FieldsOfTerminal
  <2>. QED BY <1>15, <2>4 DEF ReconcileSkip, TypeOK, facts
<1>16. ASSUME NEW i \in Ip, NEW f \in Firewall, ReconcileReblock(i, f) PROVE TypeOK'
  <2>1. term' \in [Terminal -> FieldsOfTerminal]
    BY <1>16 DEF ReconcileReblock, TypeOK, FieldsOfTerminal
  <2>2. Block({<<i, f>>}) /\ UNCHANGED <<known, row, lapsed, ended, cool, facts, drift>>
    BY <1>16 DEF ReconcileReblock
  <2>. QED BY <2>1, <2>2, BlockType DEF TypeOK, facts
<1>. QED BY <1>2, <1>3, <1>4, <1>5, <1>6, <1>7, <1>8, <1>9, <1>10, <1>11, <1>12,
            <1>13, <1>14, <1>15, <1>16 DEF Task

LEMMA DisturbanceType ==
    ASSUME TypeOK, Disturbance, disturbed' \in 0..MaxDisturbance
    PROVE  TypeOK'
<1>1. ASSUME NEW x \in Mac \cup Ip, AddWhitelist(x) PROVE TypeOK'
  <2> DEFINE matched == {t \in known : t.mac = x \/ t.ip = x}
  <2>1. PICK rep \in Reports : term' = [t \in Terminal |->
          IF t \notin matched THEN term[t]
          ELSE IF term[t].status = "blocked" /\ Active(t) \cap rep # {}
          THEN [term[t] EXCEPT !.comp = "bypass", !.status = "unblocked", !.fwTag = {}]
          ELSE [term[t] EXCEPT !.comp = "bypass"]]
    BY <1>1, Zenon DEF AddWhitelist
  <2>2. ASSUME NEW t \in Terminal
        PROVE  /\ [term[t] EXCEPT !.comp = "bypass"] \in FieldsOfTerminal
               /\ [term[t] EXCEPT !.comp = "bypass", !.status = "unblocked",
                                  !.fwTag = {}] \in FieldsOfTerminal
    <3>1. term[t] \in FieldsOfTerminal  BY DEF TypeOK
    <3>. QED BY <3>1 DEF FieldsOfTerminal
  <2>3. term' \in [Terminal -> FieldsOfTerminal]  BY <2>1, <2>2 DEF TypeOK
  <2>4. PICK rows \in SUBSET Pairs, closed \in SUBSET Pairs :
          /\ Unblock(rows) /\ CloseRows(closed) /\ CooldownAfter(closed)
          /\ Explain(Unconfirmed(closed))
          /\ wl' = wl \cup {x} /\ UNCHANGED <<known, ended, up, bound, ig>>
    BY <1>1 DEF AddWhitelist
  <2>5. Unconfirmed(closed) \in SUBSET Pairs  BY DEF Unconfirmed
  <2>. QED BY <2>3, <2>4, <2>5, UnblockType, CloseRowsType, CooldownType, ExplainType
           DEF TypeOK
<1>2. ASSUME NEW x \in Mac \cup Ip, DeleteWhitelist(x) PROVE TypeOK'
  <2>1. PICK reset : term' = [t \in Terminal |->
          IF t \in reset THEN [term[t] EXCEPT !.comp = "unknown"] ELSE term[t]]
    BY <1>2, Zenon DEF DeleteWhitelist
  <2>2. ASSUME NEW t \in Terminal
        PROVE  [term[t] EXCEPT !.comp = "unknown"] \in FieldsOfTerminal
    BY FieldUpdates DEF TypeOK
  <2>3. term' \in [Terminal -> FieldsOfTerminal]  BY <2>1, <2>2 DEF TypeOK
  <2>. QED BY <1>2, <2>3 DEF DeleteWhitelist, TypeOK
<1>3. ASSUME NEW t \in Terminal,
             Discover(t) \/ MarkOffline(t) \/ BaselineChange(t)
      PROVE  TypeOK'
  <2>1. CASE Discover(t)  BY <2>1 DEF Discover, TypeOK
  <2>2. CASE MarkOffline(t)  BY <2>2 DEF MarkOffline, TypeOK, FieldsOfTerminal
  <2>3. CASE BaselineChange(t)  BY <2>3 DEF BaselineChange, TypeOK, data
  <2>. QED BY <1>3, <2>1, <2>2, <2>3
<1>4. ASSUME NEW t \in Terminal, CrashAfterBlock(t) PROVE TypeOK'
  <2>1. PICK F \in SUBSET bound : Block({t.ip} \X F) /\ Explain({t.ip} \X F)
    BY <1>4 DEF CrashAfterBlock
  <2>2. {t.ip} \X F \in SUBSET Pairs  BY TerminalAssumption DEF Pairs, TypeOK
  <2>. QED BY <1>4, <2>1, <2>2, BlockType, ExplainType
           DEF CrashAfterBlock, TypeOK, data
<1>5. ASSUME NEW m \in Mac \cup {NoMac}, NEW i \in Ip, CrashAfterUnblock(m, i)
      PROVE  TypeOK'
  BY <1>5, UnblockType DEF CrashAfterUnblock, TypeOK, data
<1>6. ASSUME NEW i \in Ip, NEW f \in Firewall, ForeignBlock(i, f) PROVE TypeOK'
  BY <1>6 DEF ForeignBlock, TypeOK, data
<1>7. ASSUME NEW i \in Ip, NEW f \in Firewall, ForeignRemove(i, f) PROVE TypeOK'
  BY <1>7, ExplainType DEF ForeignRemove, TypeOK, data
<1>8. ASSUME NEW i \in Ip, NEW f \in Firewall, Expire(i, f) PROVE TypeOK'
  BY <1>8 DEF Expire, TypeOK, Pairs
<1>9. ASSUME NEW i \in Ip, NEW f \in Firewall, RetryUnblock(i, f) PROVE TypeOK'
  <2>1. <<i, f>> \in Pairs  BY DEF Pairs
  <2>2. PICK u \in Terminal : \E b \in BOOLEAN :
          /\ term' = [term EXCEPT ![u] = IF b THEN Released(@) ELSE @]
          /\ Unblock({<<i, f>>}) /\ CloseRows({<<i, f>>}) /\ CooldownAfter({<<i, f>>})
          /\ Explain(Unconfirmed({<<i, f>>}))
          /\ UNCHANGED <<known, ended, up, bound, wl, ig>>
    BY <1>9 DEF RetryUnblock, Owners, TypeOK
  <2>3. term' \in [Terminal -> FieldsOfTerminal]
    BY <2>2, ReleasedType DEF TypeOK
  <2>4. Unconfirmed({<<i, f>>}) \in SUBSET Pairs  BY <2>1 DEF Unconfirmed
  <2>. QED BY <2>2, <2>3, <2>4, UnblockType, CloseRowsType, CooldownType, ExplainType
           DEF TypeOK
<1>10. ASSUME NEW f \in Firewall, FirewallDown(f) \/ Bind(f) PROVE TypeOK'
  BY <1>10 DEF FirewallDown, Bind, TypeOK, data
<1>11. ASSUME NEW f \in Firewall, Unbind(f) PROVE TypeOK'
  <2>1. PICK reset, untag : term' = Unbound(f, reset, untag)
    BY <1>11, UnbindTerm
  <2>2. ASSUME NEW t \in Terminal
        PROVE  /\ [term[t] EXCEPT !.status = "unblocked", !.fwTag = {},
                                  !.comp = "unknown"] \in FieldsOfTerminal
               /\ [term[t] EXCEPT !.fwTag = @ \ {f}] \in FieldsOfTerminal
    <3>1. term[t] \in FieldsOfTerminal  BY DEF TypeOK
    <3>. QED BY <3>1 DEF FieldsOfTerminal
  <2>3. term' \in [Terminal -> FieldsOfTerminal]  BY <2>1, <2>2 DEF Unbound, TypeOK
  <2>4. PICK gone, P :
          /\ gone \in SUBSET Pairs
          /\ Unblock(P) /\ CloseRows(gone) /\ Explain(Unconfirmed(gone))
          /\ ended' \subseteq ended /\ cool' \in [Mac -> 0..2]
          /\ bound' \subseteq bound /\ UNCHANGED <<known, up, wl, ig>>
    <3> DEFINE gone == {p \in Ip \X {f} : row[p] \in Mac}
    <3>1. gone \in SUBSET Pairs  BY DEF Pairs
    <3>2. PICK P : /\ Unblock(P) /\ CloseRows(gone) /\ Explain(Unconfirmed(gone))
                   /\ ended' \subseteq ended /\ cool' \in [Mac -> 0..2]
                   /\ bound' \subseteq bound /\ UNCHANGED <<known, up, wl, ig>>
      BY <1>11 DEF Unbind
    <3>. QED BY <3>1, <3>2
  <2>5. Unconfirmed(gone) \in SUBSET Pairs  BY <2>4 DEF Unconfirmed
  <2>. QED BY <2>3, <2>4, <2>5, UnblockType, CloseRowsType, ExplainType DEF TypeOK
<1>. QED BY <1>1, <1>2, <1>3, <1>4, <1>5, <1>6, <1>7, <1>8, <1>9, <1>10, <1>11
         DEF Disturbance

LEMMA NextType == TypeOK /\ [Next]_vars => TypeOK'
<1> SUFFICES ASSUME TypeOK, [Next]_vars PROVE TypeOK'
  OBVIOUS
<1>1. CASE Task  BY <1>1, TaskType
<1>2. ASSUME NEW f \in Firewall, FirewallUp(f) PROVE TypeOK'
  BY <1>2 DEF FirewallUp, TypeOK, data
<1>3. ASSUME NEW m \in Mac, CooldownEnds(m) PROVE TypeOK'
  <2>1. PICK n \in 0..(cool[m] - 1) : cool' = [cool EXCEPT ![m] = n]
    BY <1>3 DEF CooldownEnds
  <2>2. n \in 0..2
    <3>1. cool[m] \in 0..2  BY DEF TypeOK
    <3>. QED BY <2>1, <3>1
  <2>. QED BY <1>3, <2>1, <2>2 DEF CooldownEnds, TypeOK, facts
<1>4. CASE disturbed < MaxDisturbance /\ disturbed' = disturbed + 1 /\ Disturbance
  <2>1. disturbed' \in 0..MaxDisturbance  BY <1>4, DisturbanceAssumption DEF TypeOK
  <2>. QED BY <1>4, <2>1, DisturbanceType
<1>5. CASE UNCHANGED vars  BY <1>5 DEF vars, data, facts, TypeOK
<1>. QED BY <1>1, <1>2, <1>3, <1>4, <1>5 DEF Next

\* Every handler leaves the tables, the firewalls and the ledger well-formed,
\* whatever the terminals, IPs and firewalls.
THEOREM TypeCorrect == Spec => []TypeOK
BY InitType, NextType, PTL DEF Spec

(* The firewall tag of an unblocked terminal.                                *)

Tidy(r) == r.status = "unblocked" => r.fwTag = {}

LEMMA ReleasedTidy ==
    ASSUME NEW r \in FieldsOfTerminal
    PROVE  /\ Tidy(Released(r))
           /\ \A c : Tidy([Released(r) EXCEPT !.comp = c])
           /\ \A c : Tidy([r EXCEPT !.comp = c, !.status = "unblocked", !.fwTag = {}])
           /\ Tidy(r) => \A c : Tidy([r EXCEPT !.comp = c])
           /\ Tidy(r) => \A b : Tidy([r EXCEPT !.bstate = b])
BY DEF FieldsOfTerminal, Released, Tidy

LEMMA ApplyTidy ==
    ASSUME TypeOK, UnblockedHasNoTag, NEW t \in Terminal, NEW d, Apply(t, d)
    PROVE  UnblockedHasNoTag'
<1>0. /\ term[t] \in FieldsOfTerminal /\ Tidy(term[t])
      /\ \A u \in Terminal : term[u].status = "unblocked" => term[u].fwTag = {}
  BY DEF TypeOK, UnblockedHasNoTag, Tidy
<1>1. CASE ApplyRelease(t, d)
  <2>1. PICK good \in BOOLEAN :
          term' = [term EXCEPT ![t] =
            [IF good THEN Released(term[t]) ELSE term[t] EXCEPT !.comp = d]]
    BY <1>1 DEF ApplyRelease
  <2> DEFINE r == IF good THEN Released(term[t]) ELSE term[t]
  <2>2. Tidy([r EXCEPT !.comp = d])
    <3>1. CASE good  BY <3>1, <1>0, ReleasedTidy
    <3>2. CASE ~good  BY <3>2, <1>0, ReleasedTidy
    <3>. QED BY <3>1, <3>2
  <2>. QED BY <1>0, <2>1, <2>2 DEF TypeOK, UnblockedHasNoTag, Tidy
<1>2. CASE ApplyClear(t, d)
  BY <1>0, <1>2 DEF TypeOK, ApplyClear, FieldsOfTerminal, UnblockedHasNoTag
<1>3. CASE ApplyNoFirewall(t)
  BY <1>0, <1>3 DEF TypeOK, ApplyNoFirewall, UnblockedHasNoTag
<1>4. CASE ApplyAlreadyListed(t)
  BY <1>0, <1>4 DEF TypeOK, ApplyAlreadyListed, FieldsOfTerminal, UnblockedHasNoTag
<1>5. CASE ApplyBlock(t)
  <2>1. PICK done :
          \/ term' = [term EXCEPT ![t].bstate = "none",
                ![t].fwTag = IF term[t].status = "blocked" THEN @ ELSE {}]
          \/ term' = [term EXCEPT ![t] =
                [comp |-> "non_compliant", status |-> "blocked",
                 fwTag |-> Active(t) \cup done, bstate |-> "none"]]
    BY <1>5 DEF ApplyBlock
  <2>. QED BY <1>0, <2>1 DEF TypeOK, FieldsOfTerminal, UnblockedHasNoTag
<1>. QED BY <1>1, <1>2, <1>3, <1>4, <1>5 DEF Apply

LEMMA NextTidy == TypeOK /\ UnblockedHasNoTag /\ [Next]_vars => UnblockedHasNoTag'
<1> SUFFICES ASSUME TypeOK, UnblockedHasNoTag, [Next]_vars PROVE UnblockedHasNoTag'
  OBVIOUS
<1>0. \A t \in Terminal : term[t] \in FieldsOfTerminal /\ Tidy(term[t])
  BY DEF TypeOK, UnblockedHasNoTag, Tidy
<1>1. ASSUME NEW t \in Terminal, NEW d, Apply(t, d) PROVE UnblockedHasNoTag'
  BY <1>1, ApplyTidy
<1>2. ASSUME NEW t \in Terminal,
             RecalcKeep(t) \/ HealWhitelisted(t) \/ MarkNoFirewall(t)
      PROVE  UnblockedHasNoTag'
  BY <1>0, <1>2 DEF RecalcKeep, HealWhitelisted, MarkNoFirewall, Tidy,
                    TypeOK, FieldsOfTerminal, UnblockedHasNoTag
<1>3. ASSUME NEW t \in Terminal, AutoBlock(t) \/ RetryBlock(t) PROVE UnblockedHasNoTag'
  BY <1>0, <1>3 DEF AutoBlock, RetryBlock, Tidy, TypeOK, FieldsOfTerminal,
                    UnblockedHasNoTag
<1>4. ASSUME NEW t \in Terminal, Repair(t) \/ SeenAgain(t) \/ MarkOffline(t)
      PROVE  UnblockedHasNoTag'
  BY <1>0, <1>4 DEF Repair, SeenAgain, MarkOffline, Tidy, TypeOK, FieldsOfTerminal,
                    UnblockedHasNoTag
<1>5. ASSUME NEW m, NEW i, AutoUnblock(m, i) PROVE UnblockedHasNoTag'
  <2>1. term' = [t \in Terminal |-> IF t \in Owners(m, i)
                   THEN [term[t] EXCEPT !.status = "unblocked", !.fwTag = {},
                                        !.comp = Verdict(t)]
                   ELSE term[t]]
    BY <1>5, Zenon DEF AutoUnblock
  <2>2. ASSUME NEW t \in Terminal
        PROVE  Tidy([term[t] EXCEPT !.status = "unblocked", !.fwTag = {},
                                    !.comp = Verdict(t)])
    BY <1>0 DEF Tidy, FieldsOfTerminal
  <2>. QED BY <1>0, <2>1, <2>2 DEF UnblockedHasNoTag, Tidy
<1>6. ASSUME NEW m, NEW i, CleanupUnblock(m, i) PROVE UnblockedHasNoTag'
  <2>1. PICK freed : term' = [t \in Terminal |->
          IF t \in freed THEN [Released(term[t]) EXCEPT !.comp = "unknown"] ELSE term[t]]
    BY <1>6, Zenon DEF CleanupUnblock
  <2>2. ASSUME NEW t \in Terminal
        PROVE  Tidy([Released(term[t]) EXCEPT !.comp = "unknown"])
    BY <1>0, ReleasedTidy
  <2>. QED BY <1>0, <2>1, <2>2 DEF UnblockedHasNoTag, Tidy
<1>7. ASSUME NEW i \in Ip, NEW f \in Firewall,
             \/ ReconcileCreate(i, f) \/ ReconcileSkip(i, f) \/ ReconcileReblock(i, f)
      PROVE  UnblockedHasNoTag'
  <2>1. UNCHANGED term \/ \E t \in Terminal : 
          /\ term'[t].status = "blocked"
          /\ \A u \in Terminal \ {t} : term'[u] = term[u]
    <3>0. \A j : OnIp(j) \subseteq Terminal
      BY DEF OnIp, TypeOK
    <3>1. \A m, j : Owners(m, j) \subseteq Terminal
      BY DEF Owners, TypeOK
    <3>2. CASE ReconcileCreate(i, f)
      <4>1. CASE UNCHANGED term  BY <4>1
      <4>2. CASE \E t \in OnIp(i) : term' = [term EXCEPT ![t].status = "blocked",
                   ![t].comp = IF @ = "unknown" THEN "non_compliant" ELSE @]
        <5>1. PICK t \in OnIp(i) : term' = [term EXCEPT ![t].status = "blocked",
                   ![t].comp = IF @ = "unknown" THEN "non_compliant" ELSE @]
          BY <4>2
        <5>2. t \in Terminal /\ term[t] \in FieldsOfTerminal  BY <1>0, <3>0
        <5>. QED BY <5>1, <5>2 DEF TypeOK, FieldsOfTerminal
      <4>. QED BY <3>2, <4>1, <4>2, Zenon DEF ReconcileCreate
    <3>3. CASE ReconcileSkip(i, f)
      BY <1>0, <3>0, <3>3 DEF ReconcileSkip, TypeOK, FieldsOfTerminal
    <3>4. CASE ReconcileReblock(i, f)
      BY <1>0, <3>1, <3>4 DEF ReconcileReblock, TypeOK, FieldsOfTerminal
    <3>. QED BY <1>7, <3>2, <3>3, <3>4
  <2>. QED BY <1>0, <2>1 DEF UnblockedHasNoTag, Tidy
<1>8. ASSUME NEW x, AddWhitelist(x) PROVE UnblockedHasNoTag'
  <2> DEFINE matched == {t \in known : t.mac = x \/ t.ip = x}
  <2>1. PICK rep \in Reports : term' = [t \in Terminal |->
          IF t \notin matched THEN term[t]
          ELSE IF term[t].status = "blocked" /\ Active(t) \cap rep # {}
          THEN [term[t] EXCEPT !.comp = "bypass", !.status = "unblocked", !.fwTag = {}]
          ELSE [term[t] EXCEPT !.comp = "bypass"]]
    BY <1>8, Zenon DEF AddWhitelist
  <2>2. ASSUME NEW t \in Terminal
        PROVE  /\ Tidy([term[t] EXCEPT !.comp = "bypass"])
               /\ Tidy([term[t] EXCEPT !.comp = "bypass", !.status = "unblocked",
                                       !.fwTag = {}])
    BY <1>0, ReleasedTidy
  <2>. QED BY <1>0, <2>1, <2>2 DEF UnblockedHasNoTag, Tidy
<1>9. ASSUME NEW x, DeleteWhitelist(x) PROVE UnblockedHasNoTag'
  <2>1. PICK reset : term' = [t \in Terminal |->
          IF t \in reset THEN [term[t] EXCEPT !.comp = "unknown"] ELSE term[t]]
    BY <1>9, Zenon DEF DeleteWhitelist
  <2>2. ASSUME NEW t \in Terminal PROVE Tidy([term[t] EXCEPT !.comp = "unknown"])
    BY <1>0, ReleasedTidy
  <2>. QED BY <1>0, <2>1, <2>2 DEF UnblockedHasNoTag, Tidy
<1>10. ASSUME NEW i, NEW f, RetryUnblock(i, f) PROVE UnblockedHasNoTag'
  <2>1. PICK u \in Terminal, b \in BOOLEAN :
          term' = [term EXCEPT ![u] = IF b THEN Released(@) ELSE @]
    BY <1>10 DEF RetryUnblock, Owners, TypeOK
  <2>2. Tidy(Released(term[u]))  BY <1>0, ReleasedTidy
  <2>. QED BY <1>0, <2>1, <2>2 DEF UnblockedHasNoTag, Tidy, TypeOK
<1>11. CASE UNCHANGED term  BY <1>11 DEF UnblockedHasNoTag
<1>12. ASSUME NEW t \in Terminal, RecalcApply(t) \/ FirstCheck(t)
       PROVE  \E d : Apply(t, d)
  BY <1>12 DEF RecalcApply, FirstCheck
<1>13. CASE Task
  BY <1>1, <1>2, <1>3, <1>4, <1>5, <1>6, <1>7, <1>11, <1>12, <1>13
     DEF Task, AutoUnblockPartly, CleanupElsewhereActive
<1>14. ASSUME NEW f, Unbind(f) PROVE UnblockedHasNoTag'
  <2>1. PICK reset, untag : term' = Unbound(f, reset, untag)
    BY <1>14, UnbindTerm
  <2>2. ASSUME NEW t \in Terminal
        PROVE  /\ Tidy([term[t] EXCEPT !.status = "unblocked", !.fwTag = {},
                                       !.comp = "unknown"])
               /\ Tidy([term[t] EXCEPT !.fwTag = @ \ {f}])
    BY <1>0 DEF Tidy, FieldsOfTerminal
  <2>. QED BY <1>0, <2>1, <2>2 DEF Unbound, UnblockedHasNoTag, Tidy
<1>15. CASE Disturbance
  BY <1>4, <1>8, <1>9, <1>10, <1>11, <1>14, <1>15
     DEF Disturbance, Discover, CrashAfterBlock, CrashAfterUnblock, BaselineChange,
         ForeignBlock, ForeignRemove, Expire, FirewallDown, Bind, data
<1>. QED BY <1>11, <1>13, <1>15 DEF Next, FirewallUp, CooldownEnds, vars, data

\* A terminal shown as unblocked carries no firewall tag, for any number of
\* terminals and firewalls: the filters and the short cut that read the tag as
\* "blocked there" are never misled.
THEOREM NoStaleTag == Spec => []UnblockedHasNoTag
<1>1. Init => UnblockedHasNoTag  BY DEF Init, UnblockedHasNoTag, NewTerminal
<1>2. TypeOK /\ UnblockedHasNoTag /\ [Next]_vars => UnblockedHasNoTag'
  BY NextTidy
<1>. QED BY <1>1, <1>2, TypeCorrect, PTL DEF Spec

(* Entries on a firewall that no active row accounts for.                    *)

Orphan(p) == entry[p] = "tam" /\ row[p] = NoRow

\* An unblocking that closes rows leaves no orphan but where it was reported as
\* done by a firewall that did not answer.
LEMMA UnblockOrphans ==
    ASSUME TypeOK, NEW P, NEW Q \in SUBSET P, Unblock(P),
           \A p \in Pairs : row'[p] = NoRow => row[p] = NoRow \/ p \in Q
    PROVE  \A p \in Pairs : Orphan(p)' => Orphan(p) \/ p \in Unconfirmed(Q)
BY DEF Orphan, Unblock, Unconfirmed, TypeOK

LEMMA CloseOrphans ==
    ASSUME TypeOK, NEW P, NEW Q \in SUBSET P, Unblock(P), CloseRows(Q)
    PROVE  \A p \in Pairs : Orphan(p)' => Orphan(p) \/ p \in Unconfirmed(Q)
<1>1. \A p \in Pairs : row'[p] = NoRow => row[p] = NoRow \/ p \in Q
  BY DEF CloseRows
<1>. QED BY <1>1, UnblockOrphans

\* A block with a row for every firewall that accepted it leaves no orphan.
LEMMA BlockOrphans ==
    ASSUME TypeOK, NEW t \in Terminal, NEW F, NEW D, F \cap up \subseteq D,
           Block({t.ip} \X F), Attach(t, D) \/ (D = {} /\ UNCHANGED row)
    PROVE  \A p \in Pairs : Orphan(p)' => Orphan(p)
<1> SUFFICES ASSUME NEW p \in Pairs, Orphan(p)' PROVE Orphan(p)
  OBVIOUS
<1>1. t.mac # NoRow  BY TerminalAssumption, NullAssumption
<1>2. row[p] = NoRow /\ p \notin {t.ip} \X D
  BY <1>1 DEF Orphan, Attach
<1>3. p \in {t.ip} \X F /\ p[2] \in up => p \in {t.ip} \X D
  OBVIOUS
<1>. QED BY <1>2, <1>3 DEF Orphan, Block, TypeOK

\* What the ledger must record for the orphans to stay explained.
LEMMA Explained ==
    ASSUME EveryOrphanIsExplained, NEW P, Explain(P),
           \A p \in Pairs : Orphan(p)' => Orphan(p) \/ p \in P
    PROVE  EveryOrphanIsExplained'
<1> SUFFICES ASSUME NEW p \in Pairs, entry'[p] = "tam" /\ row'[p] = NoRow
             PROVE  p \in drift'
  BY DEF EveryOrphanIsExplained
<1>1. p \in drift \cup P  BY DEF Orphan, EveryOrphanIsExplained
<1>2. p \in {q \in drift \cup P : entry'[q] = "tam" /\ row'[q] = NoRow}  BY <1>1
<1>. QED BY <1>2 DEF Explain

LEMMA NoNewOrphan ==
    ASSUME EveryOrphanIsExplained, drift' = drift,
           \A p \in Pairs : Orphan(p)' => Orphan(p)
    PROVE  EveryOrphanIsExplained'
BY DEF EveryOrphanIsExplained, Orphan

LEMMA ApplyOrphans ==
    ASSUME TypeOK, EveryOrphanIsExplained, NEW t \in Terminal, NEW d, Apply(t, d)
    PROVE  EveryOrphanIsExplained'
<1>1. CASE ApplyRelease(t, d)
  <2>1. PICK rep \in Reports :
          LET closed == {t.ip} \X (Active(t) \cap rep)
          IN /\ Unblock({t.ip} \X (bound \cup Active(t)))
             /\ CloseRows(closed) /\ Explain(Unconfirmed(closed))
    BY <1>1 DEF ApplyRelease
  <2>2. {t.ip} \X (Active(t) \cap rep) \subseteq {t.ip} \X (bound \cup Active(t))
    OBVIOUS
  <2>. QED BY <2>1, <2>2, CloseOrphans, Explained
<1>2. CASE UNCHANGED <<row, entry, drift>>  BY <1>2 DEF EveryOrphanIsExplained
<1>3. CASE ApplyBlock(t)
  <2> DEFINE missing == bound \ Active(t)
             tagged == IF term[t].status = "blocked" THEN missing \cap term[t].fwTag ELSE {}
             done == tagged \cup (missing \cap up)
  <2>1. /\ Block({t.ip} \X (missing \ tagged)) /\ Explain({})
        /\ Attach(t, done) \/ (done = {} /\ UNCHANGED row)
    BY <1>3, Zenon DEF ApplyBlock
  <2>2. (missing \ tagged) \cap up \subseteq done  OBVIOUS
  <2>3. \A p \in Pairs : Orphan(p)' => Orphan(p)
    <3> HIDE DEF missing, tagged, done
    <3>. QED BY <2>1, <2>2, BlockOrphans
  <2>. QED BY <2>1, <2>3, Explained
<1>. QED BY <1>1, <1>2, <1>3
         DEF Apply, ApplyClear, ApplyNoFirewall, ApplyAlreadyListed

LEMMA TaskOrphans ==
    ASSUME TypeOK, EveryOrphanIsExplained, Task
    PROVE  EveryOrphanIsExplained'
<1>0. CASE UNCHANGED <<row, entry, drift>>  BY <1>0 DEF EveryOrphanIsExplained
<1>1. ASSUME NEW t \in Terminal, RecalcApply(t) \/ FirstCheck(t)
      PROVE  EveryOrphanIsExplained'
  BY <1>1, ApplyOrphans DEF RecalcApply, FirstCheck
<1>2. ASSUME NEW t \in Terminal, AutoBlock(t) PROVE EveryOrphanIsExplained'
  <2>1. /\ Block({t.ip} \X bound) /\ Explain({})
        /\ Attach(t, bound \cap up) \/ (bound \cap up = {} /\ UNCHANGED row)
    BY <1>2, Zenon DEF AutoBlock
  <2>2. \A p \in Pairs : Orphan(p)' => Orphan(p)  BY <2>1, BlockOrphans
  <2>. QED BY <2>1, <2>2, Explained
<1>3. ASSUME NEW t \in Terminal, RetryBlock(t) PROVE EveryOrphanIsExplained'
  <2>1. Block({t.ip} \X bound) /\ Explain({t.ip} \X (bound \cap up))
    BY <1>3, Zenon DEF RetryBlock
  <2>2. CASE Attach(t, bound)
    <3>1. \A p \in Pairs : Orphan(p)' => Orphan(p)  BY <2>1, <2>2, BlockOrphans
    <3>. QED BY <2>1, <3>1, Explained
  <2>3. CASE UNCHANGED row
    <3>1. \A p \in Pairs : Orphan(p)' => Orphan(p) \/ p \in {t.ip} \X (bound \cap up)
      BY <2>1, <2>3 DEF Orphan, Block, TypeOK
    <3>. QED BY <2>1, <3>1, Explained
  <2>. QED BY <1>3, <2>2, <2>3 DEF RetryBlock
<1>4. ASSUME NEW m, NEW i, AutoUnblock(m, i) PROVE EveryOrphanIsExplained'
  <2>1. LET rows == {i} \X Rows(m, i)
        IN /\ Unblock({i} \X (Rows(m, i) \cup Ended(m, i)))
           /\ CloseRows(rows) /\ Explain(Unconfirmed(rows))
    BY <1>4 DEF AutoUnblock
  <2>2. {i} \X Rows(m, i) \subseteq {i} \X (Rows(m, i) \cup Ended(m, i))  OBVIOUS
  <2>. QED BY <2>1, <2>2, CloseOrphans, Explained
<1>5. ASSUME NEW m, NEW i, AutoUnblockPartly(m, i) PROVE EveryOrphanIsExplained'
  <2>1. PICK rep : 
          LET rows == {i} \X (Rows(m, i) \cap rep)
          IN /\ Unblock({i} \X (Rows(m, i) \cup Ended(m, i)))
             /\ \/ CloseRows(rows) /\ Explain(Unconfirmed(rows))
                \/ UNCHANGED <<row, drift>>
    BY <1>5 DEF AutoUnblockPartly
  <2>2. {i} \X (Rows(m, i) \cap rep) \subseteq {i} \X (Rows(m, i) \cup Ended(m, i))
    OBVIOUS
  <2>3. CASE UNCHANGED <<row, drift>>
    <3>1. \A p \in Pairs : Orphan(p)' => Orphan(p)
      BY <2>1, <2>3 DEF Orphan, Unblock, TypeOK
    <3>. QED BY <2>3, <3>1, NoNewOrphan
  <2>. QED BY <2>1, <2>2, <2>3, CloseOrphans, Explained
<1>6. ASSUME NEW m, NEW i, CleanupElsewhereActive(m, i) PROVE EveryOrphanIsExplained'
  <2> DEFINE expired == {i} \X ExpiredRows(m, i)
  <2>1. CloseRows(expired) /\ Explain(expired) /\ UNCHANGED entry
    BY <1>6 DEF CleanupElsewhereActive
  <2>2. \A p \in Pairs : Orphan(p)' => Orphan(p) \/ p \in expired
    BY <2>1 DEF CloseRows, Orphan
  <2>. QED BY <2>1, <2>2, Explained
<1>7. ASSUME NEW m, NEW i, CleanupUnblock(m, i) PROVE EveryOrphanIsExplained'
  <2>1. PICK rep :
          LET done == {i} \X (ExpiredRows(m, i) \cap rep)
          IN /\ Unblock({i} \X (ExpiredRows(m, i) \cup Ended(m, i)))
             /\ row' = [p \in Pairs |-> IF p \in done THEN NoRow ELSE row[p]]
             /\ Explain(Unconfirmed(done))
    BY <1>7 DEF CleanupUnblock
  <2> DEFINE done == {i} \X (ExpiredRows(m, i) \cap rep)
             asked == {i} \X (ExpiredRows(m, i) \cup Ended(m, i))
  <2>2. done \subseteq asked  OBVIOUS
  <2>3. \A p \in Pairs : row'[p] = NoRow => row[p] = NoRow \/ p \in done
    BY <2>1
  <2>4. Unblock(asked) /\ Explain(Unconfirmed(done))  BY <2>1
  <2>5. \A p \in Pairs : Orphan(p)' => Orphan(p) \/ p \in Unconfirmed(done)
    <3> HIDE DEF done, asked
    <3>. QED BY <2>2, <2>3, <2>4, UnblockOrphans
  <2>. QED BY <2>4, <2>5, Explained
<1>8. ASSUME NEW i \in Ip, NEW f \in Firewall, ReconcileCreate(i, f)
      PROVE  EveryOrphanIsExplained'
  <2>1. Explain({}) /\ UNCHANGED entry  BY <1>8 DEF ReconcileCreate
  <2>2. PICK m : row' = [row EXCEPT ![<<i, f>>] = m] /\ row[<<i, f>>] = NoRow
    BY <1>8 DEF ReconcileCreate
  <2>3. \A p \in Pairs : row'[p] = NoRow => row[p] = NoRow  BY <2>2 DEF TypeOK
  <2>4. \A p \in Pairs : Orphan(p)' => Orphan(p)  BY <2>1, <2>3 DEF Orphan
  <2>. QED BY <2>1, <2>4, Explained
<1>9. ASSUME NEW i \in Ip, NEW f \in Firewall, ReconcileReblock(i, f)
      PROVE  EveryOrphanIsExplained'
  <2>1. /\ Block({<<i, f>>}) /\ UNCHANGED <<row, drift>> /\ row[<<i, f>>] # NoRow
    BY <1>9 DEF ReconcileReblock, Recorded
  <2>2. \A p \in Pairs : Orphan(p)' => Orphan(p)
    BY <2>1 DEF Orphan, Block, TypeOK
  <2>. QED BY <2>1, <2>2, NoNewOrphan
<1>. QED BY <1>0, <1>1, <1>2, <1>3, <1>4, <1>5, <1>6, <1>7, <1>8, <1>9
         DEF Task, RecalcKeep, HealWhitelisted, MarkNoFirewall, Repair, SeenAgain,
             ReconcileSkip

LEMMA DisturbanceOrphans ==
    ASSUME TypeOK, EveryOrphanIsExplained, Disturbance
    PROVE  EveryOrphanIsExplained'
<1>0. CASE UNCHANGED <<row, entry, drift>>  BY <1>0 DEF EveryOrphanIsExplained
<1>1. ASSUME NEW x, AddWhitelist(x) PROVE EveryOrphanIsExplained'
  <2>1. PICK rows : \E closed \in SUBSET rows :
          Unblock(rows) /\ CloseRows(closed) /\ Explain(Unconfirmed(closed))
    BY <1>1 DEF AddWhitelist
  <2>. QED BY <2>1, CloseOrphans, Explained
<1>2. ASSUME NEW t \in Terminal, CrashAfterBlock(t) PROVE EveryOrphanIsExplained'
  <2>1. PICK F : Block({t.ip} \X F) /\ Explain({t.ip} \X F) /\ UNCHANGED row
    BY <1>2 DEF CrashAfterBlock, data
  <2>2. \A p \in Pairs : Orphan(p)' => Orphan(p) \/ p \in {t.ip} \X F
    BY <2>1 DEF Orphan, Block, TypeOK
  <2>. QED BY <2>1, <2>2, Explained
<1>3. ASSUME NEW m, NEW i, CrashAfterUnblock(m, i) PROVE EveryOrphanIsExplained'
  <2>1. PICK P : Unblock(P) /\ UNCHANGED <<row, drift>>
    BY <1>3 DEF CrashAfterUnblock, data
  <2>2. \A p \in Pairs : Orphan(p)' => Orphan(p)
    BY <2>1 DEF Orphan, Unblock, TypeOK
  <2>. QED BY <2>1, <2>2, NoNewOrphan
<1>4. ASSUME NEW i \in Ip, NEW f \in Firewall, ForeignBlock(i, f)
      PROVE  EveryOrphanIsExplained'
  BY <1>4 DEF ForeignBlock, EveryOrphanIsExplained, TypeOK, data
<1>5. ASSUME NEW i \in Ip, NEW f \in Firewall, ForeignRemove(i, f)
      PROVE  EveryOrphanIsExplained'
  <2>1. Explain({}) /\ \A p \in Pairs : Orphan(p)' => Orphan(p)
    BY <1>5 DEF ForeignRemove, Orphan, TypeOK, data
  <2>. QED BY <2>1, Explained
<1>6. ASSUME NEW i \in Ip, NEW f \in Firewall, RetryUnblock(i, f)
      PROVE  EveryOrphanIsExplained'
  <2>1. /\ Unblock({<<i, f>>}) /\ CloseRows({<<i, f>>})
        /\ Explain(Unconfirmed({<<i, f>>}))
    BY <1>6 DEF RetryUnblock
  <2>. QED BY <2>1, CloseOrphans, Explained
<1>7. ASSUME NEW f, Unbind(f) PROVE EveryOrphanIsExplained'
  <2> DEFINE gone == {p \in Ip \X {f} : row[p] \in Mac}
  <2>1. PICK old : /\ Unblock(gone \cup old) /\ CloseRows(gone)
                   /\ Explain(Unconfirmed(gone))
    BY <1>7 DEF Unbind
  <2>2. gone \subseteq gone \cup old  OBVIOUS
  <2>. QED
    <3> HIDE DEF gone
    <3>. QED BY <2>1, <2>2, CloseOrphans, Explained
<1>. QED BY <1>0, <1>1, <1>2, <1>3, <1>4, <1>5, <1>6, <1>7
         DEF Disturbance, DeleteWhitelist, Discover, MarkOffline, BaselineChange,
             Expire, FirewallDown, Bind, data

\* Every TAM entry without an active row has one of the named causes: a lost
\* transaction, a retry that failed elsewhere, an unconfirmed success, an expired
\* row ended beside another, a binding deleted while its firewall was down.  No
\* other handler, in any order, loses a block.
THEOREM OrphansAreExplained == Spec => []EveryOrphanIsExplained
<1>1. Init => EveryOrphanIsExplained  BY DEF Init, EveryOrphanIsExplained
<1>2. TypeOK /\ EveryOrphanIsExplained /\ [Next]_vars => EveryOrphanIsExplained'
  <2> SUFFICES ASSUME TypeOK, EveryOrphanIsExplained, [Next]_vars
               PROVE  EveryOrphanIsExplained'
    OBVIOUS
  <2>1. CASE UNCHANGED <<row, entry, drift>>  BY <2>1 DEF EveryOrphanIsExplained
  <2>. QED BY <2>1, TaskOrphans, DisturbanceOrphans
           DEF Next, FirewallUp, CooldownEnds, vars, data
<1>. QED BY <1>1, <1>2, TypeCorrect, PTL DEF Spec

(* What a block on a firewall answers to.                                    *)

Added(p) == entry[p] = "none" /\ entry'[p] = "tam"

\* Someone to block on that IP, or a row that asks for it.
Cause(p) ==
    \/ Recorded(p)
    \/ \E t \in known : /\ t.ip = p[1] /\ ~Whitelisted(t)
                         /\ "non_compliant" \in {term[t].comp, Verdict(t)}

LEMMA UnblockAddsNothing ==
    ASSUME TypeOK, NEW P, Unblock(P) \/ UNCHANGED entry, NEW p \in Pairs
    PROVE  ~Added(p)
BY DEF Added, Unblock, TypeOK

LEMMA BlockAdds ==
    ASSUME TypeOK, NEW P, Block(P), NEW p \in Pairs, Added(p)
    PROVE  p \in P
BY DEF Added, Block, TypeOK

LEMMA BadVerdict ==
    ASSUME NEW t, Verdict(t) = "non_compliant"
    PROVE  ~Whitelisted(t)
BY DEF Verdict

\* An applied verdict blocks the terminal's own IP, and only a bad one does.
LEMMA ApplyAdds ==
    ASSUME TypeOK, NEW t \in Terminal, NEW d, Apply(t, d), NEW p \in Pairs, Added(p)
    PROVE  d = "non_compliant" /\ p[1] = t.ip
<1>1. CASE ApplyRelease(t, d)
  <2>1. PICK P : Unblock(P)  BY <1>1 DEF ApplyRelease
  <2>. QED BY <2>1, UnblockAddsNothing
<1>2. CASE UNCHANGED entry  BY <1>2, UnblockAddsNothing
<1>3. CASE d = "non_compliant" /\ ApplyBlock(t)
  <2>1. PICK F : Block({t.ip} \X F)  BY <1>3 DEF ApplyBlock
  <2>2. p \in {t.ip} \X F  BY <2>1, BlockAdds
  <2>. QED BY <1>3, <2>2
<1>. QED BY <1>1, <1>2, <1>3
         DEF Apply, ApplyClear, ApplyNoFirewall, ApplyAlreadyListed

LEMMA NextCause ==
    ASSUME \A t, u \in Terminal : t.mac = u.mac => t = u,
           TypeOK, [Next]_vars, NEW p \in Pairs, Added(p)
    PROVE  Cause(p)
<1>0. ASSUME NEW P, Unblock(P) \/ UNCHANGED entry PROVE FALSE
  BY <1>0, UnblockAddsNothing
<1>1. ASSUME NEW t \in Terminal, RecalcApply(t) PROVE Cause(p)
  <2>1. Verdict(t) = "non_compliant" /\ p[1] = t.ip
    BY <1>1, ApplyAdds DEF RecalcApply
  <2>. QED BY <1>1, <2>1, BadVerdict DEF RecalcApply, Recalculable, Cause
<1>2. ASSUME NEW t \in Terminal, FirstCheck(t) PROVE Cause(p)
  <2>1. PICK group \in SUBSET {u \in known : u.mac = t.mac /\ term[u].comp = "unknown"} :
          LET verdicts == {Verdict(u) : u \in group \cup {t}}
              d == IF "non_compliant" \in verdicts THEN "non_compliant"
                   ELSE IF "compliant" \in verdicts THEN "compliant" ELSE "bypass"
          IN Apply(t, d)
    BY <1>2 DEF FirstCheck
  <2>2. group \subseteq {t}  BY DEF TypeOK
  <2>3. {Verdict(u) : u \in group \cup {t}} = {Verdict(t)}  BY <2>2
  <2>4. PICK d : Apply(t, d) /\ (d = "non_compliant" => Verdict(t) = "non_compliant")
    BY <2>1, <2>3
  <2>5. Verdict(t) = "non_compliant" /\ p[1] = t.ip  BY <2>4, ApplyAdds
  <2>. QED BY <1>2, <2>5, BadVerdict DEF FirstCheck, Cause
<1>3. ASSUME NEW t \in Terminal, AutoBlock(t) \/ RetryBlock(t) PROVE Cause(p)
  <2>1. /\ Block({t.ip} \X bound) /\ t \in known /\ ~Whitelisted(t)
        /\ term[t].comp = "non_compliant"
    BY <1>3, Zenon DEF AutoBlock, RetryBlock, Blockable
  <2>2. p[1] = t.ip
    <3>1. p \in {t.ip} \X bound  BY <2>1, BlockAdds
    <3>. QED BY <3>1
  <2>. QED BY <2>1, <2>2 DEF Cause
<1>4. ASSUME NEW t \in Terminal, CrashAfterBlock(t) PROVE Cause(p)
  <2>1. PICK F : Block({t.ip} \X F)  BY <1>4 DEF CrashAfterBlock
  <2>2. p[1] = t.ip
    <3>1. p \in {t.ip} \X F  BY <2>1, BlockAdds
    <3>. QED BY <3>1
  <2>. QED BY <1>4, <2>2 DEF CrashAfterBlock, Blockable, Recalculable, Cause
<1>5. ASSUME NEW i \in Ip, NEW f \in Firewall, ReconcileReblock(i, f) PROVE Cause(p)
  <2>1. Recorded(<<i, f>>) /\ Block({<<i, f>>})  BY <1>5 DEF ReconcileReblock
  <2>2. p = <<i, f>>  BY <2>1, BlockAdds
  <2>. QED BY <2>1, <2>2 DEF Cause
<1>6. ASSUME NEW i \in Ip, NEW f \in Firewall,
             ForeignBlock(i, f) \/ ForeignRemove(i, f)
      PROVE  FALSE
  BY <1>6 DEF ForeignBlock, ForeignRemove, Added, TypeOK
<1>7. CASE Task
  <2>1. ASSUME NEW m, NEW i,
               \/ AutoUnblock(m, i) \/ AutoUnblockPartly(m, i)
               \/ CleanupElsewhereActive(m, i) \/ CleanupUnblock(m, i)
        PROVE  FALSE
    <3>1. \/ \E P : Unblock(P)
          \/ UNCHANGED entry
      BY <2>1 DEF AutoUnblock, AutoUnblockPartly, CleanupElsewhereActive, CleanupUnblock
    <3>. QED BY <3>1, <1>0
  <2>. QED BY <1>0, <1>1, <1>2, <1>3, <1>5, <1>7, <2>1
           DEF Task, RecalcKeep, HealWhitelisted, MarkNoFirewall, Repair, SeenAgain,
               ReconcileCreate, ReconcileSkip
<1>8. CASE Disturbance
  <2>1. ASSUME NEW x, AddWhitelist(x) PROVE FALSE
    <3>1. PICK P : Unblock(P)  BY <2>1 DEF AddWhitelist
    <3>. QED BY <3>1, <1>0
  <2>2. ASSUME NEW f, Unbind(f) PROVE FALSE
    <3>1. PICK P : Unblock(P)  BY <2>2 DEF Unbind
    <3>. QED BY <3>1, <1>0
  <2>. QED BY <1>0, <1>4, <1>6, <1>8, <2>1, <2>2
           DEF Disturbance, DeleteWhitelist, Discover, MarkOffline, BaselineChange,
               CrashAfterUnblock, RetryUnblock, Expire, FirewallDown, Bind
<1>9. CASE UNCHANGED entry  BY <1>0, <1>9
<1>. QED BY <1>7, <1>8, <1>9 DEF Next, FirewallUp, CooldownEnds, vars

\* Where no MAC is seen on two IPs, TAM never adds a firewall entry for an IP
\* without a cause: a row that asks for it, or a terminal there that is bad and
\* not whitelisted.  (With a MAC on two IPs the first check breaks this.)
THEOREM BlocksHaveCauses ==
    ASSUME \A t, u \in Terminal : t.mac = u.mac => t = u
    PROVE  Spec => BlockHasCause
<1>1. TypeOK /\ [Next]_vars =>
        [\A p \in Pairs : entry[p] = "none" /\ entry'[p] = "tam" =>
           \/ Recorded(p)
           \/ \E t \in known : /\ t.ip = p[1] /\ ~Whitelisted(t)
                                /\ "non_compliant" \in {term[t].comp, Verdict(t)}]_vars
  BY NextCause DEF Added, Cause
<1>. QED BY <1>1, TypeCorrect, PTL DEF Spec, BlockHasCause

-----------------------------------------------------------------------------
(* A first verdict is the terminal's own.                                    *)

Listed(u) == \E f \in Firewall : entry[<<u.ip, f>>] # "none" \/ Recorded(<<u.ip, f>>)
Own(u) == term[u].comp = "unknown" /\ term'[u].comp # "unknown"
          => term'[u].comp = Verdict(u)' \/ Listed(u)

\* The verdict applied is the one written, or nothing is, and to this terminal
\* alone.
LEMMA ApplyJudges ==
    ASSUME TypeOK, NEW t \in Terminal, NEW d, Apply(t, d)
    PROVE  /\ \A u \in Terminal : u # t => term'[u] = term[u]
           /\ term'[t].comp \in {term[t].comp, d}
<1>0. term \in [Terminal -> FieldsOfTerminal] /\ term[t] \in FieldsOfTerminal
  BY DEF TypeOK
<1>1. CASE ApplyRelease(t, d)
  <2>1. PICK good \in BOOLEAN :
          term' = [term EXCEPT ![t] =
            [IF good THEN Released(term[t]) ELSE term[t] EXCEPT !.comp = d]]
    BY <1>1 DEF ApplyRelease
  <2> DEFINE r == IF good THEN Released(term[t]) ELSE term[t]
  <2>2. r \in FieldsOfTerminal  BY <1>0, ReleasedType
  <2>3. [r EXCEPT !.comp = d].comp = d  BY <2>2 DEF FieldsOfTerminal
  <2>. QED BY <1>0, <2>1, <2>3
<1>2. CASE ApplyClear(t, d)
  BY <1>0, <1>2 DEF ApplyClear, FieldsOfTerminal
<1>3. CASE d = "non_compliant" /\ ApplyNoFirewall(t)
  BY <1>0, <1>3 DEF ApplyNoFirewall
<1>4. CASE d = "non_compliant" /\ ApplyAlreadyListed(t)
  BY <1>0, <1>4 DEF ApplyAlreadyListed, FieldsOfTerminal
<1>5. CASE d = "non_compliant" /\ ApplyBlock(t)
  <2>1. PICK done :
          \/ term' = [term EXCEPT ![t].bstate = "none",
                ![t].fwTag = IF term[t].status = "blocked" THEN @ ELSE {}]
          \/ term' = [term EXCEPT ![t] =
                [comp |-> "non_compliant", status |-> "blocked",
                 fwTag |-> Active(t) \cup done, bstate |-> "none"]]
    BY <1>5 DEF ApplyBlock
  <2>. QED BY <1>0, <1>5, <2>1 DEF FieldsOfTerminal
<1>. QED BY <1>1, <1>2, <1>3, <1>4, <1>5 DEF Apply

\* A step that leaves the status of u as it is, or forgets it.
LEMMA NotJudged ==
    ASSUME NEW u, term'[u].comp \in {term[u].comp, "unknown"}
    PROVE  Own(u)
BY DEF Own

LEMMA TaskOwn ==
    ASSUME \A t, u \in Terminal : t.mac = u.mac => t = u,
           TypeOK, Task, NEW u \in known
    PROVE  Own(u)
<1>0. term \in [Terminal -> FieldsOfTerminal] /\ u \in Terminal /\ term[u] \in FieldsOfTerminal
  BY DEF TypeOK
<1>1. ASSUME NEW t \in Terminal, RecalcApply(t) PROVE Own(u)
  <2>1. Verdict(u)' = Verdict(u)  BY <1>1 DEF RecalcApply, facts, Verdict, Whitelisted
  <2>. QED BY <1>0, <1>1, <2>1, ApplyJudges DEF RecalcApply, Own
<1>2. ASSUME NEW t \in Terminal, FirstCheck(t) PROVE Own(u)
  <2>0. Verdict(u)' = Verdict(u)  BY <1>2 DEF FirstCheck, facts, Verdict, Whitelisted
  <2>1. PICK group \in SUBSET {w \in known : w.mac = t.mac /\ term[w].comp = "unknown"} :
          LET verdicts == {Verdict(w) : w \in group \cup {t}}
              d == IF "non_compliant" \in verdicts THEN "non_compliant"
                   ELSE IF "compliant" \in verdicts THEN "compliant" ELSE "bypass"
          IN Apply(t, d)
    BY <1>2 DEF FirstCheck
  <2>2. group \subseteq {t}  BY DEF TypeOK
  <2>3. {Verdict(w) : w \in group \cup {t}} = {Verdict(t)}  BY <2>2
  <2>4. Apply(t, Verdict(t))  BY <2>1, <2>3, VerdictType
  <2>. QED BY <1>0, <2>0, <2>4, ApplyJudges DEF Own
<1>3. ASSUME NEW t \in Terminal,
             \/ RecalcKeep(t) \/ HealWhitelisted(t) \/ MarkNoFirewall(t)
             \/ AutoBlock(t) \/ RetryBlock(t) \/ Repair(t) \/ SeenAgain(t)
      PROVE  Own(u)
  <2>1. CASE HealWhitelisted(t)
    BY <1>0, <2>1 DEF HealWhitelisted, Blockable, Own
  <2>2. CASE \/ RecalcKeep(t) \/ MarkNoFirewall(t) \/ AutoBlock(t) \/ RetryBlock(t)
             \/ Repair(t) \/ SeenAgain(t)
    <3>1. term'[u].comp = term[u].comp
      BY <1>0, <2>2 DEF RecalcKeep, MarkNoFirewall, AutoBlock, RetryBlock, Repair, SeenAgain,
                        FieldsOfTerminal
    <3>. QED BY <3>1, NotJudged
  <2>. QED BY <1>3, <2>1, <2>2
<1>4. ASSUME NEW m, NEW i, AutoUnblock(m, i) PROVE Own(u)
  <2>1. /\ term' = [t \in Terminal |-> IF t \in Owners(m, i)
                      THEN [term[t] EXCEPT !.status = "unblocked", !.fwTag = {},
                                           !.comp = Verdict(t)]
                      ELSE term[t]]
        /\ UNCHANGED facts
    BY <1>4, Zenon DEF AutoUnblock
  <2>2. Verdict(u)' = Verdict(u)  BY <2>1 DEF facts, Verdict, Whitelisted
  <2>3. term'[u].comp \in {term[u].comp, Verdict(u)}
    BY <1>0, <2>1 DEF FieldsOfTerminal
  <2>. QED BY <2>2, <2>3 DEF Own
<1>5. ASSUME NEW m, NEW i,
             AutoUnblockPartly(m, i) \/ CleanupElsewhereActive(m, i) \/ CleanupUnblock(m, i)
      PROVE  Own(u)
  <2>1. CASE CleanupUnblock(m, i)
    <3>1. PICK freed : term' = [t \in Terminal |->
            IF t \in freed THEN [Released(term[t]) EXCEPT !.comp = "unknown"] ELSE term[t]]
      BY <2>1, Zenon DEF CleanupUnblock
    <3>2. Released(term[u]) \in FieldsOfTerminal  BY <1>0, ReleasedType
    <3>3. term'[u].comp \in {term[u].comp, "unknown"}
      BY <1>0, <3>1, <3>2 DEF FieldsOfTerminal
    <3>. QED BY <3>3, NotJudged
  <2>2. CASE UNCHANGED term  BY <2>2, NotJudged
  <2>. QED BY <1>5, <2>1, <2>2 DEF AutoUnblockPartly, CleanupElsewhereActive
<1>6. ASSUME NEW i \in Ip, NEW f \in Firewall,
             \/ ReconcileCreate(i, f) \/ ReconcileSkip(i, f) \/ ReconcileReblock(i, f)
      PROVE  Own(u)
  <2>1. entry[<<i, f>>] # "none" \/ Recorded(<<i, f>>)
    BY <1>6 DEF ReconcileCreate, ReconcileSkip, ReconcileReblock
  <2>2. \A t \in OnIp(i) : t \in Terminal /\ t.ip = i  BY DEF OnIp, TypeOK
  <2>3. \A m : \A t \in Owners(m, i) : t \in Terminal /\ t.ip = i  BY DEF Owners, TypeOK
  <2>4. ASSUME NEW t \in Terminal, t.ip = i, t = u PROVE Own(u)
    BY <2>1, <2>4 DEF Own, Listed
  <2>5. ASSUME NEW t \in Terminal, t # u, \A w \in Terminal \ {t} : term'[w] = term[w]
        PROVE  Own(u)
    <3>1. term'[u] = term[u]  BY <1>0, <2>5
    <3>. QED BY <3>1, NotJudged
  <2>6. \/ UNCHANGED term
        \/ \E t \in Terminal : t.ip = i /\ \A w \in Terminal \ {t} : term'[w] = term[w]
    <3>1. CASE ReconcileCreate(i, f)
      <4>1. CASE \E t \in OnIp(i) : term' = [term EXCEPT ![t].status = "blocked",
                   ![t].comp = IF @ = "unknown" THEN "non_compliant" ELSE @]
        <5>1. PICK t \in OnIp(i) : term' = [term EXCEPT ![t].status = "blocked",
                   ![t].comp = IF @ = "unknown" THEN "non_compliant" ELSE @]
          BY <4>1
        <5>2. \A w \in Terminal \ {t} : term'[w] = term[w]  BY <1>0, <2>2, <5>1
        <5>. QED BY <2>2, <5>2
      <4>. QED BY <3>1, <4>1, Zenon DEF ReconcileCreate
    <3>2. CASE ReconcileSkip(i, f)
      <4>1. PICK t \in OnIp(i) : term' = [term EXCEPT ![t].status = "blocked",
                 ![t].comp = IF @ # "unknown" THEN @
                             ELSE IF Whitelisted(t) THEN "bypass" ELSE "non_compliant"]
        BY <3>2 DEF ReconcileSkip
      <4>2. \A w \in Terminal \ {t} : term'[w] = term[w]  BY <1>0, <2>2, <4>1
      <4>. QED BY <2>2, <4>2
    <3>3. CASE ReconcileReblock(i, f)
      <4>1. \/ UNCHANGED term
            \/ \E t \in Owners(row[<<i, f>>], i) :
                 \A w \in Terminal \ {t} : term'[w] = term[w]
        BY <1>0, <3>3 DEF ReconcileReblock
      <4>. QED BY <2>3, <4>1
    <3>. QED BY <1>6, <3>1, <3>2, <3>3
  <2>7. CASE UNCHANGED term  BY <2>7, NotJudged
  <2>. QED BY <2>4, <2>5, <2>6, <2>7
<1>. QED BY <1>1, <1>2, <1>3, <1>4, <1>5, <1>6 DEF Task

LEMMA DisturbanceOwn ==
    ASSUME TypeOK, Disturbance, NEW u \in known
    PROVE  Own(u)
<1>0. term \in [Terminal -> FieldsOfTerminal] /\ u \in Terminal /\ term[u] \in FieldsOfTerminal
  BY DEF TypeOK
<1>1. ASSUME NEW x, AddWhitelist(x) PROVE Own(u)
  <2> DEFINE matched == {t \in known : t.mac = x \/ t.ip = x}
  <2>1. PICK rep : /\ wl' = wl \cup {x}
                   /\ term' = [t \in Terminal |->
                        IF t \notin matched THEN term[t]
                        ELSE IF term[t].status = "blocked" /\ Active(t) \cap rep # {}
                        THEN [term[t] EXCEPT !.comp = "bypass", !.status = "unblocked",
                                             !.fwTag = {}]
                        ELSE [term[t] EXCEPT !.comp = "bypass"]]
    BY <1>1, Zenon DEF AddWhitelist
  <2>2. CASE u \notin matched
    <3>1. term'[u] = term[u]  BY <1>0, <2>1, <2>2
    <3>. QED BY <3>1, NotJudged
  <2>3. CASE u \in matched
    <3>1. Verdict(u)' = "bypass"  BY <2>1, <2>3 DEF Verdict, Whitelisted
    <3>2. term'[u].comp = "bypass"  BY <1>0, <2>1, <2>3 DEF FieldsOfTerminal
    <3>. QED BY <3>1, <3>2 DEF Own
  <2>. QED BY <2>2, <2>3
<1>2. ASSUME NEW x, DeleteWhitelist(x) PROVE Own(u)
  <2>1. term'[u].comp \in {term[u].comp, "unknown"}
    BY <1>0, <1>2 DEF DeleteWhitelist, FieldsOfTerminal
  <2>. QED BY <2>1, NotJudged
<1>3. ASSUME NEW i, NEW f, RetryUnblock(i, f) PROVE Own(u)
  <2>1. PICK w \in Terminal, b \in BOOLEAN :
          term' = [term EXCEPT ![w] = IF b THEN Released(@) ELSE @]
    BY <1>3 DEF RetryUnblock, Owners, TypeOK
  <2>2. Released(term[u]).comp = term[u].comp  BY <1>0 DEF Released, FieldsOfTerminal
  <2>3. term'[u].comp = term[u].comp  BY <1>0, <2>1, <2>2
  <2>. QED BY <2>3, NotJudged
<1>4. ASSUME NEW f, Unbind(f) PROVE Own(u)
  <2>1. PICK reset, untag : term' = Unbound(f, reset, untag)
    BY <1>4, UnbindTerm
  <2>2. term'[u].comp \in {term[u].comp, "unknown"}
    BY <1>0, <2>1 DEF Unbound, FieldsOfTerminal
  <2>. QED BY <2>2, NotJudged
<1>5. ASSUME NEW t, MarkOffline(t) PROVE Own(u)
  <2>1. term'[u].comp = term[u].comp  BY <1>0, <1>5 DEF MarkOffline, FieldsOfTerminal
  <2>. QED BY <2>1, NotJudged
<1>6. CASE UNCHANGED term  BY <1>6, NotJudged
<1>. QED BY <1>1, <1>2, <1>3, <1>4, <1>5, <1>6
         DEF Disturbance, Discover, CrashAfterBlock, BaselineChange, CrashAfterUnblock,
             ForeignBlock, ForeignRemove, Expire, FirewallDown, Bind, data

\* Where no MAC is seen on two IPs, the first verdict on a terminal, whichever of
\* the passes and requests reaches it, is by its own whitelist entry and its own
\* baseline, or is taken from a block of its IP.  (The compliance check looks
\* results up by MAC: with a MAC on two IPs it may be the sibling's.)
THEOREM FirstVerdictsAreOwn ==
    ASSUME \A t, u \in Terminal : t.mac = u.mac => t = u
    PROVE  Spec => FirstVerdictIsOwn
<1>1. ASSUME TypeOK, [Next]_vars, NEW u \in known PROVE Own(u)
  <2>1. CASE UNCHANGED term  BY <2>1, NotJudged
  <2>. QED BY <1>1, <2>1, TaskOwn, DisturbanceOwn
           DEF Next, FirewallUp, CooldownEnds, vars, data
<1>2. TypeOK /\ [Next]_vars =>
        [\A t \in known : term[t].comp = "unknown" /\ term'[t].comp # "unknown" =>
           \/ term'[t].comp = Verdict(t)'
           \/ \E f \in Firewall : entry[<<t.ip, f>>] # "none" \/ Recorded(<<t.ip, f>>)]_vars
  BY <1>1 DEF Own, Listed
<1>. QED BY <1>2, TypeCorrect, PTL DEF Spec, FirstVerdictIsOwn

-----------------------------------------------------------------------------
(* The ledger of entries and rows.                                           *)

\* A row that has run out is a row.
LapsedHaveRows == lapsed \subseteq WithRow

LEMMA AttachRows ==
    ASSUME TypeOK, NEW t \in Terminal, NEW F \in SUBSET Firewall, Attach(t, F)
    PROVE  /\ WithRow' = WithRow \cup ({t.ip} \X F)
           /\ lapsed' = lapsed \ ({t.ip} \X F)
<1>1. t.mac # NoRow /\ t.ip \in Ip  BY TerminalAssumption, NullAssumption
<1>. QED BY <1>1 DEF Attach, WithRow, Pairs

LEMMA ClosedRows ==
    ASSUME NEW P, CloseRows(P)
    PROVE  WithRow' = WithRow \ P /\ lapsed' = lapsed \ P
BY DEF CloseRows, WithRow

LEMMA BlockEntries ==
    ASSUME NEW P, Block(P)
    PROVE  /\ Entries("tam")' = Entries("tam") \cup
                {p \in P \cap Pairs : p[2] \in up /\ entry[p] = "none"}
           /\ Entries("foreign")' = Entries("foreign")
BY DEF Block, Entries

LEMMA UnblockEntries ==
    ASSUME NEW P, Unblock(P)
    PROVE  /\ Entries("tam")' = Entries("tam") \ {p \in P : p[2] \in up}
           /\ Entries("foreign")' = Entries("foreign")
BY DEF Unblock, Entries

\* What blocks the IP i on the firewalls F and leaves the rows R enters them.
LEMMA Enters ==
    ASSUME TypeOK, NEW i \in Ip, NEW F \in SUBSET Firewall, NEW R \in SUBSET ({i} \X Firewall),
           Block({i} \X F),
           \A p \in {i} \X (F \cap up) : p \in R \/ p \in WithRow \/ entry[p] # "none",
           WithRow' = WithRow \cup R, lapsed' = lapsed \ R, UNCHANGED facts
    PROVE  Book!LedgerNext
<1> DEFINE B == {p \in ({i} \X F) \cap Pairs : p[2] \in up /\ entry[p] = "none"}
<1>1. Entries("tam")' = Entries("tam") \cup B /\ Entries("foreign")' = Entries("foreign")
  BY BlockEntries
<1>2. B \subseteq (Book!Of(i) \cap Book!Answering) \ (Entries("tam") \cup Entries("foreign"))
  BY DEF Book!Of, Book!Answering, Book!Places, Entries, Pairs
<1>3. B \subseteq WithRow \cup R
  OBVIOUS
<1>4. Book!Enforce(i, B, R)
  BY <1>1, <1>2, <1>3 DEF Book!Enforce, Book!Add, Book!Of, facts
<1>5. B \in SUBSET Book!Places /\ R \in SUBSET Book!Places
  BY DEF Book!Places, Pairs
<1>. QED BY <1>4, <1>5 DEF Book!LedgerNext

\* What blocks the IP i on the firewalls F and leaves the rows loses them, for
\* a reason.
LEMMA Loses ==
    ASSUME TypeOK, NEW i \in Ip, NEW F \in SUBSET Firewall, Block({i} \X F),
           UNCHANGED <<row, lapsed, up>>,
           disturbed' = disturbed + 1 \/ (disturbed' = disturbed /\ up # Firewall)
    PROVE  Book!LedgerNext
<1> DEFINE B == {p \in ({i} \X F) \cap Pairs : p[2] \in up /\ entry[p] = "none"}
<1>1. Entries("tam")' = Entries("tam") \cup B /\ Entries("foreign")' = Entries("foreign")
  BY BlockEntries
<1>2. B \subseteq (Book!Of(i) \cap Book!Answering) \ (Entries("tam") \cup Entries("foreign"))
  BY DEF Book!Of, Book!Answering, Book!Places, Entries, Pairs
<1>3. WithRow' = WithRow  BY DEF WithRow
<1>4. Book!Lose(i, B)
  BY <1>1, <1>2, <1>3 DEF Book!Lose, Book!Add
<1>5. B \in SUBSET Book!Places
  BY DEF Book!Places, Pairs
<1>. QED BY <1>4, <1>5 DEF Book!LedgerNext

\* What unblocks P and closes the rows Q of it releases them.
LEMMA Releases ==
    ASSUME TypeOK, NEW P, NEW Q \in SUBSET (P \cap WithRow), Unblock(P),
           WithRow' = WithRow \ Q, lapsed' \subseteq lapsed \ Q, up' = up,
           disturbed' \in {disturbed, disturbed + 1}
    PROVE  Book!LedgerNext
<1> DEFINE U == {p \in P \cap Entries("tam") : p[2] \in up}
<1>1. Entries("tam")' = Entries("tam") \ U /\ Entries("foreign")' = Entries("foreign")
  BY UnblockEntries
<1>2. U \subseteq Entries("tam") \cap Book!Answering
  BY DEF Book!Answering, Book!Places, Entries, Pairs
<1>3. Q \cap Book!Answering \cap Entries("tam") \subseteq U
  BY DEF Book!Answering
<1>4. Book!Release(U, Q)
  BY <1>1, <1>2, <1>3 DEF Book!Release
<1>5. U \in SUBSET Book!Places /\ Q \in SUBSET Book!Places
  BY DEF Book!Places, Entries, WithRow, Pairs
<1>. QED BY <1>4, <1>5 DEF Book!LedgerNext

\* What closes the rows Q of what it unblocks, and no other.
LEMMA ReleasesClosed ==
    ASSUME TypeOK, NEW P, NEW Q \in SUBSET (P \cap WithRow), Unblock(P), CloseRows(Q),
           up' = up, disturbed' \in {disturbed, disturbed + 1}
    PROVE  Book!LedgerNext
BY ClosedRows, Releases

\* Neither entries nor rows move.
LEMMA Idles ==
    ASSUME UNCHANGED <<entry, row, lapsed, up>>, disturbed' \in {disturbed, disturbed + 1}
    PROVE  Book!LedgerNext \/ UNCHANGED Book!ledgerVars
<1>1. UNCHANGED <<Entries("tam"), Entries("foreign"), WithRow>>
  BY DEF Entries, WithRow
<1>2. CASE disturbed' = disturbed
  BY <1>1, <1>2 DEF Book!ledgerVars
<1>3. CASE disturbed' = disturbed + 1
  BY <1>1, <1>3 DEF Book!LedgerNext, Book!Elsewhere
<1>. QED BY <1>2, <1>3

LEMMA ActiveRows ==
    ASSUME TypeOK, NEW t \in Terminal, NEW F
    PROVE  {t.ip} \X (Active(t) \cap F) \subseteq WithRow
<1>1. t.mac # NoRow /\ t.ip \in Ip  BY TerminalAssumption, NullAssumption
<1>. QED BY <1>1 DEF Active, WithRow, Pairs

LEMMA GroupRows ==
    ASSUME TypeOK, NEW m \in Mac \cup {NoMac}, NEW i \in Ip, NEW F
    PROVE  {i} \X (Rows(m, i) \cap F) \subseteq WithRow
<1>1. m # NoRow  BY NullAssumption
<1>. QED BY <1>1 DEF Rows, WithRow, Pairs

LEMMA ApplyBooks ==
    ASSUME TypeOK, NEW t \in Terminal, NEW d, Apply(t, d), UNCHANGED facts
    PROVE  Book!LedgerNext \/ UNCHANGED Book!ledgerVars
<1>0. t.ip \in Ip  BY TerminalAssumption
<1>1. CASE ApplyRelease(t, d)
  <2>1. PICK rep \in Reports :
          /\ Unblock({t.ip} \X (bound \cup Active(t)))
          /\ CloseRows({t.ip} \X (Active(t) \cap rep))
    BY <1>1 DEF ApplyRelease
  <2>2. {t.ip} \X (Active(t) \cap rep) \subseteq ({t.ip} \X (bound \cup Active(t))) \cap WithRow
    BY ActiveRows
  <2>. QED BY <2>1, <2>2, ReleasesClosed DEF facts
<1>2. CASE UNCHANGED <<row, lapsed, entry>>  BY <1>2, Idles DEF facts
<1>3. CASE ApplyBlock(t)
  <2> DEFINE missing == bound \ Active(t)
             tagged == IF term[t].status = "blocked" THEN missing \cap term[t].fwTag ELSE {}
             done == tagged \cup (missing \cap up)
  <2>1. /\ Block({t.ip} \X (missing \ tagged))
        /\ Attach(t, done) \/ (done = {} /\ UNCHANGED <<row, lapsed>>)
    BY <1>3, Zenon DEF ApplyBlock
  <2>2. /\ missing \ tagged \in SUBSET Firewall /\ done \in SUBSET Firewall
        /\ (missing \ tagged) \cap up \subseteq done
    BY DEF TypeOK
  <2> HIDE DEF missing, tagged, done
  <2>3. WithRow' = WithRow \cup ({t.ip} \X done) /\ lapsed' = lapsed \ ({t.ip} \X done)
    <3>1. CASE Attach(t, done)  BY <2>2, <3>1, AttachRows
    <3>2. CASE done = {} /\ UNCHANGED <<row, lapsed>>  BY <3>2 DEF WithRow
    <3>. QED BY <2>1, <3>1, <3>2
  <2>. QED BY <1>0, <2>1, <2>2, <2>3, Enters
<1>. QED BY <1>1, <1>2, <1>3
         DEF Apply, ApplyClear, ApplyNoFirewall, ApplyAlreadyListed

LEMMA BlocksBook ==
    ASSUME TypeOK, NEW t \in Terminal, AutoBlock(t) \/ RetryBlock(t)
    PROVE  Book!LedgerNext
<1>0. t.ip \in Ip /\ bound \in SUBSET Firewall
  BY TerminalAssumption DEF TypeOK
<1>1. Block({t.ip} \X bound) /\ UNCHANGED facts
  BY DEF AutoBlock, RetryBlock
<1>2. CASE Attach(t, bound)
  <2>1. WithRow' = WithRow \cup ({t.ip} \X bound) /\ lapsed' = lapsed \ ({t.ip} \X bound)
    BY <1>0, <1>2, AttachRows
  <2>. QED BY <1>0, <1>1, <2>1, Enters
<1>3. CASE Attach(t, bound \cap up)
  <2>1. /\ WithRow' = WithRow \cup ({t.ip} \X (bound \cap up))
        /\ lapsed' = lapsed \ ({t.ip} \X (bound \cap up))
    BY <1>0, <1>3, AttachRows
  <2>. QED BY <1>0, <1>1, <2>1, Enters
<1>4. CASE UNCHANGED <<row, lapsed>> /\ ~(bound \subseteq up)
  <2>1. up # Firewall  BY <1>0, <1>4
  <2>. QED BY <1>0, <1>1, <1>4, <2>1, Loses DEF facts
<1>5. bound # {} /\ bound \cap up = {} => ~(bound \subseteq up)
  OBVIOUS
<1>. QED BY <1>2, <1>3, <1>4, <1>5 DEF AutoBlock, RetryBlock

LEMMA UnblocksBook ==
    ASSUME TypeOK, NEW m \in Mac \cup {NoMac}, NEW i \in Ip,
           \/ AutoUnblock(m, i) \/ AutoUnblockPartly(m, i)
           \/ CleanupElsewhereActive(m, i) \/ CleanupUnblock(m, i)
    PROVE  Book!LedgerNext
<1>1. CASE AutoUnblock(m, i)
  <2>1. /\ Unblock({i} \X (Rows(m, i) \cup Ended(m, i))) /\ CloseRows({i} \X Rows(m, i))
        /\ UNCHANGED facts
    BY <1>1 DEF AutoUnblock
  <2>2. {i} \X Rows(m, i) \subseteq ({i} \X (Rows(m, i) \cup Ended(m, i))) \cap WithRow
    <3>1. {i} \X (Rows(m, i) \cap Rows(m, i)) \subseteq WithRow  BY GroupRows
    <3>. QED BY <3>1
  <2>. QED BY <2>1, <2>2, ReleasesClosed DEF facts
<1>2. CASE AutoUnblockPartly(m, i)
  <2>1. PICK rep :
          /\ Unblock({i} \X (Rows(m, i) \cup Ended(m, i))) /\ UNCHANGED facts
          /\ CloseRows({i} \X (Rows(m, i) \cap rep)) \/ UNCHANGED <<row, lapsed>>
    BY <1>2 DEF AutoUnblockPartly
  <2>2. CASE CloseRows({i} \X (Rows(m, i) \cap rep))
    <3>1. {i} \X (Rows(m, i) \cap rep)
            \subseteq ({i} \X (Rows(m, i) \cup Ended(m, i))) \cap WithRow
      BY GroupRows
    <3>. QED BY <2>1, <2>2, <3>1, ReleasesClosed DEF facts
  <2>3. CASE UNCHANGED <<row, lapsed>>
    <3>1. WithRow' = WithRow \ {} /\ lapsed' \subseteq lapsed \ {}
      BY <2>3 DEF WithRow
    <3>. QED BY <2>1, <3>1, Releases DEF facts
  <2>. QED BY <2>1, <2>2, <2>3
<1>3. CASE CleanupElsewhereActive(m, i)
  <2> DEFINE expired == {i} \X ExpiredRows(m, i)
  <2>1. CloseRows(expired) /\ UNCHANGED <<entry, facts>> /\ Rows(m, i) # ExpiredRows(m, i)
    BY <1>3 DEF CleanupElsewhereActive
  <2>2. PICK f \in Rows(m, i) : <<i, f>> \notin lapsed
    BY <2>1 DEF ExpiredRows
  <2>3. <<i, f>> \in (WithRow \cap Book!Of(i)) \ lapsed
    <3>1. {i} \X (Rows(m, i) \cap {f}) \subseteq WithRow  BY GroupRows
    <3>. QED BY <2>2, <3>1 DEF Book!Of, Rows
  <2>4. expired \subseteq lapsed \cap Book!Of(i)
    BY DEF ExpiredRows, Rows, Book!Of
  <2>5. WithRow' = WithRow \ expired /\ lapsed' = lapsed \ expired
    BY <2>1, ClosedRows
  <2>6. UNCHANGED <<Entries("tam"), Entries("foreign"), up, disturbed>>
    BY <2>1 DEF Entries, facts
  <2>7. Book!Lapse(i, expired)
    <3> HIDE DEF expired
    <3>. QED BY <2>3, <2>4, <2>5, <2>6 DEF Book!Lapse
  <2>8. expired \in SUBSET Book!Places
    BY DEF Book!Places, ExpiredRows, Rows
  <2>. QED BY <2>7, <2>8 DEF Book!LedgerNext
<1>4. CASE CleanupUnblock(m, i)
  <2>1. PICK rep :
          LET done == {i} \X (ExpiredRows(m, i) \cap rep)
          IN /\ Unblock({i} \X (ExpiredRows(m, i) \cup Ended(m, i)))
             /\ row' = [p \in Pairs |-> IF p \in done THEN NoRow ELSE row[p]]
             /\ lapsed' = lapsed \ ({i} \X ExpiredRows(m, i))
             /\ UNCHANGED facts
    BY <1>4 DEF CleanupUnblock
  <2> DEFINE done == {i} \X (ExpiredRows(m, i) \cap rep)
             asked == {i} \X (ExpiredRows(m, i) \cup Ended(m, i))
  <2>2. WithRow' = WithRow \ done
    BY <2>1 DEF WithRow
  <2>3. lapsed' \subseteq lapsed \ done
    BY <2>1
  <2>4. done \subseteq asked \cap WithRow
    <3>1. {i} \X (Rows(m, i) \cap ExpiredRows(m, i)) \subseteq WithRow  BY GroupRows
    <3>. QED BY <3>1 DEF ExpiredRows
  <2>5. Unblock(asked) /\ UNCHANGED facts  BY <2>1
  <2>. QED
    <3> HIDE DEF done, asked
    <3>. QED BY <2>2, <2>3, <2>4, <2>5, Releases DEF facts
<1>. QED BY <1>1, <1>2, <1>3, <1>4

LEMMA TaskBooks ==
    ASSUME TypeOK, LapsedHaveRows, Task
    PROVE  Book!LedgerNext \/ UNCHANGED Book!ledgerVars
<1>0. CASE UNCHANGED <<entry, row, lapsed, facts>>  BY <1>0, Idles DEF facts
<1>1. ASSUME NEW t \in Terminal, RecalcApply(t) \/ FirstCheck(t)
      PROVE  Book!LedgerNext \/ UNCHANGED Book!ledgerVars
  BY <1>1, ApplyBooks DEF RecalcApply, FirstCheck
<1>2. ASSUME NEW t \in Terminal,
             \/ RecalcKeep(t) \/ HealWhitelisted(t) \/ MarkNoFirewall(t)
             \/ Repair(t) \/ SeenAgain(t)
      PROVE  UNCHANGED <<entry, row, lapsed, facts>>
  BY <1>2 DEF RecalcKeep, HealWhitelisted, MarkNoFirewall, Repair, SeenAgain
<1>3. ASSUME NEW i \in Ip, NEW f \in Firewall, ReconcileCreate(i, f)
      PROVE  Book!LedgerNext
  <2>1. /\ \E m \in Mac \cup {NoMac} : row' = [row EXCEPT ![<<i, f>>] = m]
        /\ row[<<i, f>>] = NoRow /\ lapsed' = lapsed /\ UNCHANGED <<entry, facts>>
    BY <1>3, TerminalAssumption DEF ReconcileCreate, OnIp, TypeOK
  <2>2. WithRow' = WithRow \cup {<<i, f>>}
    BY <2>1, NullAssumption DEF WithRow, TypeOK, Pairs
  <2>3. lapsed' = lapsed \ {<<i, f>>}
    BY <2>1 DEF LapsedHaveRows, WithRow
  <2>4. Block({i} \X {})
    BY <2>1 DEF Block, TypeOK
  <2>5. {<<i, f>>} \in SUBSET ({i} \X Firewall)
    OBVIOUS
  <2>. QED BY <2>1, <2>2, <2>3, <2>4, <2>5, Enters
<1>4. ASSUME NEW i \in Ip, NEW f \in Firewall, ReconcileReblock(i, f)
      PROVE  Book!LedgerNext
  <2>1. Block({<<i, f>>}) /\ UNCHANGED <<row, lapsed, facts>> /\ row[<<i, f>>] # NoRow
    BY <1>4 DEF ReconcileReblock, Recorded
  <2>2. {<<i, f>>} = {i} \X {f}
    OBVIOUS
  <2>3. <<i, f>> \in WithRow
    BY <2>1 DEF WithRow, Pairs
  <2>4. WithRow' = WithRow \cup {} /\ lapsed' = lapsed \ {}
    BY <2>1 DEF WithRow
  <2>. QED BY <2>1, <2>2, <2>3, <2>4, Enters
<1>5. ASSUME NEW i \in Ip, NEW f \in Firewall, ReconcileSkip(i, f)
      PROVE  UNCHANGED <<entry, row, lapsed, facts>>
  BY <1>5 DEF ReconcileSkip
<1>. QED BY <1>0, <1>1, <1>2, <1>3, <1>4, <1>5, BlocksBook, UnblocksBook DEF Task

\* A new whitelist entry unblocks the rows of the terminals it covers, and closes
\* those of firewalls that report success.
RowsCovered(x) == {p \in Pairs : \E t \in {w \in known : w.mac = x \/ w.ip = x} :
    /\ term[t].status = "blocked"
    /\ p[1] = t.ip /\ row[p] = t.mac}
LEMMA WhitelistUnblocks ==
    ASSUME NEW x, AddWhitelist(x)
    PROVE  \E rep \in Reports :
             Unblock(RowsCovered(x)) /\ CloseRows({p \in RowsCovered(x) : p[2] \in rep})
BY Zenon DEF AddWhitelist, RowsCovered

LEMMA DisturbanceBooks ==
    ASSUME TypeOK, Disturbance, disturbed' = disturbed + 1
    PROVE  Book!LedgerNext \/ UNCHANGED Book!ledgerVars
<1>0. CASE UNCHANGED <<entry, row, lapsed, up>>  BY <1>0, Idles
<1>1. ASSUME NEW x, AddWhitelist(x) PROVE Book!LedgerNext
  <2>1. PICK rep : Unblock(RowsCovered(x)) /\ CloseRows({p \in RowsCovered(x) : p[2] \in rep})
    BY <1>1, WhitelistUnblocks
  <2>2. up' = up
    BY <1>1, Zenon DEF AddWhitelist
  <2>3. RowsCovered(x) \subseteq WithRow
    BY TerminalAssumption, NullAssumption DEF RowsCovered, WithRow, TypeOK
  <2>. QED BY <2>1, <2>2, <2>3, ReleasesClosed
<1>2. ASSUME NEW t \in Terminal, CrashAfterBlock(t) PROVE Book!LedgerNext
  <2>1. PICK F \in SUBSET bound : Block({t.ip} \X F)
    BY <1>2 DEF CrashAfterBlock
  <2>2. t.ip \in Ip /\ F \in SUBSET Firewall /\ UNCHANGED <<row, lapsed, up>>
    BY <1>2, TerminalAssumption DEF CrashAfterBlock, TypeOK, data
  <2>. QED BY <2>1, <2>2, Loses
<1>3. ASSUME NEW m, NEW i, CrashAfterUnblock(m, i) PROVE Book!LedgerNext
  <2>1. PICK P : Unblock(P) /\ UNCHANGED <<row, lapsed, up>>
    BY <1>3 DEF CrashAfterUnblock, data
  <2>2. WithRow' = WithRow \ {} /\ lapsed' \subseteq lapsed \ {}
    BY <2>1 DEF WithRow
  <2>. QED BY <2>1, <2>2, Releases
<1>4. ASSUME NEW i \in Ip, NEW f \in Firewall, ForeignBlock(i, f) \/ ForeignRemove(i, f)
      PROVE  Book!LedgerNext
  <2>1. <<i, f>> \in Pairs /\ UNCHANGED <<WithRow, lapsed, up>>
    BY <1>4 DEF Pairs, ForeignBlock, ForeignRemove, data, WithRow
  <2>2. Book!Meddle(<<i, f>>)
    <3>1. CASE ForeignBlock(i, f)
      BY <2>1, <3>1 DEF ForeignBlock, Book!Meddle, Entries, TypeOK
    <3>2. CASE ForeignRemove(i, f)
      BY <2>1, <3>2 DEF ForeignRemove, Book!Meddle, Entries, TypeOK
    <3>. QED BY <1>4, <3>1, <3>2
  <2>. QED BY <2>1, <2>2 DEF Book!LedgerNext, Book!Places, Pairs
<1>5. ASSUME NEW i \in Ip, NEW f \in Firewall, Expire(i, f) PROVE Book!LedgerNext
  <2>1. <<i, f>> \in WithRow /\ UNCHANGED <<Entries("tam"), Entries("foreign"), WithRow>>
    BY <1>5 DEF Expire, WithRow, Entries, Pairs
  <2>2. Book!RunOut(<<i, f>>)
    BY <1>5, <2>1 DEF Expire, Book!RunOut
  <2>. QED BY <2>2 DEF Book!LedgerNext, Book!Places
<1>6. ASSUME NEW i \in Ip, NEW f \in Firewall, RetryUnblock(i, f) PROVE Book!LedgerNext
  <2>1. /\ Unblock({<<i, f>>}) /\ CloseRows({<<i, f>>}) /\ up' = up
        /\ row[<<i, f>>] # NoRow
    BY <1>6 DEF RetryUnblock
  <2>2. {<<i, f>>} \subseteq {<<i, f>>} \cap WithRow
    BY <2>1 DEF WithRow, Pairs
  <2>. QED BY <2>1, <2>2, ReleasesClosed
<1>7. ASSUME NEW f \in Firewall, Unbind(f) PROVE Book!LedgerNext
  <2> DEFINE gone == {p \in Ip \X {f} : row[p] \in Mac}
  <2>1. PICK old : Unblock(gone \cup old) /\ CloseRows(gone) /\ up' = up
    BY <1>7 DEF Unbind
  <2>2. gone \subseteq (gone \cup old) \cap WithRow
    BY NullAssumption DEF WithRow, Pairs
  <2>. QED
    <3> HIDE DEF gone
    <3>. QED BY <2>1, <2>2, ReleasesClosed
<1>8. ASSUME NEW f \in Firewall, FirewallDown(f) PROVE Book!LedgerNext
  <2>1. UNCHANGED <<Entries("tam"), Entries("foreign"), WithRow, lapsed>>
    BY <1>8 DEF FirewallDown, Entries, WithRow, data
  <2>2. Book!Fail(f)  BY <1>8, <2>1 DEF FirewallDown, Book!Fail
  <2>. QED BY <2>2 DEF Book!LedgerNext
<1>. QED BY <1>0, <1>1, <1>2, <1>3, <1>4, <1>5, <1>6, <1>7, <1>8
         DEF Disturbance, DeleteWhitelist, Discover, MarkOffline, BaselineChange, Bind, data

LEMMA NextBooks == TypeOK /\ LapsedHaveRows /\ [Next]_vars => [Book!LedgerNext]_(Book!ledgerVars)
<1> SUFFICES ASSUME TypeOK, LapsedHaveRows, [Next]_vars
             PROVE  Book!LedgerNext \/ UNCHANGED Book!ledgerVars
  OBVIOUS
<1>1. ASSUME NEW f \in Firewall, FirewallUp(f) PROVE Book!LedgerNext
  <2>1. UNCHANGED <<Entries("tam"), Entries("foreign"), WithRow, lapsed, disturbed>>
    BY <1>1 DEF FirewallUp, Entries, WithRow, data
  <2>2. Book!Return(f)  BY <1>1, <2>1 DEF FirewallUp, Book!Return
  <2>. QED BY <2>2 DEF Book!LedgerNext
<1>2. CASE UNCHANGED <<entry, row, lapsed, facts>>  BY <1>2, Idles DEF facts
<1>. QED BY <1>1, <1>2, TaskBooks, DisturbanceBooks DEF Next, CooldownEnds, vars, data

\* Expired rows stay rows, through every step that closes or rewrites one: a
\* step of the ledger never leaves a record overdue that it closed.
LEMMA NextLapsed == TypeOK /\ LapsedHaveRows /\ [Next]_vars => LapsedHaveRows'
<1> SUFFICES ASSUME TypeOK, LapsedHaveRows, [Next]_vars PROVE LapsedHaveRows'
  OBVIOUS
<1>1. CASE UNCHANGED Book!ledgerVars
  BY <1>1 DEF Book!ledgerVars, LapsedHaveRows
<1>2. CASE Book!LedgerNext
  BY <1>2 DEF LapsedHaveRows, Book!LedgerNext, Book!Enforce, Book!Lose, Book!Release, Book!Lapse,
      Book!Return, Book!Meddle, Book!RunOut, Book!Fail, Book!Elsewhere
<1>. QED BY <1>1, <1>2, NextBooks

\* Every handler, request, crash and failure is a step of Ledger or none of its
\* business, for any terminals, addresses and firewalls: nothing but firewalls
\* that answer and entries of TAM's is touched, what is blocked is recorded, and
\* what parts an entry from its row is one of the steps Ledger names.
THEOREM EnforcementKeepsTheLedger == Spec => LedgerIsKept
<1>1. Init => Book!LedgerInit /\ LapsedHaveRows
  BY DEF Init, Book!LedgerInit, Entries, WithRow, LapsedHaveRows
<1>. QED BY <1>1, NextBooks, NextLapsed, TypeCorrect, PTL
         DEF Spec, LedgerIsKept, Book!LedgerSpec

\* What that buys: an entry parts from its row only when something happened, a
\* firewall did not answer or the row had run out, and TAM never adds or removes
\* an entry of the firewall's own.
THEOREM PartingsHaveCauses == Spec => Book!PartingHasACause
<1>1. [Book!LedgerNext]_(Book!ledgerVars) =>
        [/\ \A p \in Book!Orphans' \ Book!Orphans :
              p \in lapsed \/ up # Firewall \/ disturbed' = disturbed + 1
         /\ Entries("foreign")' # Entries("foreign") => disturbed' = disturbed + 1
        ]_(Book!ledgerVars)
  <2> SUFFICES ASSUME Book!LedgerNext
               PROVE  /\ \A p \in Book!Orphans' \ Book!Orphans :
                           p \in lapsed \/ up # Firewall \/ disturbed' = disturbed + 1
                      /\ Entries("foreign")' # Entries("foreign") => disturbed' = disturbed + 1
    OBVIOUS
  <2> USE DEF Book!Orphans
  <2>1. CASE \E i \in Ip : \E B, R \in SUBSET Book!Places :
               Book!Enforce(i, B, R) \/ Book!Lose(i, B)
    BY <2>1 DEF Book!Enforce, Book!Lose, Book!Add
  <2>2. CASE \E U, C \in SUBSET Book!Places : Book!Release(U, C)
    BY <2>2 DEF Book!Release, Book!Answering, Book!Places
  <2>3. CASE \E i \in Ip : \E C \in SUBSET Book!Places : Book!Lapse(i, C)
    BY <2>3 DEF Book!Lapse
  <2>4. CASE \E f \in Firewall : Book!Return(f)
    BY <2>4 DEF Book!Return
  <2>. QED BY <2>1, <2>2, <2>3, <2>4 DEF Book!LedgerNext
<1>. QED BY <1>1, EnforcementKeepsTheLedger, PTL
         DEF LedgerIsKept, Book!LedgerSpec, Book!PartingHasACause
=============================================================================
