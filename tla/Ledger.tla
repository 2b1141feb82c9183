------------------------------- MODULE Ledger -------------------------------
(* What enforcement promises of a block, and no more: TAM's entries on the    *)
(* firewalls and the records of them.  It touches firewalls that answer and   *)
(* entries of its own; it records what it adds and drops the record of what   *)
(* is gone.  Where the two part, something happened: a commit was lost, or a  *)
(* firewall did not answer, or a record ran out.  Terminals and verdicts do   *)
(* not appear; why an address is blocked is Enforcement's business.           *)
EXTENDS Naturals

CONSTANTS Ip, Firewall

VARIABLES
    listed,     \* TAM's entries on the firewalls
    foreign,    \* entries of the firewalls' own
    recorded,   \* pairs with an active record
    overdue,    \* those of them that have run out
    reachable,  \* firewalls that answer
    happened    \* requests, crashes and failures so far
ledgerVars == <<listed, foreign, recorded, overdue, reachable, happened>>

Places == Ip \X Firewall
Of(i) == {i} \X Firewall
Answering == {p \in Places : p[2] \in reachable}
Orphans == listed \ recorded

LedgerInit ==
    /\ listed = {} /\ foreign = {} /\ recorded = {} /\ overdue = {}
    /\ reachable = Firewall /\ happened = 0

\* Entries B for an address, where nobody lists it yet.
Add(i, B) ==
    /\ B \subseteq (Of(i) \cap Answering) \ (listed \cup foreign)
    /\ listed' = listed \cup B

\* Blocked and recorded: no entry without a record.  (A record may be without
\* an entry of TAM's: what it adopts may be the firewall's own, a tag is trusted.)
Enforce(i, B, R) ==
    /\ Add(i, B)
    /\ R \subseteq Of(i) /\ B \subseteq recorded \cup R
    /\ recorded' = recorded \cup R
    /\ overdue' = overdue \ R
    /\ UNCHANGED <<foreign, reachable, happened>>

\* Blocked and not recorded at all: the commit was lost, or it was all or
\* nothing and some firewall did not answer.
Lose(i, B) ==
    /\ Add(i, B)
    /\ happened' = happened + 1 \/ (happened' = happened /\ reachable # Firewall)
    /\ UNCHANGED <<foreign, recorded, overdue, reachable>>

\* Entries U are deleted and records C closed, by a pass or a request: an entry
\* outlives its record only on a firewall that does not answer.  Records that
\* stay may be extended.
Release(U, C) ==
    /\ U \subseteq listed \cap Answering
    /\ C \subseteq recorded
    /\ C \cap Answering \cap listed \subseteq U
    /\ listed' = listed \ U
    /\ recorded' = recorded \ C
    /\ overdue' \subseteq overdue \ C
    /\ happened' \in {happened, happened + 1}
    /\ UNCHANGED <<foreign, reachable>>

\* Records of an address that ran out are closed without a call, as long as
\* one of it is in force.
Lapse(i, C) ==
    /\ C \subseteq overdue \cap Of(i)
    /\ (recorded \cap Of(i)) \ overdue # {}
    /\ recorded' = recorded \ C
    /\ overdue' = overdue \ C
    /\ UNCHANGED <<listed, foreign, reachable, happened>>

\* A firewall answers again.
Return(f) ==
    /\ reachable' = reachable \cup {f}
    /\ UNCHANGED <<listed, foreign, recorded, overdue, happened>>

\* An administrator of the firewall adds an entry or removes one of either kind.
Meddle(p) ==
    /\ \/ /\ p \notin listed \cup foreign
          /\ foreign' = foreign \cup {p} /\ UNCHANGED listed
       \/ foreign' = foreign \ {p} /\ listed' = listed \ {p}
    /\ UNCHANGED <<recorded, overdue, reachable>>

RunOut(p) ==
    /\ p \in recorded
    /\ overdue' = overdue \cup {p}
    /\ UNCHANGED <<listed, foreign, recorded, reachable>>

Fail(f) == reachable' = reachable \ {f} /\ UNCHANGED <<listed, foreign, recorded, overdue>>

\* Terminals, verdicts and bindings change.
Elsewhere == UNCHANGED <<listed, foreign, recorded, overdue, reachable>>

LedgerNext ==
    \/ \E i \in Ip : \E B, R \in SUBSET Places : Enforce(i, B, R) \/ Lose(i, B)
    \/ \E U, C \in SUBSET Places : Release(U, C)
    \/ \E i \in Ip : \E C \in SUBSET Places : Lapse(i, C)
    \/ \E f \in Firewall : Return(f)
    \/ /\ happened' = happened + 1
       /\ \/ \E p \in Places : Meddle(p) \/ RunOut(p)
          \/ \E f \in Firewall : Fail(f)
          \/ Elsewhere

LedgerSpec == LedgerInit /\ [][LedgerNext]_ledgerVars

\* An entry without a record comes from something that happened, from a record
\* that had run out, or from a time when some firewall did not answer; and an
\* entry of a firewall's own is nobody's but the administrator's.
PartingHasACause ==
    [][/\ \A p \in Orphans' \ Orphans :
            p \in overdue \/ reachable # Firewall \/ happened' = happened + 1
       /\ foreign' # foreign => happened' = happened + 1]_ledgerVars
=============================================================================
