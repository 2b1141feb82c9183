-------------------------------- MODULE Lease --------------------------------
(* What a lock with a time to live promises, and no more.  Members are inside *)
(* a section; one of them may be inside in safety, every other one is exposed *)
(* (it holds no key, so it keeps nobody out).  A member is exposed when it    *)
(* entered without the key, when its time ran out, or when the key was        *)
(* deleted by one that had no right to it.  The scheduler's task locks        *)
(* implement this.                                                            *)
CONSTANT Member

VARIABLES inside, exposed, overdue, stray
leaseVars == <<inside, exposed, overdue, stray>>

LeaseType ==
    /\ inside \subseteq Member
    /\ exposed \subseteq inside
    /\ overdue \subseteq inside
    /\ stray \subseteq Member

(* Two members inside: one of them at least is exposed.                       *)
AtMostOneIsSafe == \A i, j \in inside \ exposed : i = j

LeaseInit == inside = {} /\ exposed = {} /\ overdue = {} /\ stray = {}

(* With the key: everybody inside is exposed.                                 *)
Enter(i) ==
    /\ i \notin inside
    /\ inside \subseteq exposed
    /\ inside' = inside \union {i}
    /\ UNCHANGED <<exposed, overdue, stray>>

(* Without the key.                                                           *)
EnterExposed(i) ==
    /\ i \notin inside
    /\ inside' = inside \union {i}
    /\ exposed' = exposed \union {i}
    /\ UNCHANGED <<overdue, stray>>

(* The time of some members runs out; only those may lose the key to it.      *)
RunOut(S) ==
    /\ S \subseteq inside
    /\ overdue' = overdue \union S
    /\ exposed \subseteq exposed' /\ exposed' \subseteq exposed \union overdue'
    /\ UNCHANGED <<inside, stray>>

(* A safe member leaves and takes nobody's key; an exposed one may.  A member *)
(* may leave a release behind.                                                *)
Leave(i) ==
    /\ i \in inside
    /\ inside' = inside \ {i}
    /\ overdue' = overdue \ {i}
    /\ exposed \ {i} \subseteq exposed' /\ exposed' \subseteq inside'
    /\ i \notin exposed => exposed' = exposed
    /\ stray' \in {stray, stray \union {i}}

(* The release left behind comes through.                                     *)
ReleaseLate(i) ==
    /\ i \in stray
    /\ stray' = stray \ {i}
    /\ exposed \subseteq exposed' /\ exposed' \subseteq inside
    /\ UNCHANGED <<inside, overdue>>

LeaseNext ==
    \/ \E i \in Member : Enter(i) \/ EnterExposed(i) \/ Leave(i) \/ ReleaseLate(i)
    \/ \E S \in SUBSET Member : RunOut(S)

LeaseSpec == LeaseInit /\ [][LeaseNext]_leaseVars
===============================================================================
