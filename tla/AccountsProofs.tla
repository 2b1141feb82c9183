--------------------------- MODULE AccountsProofs ---------------------------
(* What Accounts guarantees for every set of requests, users, roles and      *)
(* permissions, and however many calls Redis refuses.                        *)
EXTENDS Accounts, TLAPS

(* The inductive invariant: the properties are not enough by themselves.     *)

\* A request that is about somebody is about one user, and a request that updates a
\* role about that role; who deletes a role counted nobody in it, and it is not built in.
AboutOne(q) ==
    /\ request[q].at \in {"query", "fill", "credentials", "reset", "mint", "expire", "lock",
                          "answer", "commit", "bump", "role", "assign", "toggle"}
         => \E u \in User : For(q, u)
    /\ At(q, "members") => \E r \in Role : request[q].role = {r}
    /\ At(q, "delete") => request[q].todo = {} /\ request[q].role \cap Built = {}

RequestsAreAboutOne == \A q \in Request : AboutOne(q)

\* Nothing is cached for who never was a user, and nobody is about to.
Unknown == User \ (users \cup gone)
CacheIsOfUsers ==
    /\ \A u \in Unknown : cache[u] = {}
    /\ \A q \in Request : request[q].at \in {"query", "fill"} => request[q].user \cap Unknown = {}

\* A version is never taken back, so that a session that lost it has lost it for good:
\* unlike Valid, which a user who is activated again fulfils again.
VersionsGrow == \A q \in Request : \A s \in session[q] : s.ver <= version[s.user]
SessionsEnd ==
    \A q \in Request : \A s \in session[q] :
        \/ s.ver # version[s.user] \/ s.pw = password[s.user] \/ s.late \/ s.user \in deaf
        \/ \E p \in Request : At(p, "bump") /\ For(p, s.user)

IInv ==
    /\ TypeOK /\ RequestsAreAboutOne /\ CacheIsOfUsers /\ VersionsGrow
    /\ StaleIsExplained /\ RolelessIsExplained /\ SessionsEnd /\ CountersEnd

(* Type correctness: the parts of TypeOK one by one, an action at a time.    *)

LEMMA InitType == Init => TypeOK
BY UsersAssumption, RolesAssumption, LimitsAssumption
   DEF Init, TypeOK, TablesOK, SessionsOK, KeysOK, RequestsOK, GhostsOK, New, RequestState,
       Label, Reason, Built

\* The updates of a request's record that several actions share.
LEMMA Labels ==
    \A l \in {"new", "done", "credentials", "reset", "mint", "retire", "expire", "lock",
              "answer", "commit", "bump", "query", "fill", "members", "drop", "assign",
              "toggle", "role", "delete", "grant"} : l \in Label
BY DEF Label

LEMMA NewType == New \in RequestState
BY DEF New, RequestState, Label

LEMMA PutType ==
    ASSUME RequestsOK, NEW q \in Request, NEW x \in RequestState,
           request' = [request EXCEPT ![q] = x]
    PROVE  RequestsOK'
BY DEF RequestsOK

LEMMA EndType == ASSUME RequestsOK, NEW q \in Request, End(q) PROVE RequestsOK'
<1>1. [New EXCEPT !.at = "done"] \in RequestState  BY NewType, Labels DEF RequestState
<1>. QED BY <1>1, PutType DEF End

LEMMA ToInvalidateType ==
    ASSUME RequestsOK, NEW q \in Request, NEW us \in SUBSET User, ToInvalidate(q, us)
    PROVE  RequestsOK'
<1>1. [New EXCEPT !.at = "drop", !.todo = us] \in RequestState
  BY NewType, Labels DEF RequestState
<1>. QED BY <1>1, PutType, EndType DEF ToInvalidate

LEMMA AfterCountType ==
    ASSUME RequestsOK, NEW q \in Request, NEW n \in Nat, AfterCount(q, n)
    PROVE  RequestsOK'
<1>1. request[q] \in RequestState  BY DEF RequestsOK
<1>2. [request[q] EXCEPT !.at = "lock", !.count = n] \in RequestState
  BY <1>1, Labels DEF RequestState
<1>. QED BY <1>2, EndType DEF AfterCount, RequestsOK

LEMMA AssignType ==
    ASSUME RequestsOK, NEW q \in Request, NEW u \in User, NEW r \in Role,
           NEW held \in SUBSET Role, NEW n \in Nat,
           request' = [request EXCEPT ![q] = [New EXCEPT !.at = "assign", !.user = {u},
               !.role = {r}, !.held = held, !.count = n]]
    PROVE  RequestsOK'
<1>1. [New EXCEPT !.at = "assign", !.user = {u}, !.role = {r}, !.held = held, !.count = n]
         \in RequestState
  BY NewType, Labels DEF RequestState
<1>. QED BY <1>1, PutType

LEMMA RequestsStep ==
    ASSUME TypeOK, NEW q \in Request, Step(q) \/ Start(q)
    PROVE  RequestsOK'
<1>0. request[q] \in RequestState  BY DEF TypeOK, RequestsOK
<1> USE <1>0, Labels DEF TypeOK
<1>1. ASSUME NEW u \in User,
             \/ ReadCache(q, u) \/ SetActive(q, u) \/ DeleteUser(q, u) \/ Login(q, u)
             \/ Unlock(q, u) \/ ChangePassword(q, u) \/ SendCode(q, u)
      PROVE  RequestsOK'
  BY <1>1, EndType DEF ReadCache, SetActive, DeleteUser, Login, Unlock, ChangePassword,
     SendCode, Begin, Once, RequestsOK, RequestState
<1>2. ASSUME NEW u \in User, ReadCode(q, u) PROVE RequestsOK'
  <2>1. tries[u] \in Nat  BY LimitsAssumption DEF KeysOK
  <2>2. [request[q] EXCEPT !.at = "answer", !.user = {u}, !.count = tries[u]] \in RequestState
    BY <2>1 DEF RequestState
  <2>. QED BY <1>2, <2>2, EndType DEF ReadCode, RequestsOK
<1>3. ASSUME NEW u \in User, NEW r \in Role, Assign(q, u, r) PROVE RequestsOK'
  <2>1. roles[u] \in SUBSET Role /\ (IF u \in super THEN 1 ELSE 0) \in Nat  BY DEF TablesOK
  <2>. QED BY <1>3, <2>1, AssignType DEF Assign, Deletes
<1>4. ASSUME NEW u \in User, NEW up \in BOOLEAN, Toggle(q, u, up) PROVE RequestsOK'
  <2>1. roles[u] \cap {Superadmin} \in SUBSET Role /\ (IF up THEN 1 ELSE 0) \in Nat
    BY DEF TablesOK
  <2> DEFINE x == [request[q] EXCEPT !.at = "toggle", !.user = {u},
                     !.count = IF up THEN 1 ELSE 0, !.held = roles[u] \cap {Superadmin}]
  <2>2. x \in RequestState  BY <2>1 DEF RequestState
  <2>3. request' = [request EXCEPT ![q] = x]  BY <1>4 DEF Toggle, RequestsOK
  <2>. QED BY <2>2, <2>3, PutType
<1>5. ASSUME NEW u \in User, NEW up \in BOOLEAN, CreateUser(q, u, up) PROVE RequestsOK'
  BY <1>5 DEF CreateUser, RequestsOK, RequestState
<1>6. ASSUME NEW u \in User, NEW rs \in SUBSET Role, ImportUser(q, u, rs) PROVE RequestsOK'
  BY <1>6, EndType DEF ImportUser, Once
<1>7. ASSUME NEW r \in Role, CreateRole(q, r) \/ CountMembers(q, r) PROVE RequestsOK'
  BY <1>7 DEF CreateRole, CountMembers, Members, TablesOK, RequestsOK, RequestState
<1>8. ASSUME NEW r \in Role, NEW perms \in SUBSET Permission, UpdateRole(q, r, perms)
      PROVE  RequestsOK'
  BY <1>8 DEF UpdateRole, RequestsOK, RequestState
<1>9. ASSUME NEW p \in Request, Refresh(q, p) PROVE RequestsOK'
  <2>1. PICK s \in session[p] :
          request' = [request EXCEPT ![q].at = "mint", ![q].user = {s.user},
                                     ![q].count = s.pw, ![q].old = {p}]
    BY <1>9 DEF Refresh
  <2>2. s.user \in User /\ s.pw \in Nat  BY DEF SessionsOK, Session
  <2> DEFINE x == [request[q] EXCEPT !.at = "mint", !.user = {s.user}, !.count = s.pw,
                     !.old = {p}]
  <2>3. x \in RequestState  BY <2>2 DEF RequestState
  <2>4. request' = [request EXCEPT ![q] = x]  BY <2>1 DEF RequestsOK
  <2>. QED BY <2>3, <2>4, PutType
<1>10. ASSUME NEW rs, GiveRole(q, rs) PROVE RequestsOK'
  BY <1>10, EndType DEF GiveRole
<1>11. ASSUME NEW perms, GrantNewRole(q, perms) PROVE RequestsOK'
  BY <1>11, EndType DEF GrantNewRole
<1>12. ASSUME QueryPermissions(q) PROVE RequestsOK'
  <2>1. PICK u \in request[q].user :
          request' = [request EXCEPT ![q].at = "fill", ![q].perms = PermsOf(u)]
    BY <1>12 DEF QueryPermissions
  <2>2. u \in User  BY DEF RequestState
  <2>3. PermsOf(u) \in SUBSET Permission  BY <2>2 DEF PermsOf, Held, TablesOK
  <2>4. [request[q] EXCEPT !.at = "fill", !.perms = PermsOf(u)] \in RequestState
    BY <2>3 DEF RequestState
  <2>. QED BY <2>1, <2>4 DEF RequestsOK
<1>13. ASSUME FillCache(q) \/ DeleteRole(q) \/ LockAccount(q) \/ Retire(q) \/ IncrementVersion(q)
              \/ Crash(q)
       PROVE  RequestsOK'
  BY <1>13, EndType DEF FillCache, DeleteRole, LockAccount, Retire, IncrementVersion, Crash
<1>14. ASSUME ReadMembers(q) PROVE RequestsOK'
  <2>1. \A r : Members(r) \in SUBSET User  BY DEF Members, TablesOK
  <2>. QED BY <1>14, <2>1, ToInvalidateType DEF ReadMembers
<1>15. ASSUME Drop(q) PROVE RequestsOK'
  <2>1. \A u : request[q].todo \ {u} \in SUBSET User  BY DEF RequestState
  <2>. QED BY <1>15, <2>1, ToInvalidateType DEF Drop
<1>16. ASSUME CommitAssign(q) PROVE RequestsOK'
  <2>1. \A u \in request[q].user : {u} \in SUBSET User  BY DEF RequestState
  <2>. QED BY <1>16, <2>1, EndType, ToInvalidateType DEF CommitAssign
<1>17. ASSUME CommitToggle(q) PROVE RequestsOK'
  <2>1. CASE End(q)  BY <2>1, EndType
  <2>2. CASE \E u \in request[q].user, r \in registry :
               /\ roles' = [roles EXCEPT ![u] = @ \ {Superadmin}]
               /\ request' = [request EXCEPT ![q] = [New EXCEPT !.at = "assign",
                               !.user = {u}, !.role = {r}, !.held = roles'[u]]]
    <3>1. PICK u \in User, r \in Role :
            /\ roles' = [roles EXCEPT ![u] = @ \ {Superadmin}]
            /\ request' = [request EXCEPT ![q] = [New EXCEPT !.at = "assign",
                               !.user = {u}, !.role = {r}, !.held = roles'[u]]]
      BY <2>2 DEF RequestState, TablesOK
    <3>2. roles'[u] \in SUBSET Role  BY <3>1 DEF TablesOK
    <3>3. [New EXCEPT !.at = "assign", !.user = {u}, !.role = {r}, !.held = roles'[u]]
            \in RequestState
      BY <3>2, NewType DEF RequestState
    <3>. QED BY <3>1, <3>3, PutType
  <2>. QED BY <1>17, <2>1, <2>2 DEF CommitToggle
<1>18. ASSUME Accept(q) PROVE RequestsOK'
  <2>1. PICK u \in User :
          request' = [request EXCEPT ![q].at = "reset", ![q].count = password[u]]
    BY <1>18 DEF Accept, RequestState
  <2>2. [request[q] EXCEPT !.at = "reset", !.count = password[u]] \in RequestState
    BY DEF SessionsOK, RequestState
  <2>. QED BY <2>1, <2>2 DEF RequestsOK
<1>19. ASSUME CountFailure(q) PROVE RequestsOK'
  <2>1. PICK u \in request[q].user :
          \/ /\ attempts' = [attempts EXCEPT ![u] = @ + 1]
             /\ \/ request' = [request EXCEPT ![q].at = "expire", ![q].count = 1]
                \/ AfterCount(q, attempts'[u])
          \/ End(q)
    BY <1>19 DEF CountFailure
  <2>2. u \in User  BY DEF RequestState
  <2>3. CASE AfterCount(q, attempts'[u]) /\ attempts' = [attempts EXCEPT ![u] = @ + 1]
    <3>1. attempts'[u] \in Nat  BY <2>2, <2>3 DEF KeysOK
    <3>. QED BY <2>3, <3>1, AfterCountType
  <2>4. CASE request' = [request EXCEPT ![q].at = "expire", ![q].count = 1]
    <3>1. [request[q] EXCEPT !.at = "expire", !.count = 1] \in RequestState  BY DEF RequestState
    <3>. QED BY <2>4, <3>1 DEF RequestsOK
  <2>. QED BY <2>1, <2>3, <2>4, EndType
<1>20. ASSUME TimeCounter(q) PROVE RequestsOK'
  BY <1>20, EndType, AfterCountType DEF TimeCounter
<1>21. ASSUME ResetAttempts(q) \/ Mint(q) \/ AnswerCode(q) \/ ResetPassword(q) PROVE RequestsOK'
  BY <1>21, EndType DEF ResetAttempts, Mint, AnswerCode, ResetPassword, Go, RequestsOK,
     RequestState
<1>. QED
  BY <1>1, <1>2, <1>3, <1>4, <1>5, <1>6, <1>7, <1>8, <1>9, <1>10, <1>11, <1>12, <1>13, <1>14,
     <1>15, <1>16, <1>17, <1>18, <1>19, <1>20, <1>21 DEF Step, Start

\* Which actions change the tables, the sessions, the count of failed logins.
LEMMA TablesFrame ==
    ASSUME NEW q \in Request, Step(q) \/ Start(q)
    PROVE  \/ UNCHANGED <<staff, rbac>>
           \/ \E u \in User :
                \/ SetActive(q, u) \/ DeleteUser(q, u)
                \/ \E up \in BOOLEAN : CreateUser(q, u, up)
                \/ \E rs \in SUBSET Role : ImportUser(q, u, rs)
           \/ \E r \in Role :
                CreateRole(q, r) \/ \E perms \in SUBSET Permission : UpdateRole(q, r, perms)
           \/ \E rs \in SUBSET Role : GiveRole(q, rs)
           \/ \E perms \in SUBSET Permission : GrantNewRole(q, perms)
           \/ CommitAssign(q) \/ CommitToggle(q) \/ DeleteRole(q)
BY DEF Step, Start, ReadCache, QueryPermissions, FillCache, ReadMembers, Drop, Assign, Toggle,
   CountMembers, Login, Accept, CountFailure, TimeCounter, LockAccount, ResetAttempts, Unlock,
   Mint, Refresh, Retire, ChangePassword, SendCode, ReadCode, AnswerCode, ResetPassword,
   IncrementVersion, Crash

LEMMA SessionsFrame ==
    ASSUME NEW q \in Request, Step(q) \/ Start(q)
    PROVE  \/ UNCHANGED sessions
           \/ \E u \in User : ChangePassword(q, u)
           \/ ResetPassword(q) \/ IncrementVersion(q) \/ Mint(q) \/ Retire(q)
BY DEF Step, Start, sessions, ReadCache, QueryPermissions, FillCache, UpdateRole, ReadMembers, Drop,
   Assign, CommitAssign, Toggle, CommitToggle, CreateRole, GrantNewRole, CountMembers,
   DeleteRole, CreateUser, GiveRole, ImportUser, SetActive, DeleteUser, Login, Accept,
   CountFailure, TimeCounter, LockAccount, ResetAttempts, Unlock, Refresh, SendCode, ReadCode,
   AnswerCode, Crash

LEMMA LockoutFrame ==
    ASSUME NEW q \in Request, Step(q) \/ Start(q)
    PROVE  \/ UNCHANGED lockout
           \/ \E u \in User : Unlock(q, u)
           \/ CountFailure(q) \/ TimeCounter(q) \/ LockAccount(q) \/ ResetAttempts(q)
BY DEF Step, Start, lockout, ReadCache, QueryPermissions, FillCache, UpdateRole, ReadMembers, Drop,
   Assign, CommitAssign, Toggle, CommitToggle, CreateRole, GrantNewRole, CountMembers,
   DeleteRole, CreateUser, GiveRole, ImportUser, SetActive, DeleteUser, Login, Accept,
   Mint, Refresh, Retire, ChangePassword, SendCode, ReadCode, AnswerCode, ResetPassword,
   IncrementVersion, Crash

LEMMA CacheFrame ==
    ASSUME NEW q \in Request, Step(q) \/ Start(q)
    PROVE  \/ UNCHANGED cache
           \/ FillCache(q) \/ Drop(q)
           \/ \E u \in User, up \in BOOLEAN : Toggle(q, u, up)
BY DEF Step, Start, ReadCache, QueryPermissions, UpdateRole, ReadMembers,
   Assign, CommitAssign, CommitToggle, CreateRole, GrantNewRole, CountMembers,
   DeleteRole, CreateUser, GiveRole, ImportUser, SetActive, DeleteUser, Login, Accept,
   CountFailure, TimeCounter, LockAccount, ResetAttempts, Unlock, Mint, Refresh, Retire,
   ChangePassword, SendCode, ReadCode, AnswerCode, ResetPassword, IncrementVersion, Crash

LEMMA CodesFrame ==
    ASSUME NEW q \in Request, Step(q) \/ Start(q)
    PROVE  UNCHANGED codes \/ AnswerCode(q) \/ \E u \in User : SendCode(q, u)
BY DEF Step, Start, codes, ReadCache, QueryPermissions, FillCache, UpdateRole, ReadMembers, Drop,
   Assign, CommitAssign, Toggle, CommitToggle, CreateRole, GrantNewRole, CountMembers,
   DeleteRole, CreateUser, GiveRole, ImportUser, SetActive, DeleteUser, Login, Accept,
   CountFailure, TimeCounter, LockAccount, ResetAttempts, Unlock, Mint, Refresh, Retire,
   ChangePassword, ReadCode, ResetPassword, IncrementVersion, Crash

LEMMA TablesStep ==
    ASSUME TypeOK, RequestsAreAboutOne, NEW q \in Request, Step(q) \/ Start(q)
    PROVE  TablesOK'
<1>0. request[q] \in RequestState  BY DEF TypeOK, RequestsOK
<1> USE <1>0 DEF TypeOK, TablesOK
<1>1. CASE UNCHANGED <<staff, rbac>>  BY <1>1 DEF staff, rbac
<1>2. ASSUME NEW u \in User,
             \/ SetActive(q, u) \/ DeleteUser(q, u)
             \/ \E up \in BOOLEAN : CreateUser(q, u, up)
             \/ \E rs \in SUBSET Role : ImportUser(q, u, rs)
      PROVE  TablesOK'
  BY <1>2 DEF SetActive, DeleteUser, CreateUser, ImportUser, rbac
<1>3. ASSUME NEW r \in Role,
             CreateRole(q, r) \/ \E perms \in SUBSET Permission : UpdateRole(q, r, perms)
      PROVE  TablesOK'
  BY <1>3 DEF CreateRole, UpdateRole, staff
<1>4. ASSUME NEW rs \in SUBSET Role, GiveRole(q, rs) PROVE TablesOK'
  BY <1>4 DEF GiveRole, staff
<1>5. ASSUME NEW perms \in SUBSET Permission, GrantNewRole(q, perms) PROVE TablesOK'
  BY <1>5 DEF GrantNewRole, staff
<1>6. CASE CommitAssign(q)  BY <1>6 DEF CommitAssign, staff
<1>7. CASE CommitToggle(q)
  <2>1. UNCHANGED <<staff, registry, grants>>  BY <1>7 DEF CommitToggle
  <2>2. PICK u \in request[q].user :
          \/ UNCHANGED <<roles, super>>
          \/ /\ u \in users
             /\ super' \in {super \cup {u}, super \ {u}}
             /\ \/ roles' = [roles EXCEPT ![u] = @ \cup {Superadmin}]
                \/ roles' = [roles EXCEPT ![u] = @ \ {Superadmin}]
    BY <1>7 DEF CommitToggle
  <2>3. Superadmin \in registry /\ Superadmin \in Role  BY DEF Built
  <2>. QED BY <2>1, <2>2, <2>3 DEF staff
<1>8. CASE DeleteRole(q)
  <2>0. AboutOne(q) /\ At(q, "delete")  BY <1>8 DEF RequestsAreAboutOne, DeleteRole
  <2>1. PICK r \in request[q].role :
          /\ registry' = registry \ {r}
          /\ grants' = [grants EXCEPT ![r] = {}]
          /\ roles' = [u \in User |-> roles[u] \ {r}]
    BY <1>8 DEF DeleteRole
  <2>2. r \notin Built  BY <2>0, <2>1 DEF AboutOne
  <2>. QED BY <1>8, <2>1, <2>2 DEF DeleteRole, staff
<1>. QED BY <1>1, <1>2, <1>3, <1>4, <1>5, <1>6, <1>7, <1>8, TablesFrame

LEMMA SessionsStep ==
    ASSUME TypeOK, NEW q \in Request, Step(q) \/ Start(q)
    PROVE  SessionsOK'
<1>0. request[q] \in RequestState  BY DEF TypeOK, RequestsOK
<1> USE <1>0 DEF TypeOK, SessionsOK, RequestState
<1>1. CASE UNCHANGED sessions  BY <1>1 DEF sessions
<1>2. ASSUME NEW u \in User, ChangePassword(q, u) PROVE SessionsOK'
  BY <1>2 DEF ChangePassword
<1>3. CASE ResetPassword(q)  BY <1>3 DEF ResetPassword
<1>4. CASE IncrementVersion(q)  BY <1>4 DEF IncrementVersion
<1>5. CASE Mint(q)
  <2>1. PICK u \in request[q].user, v \in Nat :
          session' = [session EXCEPT ![q] = {[user |-> u, ver |-> v, pw |-> request[q].count,
                                              late |-> request[q].count # password[u]]}]
    BY <1>5 DEF Mint
  <2>2. [user |-> u, ver |-> v, pw |-> request[q].count,
         late |-> request[q].count # password[u]] \in Session
    BY DEF Session
  <2>. QED BY <1>5, <2>1, <2>2 DEF Mint
<1>6. CASE Retire(q)  BY <1>6 DEF Retire
<1>. QED BY <1>1, <1>2, <1>3, <1>4, <1>5, <1>6, SessionsFrame

LEMMA KeysStep ==
    ASSUME TypeOK, NEW q \in Request, Step(q) \/ Start(q)
    PROVE  KeysOK'
<1>0. request[q] \in RequestState  BY DEF TypeOK, RequestsOK
<1> USE <1>0 DEF TypeOK
<1>1. cache' \in [User -> SUBSET SUBSET Permission]
  <2>1. CASE FillCache(q)  BY <2>1 DEF FillCache, KeysOK, RequestState
  <2>2. CASE Drop(q)  BY <2>2 DEF Drop, Invalidate, KeysOK
  <2>3. ASSUME NEW u \in User, NEW up, Toggle(q, u, up)
        PROVE  cache' \in [User -> SUBSET SUBSET Permission]
    BY <2>3 DEF Toggle, Invalidate, KeysOK
  <2>. QED BY <2>1, <2>2, <2>3, CacheFrame DEF KeysOK
<1>2. attempts' \in [User -> Nat] /\ timed' \subseteq User /\ locked' \subseteq User
  <2>1. CASE UNCHANGED lockout  BY <2>1 DEF lockout, KeysOK
  <2>2. ASSUME NEW u \in User, Unlock(q, u)
        PROVE  attempts' \in [User -> Nat] /\ timed' \subseteq User /\ locked' \subseteq User
    BY <2>2 DEF Unlock, Reset, lockout, KeysOK
  <2>3. CASE CountFailure(q)  BY <2>3 DEF CountFailure, KeysOK
  <2>4. CASE TimeCounter(q)  BY <2>4 DEF TimeCounter, KeysOK, RequestState
  <2>5. CASE LockAccount(q)  BY <2>5 DEF LockAccount, KeysOK, RequestState
  <2>6. CASE ResetAttempts(q)  BY <2>6 DEF ResetAttempts, Reset, lockout, KeysOK
  <2>. QED BY <2>1, <2>2, <2>3, <2>4, <2>5, <2>6, LockoutFrame
<1>3. code' \subseteq User /\ tries' \in [User -> 0 .. MaxAttempts]
  <2>1. CASE UNCHANGED codes  BY <2>1 DEF KeysOK, codes
  <2>2. ASSUME NEW u \in User, SendCode(q, u)
        PROVE  code' \subseteq User /\ tries' \in [User -> 0 .. MaxAttempts]
    BY <2>2 DEF SendCode, KeysOK
  <2>3. CASE AnswerCode(q)  BY <2>3, LimitsAssumption DEF AnswerCode, KeysOK, RequestState
  <2>. QED BY <2>1, <2>2, <2>3, CodesFrame
<1>. QED BY <1>1, <1>2, <1>3 DEF KeysOK

LEMMA GhostsStep ==
    ASSUME TypeOK, NEW q \in Request, Step(q) \/ Start(q)
    PROVE  GhostsOK'
<1>0. request[q] \in RequestState  BY DEF TypeOK, RequestsOK
<1>1. disturbed \in 0 .. MaxDisturbance /\ MaxDisturbance \in Nat
  BY LimitsAssumption DEF TypeOK, GhostsOK
<1> USE <1>0, <1>1 DEF TypeOK, GhostsOK, RequestState, Reason, Fine, Refused
<1>2. CASE UNCHANGED ghosts /\ (Fine \/ Refused)  BY <1>2 DEF ghosts
<1>3. ASSUME NEW us, NEW why \in Reason, NEW ro, NEW gr, BlameCommit(us, why, ro, gr)
      PROVE  blame' \in [User -> Reason]
  BY <1>3 DEF BlameCommit
<1>4. ASSUME NEW u \in User,
             \/ Unlock(q, u) \/ \E up \in BOOLEAN : Toggle(q, u, up)
             \/ \E rs \in SUBSET Role : ImportUser(q, u, rs)
      PROVE  GhostsOK'
  <2>1. CASE Unlock(q, u)  BY <2>1 DEF Unlock, Reset
  <2>2. ASSUME NEW up, Toggle(q, u, up) PROVE GhostsOK'
    BY <2>2 DEF Toggle, Invalidate
  <2>3. ASSUME NEW rs, ImportUser(q, u, rs) PROVE GhostsOK'
    BY <2>3 DEF ImportUser
  <2>. QED BY <1>4, <2>1, <2>2, <2>3
<1>5. CASE FillCache(q)  BY <1>5 DEF FillCache
<1>6. CASE Drop(q)  BY <1>6 DEF Drop, Invalidate
<1>7. CASE CommitToggle(q)
  <2>1. /\ roleless' \subseteq User /\ UNCHANGED <<deaf, timeless, disturbed>>
        /\ UNCHANGED blame \/ \E us : BlameCommit(us, "early", roles', grants)
    BY <1>7 DEF CommitToggle
  <2>. QED BY <2>1, <1>3
<1>8. CASE DeleteRole(q)
  <2>1. PICK r \in request[q].role :
          /\ BlameCommit(Members(r) \ request[q].todo, "removed", roles', grants')
          /\ roleless' = roleless \cup {u \in Members(r) \ request[q].todo : roles'[u] = {}}
    BY <1>8 DEF DeleteRole
  <2>2. Members(r) \subseteq User  BY DEF Members, TablesOK
  <2>. QED BY <1>8, <2>1, <2>2, <1>3 DEF DeleteRole
<1>9. ASSUME NEW rs \in SUBSET Role, GiveRole(q, rs) PROVE GhostsOK'
  BY <1>9, <1>3 DEF GiveRole
<1>10. ASSUME NEW perms \in SUBSET Permission, GrantNewRole(q, perms) PROVE GhostsOK'
  BY <1>10, <1>3 DEF GrantNewRole
<1>11. CASE TimeCounter(q)  BY <1>11 DEF TimeCounter
<1>12. CASE ResetAttempts(q)  BY <1>12 DEF ResetAttempts, Reset
<1>13. CASE IncrementVersion(q)  BY <1>13 DEF IncrementVersion
<1>14. CASE Crash(q)  BY <1>14 DEF Crash
<1>. QED
  BY <1>2, <1>4, <1>5, <1>6, <1>7, <1>8, <1>9, <1>10, <1>11, <1>12, <1>13, <1>14
     DEF Step, Start, ReadCache, QueryPermissions, UpdateRole, ReadMembers, Assign, CommitAssign,
     CreateRole, CountMembers, CreateUser, SetActive, DeleteUser, Login, Accept, CountFailure,
     LockAccount, Mint, Refresh, Retire, ChangePassword, SendCode, ReadCode, AnswerCode,
     ResetPassword

LEMMA EnvironmentType ==
    ASSUME TypeOK, NEW u \in User,
           CacheExpires(u) \/ CounterExpires(u) \/ LockExpires(u) \/ CodeExpires(u)
    PROVE  TypeOK'
<1>1. CASE CacheExpires(u)
  BY <1>1 DEF CacheExpires, TypeOK, TablesOK, SessionsOK, KeysOK, RequestsOK, GhostsOK, staff, rbac,
     sessions, lockout, codes, Reason
<1>2. CASE CounterExpires(u)
  BY <1>2 DEF CounterExpires, TypeOK, TablesOK, SessionsOK, KeysOK, RequestsOK, GhostsOK, staff,
     rbac, sessions, codes, ghosts
<1>3. CASE LockExpires(u)
  BY <1>3 DEF LockExpires, TypeOK, TablesOK, SessionsOK, KeysOK, RequestsOK, GhostsOK, staff, rbac,
     sessions, codes, ghosts
<1>4. CASE CodeExpires(u)
  BY <1>4 DEF CodeExpires, TypeOK, TablesOK, SessionsOK, KeysOK, RequestsOK, GhostsOK, staff, rbac,
     sessions, lockout, ghosts
<1>. QED BY <1>1, <1>2, <1>3, <1>4

(* The rest of the inductive invariant.                                      *)

\* A request touches its own record only.
LEMMA OthersStay ==
    ASSUME TypeOK, NEW q \in Request, Step(q) \/ Start(q)
    PROVE  \A p \in Request \ {q} : request'[p] = request[p]
BY DEF TypeOK, RequestsOK, Step, Start, ReadCache, QueryPermissions, FillCache, UpdateRole,
   ReadMembers, Drop, Assign, CommitAssign, Toggle, CommitToggle, CreateRole, GrantNewRole,
   CountMembers, DeleteRole, CreateUser, GiveRole, ImportUser, SetActive, DeleteUser, Login,
   Accept, CountFailure, TimeCounter, LockAccount, ResetAttempts, Unlock, Mint, Refresh, Retire,
   ChangePassword, SendCode, ReadCode, AnswerCode, ResetPassword, IncrementVersion, Crash,
   Begin, Go, End, Once, ToInvalidate, AfterCount, Deletes

LEMMA AboutStep ==
    ASSUME TypeOK, RequestsAreAboutOne, NEW q \in Request, Step(q) \/ Start(q)
    PROVE  RequestsAreAboutOne'
<1>0. request \in [Request -> RequestState] /\ request[q] \in RequestState /\ AboutOne(q)
  BY DEF TypeOK, RequestsOK, RequestsAreAboutOne
<1> SUFFICES AboutOne(q)'
  BY OthersStay DEF RequestsAreAboutOne, AboutOne, At, For
<1> DEFINE x == request'[q]
           Single == \E u \in User : x.user = {u}
<1>1. /\ Single /\ x.at \notin {"members", "delete"} => AboutOne(q)'
      /\ x.at \in {"done", "grant", "drop", "retire"} => AboutOne(q)'
      /\ x.at = "members" /\ (\E r \in Role : x.role = {r}) => AboutOne(q)'
      /\ x.at = "delete" /\ x.todo = {} /\ x.role \cap Built = {} => AboutOne(q)'
  BY DEF AboutOne, At, For
<1>2. \A l : At(q, l) /\ l \in {"query", "credentials", "reset", "mint", "expire", "answer",
                               "commit"}
        => \E u \in User : request[q].user = {u}
  BY <1>0 DEF AboutOne, At, For
<1> HIDE DEF x, Single
<1> USE <1>0
<1>3. End(q) \/ Once(q) => AboutOne(q)'
  BY <1>1 DEF End, Once, New, x
<1>4. ASSUME NEW us, ToInvalidate(q, us) PROVE AboutOne(q)'
  <2>1. End(q) \/ x.at = "drop"  BY <1>4 DEF ToInvalidate, New, x
  <2>. QED BY <1>1, <1>3, <2>1
<1>5. ASSUME NEW u \in User, NEW l \in {"query", "credentials", "bump"}, Begin(q, u, l)
      PROVE  AboutOne(q)'
  <2>1. x.at = l /\ x.user = {u}  BY <1>5 DEF Begin, RequestState, x
  <2>. QED BY <1>1, <2>1 DEF Single
<1>6. ASSUME NEW k, NEW l, At(q, k), Go(q, l),
             <<k, l>> \in {<<"reset", "mint">>, <<"answer", "commit">>, <<"commit", "bump">>}
             \/ l = "retire"
      PROVE  AboutOne(q)'
  <2>1. x.at = l /\ x.user = request[q].user  BY <1>6 DEF Go, RequestState, x
  <2>. QED BY <1>1, <1>2, <1>6, <2>1 DEF Single
<1>7. ASSUME NEW n, At(q, "credentials") \/ At(q, "expire"), AfterCount(q, n)
      PROVE  AboutOne(q)'
  <2>1. ASSUME request' = [request EXCEPT ![q].at = "lock", ![q].count = n]
        PROVE  x.at = "lock" /\ x.user = request[q].user
    BY <2>1 DEF RequestState, x
  <2>. QED BY <1>1, <1>2, <1>3, <1>7, <2>1 DEF AfterCount, Single
<1>8. ASSUME NEW u \in User,
             \/ ReadCache(q, u) \/ SetActive(q, u) \/ DeleteUser(q, u) \/ Login(q, u)
             \/ Unlock(q, u) \/ ChangePassword(q, u) \/ SendCode(q, u)
             \/ \E rs \in SUBSET Role : ImportUser(q, u, rs)
      PROVE  AboutOne(q)'
  BY <1>3, <1>5, <1>8 DEF ReadCache, SetActive, DeleteUser, Login, Unlock, ChangePassword, SendCode,
     ImportUser
<1>9. ASSUME NEW u \in User, ReadCode(q, u) PROVE AboutOne(q)'
  <2>1. ASSUME request' = [request EXCEPT ![q].at = "answer", ![q].user = {u},
                                           ![q].count = tries[u]]
        PROVE  x.at = "answer" /\ x.user = {u}
    BY <2>1 DEF RequestState, x
  <2>. QED BY <1>1, <1>3, <1>9, <2>1 DEF ReadCode, Single
<1>10. ASSUME NEW u \in User, NEW r, Assign(q, u, r) PROVE AboutOne(q)'
  <2>1. x.at = "assign" /\ x.user = {u}  BY <1>10 DEF Assign, Deletes, New, x
  <2>. QED BY <1>1, <2>1 DEF Single
<1>11. ASSUME NEW u \in User, NEW up, Toggle(q, u, up) \/ CreateUser(q, u, up)
      PROVE  AboutOne(q)'
  <2>1. CASE Toggle(q, u, up)
    <3>1. x.at = "toggle" /\ x.user = {u}  BY <2>1 DEF Toggle, RequestState, x
    <3>. QED BY <1>1, <3>1 DEF Single
  <2>2. CASE CreateUser(q, u, up)
    <3>1. x.at = "role" /\ x.user = {u}  BY <2>2 DEF CreateUser, RequestState, x
    <3>. QED BY <1>1, <3>1 DEF Single
  <2>. QED BY <1>11, <2>1, <2>2
<1>12. ASSUME NEW r \in Role, CreateRole(q, r) PROVE AboutOne(q)'
  <2>1. x.at = "grant"  BY <1>12 DEF CreateRole, RequestState, x
  <2>. QED BY <1>1, <2>1
<1>13. ASSUME NEW r \in Role, CountMembers(q, r) PROVE AboutOne(q)'
  <2>1. x.at = "delete" /\ x.todo = {} /\ x.role = {r} /\ r \notin Built
    BY <1>13 DEF CountMembers, RequestState, x
  <2>. QED BY <1>1, <2>1
<1>14. ASSUME NEW r \in Role, NEW perms, UpdateRole(q, r, perms) PROVE AboutOne(q)'
  <2>1. x.at = "members" /\ x.role = {r}  BY <1>14 DEF UpdateRole, RequestState, x
  <2>. QED BY <1>1, <2>1
<1>15. ASSUME NEW p \in Request, Refresh(q, p) PROVE AboutOne(q)'
  <2>1. \A s \in session[p] : s.user \in User  BY DEF TypeOK, SessionsOK, Session
  <2>2. x.at = "mint" /\ \E s \in session[p] : x.user = {s.user}
    BY <1>15 DEF Refresh, RequestState, x
  <2>. QED BY <1>1, <2>1, <2>2 DEF Single
<1>16. CASE QueryPermissions(q)
  <2>1. x.at = "fill" /\ x.user = request[q].user
    BY <1>16 DEF QueryPermissions, RequestState, x
  <2>. QED BY <1>1, <1>2, <1>16, <2>1 DEF QueryPermissions, Single
<1>17. CASE FillCache(q) \/ DeleteRole(q) \/ LockAccount(q) \/ Retire(q) \/ IncrementVersion(q)
            \/ Crash(q) \/ (\E rs : GiveRole(q, rs)) \/ (\E perms : GrantNewRole(q, perms))
  BY <1>3, <1>17 DEF FillCache, DeleteRole, LockAccount, Retire, IncrementVersion, Crash, GiveRole,
     GrantNewRole
<1>18. CASE ReadMembers(q) \/ Drop(q) \/ CommitAssign(q)
  <2>1. End(q) \/ \E us : ToInvalidate(q, us)
    BY <1>18 DEF ReadMembers, Drop, CommitAssign
  <2>. QED BY <1>3, <1>4, <2>1
<1>19. CASE CommitToggle(q)
  <2>1. \/ End(q)
        \/ \E u \in request[q].user : \E r, held : request' = [request EXCEPT ![q] =
             [New EXCEPT !.at = "assign", !.user = {u}, !.role = {r}, !.held = held]]
    BY <1>19 DEF CommitToggle
  <2>2. ASSUME NEW u \in request[q].user, NEW r, NEW held, request' = [request EXCEPT ![q] =
                 [New EXCEPT !.at = "assign", !.user = {u}, !.role = {r}, !.held = held]]
        PROVE  x.at = "assign" /\ x.user = {u}
    BY <2>2 DEF New, x
  <2>3. request[q].user \subseteq User  BY DEF RequestState
  <2>. QED BY <1>1, <1>3, <2>1, <2>2, <2>3 DEF Single
<1>20. CASE Accept(q)
  <2>1. x.at = "reset" /\ x.user = request[q].user
    BY <1>20 DEF Accept, RequestState, x
  <2>. QED BY <1>1, <1>2, <1>20, <2>1 DEF Accept, Single
<1>21. CASE CountFailure(q)
  <2>1. At(q, "credentials")  BY <1>21 DEF CountFailure
  <2>2. \/ End(q) \/ \E n : AfterCount(q, n)
        \/ request' = [request EXCEPT ![q].at = "expire", ![q].count = 1]
    BY <1>21 DEF CountFailure
  <2>3. ASSUME request' = [request EXCEPT ![q].at = "expire", ![q].count = 1]
        PROVE  x.at = "expire" /\ x.user = request[q].user
    BY <2>3 DEF RequestState, x
  <2>. QED BY <1>1, <1>2, <1>3, <1>7, <2>1, <2>2, <2>3 DEF Single
<1>22. CASE TimeCounter(q)  BY <1>3, <1>7, <1>22 DEF TimeCounter
<1>23. CASE ResetAttempts(q)  BY <1>6, <1>23 DEF ResetAttempts
<1>24. CASE Mint(q)  BY <1>3, <1>6, <1>24 DEF Mint
<1>25. CASE AnswerCode(q)  BY <1>3, <1>6, <1>25 DEF AnswerCode
<1>26. CASE ResetPassword(q)  BY <1>3, <1>6, <1>26 DEF ResetPassword
<1>. QED
  BY <1>8, <1>9, <1>10, <1>11, <1>12, <1>13, <1>14, <1>15, <1>16, <1>17, <1>18, <1>19, <1>20, <1>21,
     <1>22, <1>23, <1>24, <1>25, <1>26 DEF Step, Start

\* Only these two leave a request about to read or to fill the cache.
LEMMA Reads ==
    ASSUME TypeOK, NEW q \in Request, Step(q) \/ Start(q),
           request'[q].at \in {"query", "fill"}
    PROVE  (\E u \in User : ReadCache(q, u)) \/ QueryPermissions(q)
<1>0. request \in [Request -> RequestState] /\ request[q] \in RequestState
  BY DEF TypeOK, RequestsOK
<1> USE <1>0
<1>1. ~End(q) /\ ~Once(q)  BY DEF End, Once, New
<1>2. ASSUME NEW l, Go(q, l) PROVE l \in {"query", "fill"}
  BY <1>2 DEF Go, RequestState
<1>3. ASSUME NEW us, ToInvalidate(q, us) PROVE FALSE
  BY <1>1, <1>3 DEF ToInvalidate, New
<1>4. ASSUME NEW n, AfterCount(q, n) PROVE FALSE
  BY <1>1, <1>4 DEF AfterCount, RequestState
<1>5. ASSUME NEW u, NEW l, Begin(q, u, l) PROVE l = request'[q].at
  BY <1>5 DEF Begin, RequestState
<1>6. ASSUME NEW u, NEW r, NEW held,
             request' = [request EXCEPT ![q] = [New EXCEPT !.at = "assign", !.user = {u},
                            !.role = {r}, !.held = held]]
      PROVE  FALSE
  BY <1>6 DEF New
<1>7. ASSUME NEW u \in User,
             \/ SetActive(q, u) \/ DeleteUser(q, u) \/ Login(q, u)
             \/ Unlock(q, u) \/ ChangePassword(q, u) \/ SendCode(q, u)
             \/ \E rs \in SUBSET Role : ImportUser(q, u, rs)
      PROVE  FALSE
  BY <1>1, <1>5, <1>7 DEF SetActive, DeleteUser, Login, Unlock, ChangePassword, SendCode, ImportUser
<1>8. ASSUME NEW u, NEW r, Assign(q, u, r) PROVE FALSE
  BY <1>8 DEF Assign, Deletes, New
<1>9. ASSUME NEW u, ReadCode(q, u) PROVE FALSE
  BY <1>1, <1>9 DEF ReadCode, RequestState
<1>10. ASSUME NEW r, CreateRole(q, r) PROVE FALSE
  BY <1>10 DEF CreateRole, RequestState
<1>11. ASSUME NEW r, CountMembers(q, r) PROVE FALSE
  BY <1>11 DEF CountMembers, RequestState
<1>12. ASSUME NEW r, NEW perms, UpdateRole(q, r, perms) PROVE FALSE
  BY <1>12 DEF UpdateRole, RequestState
<1>13. ASSUME NEW u, NEW up, Toggle(q, u, up) PROVE FALSE
  BY <1>13 DEF Toggle, RequestState
<1>14. ASSUME NEW u, NEW up, CreateUser(q, u, up) PROVE FALSE
  BY <1>14 DEF CreateUser, RequestState
<1>15. ASSUME NEW p, Refresh(q, p) PROVE FALSE
  BY <1>15 DEF Refresh, RequestState
<1>16. ~FillCache(q) /\ ~DeleteRole(q) /\ ~LockAccount(q) /\ ~Retire(q) /\ ~IncrementVersion(q)
       /\ ~Crash(q) /\ (\A rs : ~GiveRole(q, rs)) /\ (\A perms : ~GrantNewRole(q, perms))
  BY <1>1 DEF FillCache, DeleteRole, LockAccount, Retire, IncrementVersion, Crash, GiveRole,
     GrantNewRole
<1>17. ~ReadMembers(q) /\ ~Drop(q)  BY <1>3 DEF ReadMembers, Drop
<1>18. ASSUME CommitAssign(q) PROVE FALSE
  <2>1. End(q) \/ \E us : ToInvalidate(q, us)  BY <1>18 DEF CommitAssign
  <2>. QED BY <1>1, <1>3, <2>1
<1>19. ASSUME CommitToggle(q) PROVE FALSE
  <2>1. \/ End(q)
        \/ \E u \in request[q].user : \E r, held : request' = [request EXCEPT ![q] =
             [New EXCEPT !.at = "assign", !.user = {u}, !.role = {r}, !.held = held]]
    BY <1>19 DEF CommitToggle
  <2>. QED BY <1>1, <1>6, <2>1
<1>20. ~Accept(q)  BY DEF Accept, RequestState
<1>21. ~CountFailure(q)  BY <1>1, <1>4 DEF CountFailure, RequestState
<1>22. ~TimeCounter(q)  BY <1>1, <1>4 DEF TimeCounter
<1>23. ~ResetAttempts(q) /\ ~Mint(q) /\ ~AnswerCode(q) /\ ~ResetPassword(q)
  BY <1>1, <1>2 DEF ResetAttempts, Mint, AnswerCode, ResetPassword
<1>. QED
  BY <1>7, <1>8, <1>9, <1>10, <1>11, <1>12, <1>13, <1>14, <1>15, <1>16, <1>17, <1>18, <1>19, <1>20,
     <1>21, <1>22, <1>23 DEF Step, Start

LEMMA CacheIsOfUsersStep ==
    ASSUME TypeOK, CacheIsOfUsers, NEW q \in Request, Step(q) \/ Start(q)
    PROVE  CacheIsOfUsers'
<1>1. Unknown' \subseteq Unknown
  BY TablesFrame DEF Unknown, staff, SetActive, DeleteUser, CreateUser, ImportUser, CreateRole,
     UpdateRole, GiveRole, GrantNewRole, CommitAssign, CommitToggle, DeleteRole
<1>2. \A u \in Unknown : cache'[u] = {}
  <2>1. CASE UNCHANGED cache  BY <2>1 DEF CacheIsOfUsers
  <2>2. CASE FillCache(q)
    BY <2>2 DEF FillCache, At, CacheIsOfUsers, Unknown, TypeOK, KeysOK
  <2>3. CASE Drop(q)
    BY <2>3 DEF Drop, Invalidate, CacheIsOfUsers, Unknown, TypeOK, KeysOK
  <2>4. ASSUME NEW u \in User, NEW up, Toggle(q, u, up) PROVE \A v \in Unknown : cache'[v] = {}
    BY <2>4 DEF Toggle, Invalidate, CacheIsOfUsers, Unknown, TypeOK, KeysOK
  <2>. QED BY <2>1, <2>2, <2>3, <2>4, CacheFrame
<1>3. ASSUME request'[q].at \in {"query", "fill"}
      PROVE  request'[q].user \cap Unknown = {}
  <2>1. (\E u \in User : ReadCache(q, u)) \/ QueryPermissions(q)
    BY <1>3, Reads
  <2>2. ASSUME NEW u \in User, ReadCache(q, u) PROVE request'[q].user \cap Unknown = {}
    BY <1>3, <2>2 DEF ReadCache, Begin, Once, End, New, Unknown, TypeOK, RequestsOK, RequestState
  <2>3. CASE QueryPermissions(q)
    BY <2>3 DEF QueryPermissions, CacheIsOfUsers, At, TypeOK, RequestsOK, RequestState
  <2>. QED BY <2>1, <2>2, <2>3
<1>4. \A p \in Request : request'[p].at \in {"query", "fill"} => request'[p].user \cap Unknown = {}
  BY <1>3, OthersStay DEF CacheIsOfUsers
<1>. QED BY <1>1, <1>2, <1>4 DEF CacheIsOfUsers

(* StaleIsExplained, user by user.                                           *)
Explained(u) ==
    \/ cache[u] \in {{}, {PermsOf(u)}}
    \/ blame[u] # "none"
    \/ \E q \in Request : u \in Owed(q)

\* What a step does not concern stays explained: the requests that owe it an
\* invalidation owe it still.
LEMMA StaysExplained ==
    ASSUME TypeOK, StaleIsExplained, NEW q \in Request, Step(q) \/ Start(q),
           NEW u \in users, u \in users', cache'[u] = cache[u], blame'[u] = blame[u],
           roles'[u] = roles[u], \A r \in roles[u] : grants'[r] = grants[r],
           u \notin Owed(q)
    PROVE  Explained(u)'
<1>1. PermsOf(u)' = PermsOf(u)  BY DEF PermsOf, Held
<1>2. ASSUME NEW p \in Request, u \in Owed(p) PROVE u \in Owed(p)'
  <2>1. request'[p] = request[p]  BY <1>2, OthersStay
  <2>. QED BY <1>2, <2>1 DEF Owed, At
<1>3. Explained(u)  BY DEF StaleIsExplained, Explained
<1>. QED BY <1>1, <1>2, <1>3 DEF Explained

\* A commit that blames somebody leaves him explained.
LEMMA BlameExplains ==
    ASSUME TypeOK, NEW us, NEW why \in Reason \ {"none"}, BlameCommit(us, why, roles', grants'),
           UNCHANGED cache
    PROVE  /\ \A u \in us \cap User : Explained(u)'
           /\ \A u \in User \ us : blame'[u] = blame[u]
BY DEF BlameCommit, Explained, PermsOf, Held

LEMMA StaleStep ==
    ASSUME TypeOK, RequestsAreAboutOne, CacheIsOfUsers, StaleIsExplained,
           NEW q \in Request, Step(q) \/ Start(q)
    PROVE  StaleIsExplained'
<1> DEFINE Quiet == ~At(q, "members") /\ ~At(q, "drop")
<1>0. request \in [Request -> RequestState] /\ request[q] \in RequestState /\ AboutOne(q)
  BY DEF TypeOK, RequestsOK, RequestsAreAboutOne
<1>1. Quiet => Owed(q) = {}  BY DEF Owed
<1> SUFFICES ASSUME NEW u \in users' PROVE Explained(u)'
  BY DEF StaleIsExplained, Explained
<1> HIDE DEF Quiet
<1>2. u \in User /\ (u \in users \/ u \in Unknown)
  <2>1. u \in User /\ u \notin gone'  BY TablesStep DEF TablesOK
  <2>2. gone \subseteq gone'
    BY TablesFrame DEF staff, SetActive, DeleteUser, CreateUser, ImportUser, CreateRole, UpdateRole,
       GiveRole, GrantNewRole, CommitAssign, CommitToggle, DeleteRole
  <2>. QED BY <2>1, <2>2 DEF Unknown
<1> DEFINE Stay(v) == /\ v \in users /\ cache'[v] = cache[v] /\ blame'[v] = blame[v]
                      /\ roles'[v] = roles[v] /\ \A r \in roles[v] : grants'[r] = grants[r]
<1>3. ASSUME Stay(u), Quiet PROVE Explained(u)'
  BY <1>1, <1>3, StaysExplained
<1>4. ASSUME NEW l, At(q, l), l \notin {"members", "drop"} PROVE Quiet
  BY <1>4 DEF Quiet, At
<1> USE DEF TypeOK, TablesOK, KeysOK, GhostsOK
<1>5. CASE FillCache(q)
  <2>1. PICK v \in request[q].user :
          \/ /\ cache' = [cache EXCEPT ![v] = {request[q].perms}]
             /\ blame' = [blame EXCEPT ![v] =
                            IF request[q].perms = PermsOf(v) THEN "none" ELSE "fill"]
          \/ UNCHANGED <<cache, blame>>
    BY <1>5 DEF FillCache
  <2>2. Quiet /\ UNCHANGED <<users, roles, grants>>  BY <1>4, <1>5 DEF FillCache, staff, rbac
  <2>3. CASE u = v /\ ~UNCHANGED <<cache, blame>>
    <3>1. PermsOf(u)' = PermsOf(u)  BY <2>2 DEF PermsOf, Held
    <3>. QED BY <1>2, <2>1, <2>3, <3>1 DEF Explained
  <2>. QED BY <1>2, <1>3, <2>1, <2>2, <2>3
<1>6. CASE Drop(q)
  <2>1. PICK v \in request[q].todo : Invalidate(v) /\ ToInvalidate(q, request[q].todo \ {v})
    BY <1>6 DEF Drop
  <2>2. UNCHANGED <<users, roles, grants>>  BY <1>6 DEF Drop, staff, rbac
  <2>3. CASE u = v  BY <1>2, <2>1, <2>3 DEF Invalidate, Explained
  <2>4. CASE u # v /\ u \in Owed(q)
    <3>1. u \in request[q].todo \ {v}  BY <1>6, <2>4 DEF Owed, Drop, At
    <3>2. request' = [request EXCEPT ![q] =
                        [New EXCEPT !.at = "drop", !.todo = request[q].todo \ {v}]]
      BY <2>1, <3>1 DEF ToInvalidate
    <3>3. request'[q].at = "drop" /\ u \in request'[q].todo
      BY <1>0, <3>1, <3>2 DEF New
    <3>. QED BY <3>3 DEF Explained, Owed, At
  <2>5. CASE u # v /\ u \notin Owed(q)
    <3>1. cache'[u] = cache[u] /\ blame'[u] = blame[u]  BY <1>2, <2>1, <2>5 DEF Invalidate
    <3>. QED BY <1>2, <2>2, <2>5, <3>1, StaysExplained
  <2>. QED BY <2>3, <2>4, <2>5
<1>7. CASE Crash(q)
  <2>1. UNCHANGED <<users, roles, grants, cache>>  BY <1>7 DEF Crash, staff, rbac
  <2>2. CASE u \in Owed(q)  BY <1>2, <1>7, <2>2 DEF Crash, Explained
  <2>3. CASE u \notin Owed(q)
    <3>1. blame'[u] = blame[u]  BY <1>2, <1>7, <2>3 DEF Crash
    <3>. QED BY <1>2, <2>1, <2>3, <3>1, StaysExplained
  <2>. QED BY <2>2, <2>3
<1>8. CASE ReadMembers(q)
  <2>1. PICK r \in Role : request[q].role = {r} /\ ToInvalidate(q, Members(r))
    BY <1>0, <1>8 DEF ReadMembers, AboutOne
  <2>2. UNCHANGED <<users, roles, grants, cache, blame>>
    BY <1>8 DEF ReadMembers, staff, rbac, ghosts
  <2>3. CASE u \in Members(r)
    <3>1. request'[q].at = "drop" /\ u \in request'[q].todo
      BY <1>0, <2>1, <2>3 DEF ToInvalidate, New
    <3>. QED BY <3>1 DEF Explained, Owed, At
  <2>4. CASE u \notin Members(r)
    <3>1. u \notin Owed(q)  BY <1>8, <2>1, <2>4 DEF Owed, ReadMembers, At, Members
    <3>. QED BY <1>2, <2>2, <3>1, StaysExplained
  <2>. QED BY <2>3, <2>4
<1>9. ASSUME NEW r \in Role, NEW perms, UpdateRole(q, r, perms) PROVE Explained(u)'
  <2>1. /\ Quiet /\ UNCHANGED <<users, roles, cache, blame>>
        /\ grants' = [grants EXCEPT ![r] = perms]
    BY <1>4, <1>9 DEF UpdateRole, staff, ghosts
  <2>2. CASE r \in roles[u]
    <3>1. request'[q].at = "members" /\ request'[q].role = {r}
      BY <1>0, <1>9 DEF UpdateRole, RequestState
    <3>2. u \in Owed(q)'  BY <2>1, <2>2, <3>1 DEF Owed, At
    <3>. QED BY <3>2 DEF Explained
  <2>3. CASE r \notin roles[u]  BY <1>2, <1>3, <2>1, <2>3
  <2>. QED BY <2>2, <2>3
<1>10. CASE CommitAssign(q)
  <2>1. PICK v \in request[q].user, r \in request[q].role :
          \/ roles' = [roles EXCEPT ![v] = (@ \ request[q].held) \cup {r}] /\ ToInvalidate(q, {v})
          \/ UNCHANGED roles
    BY <1>10 DEF CommitAssign
  <2>2. Quiet /\ UNCHANGED <<users, grants, cache, blame>>
    BY <1>4, <1>10 DEF CommitAssign, staff, ghosts
  <2>3. CASE u = v /\ ToInvalidate(q, {v})
    <3>1. request'[q].at = "drop" /\ u \in request'[q].todo
      BY <1>0, <2>3 DEF ToInvalidate, New
    <3>. QED BY <3>1 DEF Explained, Owed, At
  <2>. QED BY <1>2, <1>3, <2>1, <2>2, <2>3
<1>11. ASSUME NEW v \in User, NEW up, Toggle(q, v, up) PROVE Explained(u)'
  <2>1. Quiet /\ UNCHANGED <<users, roles, grants>> /\ Invalidate(v)
    BY <1>4, <1>11 DEF Toggle, staff, rbac
  <2>2. CASE u = v  BY <1>2, <2>1, <2>2 DEF Invalidate, Explained
  <2>3. CASE u # v
    <3>1. cache'[u] = cache[u] /\ blame'[u] = blame[u]  BY <2>1, <2>3 DEF Invalidate
    <3>. QED BY <1>2, <1>3, <2>1, <3>1
  <2>. QED BY <2>2, <2>3
<1>12. CASE CommitToggle(q)
  <2>1. Quiet /\ UNCHANGED <<users, grants, cache>>
    BY <1>4, <1>12 DEF CommitToggle, staff
  <2>2. \/ UNCHANGED <<roles, blame>>
        \/ \E v \in request[q].user :
             /\ \A w \in User \ {v} : roles'[w] = roles[w]
             /\ BlameCommit({v}, "early", roles', grants)
    BY <1>12 DEF CommitToggle
  <2>3. ASSUME NEW v, \A w \in User \ {v} : roles'[w] = roles[w],
               BlameCommit({v}, "early", roles', grants')
        PROVE  Explained(u)'
    BY <1>2, <1>3, <2>1, <2>3, BlameExplains DEF Reason
  <2>. QED BY <1>2, <1>3, <2>1, <2>2, <2>3
<1>13. CASE DeleteRole(q)
  <2>1. PICK r \in request[q].role :
          /\ grants' = [grants EXCEPT ![r] = {}]
          /\ roles' = [w \in User |-> roles[w] \ {r}]
          /\ BlameCommit(Members(r) \ request[q].todo, "removed", roles', grants')
    BY <1>13 DEF DeleteRole
  <2>2. Quiet /\ UNCHANGED <<users, cache>> /\ request[q].todo = {}
    BY <1>0, <1>4, <1>13 DEF DeleteRole, staff, AboutOne
  <2>3. Members(r) \ request[q].todo = Members(r)  BY <2>2
  <2>4. CASE u \in Members(r)
    BY <1>2, <2>1, <2>2, <2>3, <2>4, BlameExplains DEF Reason
  <2>5. CASE u \notin Members(r)
    <3>1. blame'[u] = blame[u]  BY <1>2, <2>1, <2>2, <2>3, <2>5, BlameExplains DEF Reason
    <3>2. r \notin roles[u]  BY <2>2, <2>5 DEF Members
    <3>. QED BY <1>2, <1>3, <2>1, <2>2, <3>1, <3>2
  <2>. QED BY <2>4, <2>5
<1>14. ASSUME NEW perms, GrantNewRole(q, perms) PROVE Explained(u)'
  <2>1. PICK r \in request[q].role :
          /\ \A x \in Role \ {r} : grants'[x] = grants[x]
          /\ BlameCommit(Members(r), "young", roles', grants')
    BY <1>14 DEF GrantNewRole
  <2>2. Quiet /\ UNCHANGED <<users, roles, cache>>
    BY <1>4, <1>14 DEF GrantNewRole, staff
  <2>3. CASE u \in Members(r)
    BY <1>2, <2>1, <2>2, <2>3, BlameExplains DEF Reason
  <2>4. CASE u \notin Members(r)
    <3>1. blame'[u] = blame[u]  BY <1>2, <2>1, <2>2, <2>4, BlameExplains DEF Reason
    <3>2. r \notin roles[u]  BY <2>2, <2>4 DEF Members
    <3>. QED BY <1>2, <1>3, <2>1, <2>2, <3>1, <3>2
  <2>. QED BY <2>3, <2>4
<1>15. ASSUME NEW rs, GiveRole(q, rs) PROVE Explained(u)'
  <2>1. PICK v \in request[q].user, us \in SUBSET request[q].user :
          /\ us \in {{}, {v}}
          /\ roles' = IF us = {} THEN roles ELSE [roles EXCEPT ![v] = @ \cup rs]
          /\ BlameCommit(us, "young", roles', grants)
    BY <1>15 DEF GiveRole
  <2>2. Quiet /\ UNCHANGED <<users, grants, cache>>
    BY <1>4, <1>15 DEF GiveRole, staff
  <2>3. CASE u \in us
    BY <1>2, <2>1, <2>2, <2>3, BlameExplains DEF Reason
  <2>4. CASE u \notin us
    <3>1. blame'[u] = blame[u]  BY <1>2, <2>1, <2>2, <2>4, BlameExplains DEF Reason
    <3>. QED BY <1>2, <1>3, <2>1, <2>2, <2>4, <3>1
  <2>. QED BY <2>3, <2>4
<1>16. ASSUME u \in Unknown, cache' = cache PROVE Explained(u)'
  BY <1>16 DEF CacheIsOfUsers, Explained
<1>17. ASSUME NEW v \in User,
              \/ DeleteUser(q, v) \/ \E up \in BOOLEAN : CreateUser(q, v, up)
              \/ \E rs \in SUBSET Role : ImportUser(q, v, rs)
       PROVE  Explained(u)'
  <2>1. Quiet /\ UNCHANGED <<grants, cache, blame>> /\ \A w \in User \ {v} : roles'[w] = roles[w]
    BY <1>4, <1>17 DEF DeleteUser, CreateUser, ImportUser, Once, ghosts
  <2>2. CASE u = v
    BY <1>2, <1>16, <1>17, <2>2 DEF DeleteUser, CreateUser, ImportUser, Unknown, ghosts
  <2>3. CASE u # v  BY <1>2, <1>3, <1>16, <2>1, <2>3
  <2>. QED BY <2>2, <2>3
<1>18. CASE UNCHANGED <<users, roles, grants, cache, blame>> /\ Quiet
  BY <1>2, <1>3, <1>16, <1>18
<1>19. ASSUME NEW v \in User,
              \/ ReadCache(q, v) \/ SetActive(q, v) \/ Login(q, v) \/ Unlock(q, v)
              \/ ChangePassword(q, v) \/ SendCode(q, v) \/ ReadCode(q, v)
              \/ \E r \in Role : Assign(q, v, r)
       PROVE  Explained(u)'
  <2>1. At(q, "new") /\ UNCHANGED <<users, roles, grants, cache, blame>>
    BY <1>19 DEF ReadCache, SetActive, Login, Unlock, ChangePassword, SendCode, ReadCode, Assign,
       Begin, Once, staff, rbac, ghosts
  <2>. QED BY <1>4, <1>18, <2>1
<1>20. ASSUME NEW r \in Role, CreateRole(q, r) \/ CountMembers(q, r) PROVE Explained(u)'
  BY <1>4, <1>18, <1>20 DEF CreateRole, CountMembers, staff, rbac, ghosts
<1>21. ASSUME NEW p \in Request, Refresh(q, p) PROVE Explained(u)'
  BY <1>4, <1>18, <1>21 DEF Refresh, staff, rbac, ghosts
<1>22. CASE \/ QueryPermissions(q) \/ Accept(q) \/ CountFailure(q) \/ TimeCounter(q)
            \/ LockAccount(q) \/ ResetAttempts(q) \/ Mint(q) \/ Retire(q) \/ IncrementVersion(q)
            \/ AnswerCode(q) \/ ResetPassword(q)
  BY <1>4, <1>18, <1>22 DEF QueryPermissions, Accept, CountFailure, TimeCounter, LockAccount,
     ResetAttempts, Mint, Retire, IncrementVersion, AnswerCode, ResetPassword, staff, rbac, ghosts
<1>. QED
  BY <1>5, <1>6, <1>7, <1>8, <1>9, <1>10, <1>11, <1>12, <1>13, <1>14, <1>15, <1>17, <1>19, <1>20,
     <1>21, <1>22 DEF Step, Start

(* The other parts, which fewer actions concern.                             *)

\* What a request does next that owes somebody something.
LEMMA AtRole ==
    ASSUME NEW q \in Request, At(q, "role"), Step(q) \/ Start(q)
    PROVE  Crash(q) \/ \E rs \in SUBSET Role : GiveRole(q, rs)
BY DEF Step, Start, At, Begin, Once, ReadCache, QueryPermissions, FillCache, UpdateRole,
   ReadMembers, Drop, Assign, CommitAssign, Toggle, CommitToggle, CreateRole, GrantNewRole,
   CountMembers, DeleteRole, CreateUser, ImportUser, SetActive, DeleteUser, Login, Accept,
   CountFailure, TimeCounter, LockAccount, ResetAttempts, Unlock, Mint, Refresh, Retire,
   ChangePassword, SendCode, ReadCode, AnswerCode, ResetPassword, IncrementVersion

LEMMA AtBump ==
    ASSUME NEW q \in Request, At(q, "bump"), Step(q) \/ Start(q)
    PROVE  Crash(q) \/ IncrementVersion(q)
BY DEF Step, Start, At, Begin, Once, ReadCache, QueryPermissions, FillCache, UpdateRole,
   ReadMembers, Drop, Assign, CommitAssign, Toggle, CommitToggle, CreateRole, GrantNewRole,
   CountMembers, DeleteRole, CreateUser, GiveRole, ImportUser, SetActive, DeleteUser, Login, Accept,
   CountFailure, TimeCounter, LockAccount, ResetAttempts, Unlock, Mint, Refresh, Retire,
   ChangePassword, SendCode, ReadCode, AnswerCode, ResetPassword

LEMMA AtExpire ==
    ASSUME NEW q \in Request, At(q, "expire"), Step(q) \/ Start(q)
    PROVE  Crash(q) \/ TimeCounter(q)
BY DEF Step, Start, At, Begin, Once, ReadCache, QueryPermissions, FillCache, UpdateRole,
   ReadMembers, Drop, Assign, CommitAssign, Toggle, CommitToggle, CreateRole, GrantNewRole,
   CountMembers, DeleteRole, CreateUser, GiveRole, ImportUser, SetActive, DeleteUser, Login, Accept,
   CountFailure, LockAccount, ResetAttempts, Unlock, Mint, Refresh, Retire,
   ChangePassword, SendCode, ReadCode, AnswerCode, ResetPassword, IncrementVersion

LEMMA RolelessFrame ==
    ASSUME NEW q \in Request, Step(q) \/ Start(q)
    PROVE  \/ UNCHANGED roleless
           \/ \E u \in User, rs \in SUBSET Role : ImportUser(q, u, rs)
           \/ \E rs \in SUBSET Role : GiveRole(q, rs)
           \/ CommitToggle(q) \/ DeleteRole(q) \/ Crash(q)
BY DEF Step, Start, ReadCache, QueryPermissions, FillCache, UpdateRole,
   ReadMembers, Drop, Assign, CommitAssign, Toggle, CreateRole, GrantNewRole,
   CountMembers, CreateUser, SetActive, DeleteUser, Login,
   Accept, CountFailure, TimeCounter, LockAccount, ResetAttempts, Unlock, Mint, Refresh, Retire,
   ChangePassword, SendCode, ReadCode, AnswerCode, ResetPassword, IncrementVersion, ghosts

LEMMA RolelessStep ==
    ASSUME TypeOK, RequestsAreAboutOne, RolelessIsExplained, NEW q \in Request, Step(q) \/ Start(q)
    PROVE  RolelessIsExplained'
<1> DEFINE Creating(u) == \E p \in Request : At(p, "role") /\ For(p, u)
<1>0. request \in [Request -> RequestState] /\ request[q] \in RequestState /\ AboutOne(q)
  BY DEF TypeOK, RequestsOK, RequestsAreAboutOne
<1> SUFFICES ASSUME NEW u \in users', roles'[u] = {}, u \notin roleless' PROVE Creating(u)'
  BY DEF RolelessIsExplained
<1>1. u \in User  BY TablesStep DEF TablesOK
<1>2. ASSUME ~At(q, "role"), u \in users, roles[u] = {}, u \notin roleless
      PROVE  Creating(u)'
  BY <1>2, OthersStay DEF RolelessIsExplained, At, For
<1> HIDE DEF Creating
<1>. USE <1>0, <1>1 DEF TypeOK, TablesOK
<1>3. roleless \subseteq roleless'
  <2>1. CASE CommitToggle(q)  BY <2>1 DEF CommitToggle
  <2>2. CASE DeleteRole(q)  BY <2>2 DEF DeleteRole
  <2>3. CASE Crash(q)  BY <2>3 DEF Crash
  <2>4. ASSUME NEW rs, GiveRole(q, rs) PROVE roleless \subseteq roleless'
    BY <2>4 DEF GiveRole
  <2>5. ASSUME NEW v, NEW rs, ImportUser(q, v, rs) PROVE roleless \subseteq roleless'
    BY <2>5 DEF ImportUser
  <2>. QED BY <2>1, <2>2, <2>3, <2>4, <2>5, RolelessFrame
<1>4. CASE Crash(q)
  <2>1. UNCHANGED <<users, roles>>  BY <1>4 DEF Crash, staff, rbac
  <2>2. PICK p \in Request : At(p, "role") /\ For(p, u)
    BY <1>3, <2>1 DEF RolelessIsExplained
  <2>3. p # q  BY <1>4, <2>2 DEF Crash, For, At
  <2>. QED BY <2>2, <2>3, OthersStay DEF Creating, At, For
<1>5. ASSUME NEW rs \in SUBSET Role, GiveRole(q, rs) PROVE Creating(u)'
  <2>1. PICK v \in User :
          /\ request[q].user = {v}
          /\ \A w \in User \ {v} : roles'[w] = roles[w]
          /\ roleless' = IF roles'[v] = {} THEN roleless \cup {v} ELSE roleless
    BY <1>5 DEF GiveRole, AboutOne, At, For
  <2>2. PICK p \in Request : At(p, "role") /\ For(p, u)
    BY <1>3, <1>5, <2>1 DEF RolelessIsExplained, GiveRole, staff
  <2>3. p # q  BY <2>1, <2>2 DEF For
  <2>. QED BY <2>2, <2>3, OthersStay DEF Creating, At, For
<1>6. CASE UNCHANGED <<staff, rbac>>
  BY <1>2, <1>3, <1>6, <1>5, <1>4, AtRole DEF staff, rbac
<1>7. ASSUME NEW v \in User,
             \/ SetActive(q, v) \/ DeleteUser(q, v)
             \/ \E up \in BOOLEAN : CreateUser(q, v, up)
             \/ \E rs \in SUBSET Role : ImportUser(q, v, rs)
      PROVE  Creating(u)'
  <2>1. ~At(q, "role")
    BY <1>7 DEF SetActive, DeleteUser, CreateUser, ImportUser, Once, At
  <2>2. CASE u # v
    BY <1>2, <1>3, <1>7, <2>1, <2>2 DEF SetActive, DeleteUser, CreateUser, ImportUser, rbac
  <2>3. ASSUME NEW up, CreateUser(q, u, up) PROVE Creating(u)'
    <3>1. request'[q].at = "role" /\ request'[q].user = {u}
      BY <2>3 DEF CreateUser, RequestState
    <3>. QED BY <3>1 DEF Creating, At, For
  <2>4. CASE u = v /\ ~\E up : CreateUser(q, v, up)
    BY <1>2, <1>3, <1>7, <2>1, <2>4 DEF SetActive, DeleteUser, ImportUser, rbac
  <2>. QED BY <1>7, <2>2, <2>3, <2>4
<1>8. ASSUME NEW r \in Role,
             CreateRole(q, r) \/ \E perms \in SUBSET Permission : UpdateRole(q, r, perms)
      PROVE  Creating(u)'
  BY <1>2, <1>3, <1>8 DEF CreateRole, UpdateRole, staff, At
<1>9. ASSUME NEW perms, GrantNewRole(q, perms) PROVE Creating(u)'
  BY <1>2, <1>3, <1>9 DEF GrantNewRole, staff, At
<1>10. CASE CommitAssign(q)
  BY <1>2, <1>3, <1>10 DEF CommitAssign, staff, At
<1>11. CASE CommitToggle(q)
  <2>1. PICK v \in request[q].user :
          \/ UNCHANGED roles
          \/ /\ \A w \in User \ {v} : roles'[w] = roles[w]
             /\ roleless' = IF roles'[v] = {} THEN roleless \cup {v} ELSE roleless
    BY <1>11 DEF CommitToggle
  <2>. QED BY <1>2, <1>3, <1>11, <2>1 DEF CommitToggle, staff, At
<1>12. CASE DeleteRole(q)
  <2>1. PICK r \in request[q].role :
          /\ roles' = [w \in User |-> roles[w] \ {r}]
          /\ roleless' = roleless \cup {w \in Members(r) \ request[q].todo : roles'[w] = {}}
    BY <1>12 DEF DeleteRole
  <2>2. users' = users /\ request[q].todo = {}  BY <1>12 DEF DeleteRole, staff, AboutOne
  <2>. QED BY <1>2, <1>3, <1>12, <2>1, <2>2 DEF DeleteRole, At, Members
<1>. QED BY <1>6, <1>7, <1>8, <1>5, <1>9, <1>10, <1>11, <1>12, TablesFrame

\* Deaf users stay so, and a change of password that has yet to end the sessions is
\* forgotten only to the record of deaf users.
LEMMA DeafFrame ==
    ASSUME NEW q \in Request, Step(q) \/ Start(q)
    PROVE  UNCHANGED deaf \/ IncrementVersion(q) \/ Crash(q)
BY DEF Step, Start, ReadCache, QueryPermissions, FillCache, UpdateRole, ReadMembers, Drop, Assign,
   CommitAssign, Toggle, CommitToggle, CreateRole, GrantNewRole, CountMembers, DeleteRole,
   CreateUser, GiveRole, ImportUser, SetActive, DeleteUser, Login, Accept, CountFailure,
   TimeCounter, LockAccount, ResetAttempts, Unlock, Mint, Refresh, Retire, ChangePassword,
   SendCode, ReadCode, AnswerCode, ResetPassword, ghosts

LEMMA SessionsInvStep ==
    ASSUME TypeOK, RequestsAreAboutOne, VersionsGrow, SessionsEnd,
           NEW q \in Request, Step(q) \/ Start(q)
    PROVE  VersionsGrow' /\ SessionsEnd'
<1> DEFINE Changing(u) == \E p \in Request : At(p, "bump") /\ For(p, u)
           Covered(s) == \/ s.ver # version[s.user] \/ s.pw = password[s.user] \/ s.late
                         \/ s.user \in deaf \/ Changing(s.user)
           Good(s) == s.ver <= version[s.user] /\ Covered(s)
<1>0. /\ request \in [Request -> RequestState] /\ request[q] \in RequestState /\ AboutOne(q)
      /\ session \in [Request -> SUBSET Session]
      /\ password \in [User -> Nat] /\ version \in [User -> Nat]
  BY DEF TypeOK, RequestsOK, RequestsAreAboutOne, SessionsOK
<1>1. /\ \A p \in Request : \A s \in session[p] : s \in Session /\ Good(s)
      /\ (\A p \in Request : \A s \in session'[p] : Good(s)') => VersionsGrow' /\ SessionsEnd'
  BY <1>0 DEF VersionsGrow, SessionsEnd
<1>3. deaf \subseteq deaf'
  BY DeafFrame DEF IncrementVersion, Crash
<1>4. ASSUME NEW u, Changing(u), ~(IncrementVersion(q) /\ For(q, u))
      PROVE  Changing(u)' \/ u \in deaf'
  <2>1. PICK p \in Request : At(p, "bump") /\ For(p, u)  BY <1>4
  <2>2. CASE p # q  BY <2>1, <2>2, OthersStay DEF At, For
  <2>3. CASE p = q /\ Crash(q)  BY <2>1, <2>3 DEF Crash, For, At
  <2>. QED BY <1>4, <2>1, <2>2, <2>3, AtBump
<1> HIDE DEF Changing
<1> SUFFICES ASSUME NEW p \in Request, NEW s \in session'[p] PROVE Good(s)'
  BY <1>1
<1>5. ASSUME s \in session[p], version'[s.user] = version[s.user],
             password'[s.user] = password[s.user], ~(IncrementVersion(q) /\ For(q, s.user))
      PROVE  Good(s)'
  BY <1>1, <1>3, <1>4, <1>5
<1>6. ASSUME NEW u \in User, s \in session[p], version' = version,
             \A v \in User \ {u} : password'[v] = password[v],
             request'[q].at = "bump", request'[q].user = {u}, ~IncrementVersion(q)
      PROVE  Good(s)'
  <2>1. s.user \in User  BY <1>1, <1>6 DEF Session
  <2>2. Changing(u)'  BY <1>6 DEF Changing, At, For
  <2>. QED BY <1>1, <1>5, <1>6, <2>1, <2>2
<1>7. CASE IncrementVersion(q)
  <2>1. PICK u \in User : request[q].user = {u}
    BY <1>0, <1>7 DEF IncrementVersion, AboutOne, At, For
  <2>2. /\ session' = session /\ password' = password
        /\ \/ version' = [version EXCEPT ![u] = @ + 1]
           \/ version' = version /\ u \in deaf'
    BY <1>7, <2>1 DEF IncrementVersion
  <2>3. s \in Session /\ Good(s)  BY <1>1, <2>2
  <2>4. CASE s.user # u  BY <1>0, <1>5, <2>1, <2>2, <2>3, <2>4 DEF For, Session
  <2>5. CASE s.user = u  BY <1>0, <2>2, <2>3, <2>5 DEF Session
  <2>. QED BY <2>4, <2>5
<1>8. ASSUME ~IncrementVersion(q), UNCHANGED sessions PROVE Good(s)'
  BY <1>5, <1>8 DEF sessions
<1>9. ASSUME NEW u \in User, ChangePassword(q, u) PROVE Good(s)'
  <2>1. ~IncrementVersion(q) /\ request'[q].at = "bump" /\ request'[q].user = {u}
    BY <1>0, <1>9 DEF ChangePassword, IncrementVersion, Begin, At, RequestState
  <2>. QED BY <1>0, <1>6, <1>9, <2>1 DEF ChangePassword
<1>10. CASE ResetPassword(q)
  <2>1. PICK u \in User : request[q].user = {u}
    BY <1>0, <1>10 DEF ResetPassword, AboutOne, At, For
  <2>2. ~IncrementVersion(q) /\ UNCHANGED <<version, session>>
    BY <1>10 DEF ResetPassword, IncrementVersion, At
  <2>3. CASE u \in users
    <3>1. password' = [password EXCEPT ![u] = @ + 1] /\ Go(q, "bump")
      BY <1>10, <2>1, <2>3 DEF ResetPassword
    <3>2. request'[q].at = "bump" /\ request'[q].user = {u}
      BY <1>0, <2>1, <3>1 DEF Go, RequestState
    <3>. QED BY <1>0, <1>6, <2>2, <3>1, <3>2
  <2>4. CASE u \notin users
    BY <1>5, <1>10, <2>1, <2>2, <2>4 DEF ResetPassword
  <2>. QED BY <2>3, <2>4
<1>11. CASE Mint(q)
  <2>1. ~IncrementVersion(q) /\ UNCHANGED <<version, password>>
    BY <1>11 DEF Mint, IncrementVersion, At
  <2>2. PICK u \in User, v \in Nat :
          /\ v \in {0, version[u]}
          /\ session' = [session EXCEPT ![q] = {[user |-> u, ver |-> v, pw |-> request[q].count,
                                          late |-> request[q].count # password[u]]}]
    BY <1>0, <1>11 DEF Mint, RequestState
  <2>3. CASE p # q  BY <1>0, <1>5, <2>1, <2>2, <2>3
  <2>4. CASE p = q
    <3>1. s = [user |-> u, ver |-> v, pw |-> request[q].count,
               late |-> request[q].count # password[u]]
      BY <1>0, <2>2, <2>4
    <3>2. s.user = u /\ s.ver = v /\ s.pw = request[q].count
      BY <3>1
    <3>3. s.late = (request[q].count # password[u])
      BY <3>1
    <3>4. v <= version[u]  BY <1>0, <2>2
    <3>5. s.pw = password[s.user] \/ s.late  BY <3>2, <3>3
    <3>. QED BY <2>1, <3>2, <3>4, <3>5
  <2>. QED BY <2>3, <2>4
<1>12. CASE Retire(q)
  <2>1. ~IncrementVersion(q)  BY <1>12 DEF Retire, IncrementVersion, At
  <2>. QED BY <1>5, <1>12, <2>1 DEF Retire
<1>. QED BY <1>7, <1>8, <1>9, <1>10, <1>11, <1>12, SessionsFrame

LEMMA TimelessFrame ==
    ASSUME NEW q \in Request, Step(q) \/ Start(q)
    PROVE  \/ UNCHANGED timeless
           \/ \E u \in User : Unlock(q, u)
           \/ TimeCounter(q) \/ ResetAttempts(q) \/ Crash(q)
BY DEF Step, Start, ReadCache, QueryPermissions, FillCache, UpdateRole, ReadMembers, Drop, Assign,
   CommitAssign, Toggle, CommitToggle, CreateRole, GrantNewRole, CountMembers, DeleteRole,
   CreateUser, GiveRole, ImportUser, SetActive, DeleteUser, Login, Accept, CountFailure,
   LockAccount, Mint, Refresh, Retire, ChangePassword, SendCode, ReadCode, AnswerCode,
   ResetPassword, IncrementVersion, ghosts

LEMMA CountersStep ==
    ASSUME TypeOK, RequestsAreAboutOne, CountersEnd, NEW q \in Request, Step(q) \/ Start(q)
    PROVE  CountersEnd'
<1> DEFINE Timing(u) == \E p \in Request : At(p, "expire") /\ For(p, u)
           Ends(u) == attempts[u] = 0 \/ u \in timed \cup timeless \/ Timing(u)
<1>0. /\ request \in [Request -> RequestState] /\ request[q] \in RequestState /\ AboutOne(q)
      /\ attempts \in [User -> Nat]
  BY DEF TypeOK, RequestsOK, RequestsAreAboutOne, KeysOK
<1> SUFFICES ASSUME NEW u \in User PROVE Ends(u)'
  BY DEF CountersEnd
<1>1. Ends(u)  BY DEF CountersEnd
<1>2. ASSUME ~(At(q, "expire") /\ For(q, u)), Timing(u) PROVE Timing(u)'
  BY <1>2, OthersStay DEF At, For
<1> HIDE DEF Timing
<1>3. ASSUME ~(At(q, "expire") /\ For(q, u)), u \in timed => u \in timed',
             u \in timeless => u \in timeless',
             attempts[u] = 0 => attempts'[u] = 0
      PROVE  Ends(u)'
  BY <1>1, <1>2, <1>3
<1>4. ASSUME NEW v \in User, Reset(v), ~At(q, "expire") PROVE Ends(u)'
  BY <1>0, <1>1, <1>2, <1>4 DEF Reset, lockout
<1>5. ASSUME NEW v \in User, Unlock(q, v) PROVE Ends(u)'
  BY <1>4, <1>5 DEF Unlock, Once, At
<1>6. CASE ResetAttempts(q)
  <2>1. PICK v \in User : Reset(v)  BY <1>0, <1>6 DEF ResetAttempts, RequestState
  <2>. QED BY <1>4, <1>6, <2>1 DEF ResetAttempts, At
<1>7. CASE CountFailure(q)
  <2>1. PICK v \in User : request[q].user = {v}
    BY <1>0, <1>7 DEF CountFailure, AboutOne, At, For
  <2>2. CASE /\ attempts' = [attempts EXCEPT ![v] = @ + 1]
             /\ attempts'[v] = 1 => request' = [request EXCEPT ![q].at = "expire", ![q].count = 1]
    <3>1. ~At(q, "expire") /\ UNCHANGED <<timed, timeless>>
      BY <1>7 DEF CountFailure, At, ghosts
    <3>2. CASE u # v  BY <1>0, <1>3, <2>2, <3>1, <3>2
    <3>3. CASE u = v /\ attempts'[v] = 1
      <4>1. request'[q].at = "expire" /\ request'[q].user = {u}
        BY <1>0, <2>1, <2>2, <3>3 DEF RequestState
      <4>. QED BY <4>1 DEF Timing, At, For
    <3>4. CASE u = v /\ attempts'[v] # 1
      <4>1. attempts[u] # 0  BY <1>0, <2>2, <3>4
      <4>. QED BY <1>3, <3>1, <4>1
    <3>. QED BY <3>2, <3>3, <3>4
  <2>3. CASE UNCHANGED attempts
    BY <1>3, <1>7, <2>3 DEF CountFailure, At, ghosts
  <2>. QED BY <1>7, <2>1, <2>2, <2>3 DEF CountFailure
<1>8. CASE TimeCounter(q)
  <2>1. PICK v \in User : request[q].user = {v}
    BY <1>0, <1>8 DEF TimeCounter, AboutOne, At, For
  <2>2. /\ attempts' = attempts /\ timed \subseteq timed' /\ timeless \subseteq timeless'
        /\ attempts[v] > 0 => v \in timed' \cup timeless'
    BY <1>8, <2>1 DEF TimeCounter
  <2>3. CASE u = v  BY <1>0, <2>2, <2>3
  <2>4. CASE u # v  BY <1>3, <2>1, <2>2, <2>4 DEF For
  <2>. QED BY <2>3, <2>4
<1>9. CASE LockAccount(q)
  BY <1>3, <1>9 DEF LockAccount, At, ghosts
<1>10. CASE Crash(q)
  <2>1. UNCHANGED lockout /\ timeless \subseteq timeless'
        /\ (At(q, "expire") /\ For(q, u) => u \in timeless')
    BY <1>10 DEF Crash, For
  <2>. QED BY <1>3, <2>1 DEF lockout
<1>11. CASE UNCHANGED lockout /\ ~Crash(q) /\ ~TimeCounter(q)
  <2>1. ~At(q, "expire")  BY <1>11, AtExpire
  <2>. QED BY <1>3, <1>5, <1>6, <1>11, <2>1, TimelessFrame DEF lockout
<1>. QED BY <1>5, <1>6, <1>7, <1>8, <1>9, <1>10, <1>11, LockoutFrame

(* A key of Redis that expires.                                              *)
LEMMA EnvironmentStep ==
    ASSUME IInv, NEW u \in User,
           CacheExpires(u) \/ CounterExpires(u) \/ LockExpires(u) \/ CodeExpires(u)
    PROVE  IInv'
<1> USE DEF IInv
<1>0. TypeOK'  BY EnvironmentType
<1>1. UNCHANGED <<staff, rbac, sessions, request, roleless, deaf>>
  BY DEF CacheExpires, CounterExpires, LockExpires, CodeExpires, ghosts
<1>2. RequestsAreAboutOne' /\ VersionsGrow' /\ SessionsEnd' /\ RolelessIsExplained'
  BY <1>1 DEF RequestsAreAboutOne, AboutOne, At, For, VersionsGrow, SessionsEnd,
     RolelessIsExplained, staff, rbac, sessions
<1>3. CASE CacheExpires(u)
  <2>1. StaleIsExplained'
    <3>1. \A v \in users : PermsOf(v)' = PermsOf(v) /\ \A q \in Request : Owed(q)' = Owed(q)
      BY <1>1 DEF PermsOf, Held, Owed, At, staff, rbac
    <3>. QED
      BY <1>1, <1>3, <3>1 DEF CacheExpires, StaleIsExplained, TypeOK, TablesOK, KeysOK, GhostsOK,
         staff
  <2>2. CacheIsOfUsers'
    BY <1>1, <1>3 DEF CacheExpires, CacheIsOfUsers, Unknown, TypeOK, KeysOK, staff
  <2>3. CountersEnd'  BY <1>3 DEF CacheExpires, CountersEnd, At, For, lockout
  <2>. QED BY <1>0, <1>2, <2>1, <2>2, <2>3
<1>4. CASE ~CacheExpires(u)
  <2>0. UNCHANGED <<cache, ghosts>>  BY <1>4 DEF CounterExpires, LockExpires, CodeExpires
  <2>1. StaleIsExplained' /\ CacheIsOfUsers'
    BY <1>1, <2>0 DEF StaleIsExplained, CacheIsOfUsers, Unknown, PermsOf, Held, Owed, At, staff,
       rbac, ghosts
  <2>2. CountersEnd'
    BY <1>4, <2>0 DEF CounterExpires, LockExpires, CodeExpires, CountersEnd, At, For, ghosts,
       lockout, TypeOK, KeysOK
  <2>. QED BY <1>0, <1>2, <2>1, <2>2
<1>. QED BY <1>3, <1>4

LEMMA InitInv == Init => IInv
<1> SUFFICES ASSUME Init PROVE IInv  OBVIOUS
<1>1. TypeOK  BY InitType
<1>2. RequestsAreAboutOne  BY DEF Init, New, RequestsAreAboutOne, AboutOne, At, For
<1>3. CacheIsOfUsers  BY DEF Init, New, CacheIsOfUsers, Unknown
<1>4. VersionsGrow /\ SessionsEnd  BY DEF Init, VersionsGrow, SessionsEnd
<1>5. StaleIsExplained  BY <1>1 DEF Init, StaleIsExplained, TypeOK, TablesOK
<1>6. RolelessIsExplained  BY UsersAssumption DEF Init, RolelessIsExplained
<1>7. CountersEnd  BY DEF Init, CountersEnd
<1>. QED BY <1>1, <1>2, <1>3, <1>4, <1>5, <1>6, <1>7 DEF IInv

LEMMA NextInv == IInv /\ [Next]_vars => IInv'
<1> SUFFICES ASSUME IInv, [Next]_vars PROVE IInv'  OBVIOUS
<1>1. ASSUME NEW q \in Request, Step(q) \/ Start(q) PROVE IInv'
  BY <1>1, TablesStep, SessionsStep, KeysStep, RequestsStep, GhostsStep, AboutStep,
     CacheIsOfUsersStep, StaleStep, RolelessStep, SessionsInvStep, CountersStep DEF IInv, TypeOK
<1>2. ASSUME NEW u \in User,
             CacheExpires(u) \/ CounterExpires(u) \/ LockExpires(u) \/ CodeExpires(u)
      PROVE  IInv'
  BY <1>2, EnvironmentStep
<1>3. CASE UNCHANGED vars
  <2> USE <1>3 DEF vars, staff, rbac, sessions, lockout, codes, ghosts, IInv
  <2>1. TypeOK'  BY DEF TypeOK, TablesOK, SessionsOK, KeysOK, RequestsOK, GhostsOK
  <2>2. RequestsAreAboutOne'  BY DEF RequestsAreAboutOne, AboutOne, At, For
  <2>3. CacheIsOfUsers'  BY DEF CacheIsOfUsers, Unknown
  <2>4. VersionsGrow' /\ SessionsEnd'  BY DEF VersionsGrow, SessionsEnd, At, For
  <2>5. StaleIsExplained'  BY DEF StaleIsExplained, PermsOf, Held, Owed, At
  <2>6. RolelessIsExplained' /\ CountersEnd'  BY DEF RolelessIsExplained, CountersEnd, At, For
  <2>. QED BY <2>1, <2>2, <2>3, <2>4, <2>5, <2>6
<1>. QED BY <1>1, <1>2, <1>3 DEF Next

LEMMA Invariance == Spec => []IInv
BY InitInv, NextInv, PTL DEF Spec

\* Every variable keeps its type, whatever the requests do.
THEOREM TypeCorrect == Spec => []TypeOK
<1>1. IInv => TypeOK  BY DEF IInv
<1>. QED BY <1>1, Invariance, PTL

\* Permissions that were cached and are not those of the database are owed an
\* invalidation, or the cause is named, for every number of requests that read, fill
\* and invalidate at once (get_user_permissions, invalidate_user_permissions).
THEOREM StaleCacheIsExplained == Spec => []StaleIsExplained
<1>1. IInv => StaleIsExplained  BY DEF IInv
<1>. QED BY <1>1, Invariance, PTL

\* Nobody is without a role but for a cause (register, admin_create_user, delete_role).
THEOREM RolelessUsersAreExplained == Spec => []RolelessIsExplained
<1>1. IInv => RolelessIsExplained  BY DEF IInv
<1>. QED BY <1>1, Invariance, PTL

\* A change of password ends the sessions minted before it, unless the version was not
\* incremented; activating the user again does not bring them back
\* (increment_token_version).
THEOREM PasswordEndsSessions == Spec => []SessionsFollowPassword
<1>1. IInv => SessionsFollowPassword  BY DEF IInv, SessionsEnd, SessionsFollowPassword, Valid
<1>. QED BY <1>1, Invariance, PTL

\* A count of failed logins has a time to live, or the call that was to set it is on
\* its way or was lost (record_failed_login).
THEOREM FailedLoginsEnd == Spec => []CountersEnd
<1>1. IInv => CountersEnd  BY DEF IInv
<1>. QED BY <1>1, Invariance, PTL
=============================================================================
