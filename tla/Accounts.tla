------------------------------ MODULE Accounts ------------------------------
(***************************************************************************)
(* User accounts: roles and the cache of permissions, creation and removal *)
(* of users, passwords and the token version that ends sessions, the count *)
(* of failed logins.  Every request is a process that does one operation;  *)
(* its steps end where the code awaits the database or Redis, so requests  *)
(* interleave there.                                                       *)
(*                                                                         *)
(* Users are local, the actor of an administration is somebody else whose  *)
(* permission was checked.  A password is the number of the change that    *)
(* set it, a session is named by the request that minted its refresh       *)
(* token.  Time is left out: a key of Redis that has a time to live may    *)
(* expire at any moment.                                                   *)
(***************************************************************************)
EXTENDS Naturals, FiniteSets, TLC

CONSTANTS
    Request,        \* the requests, each of one operation
    User, Staff,    \* user ids; those that exist from the start
    Role,           \* role ids
    Default,        \* the role with is_default, built in
    Superadmin,     \* the role superadmin, built in
    Permission,
    MaxAttempts,    \* max_login_attempts; max_attempts of a code
    MaxDisturbance  \* bound on crashes and on calls Redis refuses

ASSUME UsersAssumption == Staff \subseteq User
ASSUME RolesAssumption == {Default, Superadmin} \subseteq Role /\ Default # Superadmin
ASSUME LimitsAssumption == MaxAttempts \in Nat \ {0} /\ MaxDisturbance \in Nat

VARIABLES
    users, gone,  \* ids in the table users; ids once in it
    super,        \* users with is_superuser
    active,       \* users with is_active
    password,     \* each user's password
    roles,        \* user_roles
    registry,     \* rows of the table roles
    grants,       \* role_permissions
    cache,        \* user_perms:<id>: at most one set of permissions
    version,      \* token_version:<id>
    session,      \* the session each request minted, if any
    ended,        \* sessions whose refresh token is blacklisted
    attempts,     \* login_attempts:<name>
    timed,        \* users whose login_attempts key has a time to live
    locked,       \* users with login_lock:<name>
    code,         \* users with email_code:password_reset:<id>
    tries,        \* the wrong answers counted beside the code
    request,      \* where each request is and what it holds
    blame,        \* why a cached set of permissions may be out of date
    roleless,     \* users left without a role by a named cause
    deaf,         \* users a version of whom was not incremented
    timeless,     \* users whose counter was not given a time to live
    disturbed     \* crashes and refusals so far

staff == <<users, gone, active>>
rbac == <<super, roles, registry, grants>>
sessions == <<password, version, session, ended>>
lockout == <<attempts, timed, locked>>
codes == <<code, tries>>
ghosts == <<blame, roleless, deaf, timeless>>
vars == <<staff, rbac, sessions, cache, lockout, codes, request, ghosts, disturbed>>

Built == {Default, Superadmin}
Label == {"new", "done", "credentials", "reset", "mint", "retire", "expire", "lock",
          "answer", "commit", "bump", "query", "fill", "members", "drop", "assign", "toggle", "role",
          "delete", "grant"}
Session == [user : User, ver : Nat, pw : Nat, late : BOOLEAN]
Reason == {"none", "fill", "lost", "early", "young", "removed"}
RequestState ==
    [at : Label, user : SUBSET User, role : SUBSET Role, count : Nat,
     perms : SUBSET Permission, todo : SUBSET User, old : SUBSET Request,
     held : SUBSET Role]

\* The tables of the database.
TablesOK ==
    /\ users \subseteq User /\ gone \subseteq User \ users
    /\ super \subseteq users /\ active \subseteq users
    /\ roles \in [User -> SUBSET Role] /\ grants \in [Role -> SUBSET Permission]
    /\ Built \subseteq registry /\ registry \subseteq Role
    /\ \A u \in User : roles[u] \subseteq registry /\ (u \notin users => roles[u] = {})

SessionsOK ==
    /\ password \in [User -> Nat] /\ version \in [User -> Nat]
    /\ session \in [Request -> SUBSET Session] /\ ended \subseteq Request

KeysOK ==
    /\ cache \in [User -> SUBSET SUBSET Permission]
    /\ attempts \in [User -> Nat] /\ timed \subseteq User /\ locked \subseteq User
    /\ code \subseteq User /\ tries \in [User -> 0 .. MaxAttempts]

RequestsOK == request \in [Request -> RequestState]

GhostsOK ==
    /\ blame \in [User -> Reason] /\ roleless \subseteq User
    /\ deaf \subseteq User /\ timeless \subseteq User
    /\ disturbed \in 0 .. MaxDisturbance

TypeOK == TablesOK /\ SessionsOK /\ KeysOK /\ RequestsOK /\ GhostsOK

New == [at |-> "new", user |-> {}, role |-> {}, count |-> 0,
        perms |-> {}, todo |-> {}, old |-> {}, held |-> {}]

Init ==
    /\ users = Staff /\ gone = {} /\ active = Staff /\ super = {}
    /\ password = [u \in User |-> 0] /\ version = [u \in User |-> 0]
    /\ roles = [u \in User |-> IF u \in Staff THEN {Default} ELSE {}]
    /\ registry = Role
    /\ grants = [r \in Role |-> IF r \in Built THEN Permission ELSE {}]
    /\ cache = [u \in User |-> {}]
    /\ session = [q \in Request |-> {}] /\ ended = {}
    /\ attempts = [u \in User |-> 0] /\ timed = {} /\ locked = {}
    /\ code = {} /\ tries = [u \in User |-> 0]
    /\ request = [q \in Request |-> New]
    /\ blame = [u \in User |-> "none"] /\ roleless = {} /\ deaf = {} /\ timeless = {}
    /\ disturbed = 0

\* Redis answers, or the call raises, which every caller here catches.
Fine == UNCHANGED disturbed
Refused == disturbed < MaxDisturbance /\ disturbed' = disturbed + 1

At(q, label) == request[q].at = label
For(q, u) == request[q].user = {u}
Begin(q, u, label) ==
    At(q, "new") /\ request' = [request EXCEPT ![q].at = label, ![q].user = {u}]
Go(q, label) == request' = [request EXCEPT ![q].at = label]
End(q) == request' = [request EXCEPT ![q] = [New EXCEPT !.at = "done"]]
Once(q) == At(q, "new") /\ End(q)

-----------------------------------------------------------------------------
(* Permissions. *)

Held(u, ro, gr) == UNION {gr[r] : r \in ro[u]}
PermsOf(u) == Held(u, roles, grants)

\* Who is blamed when a commit no invalidation follows leaves the cache stale.
BlameCommit(us, why, ro, gr) ==
    blame' = [u \in User |->
        IF u \in us /\ cache[u] \notin {{}, {Held(u, ro, gr)}}
        THEN why ELSE blame[u]]

\* get_user_permissions, which require_permission skips for a superuser.
ReadCache(q, u) ==
    /\ u \in users \ super
    /\ \/ cache[u] # {} /\ Once(q) /\ Fine
       \/ cache[u] = {} /\ Begin(q, u, "query") /\ Fine
       \/ cache[u] # {} /\ Begin(q, u, "query") /\ Refused
    /\ UNCHANGED <<staff, rbac, sessions, cache, lockout, codes, ghosts>>

QueryPermissions(q) ==
    /\ At(q, "query")
    /\ \E u \in request[q].user :
        request' = [request EXCEPT ![q].at = "fill", ![q].perms = PermsOf(u)]
    /\ UNCHANGED <<staff, rbac, sessions, cache, lockout, codes, ghosts, disturbed>>

\* SETEX of what the query returned, however old that is by now.
FillCache(q) ==
    /\ At(q, "fill")
    /\ \E u \in request[q].user :
        \/ /\ cache' = [cache EXCEPT ![u] = {request[q].perms}] /\ Fine
           /\ blame' = [blame EXCEPT ![u] =
                          IF request[q].perms = PermsOf(u) THEN "none" ELSE "fill"]
        \/ Refused /\ UNCHANGED <<cache, blame>>
    /\ End(q)
    /\ UNCHANGED <<staff, rbac, sessions, lockout, codes, roleless, deaf, timeless>>

CacheExpires(u) ==
    /\ cache[u] # {}
    /\ cache' = [cache EXCEPT ![u] = {}]
    /\ blame' = [blame EXCEPT ![u] = "none"]
    /\ UNCHANGED <<staff, rbac, sessions, lockout, codes, request, roleless, deaf, timeless,
                   disturbed>>

\* invalidate_user_permissions.
Invalidate(u) ==
    \/ /\ Fine /\ cache' = [cache EXCEPT ![u] = {}]
       /\ blame' = [blame EXCEPT ![u] = "none"]
    \/ /\ Refused /\ UNCHANGED cache
       /\ blame' = [blame EXCEPT ![u] = "lost"]

\* update_role: one commit, then the members are read and invalidated one by one.
UpdateRole(q, r, perms) ==
    /\ At(q, "new") /\ r \in registry \ {Superadmin}
    /\ grants' = [grants EXCEPT ![r] = perms]
    /\ request' = [request EXCEPT ![q].at = "members", ![q].role = {r}]
    /\ UNCHANGED <<staff, super, roles, registry, sessions, cache, lockout, codes, ghosts,
                   disturbed>>

Members(r) == {u \in users : r \in roles[u]}

ToInvalidate(q, us) ==
    IF us = {} THEN End(q)
    ELSE request' = [request EXCEPT ![q] = [New EXCEPT !.at = "drop", !.todo = us]]

ReadMembers(q) ==
    /\ At(q, "members")
    /\ \E r \in request[q].role : ToInvalidate(q, Members(r))
    /\ UNCHANGED <<staff, rbac, sessions, cache, lockout, codes, ghosts, disturbed>>

Drop(q) ==
    /\ At(q, "drop")
    /\ \E u \in request[q].todo : Invalidate(u) /\ ToInvalidate(q, request[q].todo \ {u})
    /\ UNCHANGED <<staff, rbac, sessions, lockout, codes, roleless, deaf, timeless>>

-----------------------------------------------------------------------------
(* Roles. *)

\* assign_user_roles, and admin_update_user with a role: the rows the DELETE sees
\* are replaced at the commit.  count is the is_superuser the session loaded.
Deletes(q, u, r) ==
    request' = [request EXCEPT ![q] = [New EXCEPT !.at = "assign", !.user = {u},
        !.role = {r}, !.held = roles[u], !.count = IF u \in super THEN 1 ELSE 0]]

Assign(q, u, r) ==
    /\ At(q, "new") /\ u \in users /\ r \in registry \ {Superadmin}
    /\ Deletes(q, u, r)
    /\ UNCHANGED <<staff, rbac, sessions, cache, lockout, codes, ghosts, disturbed>>

\* Mutated: the cache is not invalidated.
CommitAssignUnseen(q) ==
    /\ At(q, "assign")
    /\ \E u \in request[q].user, r \in request[q].role :
        LET kept == roles[u] \ request[q].held IN
        IF u \in users /\ r \in registry \ kept
        THEN /\ roles' = [roles EXCEPT ![u] = kept \cup {r}]
             /\ super' = IF request[q].count = 1 THEN super \ {u} ELSE super
             /\ End(q)
        ELSE End(q) /\ UNCHANGED <<roles, super>>
    /\ UNCHANGED <<staff, registry, grants, sessions, cache, lockout, codes, ghosts, disturbed>>

\* The user or the role may be gone by now, and another request may have given the
\* same role: then the commit fails and is rolled back.
CommitAssign(q) ==
    /\ At(q, "assign")
    /\ \E u \in request[q].user, r \in request[q].role :
        LET kept == roles[u] \ request[q].held IN
        IF u \in users /\ r \in registry \ kept
        THEN /\ roles' = [roles EXCEPT ![u] = kept \cup {r}]
             /\ super' = IF request[q].count = 1 THEN super \ {u} ELSE super
             /\ ToInvalidate(q, {u})
        ELSE End(q) /\ UNCHANGED <<roles, super>>
    /\ UNCHANGED <<staff, registry, grants, sessions, cache, lockout, codes, ghosts, disturbed>>

\* admin_update_user with is_superuser: the cache is invalidated before the commit.
Toggle(q, u, up) ==
    /\ At(q, "new") /\ u \in users /\ up = (u \notin super)
    /\ Invalidate(u)
    /\ request' = [request EXCEPT ![q].at = "toggle", ![q].user = {u},
           ![q].count = IF up THEN 1 ELSE 0,
           ![q].held = roles[u] \cap {Superadmin}]
    /\ UNCHANGED <<staff, rbac, sessions, lockout, codes, roleless, deaf, timeless>>

\* The role superadmin goes with the flag; a role asked for in the same request is
\* assigned next, unless the user is a superuser.
CommitToggle(q) ==
    /\ At(q, "toggle")
    /\ \E u \in request[q].user :
        LET up == request[q].count = 1
            clash == up /\ Superadmin \in roles[u] \ request[q].held
        IN
        IF u \notin users \/ clash
        THEN End(q) /\ UNCHANGED <<roles, super, blame, roleless>>
        ELSE /\ super' = IF up THEN super \cup {u} ELSE super \ {u}
             /\ roles' = [roles EXCEPT ![u] =
                             IF up THEN @ \cup {Superadmin} ELSE @ \ {Superadmin}]
             /\ BlameCommit({u}, "early", roles', grants)
             /\ roleless' = IF roles'[u] = {} THEN roleless \cup {u} ELSE roleless
             /\ \/ End(q)
                \/ /\ ~up
                   /\ \E r \in registry \ {Superadmin} :
                        request' = [request EXCEPT ![q] = [New EXCEPT !.at = "assign",
                            !.user = {u}, !.role = {r}, !.held = roles'[u]]]
    /\ UNCHANGED <<staff, registry, grants, sessions, cache, lockout, codes, deaf, timeless,
                   disturbed>>

\* create_role: a commit for the role, a second for its permissions.
CreateRole(q, r) ==
    /\ At(q, "new") /\ r \notin registry
    /\ registry' = registry \cup {r}
    /\ request' = [request EXCEPT ![q].at = "grant", ![q].role = {r}]
    /\ UNCHANGED <<staff, super, roles, grants, sessions, cache, lockout, codes, ghosts, disturbed>>

GrantNewRole(q, perms) ==
    /\ At(q, "grant")
    /\ \E r \in request[q].role :
        /\ grants' = [grants EXCEPT ![r] = IF r \in registry THEN perms ELSE @]
        /\ BlameCommit(Members(r), "young", roles, grants')
    /\ End(q)
    /\ UNCHANGED <<staff, super, roles, registry, sessions, cache, lockout, codes, roleless,
                   deaf, timeless, disturbed>>

\* Mutated: the members are not counted.
CountNobody(q, r) ==
    /\ At(q, "new") /\ r \in registry \ Built
    /\ request' = [request EXCEPT ![q].at = "delete", ![q].role = {r},
                                  ![q].todo = Members(r)]
    /\ UNCHANGED <<staff, rbac, sessions, cache, lockout, codes, ghosts, disturbed>>

\* delete_role counts the members, then deletes.
CountMembers(q, r) ==
    /\ At(q, "new") /\ r \in registry \ Built /\ Members(r) = {}
    /\ request' = [request EXCEPT ![q].at = "delete", ![q].role = {r},
                                  ![q].todo = Members(r)]
    /\ UNCHANGED <<staff, rbac, sessions, cache, lockout, codes, ghosts, disturbed>>

\* The rows of user_roles go with the role; todo are those that were counted.
DeleteRole(q) ==
    /\ At(q, "delete")
    /\ \E r \in request[q].role :
        LET late == Members(r) \ request[q].todo IN
        /\ registry' = registry \ {r}
        /\ grants' = [grants EXCEPT ![r] = {}]
        /\ roles' = [u \in User |-> roles[u] \ {r}]
        /\ BlameCommit(late, "removed", roles', grants')
        /\ roleless' = roleless \cup {u \in late : roles'[u] = {}}
    /\ End(q)
    /\ UNCHANGED <<staff, super, sessions, cache, lockout, codes, deaf, timeless, disturbed>>

-----------------------------------------------------------------------------
(* Users. *)

\* register, admin_create_user and the first login of a directory user: the row is
\* committed before its role.  asked: the administrator asks for a superuser, and the
\* first commit makes one.
CreateUser(q, u, asked) ==
    /\ u \notin users \cup gone /\ At(q, "new")
    /\ request' = [request EXCEPT ![q].at = "role", ![q].user = {u},
                                  ![q].count = IF asked THEN 1 ELSE 0]
    /\ users' = users \cup {u} /\ active' = active \cup {u}
    /\ super' = IF asked THEN super \cup {u} ELSE super
    /\ UNCHANGED <<gone, roles, registry, grants, sessions, cache, lockout, codes, ghosts,
                   disturbed>>

\* The default role or the one asked for: superadmin is refused, an id without a role
\* fails at the commit, and the row of the user stays as it was made.  The commit
\* takes back is_superuser; who asked for that and for no role gets none.
GiveRole(q, rs) ==
    /\ At(q, "role") /\ Cardinality(rs) <= 1 /\ (rs = {} => request[q].count = 1)
    /\ \E u \in request[q].user :
        LET commits == u \in users /\ rs \subseteq registry \ (roles[u] \cup {Superadmin})
        IN  /\ roles' = IF commits THEN [roles EXCEPT ![u] = @ \cup rs] ELSE roles
            /\ super' = IF commits /\ request[q].count = 1 THEN super \ {u} ELSE super
            /\ BlameCommit(IF commits THEN {u} ELSE {}, "young", roles', grants)
            /\ roleless' = IF roles'[u] = {} THEN roleless \cup {u} ELSE roleless
    /\ End(q)
    /\ UNCHANGED <<staff, registry, grants, sessions, cache, lockout, codes, deaf,
                   timeless, disturbed>>

\* import_ldap_users: the row and the roles that exist of those asked for, if any.
ImportUser(q, u, rs) ==
    /\ u \notin users \cup gone /\ rs \subseteq registry
    /\ Once(q)
    /\ users' = users \cup {u} /\ active' = active \cup {u}
    /\ roles' = [roles EXCEPT ![u] = rs]
    /\ roleless' = IF rs = {} THEN roleless \cup {u} ELSE roleless
    /\ UNCHANGED <<gone, super, registry, grants, sessions, cache, lockout, codes, blame, deaf,
                   timeless, disturbed>>

\* admin_lock_user, and admin_update_user with is_active.
SetActive(q, u) ==
    /\ Once(q) /\ u \in users
    /\ active' = IF u \in active THEN active \ {u} ELSE active \cup {u}
    /\ UNCHANGED <<users, gone, rbac, sessions, cache, lockout, codes, ghosts, disturbed>>

DeleteUser(q, u) ==
    /\ Once(q) /\ u \in users
    /\ users' = users \ {u} /\ gone' = gone \cup {u}
    /\ active' = active \ {u} /\ super' = super \ {u}
    /\ roles' = [roles EXCEPT ![u] = {}]
    /\ UNCHANGED <<registry, grants, sessions, cache, lockout, codes, ghosts, disturbed>>

-----------------------------------------------------------------------------
(* Logins and sessions. *)

\* login: check_login_attempts, which lets pass when Redis refuses.
Login(q, u) ==
    /\ \/ u \in locked /\ Once(q) /\ Fine
       \/ u \notin locked /\ Begin(q, u, "credentials") /\ Fine
       \/ u \in locked /\ Begin(q, u, "credentials") /\ Refused
    /\ UNCHANGED <<staff, rbac, sessions, cache, lockout, codes, ghosts>>

Accept(q) ==
    /\ At(q, "credentials")
    /\ \E u \in request[q].user \cap active :
        request' = [request EXCEPT ![q].at = "reset", ![q].count = password[u]]
    /\ UNCHANGED <<staff, rbac, sessions, cache, lockout, codes, ghosts, disturbed>>

\* record_failed_login of count attempts: the lock is set from the third step on.
AfterCount(q, count) ==
    IF count >= MaxAttempts
    THEN request' = [request EXCEPT ![q].at = "lock", ![q].count = count]
    ELSE End(q)

\* Mutated: EXPIRE on the second failure instead of the first.
CountFailureUntimed(q) ==
    /\ At(q, "credentials")
    /\ \E u \in request[q].user :
        \/ /\ attempts' = [attempts EXCEPT ![u] = @ + 1] /\ Fine
           /\ IF attempts'[u] = 2
              THEN request' = [request EXCEPT ![q].at = "expire", ![q].count = 1]
              ELSE AfterCount(q, attempts'[u])
        \/ Refused /\ End(q) /\ UNCHANGED attempts
    /\ UNCHANGED <<staff, rbac, sessions, cache, timed, locked, codes, ghosts>>

\* A wrong password, or a user who is unknown or inactive.
CountFailure(q) ==
    /\ At(q, "credentials")
    /\ \E u \in request[q].user :
        \/ /\ attempts' = [attempts EXCEPT ![u] = @ + 1] /\ Fine
           /\ IF attempts'[u] = 1
              THEN request' = [request EXCEPT ![q].at = "expire", ![q].count = 1]
              ELSE AfterCount(q, attempts'[u])
        \/ Refused /\ End(q) /\ UNCHANGED attempts
    /\ UNCHANGED <<staff, rbac, sessions, cache, timed, locked, codes, ghosts>>

\* EXPIRE; when it is refused the failure is not looked at any more.
TimeCounter(q) ==
    /\ At(q, "expire")
    /\ \E u \in request[q].user :
        \/ /\ Fine /\ timed' = IF attempts[u] > 0 THEN timed \cup {u} ELSE timed
           /\ AfterCount(q, 1) /\ UNCHANGED timeless
        \/ Refused /\ End(q) /\ timeless' = timeless \cup {u} /\ UNCHANGED timed
    /\ UNCHANGED <<staff, rbac, sessions, cache, attempts, locked, codes, blame, roleless, deaf>>

LockAccount(q) ==
    /\ At(q, "lock")
    /\ \E u \in request[q].user :
        \/ Fine /\ locked' = locked \cup {u}
        \/ Refused /\ UNCHANGED locked
    /\ End(q)
    /\ UNCHANGED <<staff, rbac, sessions, cache, attempts, timed, codes, ghosts>>

\* reset_login_attempts.
Reset(u) ==
    \/ /\ Fine /\ attempts' = [attempts EXCEPT ![u] = 0]
       /\ timed' = timed \ {u} /\ locked' = locked \ {u}
       /\ timeless' = timeless \ {u}
    \/ Refused /\ UNCHANGED <<lockout, timeless>>

ResetAttempts(q) ==
    /\ At(q, "reset")
    /\ \E u \in request[q].user : Reset(u)
    /\ Go(q, "mint")
    /\ UNCHANGED <<staff, rbac, sessions, cache, codes, blame, roleless, deaf>>

\* admin_unlock_user.
Unlock(q, u) ==
    /\ Once(q) /\ u \in users /\ Reset(u)
    /\ UNCHANGED <<staff, rbac, sessions, cache, codes, blame, roleless, deaf>>

CounterExpires(u) ==
    /\ u \in timed
    /\ attempts' = [attempts EXCEPT ![u] = 0] /\ timed' = timed \ {u}
    /\ UNCHANGED <<staff, rbac, sessions, cache, locked, codes, request, ghosts, disturbed>>

LockExpires(u) ==
    /\ u \in locked /\ locked' = locked \ {u}
    /\ UNCHANGED <<staff, rbac, sessions, cache, attempts, timed, codes, request, ghosts, disturbed>>

\* create_refresh_token_async: the version is read now, whenever the password was
\* looked at; a call Redis refuses reads 0.
Mint(q) ==
    /\ At(q, "mint")
    /\ \E u \in request[q].user :
        \/ /\ Fine
           /\ session' = [session EXCEPT ![q] = {[user |-> u, ver |-> version[u],
                  pw |-> request[q].count, late |-> request[q].count # password[u]]}]
        \/ /\ Refused
           /\ session' = [session EXCEPT ![q] = {[user |-> u, ver |-> 0,
                  pw |-> request[q].count, late |-> request[q].count # password[u]]}]
    /\ IF request[q].old = {} THEN End(q) ELSE Go(q, "retire")
    /\ UNCHANGED <<staff, rbac, password, version, ended, cache, lockout, codes, ghosts>>

Valid(s) == s.user \in users \cap active /\ s.ver = version[s.user]

\* refresh_token: mint anew, then blacklist the old one.
Refresh(q, p) ==
    /\ At(q, "new") /\ p \notin ended
    /\ \E s \in session[p] :
        /\ Valid(s)
        /\ request' = [request EXCEPT ![q].at = "mint", ![q].user = {s.user},
                                      ![q].count = s.pw, ![q].old = {p}]
    /\ UNCHANGED <<staff, rbac, sessions, cache, lockout, codes, ghosts, disturbed>>

Retire(q) ==
    /\ At(q, "retire")
    /\ \/ Fine /\ ended' = ended \cup request[q].old
       \/ Refused /\ UNCHANGED ended
    /\ End(q)
    /\ UNCHANGED <<staff, rbac, password, version, session, cache, lockout, codes, ghosts>>

\* Mutated: the version is not incremented.
ChangePasswordOnly(q, u) ==
    /\ u \in users /\ Once(q)
    /\ password' = [password EXCEPT ![u] = @ + 1]
    /\ UNCHANGED <<staff, rbac, version, session, ended, cache, lockout, codes, ghosts, disturbed>>

\* change_password, admin_reset_password.
ChangePassword(q, u) ==
    /\ u \in users /\ Begin(q, u, "bump")
    /\ password' = [password EXCEPT ![u] = @ + 1]
    /\ UNCHANGED <<staff, rbac, version, session, ended, cache, lockout, codes, ghosts, disturbed>>

\* send_password_reset_email: the code is set, the count of tries is left as it is.
SendCode(q, u) ==
    /\ Once(q) /\ u \in active
    /\ \/ Fine /\ code' = code \cup {u}
       \/ Refused /\ UNCHANGED code
    /\ UNCHANGED <<staff, rbac, sessions, cache, lockout, tries, ghosts>>

CodeExpires(u) ==
    /\ u \in code /\ code' = code \ {u}
    /\ UNCHANGED <<staff, rbac, sessions, cache, lockout, tries, request, ghosts, disturbed>>

\* verify_email_code reads the code and the tries, then acts on what it read: too many
\* tries or the right answer delete both keys, a wrong answer is counted.
ReadCode(q, u) ==
    /\ At(q, "new") /\ u \in users
    /\ IF u \in code
       THEN request' = [request EXCEPT ![q].at = "answer", ![q].user = {u}, ![q].count = tries[u]]
       ELSE End(q)
    /\ UNCHANGED <<staff, rbac, sessions, cache, lockout, codes, ghosts, disturbed>>

AnswerCode(q) ==
    /\ At(q, "answer")
    /\ \E u \in request[q].user :
        \/ /\ request[q].count < MaxAttempts
           /\ tries' = [tries EXCEPT ![u] = request[q].count + 1]
           /\ End(q) /\ UNCHANGED code
        \/ /\ code' = code \ {u} /\ tries' = [tries EXCEPT ![u] = 0]
           /\ IF request[q].count < MaxAttempts THEN Go(q, "commit") ELSE End(q)
    /\ UNCHANGED <<staff, rbac, sessions, cache, lockout, ghosts, disturbed>>

\* verify_and_reset_password, once the code is accepted.
ResetPassword(q) ==
    /\ At(q, "commit")
    /\ \E u \in request[q].user :
        IF u \in users
        THEN password' = [password EXCEPT ![u] = @ + 1] /\ Go(q, "bump")
        ELSE End(q) /\ UNCHANGED password
    /\ UNCHANGED <<staff, rbac, version, session, ended, cache, lockout, codes, ghosts,
                   disturbed>>

IncrementVersion(q) ==
    /\ At(q, "bump")
    /\ \E u \in request[q].user :
        \/ Fine /\ version' = [version EXCEPT ![u] = @ + 1] /\ UNCHANGED deaf
        \/ Refused /\ deaf' = deaf \cup {u} /\ UNCHANGED version
    /\ End(q)
    /\ UNCHANGED <<staff, rbac, password, session, ended, cache, lockout, codes, blame, roleless,
                   timeless>>

-----------------------------------------------------------------------------
\* Users a request has yet to invalidate.
Owed(q) ==
    IF At(q, "members") THEN {u \in users : request[q].role \cap roles[u] # {}}
    ELSE IF At(q, "drop") THEN request[q].todo ELSE {}

\* The process dies, or the client's disconnection cancels the request.
Crash(q) ==
    /\ Refused /\ request[q].at \notin {"new", "done"}
    /\ End(q)
    /\ blame' = [u \in User |-> IF u \in Owed(q) THEN "lost" ELSE blame[u]]
    /\ roleless' = IF At(q, "role") THEN roleless \cup request[q].user ELSE roleless
    /\ deaf' = IF At(q, "bump") THEN deaf \cup request[q].user ELSE deaf
    /\ timeless' = IF At(q, "expire") THEN timeless \cup request[q].user ELSE timeless
    /\ UNCHANGED <<staff, rbac, sessions, cache, lockout, codes>>

Step(q) ==
    \/ QueryPermissions(q) \/ FillCache(q) \/ ReadMembers(q) \/ Drop(q)
    \/ CommitAssign(q) \/ CommitToggle(q) \/ DeleteRole(q)
    \/ Accept(q) \/ CountFailure(q) \/ TimeCounter(q) \/ LockAccount(q)
    \/ ResetAttempts(q) \/ Mint(q) \/ Retire(q) \/ IncrementVersion(q)
    \/ AnswerCode(q) \/ ResetPassword(q) \/ Crash(q)

Start(q) ==
    \/ \E u \in User :
        \/ ReadCache(q, u) \/ SetActive(q, u) \/ DeleteUser(q, u)
        \/ Login(q, u) \/ Unlock(q, u) \/ ChangePassword(q, u)
        \/ SendCode(q, u) \/ ReadCode(q, u)
        \/ \E r \in Role : Assign(q, u, r)
        \/ \E up \in BOOLEAN : Toggle(q, u, up) \/ CreateUser(q, u, up)
        \/ \E rs \in SUBSET Role : ImportUser(q, u, rs)
    \/ \E r \in Role :
        \/ CreateRole(q, r) \/ CountMembers(q, r)
        \/ \E perms \in SUBSET Permission : UpdateRole(q, r, perms)
    \/ \E rs \in SUBSET Role : GiveRole(q, rs)
    \/ \E perms \in SUBSET Permission : GrantNewRole(q, perms)
    \/ \E p \in Request : Refresh(q, p)

Next ==
    \/ \E q \in Request : Step(q) \/ Start(q)
    \/ \E u \in User : CacheExpires(u) \/ CounterExpires(u) \/ LockExpires(u)
                       \/ CodeExpires(u)

Spec == Init /\ [][Next]_vars

-----------------------------------------------------------------------------
\* The permissions cached for a user are those of the database, unless a request is
\* on its way to invalidate them or a named cause made them old: a fill that read
\* before a commit, an invalidation lost or made before its commit, a commit that
\* completes a new role or user, a role deleted while it was being assigned
\* (get_user_permissions, invalidate_user_permissions).
StaleIsExplained ==
    \A u \in users :
        \/ cache[u] \in {{}, {PermsOf(u)}}
        \/ blame[u] # "none"
        \/ \E q \in Request : u \in Owed(q)

\* A user without a role is being created, or the creation stopped between its two
\* commits, or was imported without roles, was demoted, or lost a role deleted while
\* it was being assigned (register, admin_create_user, delete_role).
RolelessIsExplained ==
    \A u \in users :
        \/ roles[u] # {} \/ u \in roleless
        \/ \E q \in Request : At(q, "role") /\ For(q, u)

\* A session minted before a change of password is not accepted once the request
\* that changed it incremented the version (increment_token_version).
SessionsFollowPassword ==
    \A q \in Request \ ended : \A s \in session[q] :
        \/ ~Valid(s) \/ s.pw = password[s.user] \/ s.late \/ s.user \in deaf
        \/ \E p \in Request : At(p, "bump") /\ For(p, s.user)

\* A count of failed logins ends: its key has a time to live or the request that
\* began the count is about to set it, unless that call was lost
\* (record_failed_login sets it on the first failure only).
CountersEnd ==
    \A u \in User :
        \/ attempts[u] = 0 \/ u \in timed \cup timeless
        \/ \E q \in Request : At(q, "expire") /\ For(q, u)
=============================================================================
