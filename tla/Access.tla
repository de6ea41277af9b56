------------------------------- MODULE Access -------------------------------
(***************************************************************************)
(* Accounts, roles and sessions of the API.  Every change of a role, of an  *)
(* assignment or of an account is one transaction that locks an address,    *)
(* role rows by id, then user rows by id, decides on what it reads under    *)
(* those locks, and writes.  Logins and sessions are checked against the    *)
(* auth_version of the account, which every change of its authority or its  *)
(* password moves.                                                          *)
(*                                                                         *)
(* The permissions an administrator needs (users.write, roles.read,         *)
(* roles.write) are one, Manage.  Names, descriptions, roles that are       *)
(* created and invitations are left out; so is the expiry of a session,     *)
(* which ends it as a logout does.                                          *)
(***************************************************************************)
EXTENDS Integers, FiniteSets

CONSTANTS
    RoleIds,    \* ids of roles, in the order they are locked in
    Super,      \* the role of the Super Admins
    UserIds,    \* ids of users, in the order they are locked in
    Permissions, Manage,
    Assigned,   \* the assignments of roles the system may start with
    Requests,   \* transactions that may be open at the same time
    MaxCalls,   \* bound on the transactions begun
    MaxLogins,  \* bound on the logins begun
    Nobody      \* no transaction, no row

ASSUME AccessConstants ==
    /\ RoleIds \subseteq Nat /\ UserIds \subseteq Nat /\ Super \in RoleIds
    /\ Manage \in Permissions /\ Nobody \notin Requests \cup UserIds \cup RoleIds
    /\ IsFiniteSet(Requests)
    /\ \A s \in SUBSET Permissions : s # Nobody
    /\ \A h \in Assigned : h \in [UserIds -> SUBSET RoleIds] /\ \E u \in UserIds : Super \in h[u]
    /\ MaxCalls \in Nat /\ MaxLogins \in Nat

VARIABLES
    permissions,  \* permissions of each role; Nobody once it is deleted
    revision,     \* of each role
    holds,        \* auth_user_roles
    account,      \* "enabled", "disabled" or "deleted"
    auth_version,
    secret,       \* history: which password the account has
    call,         \* the open transaction of each request
    held,         \* who holds the lock on a row or an address
    calls, logins, \* counters of the bounds
    login,        \* a login between reading the account and creating the session
    sessions

accessVars == <<permissions, revision, holds, account, auth_version, secret, call, held,
                calls, logins, login, sessions>>

Lifecycle == {"deactivate", "reactivate", "delete"}

Email(u) == <<0, u>>
Role(r)  == <<1, r>>
User(u)  == <<2, u>>
Keys == {Email(u) : u \in UserIds} \cup {Role(r) : r \in RoleIds} \cup {User(u) : u \in UserIds}

\* Addresses, then roles, then users, each by id.
Before(j, k) == j[1] < k[1] \/ (j[1] = k[1] /\ j[2] < k[2])

Calls == [op : Lifecycle \cup {"assign", "grant", "drop", "renew"},
          actor : UserIds \cup {Nobody}, user : UserIds \cup {Nobody},
          role : RoleIds \cup {Nobody}, roles : SUBSET RoleIds, granted : SUBSET Permissions,
          shown : Nat, stage : {"lock", "write"}, todo : SUBSET Keys]

ASSUME NobodyIsNoCall == Nobody \notin Calls

\* effectivePermissionsTx.
IsSuper(u) == Super \in holds[u]
Authority(u) == UNION {permissions[r] : r \in holds[u]}
Powers(u) == <<IsSuper(u), Authority(u)>>
Manages(u) == account[u] = "enabled" /\ (IsSuper(u) \/ Manage \in Authority(u))

AccessTypeOK ==
    /\ permissions \in [RoleIds -> (SUBSET Permissions) \cup {Nobody}] /\ revision \in [RoleIds -> Nat]
    /\ holds \in [UserIds -> SUBSET RoleIds]
    /\ account \in [UserIds -> {"enabled", "disabled", "deleted"}]
    /\ auth_version \in [UserIds -> Nat] /\ secret \in [UserIds -> Nat]
    /\ call \in [Requests -> Calls \cup {Nobody}] /\ held \in [Keys -> Requests \cup {Nobody}]

AccessInit ==
    /\ permissions \in {[r \in RoleIds |-> IF r = Super THEN {} ELSE s] : s \in {{Manage}, Permissions}}
    /\ revision = [r \in RoleIds |-> 1]
    /\ holds \in Assigned
    /\ account = [u \in UserIds |-> "enabled"]
    /\ auth_version = [u \in UserIds |-> 1] /\ secret = [u \in UserIds |-> 1]
    /\ call = [p \in Requests |-> Nobody] /\ held = [k \in Keys |-> Nobody]
    /\ calls = 0 /\ logins = 0 /\ login = Nobody /\ sessions = {}

accountVars == <<permissions, revision, holds, account, auth_version, secret>>
loginVars == <<logins, login, sessions>>

-----------------------------------------------------------------------------
(* Transactions. *)

RowExists(k) ==
    CASE k[1] = 0 -> TRUE
      [] k[1] = 1 -> permissions[k[2]] # Nobody
      [] k[1] = 2 -> account[k[2]] # "deleted"

RolesOf(u) == IF u = Nobody THEN {} ELSE holds[u]

\* Mutant: only the role that changes and those the user does not have yet.
ChangedRoles(c) == IF c.op = "assign" THEN c.roles \ holds[c.user] ELSE {c.role} \ {Nobody}

\* The roles locked first: those the request names, the actor's and the user's as they
\* are read before any lock, and always the Super Admin role; for a lifecycle all.
LockedRoles(c) ==
    CASE c.op \in Lifecycle -> {r \in RoleIds : permissions[r] # Nobody}
      [] c.op = "assign" -> c.roles \cup {Super} \cup RolesOf(c.actor) \cup RolesOf(c.user)
      [] c.op \in {"grant", "drop"} -> {c.role, Super} \cup RolesOf(c.actor)
      [] c.op = "renew" -> {}

Locks(c) ==
    {Email(u) : u \in IF c.op \in Lifecycle THEN {c.user} ELSE {}}
        \cup {Role(r) : r \in LockedRoles(c)}
        \cup {User(u) : u \in {c.actor, c.user} \ {Nobody}}

Open(p, c) ==
    /\ call[p] = Nobody /\ calls < MaxCalls
    /\ call' = [call EXCEPT ![p] = [c EXCEPT !.todo = Locks(c)]]
    /\ calls' = calls + 1
    /\ UNCHANGED <<accountVars, held, loginVars>>

Asked(op, actor, user, role, roles, granted, shown) ==
    [op |-> op, actor |-> actor, user |-> user, role |-> role, roles |-> roles,
     granted |-> granted, shown |-> shown, stage |-> "lock", todo |-> {}]

\* The service lets only administrators through; what they were shown is current then.
ReplaceUserRoles(p) ==
    \E a, u \in UserIds : \E rs \in (SUBSET RoleIds) \ {{}} :
      Manages(a) /\ Open(p, Asked("assign", a, u, Nobody, rs, {}, auth_version[u]))

MutateUserLifecycle(p) ==
    \E op \in Lifecycle, a, u \in UserIds :
      /\ Manages(a) /\ a # u /\ account[u] # "deleted"
      /\ Open(p, Asked(op, a, u, Nobody, {}, {}, auth_version[u]))

ReplaceRole(p) ==
    \E a \in UserIds, r \in RoleIds : \E s \in SUBSET Permissions :
      Manages(a) /\ Open(p, Asked("grant", a, Nobody, r, {}, s, revision[r]))

DeleteRole(p) ==
    \E a \in UserIds, r \in RoleIds :
      Manages(a) /\ Open(p, Asked("drop", a, Nobody, r, {}, {}, revision[r]))

\* ChangePassword, with the version that was shown, and CompletePasswordReset, which has
\* none: a reset that was asked for is always at hand.
RenewPassword(p) ==
    \E u \in UserIds : \E shown \in {0, auth_version[u]} :
      account[u] = "enabled" /\ Open(p, Asked("renew", Nobody, u, Nobody, {}, {}, shown))

Release(p) ==
    /\ held' = [k \in Keys |-> IF held[k] = p THEN Nobody ELSE held[k]]
    /\ call' = [call EXCEPT ![p] = Nobody]

\* Refused, failed or given up: the transaction is rolled back.
Rollback(p) ==
    call[p] # Nobody /\ Release(p) /\ UNCHANGED <<accountVars, calls, loginVars>>

\* The locks a transaction may wait for now: the least, or, for the users of a role
\* whose auth_version one statement moves, any.
Awaits(c) == IF c.stage = "write" THEN c.todo ELSE {k \in c.todo : \A j \in c.todo \ {k} : Before(k, j)}

TakeLock(p) ==
    /\ call[p] # Nobody
    /\ \E k \in Awaits(call[p]) :
         /\ held[k] \in {Nobody, p}
         /\ RowExists(k) \/ (call[p].op \in Lifecycle /\ k[1] = 1)
         /\ held' = [held EXCEPT ![k] = p]
         /\ call' = [call EXCEPT ![p].todo = @ \ {k}]
    /\ UNCHANGED <<accountVars, calls, loginVars>>

OtherSuper(u) == \E v \in UserIds \ {u} : IsSuper(v) /\ account[v] = "enabled"

\* Mutant: a scope that looks at the roles that are taken away only.
Removed(c) == holds[c.user] \ c.roles

\* changedRoleIDs
Changed(c) == (c.roles \ holds[c.user]) \cup (holds[c.user] \ c.roles)

InScope(a, s) == IsSuper(a) \/ s \subseteq Authority(a)

AssignmentAllowed(c) ==
    /\ auth_version[c.user] = c.shown
    /\ Manages(c.actor)
    /\ \A r \in Changed(c) : IsSuper(c.actor) \/ (r # Super /\ InScope(c.actor, permissions[r]))
    /\ IsSuper(c.user) /\ Super \notin c.roles /\ account[c.user] = "enabled" => OtherSuper(c.user)

LifecycleAllowed(c) ==
    /\ Manages(c.actor)
    /\ auth_version[c.user] = c.shown
    /\ c.op = "deactivate" => account[c.user] = "enabled"
    /\ c.op = "reactivate" => account[c.user] = "disabled"
    /\ c.op # "reactivate" /\ IsSuper(c.user) /\ account[c.user] = "enabled" => OtherSuper(c.user)

RoleChangeAllowed(c) ==
    /\ Manages(c.actor)
    /\ c.role # Super
    /\ InScope(c.actor, permissions[c.role] \cup c.granted)
    /\ c.op = "grant" => revision[c.role] = c.shown
    /\ c.op = "drop" => \A u \in UserIds : c.role \notin holds[u]

Allowed(c) ==
    CASE c.op = "assign" -> AssignmentAllowed(c)
      [] c.op \in Lifecycle -> LifecycleAllowed(c)
      [] c.op \in {"grant", "drop"} -> RoleChangeAllowed(c)
      [] c.op = "renew" -> account[c.user] = "enabled" /\ c.shown \in {0, auth_version[c.user]}

\* Mutant: a role's holders keep their version.
OutdatedNone(c) == IF c.op = "assign" /\ Changed(c) # {} THEN {c.user} ELSE {}

\* Whose auth_version moves because the authority of the account does.
Outdated(c) ==
    CASE c.op = "assign" -> IF Changed(c) # {} THEN {c.user} ELSE {}
      [] c.op = "grant" -> {u \in UserIds : c.role \in holds[u] /\ permissions[c.role] # c.granted}
      [] OTHER -> {}

\* All reads of the transaction, under its locks.
Check(p) ==
    /\ call[p] # Nobody /\ call[p].stage = "lock" /\ call[p].todo = {}
    /\ Allowed(call[p])
    /\ call' = [call EXCEPT ![p].stage = "write", ![p].todo = {User(u) : u \in Outdated(call[p])}]
    /\ UNCHANGED <<accountVars, held, calls, loginVars>>

Bump(users) == auth_version' = [u \in UserIds |-> auth_version[u] + (IF u \in users THEN 1 ELSE 0)]

Write(c) ==
    CASE c.op = "assign" ->
           /\ holds' = [holds EXCEPT ![c.user] = c.roles] /\ Bump(Outdated(c))
           /\ UNCHANGED <<permissions, revision, account, secret, sessions>>
      [] c.op = "grant" ->
           /\ permissions' = [permissions EXCEPT ![c.role] = c.granted]
           /\ revision' = [revision EXCEPT ![c.role] = @ + 1] /\ Bump(Outdated(c))
           /\ UNCHANGED <<holds, account, secret, sessions>>
      [] c.op = "drop" ->
           /\ permissions' = [permissions EXCEPT ![c.role] = Nobody]
           /\ UNCHANGED <<revision, holds, account, auth_version, secret, sessions>>
      [] c.op \in {"deactivate", "reactivate"} ->
           /\ account' = [account EXCEPT ![c.user] = IF c.op = "deactivate" THEN "disabled" ELSE "enabled"]
           /\ Bump({c.user})
           /\ UNCHANGED <<permissions, revision, holds, secret, sessions>>
      [] c.op = "delete" ->
           /\ account' = [account EXCEPT ![c.user] = "deleted"]
           /\ holds' = [holds EXCEPT ![c.user] = {}]
           /\ sessions' = {s \in sessions : s.user # c.user}
           /\ UNCHANGED <<permissions, revision, auth_version, secret>>
      [] c.op = "renew" ->
           /\ secret' = [secret EXCEPT ![c.user] = @ + 1] /\ Bump({c.user})
           /\ UNCHANGED <<permissions, revision, holds, account, sessions>>

Commit(p) ==
    /\ call[p] # Nobody /\ call[p].stage = "write" /\ call[p].todo = {}
    /\ Write(call[p]) /\ Release(p)
    /\ UNCHANGED <<calls, logins, login>>

-----------------------------------------------------------------------------
(* Logins and sessions. *)

\* FindByCanonicalEmail; the password is then verified outside any transaction.
ReadAccount ==
    /\ login = Nobody /\ logins < MaxLogins /\ logins' = logins + 1
    /\ \E u \in UserIds :
         /\ account[u] = "enabled"
         /\ login' = [user |-> u, version |-> auth_version[u], secret |-> secret[u], powers |-> Powers(u)]
    /\ UNCHANGED <<accountVars, call, held, calls, sessions>>

StillThatAccount(l) == account[l.user] = "enabled" /\ auth_version[l.user] = l.version

\* CreateVersioned waits for whoever is writing the account.
CreateSession ==
    /\ login # Nobody /\ held[User(login.user)] = Nobody
    /\ sessions' = IF StillThatAccount(login) THEN sessions \cup {login} ELSE sessions
    /\ login' = Nobody
    /\ UNCHANGED <<accountVars, call, held, calls, logins>>

Logout ==
    /\ \E s \in sessions : sessions' = sessions \ {s}
    /\ UNCHANGED <<accountVars, call, held, calls, logins, login>>

AccessNext ==
    \/ \E p \in Requests :
         \/ ReplaceUserRoles(p) \/ MutateUserLifecycle(p) \/ ReplaceRole(p) \/ DeleteRole(p)
         \/ RenewPassword(p)
         \/ TakeLock(p) \/ Check(p) \/ Commit(p) \/ Rollback(p)
    \/ ReadAccount \/ CreateSession \/ Logout

AccessSpec == AccessInit /\ [][AccessNext]_accessVars

-----------------------------------------------------------------------------
(* Properties. *)

\* However administrators demote, disable and delete each other at the same time, an
\* enabled Super Admin remains.
AdministratorRemains == \E u \in UserIds : IsSuper(u) /\ account[u] = "enabled"

\* A session that is still accepted belongs to a login with the password the account has
\* and to the authority it has: no interleaving of a login with a change of roles, of
\* permissions, of the account or of its password leaves an older one usable.
\* (current compares the session's version with that of the enabled account.)
SessionsOfThisAuthority ==
    \A s \in sessions :
      account[s.user] = "enabled" /\ auth_version[s.user] = s.version =>
        s.powers = Powers(s.user) /\ s.secret = secret[s.user]

\* "All callers acquire role locks in UUID order before locking their owning row": no
\* transactions wait for each other in a circle, the users of a changed role included.
NoCircle ==
    LET MayWait(p, q) == call[p] # Nobody /\ p # q /\ \E k \in Awaits(call[p]) : held[k] = q
    IN  \A S \in (SUBSET Requests) \ {{}} : \E p \in S : \A q \in S : ~MayWait(p, q)

\* What anybody can do only grows by a transaction whose actor, at the commit, is an
\* enabled administrator who is a Super Admin or may do as much.
GrantsWithinScope ==
    [][\A u \in UserIds :
         (IsSuper(u)' /\ ~IsSuper(u)) \/ Authority(u)' \ Authority(u) # {} =>
           \E p \in Requests :
             /\ Commit(p) /\ Manages(call[p].actor)
             /\ \/ IsSuper(call[p].actor)
                \/ ~(IsSuper(u)' /\ ~IsSuper(u)) /\ Authority(u)' \ Authority(u) \subseteq Authority(call[p].actor)
      ]_accessVars

\* Nobody grants what he may not do; a session that is accepted has the authority and the
\* password of its account; and transactions never wait for each other in a circle.
AccessKept == GrantsWithinScope /\ [](SessionsOfThisAuthority /\ NoCircle /\ AccessTypeOK)
=============================================================================
