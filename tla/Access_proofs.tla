--------------------------- MODULE Access_proofs ---------------------------
(***************************************************************************)
(* However many administrators change roles, assignments and accounts at   *)
(* the same time:                                                          *)
(*  - an enabled Super Admin remains: the lock on the row of the Super     *)
(*    Admin role is what a demotion, a deactivation and a deletion have in *)
(*    common, and what they decided under it holds until they commit;      *)
(*  - no transactions wait for each other in a circle: every lock that is  *)
(*    waited for comes after those that are held, in one order;            *)
(*  - nobody grants what he may not do by then, and a session stands for   *)
(*    the authority and the password its account has.                      *)
(***************************************************************************)
EXTENDS Access, FiniteSetTheorems, WellFoundedInduction, TLAPS

Demotions == Lifecycle \cup {"assign"}

\* A request names who asks, and the user or the role its operation is about.
NamesIt(c) ==
    /\ IF c.op = "renew" THEN c.actor = Nobody ELSE c.actor \in UserIds
    /\ c.op \in Demotions \cup {"renew"} => c.user \in UserIds
    /\ c.op \in {"grant", "drop"} => c.role \in RoleIds

Named == \A p \in Requests : call[p] # Nobody => NamesIt(call[p])

\* The Super Admin role is never deleted.
SuperKept ==
    /\ permissions[Super] # Nobody
    /\ \A p \in Requests :
         call[p] # Nobody /\ call[p].stage = "write" /\ call[p].op \in {"grant", "drop"} =>
           call[p].role # Super

\* A demotion has the Super Admin role's lock once it is through with locking.
SuperLocked ==
    \A p \in Requests : call[p] # Nobody /\ call[p].op \in Demotions =>
      \/ call[p].stage = "lock" /\ Role(Super) \in call[p].todo
      \/ held[Role(Super)] = p

Demotes(c) ==
    /\ c.op \in {"assign", "deactivate", "delete"}
    /\ IsSuper(c.user) /\ account[c.user] = "enabled"
    /\ c.op = "assign" => Super \notin c.roles

\* What a demotion has checked still holds.
OtherKept ==
    \A p \in Requests :
      call[p] # Nobody /\ call[p].stage = "write" /\ Demotes(call[p]) => OtherSuper(call[p].user)

AccessInv ==
    /\ AccessTypeOK /\ Named /\ SuperKept /\ SuperLocked /\ OtherKept /\ AdministratorRemains

\* The Super Admin role has a lock, and its key is no user's.
LEMMA SuperKey == Role(Super) \in Keys
  BY AccessConstants DEF Keys

\* Locks only cover rows there are.
LEMMA LocksType ==
  ASSUME AccessTypeOK, NEW c \in Calls, NamesIt(c)
  PROVE  Locks(c) \subseteq Keys
  <1>1. CASE c.op \in Lifecycle
    <2>1. LockedRoles(c) \subseteq RoleIds /\ c.user \in UserIds
      BY <1>1 DEF LockedRoles, NamesIt, Demotions, Lifecycle
    <2>2. {Email(c.user), User(c.user)} \subseteq Keys /\ {Role(r) : r \in LockedRoles(c)} \subseteq Keys
      BY <2>1 DEF Keys
    <2> QED BY <1>1, <2>2 DEF Locks, Calls, Keys
  <1>2. CASE c.op \notin Lifecycle
    <2>1. LockedRoles(c) \subseteq RoleIds
      <3>1. RolesOf(c.actor) \subseteq RoleIds /\ RolesOf(c.user) \subseteq RoleIds
        BY DEF RolesOf, AccessTypeOK, Calls
      <3>2. c.roles \subseteq RoleIds /\ (c.op \in {"grant", "drop"} => c.role \in RoleIds)
        BY DEF Calls, NamesIt
      <3>3. c.op \in {"assign", "grant", "drop", "renew"}
        BY <1>2 DEF Calls
      <3> QED BY <1>2, <3>1, <3>2, <3>3, AccessConstants DEF LockedRoles, Lifecycle
    <2>2. {Role(r) : r \in LockedRoles(c)} \subseteq Keys
      BY <2>1 DEF Keys
    <2>3. {User(u) : u \in {c.actor, c.user} \ {Nobody}} \subseteq Keys
      BY DEF Keys, Calls
    <2> QED BY <1>2, <2>2, <2>3 DEF Locks
  <1> QED BY <1>1, <1>2

\* Every demotion locks the Super Admin role.
LEMMA LocksSuper ==
  ASSUME SuperKept, NEW c, c.op \in Demotions
  PROVE  Role(Super) \in Locks(c)
  <1>1. Super \in LockedRoles(c)
    BY AccessConstants DEF LockedRoles, Demotions, Lifecycle, SuperKept
  <1> QED BY <1>1 DEF Locks

\* The system starts with an enabled Super Admin and nothing under way.
LEMMA Initially == AccessInit => AccessInv
  <1> SUFFICES ASSUME AccessInit PROVE AccessInv
    OBVIOUS
  <1>1. permissions \in [RoleIds -> (SUBSET Permissions) \cup {Nobody}] /\ permissions[Super] = {}
    <2>1. PICK s \in {{Manage}, Permissions} : permissions = [r \in RoleIds |-> IF r = Super THEN {} ELSE s]
      BY DEF AccessInit
    <2>2. Super \in RoleIds /\ s \in SUBSET Permissions /\ {} \in SUBSET Permissions
      BY AccessConstants
    <2> QED BY <2>1, <2>2
  <1>2. holds \in [UserIds -> SUBSET RoleIds] /\ \E u \in UserIds : Super \in holds[u]
    BY AccessConstants DEF AccessInit
  <1>3. AccessTypeOK
    BY <1>1, <1>2 DEF AccessInit, AccessTypeOK
  <1>4. Named /\ SuperLocked /\ OtherKept
    BY DEF AccessInit, Named, SuperLocked, OtherKept
  <1>5. SuperKept
    BY <1>1, AccessConstants DEF AccessInit, SuperKept
  <1>6. AdministratorRemains
    BY <1>2 DEF AccessInit, AdministratorRemains, IsSuper
  <1> QED BY <1>3, <1>4, <1>5, <1>6 DEF AccessInv

\* A transaction begins with its locks to take and has decided nothing yet.
LEMMA OpenKeeps ==
  ASSUME AccessInv, NEW p \in Requests, NEW c \in Calls, NamesIt(c), c.stage = "lock", Open(p, c)
  PROVE  AccessInv'
  <1> DEFINE d == [c EXCEPT !.todo = Locks(c)]
  <1>1. call' = [call EXCEPT ![p] = d] /\ UNCHANGED <<accountVars, held>>
    BY DEF Open
  <1>2. d \in Calls /\ d.stage = "lock" /\ d.todo = Locks(c) /\ d.op = c.op /\ NamesIt(d)
    BY LocksType DEF AccessInv, Calls, NamesIt
  <1>3. \A q \in Requests : call'[q] = IF q = p THEN d ELSE call[q]
    BY <1>1 DEF AccessInv, AccessTypeOK
  <1> HIDE DEF d
  <1>4. AccessTypeOK'
    BY <1>1, <1>2 DEF AccessInv, AccessTypeOK, accountVars
  <1>5. Named'
    BY <1>2, <1>3 DEF AccessInv, Named, NamesIt
  <1>6. SuperKept'
    BY <1>1, <1>2, <1>3 DEF AccessInv, SuperKept, accountVars
  <1>7. SuperLocked'
    BY <1>1, <1>2, <1>3, LocksSuper DEF AccessInv, SuperLocked
  <1>8. OtherKept'
    BY <1>1, <1>2, <1>3 DEF AccessInv, OtherKept, Demotes, OtherSuper, IsSuper, accountVars
  <1>9. AdministratorRemains'
    BY <1>1 DEF AccessInv, AdministratorRemains, IsSuper, accountVars
  <1> QED BY <1>4, <1>5, <1>6, <1>7, <1>8, <1>9 DEF AccessInv

\* What the handlers ask for is well formed.
LEMMA AskedType ==
  ASSUME NEW op \in Lifecycle \cup {"assign", "grant", "drop", "renew"},
         NEW a \in UserIds \cup {Nobody}, NEW u \in UserIds \cup {Nobody},
         NEW r \in RoleIds \cup {Nobody}, NEW rs \in SUBSET RoleIds, NEW s \in SUBSET Permissions,
         NEW n \in Nat,
         op \in Demotions \cup {"renew"} => u \in UserIds, op \in {"grant", "drop"} => r \in RoleIds,
         IF op = "renew" THEN a = Nobody ELSE a \in UserIds
  PROVE  LET c == Asked(op, a, u, r, rs, s, n)
         IN  c \in Calls /\ NamesIt(c) /\ c.stage = "lock"
  BY DEF Asked, Calls, NamesIt

\* The five ways a transaction begins.
LEMMA BeginOpens ==
  ASSUME AccessTypeOK, NEW p \in Requests,
         \/ ReplaceUserRoles(p) \/ MutateUserLifecycle(p) \/ ReplaceRole(p) \/ DeleteRole(p)
         \/ RenewPassword(p)
  PROVE  \E c \in Calls : NamesIt(c) /\ c.stage = "lock" /\ Open(p, c)
  <1>1. auth_version \in [UserIds -> Nat] /\ revision \in [RoleIds -> Nat]
    BY DEF AccessTypeOK
  <1>2. CASE ReplaceUserRoles(p)
    <2>1. PICK a \in UserIds, u \in UserIds, rs \in SUBSET RoleIds :
            Open(p, Asked("assign", a, u, Nobody, rs, {}, auth_version[u]))
      BY <1>2 DEF ReplaceUserRoles
    <2> QED BY <1>1, <2>1, AskedType
  <1>3. CASE MutateUserLifecycle(p)
    <2>1. PICK op \in Lifecycle, a \in UserIds, u \in UserIds :
            Open(p, Asked(op, a, u, Nobody, {}, {}, auth_version[u]))
      BY <1>3 DEF MutateUserLifecycle
    <2>2. op \notin {"grant", "drop", "renew"}
      BY DEF Lifecycle
    <2>3. LET c == Asked(op, a, u, Nobody, {}, {}, auth_version[u])
          IN  c \in Calls /\ NamesIt(c) /\ c.stage = "lock"
      BY <1>1, <2>2, AskedType
    <2> QED BY <2>1, <2>3
  <1>4. CASE ReplaceRole(p)
    <2>1. PICK a \in UserIds, r \in RoleIds, s \in SUBSET Permissions :
            Open(p, Asked("grant", a, Nobody, r, {}, s, revision[r]))
      BY <1>4 DEF ReplaceRole
    <2>2. "grant" \notin Demotions \cup {"renew"}
      BY DEF Demotions, Lifecycle
    <2>3. LET c == Asked("grant", a, Nobody, r, {}, s, revision[r])
          IN  c \in Calls /\ NamesIt(c) /\ c.stage = "lock"
      BY <1>1, <2>2 DEF Asked, Calls, NamesIt
    <2> QED BY <2>1, <2>3
  <1>5. CASE DeleteRole(p)
    <2>1. PICK a \in UserIds, r \in RoleIds : Open(p, Asked("drop", a, Nobody, r, {}, {}, revision[r]))
      BY <1>5 DEF DeleteRole
    <2>2. "drop" \notin Demotions \cup {"renew"}
      BY DEF Demotions, Lifecycle
    <2>3. LET c == Asked("drop", a, Nobody, r, {}, {}, revision[r])
          IN  c \in Calls /\ NamesIt(c) /\ c.stage = "lock"
      BY <1>1, <2>2 DEF Asked, Calls, NamesIt
    <2> QED BY <2>1, <2>3
  <1>6. CASE RenewPassword(p)
    <2>1. PICK u \in UserIds : \E n \in {0, auth_version[u]} :
            Open(p, Asked("renew", Nobody, u, Nobody, {}, {}, n))
      BY <1>6 DEF RenewPassword
    <2>2. PICK n \in Nat : Open(p, Asked("renew", Nobody, u, Nobody, {}, {}, n))
      BY <1>1, <2>1
    <2> QED BY <2>2, AskedType
  <1> QED BY <1>2, <1>3, <1>4, <1>5, <1>6

\* A transaction that begins keeps the invariant.
LEMMA BeginKeeps ==
  ASSUME AccessInv, NEW p \in Requests,
         \/ ReplaceUserRoles(p) \/ MutateUserLifecycle(p) \/ ReplaceRole(p) \/ DeleteRole(p)
         \/ RenewPassword(p)
  PROVE  AccessInv'
  <1>1. PICK c \in Calls : NamesIt(c) /\ c.stage = "lock" /\ Open(p, c)
    BY BeginOpens DEF AccessInv
  <1> QED BY <1>1, OpenKeeps

\* A transaction takes the lock it waits for, and nobody else loses one.
LEMMA TakeLockKeeps ==
  ASSUME AccessInv, NEW p \in Requests, TakeLock(p)
  PROVE  AccessInv'
  <1>1. PICK k \in Awaits(call[p]) :
          /\ held[k] \in {Nobody, p}
          /\ held' = [held EXCEPT ![k] = p]
          /\ call' = [call EXCEPT ![p].todo = @ \ {k}]
    BY DEF TakeLock
  <1>2. call[p] \in Calls /\ k \in call[p].todo /\ k \in Keys
    BY <1>1 DEF TakeLock, AccessInv, AccessTypeOK, Awaits, Calls
  <1> DEFINE d == [call[p] EXCEPT !.todo = @ \ {k}]
  <1>3. /\ d \in Calls /\ d.stage = call[p].stage /\ d.op = call[p].op /\ d.user = call[p].user
        /\ d.actor = call[p].actor /\ d.role = call[p].role /\ d.roles = call[p].roles /\ d.todo = call[p].todo \ {k}
    BY <1>2 DEF Calls
  <1>4. \A q \in Requests : call'[q] = IF q = p THEN d ELSE call[q]
    BY <1>1, <1>2 DEF AccessInv, AccessTypeOK
  <1>5. UNCHANGED accountVars
    BY DEF TakeLock
  <1>6. call[p] # Nobody
    BY DEF TakeLock
  <1> HIDE DEF d
  <1>7. AccessTypeOK'
    BY <1>1, <1>2, <1>3, <1>4, <1>5 DEF AccessInv, AccessTypeOK, accountVars
  <1>8. Named'
    BY <1>3, <1>4, <1>6 DEF AccessInv, Named, NamesIt
  <1>9. SuperKept'
    BY <1>3, <1>4, <1>5, <1>6 DEF AccessInv, SuperKept, accountVars
  <1>10. SuperLocked'
    <2> SUFFICES ASSUME NEW q \in Requests, call'[q] # Nobody, call'[q].op \in Demotions,
                        held'[Role(Super)] # q
                 PROVE  call'[q].stage = "lock" /\ Role(Super) \in call'[q].todo
      BY DEF SuperLocked
    <2>1. held \in [Keys -> Requests \cup {Nobody}] /\ Nobody \notin Requests
      BY AccessConstants DEF AccessInv, AccessTypeOK
    <2>2. held'[Role(Super)] = IF k = Role(Super) THEN p ELSE held[Role(Super)]
      BY <1>1, <2>1, SuperKey
    <2>3. CASE q = p
      BY <1>3, <1>4, <1>6, <2>2, <2>3 DEF AccessInv, SuperLocked
    <2>4. CASE q # p
      BY <1>1, <1>4, <2>1, <2>2, <2>4 DEF AccessInv, SuperLocked
    <2> QED BY <2>3, <2>4
  <1>11. OtherKept'
    BY <1>3, <1>4, <1>5, <1>6 DEF AccessInv, OtherKept, Demotes, OtherSuper, IsSuper, accountVars
  <1>12. AdministratorRemains'
    BY <1>5 DEF AccessInv, AdministratorRemains, IsSuper, accountVars
  <1> QED BY <1>7, <1>8, <1>9, <1>10, <1>11, <1>12 DEF AccessInv

\* What a transaction decides it decides with all its locks.
LEMMA CheckKeeps ==
  ASSUME AccessInv, NEW p \in Requests, Check(p)
  PROVE  AccessInv'
  <1> DEFINE c == call[p]
             d == [c EXCEPT !.stage = "write", !.todo = {User(u) : u \in Outdated(c)}]
  <1>1. /\ c # Nobody /\ c.stage = "lock" /\ c.todo = {} /\ Allowed(c)
        /\ call' = [call EXCEPT ![p] = d] /\ UNCHANGED <<accountVars, held>>
    BY DEF Check
  <1>2. c \in Calls /\ NamesIt(c)
    BY <1>1 DEF AccessInv, AccessTypeOK, Named
  <1>3. Outdated(c) \subseteq UserIds
    BY <1>2 DEF Outdated, NamesIt, Demotions
  <1>4. {User(u) : u \in Outdated(c)} \subseteq Keys
    BY <1>3 DEF Keys
  <1>5. /\ d \in Calls /\ d.stage = "write" /\ d.op = c.op /\ d.user = c.user
        /\ d.actor = c.actor /\ d.role = c.role /\ d.roles = c.roles
    BY <1>2, <1>4 DEF Calls
  <1>6. \A q \in Requests : call'[q] = IF q = p THEN d ELSE call[q]
    BY <1>1 DEF AccessInv, AccessTypeOK
  <1> HIDE DEF d
  <1>7. AccessTypeOK'
    BY <1>1, <1>5 DEF AccessInv, AccessTypeOK, accountVars
  <1>8. Named'
    BY <1>1, <1>2, <1>5, <1>6 DEF AccessInv, Named, NamesIt
  <1>9. SuperKept'
    <2>1. c.op \in {"grant", "drop"} => c.role # Super
      BY <1>1 DEF Allowed, RoleChangeAllowed, Lifecycle
    <2> QED BY <1>1, <1>5, <1>6, <2>1 DEF AccessInv, SuperKept, accountVars
  <1>10. SuperLocked'
    <2>1. c.op \in Demotions => held[Role(Super)] = p
      BY <1>1 DEF AccessInv, SuperLocked
    <2> QED BY <1>1, <1>5, <1>6, <2>1 DEF AccessInv, SuperLocked
  <1>11. OtherKept'
    <2>1. Demotes(c) => OtherSuper(c.user)
      <3>1. CASE c.op = "assign"
        BY <1>1, <3>1 DEF Allowed, AssignmentAllowed, Demotes, Lifecycle
      <3>2. CASE c.op \in {"deactivate", "delete"}
        BY <1>1, <3>2 DEF Allowed, LifecycleAllowed, Demotes, Lifecycle
      <3> QED BY <3>1, <3>2 DEF Demotes
    <2> QED BY <1>1, <1>5, <1>6, <2>1 DEF AccessInv, OtherKept, Demotes, OtherSuper, IsSuper, accountVars
  <1>12. AdministratorRemains'
    BY <1>1 DEF AccessInv, AdministratorRemains, IsSuper, accountVars
  <1> QED BY <1>7, <1>8, <1>9, <1>10, <1>11, <1>12 DEF AccessInv

\* A transaction that ends gives back its own locks only.
LEMMA ReleaseKeeps ==
  ASSUME AccessTypeOK, Named, SuperLocked, NEW p \in Requests, Release(p)
  PROVE  /\ call' \in [Requests -> Calls \cup {Nobody}] /\ held' \in [Keys -> Requests \cup {Nobody}]
         /\ \A q \in Requests : call'[q] = IF q = p THEN Nobody ELSE call[q]
         /\ Named' /\ SuperLocked'
  <1>1. /\ call' = [call EXCEPT ![p] = Nobody]
        /\ held' = [k \in Keys |-> IF held[k] = p THEN Nobody ELSE held[k]]
    BY DEF Release
  <1>2. call' \in [Requests -> Calls \cup {Nobody}] /\ held' \in [Keys -> Requests \cup {Nobody}]
    BY <1>1 DEF AccessTypeOK
  <1>3. \A q \in Requests : call'[q] = IF q = p THEN Nobody ELSE call[q]
    BY <1>1 DEF AccessTypeOK
  <1>4. Named'
    BY <1>3 DEF Named, NamesIt
  <1>5. held'[Role(Super)] = IF held[Role(Super)] = p THEN Nobody ELSE held[Role(Super)]
    BY <1>1, SuperKey
  <1>6. SuperLocked'
    BY <1>3, <1>5 DEF SuperLocked
  <1> QED BY <1>2, <1>3, <1>4, <1>6

\* A rollback changes no row.
LEMMA RollbackKeeps ==
  ASSUME AccessInv, NEW p \in Requests, Rollback(p)
  PROVE  AccessInv'
  <1>1. Release(p) /\ UNCHANGED accountVars
    BY DEF Rollback
  <1>2. /\ call' \in [Requests -> Calls \cup {Nobody}] /\ held' \in [Keys -> Requests \cup {Nobody}]
        /\ \A q \in Requests : call'[q] = IF q = p THEN Nobody ELSE call[q]
        /\ Named' /\ SuperLocked'
    BY <1>1, ReleaseKeeps DEF AccessInv
  <1>3. AccessTypeOK'
    BY <1>1, <1>2 DEF AccessInv, AccessTypeOK, accountVars
  <1>4. SuperKept'
    BY <1>1, <1>2 DEF AccessInv, SuperKept, accountVars
  <1>5. OtherKept' /\ AdministratorRemains'
    BY <1>1, <1>2 DEF AccessInv, OtherKept, Demotes, OtherSuper, AdministratorRemains, IsSuper, accountVars
  <1> QED BY <1>2, <1>3, <1>4, <1>5 DEF AccessInv

\* What each operation writes.
LEMMA WriteEffects ==
  ASSUME AccessTypeOK, NEW c \in Calls, NamesIt(c), Write(c),
         SuperKept, c.op \in {"grant", "drop"} => c.role # Super
  PROVE  /\ permissions' \in [RoleIds -> (SUBSET Permissions) \cup {Nobody}] /\ revision' \in [RoleIds -> Nat]
         /\ holds' \in [UserIds -> SUBSET RoleIds]
         /\ account' \in [UserIds -> {"enabled", "disabled", "deleted"}]
         /\ auth_version' \in [UserIds -> Nat] /\ secret' \in [UserIds -> Nat]
         /\ permissions'[Super] = permissions[Super]
         /\ c.op \notin Demotions => UNCHANGED <<holds, account>>
         /\ c.op \in Demotions =>
              \A v \in UserIds \ {c.user} : holds'[v] = holds[v] /\ account'[v] = account[v]
         /\ c.op \in Demotions /\ IsSuper(c.user) /\ account[c.user] = "enabled" =>
              Demotes(c) \/ (Super \in holds'[c.user] /\ account'[c.user] = "enabled")
  <1>0. Super \in RoleIds
    BY AccessConstants
  <1>1. ASSUME NEW users, Bump(users) PROVE auth_version' \in [UserIds -> Nat]
    BY <1>1 DEF Bump, AccessTypeOK
  <1>2. CASE c.op = "assign"
    <2>1. /\ holds' = [holds EXCEPT ![c.user] = c.roles] /\ Bump(Outdated(c))
          /\ UNCHANGED <<permissions, revision, account, secret>>
      BY <1>2 DEF Write, Lifecycle
    <2>2. c.user \in UserIds /\ c.roles \in SUBSET RoleIds
      BY <1>2 DEF NamesIt, Demotions, Calls
    <2>3. holds' \in [UserIds -> SUBSET RoleIds] /\ holds'[c.user] = c.roles
      BY <2>1, <2>2 DEF AccessTypeOK
    <2>4. \A v \in UserIds \ {c.user} : holds'[v] = holds[v]
      BY <2>1 DEF AccessTypeOK
    <2>5. auth_version' \in [UserIds -> Nat]
      BY <1>1, <2>1
    <2>6. IsSuper(c.user) /\ account[c.user] = "enabled" =>
            Demotes(c) \/ (Super \in holds'[c.user] /\ account'[c.user] = "enabled")
      BY <1>2, <2>1, <2>3 DEF Demotes
    <2>7. c.op \in Demotions
      BY <1>2 DEF Demotions
    <2> QED BY <2>1, <2>3, <2>4, <2>5, <2>6, <2>7 DEF AccessTypeOK
  <1>3. CASE c.op = "grant"
    <2>1. /\ permissions' = [permissions EXCEPT ![c.role] = c.granted]
          /\ revision' = [revision EXCEPT ![c.role] = @ + 1] /\ Bump(Outdated(c))
          /\ UNCHANGED <<holds, account, secret>>
      BY <1>3 DEF Write, Lifecycle
    <2>2. c.role \in RoleIds /\ c.granted \in SUBSET Permissions /\ c.role # Super
      BY <1>3 DEF NamesIt, Calls
    <2>3. permissions' \in [RoleIds -> (SUBSET Permissions) \cup {Nobody}] /\ revision' \in [RoleIds -> Nat]
      <3>1. permissions \in [RoleIds -> (SUBSET Permissions) \cup {Nobody}] /\ revision \in [RoleIds -> Nat]
        BY DEF AccessTypeOK
      <3>2. c.granted \in (SUBSET Permissions) \cup {Nobody}
        BY <2>2
      <3>3. permissions' \in [RoleIds -> (SUBSET Permissions) \cup {Nobody}]
        BY <2>1, <3>1, <3>2, Zenon
      <3>4. revision' \in [RoleIds -> Nat]
        BY <2>1, <2>2, <3>1
      <3> QED BY <3>3, <3>4
    <2>4. permissions'[Super] = permissions[Super]
      BY <1>0, <2>1, <2>2 DEF AccessTypeOK
    <2>5. auth_version' \in [UserIds -> Nat]
      BY <1>1, <2>1
    <2>6. c.op \notin Demotions
      BY <1>3 DEF Demotions, Lifecycle
    <2> QED BY <2>1, <2>3, <2>4, <2>5, <2>6 DEF AccessTypeOK
  <1>4. CASE c.op = "drop"
    <2>1. /\ permissions' = [permissions EXCEPT ![c.role] = Nobody]
          /\ UNCHANGED <<revision, holds, account, auth_version, secret>>
      BY <1>4 DEF Write, Lifecycle
    <2>2. c.role # Super
      BY <1>4
    <2>3. permissions' \in [RoleIds -> (SUBSET Permissions) \cup {Nobody}]
      <3>1. permissions \in [RoleIds -> (SUBSET Permissions) \cup {Nobody}]
        BY DEF AccessTypeOK
      <3>2. Nobody \in (SUBSET Permissions) \cup {Nobody}
        OBVIOUS
      <3> QED BY <2>1, <3>1, <3>2, Zenon
    <2>4. permissions'[Super] = permissions[Super]
      BY <1>0, <2>1, <2>2 DEF AccessTypeOK
    <2>5. c.op \notin Demotions
      BY <1>4 DEF Demotions, Lifecycle
    <2> QED BY <2>1, <2>3, <2>4, <2>5 DEF AccessTypeOK
  <1>5. CASE c.op \in {"deactivate", "reactivate"}
    <2>1. /\ account' = [account EXCEPT ![c.user] = IF c.op = "deactivate" THEN "disabled" ELSE "enabled"]
          /\ Bump({c.user}) /\ UNCHANGED <<permissions, revision, holds, secret>>
      BY <1>5 DEF Write
    <2>2. c.user \in UserIds
      BY <1>5 DEF NamesIt, Demotions, Lifecycle
    <2>3. account' \in [UserIds -> {"enabled", "disabled", "deleted"}]
      BY <2>1, <2>2 DEF AccessTypeOK
    <2>4. c.op = "reactivate" => account'[c.user] = "enabled"
      BY <2>1, <2>2 DEF AccessTypeOK
    <2>5. \A v \in UserIds \ {c.user} : account'[v] = account[v]
      BY <2>1 DEF AccessTypeOK
    <2> QED BY <1>1, <1>5, <2>1, <2>3, <2>4, <2>5 DEF AccessTypeOK, Demotes, Demotions, Lifecycle, IsSuper
  <1>6. CASE c.op = "delete"
    <2>1. /\ account' = [account EXCEPT ![c.user] = "deleted"]
          /\ holds' = [holds EXCEPT ![c.user] = {}]
          /\ UNCHANGED <<permissions, revision, auth_version, secret>>
      BY <1>6 DEF Write, Lifecycle
    <2>2. c.user \in UserIds
      BY <1>6 DEF NamesIt, Demotions, Lifecycle
    <2>3. /\ holds' \in [UserIds -> SUBSET RoleIds]
          /\ account' \in [UserIds -> {"enabled", "disabled", "deleted"}]
      BY <2>1, <2>2 DEF AccessTypeOK
    <2>4. \A v \in UserIds \ {c.user} : holds'[v] = holds[v] /\ account'[v] = account[v]
      BY <2>1 DEF AccessTypeOK
    <2>5. IsSuper(c.user) /\ account[c.user] = "enabled" => Demotes(c)
      BY <1>6 DEF Demotes
    <2>6. c.op \in Demotions
      BY <1>6 DEF Demotions, Lifecycle
    <2> QED BY <2>1, <2>3, <2>4, <2>5, <2>6 DEF AccessTypeOK
  <1>7. CASE c.op = "renew"
    <2>1. /\ secret' = [secret EXCEPT ![c.user] = @ + 1] /\ Bump({c.user})
          /\ UNCHANGED <<permissions, revision, holds, account>>
      BY <1>7 DEF Write, Lifecycle
    <2>2. c.user \in UserIds
      BY <1>7 DEF NamesIt
    <2>3. secret' \in [UserIds -> Nat]
      BY <2>1, <2>2 DEF AccessTypeOK
    <2>4. auth_version' \in [UserIds -> Nat]
      BY <1>1, <2>1
    <2>5. c.op \notin Demotions
      BY <1>7 DEF Demotions, Lifecycle
    <2> QED BY <2>1, <2>3, <2>4, <2>5 DEF AccessTypeOK
  <1>8. c.op \in {"assign", "grant", "drop", "deactivate", "reactivate", "delete", "renew"}
    BY DEF Calls, Lifecycle
  <1> QED BY <1>2, <1>3, <1>4, <1>5, <1>6, <1>7, <1>8

\* A commit leaves an enabled Super Admin, and does not touch what others have decided on.
LEMMA CommitKeeps ==
  ASSUME AccessInv, NEW p \in Requests, Commit(p)
  PROVE  AccessInv'
  <1> DEFINE c == call[p]
  <1>1. c # Nobody /\ c.stage = "write" /\ Write(c) /\ Release(p)
    BY DEF Commit
  <1>2. /\ c \in Calls /\ NamesIt(c)
        /\ c.op \in {"grant", "drop"} => c.role # Super
        /\ c.op \in Demotions => held[Role(Super)] = p
        /\ Demotes(c) => OtherSuper(c.user)
    BY <1>1 DEF AccessInv, AccessTypeOK, Named, SuperKept, SuperLocked, OtherKept
  <1> HIDE DEF c
  <1>3. /\ permissions' \in [RoleIds -> (SUBSET Permissions) \cup {Nobody}] /\ revision' \in [RoleIds -> Nat]
        /\ holds' \in [UserIds -> SUBSET RoleIds]
        /\ account' \in [UserIds -> {"enabled", "disabled", "deleted"}]
        /\ auth_version' \in [UserIds -> Nat] /\ secret' \in [UserIds -> Nat]
        /\ permissions'[Super] = permissions[Super]
        /\ c.op \notin Demotions => UNCHANGED <<holds, account>>
        /\ c.op \in Demotions =>
             \A v \in UserIds \ {c.user} : holds'[v] = holds[v] /\ account'[v] = account[v]
        /\ c.op \in Demotions /\ IsSuper(c.user) /\ account[c.user] = "enabled" =>
             Demotes(c) \/ (Super \in holds'[c.user] /\ account'[c.user] = "enabled")
    BY <1>1, <1>2, WriteEffects DEF AccessInv
  <1>4. /\ call' \in [Requests -> Calls \cup {Nobody}] /\ held' \in [Keys -> Requests \cup {Nobody}]
        /\ \A q \in Requests : call'[q] = IF q = p THEN Nobody ELSE call[q]
        /\ Named' /\ SuperLocked'
    BY <1>1, ReleaseKeeps DEF AccessInv
  <1>5. AccessTypeOK'
    BY <1>3, <1>4 DEF AccessTypeOK
  <1>6. SuperKept'
    BY <1>3, <1>4 DEF AccessInv, SuperKept
  <1>7. OtherKept'
    <2> SUFFICES ASSUME NEW q \in Requests, (call[q] # Nobody)', (call[q].stage = "write")', Demotes(call[q])'
                 PROVE  OtherSuper(call[q].user)'
      BY DEF OtherKept
    <2>1. q # p /\ call'[q] = call[q]
      BY <1>4
    <2>2. call[q].op \in Demotions
      BY <2>1 DEF Demotes, Demotions, Lifecycle
    <2>3. held[Role(Super)] = q
      BY <2>1, <2>2 DEF AccessInv, SuperLocked
    <2>4. c.op \notin Demotions
      BY <1>2, <2>1, <2>3
    <2>5. UNCHANGED <<holds, account>>
      BY <1>3, <2>4
    <2>6. Demotes(call[q])
      BY <2>1, <2>5 DEF Demotes, IsSuper
    <2>7. OtherSuper(call[q].user)
      BY <2>1, <2>6 DEF AccessInv, OtherKept
    <2> QED BY <2>1, <2>5, <2>7 DEF OtherSuper, IsSuper
  <1>8. AdministratorRemains'
    <2>1. PICK u \in UserIds : IsSuper(u) /\ account[u] = "enabled"
      BY DEF AccessInv, AdministratorRemains
    <2>2. CASE c.op \notin Demotions
      BY <1>3, <2>1, <2>2 DEF AdministratorRemains, IsSuper
    <2>3. CASE c.op \in Demotions /\ u # c.user
      BY <1>3, <2>1, <2>3 DEF AdministratorRemains, IsSuper
    <2>4. CASE c.op \in Demotions /\ u = c.user /\ Demotes(c)
      <3>1. PICK v \in UserIds \ {c.user} : IsSuper(v) /\ account[v] = "enabled"
        BY <1>2, <2>4 DEF OtherSuper
      <3> QED BY <1>3, <2>4, <3>1 DEF AdministratorRemains, IsSuper
    <2>5. CASE c.op \in Demotions /\ u = c.user /\ ~Demotes(c)
      BY <1>3, <2>1, <2>5 DEF AdministratorRemains, IsSuper
    <2> QED BY <2>2, <2>3, <2>4, <2>5
  <1> QED BY <1>4, <1>5, <1>6, <1>7, <1>8 DEF AccessInv

\* Logins, logouts and stuttering change neither accounts nor locks.
LEMMA LoginKeeps ==
  ASSUME AccessInv, UNCHANGED <<accountVars, call, held>>
  PROVE  AccessInv'
  BY DEF AccessInv, AccessTypeOK, Named, NamesIt, SuperKept, SuperLocked, OtherKept, Demotes, OtherSuper,
         AdministratorRemains, IsSuper, accountVars

\* Every step keeps the invariant.
LEMMA AccessStep == AccessInv /\ [AccessNext]_accessVars => AccessInv'
  <1> SUFFICES ASSUME AccessInv, [AccessNext]_accessVars PROVE AccessInv'
    OBVIOUS
  <1>1. CASE \E p \in Requests :
               \/ ReplaceUserRoles(p) \/ MutateUserLifecycle(p) \/ ReplaceRole(p) \/ DeleteRole(p)
               \/ RenewPassword(p)
    BY <1>1, BeginKeeps
  <1>2. CASE \E p \in Requests : TakeLock(p) \/ Check(p) \/ Commit(p) \/ Rollback(p)
    BY <1>2, TakeLockKeeps, CheckKeeps, CommitKeeps, RollbackKeeps
  <1>3. CASE ReadAccount \/ CreateSession \/ Logout
    BY <1>3, LoginKeeps DEF ReadAccount, CreateSession, Logout
  <1>4. CASE UNCHANGED accessVars
    BY <1>4, LoginKeeps DEF accessVars, accountVars
  <1> QED BY <1>1, <1>2, <1>3, <1>4 DEF AccessNext

\* However administrators demote, disable and delete each other, an enabled Super Admin
\* remains: replaceUserRoles and the lifecycle of a user look for another one under the
\* lock on the Super Admin role.
THEOREM AdministratorStays == AccessSpec => []AdministratorRemains
  <1>1. AccessInv => AdministratorRemains
    BY DEF AccessInv
  <1> QED BY <1>1, Initially, AccessStep, PTL DEF AccessSpec

\* Rows, requests and locks keep their types, for every set of users and roles.
THEOREM AccessTypes == AccessSpec => []AccessTypeOK
  <1>1. AccessInv => AccessTypeOK
    BY DEF AccessInv
  <1> QED BY <1>1, Initially, AccessStep, PTL DEF AccessSpec

-----------------------------------------------------------------------------
(* Locks: what a request has to have, the order, and who can wait for whom. *)

\* The locks a request has to have in any case, whoever has which role by then.
Wanted(c) ==
    {User(u) : u \in {c.actor, c.user} \ {Nobody}}
        \cup {Role(r) : r \in CASE c.op = "assign" -> c.roles \cup {Super}
                                [] c.op \in Lifecycle -> {Super}
                                [] c.op \in {"grant", "drop"} -> {c.role, Super}
                                [] c.op = "renew" -> {}}

\* It has each of them, or takes it before it decides.
Covered ==
    \A p \in Requests : call[p] # Nobody =>
      \A k \in Wanted(call[p]) : held[k] = p \/ (call[p].stage = "lock" /\ k \in call[p].todo)

\* Locks are taken in order, and given back at the end.
InOrder ==
    \A p \in Requests : \A k \in Keys : held[k] = p =>
      /\ call[p] # Nobody
      /\ call[p].stage = "lock" => \A j \in call[p].todo : Before(k, j)

\* A decided transaction only waits for accounts, and a change of a password for nothing
\* once it has its lock.
LastLocks ==
    \A p \in Requests : call[p] # Nobody =>
      /\ call[p].stage = "write" => \A k \in call[p].todo : k[1] = 2
      /\ call[p].op = "renew" =>
           /\ call[p].todo \subseteq {User(call[p].user)}
           /\ (\E k \in Keys : held[k] = p) => call[p].todo = {}

LockInv == AccessInv /\ Covered /\ InOrder /\ LastLocks

\* A key is an address, a role or a user; Before is a strict total order.
LEMMA KeyOrder ==
  /\ \A k \in Keys : ~Before(k, k)
  /\ \A i, j, k \in Keys : Before(i, j) /\ Before(j, k) => Before(i, k)
  /\ \A i, j \in Keys : i # j => Before(i, j) \/ Before(j, i)
  /\ \A k \in Keys : k[1] \in 0..2 /\ k[2] \in Nat
  <1>1. \A k \in Keys : \E n \in 0..2, m \in Nat : k = <<n, m>>
    BY AccessConstants DEF Keys, Email, Role, User
  <1>2. \A k \in Keys : k[1] \in 0..2 /\ k[2] \in Nat /\ k = <<k[1], k[2]>>
    BY <1>1
  <1>3. \A k \in Keys : ~Before(k, k)
    BY <1>2 DEF Before
  <1>4. \A i, j, k \in Keys : Before(i, j) /\ Before(j, k) => Before(i, k)
    BY <1>2 DEF Before
  <1>5. \A i, j \in Keys : i # j => Before(i, j) \/ Before(j, i)
    <2> SUFFICES ASSUME NEW i \in Keys, NEW j \in Keys, i # j PROVE Before(i, j) \/ Before(j, i)
      OBVIOUS
    <2>1. i[1] # j[1] \/ i[2] # j[2]
      BY <1>2
    <2> QED BY <1>2, <2>1 DEF Before
  <1> QED BY <1>2, <1>3, <1>4, <1>5

\* The locks a request has to have are among those it sets out to take.
LEMMA WantedLocked ==
  ASSUME AccessTypeOK, SuperKept, NEW c \in Calls, NamesIt(c)
  PROVE  Wanted(c) \subseteq Locks(c) /\ Locks(c) \subseteq Keys
  <1>1. Locks(c) \subseteq Keys
    BY LocksType
  <1>2. c.op \in Lifecycle \cup {"assign", "grant", "drop", "renew"}
    BY DEF Calls
  <1>3. \A r : r \in (CASE c.op = "assign" -> c.roles \cup {Super}
                        [] c.op \in Lifecycle -> {Super}
                        [] c.op \in {"grant", "drop"} -> {c.role, Super}
                        [] c.op = "renew" -> {}) => r \in LockedRoles(c)
    BY <1>2, AccessConstants DEF LockedRoles, SuperKept, Lifecycle
  <1> QED BY <1>1, <1>3 DEF Wanted, Locks

\* Locks depend on what is asked, not on how far the request is.
LEMMA WantedSame ==
  ASSUME NEW c, NEW d, d.op = c.op, d.actor = c.actor, d.user = c.user, d.role = c.role, d.roles = c.roles
  PROVE  Wanted(d) = Wanted(c)
  BY DEF Wanted

\* A change of a password takes one lock, that of its account.
LEMMA RenewLocks ==
  ASSUME NEW c \in Calls, c.op = "renew", c.actor = Nobody
  PROVE  Locks(c) \subseteq {User(c.user)}
  BY DEF Locks, LockedRoles, Lifecycle, RolesOf

-----------------------------------------------------------------------------
(* What each step does to requests and locks. *)

\* The same request, at another point of its way.
Like(d, c) ==
    /\ d.op = c.op /\ d.actor = c.actor /\ d.user = c.user /\ d.role = c.role
    /\ d.roles = c.roles /\ d.granted = c.granted /\ d.shown = c.shown

OnlyCall(p, d) == \A q \in Requests : call'[q] = IF q = p THEN d ELSE call[q]

Begins(p, d) ==
    /\ call[p] = Nobody /\ OnlyCall(p, d)
    /\ d \in Calls /\ NamesIt(d) /\ d.stage = "lock" /\ Wanted(d) \subseteq d.todo
    /\ d.op = "renew" => d.todo \subseteq {User(d.user)}
    /\ UNCHANGED <<accountVars, held, login, sessions>>

Takes(p, k, d) ==
    /\ call[p] \in Calls /\ call[p] # Nobody /\ OnlyCall(p, d)
    /\ k \in Keys /\ k \in call[p].todo /\ held[k] \in {Nobody, p}
    /\ call[p].stage = "lock" => \A j \in call[p].todo \ {k} : Before(k, j)
    /\ d \in Calls /\ Like(d, call[p]) /\ d.stage = call[p].stage /\ d.todo = call[p].todo \ {k}
    /\ \A j \in Keys : held'[j] = IF j = k THEN p ELSE held[j]
    /\ UNCHANGED <<accountVars, login, sessions>>

Decides(p, d) ==
    /\ call[p] \in Calls /\ call[p] # Nobody /\ call[p].stage = "lock" /\ call[p].todo = {} /\ Allowed(call[p])
    /\ OnlyCall(p, d)
    /\ d \in Calls /\ Like(d, call[p]) /\ d.stage = "write"
    /\ d.todo = {User(u) : u \in Outdated(call[p])} /\ Outdated(call[p]) \subseteq UserIds
    /\ UNCHANGED <<accountVars, held, login, sessions>>

Ends(p) ==
    /\ call[p] \in Calls /\ call[p] # Nobody /\ OnlyCall(p, Nobody)
    /\ \A j \in Keys : held'[j] = IF held[j] = p THEN Nobody ELSE held[j]

\* A begun transaction sets out to take its locks.
LEMMA BeginEffect ==
  ASSUME AccessInv, NEW p \in Requests,
         \/ ReplaceUserRoles(p) \/ MutateUserLifecycle(p) \/ ReplaceRole(p) \/ DeleteRole(p)
         \/ RenewPassword(p)
  PROVE  \E d : Begins(p, d)
  <1>1. PICK c \in Calls : NamesIt(c) /\ c.stage = "lock" /\ Open(p, c)
    BY BeginOpens DEF AccessInv
  <1> DEFINE d == [c EXCEPT !.todo = Locks(c)]
  <1>2. /\ call[p] = Nobody /\ call' = [call EXCEPT ![p] = d]
        /\ UNCHANGED <<accountVars, held, login, sessions>>
    BY <1>1 DEF Open, loginVars
  <1>3. /\ d \in Calls /\ NamesIt(d) /\ d.stage = "lock" /\ d.todo = Locks(c)
        /\ d.op = c.op /\ d.actor = c.actor /\ d.user = c.user /\ d.role = c.role /\ d.roles = c.roles
    BY <1>1, LocksType DEF AccessInv, Calls, NamesIt
  <1> HIDE DEF d
  <1>4. OnlyCall(p, d)
    BY <1>2 DEF OnlyCall, AccessInv, AccessTypeOK
  <1>5. Wanted(d) \subseteq d.todo
    <2>1. Wanted(d) = Wanted(c)
      BY <1>3, WantedSame
    <2> QED BY <1>1, <1>3, <2>1, WantedLocked DEF AccessInv
  <1>6. d.op = "renew" => d.todo \subseteq {User(d.user)}
    BY <1>1, <1>3, RenewLocks DEF NamesIt
  <1> QED BY <1>2, <1>3, <1>4, <1>5, <1>6 DEF Begins

\* One lock is taken at a time, the least of those that remain.
LEMMA TakeEffect ==
  ASSUME AccessInv, NEW p \in Requests, TakeLock(p)
  PROVE  \E k, d : Takes(p, k, d)
  <1>1. PICK k \in Awaits(call[p]) :
          /\ held[k] \in {Nobody, p}
          /\ held' = [held EXCEPT ![k] = p]
          /\ call' = [call EXCEPT ![p].todo = @ \ {k}]
    BY DEF TakeLock
  <1>2. /\ call[p] \in Calls /\ call[p] # Nobody /\ k \in call[p].todo /\ k \in Keys
        /\ call[p].stage = "lock" => \A j \in call[p].todo \ {k} : Before(k, j)
    BY <1>1 DEF TakeLock, AccessInv, AccessTypeOK, Awaits, Calls
  <1> DEFINE d == [call[p] EXCEPT !.todo = @ \ {k}]
  <1>3. d \in Calls /\ Like(d, call[p]) /\ d.stage = call[p].stage /\ d.todo = call[p].todo \ {k}
    BY <1>2 DEF Calls, Like
  <1>4. OnlyCall(p, d)
    BY <1>1, <1>2 DEF OnlyCall, AccessInv, AccessTypeOK
  <1>5. UNCHANGED <<accountVars, login, sessions>>
    BY DEF TakeLock, loginVars
  <1> HIDE DEF d
  <1>6. \A j \in Keys : held'[j] = IF j = k THEN p ELSE held[j]
    BY <1>1, <1>2 DEF AccessInv, AccessTypeOK
  <1> QED BY <1>1, <1>2, <1>3, <1>4, <1>5, <1>6 DEF Takes

\* What is decided is decided with all locks.
LEMMA CheckEffect ==
  ASSUME AccessInv, NEW p \in Requests, Check(p)
  PROVE  \E d : Decides(p, d)
  <1> DEFINE c == call[p]
             d == [c EXCEPT !.stage = "write", !.todo = {User(u) : u \in Outdated(c)}]
  <1>1. /\ c # Nobody /\ c.stage = "lock" /\ c.todo = {} /\ Allowed(c)
        /\ call' = [call EXCEPT ![p] = d] /\ UNCHANGED <<accountVars, held, login, sessions>>
    BY DEF Check, loginVars
  <1>2. c \in Calls /\ NamesIt(c)
    BY <1>1 DEF AccessInv, AccessTypeOK, Named
  <1>3. Outdated(c) \subseteq UserIds
    BY <1>2 DEF Outdated, NamesIt, Demotions
  <1>4. {User(u) : u \in Outdated(c)} \subseteq Keys
    BY <1>3 DEF Keys
  <1>5. d \in Calls /\ Like(d, c) /\ d.stage = "write" /\ d.todo = {User(u) : u \in Outdated(c)}
    BY <1>2, <1>4 DEF Calls, Like
  <1> HIDE DEF d
  <1>6. OnlyCall(p, d)
    BY <1>1 DEF OnlyCall, AccessInv, AccessTypeOK
  <1> QED BY <1>1, <1>2, <1>3, <1>5, <1>6 DEF Decides

\* A transaction that ends gives back its locks, and no other's.
LEMMA EndEffect ==
  ASSUME AccessInv, NEW p \in Requests, Rollback(p) \/ Commit(p)
  PROVE  Ends(p)
  <1>1. call[p] # Nobody /\ Release(p)
    BY DEF Rollback, Commit
  <1>2. call[p] \in Calls
    BY <1>1 DEF AccessInv, AccessTypeOK
  <1>3. OnlyCall(p, Nobody)
    BY <1>1 DEF Release, OnlyCall, AccessInv, AccessTypeOK
  <1>4. \A j \in Keys : held'[j] = IF held[j] = p THEN Nobody ELSE held[j]
    BY <1>1 DEF Release
  <1> QED BY <1>1, <1>2, <1>3, <1>4 DEF Ends

-----------------------------------------------------------------------------
(* The locks are kept. *)

\* The keys a request has to have are keys.
LEMMA WantedKeys ==
  ASSUME NEW c \in Calls, NamesIt(c)
  PROVE  Wanted(c) \subseteq Keys
  <1>1. {User(u) : u \in {c.actor, c.user} \ {Nobody}} \subseteq Keys
    BY DEF Keys, Calls
  <1>2. c.op \in Lifecycle \cup {"assign", "grant", "drop", "renew"} /\ c.roles \subseteq RoleIds
        /\ (c.op \in {"grant", "drop"} => c.role \in RoleIds)
    BY DEF Calls, NamesIt
  <1>3. \A r : r \in (CASE c.op = "assign" -> c.roles \cup {Super}
                        [] c.op \in Lifecycle -> {Super}
                        [] c.op \in {"grant", "drop"} -> {c.role, Super}
                        [] c.op = "renew" -> {}) => r \in RoleIds
    BY <1>2, AccessConstants DEF Lifecycle
  <1> QED BY <1>1, <1>3 DEF Wanted, Keys

LEMMA BeginLocks ==
  ASSUME LockInv, NEW p \in Requests, NEW d, Begins(p, d)
  PROVE  Covered' /\ InOrder' /\ LastLocks'
  <1>1. d # Nobody /\ \A k \in Keys : held[k] # p
    BY NobodyIsNoCall DEF Begins, LockInv, InOrder
  <1>2. Covered'
    <2> SUFFICES ASSUME NEW q \in Requests, call'[q] # Nobody, NEW k \in Wanted(call'[q])
                 PROVE  held'[k] = q \/ (call'[q].stage = "lock" /\ k \in call'[q].todo)
      BY DEF Covered, Wanted
    <2>1. CASE q = p
      BY <2>1 DEF Begins, OnlyCall
    <2>2. CASE q # p
      BY <2>2 DEF Begins, OnlyCall, LockInv, Covered
    <2> QED BY <2>1, <2>2
  <1>3. InOrder'
    BY <1>1 DEF Begins, OnlyCall, LockInv, InOrder, Before
  <1>4. LastLocks'
    <2> SUFFICES ASSUME NEW q \in Requests, call'[q] # Nobody
                 PROVE  /\ call'[q].stage = "write" => \A k \in call'[q].todo : k[1] = 2
                        /\ call'[q].op = "renew" =>
                             /\ call'[q].todo \subseteq {User(call'[q].user)}
                             /\ (\E k \in Keys : held'[k] = q) => call'[q].todo = {}
      BY DEF LastLocks, User
    <2>1. CASE q = p
      BY <1>1, <2>1 DEF Begins, OnlyCall
    <2>2. CASE q # p
      BY <2>2 DEF Begins, OnlyCall, LockInv, LastLocks
    <2> QED BY <2>1, <2>2
  <1> QED BY <1>2, <1>3, <1>4

LEMMA TakeLocks ==
  ASSUME LockInv, NEW p \in Requests, NEW k, NEW d, Takes(p, k, d)
  PROVE  Covered' /\ InOrder' /\ LastLocks'
  <1>1. d # Nobody /\ Wanted(d) = Wanted(call[p])
    BY NobodyIsNoCall, WantedSame DEF Takes, Like
  <1>2. \A q \in Requests : call[q] # Nobody => Wanted(call[q]) \subseteq Keys
    BY WantedKeys DEF LockInv, AccessInv, AccessTypeOK, Named
  <1>3. Nobody \notin Requests
    BY AccessConstants
  <1>4. Covered'
    <2> SUFFICES ASSUME NEW q \in Requests, call'[q] # Nobody, NEW j \in Wanted(call'[q])
                 PROVE  held'[j] = q \/ (call'[q].stage = "lock" /\ j \in call'[q].todo)
      BY DEF Covered, Wanted
    <2>1. CASE q = p
      <3>1. j \in Wanted(call[p]) /\ j \in Keys /\ call'[q] = d
        BY <1>1, <1>2, <2>1 DEF Takes, OnlyCall
      <3>2. held[j] = p \/ (call[p].stage = "lock" /\ j \in call[p].todo)
        BY <3>1 DEF Takes, LockInv, Covered
      <3> QED BY <2>1, <3>1, <3>2 DEF Takes
    <2>2. CASE q # p
      <3>1. call'[q] = call[q] /\ j \in Wanted(call[q]) /\ j \in Keys
        BY <1>2, <2>2 DEF Takes, OnlyCall
      <3>2. held[j] = q \/ (call[q].stage = "lock" /\ j \in call[q].todo)
        BY <2>2, <3>1 DEF LockInv, Covered
      <3> QED BY <1>3, <2>2, <3>1, <3>2 DEF Takes
    <2> QED BY <2>1, <2>2
  <1>5. InOrder'
    <2> SUFFICES ASSUME NEW q \in Requests, NEW j \in Keys, held'[j] = q
                 PROVE  /\ call'[q] # Nobody
                        /\ call'[q].stage = "lock" => \A i \in call'[q].todo : Before(j, i)
      BY DEF InOrder, Before
    <2>1. CASE q = p
      <3>1. call'[q] = d
        BY <2>1 DEF Takes, OnlyCall
      <3>2. j = k \/ held[j] = p
        BY <2>1 DEF Takes
      <3>3. call[p].stage = "lock" /\ held[j] = p => \A i \in call[p].todo : Before(j, i)
        BY DEF LockInv, InOrder
      <3> QED BY <1>1, <3>1, <3>2, <3>3 DEF Takes
    <2>2. CASE q # p
      BY <2>2 DEF Takes, OnlyCall, LockInv, InOrder
    <2> QED BY <2>1, <2>2
  <1>6. LastLocks'
    <2> SUFFICES ASSUME NEW q \in Requests, call'[q] # Nobody
                 PROVE  /\ call'[q].stage = "write" => \A j \in call'[q].todo : j[1] = 2
                        /\ call'[q].op = "renew" =>
                             /\ call'[q].todo \subseteq {User(call'[q].user)}
                             /\ (\E j \in Keys : held'[j] = q) => call'[q].todo = {}
      BY DEF LastLocks, User
    <2>1. CASE q = p
      BY <2>1 DEF Takes, OnlyCall, Like, LockInv, LastLocks
    <2>2. CASE q # p
      BY <2>2 DEF Takes, OnlyCall, LockInv, LastLocks
    <2> QED BY <2>1, <2>2
  <1> QED BY <1>4, <1>5, <1>6

LEMMA CheckLocks ==
  ASSUME LockInv, NEW p \in Requests, NEW d, Decides(p, d)
  PROVE  Covered' /\ InOrder' /\ LastLocks'
  <1>1. d # Nobody /\ Wanted(d) = Wanted(call[p]) /\ held' = held
    BY NobodyIsNoCall, WantedSame DEF Decides, Like
  <1>2. Covered'
    <2> SUFFICES ASSUME NEW q \in Requests, call'[q] # Nobody, NEW j \in Wanted(call'[q])
                 PROVE  held'[j] = q \/ (call'[q].stage = "lock" /\ j \in call'[q].todo)
      BY DEF Covered, Wanted
    <2>1. CASE q = p
      BY <1>1, <2>1 DEF Decides, OnlyCall, LockInv, Covered
    <2>2. CASE q # p
      BY <1>1, <2>2 DEF Decides, OnlyCall, LockInv, Covered
    <2> QED BY <2>1, <2>2
  <1>3. InOrder'
    BY <1>1 DEF Decides, OnlyCall, LockInv, InOrder, Before
  <1>4. LastLocks'
    <2> SUFFICES ASSUME NEW q \in Requests, call'[q] # Nobody
                 PROVE  /\ call'[q].stage = "write" => \A j \in call'[q].todo : j[1] = 2
                        /\ call'[q].op = "renew" =>
                             /\ call'[q].todo \subseteq {User(call'[q].user)}
                             /\ (\E j \in Keys : held'[j] = q) => call'[q].todo = {}
      BY DEF LastLocks, User
    <2>1. CASE q = p
      <3>1. call'[q] = d /\ d.stage = "write" /\ d.todo = {User(u) : u \in Outdated(call[p])} /\ d.op = call[p].op
        BY <2>1 DEF Decides, OnlyCall, Like
      <3>2. d.op = "renew" => Outdated(call[p]) = {}
        BY <3>1 DEF Outdated
      <3> QED BY <3>1, <3>2 DEF User
    <2>2. CASE q # p
      BY <1>1, <2>2 DEF Decides, OnlyCall, LockInv, LastLocks
    <2> QED BY <2>1, <2>2
  <1> QED BY <1>2, <1>3, <1>4

LEMMA EndLocks ==
  ASSUME LockInv, NEW p \in Requests, Ends(p)
  PROVE  Covered' /\ InOrder' /\ LastLocks'
  <1>1. \A q \in Requests : call[q] # Nobody => Wanted(call[q]) \subseteq Keys
    BY WantedKeys DEF LockInv, AccessInv, AccessTypeOK, Named
  <1>2. Nobody \notin Requests
    BY AccessConstants
  <1>3. Covered'
    <2> SUFFICES ASSUME NEW q \in Requests, call'[q] # Nobody, NEW j \in Wanted(call'[q])
                 PROVE  held'[j] = q \/ (call'[q].stage = "lock" /\ j \in call'[q].todo)
      BY DEF Covered, Wanted
    <2>1. q # p /\ call'[q] = call[q] /\ j \in Keys
      BY <1>1 DEF Ends, OnlyCall
    <2> QED BY <2>1 DEF Ends, LockInv, Covered
  <1>4. InOrder'
    BY <1>2 DEF Ends, OnlyCall, LockInv, InOrder, Before
  <1>5. LastLocks'
    <2> SUFFICES ASSUME NEW q \in Requests, call'[q] # Nobody
                 PROVE  /\ call'[q].stage = "write" => \A j \in call'[q].todo : j[1] = 2
                        /\ call'[q].op = "renew" =>
                             /\ call'[q].todo \subseteq {User(call'[q].user)}
                             /\ (\E j \in Keys : held'[j] = q) => call'[q].todo = {}
      BY DEF LastLocks, User
    <2>1. q # p /\ call'[q] = call[q]
      BY DEF Ends, OnlyCall
    <2> QED BY <1>2, <2>1 DEF Ends, LockInv, LastLocks
  <1> QED BY <1>3, <1>4, <1>5

\* A login or a logout moves neither requests nor locks.
LEMMA RestLocks ==
  ASSUME LockInv, UNCHANGED <<call, held>>
  PROVE  Covered' /\ InOrder' /\ LastLocks'
  <1>1. Covered'
    <2> SUFFICES ASSUME NEW q \in Requests, call'[q] # Nobody, NEW j \in Wanted(call'[q])
                 PROVE  held'[j] = q \/ (call'[q].stage = "lock" /\ j \in call'[q].todo)
      BY DEF Covered, Wanted
    <2> QED BY DEF LockInv, Covered
  <1>2. InOrder' /\ LastLocks'
    BY DEF LockInv, InOrder, LastLocks, User, Before
  <1> QED BY <1>1, <1>2

\* Nothing is locked at first, and every step keeps the locks in order.
LEMMA LockStep ==
  /\ AccessInit => LockInv
  /\ LockInv /\ [AccessNext]_accessVars => LockInv'
  <1>1. ASSUME AccessInit PROVE LockInv
    <2>1. AccessInv
      BY <1>1, Initially
    <2>2. Nobody \notin Requests
      BY AccessConstants
    <2>3. Covered /\ InOrder /\ LastLocks
      BY <1>1, <2>2 DEF AccessInit, Covered, InOrder, LastLocks
    <2> QED BY <2>1, <2>3 DEF LockInv
  <1>2. ASSUME LockInv, [AccessNext]_accessVars PROVE LockInv'
    <2>1. AccessInv /\ AccessInv'
      BY <1>2, AccessStep DEF LockInv
    <2>2. CASE \E p \in Requests :
                 \/ ReplaceUserRoles(p) \/ MutateUserLifecycle(p) \/ ReplaceRole(p) \/ DeleteRole(p)
                 \/ RenewPassword(p)
      BY <1>2, <2>1, <2>2, BeginEffect, BeginLocks DEF LockInv
    <2>3. CASE \E p \in Requests : TakeLock(p)
      BY <1>2, <2>1, <2>3, TakeEffect, TakeLocks DEF LockInv
    <2>4. CASE \E p \in Requests : Check(p)
      BY <1>2, <2>1, <2>4, CheckEffect, CheckLocks DEF LockInv
    <2>5. CASE \E p \in Requests : Commit(p) \/ Rollback(p)
      BY <1>2, <2>1, <2>5, EndEffect, EndLocks DEF LockInv
    <2>6. CASE ReadAccount \/ CreateSession \/ Logout \/ UNCHANGED accessVars
      <3>1. UNCHANGED <<call, held>>
        BY <2>6 DEF ReadAccount, CreateSession, Logout, accessVars
      <3> QED BY <1>2, <2>1, <3>1, RestLocks DEF LockInv
    <2> QED BY <1>2, <2>2, <2>3, <2>4, <2>5, <2>6 DEF AccessNext
  <1> QED BY <1>1, <1>2

-----------------------------------------------------------------------------
(* No circle: whoever waits in the order waits for somebody further on. *)

\* A set of naturals has a least one.
LEMMA LeastOf ==
  ASSUME NEW T \in SUBSET Nat, T # {}
  PROVE  \E n \in T : \A m \in T : ~(m < n)
  <1>1. IsWellFoundedOn(OpToRel(<, Nat), Nat)
    BY NatLessThanWellFounded
  <1>2. \E n \in T : \A m \in T : ~(<<m, n>> \in OpToRel(<, Nat))
    BY <1>1, WFMin
  <1> QED BY <1>2 DEF OpToRel

\* In a finite set a transitive relation that nothing has to itself has an end.
LEMMA LastOfAny ==
  ASSUME NEW S, IsFiniteSet(S), S # {}, NEW R,
         \A a, b, c \in S : <<a, b>> \in R /\ <<b, c>> \in R => <<a, c>> \in R,
         \A a \in S : <<a, a>> \notin R
  PROVE  \E a \in S : \A b \in S : <<a, b>> \notin R
  <1> DEFINE Over(a) == {b \in S : <<a, b>> \in R}
             T == {Cardinality(Over(a)) : a \in S}
  <1>1. \A a \in S : IsFiniteSet(Over(a)) /\ Cardinality(Over(a)) \in Nat
    BY FS_Subset, FS_CardinalityType
  <1>2. PICK n \in T : \A m \in T : ~(m < n)
    <2>1. T \in SUBSET Nat /\ T # {}
      <3> HIDE DEF Over
      <3> QED BY <1>1
    <2> HIDE DEF T
    <2> QED BY <2>1, LeastOf
  <1>3. PICK a \in S : n = Cardinality(Over(a))
    BY <1>2
  <1> SUFFICES ASSUME NEW b \in S, <<a, b>> \in R PROVE FALSE
    OBVIOUS
  <1>4. Over(b) \subseteq Over(a) /\ b \in Over(a) /\ b \notin Over(b)
    OBVIOUS
  <1>5. Over(b) # Over(a)
    BY <1>4
  <1>6. Cardinality(Over(b)) <= Cardinality(Over(a)) /\ Cardinality(Over(a)) # Cardinality(Over(b))
    <2> HIDE DEF Over
    <2> QED BY <1>1, <1>4, <1>5, FS_Subset
  <1>7. Cardinality(Over(b)) < Cardinality(Over(a))
    <2> HIDE DEF Over
    <2> QED BY <1>1, <1>6
  <1>8. Cardinality(Over(b)) \in T
    OBVIOUS
  <1> HIDE DEF Over, T
  <1> QED BY <1>2, <1>3, <1>7, <1>8

\* Who waits for whom, and the lock he waits for.
WaitsAt(p, q, k) == call[p] # Nobody /\ p # q /\ k \in Awaits(call[p]) /\ held[k] = q

\* While somebody decided on a role, the holder of an account he waits for changes a
\* password: everybody else takes the Super Admin role's lock first.
LEMMA DecidedWaits ==
  ASSUME LockInv, NEW p \in Requests, NEW q \in Requests, NEW k, WaitsAt(p, q, k), call[p].stage = "write"
  PROVE  call[q] # Nobody /\ call[q].todo = {}
  <1>1. call[p] \in Calls /\ call[q] \in Calls \cup {Nobody} /\ k \in call[p].todo /\ k \in Keys
    BY DEF WaitsAt, Awaits, LockInv, AccessInv, AccessTypeOK, Calls
  <1>2. call[q] # Nobody /\ k[1] = 2
    BY <1>1 DEF WaitsAt, LockInv, InOrder, LastLocks
  <1>3. CASE call[q].op = "renew"
    BY <1>1, <1>2, <1>3 DEF WaitsAt, LockInv, LastLocks
  <1>4. CASE call[q].op # "renew"
    <2>1. call[p].op # "renew"
      <3>1. call[p].op = "renew" => call[p].todo \subseteq {User(call[p].user)}
        BY DEF WaitsAt, LockInv, LastLocks
      <3>2. call[p].op = "renew" => held[User(call[p].user)] = p
        <4>1. call[p].op = "renew" => call[p].user \in UserIds
          BY DEF WaitsAt, LockInv, AccessInv, Named, NamesIt
        <4>2. call[p].op = "renew" => User(call[p].user) \in Wanted(call[p])
          BY <4>1, AccessConstants DEF Wanted
        <4> QED BY <4>2 DEF WaitsAt, LockInv, Covered
      <3> QED BY <1>1, <3>1, <3>2 DEF WaitsAt
    <2>2. \A c \in Calls : c.op # "renew" => Role(Super) \in Wanted(c)
      BY DEF Wanted, Calls, Lifecycle
    <2>3. held[Role(Super)] = p
      BY <1>1, <2>1, <2>2 DEF WaitsAt, LockInv, Covered
    <2>4. call[q].stage = "lock" /\ Role(Super) \in call[q].todo
      BY <1>1, <1>2, <1>4, <2>2, <2>3 DEF WaitsAt, LockInv, Covered
    <2>5. Before(k, Role(Super))
      BY <1>1, <1>2, <2>4 DEF WaitsAt, LockInv, InOrder
    <2> QED BY <1>2, <2>5 DEF Before, Role
  <1> QED BY <1>3, <1>4

\* "All callers acquire role locks in UUID order before locking their owning row": of any
\* number of transactions there is one that waits for none of the others.
LEMMA LocksInOrder == LockInv => NoCircle
  <1> SUFFICES ASSUME LockInv, NEW S \in (SUBSET Requests) \ {{}},
                      \A p \in S : \E q \in S : \E k : WaitsAt(p, q, k)
               PROVE  FALSE
    BY DEF NoCircle, WaitsAt
  <1>1. \A p \in S : call[p] \in Calls /\ call[p] # Nobody /\ call[p].stage = "lock"
    <2> SUFFICES ASSUME NEW p \in S PROVE call[p] \in Calls /\ call[p] # Nobody /\ call[p].stage = "lock"
      OBVIOUS
    <2>1. PICK q \in S : \E k : WaitsAt(p, q, k)
      OBVIOUS
    <2>2. call[p] \in Calls /\ call[p] # Nobody
      BY <2>1 DEF WaitsAt, LockInv, AccessInv, AccessTypeOK
    <2>3. CASE call[p].stage = "write"
      <3>1. call[q].todo = {}
        BY <2>1, <2>3, DecidedWaits
      <3>2. PICK r \in S : \E k : WaitsAt(q, r, k)
        OBVIOUS
      <3> QED BY <3>1, <3>2 DEF WaitsAt, Awaits
    <2> QED BY <2>2, <2>3 DEF Calls
  <1>2. \A p \in S : \E k \in Keys : k \in Awaits(call[p])
    BY <1>1 DEF WaitsAt, Awaits, Calls
  <1>3. PICK at \in [S -> Keys] : \A p \in S : at[p] \in Awaits(call[p])
    <2> DEFINE at == [p \in S |-> CHOOSE k \in Keys : k \in Awaits(call[p])]
    <2>1. at \in [S -> Keys] /\ \A p \in S : at[p] \in Awaits(call[p])
      BY <1>2
    <2> HIDE DEF at
    <2> QED BY <2>1
  <1>4. \A p \in S : \A k : k \in Awaits(call[p]) => k = at[p]
    <2> SUFFICES ASSUME NEW p \in S, NEW k \in Awaits(call[p]) PROVE k = at[p]
      OBVIOUS
    <2>1. /\ k \in call[p].todo /\ at[p] \in call[p].todo /\ call[p].todo \subseteq Keys
          /\ k # at[p] => Before(k, at[p]) /\ Before(at[p], k)
      BY <1>1, <1>3 DEF Awaits, Calls
    <2>2. k # at[p] => Before(k, k)
      BY <2>1, KeyOrder
    <2> QED BY <2>1, <2>2, KeyOrder
  <1>5. \A p, q \in S : (\E k : WaitsAt(p, q, k)) => Before(at[p], at[q])
    <2> SUFFICES ASSUME NEW p \in S, NEW q \in S, NEW k, WaitsAt(p, q, k) PROVE Before(at[p], at[q])
      OBVIOUS
    <2>1. k = at[p] /\ held[at[p]] = q
      BY <1>4 DEF WaitsAt
    <2>2. at[q] \in call[q].todo
      BY <1>1, <1>3 DEF Awaits
    <2> QED BY <1>1, <1>3, <2>1, <2>2 DEF LockInv, InOrder
  <1> DEFINE R == {e \in S \X S : Before(at[e[1]], at[e[2]])}
  <1>6. \A p, q \in S : <<p, q>> \in R <=> Before(at[p], at[q])
    OBVIOUS
  <1> HIDE DEF R
  <1>7. IsFiniteSet(S) /\ S # {}
    BY AccessConstants, FS_Subset
  <1>8. \A a, b, c \in S : <<a, b>> \in R /\ <<b, c>> \in R => <<a, c>> \in R
    BY <1>3, <1>6, KeyOrder
  <1>9. \A a \in S : <<a, a>> \notin R
    BY <1>3, <1>6, KeyOrder
  <1>10. PICK p \in S : \A q \in S : <<p, q>> \notin R
    BY <1>7, <1>8, <1>9, LastOfAny
  <1> QED BY <1>5, <1>6, <1>10

-----------------------------------------------------------------------------
(* What a transaction decided holds until it commits. *)

\* A change of a role has or takes the lock of every account whose authority it changes.
HoldersLocked ==
    \A p \in Requests : call[p] # Nobody /\ call[p].stage = "write" =>
      /\ call[p].op = "grant" =>
           \A u \in Outdated(call[p]) : held[User(u)] = p \/ User(u) \in call[p].todo
      /\ call[p].op = "drop" => \A u \in UserIds : call[p].role \notin holds[u]

\* What a request was allowed for it still is when it commits.
StillAllowed(c) ==
    /\ c.op # "renew" => Manages(c.actor)
    /\ c.op = "assign" =>
         \A r \in c.roles \ holds[c.user] :
           IsSuper(c.actor) \/ (r # Super /\ InScope(c.actor, permissions[r]))
    /\ c.op = "grant" => InScope(c.actor, c.granted)

AllowedKept == \A p \in Requests : call[p] # Nobody /\ call[p].stage = "write" => StillAllowed(call[p])

ChangeInv == LockInv /\ HoldersLocked /\ AllowedKept

\* What each operation does to each row.
LEMMA Writes ==
  ASSUME AccessTypeOK, NEW c \in Calls, NamesIt(c), Write(c)
  PROVE  /\ \A u \in UserIds : holds'[u] =
              IF u = c.user /\ c.op = "assign" THEN c.roles
              ELSE IF u = c.user /\ c.op = "delete" THEN {} ELSE holds[u]
         /\ \A u \in UserIds : account'[u] =
              IF u # c.user \/ c.op \notin Lifecycle THEN account[u]
              ELSE CASE c.op = "deactivate" -> "disabled" [] c.op = "reactivate" -> "enabled"
                     [] c.op = "delete" -> "deleted"
         /\ \A r \in RoleIds : permissions'[r] =
              IF r = c.role /\ c.op = "grant" THEN c.granted
              ELSE IF r = c.role /\ c.op = "drop" THEN Nobody ELSE permissions[r]
         /\ \A u \in UserIds : secret'[u] = IF u = c.user /\ c.op = "renew" THEN secret[u] + 1 ELSE secret[u]
         /\ \A u \in UserIds : auth_version'[u] =
              IF u \in Outdated(c) \/ (u = c.user /\ c.op \in {"deactivate", "reactivate", "renew"})
                THEN auth_version[u] + 1 ELSE auth_version[u]
         /\ sessions' \subseteq sessions
  <1>0. auth_version \in [UserIds -> Nat]
    BY DEF AccessTypeOK
  <1>1. ASSUME NEW users, Bump(users)
        PROVE  \A u \in UserIds : auth_version'[u] = IF u \in users THEN auth_version[u] + 1 ELSE auth_version[u]
    BY <1>0, <1>1 DEF Bump
  <1>2. c.op = "assign" => Outdated(c) \subseteq {c.user}
    BY DEF Outdated
  <1>3. c.op \notin {"assign", "grant"} => Outdated(c) = {}
    BY DEF Outdated
  <1>4. CASE c.op = "assign"
    <2>1. /\ holds' = [holds EXCEPT ![c.user] = c.roles] /\ Bump(Outdated(c))
          /\ UNCHANGED <<permissions, account, secret, sessions>>
      BY <1>4 DEF Write, Lifecycle
    <2> QED BY <1>1, <1>4, <2>1 DEF AccessTypeOK, Lifecycle
  <1>5. CASE c.op = "grant"
    <2>1. /\ permissions' = [permissions EXCEPT ![c.role] = c.granted] /\ Bump(Outdated(c))
          /\ UNCHANGED <<holds, account, secret, sessions>>
      BY <1>5 DEF Write, Lifecycle
    <2> QED BY <1>1, <1>5, <2>1 DEF AccessTypeOK, Lifecycle
  <1>6. CASE c.op = "drop"
    <2>1. /\ permissions' = [permissions EXCEPT ![c.role] = Nobody]
          /\ UNCHANGED <<holds, account, auth_version, secret, sessions>>
      BY <1>6 DEF Write, Lifecycle
    <2> QED BY <1>3, <1>6, <2>1 DEF AccessTypeOK, Lifecycle
  <1>7. CASE c.op \in {"deactivate", "reactivate"}
    <2>1. /\ account' = [account EXCEPT ![c.user] = IF c.op = "deactivate" THEN "disabled" ELSE "enabled"]
          /\ Bump({c.user}) /\ UNCHANGED <<permissions, holds, secret, sessions>>
      BY <1>7 DEF Write
    <2> QED BY <1>1, <1>3, <1>7, <2>1 DEF AccessTypeOK, Lifecycle
  <1>8. CASE c.op = "delete"
    <2>1. /\ account' = [account EXCEPT ![c.user] = "deleted"] /\ holds' = [holds EXCEPT ![c.user] = {}]
          /\ sessions' \subseteq sessions /\ UNCHANGED <<permissions, auth_version, secret>>
      BY <1>8 DEF Write, Lifecycle
    <2> QED BY <1>3, <1>8, <2>1 DEF AccessTypeOK, Lifecycle
  <1>9. CASE c.op = "renew"
    <2>1. /\ secret' = [secret EXCEPT ![c.user] = @ + 1] /\ Bump({c.user})
          /\ UNCHANGED <<permissions, holds, account, sessions>>
      BY <1>9 DEF Write, Lifecycle
    <2> QED BY <1>1, <1>3, <1>9, <2>1 DEF AccessTypeOK, Lifecycle
  <1>10. c.op \in {"assign", "grant", "drop", "deactivate", "reactivate", "delete", "renew"}
    BY DEF Calls, Lifecycle
  <1> QED BY <1>4, <1>5, <1>6, <1>7, <1>8, <1>9, <1>10

\* Whose lock a commit has on what it changes.
LEMMA CommitLocked ==
  ASSUME ChangeInv, NEW p \in Requests, Commit(p)
  PROVE  /\ \A u \in UserIds : held[User(u)] # p => holds'[u] = holds[u] /\ account'[u] = account[u]
         /\ \A u \in UserIds, r \in RoleIds : r \in holds'[u] /\ r \notin holds[u] => held[Role(r)] = p
         /\ \A r \in RoleIds : held[Role(r)] # p => permissions'[r] = permissions[r]
         /\ \A u \in UserIds : \A r \in holds[u] : held[User(u)] # p => permissions'[r] = permissions[r]
  <1> DEFINE c == call[p]
  <1>1. c # Nobody /\ c.stage = "write" /\ c.todo = {} /\ Write(c)
    BY DEF Commit
  <1>2. c \in Calls /\ NamesIt(c) /\ AccessTypeOK
    BY <1>1 DEF ChangeInv, LockInv, AccessInv, AccessTypeOK, Named
  <1>3. \A k \in Wanted(c) : held[k] = p
    BY <1>1 DEF ChangeInv, LockInv, Covered
  <1> HIDE DEF c
  <1>4. /\ c.op \in Lifecycle \cup {"assign"} => held[User(c.user)] = p
        /\ c.op = "assign" => \A r \in c.roles : held[Role(r)] = p
        /\ c.op \in {"grant", "drop"} => held[Role(c.role)] = p
    <2>1. c.op \in Lifecycle \cup {"assign"} => User(c.user) \in Wanted(c)
      BY <1>2, AccessConstants DEF Wanted, NamesIt, Demotions
    <2>2. c.op = "assign" => \A r \in c.roles : Role(r) \in Wanted(c)
      BY DEF Wanted, Lifecycle
    <2>3. c.op \in {"grant", "drop"} => Role(c.role) \in Wanted(c)
      BY DEF Wanted, Lifecycle
    <2> QED BY <1>3, <2>1, <2>2, <2>3
  <1>5. /\ c.op = "grant" => \A u \in Outdated(c) : held[User(u)] = p
        /\ c.op = "drop" => \A u \in UserIds : c.role \notin holds[u]
    BY <1>1 DEF c, ChangeInv, HoldersLocked
  <1>6. \A u \in UserIds : held[User(u)] # p => holds'[u] = holds[u] /\ account'[u] = account[u]
    BY <1>1, <1>2, <1>4, Writes DEF Lifecycle
  <1>7. \A u \in UserIds, r \in RoleIds : r \in holds'[u] /\ r \notin holds[u] => held[Role(r)] = p
    BY <1>1, <1>2, <1>4, Writes
  <1>8. \A r \in RoleIds : held[Role(r)] # p => permissions'[r] = permissions[r]
    BY <1>1, <1>2, <1>4, Writes
  <1>9. \A u \in UserIds : \A r \in holds[u] : held[User(u)] # p => permissions'[r] = permissions[r]
    <2> SUFFICES ASSUME NEW u \in UserIds, NEW r \in holds[u], permissions'[r] # permissions[r]
                 PROVE  held[User(u)] = p
      OBVIOUS
    <2>1. r \in RoleIds
      BY <1>2 DEF AccessTypeOK
    <2>2. r = c.role /\ c.op \in {"grant", "drop"} /\ (c.op = "grant" => permissions'[r] = c.granted)
      BY <1>1, <1>2, <2>1, Writes
    <2>3. c.op = "grant" => u \in Outdated(c)
      BY <2>2 DEF Outdated
    <2> QED BY <1>5, <2>2, <2>3
  <1> QED BY <1>6, <1>7, <1>8, <1>9

\* An account keeps its authority while another transaction than its own commits.
LEMMA PowersLocked ==
  ASSUME ChangeInv, NEW p \in Requests, Commit(p), NEW u \in UserIds, held[User(u)] # p
  PROVE  /\ holds'[u] = holds[u] /\ account'[u] = account[u]
         /\ IsSuper(u)' = IsSuper(u) /\ Authority(u)' = Authority(u) /\ Manages(u)' = Manages(u)
  <1>1. holds'[u] = holds[u] /\ account'[u] = account[u] /\ \A r \in holds[u] : permissions'[r] = permissions[r]
    BY CommitLocked
  <1>2. IsSuper(u)' = IsSuper(u)
    BY <1>1 DEF IsSuper
  <1>3. {permissions'[r] : r \in holds'[u]} = {permissions[r] : r \in holds[u]}
    BY <1>1
  <1>4. Authority(u)' = Authority(u)
    BY <1>3 DEF Authority
  <1> QED BY <1>1, <1>2, <1>4 DEF Manages

\* What somebody else decided is not touched by a commit.
LEMMA CommitLeaves ==
  ASSUME ChangeInv, NEW p \in Requests, Commit(p), NEW q \in Requests, q # p,
         NEW c, c = call[q], c # Nobody, c.stage = "write"
  PROVE  /\ StillAllowed(c)'
         /\ c.op = "grant" => \A u \in UserIds :
              c.role \in holds'[u] /\ permissions'[c.role] # c.granted => u \in Outdated(c)
         /\ c.op = "drop" => \A u \in UserIds : c.role \notin holds'[u]
  <1>1. c \in Calls /\ NamesIt(c) /\ AccessTypeOK
    BY DEF ChangeInv, LockInv, AccessInv, AccessTypeOK, Named
  <1>2. \A k \in Wanted(c) : held[k] = q
    BY DEF ChangeInv, LockInv, Covered
  <1>3. StillAllowed(c)
    BY DEF ChangeInv, AllowedKept
  <1>4. c.op = "drop" => \A u \in UserIds : c.role \notin holds[u]
    BY DEF ChangeInv, HoldersLocked
  <1>5. c.op \in Lifecycle \cup {"assign", "grant", "drop", "renew"} /\ c.roles \subseteq RoleIds
    BY <1>1 DEF Calls
  <1>6. CASE c.op = "renew"
    BY <1>6 DEF StillAllowed
  <1>7. CASE c.op # "renew"
    <2>1. c.actor \in UserIds /\ held[User(c.actor)] = q
      <3>1. c.actor \in UserIds
        BY <1>1, <1>7 DEF NamesIt
      <3>2. User(c.actor) \in Wanted(c)
        BY <3>1, AccessConstants DEF Wanted
      <3> QED BY <1>2, <3>1, <3>2
    <2>2. /\ IsSuper(c.actor)' = IsSuper(c.actor) /\ Authority(c.actor)' = Authority(c.actor)
          /\ Manages(c.actor)' = Manages(c.actor)
      BY <2>1, PowersLocked
    <2>3. CASE c.op \in Lifecycle
      <3>1. Manages(c.actor)'
        BY <1>3, <1>7, <2>2 DEF StillAllowed
      <3> QED BY <2>3, <3>1 DEF StillAllowed, Lifecycle, Manages, Authority, IsSuper
    <2>4. CASE c.op = "assign"
      <3>1. c.user \in UserIds /\ held[User(c.user)] = q
        <4>1. c.user \in UserIds
          BY <1>1, <2>4 DEF NamesIt, Demotions
        <4>2. User(c.user) \in Wanted(c)
          BY <4>1, AccessConstants DEF Wanted
        <4> QED BY <1>2, <4>1, <4>2
      <3>2. holds'[c.user] = holds[c.user]
        BY <3>1, PowersLocked
      <3>3. \A r \in c.roles : permissions'[r] = permissions[r]
        <4>1. \A r \in c.roles : held[Role(r)] = q
          <5>1. \A r \in c.roles : Role(r) \in Wanted(c)
            BY <2>4 DEF Wanted, Lifecycle
          <5> QED BY <1>2, <5>1
        <4> QED BY <1>5, <4>1, CommitLocked
      <3>4. Manages(c.actor)'
        BY <1>3, <1>7, <2>2 DEF StillAllowed
      <3>5. \A r \in c.roles \ holds'[c.user] :
              IsSuper(c.actor)' \/ (r # Super /\ (IsSuper(c.actor)' \/ permissions'[r] \subseteq Authority(c.actor)'))
        BY <1>3, <2>2, <2>4, <3>2, <3>3 DEF StillAllowed, InScope
      <3> QED BY <2>4, <3>4, <3>5 DEF StillAllowed, InScope
    <2>5. CASE c.op \in {"grant", "drop"}
      <3>1. c.role \in RoleIds /\ held[Role(c.role)] = q
        <4>1. Role(c.role) \in Wanted(c)
          BY <2>5 DEF Wanted, Lifecycle
        <4> QED BY <1>1, <1>2, <2>5, <4>1 DEF NamesIt
      <3>2. permissions'[c.role] = permissions[c.role] /\ \A u \in UserIds : c.role \in holds'[u] => c.role \in holds[u]
        BY <3>1, CommitLocked
      <3>3. Manages(c.actor)'
        BY <1>3, <1>7, <2>2 DEF StillAllowed
      <3>4. c.op = "grant" => IsSuper(c.actor)' \/ c.granted \subseteq Authority(c.actor)'
        BY <1>3, <2>2 DEF StillAllowed, InScope
      <3>5. StillAllowed(c)'
        BY <2>5, <3>3, <3>4 DEF StillAllowed, InScope
      <3>6. c.op = "grant" => \A u \in UserIds :
              c.role \in holds'[u] /\ permissions'[c.role] # c.granted => u \in Outdated(c)
        BY <3>2 DEF Outdated
      <3> QED BY <1>4, <3>2, <3>5, <3>6
    <2> QED BY <1>5, <1>7, <2>3, <2>4, <2>5
  <1> QED BY <1>6, <1>7

\* What the reads of a transaction allow is what it then has to keep.
LEMMA AllowedStill ==
  ASSUME NEW c \in Calls, Allowed(c)
  PROVE  StillAllowed(c) /\ (c.op = "drop" => \A u \in UserIds : c.role \notin holds[u])
  <1>1. CASE c.op = "assign"
    BY <1>1 DEF Allowed, AssignmentAllowed, Changed, StillAllowed, Lifecycle
  <1>2. CASE c.op \in Lifecycle
    BY <1>2 DEF Allowed, LifecycleAllowed, StillAllowed, Lifecycle
  <1>3. CASE c.op \in {"grant", "drop"}
    BY <1>3 DEF Allowed, RoleChangeAllowed, InScope, StillAllowed, Lifecycle
  <1>4. CASE c.op = "renew"
    BY <1>4 DEF StillAllowed
  <1> QED BY <1>1, <1>2, <1>3, <1>4 DEF Calls

\* What has to hold of a request q that has decided as c, after a step.
KeptNext(q, c) ==
    /\ StillAllowed(c)'
    /\ c.op = "grant" => \A u \in UserIds :
         c.role \in holds'[u] /\ permissions'[c.role] # c.granted =>
           held'[User(u)] = q \/ User(u) \in c.todo
    /\ c.op = "drop" => \A u \in UserIds : c.role \notin holds'[u]

LEMMA ChangeNext ==
  ASSUME LockInv',
         \A q \in Requests : \A c : c = call'[q] /\ c # Nobody /\ c.stage = "write" => KeptNext(q, c)
  PROVE  ChangeInv'
  <1>1. AllowedKept'
    <2> SUFFICES ASSUME NEW q \in Requests, NEW c, c = call'[q], c # Nobody, c.stage = "write"
                 PROVE  StillAllowed(c)'
      BY DEF AllowedKept, StillAllowed, Manages, InScope, IsSuper, Authority
    <2> QED BY DEF KeptNext
  <1>2. HoldersLocked'
    BY DEF KeptNext, HoldersLocked, Outdated, User
  <1> QED BY <1>1, <1>2 DEF ChangeInv

\* Accounts and roles stay as they are.
LEMMA KeptRows ==
  ASSUME UNCHANGED accountVars, NEW q \in Requests, NEW c, StillAllowed(c),
         c.op = "drop" => \A u \in UserIds : c.role \notin holds[u],
         c.op = "grant" => \A u \in UserIds :
           c.role \in holds[u] /\ permissions[c.role] # c.granted => held'[User(u)] = q \/ User(u) \in c.todo
  PROVE  KeptNext(q, c)
  <1>1. StillAllowed(c)'
    BY DEF StillAllowed, Manages, InScope, IsSuper, Authority, accountVars
  <1> QED BY <1>1 DEF KeptNext, accountVars

\* So does the request, with its locks.
LEMMA KeptAlone ==
  ASSUME ChangeInv, UNCHANGED accountVars, NEW q \in Requests, NEW c, c = call[q], c # Nobody, c.stage = "write",
         \A k \in Keys : held[k] = q => held'[k] = q
  PROVE  KeptNext(q, c)
  <1>1. \A u \in UserIds : User(u) \in Keys
    BY DEF Keys
  <1>2. c.op = "grant" => \A u \in UserIds :
          c.role \in holds[u] /\ permissions[c.role] # c.granted => held[User(u)] = q \/ User(u) \in c.todo
    BY DEF ChangeInv, HoldersLocked, Outdated
  <1>3. StillAllowed(c) /\ (c.op = "drop" => \A u \in UserIds : c.role \notin holds[u])
    BY DEF ChangeInv, AllowedKept, HoldersLocked
  <1> QED BY <1>1, <1>2, <1>3, KeptRows

\* Every step keeps what was decided; only a commit changes an account or a role.
LEMMA ChangeStep ==
  /\ AccessInit => ChangeInv
  /\ ChangeInv /\ [AccessNext]_accessVars => ChangeInv'
  <1>1. ASSUME AccessInit PROVE ChangeInv
    BY <1>1, LockStep DEF ChangeInv, AccessInit, HoldersLocked, AllowedKept
  <1>2. ASSUME ChangeInv, [AccessNext]_accessVars PROVE ChangeInv'
    <2>1. LockInv /\ LockInv'
      BY <1>2, LockStep DEF ChangeInv
    <2>2. SUFFICES ASSUME NEW q \in Requests, NEW c, c = call'[q], c # Nobody, c.stage = "write"
                   PROVE  KeptNext(q, c)
      BY <2>1, ChangeNext
    <2>5. Nobody \notin Requests
      BY AccessConstants
    <2>6. CASE \E p \in Requests :
                 \/ ReplaceUserRoles(p) \/ MutateUserLifecycle(p) \/ ReplaceRole(p) \/ DeleteRole(p)
                 \/ RenewPassword(p)
      <3>0. PICK p \in Requests : \E d : Begins(p, d)
        BY <2>1, <2>6, BeginEffect DEF LockInv
      <3>1. PICK d : Begins(p, d)
        BY <3>0
      <3>2. q # p
        BY <2>2, <3>1 DEF Begins, OnlyCall
      <3> QED BY <1>2, <2>2, KeptAlone, <3>1, <3>2 DEF Begins, OnlyCall
    <2>7. CASE \E p \in Requests : TakeLock(p)
      <3>0. PICK p \in Requests : \E k, d : Takes(p, k, d)
        BY <2>1, <2>7, TakeEffect DEF LockInv
      <3>1. PICK k, d : Takes(p, k, d)
        BY <3>0
      <3>2. CASE q # p
        BY <1>2, <2>2, KeptAlone, <2>5, <3>1, <3>2 DEF Takes, OnlyCall
      <3>3. CASE q = p
        <4>1. c = d /\ Like(d, call[p]) /\ d.todo = call[p].todo \ {k} /\ call[p] # Nobody /\ call[p].stage = "write"
          BY <2>2, <3>1, <3>3 DEF Takes, OnlyCall
        <4>2. StillAllowed(call[p])
          BY <1>2, <4>1 DEF ChangeInv, AllowedKept
        <4>3. StillAllowed(c)
          BY <4>1, <4>2 DEF Like, StillAllowed
        <4>4. c.op = "drop" => \A u \in UserIds : c.role \notin holds[u]
          BY <1>2, <4>1 DEF ChangeInv, HoldersLocked, Like
        <4>5. c.op = "grant" => \A u \in UserIds :
                c.role \in holds[u] /\ permissions[c.role] # c.granted =>
                  held[User(u)] = p \/ User(u) \in call[p].todo
          BY <1>2, <4>1 DEF ChangeInv, HoldersLocked, Like, Outdated
        <4>6. \A u \in UserIds : User(u) \in Keys
          BY DEF Keys
        <4>7. c.op = "grant" => \A u \in UserIds :
                c.role \in holds[u] /\ permissions[c.role] # c.granted => held'[User(u)] = q \/ User(u) \in c.todo
          BY <3>1, <3>3, <4>1, <4>5, <4>6 DEF Takes
        <4> QED BY KeptRows, <3>1, <4>3, <4>4, <4>7 DEF Takes
      <3> QED BY <3>2, <3>3
    <2>8. CASE \E p \in Requests : Check(p)
      <3>0. PICK p \in Requests : \E d : Decides(p, d)
        BY <2>1, <2>8, CheckEffect DEF LockInv
      <3>1. PICK d : Decides(p, d)
        BY <3>0
      <3>2. CASE q # p
        BY <1>2, <2>2, KeptAlone, <3>1, <3>2 DEF Decides, OnlyCall
      <3>3. CASE q = p
        <4>1. c = d /\ Like(d, call[p]) /\ call[p] \in Calls /\ Allowed(call[p])
              /\ d.todo = {User(u) : u \in Outdated(call[p])}
          BY <2>2, <3>1, <3>3 DEF Decides, OnlyCall
        <4>2. StillAllowed(call[p]) /\ (call[p].op = "drop" => \A u \in UserIds : call[p].role \notin holds[u])
          BY <4>1, AllowedStill
        <4>3. StillAllowed(c)
          BY <4>1, <4>2 DEF Like, StillAllowed
        <4>4. c.op = "drop" => \A u \in UserIds : c.role \notin holds[u]
          BY <4>1, <4>2 DEF Like
        <4>5. c.op = "grant" => \A u \in UserIds :
                c.role \in holds[u] /\ permissions[c.role] # c.granted => User(u) \in c.todo
          BY <4>1 DEF Like, Outdated
        <4> QED BY KeptRows, <3>1, <4>3, <4>4, <4>5 DEF Decides
      <3> QED BY <3>2, <3>3
    <2>9. CASE \E p \in Requests : Rollback(p)
      <3>1. PICK p \in Requests : Rollback(p) /\ Ends(p)
        BY <2>1, <2>9, EndEffect DEF LockInv
      <3>2. UNCHANGED accountVars
        BY <3>1 DEF Rollback
      <3>3. q # p
        BY <2>2, <3>1 DEF Ends, OnlyCall
      <3> QED BY <1>2, <2>2, KeptAlone, <3>1, <3>2, <3>3 DEF Ends, OnlyCall
    <2>10. CASE \E p \in Requests : Commit(p)
      <3>1. PICK p \in Requests : Commit(p) /\ Ends(p)
        BY <2>1, <2>10, EndEffect DEF LockInv
      <3>2. q # p /\ c = call[q]
        BY <2>2, <3>1 DEF Ends, OnlyCall
      <3>3. /\ StillAllowed(c)'
            /\ c.op = "grant" => \A u \in UserIds :
                 c.role \in holds'[u] /\ permissions'[c.role] # c.granted => u \in Outdated(c)
            /\ c.op = "drop" => \A u \in UserIds : c.role \notin holds'[u]
        BY <1>2, <2>2, <3>1, <3>2, CommitLeaves
      <3>4. c.op = "grant" => \A u \in Outdated(c) : held[User(u)] = q \/ User(u) \in c.todo
        BY <1>2, <2>2, <3>2 DEF ChangeInv, HoldersLocked
      <3>5. \A u \in UserIds : held[User(u)] = q => held'[User(u)] = q
        BY <3>1, <3>2 DEF Ends, Keys
      <3> QED BY <3>3, <3>4, <3>5 DEF KeptNext
    <2>11. CASE ReadAccount \/ CreateSession \/ Logout \/ UNCHANGED accessVars
      <3>1. UNCHANGED <<accountVars, call, held>>
        BY <2>11 DEF ReadAccount, CreateSession, Logout, accessVars, accountVars
      <3> QED BY <1>2, <2>2, KeptAlone, <3>1
    <2> QED BY <1>2, <2>6, <2>7, <2>8, <2>9, <2>10, <2>11 DEF AccessNext
  <1> QED BY <1>1, <1>2

-----------------------------------------------------------------------------
(* Sessions, and what anybody is granted. *)

\* A version names one authority and one password of an account.
Stands(s) ==
    /\ s.user \in UserIds /\ s.version \in Nat /\ s.version <= auth_version[s.user]
    /\ s.version = auth_version[s.user] /\ account[s.user] # "deleted" =>
         s.powers = Powers(s.user) /\ s.secret = secret[s.user]

SessionsStand == (\A s \in sessions : Stands(s)) /\ (login # Nobody => Stands(login))

SessionInv == ChangeInv /\ SessionsStand

\* Unless its version moves, a commit leaves an account its authority and its password.
LEMMA VersionTells ==
  ASSUME ChangeInv, NEW p \in Requests, Commit(p), NEW u \in UserIds
  PROVE  /\ auth_version[u] \in Nat /\ auth_version'[u] \in Nat /\ auth_version[u] <= auth_version'[u]
         /\ auth_version'[u] = auth_version[u] /\ account'[u] # "deleted" =>
              account[u] # "deleted" /\ Powers(u)' = Powers(u) /\ secret'[u] = secret[u]
  <1> DEFINE c == call[p]
  <1>1. c # Nobody /\ c.stage = "write" /\ c.todo = {} /\ Write(c)
    BY DEF Commit
  <1>2. c \in Calls /\ NamesIt(c) /\ AccessTypeOK
    BY <1>1 DEF ChangeInv, LockInv, AccessInv, AccessTypeOK, Named
  <1>3. c.op = "drop" => c.role \notin holds[u]
    BY <1>1 DEF ChangeInv, HoldersLocked
  <1> HIDE DEF c
  <1>4. auth_version[u] \in Nat /\ auth_version'[u] \in Nat /\ auth_version[u] <= auth_version'[u]
    <2>1. auth_version[u] \in Nat
      BY <1>2 DEF AccessTypeOK
    <2>2. auth_version'[u] = auth_version[u] + 1 \/ auth_version'[u] = auth_version[u]
      BY <1>1, <1>2, Writes
    <2> QED BY <2>1, <2>2
  <1>5. SUFFICES ASSUME auth_version'[u] = auth_version[u], account'[u] # "deleted"
                 PROVE  account[u] # "deleted" /\ Powers(u)' = Powers(u) /\ secret'[u] = secret[u]
    BY <1>4
  <1>6. u \notin Outdated(c) /\ ~(u = c.user /\ c.op \in {"deactivate", "reactivate", "renew"})
    BY <1>1, <1>2, <1>4, <1>5, Writes
  <1>7. secret'[u] = secret[u]
    BY <1>1, <1>2, <1>6, Writes
  <1>8. account'[u] = account[u] /\ ~(u = c.user /\ c.op = "delete")
    BY <1>1, <1>2, <1>5, <1>6, Writes DEF Lifecycle
  <1>9. holds'[u] = holds[u]
    <2>1. u = c.user /\ c.op = "assign" => c.roles = holds[u]
      BY <1>6 DEF Outdated, Changed
    <2> QED BY <1>1, <1>2, <1>8, <2>1, Writes
  <1>10. \A r \in holds[u] : permissions'[r] = permissions[r]
    <2> SUFFICES ASSUME NEW r \in holds[u] PROVE permissions'[r] = permissions[r]
      OBVIOUS
    <2>1. r \in RoleIds
      BY <1>2 DEF AccessTypeOK
    <2>2. r = c.role /\ c.op = "grant" => permissions[r] = c.granted
      BY <1>6 DEF Outdated
    <2> QED BY <1>1, <1>2, <1>3, <2>1, <2>2, Writes
  <1>11. {permissions'[r] : r \in holds'[u]} = {permissions[r] : r \in holds[u]}
    BY <1>9, <1>10
  <1> QED BY <1>5, <1>7, <1>8, <1>9, <1>11 DEF Powers, IsSuper, Authority

\* Commits leave sessions and logins behind that are about an older version, and logins
\* read the account as it is.
LEMMA SessionStep ==
  /\ AccessInit => SessionInv
  /\ SessionInv /\ [AccessNext]_accessVars => SessionInv'
  <1>1. ASSUME AccessInit PROVE SessionInv
    BY <1>1, ChangeStep DEF SessionInv, SessionsStand, AccessInit
  <1>2. ASSUME SessionInv, [AccessNext]_accessVars PROVE SessionInv'
    <2>1. ChangeInv /\ ChangeInv' /\ AccessTypeOK
      BY <1>2, ChangeStep DEF SessionInv, ChangeInv, LockInv, AccessInv
    <2>2. SUFFICES ASSUME NEW s, s \in sessions' \/ (login' # Nobody /\ s = login') PROVE Stands(s)'
      <3>1. \A s : s \in sessions' \/ (login' # Nobody /\ s = login') => Stands(s)'
        BY <2>2
      <3>2. SessionsStand'
        BY <3>1 DEF SessionsStand, Stands, Powers, IsSuper, Authority
      <3> QED BY <2>1, <3>2 DEF SessionInv
    <2>3. s \in sessions \/ (login # Nobody /\ s = login) => Stands(s)
      BY <1>2 DEF SessionInv, SessionsStand
    <2>4. CASE (\E p \in Requests : Commit(p)) /\ (s \in sessions \/ (login # Nobody /\ s = login))
      <3>1. PICK p \in Requests : Commit(p)
        BY <2>4
      <3>2. s.user \in UserIds /\ s.version \in Nat
        BY <2>3, <2>4 DEF Stands
      <3>3. /\ auth_version[s.user] \in Nat /\ auth_version'[s.user] \in Nat
            /\ auth_version[s.user] <= auth_version'[s.user]
            /\ auth_version'[s.user] = auth_version[s.user] /\ account'[s.user] # "deleted" =>
                 /\ account[s.user] # "deleted" /\ Powers(s.user)' = Powers(s.user)
                 /\ secret'[s.user] = secret[s.user]
        BY <2>1, <3>1, <3>2, VersionTells
      <3>4. s.version <= auth_version'[s.user]
        BY <2>3, <2>4, <3>2, <3>3 DEF Stands
      <3>5. s.version = auth_version'[s.user] => s.version = auth_version[s.user]
        BY <2>3, <2>4, <3>2, <3>3 DEF Stands
      <3> QED BY <2>3, <2>4, <3>2, <3>3, <3>4, <3>5 DEF Stands
    <2>5. CASE UNCHANGED accountVars /\ (s \in sessions \/ (login # Nobody /\ s = login))
      BY <2>3, <2>5 DEF Stands, Powers, IsSuper, Authority, accountVars
    <2>6. CASE ReadAccount
      <3>1. PICK u \in UserIds :
              login' = [user |-> u, version |-> auth_version[u], secret |-> secret[u], powers |-> Powers(u)]
        BY <2>6 DEF ReadAccount
      <3>2. UNCHANGED accountVars /\ sessions' = sessions
        BY <2>6 DEF ReadAccount
      <3>3. CASE s = login'
        <4>1. s.user = u /\ s.version = auth_version[u] /\ s.secret = secret[u] /\ s.powers = Powers(u)
          BY <3>1, <3>3
        <4>2. auth_version[u] \in Nat
          BY <2>1 DEF AccessTypeOK
        <4> QED BY <3>2, <4>1, <4>2 DEF Stands, Powers, IsSuper, Authority, accountVars
      <3> QED BY <2>2, <2>5, <3>2, <3>3
    <2>7. CASE CreateSession
      <3>1. UNCHANGED accountVars /\ login # Nobody /\ login' = Nobody /\ sessions' \subseteq sessions \cup {login}
        BY <2>7 DEF CreateSession
      <3> QED BY <2>2, <2>5, <3>1
    <2>8. CASE Logout
      <3>1. UNCHANGED <<accountVars, login>> /\ sessions' \subseteq sessions
        BY <2>8 DEF Logout
      <3> QED BY <2>2, <2>5, <3>1
    <2>9. CASE \E p \in Requests : Commit(p)
      <3>1. login' = login /\ sessions' \subseteq sessions
        <4>1. PICK p \in Requests : Commit(p)
          BY <2>9
        <4>2. call[p] \in Calls /\ NamesIt(call[p])
          BY <2>1, <4>1 DEF Commit, ChangeInv, LockInv, AccessInv, AccessTypeOK, Named
        <4> QED BY <2>1, <4>1, <4>2, Writes DEF Commit
      <3> QED BY <2>2, <2>4, <2>9, <3>1
    <2>10. CASE \E p \in Requests : TakeLock(p) \/ Check(p) \/ Rollback(p)
      <3>1. UNCHANGED <<accountVars, login, sessions>>
        BY <2>10 DEF TakeLock, Check, Rollback, loginVars
      <3> QED BY <2>2, <2>5, <3>1
    <2>11. CASE \E p \in Requests :
                  \/ ReplaceUserRoles(p) \/ MutateUserLifecycle(p) \/ ReplaceRole(p) \/ DeleteRole(p)
                  \/ RenewPassword(p)
      <3>1. UNCHANGED <<accountVars, login, sessions>>
        BY <2>1, <2>11, BeginEffect DEF Begins, ChangeInv, LockInv
      <3> QED BY <2>2, <2>5, <3>1
    <2>12. CASE UNCHANGED accessVars
      BY <2>2, <2>5, <2>12 DEF accessVars, accountVars
    <2> QED BY <1>2, <2>6, <2>7, <2>8, <2>9, <2>10, <2>11, <2>12 DEF AccessNext
  <1> QED BY <1>1, <1>2

\* What a commit grants, its actor may do.
LEMMA GrantStep ==
  ASSUME ChangeInv, [AccessNext]_accessVars, NEW u \in UserIds,
         (IsSuper(u)' /\ ~IsSuper(u)) \/ Authority(u)' \ Authority(u) # {}
  PROVE  \E p \in Requests :
           /\ Commit(p) /\ Manages(call[p].actor)
           /\ \/ IsSuper(call[p].actor)
              \/ ~(IsSuper(u)' /\ ~IsSuper(u)) /\ Authority(u)' \ Authority(u) \subseteq Authority(call[p].actor)
  <1>1. ~UNCHANGED accountVars
    BY DEF IsSuper, Authority, accountVars
  <1>2. PICK p \in Requests : Commit(p)
    <2>1. (\E p \in Requests :
             \/ ReplaceUserRoles(p) \/ MutateUserLifecycle(p) \/ ReplaceRole(p) \/ DeleteRole(p)
             \/ RenewPassword(p)) => UNCHANGED accountVars
      BY BeginEffect DEF Begins, ChangeInv, LockInv
    <2>2. (\E p \in Requests : TakeLock(p) \/ Check(p) \/ Rollback(p)) => UNCHANGED accountVars
      BY DEF TakeLock, Check, Rollback
    <2>3. ReadAccount \/ CreateSession \/ Logout \/ UNCHANGED accessVars => UNCHANGED accountVars
      BY DEF ReadAccount, CreateSession, Logout, accessVars, accountVars
    <2> QED BY <1>1, <2>1, <2>2, <2>3 DEF AccessNext
  <1> DEFINE c == call[p]
  <1>3. c # Nobody /\ c.stage = "write" /\ Write(c)
    BY <1>2 DEF Commit
  <1>4. c \in Calls /\ NamesIt(c) /\ AccessTypeOK /\ StillAllowed(c)
    BY <1>3 DEF ChangeInv, LockInv, AccessInv, AccessTypeOK, Named, AllowedKept
  <1>5. (c.op = "drop" => c.role \notin holds[u]) /\ (c.op \in {"grant", "drop"} => c.role # Super)
    BY <1>3 DEF ChangeInv, HoldersLocked, LockInv, AccessInv, SuperKept
  <1> HIDE DEF c
  <1>6. \A r \in holds[u] : r \in RoleIds
    BY <1>4 DEF AccessTypeOK
  <1>7. c.op \in {"assign", "grant"}
    <2> SUFFICES ASSUME c.op \notin {"assign", "grant"} PROVE FALSE
      OBVIOUS
    <2>1. holds'[u] \subseteq holds[u]
      BY <1>3, <1>4, Writes
    <2>2. \A r \in holds[u] : permissions'[r] = permissions[r]
      BY <1>3, <1>4, <1>5, <1>6, Writes
    <2>3. Authority(u)' \subseteq Authority(u) /\ (IsSuper(u)' => IsSuper(u))
      BY <2>1, <2>2 DEF Authority, IsSuper
    <2> QED BY <2>3
  <1>8. Manages(c.actor)
    BY <1>4, <1>7 DEF StillAllowed
  <1>9. CASE IsSuper(c.actor)
    BY <1>2, <1>8, <1>9 DEF c
  <1>10. CASE ~IsSuper(c.actor) /\ c.op = "assign"
    <2>1. holds'[u] \subseteq holds[u] \/ (u = c.user /\ holds'[u] = c.roles)
      BY <1>3, <1>4, <1>10, Writes
    <2>2. \A r \in RoleIds : permissions'[r] = permissions[r]
      BY <1>3, <1>4, <1>10, Writes
    <2>3. c.roles \subseteq RoleIds
      BY <1>4 DEF Calls
    <2>4. \A r \in c.roles \ holds[c.user] : r # Super /\ permissions[r] \subseteq Authority(c.actor)
      BY <1>4, <1>10 DEF StillAllowed, InScope
    <2>5. \A r \in holds'[u] \ holds[u] : r # Super /\ permissions[r] \subseteq Authority(c.actor)
      BY <2>1, <2>4
    <2>6. holds'[u] \subseteq RoleIds
      BY <1>6, <2>1, <2>3
    <2>7. ~(IsSuper(u)' /\ ~IsSuper(u))
      BY <2>5 DEF IsSuper
    <2>8. Authority(u)' \ Authority(u) \subseteq Authority(c.actor)
      <3> SUFFICES ASSUME NEW x \in Authority(u)', x \notin Authority(u) PROVE x \in Authority(c.actor)
        OBVIOUS
      <3>1. PICK r \in holds'[u] : x \in permissions'[r]
        BY DEF Authority
      <3>2. x \in permissions[r]
        BY <2>2, <2>6, <3>1
      <3>3. r \notin holds[u]
        BY <3>2 DEF Authority
      <3> QED BY <2>5, <3>2, <3>3
    <2> QED BY <1>2, <1>8, <2>7, <2>8 DEF c
  <1>11. CASE ~IsSuper(c.actor) /\ c.op = "grant"
    <2>1. holds'[u] = holds[u]
      BY <1>3, <1>4, <1>11, Writes
    <2>2. \A r \in RoleIds : permissions'[r] = IF r = c.role THEN c.granted ELSE permissions[r]
      BY <1>3, <1>4, <1>11, Writes
    <2>3. c.granted \subseteq Authority(c.actor)
      BY <1>4, <1>11 DEF StillAllowed, InScope
    <2>4. ~(IsSuper(u)' /\ ~IsSuper(u))
      BY <2>1 DEF IsSuper
    <2>5. Authority(u)' \ Authority(u) \subseteq Authority(c.actor)
      <3> SUFFICES ASSUME NEW x \in Authority(u)', x \notin Authority(u) PROVE x \in Authority(c.actor)
        OBVIOUS
      <3>1. PICK r \in holds[u] : x \in permissions'[r]
        BY <2>1 DEF Authority
      <3>2. x \notin permissions[r]
        BY <3>1 DEF Authority
      <3> QED BY <1>6, <2>2, <2>3, <3>1, <3>2
    <2> QED BY <1>2, <1>8, <2>4, <2>5 DEF c
  <1> QED BY <1>7, <1>9, <1>10, <1>11

\* Nobody grants what he may not do, however the grant interleaves with a change of his own
\* authority; no accepted session has an authority or a password its account no longer has;
\* and no transactions wait for each other in a circle.
THEOREM AccessIsKept == AccessSpec => AccessKept
  <1>1. SessionInv => SessionsOfThisAuthority /\ NoCircle /\ AccessTypeOK
    <2> SUFFICES ASSUME SessionInv PROVE SessionsOfThisAuthority /\ NoCircle /\ AccessTypeOK
      OBVIOUS
    <2>1. SessionsOfThisAuthority
      BY DEF SessionInv, SessionsStand, Stands, SessionsOfThisAuthority
    <2> QED BY <2>1, LocksInOrder DEF SessionInv, ChangeInv, LockInv, AccessInv
  <1>2. SessionInv /\ [AccessNext]_accessVars =>
          [\A u \in UserIds :
             (IsSuper(u)' /\ ~IsSuper(u)) \/ Authority(u)' \ Authority(u) # {} =>
               \E p \in Requests :
                 /\ Commit(p) /\ Manages(call[p].actor)
                 /\ \/ IsSuper(call[p].actor)
                    \/ ~(IsSuper(u)' /\ ~IsSuper(u)) /\ Authority(u)' \ Authority(u) \subseteq Authority(call[p].actor)
          ]_accessVars
    BY GrantStep DEF SessionInv
  <1> QED BY <1>1, <1>2, SessionStep, PTL DEF AccessSpec, AccessKept, GrantsWithinScope
============================================================================
