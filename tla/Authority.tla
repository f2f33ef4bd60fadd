------------------------------ MODULE Authority ------------------------------
(***************************************************************************)
(* What a principal may do: authenticate of server.go with the cache of    *)
(* role permissions (auth_cache.go), and the handlers of admin.go and      *)
(* auth.go that change users, roles and API keys.                          *)
(*                                                                         *)
(* A request carries the principal that was built when it came in.  The    *)
(* handler compares it with rows that it reads, and writes in a later      *)
(* statement; nothing locks the rows in between.  A permission is a member *)
(* of a set, All stands for "*".  Which notice makes an instance drop its  *)
(* cache is the subject of SettingCache, whose worker also serves this     *)
(* cache: here an instance may drop it at any moment.                      *)
(***************************************************************************)
EXTENDS Naturals, FiniteSets

CONSTANTS
    Instance,
    User,
    Role,       \* the roles whose permissions can be edited
    Super,      \* super_admin
    RoleSets,   \* what a user's roles can be
    All,        \* the permission "*"
    Manage,     \* admin:access with users:manage, roles:manage and keys:manage
    Grants,     \* the sets of permissions given to roles and keys
    Key,
    Request,
    Rosters,    \* what [User -> its roles] may be when the model begins
    Policy,     \* [Role -> its permissions] when the model begins
    None,       \* no entry, no key, no user, a field that is left out
    TTL,        \* permissionCacheTTL
    MaxClock,   \* bounds the clock
    MaxChanges  \* bounds the commits to users, roles and keys

Permission ==
    {All, Manage} \cup (UNION Grants) \cup (UNION {Policy[r] : r \in Role})

KeyRow == [owner : User \cup {None}, perms : SUBSET Permission, live : BOOLEAN]

AuthorityConstants ==
    /\ TTL \in Nat \ {0}
    /\ RoleSets \subseteq SUBSET (Role \cup {Super}) /\ {} \notin RoleSets
    /\ Rosters \subseteq [User -> RoleSets \cup {{}}]
    /\ Policy \in [Role -> SUBSET Permission]
    /\ None \notin User \cup RoleSets \cup KeyRow

VARIABLES
    roles,      \* [User -> its roles], {} for an account that does not exist
    active,     \* [User -> BOOLEAN]
    policy,     \* [Role -> its permissions], the table role_permissions
    key,        \* [Key -> row of api_keys or None]
    cache,      \* [Instance -> permissionCache]
    clock,
    pc,         \* [Request -> where its handler is]
    who,        \* [Request -> principal]
    job,        \* [Request -> what its handler has read and means to write]
    changes,
    (* history *)
    held        \* {<<policy, time>>: it was in force at that time}

tableVars == <<roles, active, policy, key, held, changes>>
requestVars == <<pc, who, job>>
vars == <<tableVars, cache, clock, requestVars>>

Nobody ==
    [user |-> None, on |-> None, roles |-> {}, now |-> 0, perms |-> {}, scope |-> None]
NoJob == [new |-> FALSE, target |-> None, give |-> None, active |-> None, crossed |-> FALSE]

(* Nobody edits the permissions of super_admin: an entry for a set with    *)
(* that role is always right, and the cache of the model has none.         *)
Cached == {s \in RoleSets : Super \notin s}
Empty == [s \in Cached |-> None]

Init ==
    /\ roles \in Rosters
    /\ active = [u \in User |-> roles[u] # {}]
    /\ policy = Policy
    /\ key = [k \in Key |-> None]
    /\ cache = [i \in Instance |-> Empty]
    /\ clock = 0
    /\ pc = [q \in Request |-> "idle"]
    /\ who = [q \in Request |-> Nobody]
    /\ job = [q \in Request |-> NoJob]
    /\ changes = 0
    /\ held = {<<policy, 0>>}

(* PermissionsForRoles, hasPermission for every member of a set, and       *)
(* intersectPermissions.                                                   *)
Granted(p, s) == (UNION {p[r] : r \in s \ {Super}}) \cup {All : r \in s \cap {Super}}
Covers(perms, wanted) == All \in perms \/ wanted \subseteq perms
Intersect(a, b) == IF All \in a THEN b ELSE a \cap b

(* A handler that has begun needs the permissions and the super_admin role  *)
(* of its principal, and forgets the rest.                                 *)
Begun(q) ==
    who' = [who EXCEPT ![q] = [Nobody EXCEPT !.roles = who[q].roles \cap {Super},
                                             !.perms = who[q].perms]]

IsSuper(q) == Super \in who[q].roles
ActiveSupers == {u \in User : active[u] /\ Super \in roles[u]}

Goto(q, l) == pc' = [pc EXCEPT ![q] = l]

(* The answer: the principal and what the handler has read are forgotten.  *)
Over(q) == Goto(q, "idle") /\ who' = [who EXCEPT ![q] = Nobody]
End(q) == Over(q) /\ job' = [job EXCEPT ![q] = NoJob]

Counted == changes < MaxChanges /\ changes' = changes + 1

(* A commit to users or roles crosses the handlers that have read and not  *)
(* yet written.                                                            *)
Crossing(q) ==
    job' = [x \in Request |->
        IF x = q THEN NoJob ELSE [job[x] EXCEPT !.crossed = @ \/ job[x] # NoJob]]

-----------------------------------------------------------------------------
(* Authentication.                                                         *)

Fresh(e) == e # None /\ clock - e.at < TTL
Scoped(perms, scope) == IF scope = None THEN perms ELSE Intersect(perms, scope)

(* SessionUser or APIKeyUser finds the account, and permissionsForRoles    *)
(* looks into the cache; the clock is read before the table is.            *)
Authenticate(q, i, u, k) ==
    LET scope == IF k = None THEN None ELSE key[k].perms
        e == IF Super \in roles[u] THEN [perms |-> {All}, at |-> clock] ELSE cache[i][roles[u]]
    IN  /\ pc[q] = "idle" /\ active[u]
        /\ k # None => key[k] # None /\ key[k].live /\ key[k].owner = u
        /\ Goto(q, IF Fresh(e) THEN "ready" ELSE "load")
        /\ who' = [who EXCEPT ![q] =
             [user |-> u, on |-> i, roles |-> roles[u], now |-> clock, scope |-> scope,
              perms |-> IF Fresh(e) THEN Scoped(e.perms, scope) ELSE {}]]
        /\ UNCHANGED <<tableVars, cache, clock, job>>

Load(q) ==
    /\ pc[q] = "load"
    /\ who' = [who EXCEPT ![q].perms = Granted(policy, who[q].roles)]
    /\ Goto(q, "put")
    /\ UNCHANGED <<tableVars, cache, clock, job>>

(* Mutant: an entry is stamped when it is stored.                          *)
PutStampedLate(q) ==
    LET p == who[q]
    IN  /\ pc[q] = "put"
        /\ cache' = [cache EXCEPT ![p.on][p.roles] = [perms |-> p.perms, at |-> clock]]
        /\ who' = [who EXCEPT ![q].perms = Scoped(p.perms, p.scope)]
        /\ Goto(q, "ready")
        /\ UNCHANGED <<tableVars, clock, job>>

Put(q) ==
    LET p == who[q]
    IN  /\ pc[q] = "put"
        /\ cache' = [cache EXCEPT ![p.on][p.roles] = [perms |-> p.perms, at |-> p.now]]
        /\ who' = [who EXCEPT ![q].perms = Scoped(p.perms, p.scope)]
        /\ Goto(q, "ready")
        /\ UNCHANGED <<tableVars, clock, job>>

(* An instance drops its entries: a notice, a reconnect, a restart.        *)
Invalidate(i) ==
    /\ cache' = [cache EXCEPT ![i] = Empty]
    /\ UNCHANGED <<tableVars, clock, requestVars>>

Tick ==
    /\ clock < MaxClock
    /\ clock' = clock + 1
    /\ held' = held \cup {<<policy, clock + 1>>}
    /\ UNCHANGED <<roles, active, policy, key, changes, cache, requestVars>>

(* A refusal or an error of the database in any handler, and a handler     *)
(* that changes nothing here.                                              *)
Refuse(q) ==
    /\ pc[q] \notin {"idle", "notify"}
    /\ End(q)
    /\ UNCHANGED <<tableVars, cache, clock>>

-----------------------------------------------------------------------------
(* Roles and users: requireBrowserSession and requirePermission.           *)

Session(q) == pc[q] = "ready" /\ who[q].scope = None
Admin(q) == Session(q) /\ Covers(who[q].perms, {Manage})

(* adminPutRoles checks the input against the principal and replaces the   *)
(* permissions of the roles it lists in one transaction, which their rows  *)
(* in roles serialise.                                                     *)
PutRoles(q, r, perms) ==
    /\ Admin(q)
    /\ IsSuper(q) \/ Covers(who[q].perms, perms)
    /\ policy' = [policy EXCEPT ![r] = perms]
    /\ held' = held \cup {<<policy', clock>>}
    /\ Counted /\ Crossing(q)
    /\ Goto(q, "notify")
    /\ who' = [who EXCEPT ![q] = [Nobody EXCEPT !.on = who[q].on]]
    /\ UNCHANGED <<roles, active, key, cache, clock>>

(* invalidateRolePermissions, once the transaction has been committed.     *)
InvalidateRolePermissions(q) ==
    /\ pc[q] = "notify"
    /\ cache' = [cache EXCEPT ![who[q].on] = Empty]
    /\ End(q)
    /\ UNCHANGED <<tableVars, clock>>

(* Mutant: any administrator may.                                          *)
MayChangeAny(q, u) == TRUE

MayChange(q, u) == Super \in roles[u] => IsSuper(q)

(* adminUpdateUser reads the account; a field that is left out keeps its   *)
(* column.  The last super administrator is protected by a count.          *)
StartUpdate(q, u, give, on) ==
    LET counts == /\ Super \in roles[u]
                  /\ on = FALSE \/ (give # None /\ Super \notin give)
    IN  /\ Admin(q)
        /\ roles[u] # {}
        /\ MayChange(q, u)
        /\ ~(u = who[q].user /\ on = FALSE)
        /\ job' = [job EXCEPT ![q] =
             [new |-> FALSE, target |-> u, give |-> give, active |-> on, crossed |-> FALSE]]
        /\ Goto(q, IF give # None /\ ~IsSuper(q) THEN "assign"
                   ELSE IF counts THEN "count" ELSE "write")
        /\ Begun(q)
        /\ UNCHANGED <<tableVars, cache, clock>>

(* adminCreateUser.                                                        *)
StartCreate(q, u, give) ==
    /\ Admin(q)
    /\ roles[u] = {}
    /\ job' = [job EXCEPT ![q] =
         [new |-> TRUE, target |-> u, give |-> give, active |-> TRUE, crossed |-> FALSE]]
    /\ Goto(q, IF IsSuper(q) THEN "write" ELSE "assign")
    /\ Begun(q)
    /\ UNCHANGED <<tableVars, cache, clock>>

(* Mutant: an administrator may assign what exists.                        *)
CanAssignAnyRoles(q) ==
    /\ pc[q] = "assign"
    /\ Goto(q, "write")
    /\ UNCHANGED <<tableVars, cache, clock, who, job>>

(* canAssignRoles reads the table, not the cache.                          *)
CanAssignRoles(q) ==
    /\ pc[q] = "assign"
    /\ Covers(who[q].perms, Granted(policy, job[q].give))
    /\ Goto(q, "write")
    /\ UNCHANGED <<tableVars, cache, clock, who, job>>

(* Mutant: the last one counts as enough.                                  *)
CountOneSuper(q) ==
    /\ pc[q] = "count"
    /\ Cardinality(ActiveSupers) >= 1
    /\ Goto(q, "write")
    /\ UNCHANGED <<tableVars, cache, clock, who, job>>

CountSupers(q) ==
    /\ pc[q] = "count"
    /\ Cardinality(ActiveSupers) > 1
    /\ Goto(q, "write")
    /\ UNCHANGED <<tableVars, cache, clock, who, job>>

(* The statement that ends adminCreateUser: user names are unique.         *)
InsertUser(q) ==
    LET j == job[q]
    IN  /\ pc[q] = "write"
        /\ j.new /\ roles[j.target] = {}
        /\ roles' = [roles EXCEPT ![j.target] = j.give]
        /\ active' = [active EXCEPT ![j.target] = TRUE]
        /\ Counted /\ Crossing(q) /\ Over(q)
        /\ UNCHANGED <<policy, key, held, cache, clock>>

(* The statement that ends adminUpdateUser.                                *)
UpdateUser(q) ==
    LET j == job[q]
    IN  /\ pc[q] = "write"
        /\ ~j.new
        /\ roles' = [roles EXCEPT ![j.target] = IF j.give = None THEN @ ELSE j.give]
        /\ active' = [active EXCEPT ![j.target] = IF j.active = None THEN @ ELSE j.active]
        /\ Counted /\ Crossing(q) /\ Over(q)
        /\ UNCHANGED <<policy, key, held, cache, clock>>

-----------------------------------------------------------------------------
(* API keys of the user and, for an administrator, of everybody.           *)

CreateKey(q, k, perms) ==
    /\ Session(q)
    /\ key[k] = None
    /\ Covers(who[q].perms, perms)
    /\ key' = [key EXCEPT ![k] = [owner |-> who[q].user, perms |-> perms, live |-> TRUE]]
    /\ Counted /\ End(q)
    /\ UNCHANGED <<roles, active, policy, held, cache, clock>>

UpdateKey(q, k, perms) ==
    /\ Session(q)
    /\ key[k] # None /\ key[k].owner = who[q].user /\ key[k].live
    /\ Covers(who[q].perms, perms)
    /\ key' = [key EXCEPT ![k].perms = perms]
    /\ Counted /\ End(q)
    /\ UNCHANGED <<roles, active, policy, held, cache, clock>>

(* A new token for the same row: what the row allows stays as it was, and  *)
(* which token names it is no part of the model.                           *)
RotateKey(q, k) ==
    /\ Session(q)
    /\ key[k] # None /\ key[k].owner = who[q].user /\ key[k].live
    /\ Counted /\ End(q)
    /\ UNCHANGED <<roles, active, policy, key, held, cache, clock>>

Revoked(q, k) ==
    /\ key[k] # None /\ key[k].live
    /\ key' = [key EXCEPT ![k].live = FALSE]
    /\ Counted /\ End(q)
    /\ UNCHANGED <<roles, active, policy, held, cache, clock>>

RevokeKey(q, k) == Session(q) /\ key[k] # None /\ key[k].owner = who[q].user /\ Revoked(q, k)
AdminRevokeKey(q, k) == Admin(q) /\ Revoked(q, k)

(* adminUpdateKey reads the key, its owner and the owner's permissions.    *)
(* Permissions that are left out are written back as they were read.       *)
AdminReadKey(q, k, perms) ==
    /\ Admin(q)
    /\ key[k] # None
    /\ perms # None => /\ Covers(Granted(policy, roles[key[k].owner]), perms)
                       /\ Covers(who[q].perms, perms)
    /\ job' = [job EXCEPT ![q] =
         [NoJob EXCEPT !.target = k, !.give = IF perms = None THEN key[k].perms ELSE perms]]
    /\ Goto(q, "keywrite")
    /\ Begun(q)
    /\ UNCHANGED <<tableVars, cache, clock>>

AdminWriteKey(q) ==
    /\ pc[q] = "keywrite"
    /\ key[job[q].target].live
    /\ key' = [key EXCEPT ![job[q].target].perms = job[q].give]
    /\ Counted /\ End(q)
    /\ UNCHANGED <<roles, active, policy, held, cache, clock>>

-----------------------------------------------------------------------------
Authenticating(q) ==
    \/ \E i \in Instance, u \in User, k \in Key \cup {None} : Authenticate(q, i, u, k)
    \/ Load(q) \/ Put(q) \/ Refuse(q)

Administration(q) ==
    \/ \E r \in Role, perms \in Grants : PutRoles(q, r, perms)
    \/ InvalidateRolePermissions(q)
    \/ \E u \in User, give \in RoleSets \cup {None}, on \in BOOLEAN \cup {None} :
         StartUpdate(q, u, give, on)
    \/ \E u \in User, give \in RoleSets : StartCreate(q, u, give)
    \/ CanAssignRoles(q) \/ CountSupers(q) \/ InsertUser(q) \/ UpdateUser(q)

Keys(q) ==
    \/ \E k \in Key, perms \in Grants : CreateKey(q, k, perms) \/ UpdateKey(q, k, perms)
    \/ \E k \in Key : RotateKey(q, k) \/ RevokeKey(q, k) \/ AdminRevokeKey(q, k)
    \/ \E k \in Key, perms \in Grants \cup {None} : AdminReadKey(q, k, perms)
    \/ AdminWriteKey(q)

Next ==
    \/ \E q \in Request : Authenticating(q) \/ Administration(q) \/ Keys(q)
    \/ \E i \in Instance : Invalidate(i)
    \/ Tick

Spec == Init /\ [][Next]_vars

-----------------------------------------------------------------------------
(* Where a handler is, what it knows of its principal, and what a handler  *)
(* that has read is about to write.                                        *)
Deciding == {"assign", "count", "write"}

Principal == [user : User \cup {None}, on : Instance \cup {None},
              roles : SUBSET (Role \cup {Super}), now : Nat,
              perms : SUBSET Permission, scope : (SUBSET Permission) \cup {None}]

Job == [new : BOOLEAN, target : User \cup Key \cup {None},
        give : RoleSets \cup (SUBSET Permission) \cup {None},
        active : BOOLEAN \cup {None}, crossed : BOOLEAN]

TypeOK ==
    /\ roles \in [User -> RoleSets \cup {{}}]
    /\ active \in [User -> BOOLEAN] /\ \A u \in User : active[u] => roles[u] # {}
    /\ policy \in [Role -> SUBSET Permission]
    /\ key \in [Key -> KeyRow \cup {None}]
    /\ cache \in [Instance -> [Cached -> [perms : SUBSET Permission, at : Nat] \cup {None}]]
    /\ clock \in Nat
    /\ pc \in [Request -> {"idle", "load", "put", "ready", "notify", "keywrite"} \cup Deciding]
    /\ who \in [Request -> Principal]
    /\ job \in [Request -> Job]
    /\ \A q \in Request :
           pc[q] \in Deciding =>
               /\ job[q].target \in User
               /\ job[q].give \in IF job[q].new THEN RoleSets ELSE RoleSets \cup {None}
               /\ job[q].new \/ roles[job[q].target] # {}
    /\ \A q \in Request :
           pc[q] = "keywrite" =>
               /\ job[q].target \in Key /\ key[job[q].target] # None
               /\ job[q].give \in SUBSET Permission

(* The handler that takes a step.                                          *)
Writes(q) == pc[q] \in {"write", "ready"} /\ pc'[q] # pc[q]

(* "the 30 second TTL is the bound for a missed notice" (configuration.md, *)
(* auth_cache.go): what a session or a key may do when it is authenticated *)
(* was granted to the user's roles less than a TTL before.                 *)
PermissionsAreRecent ==
    \A q \in Request :
        pc[q] = "ready" =>
            \E h \in held :
                /\ h[2] + TTL > who[q].now
                /\ Covers(Granted(h[1], who[q].roles), who[q].perms)

(* "the last super administrator cannot be changed" (adminUpdateUser): the *)
(* last active one goes only in a handler that another commit crossed      *)
(* between its reads and its write.                                        *)
LastSuperStays ==
    [][ActiveSupers # {} /\ ActiveSupers' = {} =>
         \E q \in Request : Writes(q) /\ job[q].crossed]_vars

(* "a super administrator's account is changed only by a super             *)
(* administrator" (adminUpdateUser), unless a commit made it one after the *)
(* handler had looked.                                                     *)
SupersAreProtected ==
    [][\A u \in User :
         Super \in roles[u] /\ (roles'[u] # roles[u] \/ active'[u] # active[u]) =>
             \E q \in Request :
                 Writes(q) /\ job[q].target = u /\ (IsSuper(q) \/ job[q].crossed)]_vars

(* "beyond the permissions of the administrator" (adminPutRoles,           *)
(* canAssignRoles): whatever a user gains by a change of roles or of the   *)
(* policy, the administrator who made it held, or is a super administrator *)
(* or was crossed by another commit.                                       *)
NobodyGivesMore ==
    [][\A u \in User :
         LET before == Granted(policy, roles[u])
             after == Granted(policy, roles[u])'
         IN  ~Covers(before, after) =>
                 \E q \in Request :
                     /\ Writes(q)
                     /\ \/ IsSuper(q) \/ job[q].crossed
                        \/ Covers(who[q].perms, after \ before)]_vars
=============================================================================
