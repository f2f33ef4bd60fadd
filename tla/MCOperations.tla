---------------------------- MODULE MCOperations ----------------------------
(* The outbox (Outbox), the rights of principals (Authority) and the       *)
(* settings cache (SettingCache) for TLC.  The components share no row, so *)
(* one of them moves in each behaviour and the others keep their initial   *)
(* states.                                                                 *)
EXTENDS MCOutbox

CONSTANTS
    ria, sam, admin, super, manage, post,
    Instance, User, Role, Super, RoleSets, All, Manage, Grants, Key, Request,
    Rosters, Policy, None, TTL, MaxClock, MaxChanges,
    NoInstance, Reader, SettingTTL, MaxRevision

VARIABLES roles, active, policy, key, cache, clock, at, who, job, changes, held
rightsVars == <<roles, active, policy, key, cache, clock, at, who, job, changes, held>>

VARIABLES revision, outdated, entry, age, link, notices, saving, place, host, began, loaded,
          spoilt
settingsVars == <<revision, outdated, entry, age, link, notices, saving, place, host, began,
                  loaded, spoilt>>

VARIABLE side  \* the component that moves

Rights == INSTANCE Authority WITH pc <- at
Settings == INSTANCE SettingCache
            WITH Request <- Reader, TTL <- SettingTTL, pc <- place, at <- host

ASSUME RightsAssumption == Rights!AuthorityConstants
ASSUME SettingsAssumption == Settings!CacheConstants

OperationsInit ==
    /\ Init /\ Rights!Init /\ Settings!Init
    /\ side \in {"outbox", "rights", "settings"}
    /\ side # "rights" => \A u \in User : Super \in roles[u]

OperationsNext ==
    /\ \/ side = "outbox" /\ Next /\ UNCHANGED <<rightsVars, settingsVars>>
       \/ side = "rights" /\ Rights!Next /\ UNCHANGED <<vars, settingsVars>>
       \/ side = "settings" /\ Settings!Next /\ UNCHANGED <<vars, rightsVars>>
    /\ UNCHANGED side

OperationsSpec ==
    OperationsInit /\ [][OperationsNext]_<<vars, rightsVars, settingsVars, side>>

(* The properties of Authority and SettingCache, which are stated there.   *)
PermissionsAreRecent == Rights!PermissionsAreRecent
LastSuperStays == Rights!LastSuperStays
SupersAreProtected == Rights!SupersAreProtected
NobodyGivesMore == Rights!NobodyGivesMore
StalenessBound == Settings!StalenessBound
OldForAReason == Settings!OldForAReason

TwoRoleSets == {{admin}, {super}}
TwoGrants == {{manage, post}, {post}}
AdminsManage == [r \in Role |-> {manage, post}]
OneOrTwo ==
    {[u \in User |-> IF u = ria THEN {super} ELSE s] : s \in {{super}, {}}}

OperationsSymmetry ==
    Symmetry \cup Permutations(Request) \cup Permutations(Instance) \cup Permutations(Reader)
=============================================================================
