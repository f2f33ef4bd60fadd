SPECIFICATION OperationsSpec
CONSTANTS
    Event = {e1, e2}
    Worker = {w1, w2}
    NoEvent = NoEvent
    NoWorker = NoWorker
    MaxAttempts = 3
    Lease = 3
    HandlerTimeout = 1
    Overhead = 1
    BaseBackoff = 2
    MaxBackoff = 3
    MaxFaults = 1
    MaxClaims = 4
    ria = ria
    sam = sam
    admin = admin
    super = super
    manage = manage
    post = post
    Instance = {i1, i2}
    User = {ria, sam}
    Role = {admin}
    Super = super
    RoleSets <- TwoRoleSets
    All = all
    Manage = manage
    Grants <- TwoGrants
    Key = {a1}
    Request = {q1, q2}
    Rosters <- OneOrTwo
    Policy <- AdminsManage
    None = None
    TTL = 1
    MaxClock = 1
    MaxChanges = 2
    NoInstance = NoInstance
    Reader = {r1}
    SettingTTL = 1
    MaxRevision = 2
SYMMETRY OperationsSymmetry
INVARIANTS ExclusiveHandling PermissionsAreRecent StalenessBound OldForAReason
PROPERTIES VerdictMatchesCount ImplementsDelivery LastSuperStays SupersAreProtected NobodyGivesMore
