SPECIFICATION Spec
CONSTANTS
    Runs = {r1, r2}
    FirstRun = r1
    Nobody = Nobody
    MaxAttempts = 2
    MaxDeaths = 1
    MaxStalls = 1
    Subs = {s1, s2}
    NoSub = NoSub
    OnlySub = s1
    Deliveries = {d1, d2}
    NoHolder = NoHolder
    MaxRounds = 3
    MaxTrouble = 2
    Ticks = {t1, t2}
    NoTick = NoTick
    FirstTick = t1
    MaxCycles = 2
    Fleet = {a, b, c}
    NoTenant = NoTenant
    OnlyTenant = a
    OtherTenant = b
    Rollers = {x, y}
    NoRoller = NoRoller
    FirstRoller = x
    First = 1
    Versions = {2}
    BatchSize = 1
    MaxChecks = 2
    MaxRequeues = 1
    MaxReleases = 2
    MaxAsks = 2
    MaxMishaps = 1
CHECK_DEADLOCK FALSE
INVARIANTS
    TypeOK
    ReadyIsWhole
    NothingLeftBehind
    LastWordIsStripes
    OnePays
    StruckIsRepaid
    ScrubbedIsFree
    CanaryFirst
    BatchesInOrder
PROPERTIES
    RemovalStands
    TenantComesToRest
    KeepsOne
    BillingSettles
    NothingDeletedUnsaved
    DoneIsShipped
    ReleaseEnds
