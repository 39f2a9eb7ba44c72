SPECIFICATION Spec
CONSTANTS
    NumChecks = 3
    Workers = 3
    Probe <- ProbeFetches
    Recheck <- RecheckFetches
    Subrequests = 7
    MaxChecks = 3
    D1Queries = 9
    EmailD1 = 1
    NotificationReserve = 2
    NotificationD1Cost = 1
    Batch = 3
    DeliveryD1 = 2
    Keys = {k1, k2}
    Drains = {d1, d2}
    MaxAttempts = 2
    Take = 2
    MaxFaults = 1
    Isolates = {"older", "newer"}
    Bundled <- BundleSizes
    Calls = {"scheduled", "health"}
    HealthCalls = {"health"}
    IsolateOf <- CallIsolates
    NumPlaces = 2
    ClassOf <- RowClasses
    RowLimit = 1
    TrialLimit = 1
    Clients = {"tab"}
    Requests = {"edit"}
    HoursInDay = 2
    DaysInMonth = 2
    HourlyDays = 2
    DailyDays = 3
    CheckHours = {1, 3}
    LastHour = 7
    DayLength = 4
    WeekDays = 3
    MonthDays = 3
    TargetDay = 0
    TargetHour = 1
    SendHour = 2
    MinGap = 10
    RetryAfter = 1
    MailRuns = {"first", "next"}
    MaxSlips = 1
    MaxRefused = 1
    LastTime = 25
CHECK_DEADLOCK FALSE
INVARIANTS
    TypeOK
    
    ReservesHold
    RepeatsHaveACause
    GivenUpWhenTried
    SchemaAnswersAreTrue
    RotationIsSafe
    BucketsAddUp
    MailsComeOnce
PROPERTIES
    RunEnds
    KeepsPromise
    EveryAlertSettles
