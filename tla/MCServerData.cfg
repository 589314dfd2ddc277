\* Tasks: a pipeline of two steps, and a third task that is a single task or
\* would be a duplicated step; one connection loss.  Two overlapping requests
\* for settings and for artifacts; one login.  Two minutes to the hour; minutes
\* are kept for three, hours for five.  Two versions of an asset of two parts, one
\* fault.  A session or a pending login lasts a unit of time, the metadata two.
SPECIFICATION MCSpec
CONSTANTS
    Task = {t1, t2, t3}
    NoTask = NoTask
    NoStep = NoStep
    MaxReports = 3
    MaxSingle = 0
    MaxCancels = 1
    MaxDrops = 1
    Pipelines <- TwoSteps
    Hour = 2
    Day = 1
    Keep = 3
    KeepHourly = 5
    LastMinute = 7
    MaxStoreFaults = 1
    Request = {r1, r2}
    Tenant = {x1, x2}
    NoTenant = NoTenant
    None = None
    Chunks = 2
    MaxVersion = 2
    MaxDownloadFaults = 1
    Login = {l1}
    User = {u1}
    PendingTtl = 1
    CacheTtl = 2
    SessionTtl = 1
    LastTime = 3
SYMMETRY Symmetry
CHECK_DEADLOCK FALSE
INVARIANTS
    ServerDataInv
    StepsInSequence
    CompletedIsHonest
    DeletedIsSummarised
    AloneServesWhole
PROPERTIES
    UpdateIsConfined
    
