\* The dispatcher's own status write racing the verdict.
SPECIFICATION FairSpec
CONSTANTS
    Task = {t1}
    NoTask = NoTask
    NoStep = NoStep
    MaxReports = 3
    MaxSingle = 1
    MaxCancels = 1
    MaxDrops = 0
    Pipelines <- OneStep
CHECK_DEADLOCK FALSE
PROPERTIES
    VerdictRecorded
