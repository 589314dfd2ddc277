\* A two-step pipeline, a one-step pipeline beside a single task, or a task that
\* is cancelled, on a connection that stays up.
SPECIFICATION RoomSpec
CONSTANTS
    Task = {t1, t2}
    NoTask = NoTask
    NoStep = NoStep
    MaxReports = 3
    MaxSingle = 1
    MaxCancels = 1
    MaxDrops = 0
    Pipelines <- OneOrTwoSteps
CHECK_DEADLOCK FALSE
PROPERTIES
    ImplementsTaskReports
    RunDecided
    StartedIsConcluded
