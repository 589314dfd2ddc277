\* Deployments: two requests for one or two agents, two crashes.  Frontends: two,
\* of one agent; two changes of the table, one lost connection, two messages under
\* way.
SPECIFICATION MCSpec
CONSTANTS
    Deployment = {d1, d2}
    Agent = {a1, a2}
    None = None
    MaxCrashes = 2
    Frontend = {f1, f2}
    VM = {v1}
    MaxChanges = 2
    MaxLost = 1
    MaxWire = 2
CHECK_DEADLOCK FALSE
INVARIANTS
    ServicesInv
    ActiveIsWorkedOn
    
    WatchedIsTracked
PROPERTIES
    
    DeploymentDecided
    FrontendCatchesUp
    StopEndsService
