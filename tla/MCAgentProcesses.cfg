\* One user who signs in twice, one monitored program, three processes in all.
SPECIFICATION FairSpec
CONSTANTS
    User = {u1}
    Sid = {s1, s2}
    Pid = {p1, p2, p3}
    Prog = {g1}
    System = System
    RestartAfter = 1
    DeniedLimit = 0
    None = None
CHECK_DEADLOCK FALSE
INVARIANTS
    
    MonitoredKept
PROPERTIES
    EndedIsHandled
