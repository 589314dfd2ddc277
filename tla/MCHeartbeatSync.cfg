\* One plain and one monitored process, two ids, two connections.
SPECIFICATION FairSpec
CONSTANTS
    Obj = {o1, m1}
    Monitored = {m1}
    Pid = {p1, p2}
    Val = {0}
    MaxConn = 2
    MaxWire = 1
    MaxTable = 1
    None = None
CHECK_DEADLOCK FALSE
INVARIANTS
    ViewOK

    
