SPECIFICATION Spec
CONSTANTS
    a1 = a1
    a2 = a2
    u1 = u1
    o1 = o1
    Agent = {a1, a2}
    VmUser = {u1}
    Operator = {o1}
    Request = {r1, r2}
    Call <- MCCall
    MaxId = 4
    MaxCalls = 3
    MaxFaults = 1
    MaxAdmin = 1
    None = None
SYMMETRY Symmetry
CHECK_DEADLOCK FALSE
INVARIANTS
    StoredOK
    
    

    
