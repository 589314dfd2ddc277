\* Two agents, two websockets: the races between one agent's old and new
\* connection, and between two agents in one watchdog round.
SPECIFICATION Spec
CONSTANTS
    None = None
    Agent = {a1, a2}
    Ws = {w1, w2}
SYMMETRY Symmetry
INVARIANTS
    ActiveIsServed
    NoOrphanedConnection
    ConnectedIsReachable
    
    NoLostSnapshot
