\* One user, two requests for two agents, every way to close a session.
SPECIFICATION Spec
CONSTANTS
    Token = {t1, t2}
    Tunnel = {u1}
    Socket = {w1}
    Owner = {o1}
    Agent = {a1, a2}
    Request = {r1, r2}
    Close = {c1}
    None = None
SYMMETRY Symmetry
CHECK_DEADLOCK FALSE
INVARIANTS
    RegistryOK
    OwnerHasOneSession
    AnswerFitsRequest
    PendingCanBeCancelled
