SPECIFICATION FairSpec
CONSTANTS
    Conn = {c1, c2}
    MaxDeploy = 2
    MaxVersion = 2
    MaxDrops = 1
    None = None
CHECK_DEADLOCK FALSE
PROPERTIES
    UsedMeansPersisted
    HandshakeAnswered
