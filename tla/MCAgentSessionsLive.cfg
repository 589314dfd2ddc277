\* One agent with an old and a new connection, under the fairness of FairSpec.
SPECIFICATION FairSpec
CONSTANTS
    None = None
    Agent = {a1}
    Ws = {w1, w2}
PROPERTIES
    StableAgentServed
    SilentAgentShownOffline
