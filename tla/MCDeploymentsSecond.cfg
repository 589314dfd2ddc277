\* Two requests at the same time.
SPECIFICATION Spec
CONSTANTS
    Deployment = {d1, d2}
    Agent = {a1, a2}
    None = None
    MaxCrashes = 0
SYMMETRY Symmetry
CHECK_DEADLOCK FALSE
INVARIANTS
    SecondDoesNotStart
