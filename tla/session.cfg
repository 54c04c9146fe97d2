CONSTANTS
    Modules = {"X03X", "L103", "CH58X", "CH59X"}
    ShortProbes = 2
    ProbeCycles = 2
    KnownAttempts = 2
SPECIFICATION Spec
CHECK_DEADLOCK FALSE
INVARIANTS LineFitsModule PhaseNeedsSession StatusFollowsResume
PROPERTIES IdentityProved ConnectionEnds
