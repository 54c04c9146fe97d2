CONSTANTS
    Modules = {"X03X", "CH58X"}
    ShortProbes = 1
    ProbeCycles = 1
    KnownAttempts = 1
SPECIFICATION Spec
CHECK_DEADLOCK FALSE
PROPERTY StopGivesInfo
