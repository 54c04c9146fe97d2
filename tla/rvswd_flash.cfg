CONSTANTS
    Families = {"X03X", "L103", "V20X", "V30X"}
    UserValues = {"u1", "u2"}
    RestValues = {"open", "locked"}
    Protecting = {"locked"}
    MaxFaults = 2
    MaxCommands = 3
SPECIFICATION Spec
CHECK_DEADLOCK FALSE
INVARIANTS SuccessMeansRequested ControllerRestored FailsForCause
PROPERTIES OnlyRequestedBytes CodeErasedOnlyOnRequest
