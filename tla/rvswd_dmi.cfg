CONSTANTS
    Families = {"X03X", "L103", "V20X", "V30X", "CH58X", "CH59X"}
    Ops = {"write", "write32", "read", "resume", "reset_halt", "reset_run", "soft_reset_run", "initialize", "program", "verify", "erase_all", "rewrite_page"}
    MaxFaults = 3
    MaxOps = 3
SPECIFICATION Spec
CHECK_DEADLOCK FALSE
INVARIANTS SuccessMeansDone NeighboursUntouched AutoexecOff FailureLeavesNoTrace PageErasedFirst
PROPERTIES LoaderArguments NeverWrittenLocked
