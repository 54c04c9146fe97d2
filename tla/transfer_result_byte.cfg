CONSTANTS
  Packet = 2
  Chunk = 2
  LoaderSize = 1
  FlashSize = 4
  MaxLength = 2
  MaxImage = 1
  MaxPatch = 0
  Orderly = TRUE
  LoaderValues = {0, 4, 8}
  Profiles <- AllProfiles
SPECIFICATION Spec
CHECK_DEADLOCK FALSE
INVARIANTS
  AnsweredIsProgrammed
