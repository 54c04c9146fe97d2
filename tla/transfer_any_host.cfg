CONSTANTS
  Packet = 2
  Chunk = 2
  LoaderSize = 2
  FlashSize = 2
  MaxLength = 1
  MaxImage = 1
  MaxPatch = 1
  Orderly = FALSE
  LoaderValues = {0, 8}
  Profiles <- AllProfiles
SPECIFICATION Spec
CHECK_DEADLOCK FALSE
INVARIANTS
  ReadyLoaderIsWhole
  WorkspaceExclusive
PROPERTIES
  ReadPageIsKept
