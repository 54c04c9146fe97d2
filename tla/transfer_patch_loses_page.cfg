CONSTANTS
  Packet = 2
  Chunk = 2
  LoaderSize = 1
  FlashSize = 4
  MaxLength = 2
  MaxImage = 1
  MaxPatch = 1
  Orderly = TRUE
  LoaderValues = {0, 8}
  Profiles <- OnlyCH58x
SPECIFICATION FairSpec
CHECK_DEADLOCK FALSE
PROPERTIES
  PartialKeepsRest
