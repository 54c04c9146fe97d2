CONSTANTS
  Packet = 2
  Chunk = 4
  LoaderSize = 2
  FlashSize = 8
  MaxLength = 5
  MaxImage = 1
  MaxPatch = 0
  Orderly = TRUE
  LoaderValues = {0, 8, 16, 257}
  Profiles <- AllProfiles
SPECIFICATION FairSpec
CHECK_DEADLOCK FALSE
INVARIANTS
  TypeOK
  AnsweredIsProgrammed
  ChecksumCovers
  ChunkOnImage
PROPERTIES
  FlashAfterInitialize
  OnlyImageWritten
  FlashPhaseEnds
