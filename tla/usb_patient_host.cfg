\* A host that keeps to the order of the protocol, no bus reset.
SPECIFICATION FairSpec
CONSTANTS
  MaxCommand = 4
  MaxPacket = 3
  MaxReset = 0
  MaxHalt = 0
  Patient = TRUE
INVARIANT DataReachesItsOperation
PROPERTIES ReplyAnswersLastCommand ExchangeEnds CommandEndpointListens
