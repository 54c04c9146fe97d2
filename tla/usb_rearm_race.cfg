\* A host that may send its command at any moment, with no bus reset to recover.
SPECIFICATION FairSpec
CONSTANTS
  MaxCommand = 2
  MaxPacket = 1
  MaxReset = 0
  MaxHalt = 0
  Patient = FALSE
PROPERTY CommandEndpointListens
