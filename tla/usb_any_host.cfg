\* Any host, one that abandons exchanges or never reads included, a bus reset
\* and a cleared halt: the device's own fairness only.
SPECIFICATION DeviceSpec
CONSTANTS
  MaxCommand = 3
  MaxPacket = 1
  MaxReset = 1
  MaxHalt = 1
  Patient = FALSE
INVARIANTS TypeOK FlagsTrackEndpoints BuffersNotShared AcceptedCommandKept StaleReplyRetired
PROPERTIES MailboxSpec CommandNotBlocked
