CONSTANTS
  Inbound <- MCInbound
  Outbound <- MCOutbound
  Options <- MCConnects
  Pieces = {1, 2, 7}
  MaxPackets = 2
  MaxDrops = 1
  DropAnywhere = FALSE
SPECIFICATION Spec
INVARIANTS FramesIntact ServerReadsRequests RestoredIsResent
CHECK_DEADLOCK FALSE
