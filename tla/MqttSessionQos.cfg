SPECIFICATION Spec
CONSTANTS
  SubQos = 2
  ReplyQos = {2}
  CleanSession = FALSE
  Unsupported = TRUE
  MaxPacketId = 2
  MaxUp = 1
  MaxDown = 1
INVARIANTS TypeOK SessionOnItsConnection
PROPERTY ImplementsGateway
CHECK_DEADLOCK FALSE
