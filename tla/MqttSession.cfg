SPECIFICATION FairSpec
CONSTANTS
  SubQos = 0
  ReplyQos = {0}
  CleanSession = TRUE
  Unsupported = FALSE
  MaxPacketId = 2
  MaxUp = 2
  MaxDown = 1
INVARIANTS AtMostOneStalePing RequestsAfterConnack PingOutstandingInFlight NeverWaitsForItself
PROPERTIES DeadPeerNoticed ResetNoticed EofNoticed
CHECK_DEADLOCK FALSE
