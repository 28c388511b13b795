SPECIFICATION Spec
CONSTANTS
  Address = {a1, a2}
  NoAddress = none
  MaxLease = 2
  SYS_MSG_SIZE = 3
  MaxStations = 2
INVARIANTS TypeOK UpAfterDown InterfaceFollowsLink AccessPointFollowsLink
PROPERTIES Reconnects LossNoticed
CHECK_DEADLOCK FALSE
