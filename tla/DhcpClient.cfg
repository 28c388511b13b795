SPECIFICATION Spec
CONSTANTS
  Address = {a1, a2}
  NoAddress = none
  Leases = {10, 200, 360, 600, 4095}
  OptT1 = {20}
  OptT2 = {60}
  U32 = 4096
  MaxTimeout = 40
  CoarseSecs = 10
  RetrySecs = 60
INVARIANTS TypeOK WaitsWithTimer
PROPERTIES ImplementsLease AddressNotKept
