SPECIFICATION Spec
CONSTANTS
  Id = {ssid, key}
  Value = {v0, v1}
  Factory = v0
  Period = period
  DebugMode = debug
  CountRange = 8
  MayWrap = FALSE
  MayFail = FALSE
  MayReset = TRUE
INVARIANT LoadsLatest
PROPERTY ImplementsRegister
