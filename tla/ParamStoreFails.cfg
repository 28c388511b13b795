SPECIFICATION Spec
CONSTANTS
  Id = {period, debug}
  Value = {v0, v1}
  Factory = v0
  Period = period
  DebugMode = debug
  CountRange = 8
  MayWrap = FALSE
  MayFail = TRUE
  MayReset = FALSE
INVARIANTS TypeOK SavedBoots LostAfterTwo CacheIsStored
