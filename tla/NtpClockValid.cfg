SPECIFICATION Spec
CONSTANTS
  Wrap = 16
  Interval = 5
  Delay = 1
  Query = 2
  Year = {2024}
INVARIANT RtcIsValid
