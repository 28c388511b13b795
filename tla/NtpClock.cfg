SPECIFICATION Spec
CONSTANTS
  Wrap = 16
  Interval = 5
  Delay = 3
  Query = 4
  Year = {2024, 2027}
INVARIANTS TypeOK Punctual
PROPERTIES NotEarly ClockIsSet
