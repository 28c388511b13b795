SPECIFICATION Spec
CONSTANTS
  TICKS = 4
  OVERFLOWS = 2
  Radix = 2
  Lengths = {0, 2, 3}
  readbuf_size = 5
  YieldTicks = 2
  MaxBytes = 8
  MaxAge = 4
INVARIANTS TypeOK InStep TimerIsExact
PROPERTY CutTakesATick
