SPECIFICATION Spec
CONSTANTS
  Server = {a, b, c, d, e}
  TooLong = {e}
INVARIANTS TypeOK ThirdBootConfigures
PROPERTY BootsWithoutWriting
