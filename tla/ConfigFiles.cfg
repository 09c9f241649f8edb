CONSTANTS
  a = a
  b = b
  c = c
  MaxLines = 3
  Key = {a, b, c}
  Value = {1, 2, 3}
  Bucket = {0, 1}
  Hash <- Collide
  File <- ShortFiles
  Skip = Skip
  None = None
  NoKey = NoKey
  NoAnswer = NoAnswer
SPECIFICATION Spec
INVARIANTS
  TypeOK
  LastLineWins
PROPERTIES
  RefinesMap
CHECK_DEADLOCK FALSE
