SPECIFICATION CryptoSpec
CONSTANTS
  Block = 4
  Field = 2
  Word = 32
  Quad = 64
  Lens = {1, 2, 4, 8}
  MaxMessage = 16
  Contents <- OnesAndOne
INVARIANTS SumExact
CHECK_DEADLOCK FALSE
