SPECIFICATION AccessSpec
CONSTANTS
  Horizon = 6
  Visit = 2
  Addresses = {a1}
  Window = 2
  Limit = 2
  TokenLife = 1
  MaxCount = 3
  Calls = {k1, k2}
  Tab = a1
  MaxVersion = 2
  Callers = {c1, c2}
  Lifetimes = {1, 2, 4}
  Margin = 2
  Floor = 1
SYMMETRY Symmetric
CHECK_DEADLOCK FALSE
INVARIANTS
  AtMostTwiceTheLimit
  PatientNeverRefused
  TokensSentAreAlive
  OwnActionShown
  NeverStuckLoading
