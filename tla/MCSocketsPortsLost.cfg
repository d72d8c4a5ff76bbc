SPECIFICATION Spec
CONSTANTS
  Options <- WaitOptions
  Bits = 2
  Words = 2
  TableSize = 4
  Hash <- MCHash
INVARIANTS OutOfPortsInUse
