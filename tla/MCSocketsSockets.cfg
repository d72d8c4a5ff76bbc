SPECIFICATION Spec
CONSTANTS
  Options <- AllOptions
  Bits = 2
  Words = 3
  TableSize = 4
  Hash <- MCHash
INVARIANTS ResourcesExact OutOfPortsLate LoadIsSpread
