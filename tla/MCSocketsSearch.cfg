SPECIFICATION FairSpec
CONSTANTS
  Options <- WideOptions
  Bits = 3
  Words = 2
  TableSize = 4
  Hash <- MCHash
PROPERTIES SearchEnds
