SPECIFICATION Spec
CONSTANTS
  Scripts <- InterimScripts
  LineMax = 6
  MaxSize = 64
INVARIANTS ReplyExact
