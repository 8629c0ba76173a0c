SPECIFICATION Spec
CONSTANTS
  a = a  b = b
  Text <- MCText
  Pairs <- MCPairs
INVARIANTS RebuildsBoth ChangesAreFewest OnlyUnchangedIsHidden
CHECK_DEADLOCK FALSE
