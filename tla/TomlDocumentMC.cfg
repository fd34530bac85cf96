\* Documents of up to four leaves, a depth of 3, and the subtree of "a".
SPECIFICATION DocSpec
CONSTANTS
  Parts <- MCParts
  Leaves <- MCLeaves
  MaxLeaves = 4
  Elements <- MCElements
  IncludesKey <- Inc
  MaxDepth = 3
  Prefix <- MCPrefix
INVARIANTS
  EverythingIsFound
  LossIsFlagged
  SubtreeHoldsItsKeys
CHECK_DEADLOCK FALSE
