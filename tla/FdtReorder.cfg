SPECIFICATION ReorderSpec
CONSTANTS
  Documents <- MCDocuments
  NodeNames = {10, 11}
  PropNames = {1, 5}
  PropValues <- MCValues
  Sizes = {40, 90}
  MaxTokens = 4
  MaxOps = 2
  MaxRsv = 1
  Bases <- MCBases
  Overlays <- MCOverlays
  OvSizes = {70, 100, 130}
INVARIANT OpenIntoKeepsTree
CHECK_DEADLOCK FALSE
