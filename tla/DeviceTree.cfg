SPECIFICATION Spec
CONSTANTS
  Documents <- MCDocuments
  NodeNames = {10, 11}
  PropNames = {1, 5}
  PropValues <- MCValues
  Sizes = {14, 34}
  MaxTokens = 4
  MaxOps = 2
  MaxRsv = 1
  Bases <- MCBases
  Overlays <- MCOverlays
  OvSizes = {70, 100, 130}
INVARIANTS BlobIsDocument ReadsAgree 
PROPERTIES FailedChangesNothing
CHECK_DEADLOCK FALSE
