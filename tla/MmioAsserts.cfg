SPECIFICATION Spec
CONSTANTS
  Node = {n1, n2, n3, n4, n5}
  Nil = Nil
  Anchor = Anchor
  Word = 64
  Sizes = {1, 2}
  VmapFront = 5
  VmapSize = 10
  Churn = {n1, n2, n3}
  MaxRemoved = 3
  Foreign = {}
CHECK_DEADLOCK FALSE
INVARIANT
  AssertsHold
