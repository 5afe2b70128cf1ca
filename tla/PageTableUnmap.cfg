SPECIFICATION Spec
CONSTANTS
  PGT_PTE_COUNT = 2
  Top = 3
  Table = {1, 2, 3, 4, 5, 6, 7}
  Root = 1
  Frame = {0, 1, 2}
  MaxEarly = 2
  PAGE_OFFSET = 4
  StructSize = {0, 3, 4}
  MaxLarge = 2
  MaxUp = 2
CHECK_DEADLOCK FALSE
INVARIANT RegionsStayMapped
