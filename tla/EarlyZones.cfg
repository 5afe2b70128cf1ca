SPECIFICATION EarlySpec
CONSTANTS
  Slab = {s1, s2}
  Allocator = {13, 14, 16}
  NoOwner = 0
  Objects <- MCObjects
  Crowded = s1
  Requests = {0, 2048, 2049, 8192, 8193}
  Stale = {1, 4096}
  PAGE_SIZE = 4096
  MaxLive = 2
  MaxMoving = 2
  LastFrame = 9
  ZoneEnd = 6
  Amounts = {2, 4}
  MAX_ORDER = 3
  PGT_PTE_COUNT = 2
  Top = 3
  Table = {1, 2, 3, 4, 5, 6, 7}
  Root = 1
  Device = {0, 1, 2}
  MaxEarly = 2
  PAGE_OFFSET = 4
  StructSize = {0, 3, 4}
  MaxLarge = 2
  MaxUp = 2
  Node = {n1, n2, n3, n4, n5}
  NoNode = NoNode
  Anchor = Anchor
  Word = 64
  Sizes = {1, 2}
  VmapFront = 5
  VmapSize = 10
  Churn = {n1, n2, n3}
  MaxRemoved = 3
  Foreign <- MCForeign
  MaxFront = 9
  MaxSize = 2
INVARIANT BlocksInTheirZone
