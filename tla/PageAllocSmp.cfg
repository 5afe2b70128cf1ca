SPECIFICATION Spec
CONSTANTS
  CPU = {c1, c2}
  NoCPU = NoCPU
  MAX_ORDER = 2
  Sections <- SmpSections
  Frame <- SmpFrame
  Boot <- SmpBoot
  Requests <- SmpRequests
  MaxRef = 1
  MaxTotal = 3
SYMMETRY Symmetry
PROPERTIES LocksGuardLists StaleOnlyBesideStrayTails ImplementsPool
