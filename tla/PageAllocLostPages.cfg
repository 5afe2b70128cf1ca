SPECIFICATION Spec
CONSTANTS
  CPU = {c1}
  NoCPU = NoCPU
  MAX_ORDER = 3
  Sections <- MCSections
  Frame <- MCFrame
  Boot <- MCBoot
  Requests <- MCRequests
  MaxRef = 2
  MaxTotal = 4
INVARIANT NoPageLost
