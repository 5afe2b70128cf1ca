SPECIFICATION Spec
CONSTANTS
  RETRY_LIMIT = 2
  Kinds = {"none", "mouse", "kbd", "kbd1"}
  MaxKeys = 1
  Keys = {"shift_left", "shift_right", "ctrl_right", "alt_left", "caps_lock", "letter", "up_arrow"}
  MaxBytes = 4
  MaxEvents = 5
  MAX_ATTEMPTS = 2
  MaxTicks = 2
  Entries <- MCEntries
  MaxEntries = 3
  RedirectCount = 4
  FirstVector = 6
  LastVector = 9
  Functions = 2
  BarCount = 3
  MaxCaps = 4
  Layouts <- MCLayouts
  DeviceKinds = {"block", "scsi", "console", "modern"}
  CapLists <- MCCapLists
  QueueSizes = {0, 1, 3, 6}
  MaxQueues = 2
  MaxDesc = 4
  DescPerPage = 2
  UsedPerPage = 3
  GicEntries <- MCGicEntries
  GicTable = 3
  LineCounts = {32, 256, 1020}
  BaseMpidr = 0
INVARIANTS KeyboardsFound CarriesModifiers ReadsOneMoment RoutedToHandler DecodesOnlyItsAddresses
  ListedFaithfully VirtioSound GicProgrammed
PROPERTY InitReturns
CHECK_DEADLOCK FALSE
