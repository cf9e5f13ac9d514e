SPECIFICATION Spec
CONSTANTS
  PAGE_SIZE = 8
  UINT_MAX = 255
  INT_MAX = 64
  MAX_ORDER = 2
  MAX_RESERVES = 10
  MAX_REGIONS = 2
  FRAME_META = 1
  SLAB_HEADER = 3
  FDT_MAX_DEPTH = 4
  CELL = 16
  MemoryNames <- MCMemoryNames
  UARTNAME = "ky,pxa-uart"
  HINT_MAX = 8
  Boards <- MCBoards
  kmalloc_classes <- MCClasses
  Sizes = {0, 1, 3, 7, 12, 33}
  Pages = {0, 3}
  Offsets = {0, 4, 5, 6}
INVARIANTS
  DeviceTreeRead
  BuddyExact
  RefusedOnlyWhenNone
  ReservedKept
  ObjectsDisjoint
  NothingLost
