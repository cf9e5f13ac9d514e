SPECIFICATION FairSpec
CONSTANTS
  SUM = 16
  CR = 13
  LF = 10
  SP = 9
  BS = 8
  CMD = 14
  MAGIC = 15
  Silent = {0, 1, 2}
  LINE_MAX = 4
  MAX_KERNEL = 5
  MAX_INITRD = 3
  LOAD = 0
  INITRD = 12
  Images <- MCImages
  Changes <- MCChanges
  Fill = {0, 9}
  FAULTS = 1
  MAX_CORES = 3
  BOOTHART = 1
INVARIANTS LoadedExactly CopyExact HartsApart
PROPERTIES ShellReached
