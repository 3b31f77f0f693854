SPECIFICATION PmmSpec
CONSTANTS
  PAGE_SIZE = 4
  PMM_RAM_BASE = 4
  PMM_TOTAL_FRAMES = 8
  WORD = 64
  KERNEL_START = 12
  KERNEL_END = 26
  BITMAP_START = 20
  BITMAP_END = 26
  BootParams <- MCBootParams
INVARIANTS
  PmmTypeOK
  FreeCount
  BitmapIsReservedPlusHanded
  UsableBelowHighest
PROPERTIES
  KernelFramesReserved
