CONSTANTS
  PAGE_SIZE = 16
  PMM_RAM_BASE = 16
  PMM_TOTAL_FRAMES = 12
  WORD = 256
  KERNEL_START <- MCKernelStart
  KERNEL_END <- MCKernelEnd
  BITMAP_START <- MCBitmapStart
  BITMAP_END <- MCBitmapEnd
  BootParams <- MCBootParams
  HEAP_HEADER_SIZE = 4
  ALIGNMENT = 2
  KHEAP_INIT_PAGES = 1
  Sizes = {0, 6, 8, 20, 36, 200}
  LOAD_ADDRESS = 64
  TEXT_SIZE = 5
  RODATA_SIZE = 3
  DATA_SIZE = 11
  BSS_SIZE = 5
  EH_FRAME_SIZE = 1
  STACK_SIZE = 48
  BITMAP_SIZE = 2
  BITMAP_ALIGN = 16
  LoadShifts <- MCLoadShifts
  Mpidrs = {0, 1}
  EntryLevels = {1, 2}
  BACKED_FRAMES = 11
  DEFAULT_LENGTH = 8
  Numbers = {0, 6, 8, 20, 36, 200}
SPECIFICATION SolaceSpec
INVARIANTS BootHandsOver OnlyStrayFreeBreaks AreasUsable FramesAccounted
PROPERTY ReachesShell AllocEnds
CHECK_DEADLOCK FALSE
