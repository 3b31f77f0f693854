SPECIFICATION FairSpec
CONSTANTS
  PAGE_SIZE = 12
  PMM_RAM_BASE = 12
  PMM_TOTAL_FRAMES = 5
  WORD = 256
  KERNEL_START = 60
  KERNEL_END = 72
  BITMAP_START = 64
  BITMAP_END = 72
  BootParams <- MCBootParams
  HEAP_HEADER_SIZE = 6
  ALIGNMENT = 2
  KHEAP_INIT_PAGES = 1
  Sizes = {0, 1, 6, 8, 255}
INVARIANTS
  TypeOK
  FreeListSound
  HeapWellFormed
  HeldAreasAllocated
  NoGaps
PROPERTIES
  ImplementsAllocator
  CallsReturn
