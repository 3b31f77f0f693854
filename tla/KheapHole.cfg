SPECIFICATION Spec
CONSTANTS
  PAGE_SIZE = 4096
  PMM_RAM_BASE = 1073741824
  PMM_TOTAL_FRAMES = 8
  WORD = 2147483640
  KERNEL_START = 1073762304
  KERNEL_END = 1073766400
  BITMAP_START = 1073762304
  BITMAP_END = 1073766400
  BootParams <- MCBootParams
  HEAP_HEADER_SIZE = 48
  ALIGNMENT = 8
  KHEAP_INIT_PAGES = 4
  Sizes = {4048, 8000}
INVARIANT
  KernelIntact
