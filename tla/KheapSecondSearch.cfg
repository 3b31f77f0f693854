SPECIFICATION Spec
CONSTANTS
  PAGE_SIZE = 4096
  PMM_RAM_BASE = 1073741824
  PMM_TOTAL_FRAMES = 9
  WORD = 2147483640
  KERNEL_START = 1073774592
  KERNEL_END = 1073778688
  BITMAP_START = 1073774592
  BITMAP_END = 1073778688
  BootParams <- MCBootParams
  HEAP_HEADER_SIZE = 48
  ALIGNMENT = 8
  KHEAP_INIT_PAGES = 4
  Sizes = {4048, 10000}
INVARIANT
  ExpansionSuffices
