SPECIFICATION BootSpec
CONSTANTS
  PAGE_SIZE = 8
  PageMeta = 3
  KBASE = 512
  MemEnd = 48
  ImgEnds = {0}
  SIZE_2M = 16
  PTP_ENTRIES = 4
  PERIPHERAL_BASE = 3
  PHYSMEM_END = 4
  KERNEL_VADDR = 32
  Addresses = {}
  NULL = NULL
  UartBlock = 3
  Probes = {}
  FifoSize = 2
  Garbled = Garbled
  Unknown = Unknown
INVARIANT JumpLands
