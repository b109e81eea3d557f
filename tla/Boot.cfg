SPECIFICATION FairBootSpec
CONSTANTS
  PAGE_SIZE = 8
  PageMeta = 3
  KBASE = 2139095040
  MemEnd = 7808
  ImgEnds <- MCImgEnds
  SIZE_2M = 16
  PTP_ENTRIES = 512
  PERIPHERAL_BASE = 504
  PHYSMEM_END = 512
  KERNEL_VADDR = 133693440
  Addresses <- MCAddresses
  NULL = NULL
  UartBlock = 505
  Probes <- MCProbes
  FifoSize = 2
  Garbled = Garbled
  Unknown = Unknown
INVARIANTS
  LayoutFits
  PoolMaximal
  RoundTrip
  EntryRight
  TranslationRight
  AccessesRight
  NoStaleLow
  PoolMapped
  InOrder
PROPERTY BootEnds
