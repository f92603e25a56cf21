SPECIFICATION Spec
CONSTANTS
  N_QNODES = 3
  Queues = {"ready", "waiting", "sleep"}
  Entries <- MCEntries
  Discipline <- MCDiscipline
  BUF_SIZE = 3
  SIO_CHARS = {"a", "b"}
  SIO_TEXTS <- MCTexts
  READERS_MAX = 1
  HEAP_MAPS <- MCMaps
  HEAP_TOP = 20
  VIDEO_BASE_ADDR = 7
  FAST_SEARCH_INCREMENT = 2
  HEAP_BYTES = {1, 4, 5, 12}
  KALLOC_BASE_ADDR = 32
  KALLOC_LIMIT = 60
  OTHER_VECTORS = {32, 33}
  NIC_VECTORS = {42, 43}
  I8255X_DEFAULT_IRQ = 43
  MAX_IRQ_FIND_TRIES = 3
  I8255X_RX_BUFFER_COUNT = 3
  NUM_MESSAGES = 2
  FRAMES_MAX = 6
  SENT_MAX = 2
  NUM_SCREENS = 3
  BUFSIZE = 4
  PACKET = 2
  SCREEN_USERS = {1, 2}
  KEYS = {"a", "b"}
  TAG_CLUSTERS = 2
  N_CLUSTERS = 6
  FAT64_CLUSTER_SIZE = 2
  DIR_ENTRIES = 2
  LOSSES_MAX = 1
  SCREEN_MAX_X = 2
  SCREEN_MAX_Y = 2
  SCROLLS <- MCScrolls
  PRINTERS = {1, 2}
  LETTERS = {"a", "b"}
  TEXT_MAX = 5
  BEYOND_MAX = 2
  PCI_MAX_SLOT_COUNT = 2
  PCI_MAX_FUNC_COUNT = 2
  PCI_BUSES <- MCBuses
  FIRST_PORT = 4096
  last_port = 61440
  WORD_BITS = 8
  PRINTF_BUF = 5
  PRINTED_TEXTS <- MCPrinted
INVARIANTS
  DevicesTypeOK
  TransmissionGoesOn
  NodesConserved
  Linked
  HeapTiled
  HeapMerged
  
  NoneTwice
  FirstLapInOrder
  ListedAsFound
  
  ScreensKept
  ReadIsFirst
  PacketsAligned
  FramesApart
  ChainsSound
  NothingLeaked
  
  
  CursorReturns
  ShowsText
PROPERTIES
  ImplementsAbsQueue
  
  KallocDisjoint
  ImplementsAbsFiles
  
