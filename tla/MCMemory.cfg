CONSTANTS
  FRAME_SIZE = 4
  LOW_LIMIT = 4
  WORD = 8
  WORD_BYTES = 1
  TOP = 2
  FAN = 8
  MAP_START = 6
  MAP_END = 10
  MAPS_MAX = 2
  AREA = 384
  SLOTS = 3
  SIZE = 2
  SLOT_SIZE = 4
  STACK_TOP = 255
  STACK_PAGES = 1
  ARGS_MAX = 4
  MAX_SIZE = 64
  PROGRAM_BASE = 4
  PROGRAM_END = 24
  HEADER_LEN = 16
  PHDR_LEN = 8
  NOTE_HEADER = 12
  MACHINE = 62
  VERSION = 1
  Machines <- MCMachines
  PHYS_OFFSET = 256
  HEAP_BASE = 320
  HEAP_FRAMES = 8
  PHYS_MAP_MAX = 64
  FIRST_SHARED = 7
  LOADER = 2
  Framebuffer <- MCFramebuffer
  USER_RESERVE = 2
  PIPE_FRAMES = 2
  FLUSH_MAX = 1
  Procs = {1, 2}
  Strings <- MCStrings
  Buffers <- MCBuffers
  Windows <- MCWindows
  Touched = {6, 8}
SPECIFICATION MemorySpec
INVARIANTS FramesAccounted SpacesSound AcceptedLoads HeapSound
CHECK_DEADLOCK FALSE
