CONSTANTS
  GROUPS = 2
  BLOCKS = 5
  BLOCKS_PER_GROUP = 3
  INODES_PER_GROUP = 2
  ROOT_INO = 1
  FIRST_INO = 2
  BS = 2
  N_DIRECT = 2
  DEPTH = 3
  Name = {"a", "b"}
  MName = {"a", "b"}
  FirstName = "a"
  BadName = "/"
  RecLenFor <- MCRecLenFor
  DIR_LEN = 3
  LINK_MAX = 4
  MAX_DEPTH = 4096
  CHUNK = 2
  MAX_FILE_SIZE = 32
  Spans <- MCSpans
  Sizes <- MCSizes
SPECIFICATION Spec
INVARIANTS BlocksAccounted TreeSound SameAsMemFs
