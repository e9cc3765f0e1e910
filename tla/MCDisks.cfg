CONSTANTS
  Block = {super, groups, data}
  SUPER = super
  GROUPS = groups
  Value = {0, 1}
  Zero = 0
  VALID = 1
  None = None
  CAPACITY = 2
  Kinds <- Sticks
  LAST10 = 3
  Data = {"a"}
  PER = 1
  MAX_TRIES = 2
  POLLS = 2
SPECIFICATION DisksSpec
INVARIANTS CleanMark SyncedIsOnMedium InTurn FlushReaches
PROPERTIES ReadOnlyWritesNothing ImplementsStore ImplementsBlockDevice
CHECK_DEADLOCK FALSE
