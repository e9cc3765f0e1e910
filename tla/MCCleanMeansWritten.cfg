CONSTANTS
  Block = {super, groups, data}
  SUPER = super
  GROUPS = groups
  Value = {0, 1}
  Zero = 0
  VALID = 1
  None = None
  CAPACITY = 2
SPECIFICATION MSpec
INVARIANT CleanMeansWritten
