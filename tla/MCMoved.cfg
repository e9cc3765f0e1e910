SPECIFICATION PartSpec
CONSTANTS
    MName = {"a", "b", "bin", "dev", "null", "sh"}
    SName = {"a", "b", "bin", "dev", "null", "sh"}
    Programs <- Archive
    LongNames = {"long"}
    PATH_MAX = 8
    CHUNK = 1
    MAX_FILE_SIZE = 1
    FDS = 1
    SPAWN_FDS = 1
    SEEK_MAX = 1
    UPAGE = 1
    NameOrder <- Order
    Procs = {1, 2}
    FILES = 2
    NODES = 3
    OFFSETS = 2
    Uses <- ThroughItself
    TEES = 1
    TEES_EACH = 1
    TEE_CHUNK = 1
    ECHO_MAX = 1
INVARIANT MovedIsThere
