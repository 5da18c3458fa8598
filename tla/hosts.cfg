SPECIFICATION Spec
CONSTANTS
    Parts = {"handles", "emissions", "frames", "media", "history", "trace", "files", "dev"}
    Hosts = {h1, h2}
    MaxObjects = 4
    ItemCapacity = 2
    ByteCapacity = 3
    FrameSizes = {2}
    MaxNodes = 2
    MaxSubmits = 2
    MaxPayloads = 3
    MAX_EMISSIONS = 2
    U32_MAX = 31
    USIZE_MAX = 127
    MAX_COPY_BYTES = 24
    MAX_RATE = 2
    MAX_CHANNELS = 2
    NANOS = 3
    Dimensions = {0, 1, 2, 3, 4, 6, 31}
    Counts = {0, 1, 2, 100}
    MaxRuns = 2
    MaxFrames = 2
    CAPTURE_QUEUE_FRAMES = 1
    MAX_SESSION_FRAMES = 1
    RETAINED_SESSIONS = 2
    MaxSessions = 3
    MAX_HISTORY_SAMPLES = 3
    COMPACT_AT = 3
    COMPACT_TO_SAMPLES = 2
    MaxRestarts = 1
    TraceRuns = 2
    MAX_SESSIONS = 1
    MAX_ENTRIES = 3
    MAX_BYTES = 2
    TraceIds = {1, 2}
    MaxObserved = 4
    MaxSaves = 3
    MaxCrashes = 2
    MaxCommands = 4
    MaxActions = 3

    
    
    
    
PROPERTIES
    
    FilesSurviveCrashes
CHECK_DEADLOCK FALSE
