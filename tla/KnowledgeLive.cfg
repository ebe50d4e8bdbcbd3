SPECIFICATION FairSpec
CONSTANTS
    a = a
    b = b
    Paths = {a}
    Special = {}
    Threads = {t1}
    Requests = {r1}
    Startup = startup
    NoPath = nopath
    FolderMoves = {}
    Folders = {}
    BadRevs = {2}
    Batch = 1
    MaxAttempts = 2
    MaxRev = 3
    MaxFaults = 1
INVARIANT AttemptsCounted
PROPERTIES EachStepIsProgress ImplementsDirtyQueue ServesDirtyQueue Converges
CHECK_DEADLOCK FALSE
