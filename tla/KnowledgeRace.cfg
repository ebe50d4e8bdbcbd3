SPECIFICATION Spec
CONSTANTS
    a = a
    b = b
    Paths = {a}
    Special = {}
    Threads = {t1}
    Requests = {r1}
    Startup = startup
    NoPath = nopath
    FolderMoves = {}
    Folders = {}
    BadRevs = {}
    Batch = 1
    MaxAttempts = 1
    MaxRev = 2
    MaxFaults = 0
INVARIANTS ConcurrentChangesSafe
CHECK_DEADLOCK FALSE
