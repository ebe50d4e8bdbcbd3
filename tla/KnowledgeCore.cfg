SPECIFICATION Spec
CONSTANTS
    a = a
    b = b
    Paths = {a, b}
    Special = {b}
    Threads = {t1}
    Requests = {}
    Startup = startup
    NoPath = nopath
    FolderMoves <- MCFolderMoves
    Folders <- MCFolders
    BadRevs = {}
    Batch = 2
    MaxAttempts = 1
    MaxRev = 2
    MaxFaults = 1
INVARIANTS StaleIsAccounted RestartRepairs
CHECK_DEADLOCK FALSE
