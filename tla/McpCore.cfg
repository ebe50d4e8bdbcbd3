SPECIFICATION Spec
CONSTANTS
    Users = {u1, u2}
    Calls = {c1, c2, c3}
    Streams = {x1, x2}
    Jobs = {j1, j2}
    Http = http
    Nobody = nobody
    MaxSessions = 1
    QueueMax = 1
    BatchMax = 2
    JobsMax = 1
    JobTTL = 1
    ScanMax = 1
    CacheTTL = 1
    Never = never
    Broken = broken
    MaxTime = 2
    MaxEdits = 2
CONSTRAINT OneService
SYMMETRY Symmetry
INVARIANTS TypeOK AnswersAccounted SlotsHold JobsKept HintFresh
CHECK_DEADLOCK FALSE
