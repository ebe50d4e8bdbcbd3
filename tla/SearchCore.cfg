SPECIFICATION Spec
CONSTANTS
    a = a
    b = b
    Paths = {a, b}
    Special = {b}
    Threads = {t1, t2}
    Loop = loop
    Nobody = nobody
    NoPath = nopath
    Tries = 3
    MaxRev = 3
    MaxFaults = 2
INVARIANTS SearchableOrOwed RestartReindexes
PROPERTIES GivesUpOnlyUnderContention
