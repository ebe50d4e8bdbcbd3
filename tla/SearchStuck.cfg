SPECIFICATION Spec
CONSTANTS
    a = a
    b = b
    Paths = {a, b}
    Special = {}
    Threads = {t1}
    Loop = loop
    Nobody = nobody
    NoPath = nopath
    Tries = 3
    MaxRev = 2
    MaxFaults = 0
PROPERTIES FailsOnlyUnderContention
