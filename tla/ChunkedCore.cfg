SPECIFICATION Spec
CONSTANTS
    x = x
    y = y
    z = z
    k1 = k1
    k2 = k2
    k3 = k3
    p1 = p1
    p2 = p2
    c1 = c1
    c2 = c2
    c3 = c3
    c4 = c4
    c5 = c5
    Nothing = nothing
    Chunks = {x, y, z}
    Key <- MCKey
    Path <- MCPath
    Mode <- MCMode
    Doc <- MCDoc
    Size <- MCSize
    Clients = {c1, c2, c3, c4, c5}
    Keys = {k1, k2, k3}
    Paths = {p1, p2}
    Declares = {c1, c2, c4}
    Checks = {c3, c4}
    MaxUploads = 2
    MaxChunks = 2
    MaxUpload = 5
    MaxStaged = 6
    TTL = 1
    MaxTime = 2
    MaxFile = 2
INVARIANTS TypeOK AckedIsStaged CapsHold BytesHold
PROPERTIES WritesWhatWasAcked
