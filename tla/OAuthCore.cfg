SPECIFICATION ClientsSpec
CONSTANTS
    Keys = {k1, k2}
    Clients = {c1, c2, c3}
    k1 = k1
    i1 = i1
    i2 = i2
    i3 = i3
    g1 = g1
    g2 = g2
    c1 = c1
    c2 = c2
    c3 = c3
    u2 = u2
    NoClient = noclient
    Codes = {g1, g2}
    NoCode = nocode
    Ids = {i1, i2, i3}
    Second = 2
    CodeTTL = 2
    RefreshTTL = 1
    MaxCodes = 1
    MaxSeen = 1
    MaxTime = 5
    Uris = {u1, u2}
    Trusted = {u1}
    Sources = {s1, s2}
    Requests = {r1, r2}
    ClientTTL = 1
    Window = 1
    MaxClients = 2
    MaxPerSource = 1
    MaxSources = 1
INVARIANTS TypeOK SpentIsRemembered OneTokenPerGrant RegistrationsBounded
PROPERTIES RevokedKeyGetsNothing
CONSTRAINT OneHalf InOrder
