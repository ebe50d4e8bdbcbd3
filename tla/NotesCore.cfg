SPECIFICATION Spec
CONSTANTS
    d1 = d1
    d2 = d2
    n1 = n1
    n2 = n2
    v = v
    w = w
    Dirs = {d1, d2}
    Names = {n1, n2}
    Slots <- MCSlots
    Title = title
    NoTitle = other
    Words = {v, w}
    New = {w}
    Edited <- MCEdited
    Here = here
    Links <- MCLinks
    Masks <- MCMasks
    Seeds <- MCSeeds
    Moves <- MCMoves
    Batches <- MCBatches
    Sorts <- MCSorts
    Clients = {c1}
    Threads = {t1}
    Loop = loop
    None = none
    Locks = 5
    Stripe <- MCStripe
    MaxFiles = 3
    MaxClock = 2
    MaxOps = 3
CHECK_DEADLOCK FALSE
INVARIANTS TypeOK KeepsAcked  NoCircularWait ListingFresh
PROPERTIES UpsertFinds ImplementsRegister
