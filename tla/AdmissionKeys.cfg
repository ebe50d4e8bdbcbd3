SPECIFICATION Spec
CONSTANTS
    s1 = s1
    s2 = s2
    r1 = r1
    r2 = r2
    r3 = r3
    Requests = {r1, r2, r3}
    Sources = {s1, s2}
    Source <- MCSource
    Tiers = {"login", "oauth"}
    Tier <- MCTier
    Limit <- MCLimit
    Window <- MCWindow
    CleanUp = 1
    Everyone = everyone
    FailWindow = 2
    SourceBudget = 1
    GlobalBudget = 2
    MaxTime = 3
    MaxFails = 3
INVARIANT KeyAttemptsLimited
