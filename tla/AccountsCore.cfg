SPECIFICATION AccountsSpec
CONSTANTS
    u1 = u1
    Tokens = {t1, t2}
    Users = {u1, u2}
    Roles = {"read", "write"}
    NoRole = none
    NoUser = nouser
    TTL = 3
    Debounce = 1
    MaxTime = 4
    MaxFaults = 2
CONSTRAINT OneAccount
SYMMETRY Symmetry
INVARIANTS AccountsTypeOK RestartKeepsSessions RevokedStaysRevoked AccountsKept
CHECK_DEADLOCK FALSE
