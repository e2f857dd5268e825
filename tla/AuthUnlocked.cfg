CONSTANTS
    c1 = c1
    c2 = c2
    a1 = a1
    a2 = a2
    Callers = {c1, c2}
    Accounts = {a1}
    CliHonoursLock = FALSE
    MaxInvalidated = 1
    MaxSerial = 3
    MaxVer = 3
    MaxAging = 1
    MaxRequests = 2
    MaxCrashes = 1
SPECIFICATION Spec
CHECK_DEADLOCK FALSE
SYMMETRY Symmetry
INVARIANTS
    NoRejectedTokenAgain
    DiskRedeemable
