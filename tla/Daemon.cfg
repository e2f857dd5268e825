CONSTANTS
    c1 = c1
    c2 = c2
    a1 = a1
    Callers = {c1, c2}
    Accounts = {a1}
    CliHonoursLock = TRUE
    MaxInvalidated = 2
    MaxSerial = 2
    MaxVer = 3
    MaxAging = 1
    MaxRequests = 2
    MaxCrashes = 0
    r1 = r1
    r2 = r2
    p1 = p1
    Requests = {r1, r2}
    Polls = {p1}
    Timeout = 2
SPECIFICATION DaemonSpec
CHECK_DEADLOCK FALSE
INVARIANTS
    NoThirdCase
    CacheMatchesFile
PROPERTIES
    QuietExits
    ConnectionsSettle
    RequestsEnd
