SPECIFICATION Spec
CONSTANTS
  Tokens = {t1, t2}
  Accounts = {a1}
  None = None
  Slots = 2
  MaxCache = 2
  MaxEntries = 1
  TTL = 1
  Backoff = 1
  MaxBackoff = 2
  RetryAfters = {0}
  MaxCollections = 3
INVARIANTS ScopeIsolated LatestComplete
PROPERTIES CooldownHonoured CollectionsEnd
