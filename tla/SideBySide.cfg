SPECIFICATION Spec
CONSTANTS
  MaxUint = 3
  None = None
  Versions = {1, 2}
  MaxOutput = 1
  MaxWrite = 2
  DailyDocs <- MCDailyDocs
  BlockDocs <- MCBlockDocs
  Since = 1
  Until = 2
  MaxLines = 2
  Readers = {r1, r2}
  TTL = 2
  Pickers = {p1, p2, p3}
  Logins = {1, 2}
  GoodTTL = 2
  BadTTL = 1
  Backoff = 2
  Payloads <- MCPayloads
  MaxLine = 6
  Texts <- MCTexts
  Limits = {1, 2, 3}
INVARIANTS SectionsTrue HistoryAccounts OwnAnswers NothingLeftRunning OwnModels
           FramesFaithful CutsExact
PROPERTIES PricesSound ReadersReturn
CHECK_DEADLOCK FALSE
