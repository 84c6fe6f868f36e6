SPECIFICATION ServerSpec
CONSTANTS
    Threads = {h1, h2}
    Tokens = {"short", "long", "none", "null"}
    Exp <- MCExp
    From <- MCFrom
    Capacity = 2
    MaxLifetime = 5
    Second = 2
    Skew = 1
    MaxStall = 1
    Horizon = 6
    NoToken = NoToken
    Requests = {r1, r2}
    Guards = 2
    MaxMigrations = 2
    MaxFailures = 1
    Conversations <- MCConversations
    MaxLine = 8
    MaxRead = 12
    Digit <- MCDigit
    Stmts = {a, b}
    Begin = BEGIN
    Commit = COMMIT
    MaxStmts = 4
INVARIANTS
  CacheIsSound
  StreamIsFaithful
PROPERTIES
  CacheFollowsCatalog
  ReloadEnds
  ImplementsContract
CHECK_DEADLOCK FALSE
