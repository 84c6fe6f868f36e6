SPECIFICATION FairSpec
CONSTANTS
    Ids = {i1}
    Names = {n1}
    Workers = {w1}
    Callers = {c1}
    MaxAttempts = 2
    StuckAfter = 1
    BaseBackoff = 1
    MaxBackoff = 2
    OrderBound = 1
    MaxAge = 3
    NoId = NoId
    NoName = NoName
PROPERTIES
    InboxIsWorked
