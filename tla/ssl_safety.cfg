SPECIFICATION Spec
CONSTANTS
    Ids = {i1}
    Names = {n1}
    Workers = {w1, w2}
    Callers = {c1}
    MaxAttempts = 2
    StuckAfter = 2
    BaseBackoff = 1
    MaxBackoff = 1
    OrderBound = 2
    MaxAge = 3
    NoId = NoId
    NoName = NoName
SYMMETRY Symmetry
INVARIANTS
  ActiveHasCertificate
  ClaimHolds
  OneOrderPerName
PROPERTY
  ChallengeSurvives
