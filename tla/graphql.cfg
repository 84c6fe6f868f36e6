SPECIFICATION Spec
CONSTANTS
    Reads <- MCReads
    Keys <- MCKeys
    Mutations <- MCMutations
    References <- MCReferences
    Sites <- MCSites
    Plural <- MCPlural
    Singular <- MCSingular
    AuthConfigs <- MCAuthConfigs
    Wires <- MCWires
    Payloads <- MCPayloads
    Operations <- MCOperations
    Variable <- MCVariable
    ClockSkew = 1
    LastSecond = 1
INVARIANTS
  EveryReadAgrees
  AnswerIsTheEffect
  WritesAreAllowed
  NothingBeyondTheGrant
  GrantIsServed
  AnsweredAsAuthenticated
CHECK_DEADLOCK FALSE
