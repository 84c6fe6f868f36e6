SPECIFICATION Spec
CONSTANTS
  Keys <- MCKeys
  DefaultKey = 2
  EmbedMatch <- MCEmbedMatch
  Tables <- MCTables
  Routines <- MCRoutines
  Schemas = {"public"}
  Writers = {"login", "user"}
  Requests <- MCRequests
  Configs <- MCConfigs
  Contents <- MCContents
  MaxOthers = 1
  GucStatus = 404
INVARIANTS
  AnswerIsTrue
  WritesAsAsked
  ResponseDescribesRows
CHECK_DEADLOCK FALSE
