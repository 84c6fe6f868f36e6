SPECIFICATION Spec
CONSTANT Catalogs <- MCCatalogs
CONSTANT Contents <- MCContents
CONSTANT Jobs <- MCJobs
CONSTANT Words <- PWords
CONSTANT Meanings <- MCMeanings
CONSTANT Texts <- MCTexts
CONSTANT Calls <- MCCalls
CONSTANT Writes <- MCWrites
INVARIANTS
  RelationshipsSound
  EmbedsAgree
  StatementMeansThePlan
  ReadsWhatWasWritten
  PlannedAsAsked
CHECK_DEADLOCK FALSE
