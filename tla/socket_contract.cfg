SPECIFICATION Spec
CONSTANTS
    Stmts = {a, b}
    Begin = BEGIN
    Commit = COMMIT
    Txs = {t1}
    Kept = 1
    MaxStmts = 3
    Transient = FALSE
INVARIANT
  AnswersStand
PROPERTY
  ImplementsContract
CHECK_DEADLOCK FALSE
