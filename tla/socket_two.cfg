SPECIFICATION Spec
CONSTANTS
    Stmts = {a, b}
    Begin = BEGIN
    Commit = COMMIT
    Txs = {t1, t2}
    Kept = 2
    MaxStmts = 2
    Transient = TRUE
SYMMETRY Symmetry
INVARIANT
  OutcomeIsTrue
CHECK_DEADLOCK FALSE
