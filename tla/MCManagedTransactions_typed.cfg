\* The user types COMMIT into the query editor.
CONSTANTS
  Tx = {t1, t2}
  NoTx = NoTx
  NoCall = NoCall
  Edits = {}
  Queries = {q1, q2}
  Ends = {f1}
  Tables = {a}
  Statements = {"write", "end"}
  Background = {}
  Scenarios = {"queries"}
SPECIFICATION ScenarioSpec
SYMMETRY Symmetry
INVARIANT RollbackDiscards
CHECK_DEADLOCK FALSE
