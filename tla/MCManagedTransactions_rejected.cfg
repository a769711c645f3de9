\* The server rejects a COMMIT, and its transaction is used again.
CONSTANTS
  Tx = {t1, t2}
  NoTx = NoTx
  NoCall = NoCall
  Edits = {}
  Queries = {q1, q2}
  Ends = {f1}
  Tables = {a}
  Statements = {"write"}
  Background = {}
  Scenarios = {"queries"}
SPECIFICATION ScenarioSpec
SYMMETRY Symmetry
INVARIANT NothingAutocommits
CHECK_DEADLOCK FALSE
