\* A list answered before a begin and applied after it.
CONSTANTS
  Tx = {t1, t2}
  NoTx = NoTx
  NoCall = NoCall
  Edits = {e1}
  Queries = {}
  Ends = {f1, f2}
  Tables = {a}
  Statements = {"write"}
  Background = {"sync"}
  Scenarios = {"edits"}
SPECIFICATION ScenarioSpec
SYMMETRY Symmetry
INVARIANT OpenTransactionsAreListed
CHECK_DEADLOCK FALSE
