CONSTANTS
  Tx = {t1, t2}
  NoTx = NoTx
  NoCall = NoCall
  Edits = {e1, e2}
  Queries = {q1, q2}
  Ends = {f1, f2}
  Tables = {a}
  Statements = {"write"}
  Background = {"sync", "managed", "separate"}
  Scenarios = {"edits", "queries", "mixed"}
SPECIFICATION ScenarioSpec
SYMMETRY Symmetry
INVARIANTS TypeOK OneTransactionPerScope FailuresLeaveNothing UnsyncedAreListed CardsAreBacked EndsTellTheTruth AutocommitNeedsFailedCommit
\* Edits, statements and ends are made once each: they come to an end.
CHECK_DEADLOCK FALSE
