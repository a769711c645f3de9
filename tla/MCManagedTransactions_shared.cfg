\* "Per table" is switched while a transaction is being opened.
CONSTANTS
  Tx = {t1, t2}
  NoTx = NoTx
  NoCall = NoCall
  Edits = {e1}
  Queries = {q1}
  Ends = {f1, f2}
  Tables = {a}
  Statements = {"write"}
  Background = {"separate"}
  Scenarios = {"mixed"}
SPECIFICATION ScenarioSpec
SYMMETRY Symmetry
INVARIANT SharedModeIsShared
CHECK_DEADLOCK FALSE
