\* Any three commands on one session, every failure.
CONSTANTS
  Tx = {t1}
  Calls = {c1, c2, c3}
  NoCall = NoCall
  NoTx = NoTx
  Kinds = {"write", "end", "row", "read", "commit", "rollback"}
SPECIFICATION Spec
SYMMETRY Symmetry
INVARIANTS TypeOK Inductive FailedNeverCommitted RowsNeverAutocommit NoOrphanTransaction RowErrorsAreContained
PROPERTIES InterruptedOnlyRollsBack Atomicity
CHECK_DEADLOCK FALSE
