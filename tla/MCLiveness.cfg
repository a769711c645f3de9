SPECIFICATION AllSpec
CONSTANTS
  Tx = {t1}
  Calls = {c1, c2}
  NoCall = NoCall
  NoTx = NoTx
  Kinds = {"write", "row", "read", "commit"}
  Clicks = {r1, r2}
  Editors = {e1}
  Tunneled = {s}
  Configs = {x, y}
  Ports = {p1, p2}
  None = None
  Query = query
  Script = script
  Cancels = {k1}
PROPERTIES SilentSessionIsReleased EveryAnsweredCallReturns EveryActivationEnds EveryJobEnds
\* Calls, activations, tasks and imports are made once each.
CHECK_DEADLOCK FALSE
