SPECIFICATION ScenarioSpec
CONSTANTS
  Requests = {r1, r2}
  Editors = {e1}
  Panes = {p}
  Removers = {m1}
  d = d
  s = s
  t = t
  Ids <- Connections
  Ssh <- Tunneled
  Configs = {x, y}
  Ports = {p1, p2, p3}
  None = None
SYMMETRY Symmetry
INVARIANTS TypeOK PreviousIsActive PortsAreBackedUnedited NoTunnelIsLeftUnedited
\* Requests are made once each: nothing is left to do when all are handled.
CHECK_DEADLOCK FALSE
