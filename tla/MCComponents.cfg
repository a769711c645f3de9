SPECIFICATION AllSpec
CONSTANTS
  Calls = {c1, c2, c3}
  Conns = {k1, k2, k3, k4}
  NoConn = NoConn
  Capacity = 2
  Droppable = {c1, c2, c3}
  Users = {u1, u2}
  Cells = {x1, x2, x3}
  NoCell = NoCell
  MaxBreaks = 2
  Archives = {a1, a2}
  NoFile = NoFile
  Partial = Partial
  Exts <- TwoExtensions
  Deps <- OneDependency
  Eager <- OnlyB
  Grants <- NoneOrAll
  MaxVersion = 2
  MaxRuns = 3
  StorageFails = TRUE
  Site = site
  Ids = {site}
  NoId = NoId
  Tabs = {t1, t2}
  NoTab = NoTab
  MaxPanes = 3
  Used = {site}
  Restarts = TRUE
  Keys = {t1, t2}
  Columns = {n1, n2}
  Full = full
  Texts = {full, null}
  Null = null
  NoRow = NoRow
  MaxChanges = 1
  Values = {n1, n2}
  MaxPlaces = 3
  MaxTurns = 1
  Initial = 1
  Tasks = {query, script, lenient}
  Scripts = {script, lenient}
  Lenient = {lenient}
  Supported = {query, script, lenient}
  Cancels = {k1}
  NoTask = NoTask
  Length = 2
  MaxAttempts = 2
  Lines = 3
INVARIANTS TypesOK PoolIsBounded ExclusiveUse OneBreakIsSurvived SplitFitsTabs ScriptDoesItsWork SettledGridIsCommitted ActivatedHasSession DisabledIsSilent StoredIsShown JobsTellTheTruth ImportsTellTheTruth
PROPERTIES StoreIsAtomic SwitchKeepsLayouts NothingIsOverwritten EditsHitWhatIsShown
\* Some of the components come to an end.
CHECK_DEADLOCK FALSE
