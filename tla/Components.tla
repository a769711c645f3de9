----------------------------- MODULE Components -----------------------------
(***************************************************************************)
(* The components that share no state with each other, side by side, and   *)
(* what each of them promises.  BlockingPool is extended, of the others    *)
(* there is one instance each, for any values of their constants.          *)
(***************************************************************************)
EXTENDS BlockingPool

CONSTANTS
  Users, Cells, NoCell, MaxBreaks,                            \* SharedConnection
  Archives, NoFile, Partial,                                  \* ExtensionStore
  Exts, Deps, Eager, Grants, MaxVersion, MaxRuns, StorageFails, \* ExtensionManager
  Ids, NoId, Tabs, NoTab, MaxPanes, Used, Restarts,           \* Workspace
  Keys, Columns, Texts, Null, NoRow, MaxChanges,              \* DataCompare
  Values, MaxPlaces, MaxTurns, Initial,                       \* RowEdits
  Tasks, Scripts, Lenient, Supported, Cancels, NoTask, Length, MaxAttempts, \* Jobs
  Lines                                                       \* CsvImport

VARIABLES
  shared, ready, alive, phase, cell, attempt, breaks, refused,
  dirs, files, pending, op,
  present, state, enabled, version, grants, stored, starts, activating, lease, box, job,
  saved, active, tabs, tabsBy, disk, layout, layouts, closing, lost,
  table, read, selected, target, script, place, stage, changes,
  heap, tx, grid, loaded, fetch, edit, request, aged,
  status, stopped, stmt, call, current, token, results, cancel, late,
  step, row, wait, aborted, tokenInTime, sent, answers, requests, block, inserted, linked,
  report

Shared == INSTANCE SharedConnection WITH Calls <- Users, pc <- phase
Files == INSTANCE ExtensionStore
Host == INSTANCE ExtensionManager WITH op <- job
Work == INSTANCE Workspace WITH Keys <- Tabs, NoKey <- NoTab
Compare == INSTANCE DataCompare WITH Values <- Texts
Edits == INSTANCE RowEdits
List == INSTANCE Jobs
Import == INSTANCE CsvImport WITH
            Rows <- Lines, pc <- step, token <- aborted, queue <- sent, tx <- block

\* What the constants have to be.
Assumptions ==
  /\ Shared!Assumptions /\ Host!Assumptions /\ Work!Assumptions /\ Compare!Assumptions
  /\ Edits!Assumptions /\ List!Assumptions /\ Import!Assumptions

\* Each component follows its specification, whatever the others do meanwhile.
SideBySide ==
  /\ Spec /\ Shared!Spec /\ Files!Spec /\ Host!Spec /\ Work!Spec /\ Compare!Spec
  /\ Edits!Spec /\ List!Spec /\ Import!Spec

-----------------------------------------------------------------------------
(* Properties *)

\* The components keep the types of their state.
TypesOK ==
  /\ TypeOK /\ Shared!TypeOK /\ Files!TypeOK /\ Host!TypeOK /\ Work!TypeOK /\ Compare!TypeOK
  /\ Edits!TypeOK /\ List!TypeOK /\ Import!TypeOK

\* A connection that broke costs no call more than one failed attempt
\* (PoolManager::remove_pool and the loop in conn of redis.rs).
OneBreakIsSurvived == Shared!OneBreakIsSurvived

\* The files of an extension change at one instant or not at all (operate).
StoreIsAtomic == Files!StoreIsAtomic

\* The split view fits the tabs (split-view.ts, table-tabs.ts).
SplitFitsTabs == Work!SplitFitsTabs

\* A switch of the connection changes no stored tabs and layouts.
SwitchKeepsLayouts == Work!SwitchKeepsLayouts

\* A sync script overwrites only rows as they were compared (buildSyncScript).
NothingIsOverwritten == Compare!NothingIsOverwritten

\* A sync script does what it says when nobody interferes (buildSyncScript).
ScriptDoesItsWork == Compare!ScriptDoesItsWork

\* An edit in the grid hits the row the user saw, unless its place was used again
\* or another session was waited for (useUpdateRowMutation, update_row).
EditsHitWhatIsShown == Edits!EditsHitWhatIsShown

\* The grid shows what is committed when everything has settled (handleCommit).
SettledGridIsCommitted == Edits!SettledGridIsCommitted

\* An extension that shows as activated has a session (start, fail, stop).
ActivatedHasSession == Host!ActivatedHasSession

\* An extension that was disabled or removed does nothing any more (stop).
DisabledIsSilent == Host!DisabledIsSilent

\* The registry shows what the storage has (install, update).
StoredIsShown == Host!StoredIsShown

\* What is said of tasks and of statements that were stopped is true
\* (finishTask, runScript).
JobsTellTheTruth == List!StopIsHonoured /\ List!EndsAreTrue

\* What is said of an import is true (csv_import).
ImportsTellTheTruth == Import!ReportIsTrue /\ Import!CancelledIsNotImported
=============================================================================
