---------------------------- MODULE MCComponents ----------------------------
(***************************************************************************)
(* The instance of Components for TLC.  A behaviour runs one component,    *)
(* the part; the others stay where they begin.                             *)
(***************************************************************************)
EXTENDS Components, TLC

CONSTANTS Site, Full

VARIABLE part

poolVars == <<permits, queue, idle, pc, conn, failed>>
sharedVars == <<shared, ready, alive, phase, cell, attempt, breaks, refused>>
storeVars == <<dirs, files, pending, op>>
extensionVars == <<present, state, enabled, version, grants, stored, starts, activating,
                   lease, box, job>>
workVars == <<saved, active, tabs, tabsBy, disk, layout, layouts, closing, lost>>
compareVars == <<table, read, selected, target, script, place, stage, changes>>
editVars == <<heap, tx, grid, loaded, fetch, edit, request, aged>>
jobVars == <<status, stopped, stmt, call, current, token, results, cancel, late>>
importVars == <<step, row, wait, aborted, tokenInTime, sent, answers, requests, block,
                inserted, linked, report>>
allVars == <<part, poolVars, sharedVars, storeVars, extensionVars, workVars, compareVars,
             editVars, jobVars, importVars>>

\* An extension a that b depends on; a is updated and reloaded.
TwoExtensions == {"a", "b"}
OneDependency == {<<"b", "a">>}
OnlyB == {"b"}
NoneOrAll == {{}, {"read"}}

AValue == CHOOSE v \in Values : TRUE

\* The user works in one connection with three panes, and the program ends and
\* starts again; as another part in one with two panes and in no connection.
Switching == INSTANCE Workspace WITH
               Keys <- Tabs, NoKey <- NoTab, MaxPanes <- 2, Used <- {Site, NoId},
               Restarts <- FALSE

ASSUME Assumptions

Parts == {"pool", "shared", "store", "extensions", "work", "switching", "compare", "edits",
          "tasks", "import"}

AllInit ==
  /\ part \in Parts
  /\ Init
  /\ Shared!Init
  /\ Files!Init
  /\ Host!Init
  /\ part = "extensions" \/ present = {}
  /\ Work!Init
  /\ Compare!Init
  /\ part = "compare" \/ \A s \in Compare!Sides : table[s] = [k \in Keys |-> NoRow]
  \* All rows of one key, fewer of the others.
  /\ \E k \in Keys : \A o \in Keys \ {k}, s \in Compare!Sides :
       table[s][o] \in {NoRow, [n \in Columns |-> Full]}
  /\ Edits!Init
  \* The values are alike.
  /\ \A p \in 1..Initial : heap[p].val = AValue
  /\ List!Init
  /\ Import!Init

AllNext ==
  /\ UNCHANGED part
  /\ IF part = "pool" THEN Next ELSE UNCHANGED poolVars
  /\ IF part = "shared" THEN Shared!Next ELSE UNCHANGED sharedVars
  /\ IF part = "store" THEN Files!Next ELSE UNCHANGED storeVars
  /\ IF part = "extensions"
     THEN /\ Host!Next
          /\ job'.kind \in {"reload", "update"} => job'.x = "a"
          /\ job'.grants # {} => job'.x = "a"
     ELSE UNCHANGED extensionVars
  /\ CASE part = "work" -> Work!Next
       [] part = "switching" -> Switching!Next
       [] OTHER -> UNCHANGED workVars
  /\ IF part = "compare" THEN Compare!Next ELSE UNCHANGED compareVars
  /\ IF part = "edits"
     THEN /\ Edits!Next
          \* All places are used, or one fewer and the first again.
          /\ \/ \A p \in Edits!Places : heap'[p].turn = 0
             \/ heap'[MaxPlaces].state = "free" /\ \A p \in Edits!Places : heap'[p].turn > 0 => p = 1
          /\ \A p \in Edits!Places : heap'[p].state = "theirs" => heap'[p].val # AValue
     ELSE UNCHANGED editVars
  /\ IF part = "tasks"
     THEN List!Next /\ \E t \in Scripts : status'[t] = "none"  \* one of the scripts runs
     ELSE UNCHANGED jobVars
  /\ IF part = "import" THEN Import!Next ELSE UNCHANGED importVars

AllSpec == AllInit /\ [][AllNext]_allVars
=============================================================================
