------------------------------ MODULE Workspace ------------------------------
(***************************************************************************)
(* The workspace of one window: the open tabs of each connection           *)
(* (table-tabs.ts), the split view over them (split-view.ts) and the       *)
(* buffered storage the tabs are saved through (buffered-storage.ts).      *)
(*                                                                         *)
(* Three stores follow each other by subscription: when the active         *)
(* connection changes, the tab store loads the tabs of the new one and the *)
(* split view its layout; when the tabs change, the split view drops the   *)
(* panes of tabs that are gone.  Tabs are written to disk some time after  *)
(* a change, layouts at once, so a crash may bring back older tabs.        *)
(*                                                                         *)
(* Abstracted: what a tab shows (a tab is its key), orientation, pane      *)
(* overrides of the connection, the list of closed tabs; a tab opened      *)
(* again from that list is an opened tab.                                  *)
(***************************************************************************)
EXTENDS Naturals, Sequences, SequencesExt, FiniteSets

CONSTANTS
    Ids,            \* the connections saved at the start
    NoId,           \* no active connection; has tabs and a layout too
    Keys,           \* the keys of tabs
    NoKey,          \* an empty pane, no tab
    MaxPanes,       \* MAX_SPLIT_PANES
    Used,           \* bound: the connections the user works in
    Restarts        \* bound: whether the program ends and starts again

Scopes == Ids \union {NoId}

\* What an instance has to provide.
Assumptions ==
    /\ NoId \notin Ids
    /\ IsFiniteSet(Keys) /\ NoKey \notin Keys
    /\ MaxPanes \in Nat \ {0}

VARIABLES
    saved,          \* the connections that are not removed
    active,         \* activeId
    tabs,           \* the tabs shown
    tabsBy,         \* tabsByConnection
    disk,           \* tabsByConnection as it was last written
    layout,         \* panes and focusedPane shown
    layouts,        \* byConnection
    closing,        \* the close request that is not executed yet
    lost            \* connections whose tabs a crash set back

vars == <<saved, active, tabs, tabsBy, disk, layout, layouts, closing, lost>>

Single == [panes |-> <<>>, focus |-> 1]     \* no split
NotClosing == [kind |-> "none", key |-> NoKey, of |-> NoId, asked |-> FALSE]

Init ==
    /\ saved = Ids
    /\ active = NoId
    /\ tabs = <<>>
    /\ tabsBy = [c \in Scopes |-> <<>>]
    /\ disk = tabsBy
    /\ layout = Single
    /\ layouts = [c \in Scopes |-> Single]
    /\ closing = NotClosing
    /\ lost = {}

-----------------------------------------------------------------------------
(* The layouts the operations of the split view make of a layout l.        *)

Split(l) == Len(l.panes) > 1
Shown(l) == ToSet(l.panes) \ {NoKey}
Place(l, k) == CHOOSE i \in DOMAIN l.panes : l.panes[i] = k

\* nextFill: the preferred tab, else the first tab that is in no pane.
Fill(used, preferred, ts) ==
    IF preferred \notin used \union {NoKey}
    THEN preferred
    ELSE LET rest == {i \in DOMAIN ts : ts[i] \notin used}
         IN IF rest = {} THEN NoKey ELSE ts[Min(rest)]

\* The panes a new one is added to.
Base(l, current, preferred) ==
    CASE l.panes # <<>> -> l.panes
      [] l.panes = <<>> /\ current # NoKey -> <<current>>
      [] l.panes = <<>> /\ current = NoKey /\ preferred # NoKey -> <<preferred>>
      [] OTHER -> <<>>

Added(l, current, preferred, ts) ==
    LET base == Base(l, current, preferred)
    IN IF Len(base) \in {0, MaxPanes} THEN l
       ELSE [panes |-> Append(base, Fill(ToSet(base), preferred, ts)),
             focus |-> Len(base) + 1]

FocusAfter(l, i) ==
    IF l.focus = i
    THEN IF i < Len(l.panes) THEN i ELSE i - 1
    ELSE IF l.focus > i THEN l.focus - 1 ELSE l.focus

Removed(l, i) ==
    IF Len(l.panes) <= 2 THEN Single
    ELSE [panes |-> RemoveAt(l.panes, i), focus |-> FocusAfter(l, i)]

Revealed(l, k) ==
    IF ~Split(l) THEN l
    ELSE IF k \in Shown(l) THEN [l EXCEPT !.focus = Place(l, k)]
    ELSE [l EXCEPT !.panes[l.focus] = k]

Set(l, i, k) ==
    IF k \notin Shown(l)
    THEN [panes |-> [l.panes EXCEPT ![i] = k], focus |-> i]
    ELSE [panes |-> [l.panes EXCEPT ![Place(l, k)] = l.panes[i], ![i] = k],
          focus |-> i]

Swapped(l, i, j) ==
    [panes |-> [l.panes EXCEPT ![i] = l.panes[j], ![j] = l.panes[i]],
     focus |-> j]

\* Mutant of Pruned: only the pane with the focus is looked at.
PrunedFocused(l, ts) ==
    IF Split(l) /\ l.panes[l.focus] \notin ToSet(ts)
    THEN [l EXCEPT !.panes[l.focus] = NoKey]
    ELSE l

Pruned(l, ts) ==
    LET left == [i \in DOMAIN l.panes |->
                    IF l.panes[i] \in ToSet(ts) THEN l.panes[i] ELSE NoKey]
    IN IF ~Split(l) THEN l
       ELSE IF ToSet(left) = {NoKey} THEN Single
       ELSE [l EXCEPT !.panes = left]

-----------------------------------------------------------------------------
(* The stores.                                                             *)

\* Mutant of Prunes: panes are pruned while the layout of another
\* connection is still shown.
PrunesAlways(shown) == TRUE

\* The subscription of the split view to the tabs: it prunes only when the
\* layout it shows is that of the active connection.
Prunes(shown) == shown = active'

\* snapshot: show layout l and save it for the active connection.
Put(l) ==
    /\ layout' = l
    /\ layouts' = [layouts EXCEPT ![active] = l]

\* storeFor, and the subscription of the split view.
SetTabs(ts) ==
    /\ tabs' = ts
    /\ tabsBy' = [tabsBy EXCEPT ![active] = ts]
    /\ Put(Pruned(layout, ts))
    /\ lost' = lost \ {active}
    /\ UNCHANGED <<saved, active, disk>>

Arrange(l) ==
    /\ Put(l)
    /\ UNCHANGED <<saved, active, tabs, tabsBy, disk, closing, lost>>

\* A change of the active connection.  The tab store comes first; its
\* change is a change of tabs to the split view, which still shows the
\* layout of the connection that is left; then the split view loads the
\* layout of the new one.
Activate(id) ==
    LET pruned == Pruned(layout, tabsBy[id])
    IN /\ active' = id
       /\ tabs' = tabsBy[id]
       /\ layouts' = IF Prunes(active) /\ id # active /\ pruned # layout
                     THEN [layouts EXCEPT ![id] = pruned]
                     ELSE layouts
       /\ layout' = layouts'[id]

-----------------------------------------------------------------------------
(* The user and the routes: what changes tabs and panes.                   *)

\* Every open* operation, and reopening a closed tab.
OpenTab(k) ==
    /\ k \notin ToSet(tabs)
    /\ SetTabs(Append(tabs, k))
    /\ UNCHANGED closing

ReorderTabs(i, j) ==
    /\ i # j
    /\ SetTabs(InsertAt(RemoveAt(tabs, i), j, tabs[i]))
    /\ UNCHANGED closing

\* closeTab, closeOtherTabs, closeTabsToRight and closeAllTabs.  No key is
\* in ts twice.
Left(kind, key, ts) ==
    LET at == CHOOSE i \in DOMAIN ts : ts[i] = key
    IN CASE kind = "all" -> <<>>
         [] kind = "others" /\ key \notin ToSet(ts) -> <<>>
         [] kind \in {"tab", "right"} /\ key \notin ToSet(ts) -> ts
         [] kind = "tab" /\ key \in ToSet(ts) -> RemoveAt(ts, at)
         [] kind = "others" /\ key \in ToSet(ts) -> <<key>>
         [] kind = "right" /\ key \in ToSet(ts) -> SubSeq(ts, 1, at)

\* executeClose: a tab that is not shown, and those to the right of the one
\* shown, are closed at once; otherwise the view leaves first and the tabs
\* are closed when the navigation has ended.
ExecuteClose(request) ==
    \/ /\ request.kind \in {"tab", "right"}
       /\ request.key \in ToSet(tabs)
       /\ SetTabs(Left(request.kind, request.key, tabs))
       /\ closing' = NotClosing
    \/ /\ request.kind = "all" \/ request.key \in ToSet(tabs)
       /\ Put(IF request.kind = "all" THEN Single ELSE layout)
       /\ closing' = [request EXCEPT !.asked = FALSE]
       /\ UNCHANGED <<saved, active, tabs, tabsBy, disk, lost>>

\* requestClose: a query with changes that are not saved asks first.
RequestClose(kind, key) ==
    LET request == [kind |-> kind, key |-> key, of |-> active, asked |-> TRUE]
    IN /\ closing = NotClosing
       /\ \/ ExecuteClose(request)
          \/ /\ closing' = request
             /\ UNCHANGED <<saved, active, tabs, tabsBy, disk, layout, layouts, lost>>

\* The answer to the question, given in whatever connection is active now.
AnswerClose ==
    /\ closing.asked
    /\ \/ ExecuteClose(closing)
       \/ /\ closing' = NotClosing
          /\ UNCHANGED <<saved, active, tabs, tabsBy, disk, layout, layouts, lost>>

\* The navigation has ended: `finally` closes the tabs of the store.
Closed ==
    /\ closing # NotClosing
    /\ ~closing.asked
    /\ SetTabs(Left(closing.kind, closing.key, tabs))
    /\ closing' = NotClosing

AddPane(preferred) ==
    \E current \in ToSet(tabs) \union {NoKey} :
        Arrange(Added(layout, current, preferred, tabs))

ClosePane(i) == Arrange(Removed(layout, i))

FocusPane(i) == Arrange([layout EXCEPT !.focus = i])

Reveal(k) == Arrange(Revealed(layout, k))

SetPane(i, k) == Arrange(Set(layout, i, k))

SwapPanes(i, j) ==
    /\ i # j
    /\ Arrange(Swapped(layout, i, j))

User ==
    /\ ~closing.asked
    /\ active \in Used
    /\ \/ \E k \in Keys : OpenTab(k)
       \/ \E i, j \in DOMAIN tabs : ReorderTabs(i, j)
       \/ \E kind \in {"tab", "others", "right", "all"}, k \in ToSet(tabs) :
            RequestClose(kind, k)
       \/ \E k \in ToSet(tabs) \union {NoKey} : AddPane(k)
       \/ \E k \in ToSet(tabs) : Reveal(k)
       \/ \E i \in DOMAIN layout.panes :
            \/ ClosePane(i)
            \/ FocusPane(i)
            \/ \E k \in ToSet(tabs) : SetPane(i, k)
            \/ \E j \in DOMAIN layout.panes : SwapPanes(i, j)

-----------------------------------------------------------------------------
(* The connections, the disk and the end of the program.                   *)

\* setActiveId: an activation or a disconnection has ended.
Switch(id) ==
    /\ id # active
    /\ Activate(id)
    /\ UNCHANGED <<saved, tabsBy, disk, closing, lost>>

\* removeConnection and clearTabsForConnection.
RemoveConnection(id) ==
    /\ saved' = saved \ {id}
    /\ IF id = active THEN Activate(NoId)
       ELSE UNCHANGED <<active, tabs, layout, layouts>>
    /\ tabsBy' = [tabsBy EXCEPT ![id] = <<>>]
    /\ UNCHANGED <<disk, closing, lost>>

\* The timer of the buffered storage, a hidden window or its end.
Flush ==
    /\ disk' = tabsBy
    /\ UNCHANGED <<saved, active, tabs, tabsBy, layout, layouts, closing, lost>>

\* The process is killed and started again: the stores merge what they
\* find, the tabs as they were last flushed and the layouts as they were.
Restart ==
    /\ tabsBy' = disk
    /\ tabs' = disk[active]
    /\ layout' = layouts[active]
    /\ closing' = NotClosing
    /\ lost' = lost \union {c \in Scopes : disk[c] # tabsBy[c]}
    /\ UNCHANGED <<saved, active, disk, layouts>>

Next ==
    \/ User
    \/ AnswerClose
    \/ Closed
    \/ \E id \in saved \union {NoId} : Switch(id)
    \/ \E id \in saved : RemoveConnection(id)
    \/ Restarts /\ (Flush \/ Restart)

Spec == Init /\ [][Next]_vars

-----------------------------------------------------------------------------
(* Properties.                                                             *)

Layouts == [panes : BoundedSeq(Keys \union {NoKey}, MaxPanes), focus : 1..MaxPanes]
TabLists == BoundedSeq(Keys, Cardinality(Keys))

TypeOK ==
    /\ saved \subseteq Ids
    /\ active \in saved \union {NoId}
    /\ tabs \in TabLists
    /\ \A c \in Scopes : tabsBy[c] \in TabLists /\ IsInjective(tabsBy[c])
    /\ \A c \in Scopes : disk[c] \in TabLists
    /\ layout \in Layouts
    /\ \A c \in Scopes : layouts[c] \in Layouts
    /\ closing.of \in Scopes
    /\ lost \subseteq Scopes

\* What the window shows is what is stored for the active connection: the
\* stores agree after every operation, a switch, a removal and a restart.
ShowsActive ==
    /\ tabs = tabsBy[active]
    /\ layout = layouts[active]

\* A pane shows a tab that is open in its connection (the test "geschlossene
\* Tabs werden aus den Panes entfernt", for every connection and every way
\* to close).  The exception is a connection whose tabs a crash set back,
\* until its tabs change again.
PanesAreOpen ==
    \A c \in (saved \union {NoId}) \ lost :
        Shown(layouts[c]) \subseteq ToSet(tabsBy[c])

\* No tab is shown in two panes, a single pane is no split, and the pane
\* with the focus exists.
PanesAreDistinct ==
    \A c \in Scopes : LET l == layouts[c] IN
        /\ \A i, j \in DOMAIN l.panes :
            i # j /\ l.panes[i] # NoKey => l.panes[i] # l.panes[j]
        /\ Len(l.panes) # 1
        /\ l.focus = 1 \/ l.focus \in DOMAIN l.panes

\* The split view fits the tabs (the subscriptions of split-view.ts and
\* table-tabs.ts): it is that of the active connection, shows open tabs
\* only, and none twice.
SplitFitsTabs == ShowsActive /\ PanesAreOpen /\ PanesAreDistinct

\* Changing the active connection changes neither the tabs nor the layout
\* stored for any connection that is kept ("Split bleibt pro Connection
\* erhalten").
SwitchKeepsLayouts ==
    [][active' # active =>
        \A c \in saved' \union {NoId} :
            tabsBy'[c] = tabsBy[c] /\ layouts'[c] = layouts[c]]_vars

\* Closing tabs touches the connection it was asked for and no other (the
\* test "gleichnamige Objekte und Query-IDs bleiben beim Bearbeiten und
\* Schließen isoliert").
ClosesOwnTabs ==
    [][Closed => \A c \in Scopes \ {closing.of} : tabsBy'[c] = tabsBy[c]]_vars
=============================================================================
