------------------------------ MODULE RowEdits ------------------------------
(***************************************************************************)
(* Editing the rows of a PostgreSQL table in the grid: the rows as the     *)
(* query cache holds them (queries.ts), the cell editor and the automatic  *)
(* refresh (data-table.tsx, auto-refresh.ts), and the row operations of    *)
(* the transaction the edits go to (transaction.rs).                       *)
(*                                                                         *)
(* A row is addressed by its ctid, the place of its current version:       *)
(* every change of a row, by us or by another session, makes a version in  *)
(* another place.  Rows are fetched, changed and committed at different    *)
(* moments while other sessions change the table, so the places the grid   *)
(* holds may be those of versions that are gone, and their space may have  *)
(* been used again for another version.  Rows carry the turn of their      *)
(* place to tell this, which the program does not see.                     *)
(*                                                                         *)
(* Abstracted: a row is one value; one query of rows is shown; the table   *)
(* transaction opens and ends without errors (ManagedTransactions has      *)
(* them); another session changes one row at a time, and leaves alone what *)
(* the transaction has changed (it would wait for it).                     *)
(***************************************************************************)
EXTENDS Naturals, FiniteSets

CONSTANTS
    Values,         \* values of a row
    MaxPlaces,      \* bound: the places versions are written to
    MaxTurns,       \* bound: how often the space of a place is used again
    Initial         \* the rows at the start

Places == 1..MaxPlaces

\* What an instance has to provide.
Assumptions ==
    MaxPlaces \in Nat /\ MaxTurns \in Nat /\ Initial \in Nat /\ 0 \notin Values

VARIABLES
    heap,           \* the versions, by place: [val, state, turn, next]
    tx,             \* is the table transaction open?
    grid,           \* the rows in the query cache
    loaded,         \* have they been loaded for the filter and page shown?
    fetch,          \* the fetch that is under way
    edit,           \* the cell editor
    request,        \* the row operation that is under way
    aged            \* may the grid be old for a reason the program cannot see?

vars == <<heap, tx, grid, loaded, fetch, edit, request, aged>>

NoFetch == [stage |-> "idle", inTx |-> FALSE, rows |-> {}]
NoEntry == [at |-> 0, val |-> 0, turn |-> 0]

\* A row operation: the row it is for as the grid shows it, the value it writes,
\* the place its statement has come to, and the row it has made.
NoRequest ==
    [op |-> "none", row |-> NoEntry, next |-> 0, stage |-> "idle", on |-> 0, new |-> NoEntry]

Version(v, state, turn) == [val |-> v, state |-> state, turn |-> turn, next |-> 0]

Init ==
    /\ \E vals \in [1..Initial -> Values] :
        heap = [p \in Places |-> IF p <= Initial
                                 THEN Version(vals[p], "live", 0)
                                 ELSE Version(0, "free", 0)]
    /\ tx = FALSE
    /\ grid = {}
    /\ loaded = FALSE
    /\ fetch = [NoFetch EXCEPT !.stage = "asked"]
    /\ edit = NoEntry
    /\ request = NoRequest
    /\ aged = FALSE

-----------------------------------------------------------------------------
(* The server.                                                             *)

\* The rows a statement inside or outside the transaction sees; what another
\* session has taken stays to be seen until that commits.
States(inTx) == {"live", "taken"} \union (IF inTx THEN {"mine"} ELSE {"gone"})
Row(p) == [at |-> p, val |-> heap[p].val, turn |-> heap[p].turn]
View(inTx) == {Row(p) : p \in {q \in Places : heap[q].state \in States(inTx)}}

FreePlaces == {p \in Places : heap[p].state = "free"}
NextPlace == CHOOSE p \in FreePlaces : TRUE

\* A version with value v in a free place.
New(p, v, state) == Version(v, state, heap[p].turn)

\* The version at p is superseded by the transaction, and one of value v is made.
Left(p) == [heap[p] EXCEPT !.state = IF @ = "mine" THEN "dead" ELSE "gone"]
Mine(v) == New(NextPlace, v, "mine")
Made(v) == [at |-> NextPlace, val |-> v, turn |-> heap[NextPlace].turn]

Untaken == \A p \in Places : heap[p].state # "taken"

\* Another session changes or deletes a row, one at a time.
OtherUpdates(p, v) ==
    /\ Untaken /\ heap[p].state = "live"
    /\ FreePlaces # {}
    /\ heap' = [heap EXCEPT ![p].state = "taken", ![p].next = NextPlace,
                            ![NextPlace] = New(NextPlace, v, "theirs")]
    /\ UNCHANGED <<tx, grid, loaded, fetch, edit, request, aged>>

OtherDeletes(p) ==
    /\ Untaken /\ heap[p].state = "live"
    /\ heap' = [heap EXCEPT ![p].state = "taken"]
    /\ UNCHANGED <<tx, grid, loaded, fetch, edit, request, aged>>

\* The statement has come to a row that another session has taken, and waits.
Waits(p) == request.stage = "sent" /\ request.on = p /\ request.op \in {"update", "delete"}

\* The other session commits.  A statement that waits for it goes on with the new
\* version, or finds no row, which depends on the release of the server; one
\* that comes later finds none.
OtherCommits(p) ==
    LET n == heap[p].next
    IN /\ heap[p].state = "taken"
       /\ heap' = [q \in Places |->
                      IF q = p THEN [heap[p] EXCEPT !.state = "dead", !.next = 0]
                      ELSE IF q = n THEN [heap[q] EXCEPT !.state = "live"] ELSE heap[q]]
       /\ \/ UNCHANGED request
          \/ Waits(p) /\ n # 0 /\ request' = [request EXCEPT !.on = n]
       /\ aged' = TRUE
       /\ UNCHANGED <<tx, grid, loaded, fetch, edit>>

\* It rolls back, and nobody has seen what it wrote.
OtherRollsBack(p) ==
    /\ heap[p].state = "taken"
    /\ heap' = [q \in Places |->
                   IF q = p THEN [heap[p] EXCEPT !.state = "live", !.next = 0]
                   ELSE IF q = heap[p].next THEN Version(0, "free", heap[q].turn) ELSE heap[q]]
    /\ UNCHANGED <<tx, grid, loaded, fetch, edit, request, aged>>

\* The server makes room: the space of a dead version is free again.  One that
\* died during the transaction stays until its end, and one that died before can
\* as well go before it.
Reclaim(p) ==
    /\ heap[p].state = "dead" /\ ~tx
    /\ heap[p].turn < MaxTurns
    /\ heap' = [heap EXCEPT ![p] = Version(0, "free", heap[p].turn + 1)]
    /\ UNCHANGED <<tx, grid, loaded, fetch, edit, request, aged>>

\* update_row, delete_row and duplicate_row: WHERE ctid = ... in the
\* transaction; no row is an error ("Zeile nicht gefunden").
Execute ==
    LET p == request.on
        found == heap[p].state \in States(TRUE)
    IN /\ request.stage = "sent" /\ ~(Waits(p) /\ heap[p].state = "taken")
       /\ \/ /\ request.op = "update" /\ found /\ FreePlaces # {}
             /\ heap' = [heap EXCEPT ![p] = Left(p), ![NextPlace] = Mine(request.next)]
             /\ request' = [request EXCEPT !.stage = "done", !.new = Made(request.next)]
          \/ /\ request.op = "delete" /\ found
             /\ heap' = [heap EXCEPT ![p] = Left(p)]
             /\ request' = [request EXCEPT !.stage = "done"]
          \/ /\ request.op = "duplicate" /\ found /\ FreePlaces # {}
             /\ heap' = [heap EXCEPT ![NextPlace] = Mine(heap[p].val)]
             /\ request' = [request EXCEPT !.stage = "done", !.new = Made(heap[p].val)]
          \/ /\ ~found
             /\ request' = [request EXCEPT !.stage = "failed"]
             /\ UNCHANGED heap
       /\ UNCHANGED <<tx, grid, loaded, fetch, edit, aged>>

-----------------------------------------------------------------------------
(* Fetching rows.                                                          *)

\* useTableRowsQuery: the transaction is looked up when the fetch starts.
Asked == [stage |-> "asked", inTx |-> tx, rows |-> {}]

\* Mutant of Restarted: a fetch under way is joined.
RestartedNot == IF fetch.stage = "idle" THEN [Asked EXCEPT !.inTx = FALSE] ELSE fetch

\* A refetch abandons the fetch under way and starts anew, unless it is the
\* first one of the query, which it joins.  The transaction has ended.
Restarted ==
    IF ~loaded /\ fetch.stage # "idle"
    THEN fetch ELSE [Asked EXCEPT !.inTx = FALSE]

\* refetch: by the button, after pasting rows, or by the timer, which
\* shouldAutoRefresh pauses in some of these states.
Refresh ==
    /\ loaded
    /\ fetch' = Asked
    /\ UNCHANGED <<heap, tx, grid, loaded, edit, request, aged>>

\* The sorting, filter or page changes to one that is not in the cache.
Reload ==
    /\ edit = NoEntry
    /\ grid' = {}
    /\ loaded' = FALSE
    /\ fetch' = Asked
    /\ UNCHANGED <<heap, tx, edit, request, aged>>

\* fetch_table_rows reads the rows; in a transaction that has ended it fails.
ReadRows ==
    /\ fetch.stage = "asked"
    /\ fetch.inTx => tx
    /\ fetch' = [fetch EXCEPT !.stage = "read", !.rows = View(fetch.inTx)]
    /\ aged' = FALSE
    /\ UNCHANGED <<heap, tx, grid, loaded, edit, request>>

FetchFails ==
    /\ fetch.stage # "idle"
    /\ fetch' = NoFetch
    /\ aged' = TRUE
    /\ UNCHANGED <<heap, tx, grid, loaded, edit, request>>

Deliver ==
    /\ fetch.stage = "read"
    /\ grid' = fetch.rows
    /\ loaded' = TRUE
    /\ fetch' = NoFetch
    /\ UNCHANGED <<heap, tx, edit, request, aged>>

-----------------------------------------------------------------------------
(* The grid.                                                               *)

\* handleCellEdit
OpenEdit(row) ==
    /\ edit = NoEntry
    /\ edit' = row
    /\ UNCHANGED <<heap, tx, grid, loaded, fetch, request, aged>>

CancelEdit ==
    /\ edit # NoEntry
    /\ request = NoRequest
    /\ edit' = NoEntry
    /\ UNCHANGED <<heap, tx, grid, loaded, fetch, request, aged>>

\* runTableTransaction begins the transaction when there is none.
Send(op, row, next) ==
    /\ request = NoRequest
    /\ request' = [NoRequest EXCEPT !.op = op, !.row = row, !.next = next,
                                    !.stage = "sent", !.on = row.at]
    /\ tx' = TRUE
    /\ UNCHANGED <<heap, grid, loaded, fetch, edit, aged>>

\* handleSaveCell: a value that is the old one is not sent.
Save(next) ==
    /\ edit # NoEntry
    /\ IF next = edit.val
       THEN /\ request = NoRequest
            /\ edit' = NoEntry
            /\ UNCHANGED <<heap, tx, grid, loaded, fetch, request, aged>>
       ELSE Send("update", edit, next)

\* Mutant of Changed: the row keeps the place it was fetched from.
ChangedInPlace(r) == [r EXCEPT !.val = request.next]

\* A cached row gets the place and the value of its new version.
Changed(r) == request.new

\* onSuccess of the mutation: the first row of that ctid is changed, the deleted
\* one leaves the cache, or the copy joins it.
Answered ==
    /\ request.stage = "done"
    /\ LET there == {r \in grid : r.at = request.row.at}
       IN \/ /\ request.op = "update" /\ there # {}
             /\ \E r \in there : grid' = (grid \ {r}) \union {Changed(r)}
          \/ /\ request.op = "update" /\ there = {}
             /\ UNCHANGED grid
          \/ /\ request.op = "delete"
             /\ grid' = grid \ there
          \/ /\ request.op = "duplicate"
             /\ grid' = IF loaded THEN grid \union {request.new} ELSE grid
    /\ edit' = IF request.op = "update" THEN NoEntry ELSE edit
    /\ request' = NoRequest
    /\ UNCHANGED <<heap, tx, loaded, fetch, aged>>

\* The error is shown; an editor stays open.
Refused ==
    /\ request.stage = "failed"
    /\ request' = NoRequest
    /\ UNCHANGED <<heap, tx, grid, loaded, fetch, edit, aged>>

Outcome(state, commit) ==
    CASE state = "mine" -> IF commit THEN "live" ELSE "dead"
      [] state = "gone" -> IF commit THEN "dead" ELSE "live"
      [] OTHER          -> state

\* handleCommit and handleRollback of the card: no operation is under way;
\* the rows of the connection are invalidated.
End(commit) ==
    /\ tx
    /\ request = NoRequest
    /\ tx' = FALSE
    /\ heap' = [p \in Places |-> [heap[p] EXCEPT !.state = Outcome(@, commit)]]
    /\ fetch' = Restarted
    /\ aged' = (aged \/ ~loaded)
    /\ UNCHANGED <<grid, loaded, edit, request>>

Next ==
    \/ \E p \in Places, v \in Values : OtherUpdates(p, v)
    \/ \E p \in Places : OtherDeletes(p) \/ Reclaim(p)
    \/ \E p \in Places : OtherCommits(p) \/ OtherRollsBack(p)
    \/ Execute
    \/ Refresh
    \/ Reload
    \/ ReadRows
    \/ FetchFails
    \/ Deliver
    \/ \E row \in grid : OpenEdit(row)
    \/ CancelEdit
    \/ \E v \in Values : Save(v)
    \/ \E row \in grid, op \in {"delete", "duplicate"} : Send(op, row, row.val)
    \/ Answered
    \/ Refused
    \/ \E commit \in BOOLEAN : End(commit)

Spec == Init /\ [][Next]_vars

-----------------------------------------------------------------------------
StateNames == {"free", "live", "taken", "theirs", "mine", "gone", "dead"}
Entries == [at : Places, val : Values, turn : 0..MaxTurns]

TypeOK ==
    /\ \A p \in Places :
        /\ heap[p].state \in StateNames
        /\ heap[p].state = "free" <=> heap[p].val \notin Values
        /\ heap[p].state \in {"mine", "gone"} => tx
        /\ heap[p].turn \in 0..MaxTurns /\ heap[p].next \in Places \union {0}
    /\ grid \subseteq Entries
    /\ fetch.stage \in {"idle", "asked", "read"}
    /\ fetch.rows \subseteq Entries
    /\ edit \in Entries \union {NoEntry}
    /\ request.stage \in {"idle", "sent", "done", "failed"}
    /\ request # NoRequest => tx
    /\ aged \in BOOLEAN

\* The statement is at the place it was sent to, and that place has not been
\* used again since the row was read.
Undisturbed ==
    request.on = request.row.at /\ heap[request.on].turn = request.row.turn

\* An edit, a deletion or a copy that succeeds works on the row as the user
\* saw it: the row still has the value the grid showed, however old the
\* grid was, whatever other sessions committed before the statement began
\* and however often transactions were rolled back in between; otherwise
\* the row is not found.  The ctid is all the statement asks for, so this
\* ends where the server uses the space of the row again (a row of the grid
\* that is gone by then), or where the statement has to wait for another
\* session and goes on with the version that makes.
EditsHitWhatIsShown ==
    [][Execute /\ request'.stage = "done" /\ Undisturbed =>
         heap[request.on].val = request.row.val]_vars

\* When no transaction is open and nothing is under way, the grid shows the
\* rows as they are committed: the edits of transactions that were
\* committed and none of those rolled back, although fetches of other
\* moments were under way.  The grid may be old when another session
\* changed the table, a fetch failed, or the transaction ended during the
\* first fetch of the query.
SettledGridIsCommitted ==
    ~tx /\ loaded /\ fetch = NoFetch /\ ~aged => grid = View(FALSE)

=============================================================================
