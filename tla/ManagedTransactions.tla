------------------------ MODULE ManagedTransactions ------------------------
(***************************************************************************)
(* The transactions of the user interface (src/lib/transactions.ts,        *)
(* src/lib/managed-transactions.ts and their callers) on one connection    *)
(* and database, composed with the backend of PgTransactions.              *)
(*                                                                         *)
(* JavaScript runs one handler at a time: an action is everything a        *)
(* handler does between two awaits.  A command is sent by the backend's    *)
(* Invoke or BeginRequest; the handler waiting for its reply runs some     *)
(* time after the backend is done with it.                                 *)
(***************************************************************************)
EXTENDS Naturals, FiniteSets

CONSTANTS
  Tx, NoTx, NoCall,
  Edits,        \* row edits of table views, through runTableTransaction
  Queries,      \* statements of query editors and scripts
  Ends,         \* commits and rollbacks
  Tables,       \* the tables that are edited
  Statements,   \* what a query may be: "write", "end" (a typed COMMIT)
  Background    \* what else goes on: "sync" syncWithBackend, "managed" and
                \* "separate" the two switches of the settings page

Calls == Edits \cup Queries \cup Ends

ASSUME NoTxIsNoTx == NoTx \notin Tx
ASSUME NoCallIsNoCall == NoCall \notin Calls
ASSUME CallsAreDistinct ==
  /\ Edits \cap Queries = {}
  /\ Edits \cap Ends = {}
  /\ Queries \cap Ends = {}
ASSUME StatementsAreStatements == Statements \subseteq {"write", "end"}
ASSUME BackgroundIsKnown == Background \subseteq {"sync", "managed", "separate"}

VARIABLES
  \* --- the transaction store and the settings
  store,         \* transactions: the panel's list
  busy,          \* busyTransactions: operations running in a transaction
  finalizing,    \* finalizingTransactions
  opening,       \* pendingTransactions: scope -> transaction being opened
  separate,      \* separatesTableTransactions(connection)
  managed,       \* settings.transactionsEnabled
  \* --- handlers waiting for the backend
  op,            \* where an edit or query stands
  opTx,          \* the transaction it uses
  opEnd,         \* the end an edit outside the panel's transactions waits for
  ending,        \* where a commit or rollback of the panel stands
  sync,          \* where syncWithBackend stands
  listed,        \* the ids list_transactions answered
  dropped        \* history: the transactions whose cards syncWithBackend removed

uiVars == <<store, busy, finalizing, opening, separate, managed,
            op, opTx, opEnd, ending, sync, listed, dropped>>

VARIABLES begin, registered, interrupted, holder,
          pc, kind, target, cancelled, stmt, result,
          server, pending, committed, autocommitted, signal

Backend == INSTANCE PgTransactions
             WITH Kinds <- {"write", "end", "row", "commit", "rollback"}

backendVars == <<begin, registered, interrupted, holder,
                 pc, kind, target, cancelled, stmt, result,
                 server, pending, committed, autocommitted, signal>>
vars == <<uiVars, backendVars>>

Scopes == Tables \cup {"query", "connection"}

TypeOK ==
  /\ Backend!TypeOK
  /\ store \subseteq [txId : Tx, scope : Scopes]
  /\ busy \in [Tx -> Nat]
  /\ finalizing \subseteq Tx
  /\ opening \in [Scopes -> Tx \cup {NoTx}]
  /\ separate \in BOOLEAN
  /\ managed \in BOOLEAN
  /\ op \in [Edits \cup Queries ->
               {"idle", "opening", "ready", "sent", "ok", "err",
                "private", "privateWork", "privateCommit", "privateUndo"}]
  /\ opTx \in [Edits \cup Queries -> Tx \cup {NoTx}]
  /\ opEnd \in [Edits -> Ends \cup {NoCall}]
  /\ ending \in [Ends -> {"idle", "sent", "private", "reported"}]
  /\ sync \in {"idle", "asked", "answered"}
  /\ listed \subseteq Tx
  /\ dropped \subseteq Tx

Init ==
  /\ Backend!Init
  /\ store = {}
  /\ busy = [s \in Tx |-> 0]
  /\ finalizing = {}
  /\ opening = [sc \in Scopes |-> NoTx]
  /\ separate \in BOOLEAN
  /\ managed \in BOOLEAN
  /\ op = [o \in Edits \cup Queries |-> "idle"]
  /\ opTx = [o \in Edits \cup Queries |-> NoTx]
  /\ opEnd = [o \in Edits |-> NoCall]
  /\ ending = [e \in Ends |-> "idle"]
  /\ sync = "idle"
  /\ listed = {}
  /\ dropped = {}

-----------------------------------------------------------------------------
(* Finding and opening the transaction of a scope. *)

\* findTransaction: the scope's own transaction, else the connection's.
Find(sc) ==
  LET own == {t \in store : t.scope = sc}
  IN  IF own # {} THEN own ELSE {t \in store : t.scope = "connection"}

Use(o, s, state) ==
  /\ op' = [op EXCEPT ![o] = state]
  /\ opTx' = [opTx EXCEPT ![o] = s]

\* Mutant of Ensure: the store is not looked at before a new one is opened.
EnsureUnchecked(o, requested) ==
  LET sc == IF separate THEN requested ELSE "connection"
  IN  \/ /\ opening[sc] # NoTx
         /\ Use(o, opening[sc], "opening")
         /\ UNCHANGED <<opening, backendVars>>
      \/ /\ opening[sc] = NoTx
         /\ \E s \in Tx : /\ Backend!BeginRequest(s)
                          /\ opening' = [opening EXCEPT ![sc] = s]
                          /\ Use(o, s, "opening")

\* ensureManagedTransaction: an open transaction, one being opened, a new one.
Ensure(o, requested) ==
  LET sc == IF separate THEN requested ELSE "connection"
  IN  \/ /\ \E t \in Find(sc) : Use(o, t.txId, "ready")
         /\ UNCHANGED <<opening, backendVars>>
      \/ /\ Find(sc) = {} /\ opening[sc] # NoTx
         /\ Use(o, opening[sc], "opening")
         /\ UNCHANGED <<opening, backendVars>>
      \/ /\ Find(sc) = {} /\ opening[sc] = NoTx
         /\ \E s \in Tx : /\ Backend!BeginRequest(s)
                          /\ opening' = [opening EXCEPT ![sc] = s]
                          /\ Use(o, s, "opening")

\* The reply of begin_transaction; the operations waiting for it go on.
Opened(sc) ==
  /\ opening[sc] # NoTx
  /\ begin[opening[sc]] \in {"ok", "err"}
  /\ LET s    == opening[sc]
         next == IF begin[s] = "ok" THEN "ready" ELSE "err"
     IN  /\ store' = IF begin[s] = "ok"
                     THEN store \cup {[txId |-> s, scope |-> sc]} ELSE store
         /\ op' = [o \in DOMAIN op |->
                     IF op[o] = "opening" /\ opTx[o] = s THEN next ELSE op[o]]
  /\ opening' = [opening EXCEPT ![sc] = NoTx]
  /\ UNCHANGED <<busy, finalizing, separate, managed, opTx, opEnd, ending, sync,
                 listed, dropped, backendVars>>

-----------------------------------------------------------------------------
(* Operations in a managed transaction. *)

\* Mutant of Run: finalizingTransactions is not looked at.
RunUnchecked(o, s, k) ==
  /\ busy' = [busy EXCEPT ![s] = @ + 1]
  /\ Use(o, s, "sent")
  /\ Backend!Invoke(o, k, s)

\* Mutant of Run: busyTransactions is not counted up.
RunUncounted(o, s, k) ==
  /\ s \notin finalizing
  /\ UNCHANGED busy
  /\ Use(o, s, "sent")
  /\ Backend!Invoke(o, k, s)

\* runManagedOperation up to the reply of the backend.
Run(o, s, k) ==
  \/ /\ s \in finalizing
     /\ Use(o, s, "err")
     /\ UNCHANGED <<busy, backendVars>>
  \/ /\ s \notin finalizing
     /\ busy' = [busy EXCEPT ![s] = @ + 1]
     /\ Use(o, s, "sent")
     /\ Backend!Invoke(o, k, s)

\* runTableTransaction with an open transaction or managed transactions on.
StartEdit(o, table) ==
  /\ op[o] = "idle"
  /\ Find(table) # {} \/ managed
  /\ Ensure(o, table)
  /\ UNCHANGED <<store, busy, finalizing, separate, managed, opEnd, ending, sync,
                 listed, dropped>>

\* runSql: an open transaction is used at once.
StartQuery(o) ==
  /\ op[o] = "idle"
  /\ \E t \in Find("query"), k \in Statements : Run(o, t.txId, k)
  /\ UNCHANGED <<store, finalizing, opening, separate, managed, opEnd, ending, sync,
                 listed, dropped>>

\* runSql of a data-changing statement, or the first statement of a script
\* that was told to open a transaction.
OpenQuery(o) ==
  /\ op[o] = "idle"
  /\ Find("query") = {} /\ managed
  /\ "write" \in Statements
  /\ Ensure(o, "query")
  /\ UNCHANGED <<store, busy, finalizing, separate, managed, opEnd, ending, sync,
                 listed, dropped>>

\* runSqlScript: a later statement uses the transaction found at its start.
StartScript(o) ==
  /\ op[o] = "idle"
  /\ "write" \in Statements
  /\ \E t \in Find("query") : Use(o, t.txId, "ready")
  /\ UNCHANGED <<store, busy, finalizing, opening, separate, managed, opEnd, ending,
                 sync, listed, dropped, backendVars>>

Continue(o) ==
  /\ op[o] = "ready"
  /\ Run(o, opTx[o], IF o \in Edits THEN "row" ELSE "write")
  /\ UNCHANGED <<store, finalizing, opening, separate, managed, opEnd, ending, sync,
                 listed, dropped>>

\* The rest of runManagedOperation.
Replied(o) ==
  /\ op[o] = "sent"
  /\ pc[o] = "done"
  /\ op' = [op EXCEPT ![o] = result[o]]
  /\ busy' = [busy EXCEPT ![opTx[o]] = @ - 1]
  /\ UNCHANGED <<store, finalizing, opening, separate, managed, opTx, opEnd, ending,
                 sync, listed, dropped, backendVars>>

-----------------------------------------------------------------------------
(* finishManagedTransaction, called from a card of the panel. *)

\* Mutant of Finish: running operations are not waited for.
FinishBusy(e, k, t) ==
  /\ ending[e] = "idle"
  /\ t \in store
  /\ t.txId \notin finalizing
  /\ finalizing' = finalizing \cup {t.txId}
  /\ ending' = [ending EXCEPT ![e] = "sent"]
  /\ Backend!Invoke(e, k, t.txId)
  /\ UNCHANGED <<store, busy, opening, separate, managed, op, opTx, opEnd, sync,
                 listed, dropped>>

Finish(e, k, t) ==
  /\ ending[e] = "idle"
  /\ t \in store
  /\ busy[t.txId] = 0
  /\ t.txId \notin finalizing
  /\ finalizing' = finalizing \cup {t.txId}
  /\ ending' = [ending EXCEPT ![e] = "sent"]
  /\ Backend!Invoke(e, k, t.txId)
  /\ UNCHANGED <<store, busy, opening, separate, managed, op, opTx, opEnd, sync,
                 listed, dropped>>

\* Mutant of Finished: the card stays.
FinishedKept(e) ==
  /\ ending[e] = "sent"
  /\ pc[e] = "done"
  /\ ending' = [ending EXCEPT ![e] = "reported"]
  /\ finalizing' = finalizing \ {target[e]}
  /\ UNCHANGED <<store, busy, opening, separate, managed, op, opTx, opEnd, sync,
                 listed, dropped, backendVars>>

Finished(e) ==
  /\ ending[e] = "sent"
  /\ pc[e] = "done"
  /\ ending' = [ending EXCEPT ![e] = "reported"]
  /\ finalizing' = finalizing \ {target[e]}
  /\ store' = IF result[e] = "ok" THEN {t \in store : t.txId # target[e]} ELSE store
  /\ UNCHANGED <<busy, opening, separate, managed, op, opTx, opEnd, sync, listed,
                 dropped, backendVars>>

-----------------------------------------------------------------------------
(* runTableTransaction with managed transactions off: a transaction of its *)
(* own, committed at once, rolled back when anything failed.               *)

PrivateEnd(o, k, state) ==
  \E e \in Ends :
    /\ ending[e] = "idle"
    /\ ending' = [ending EXCEPT ![e] = "private"]
    /\ opEnd' = [opEnd EXCEPT ![o] = e]
    /\ op' = [op EXCEPT ![o] = state]
    /\ Backend!Invoke(e, k, opTx[o])

StartPrivate(o, table) ==
  /\ op[o] = "idle"
  /\ Find(table) = {} /\ ~managed
  /\ \E s \in Tx : Backend!BeginRequest(s) /\ Use(o, s, "private")
  /\ UNCHANGED <<store, busy, finalizing, opening, separate, managed, opEnd, ending,
                 sync, listed, dropped>>

PrivateOpened(o) ==
  /\ op[o] = "private"
  /\ \/ /\ begin[opTx[o]] = "ok"
        /\ op' = [op EXCEPT ![o] = "privateWork"]
        /\ Backend!Invoke(o, "row", opTx[o])
     \/ /\ begin[opTx[o]] = "err"
        /\ op' = [op EXCEPT ![o] = "err"]
        /\ UNCHANGED backendVars
  /\ UNCHANGED <<store, busy, finalizing, opening, separate, managed, opTx, opEnd,
                 ending, sync, listed, dropped>>

\* Mutant of PrivateWorked: a failed operation is not rolled back.
PrivateWorkedKept(o) ==
  /\ op[o] = "privateWork"
  /\ pc[o] = "done"
  /\ \/ result[o] = "ok" /\ PrivateEnd(o, "commit", "privateCommit")
     \/ /\ result[o] = "err"
        /\ op' = [op EXCEPT ![o] = "err"]
        /\ UNCHANGED <<opEnd, ending, backendVars>>
  /\ UNCHANGED <<store, busy, finalizing, opening, separate, managed, opTx, sync,
                 listed, dropped>>

PrivateWorked(o) ==
  /\ op[o] = "privateWork"
  /\ pc[o] = "done"
  /\ IF result[o] = "ok"
     THEN PrivateEnd(o, "commit", "privateCommit")
     ELSE PrivateEnd(o, "rollback", "privateUndo")
  /\ UNCHANGED <<store, busy, finalizing, opening, separate, managed, opTx, sync,
                 listed, dropped>>

PrivateCommitted(o) ==
  /\ op[o] = "privateCommit"
  /\ pc[opEnd[o]] = "done"
  /\ \/ /\ result[opEnd[o]] = "ok"
        /\ op' = [op EXCEPT ![o] = "ok"]
        /\ UNCHANGED <<opEnd, ending, backendVars>>
     \/ /\ result[opEnd[o]] = "err"
        /\ PrivateEnd(o, "rollback", "privateUndo")
  /\ UNCHANGED <<store, busy, finalizing, opening, separate, managed, opTx, sync,
                 listed, dropped>>

\* The outcome of the rollback is ignored.
PrivateUndone(o) ==
  /\ op[o] = "privateUndo"
  /\ pc[opEnd[o]] = "done"
  /\ op' = [op EXCEPT ![o] = "err"]
  /\ UNCHANGED <<store, busy, finalizing, opening, separate, managed, opTx, opEnd,
                 ending, sync, listed, dropped, backendVars>>

-----------------------------------------------------------------------------
(* syncWithBackend: the store keeps the ids the backend listed. *)

SyncAsk ==
  /\ "sync" \in Background
  /\ sync = "idle"
  /\ sync' = "asked"
  /\ UNCHANGED <<store, busy, finalizing, opening, separate, managed, op, opTx, opEnd,
                 ending, listed, dropped, backendVars>>

SyncAnswer ==
  /\ sync = "asked"
  /\ sync' = "answered"
  /\ listed' = registered
  /\ UNCHANGED <<store, busy, finalizing, opening, separate, managed, op, opTx, opEnd,
                 ending, dropped, backendVars>>

SyncApply ==
  /\ sync = "answered"
  /\ sync' = "idle"
  /\ listed' = {}
  /\ store' = {t \in store : t.txId \in listed}
  /\ dropped' = dropped \cup ({t.txId : t \in store} \ listed)
  /\ UNCHANGED <<busy, finalizing, opening, separate, managed, op, opTx, opEnd, ending,
                 backendVars>>

\* The switches of the settings page; "per table" is disabled while a
\* transaction is listed or managed transactions are off.
SwitchManaged ==
  /\ "managed" \in Background
  /\ managed' = ~managed
  /\ UNCHANGED <<store, busy, finalizing, opening, separate, op, opTx, opEnd, ending,
                 sync, listed, dropped, backendVars>>

SwitchSeparate ==
  /\ "separate" \in Background
  /\ store = {} /\ managed
  /\ separate' = ~separate
  /\ UNCHANGED <<store, busy, finalizing, opening, managed, op, opTx, opEnd, ending,
                 sync, listed, dropped, backendVars>>

-----------------------------------------------------------------------------
Handler ==
  \/ \E sc \in Scopes : Opened(sc)
  \/ \E o \in Edits \cup Queries : Continue(o) \/ Replied(o)
  \/ \E o \in Edits : \/ PrivateOpened(o) \/ PrivateWorked(o)
                      \/ PrivateCommitted(o) \/ PrivateUndone(o)
  \/ \E e \in Ends : Finished(e)
  \/ SyncAnswer \/ SyncApply

User ==
  \/ \E o \in Edits, table \in Tables : StartEdit(o, table) \/ StartPrivate(o, table)
  \/ \E o \in Queries : StartQuery(o) \/ OpenQuery(o) \/ StartScript(o)
  \/ \E e \in Ends, k \in {"commit", "rollback"}, t \in store : Finish(e, k, t)
  \/ \E o \in Queries : Backend!Cancel(o) /\ UNCHANGED uiVars
  \/ SyncAsk \/ SwitchManaged \/ SwitchSeparate

Next == Handler \/ User \/ (Backend!System /\ UNCHANGED uiVars)

Spec == Init /\ [][Next]_vars

-----------------------------------------------------------------------------
(* Properties *)

\* Two edits never open two transactions for the same scope: the store and
\* the promises of pendingTransactions together name at most one each.
OneTransactionPerScope ==
  \A sc \in Scopes :
    /\ Cardinality({t \in store : t.scope = sc}) <= 1
    /\ opening[sc] # NoTx => \A t \in store : t.scope # sc

\* "DML is collected and made permanent only by a manual commit": no statement
\* of a managed transaction takes effect outside of it.
NothingAutocommits == autocommitted = {}

CommitFailed(s) ==
  \E e \in Ends : target[e] = s /\ kind[e] = "commit" /\ result[e] = "err"

\* The guards busy and finalizing keep statements away from a session whose
\* transaction is ended: only after a failed commit, which leaves the card and
\* the entry in place, can one reach the session outside a transaction.
AutocommitNeedsFailedCommit == \A o \in autocommitted : CommitFailed(target[o])

\* A commit the user was told of contains every edit and statement of that
\* transaction that succeeded, a rollback contains none.
EndsTellTheTruth ==
  \A e \in Ends : pc[e] = "done" /\ result[e] = "ok" /\ ~CommitFailed(target[e]) =>
    \A o \in Edits \cup Queries : target[o] = target[e] =>
      /\ kind[e] = "commit" /\ op[o] = "ok" => o \in committed
      /\ kind[e] = "rollback" => o \notin committed \cup autocommitted

\* An edit or statement that was reported as failed has no lasting effect,
\* unless the connection broke while its private transaction was committed.
FailuresLeaveNothing ==
  \A o \in Edits \cup Queries : op[o] = "err" =>
    /\ o \in autocommitted => CommitFailed(target[o])
    /\ o \in committed => o \in Edits /\ opEnd[o] # NoCall /\ server[opTx[o]] = "closed"

\* The transaction of a card exists in the backend until it is being ended.
CardsAreBacked ==
  \A t \in store : t.txId \in registered \/ t.txId \in finalizing

\* A transaction is open at the server.
Open(s) == begin[s] = "ok" /\ server[s] \in {"open", "failed"}

\* It is in the panel, where it can be reviewed and ended, or its begin is
\* being answered, or a private edit is about to end it.
InPanel(s) ==
  \/ \E t \in store : t.txId = s
  \/ \E sc \in Scopes : opening[sc] = s
  \/ \E o \in Edits : /\ opTx[o] = s
                      /\ op[o] \in {"private", "privateWork", "privateCommit", "privateUndo"}

\* Every open transaction is in the panel.
OpenTransactionsAreListed == \A s \in Tx : Open(s) => InPanel(s)

\* An open transaction that is not in the panel was in it, and a refresh removed
\* its card: the backend gave the list before it opened the transaction
\* (syncWithBackend).
UnsyncedAreListed == \A s \in Tx : Open(s) => InPanel(s) \/ s \in dropped

\* "Review and commit/rollback pending changes": what a rollback of the panel
\* discarded was not made permanent before.
RollbackDiscards ==
  \A e \in Ends : pc[e] = "done" /\ result[e] = "ok" /\ kind[e] = "rollback" =>
    \A o \in Queries : target[o] = target[e] => o \notin committed

\* With separate transactions off there is one transaction per database.
SharedModeIsShared == ~separate => Cardinality(store) <= 1
=============================================================================
