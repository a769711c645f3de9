--------------------------- MODULE PgTransactions ---------------------------
(***************************************************************************)
(* The PostgreSQL half of TransactionManager (db/transaction.rs,           *)
(* transaction_read.rs) on top of PgSession and postgres()                 *)
(* (db/execution.rs), together with the server session it talks to.        *)
(*                                                                         *)
(* A call is one Tauri command in flight.  Its future is the sequence of   *)
(* steps between two awaits: look the entry up in the map, take the        *)
(* session mutex, send a statement, read the answer.  The server executes  *)
(* one statement of a session at a time and in the order it receives them; *)
(* it may fail, lose the connection, or receive the out-of-band cancel     *)
(* request late.                                                           *)
(***************************************************************************)
EXTENDS Naturals, FiniteSets

CONSTANTS
  Tx,      \* sessions TransactionManager::begin can open (their ids tx_1, tx_2, ...)
  Calls,   \* command invocations
  NoCall,  \* the session mutex is free
  NoTx,    \* the call has not been made yet
  Kinds    \* the commands the environment issues, a subset of AllKinds

\* execute with a data-changing statement, execute with a stand-alone COMMIT
\* typed by the user, update/insert/duplicate/delete_row, fetch_rows or
\* count_rows, commit, rollback.
AllKinds == {"write", "end", "row", "read", "commit", "rollback"}

\* Commands that run their statement under execution::postgres, the only ones
\* that can be cancelled or time out.
Executes == {"write", "end"}

\* Commands that run their statement inside a savepoint of their own.
Savepoints == {"row", "read"}

\* Commands that change rows.
Changes == {"write", "row"}

ASSUME NoCallIsNoCall == NoCall \notin Calls
ASSUME NoTxIsNoTx == NoTx \notin Tx
ASSUME KindsAreKinds == Kinds \subseteq AllKinds

VARIABLES
  \* --- TransactionManager and PgSession
  begin,        \* progress of the begin command that opens the session
  registered,   \* keys of the transactions map
  interrupted,  \* PgSession::interrupted
  holder,       \* call holding the guard of PgSession::client
  \* --- the calls
  pc,           \* next await of the call
  kind,         \* its command
  target,       \* its tx_id argument
  cancelled,    \* its CancellationToken
  stmt,         \* its current statement: not sent, sent, or the server's answer
  result,       \* what the command returned, or will return once released
  \* --- the server
  server,       \* transaction status of the session
  pending,      \* changes of the open transaction, named by their call
  committed,    \* changes made permanent by a COMMIT
  autocommitted,\* changes made permanent outside a transaction block
  signal        \* a cancel request for the session is on its way

managerVars == <<begin, registered, interrupted, holder>>
callVars    == <<pc, kind, target, cancelled, stmt, result>>
serverVars  == <<server, pending, committed, autocommitted, signal>>
vars == <<managerVars, callVars, serverVars>>

Stages == {"new", "entry", "lock", "exec", "interrupting", "awaiting",
           "columns", "save", "work", "undo", "release",
           "probe", "commit", "rollback", "forget", "done"}

TypeOK ==
  /\ begin \in [Tx -> {"none", "requested", "connected", "begun", "ok", "err"}]
  /\ registered \subseteq Tx
  /\ interrupted \in [Tx -> BOOLEAN]
  /\ holder \in [Tx -> Calls \cup {NoCall}]
  /\ pc \in [Calls -> Stages]
  /\ kind \in [Calls -> AllKinds \cup {"none"}]
  /\ target \in [Calls -> Tx \cup {NoTx}]
  /\ cancelled \in [Calls -> BOOLEAN]
  /\ stmt \in [Calls -> {"none", "sent", "ok", "empty", "err"}]
  /\ result \in [Calls -> {"none", "ok", "err"}]
  /\ server \in [Tx -> {"none", "idle", "open", "failed", "closed"}]
  /\ pending \in [Tx -> SUBSET Calls]
  /\ committed \subseteq Calls
  /\ autocommitted \subseteq Calls
  /\ signal \in [Tx -> BOOLEAN]
  /\ \A c \in Calls :
       IF pc[c] = "new"
       THEN kind[c] = "none" /\ target[c] = NoTx /\ stmt[c] = "none"
       ELSE kind[c] \in AllKinds /\ target[c] \in Tx /\ begin[target[c]] = "ok"

Init ==
  /\ begin = [s \in Tx |-> "none"]
  /\ registered = {}
  /\ interrupted = [s \in Tx |-> FALSE]
  /\ holder = [s \in Tx |-> NoCall]
  /\ pc = [c \in Calls |-> "new"]
  /\ kind = [c \in Calls |-> "none"]
  /\ target = [c \in Calls |-> NoTx]
  /\ cancelled = [c \in Calls |-> FALSE]
  /\ stmt = [c \in Calls |-> "none"]
  /\ result = [c \in Calls |-> "none"]
  /\ server = [s \in Tx |-> "none"]
  /\ pending = [s \in Tx |-> {}]
  /\ committed = {}
  /\ autocommitted = {}
  /\ signal = [s \in Tx |-> FALSE]

-----------------------------------------------------------------------------
(* begin: connect, BEGIN, insert the entry; the connect timeout around the *)
(* whole future may drop it at any await, which closes the connection.     *)

BeginRequest(s) ==
  /\ begin[s] = "none"
  /\ begin' = [begin EXCEPT ![s] = "requested"]
  /\ UNCHANGED <<registered, interrupted, holder, callVars, serverVars>>

Connect(s) ==
  /\ begin[s] = "requested"
  /\ begin' = [begin EXCEPT ![s] = "connected"]
  /\ server' = [server EXCEPT ![s] = "idle"]
  /\ UNCHANGED <<registered, interrupted, holder, callVars,
                 pending, committed, autocommitted, signal>>

SendBegin(s) ==
  /\ begin[s] = "connected"
  /\ begin' = [begin EXCEPT ![s] = "begun"]
  /\ server' = [server EXCEPT ![s] = "open"]
  /\ UNCHANGED <<registered, interrupted, holder, callVars,
                 pending, committed, autocommitted, signal>>

InsertEntry(s) ==
  /\ begin[s] = "begun"
  /\ begin' = [begin EXCEPT ![s] = "ok"]
  /\ registered' = registered \cup {s}
  /\ UNCHANGED <<interrupted, holder, callVars, serverVars>>

BeginFails(s) ==
  /\ begin[s] \in {"requested", "connected", "begun"}
  /\ begin' = [begin EXCEPT ![s] = "err"]
  /\ server' = [server EXCEPT ![s] = "closed"]
  /\ UNCHANGED <<registered, interrupted, holder, callVars,
                 pending, committed, autocommitted, signal>>

-----------------------------------------------------------------------------
(* Entering a command: the entry is cloned out of the map under the map's  *)
(* lock, which is released before the session mutex is awaited.            *)

\* Mutant of Invoke: a command that does not wait for the begin of its session.
InvokeEarly(c, k, s) ==
  /\ pc[c] = "new"
  /\ pc' = [pc EXCEPT ![c] = "entry"]
  /\ kind' = [kind EXCEPT ![c] = k]
  /\ target' = [target EXCEPT ![c] = s]
  /\ UNCHANGED <<managerVars, cancelled, stmt, result, serverVars>>

Invoke(c, k, s) ==
  /\ pc[c] = "new"
  /\ begin[s] = "ok"
  /\ pc' = [pc EXCEPT ![c] = "entry"]
  /\ kind' = [kind EXCEPT ![c] = k]
  /\ target' = [target EXCEPT ![c] = s]
  /\ UNCHANGED <<managerVars, cancelled, stmt, result, serverVars>>

\* cancel(id) of db/execution.rs: only the execute commands look at their token.
Cancel(c) ==
  /\ kind[c] \in Executes
  /\ pc[c] \in {"entry", "lock", "exec", "interrupting", "awaiting"}
  /\ ~cancelled[c]
  /\ cancelled' = [cancelled EXCEPT ![c] = TRUE]
  /\ UNCHANGED <<managerVars, pc, kind, target, stmt, result, serverVars>>

\* The command returns; a statement it gave up on stays with the server.
Return(c, r) ==
  /\ pc' = [pc EXCEPT ![c] = "done"]
  /\ result' = [result EXCEPT ![c] = r]
  /\ UNCHANGED <<kind, target, cancelled>>

Unlock(c) == holder' = [holder EXCEPT ![target[c]] = NoCall]

\* The command sends the statement of its next stage.
Send(c, stage) ==
  /\ pc' = [pc EXCEPT ![c] = stage]
  /\ stmt' = [stmt EXCEPT ![c] = "sent"]
  /\ UNCHANGED <<kind, target, cancelled>>

LookUp(c) ==
  /\ pc[c] = "entry"
  /\ \/ /\ target[c] \in registered
        /\ pc' = [pc EXCEPT ![c] = "lock"]
        /\ UNCHANGED <<kind, target, cancelled, result>>
     \/ /\ target[c] \notin registered
        /\ Return(c, "err")
  /\ UNCHANGED <<managerVars, stmt, serverVars>>

\* Mutant of FirstStages: row operations without a savepoint.
FirstStagesUnsaved(k) ==
  CASE k \in Executes -> {"exec"}
    [] k = "row"      -> {"work"}
    [] k = "read"     -> {"save"}
    [] k = "commit"   -> {"probe"}
    [] OTHER          -> {"rollback"}

\* All row operations but delete_row read the table's columns first.
FirstStages(k) ==
  CASE k \in Executes -> {"exec"}
    [] k = "row"      -> {"columns", "save"}
    [] k = "read"     -> {"save"}
    [] k = "commit"   -> {"probe"}
    [] OTHER          -> {"rollback"}

\* Mutant of MayUse: every command takes the mutex with lock_for_cleanup.
MayUseAlways(c) == TRUE

\* PgSession::lock; rollback takes the mutex with lock_for_cleanup.
MayUse(c) == ~interrupted[target[c]] \/ kind[c] = "rollback"

\* Mutant of Acquire: the session without its mutex.
AcquireShared(c) ==
  /\ pc[c] = "lock"
  /\ MayUse(c)
  /\ ~(kind[c] \in Executes /\ cancelled[c])
  /\ holder' = [holder EXCEPT ![target[c]] = c]
  /\ \E stage \in FirstStages(kind[c]) : Send(c, stage)
  /\ UNCHANGED <<begin, registered, interrupted, result, serverVars>>

Acquire(c) ==
  /\ pc[c] = "lock"
  /\ holder[target[c]] = NoCall
  /\ MayUse(c)
  /\ ~(kind[c] \in Executes /\ cancelled[c])
  /\ holder' = [holder EXCEPT ![target[c]] = c]
  /\ \E stage \in FirstStages(kind[c]) : Send(c, stage)
  /\ UNCHANGED <<begin, registered, interrupted, result, serverVars>>

\* The guard is taken and dropped again: an interrupted session, or a job
\* that was cancelled before its statement started.
Refuse(c) ==
  /\ pc[c] = "lock"
  /\ holder[target[c]] = NoCall
  /\ \/ ~MayUse(c)
     \/ kind[c] \in Executes /\ cancelled[c]
  /\ Return(c, "err")
  /\ UNCHANGED <<managerVars, stmt, serverVars>>

-----------------------------------------------------------------------------
(* execution::postgres: the select between the answer, the token and the   *)
(* query timeout, and what follows an interruption.                        *)

\* Mutant of ExecReturns: an error leaves the guard behind.
ExecReturnsLocked(c) ==
  /\ pc[c] = "exec"
  /\ stmt[c] \in {"ok", "err"}
  /\ Return(c, stmt[c])
  /\ IF stmt[c] = "ok" THEN Unlock(c) ELSE UNCHANGED holder
  /\ UNCHANGED <<begin, registered, interrupted, stmt, serverVars>>

ExecReturns(c) ==
  /\ pc[c] = "exec"
  /\ stmt[c] \in {"ok", "err"}
  /\ Return(c, stmt[c])
  /\ Unlock(c)
  /\ UNCHANGED <<begin, registered, interrupted, stmt, serverVars>>

\* Mutant of Interrupt: the session is not marked.
InterruptUnmarked(c) ==
  /\ pc[c] = "exec"
  /\ pc' = [pc EXCEPT ![c] = "interrupting"]
  /\ UNCHANGED <<begin, registered, interrupted, holder, kind, target, cancelled,
                 stmt, result, serverVars>>

\* Cancelled or timed out; the answer may already be on its way.
Interrupt(c) ==
  /\ pc[c] = "exec"
  /\ interrupted' = [interrupted EXCEPT ![target[c]] = TRUE]
  /\ pc' = [pc EXCEPT ![c] = "interrupting"]
  /\ UNCHANGED <<begin, registered, holder, kind, target, cancelled, stmt,
                 result, serverVars>>

CancelSent(c) ==
  /\ pc[c] = "interrupting"
  /\ pc' = [pc EXCEPT ![c] = "awaiting"]
  /\ signal' = [signal EXCEPT ![target[c]] = server[target[c]] # "closed"]
  /\ UNCHANGED <<managerVars, kind, target, cancelled, stmt, result,
                 server, pending, committed, autocommitted>>

\* Mutant of InterruptedReturns: the answer is awaited without a timeout.
InterruptedReturnsAnswered(c) ==
  /\ \/ pc[c] = "interrupting"
     \/ pc[c] = "awaiting" /\ stmt[c] \in {"ok", "err"}
  /\ Return(c, "err")
  /\ Unlock(c)
  /\ UNCHANGED <<begin, registered, interrupted, stmt, serverVars>>

\* Mutant of InterruptedReturns: a command that gives up keeps the guard.
InterruptedReturnsLocked(c) ==
  /\ \/ pc[c] = "interrupting"
     \/ pc[c] = "awaiting" /\ stmt[c] \in {"ok", "err", "sent"}
  /\ Return(c, "err")
  /\ UNCHANGED <<managerVars, stmt, serverVars>>

\* finish() turns every outcome of an interrupted statement into an error.
InterruptedReturns(c) ==
  /\ \/ pc[c] = "interrupting"                           \* cancel request failed
     \/ pc[c] = "awaiting" /\ stmt[c] \in {"ok", "err"}  \* answered after all
     \/ pc[c] = "awaiting" /\ stmt[c] = "sent"           \* second timeout
  /\ Return(c, "err")
  /\ Unlock(c)
  /\ UNCHANGED <<begin, registered, interrupted, stmt, serverVars>>

-----------------------------------------------------------------------------
(* Row operations and reads: SAVEPOINT, statement, RELEASE; on an error    *)
(* ROLLBACK TO, which a row operation ignores the outcome of and a read    *)
(* follows with RELEASE.                                                   *)

Answered(c, stage) == pc[c] = stage /\ stmt[c] \in {"ok", "empty", "err"}

\* An argument may name no column of the table.
ColumnsAnswered(c) ==
  /\ Answered(c, "columns")
  /\ \/ /\ stmt[c] = "ok"
        /\ Send(c, "save")
        /\ UNCHANGED <<holder, result>>
     \/ /\ Return(c, "err")
        /\ Unlock(c)
        /\ UNCHANGED stmt
  /\ UNCHANGED <<begin, registered, interrupted, serverVars>>

SavepointSet(c) ==
  /\ Answered(c, "save")
  /\ \/ /\ stmt[c] = "ok"
        /\ Send(c, "work")
        /\ UNCHANGED <<holder, result>>
     \/ /\ stmt[c] = "err"
        /\ Return(c, "err")
        /\ Unlock(c)
        /\ UNCHANGED stmt
  /\ UNCHANGED <<begin, registered, interrupted, serverVars>>

\* Mutant of WorkAnswered: an error is released like a success.
WorkAnsweredReleased(c) ==
  /\ Answered(c, "work")
  /\ result' = [result EXCEPT ![c] = IF stmt[c] = "ok" THEN "ok" ELSE "err"]
  /\ Send(c, "release")
  /\ UNCHANGED <<managerVars, serverVars>>

\* A statement that matched no row is released and reported as an error.
WorkAnswered(c) ==
  /\ Answered(c, "work")
  /\ result' = [result EXCEPT ![c] = IF stmt[c] = "ok" THEN "ok" ELSE "err"]
  /\ Send(c, IF stmt[c] = "err" THEN "undo" ELSE "release")
  /\ UNCHANGED <<managerVars, serverVars>>

UndoAnswered(c) ==
  /\ Answered(c, "undo")
  /\ \/ /\ kind[c] = "read" /\ stmt[c] = "ok"
        /\ Send(c, "release")
        /\ UNCHANGED <<holder, result>>
     \/ /\ kind[c] = "row" \/ stmt[c] = "err"
        /\ Return(c, "err")
        /\ Unlock(c)
        /\ UNCHANGED stmt
  /\ UNCHANGED <<begin, registered, interrupted, serverVars>>

ReleaseAnswered(c) ==
  /\ Answered(c, "release")
  /\ Return(c, IF stmt[c] = "ok" THEN result[c] ELSE "err")
  /\ Unlock(c)
  /\ UNCHANGED <<begin, registered, interrupted, stmt, serverVars>>

-----------------------------------------------------------------------------
(* commit: SELECT 1 as a probe, COMMIT, drop the guard, forget the entry.  *)
(* rollback: ROLLBACK, drop the guard, forget the entry.                   *)

ProbeAnswered(c) ==
  /\ Answered(c, "probe")
  /\ \/ /\ stmt[c] = "ok"
        /\ Send(c, "commit")
        /\ UNCHANGED <<holder, result>>
     \/ /\ stmt[c] = "err"
        /\ Return(c, "err")
        /\ Unlock(c)
        /\ UNCHANGED stmt
  /\ UNCHANGED <<begin, registered, interrupted, serverVars>>

\* Mutant of EndAnswered: the entry is forgotten whatever the outcome.
EndAnsweredForgets(c) ==
  /\ Answered(c, "commit") \/ Answered(c, "rollback")
  /\ Unlock(c)
  /\ pc' = [pc EXCEPT ![c] = "forget"]
  /\ UNCHANGED <<begin, registered, interrupted, kind, target, cancelled, result, stmt,
                 serverVars>>

EndAnswered(c) ==
  /\ Answered(c, "commit") \/ Answered(c, "rollback")
  /\ Unlock(c)
  /\ \/ /\ stmt[c] = "ok"
        /\ pc' = [pc EXCEPT ![c] = "forget"]
        /\ UNCHANGED <<kind, target, cancelled, result>>
     \/ /\ stmt[c] = "err"
        /\ Return(c, "err")
  /\ UNCHANGED <<begin, registered, interrupted, stmt, serverVars>>

Forget(c) ==
  /\ pc[c] = "forget"
  /\ registered' = registered \ {target[c]}
  /\ Return(c, "ok")
  /\ UNCHANGED <<begin, interrupted, holder, stmt, serverVars>>

-----------------------------------------------------------------------------
(* The server.  A statement its call gave up on is still executed, before  *)
(* anything that was sent after it.                                        *)

GaveUp(c) == pc[c] = "done" /\ stmt[c] = "sent"

Executing(c) ==
  /\ stmt[c] = "sent"
  /\ GaveUp(c) \/ ~\E d \in Calls : GaveUp(d) /\ target[d] = target[c]

\* What the current statement of the call asks for.
Asks(c) ==
  CASE kind[c] = "write" -> "change"
    [] kind[c] = "end"   -> "commit"
    [] OTHER             -> pc[c]

Answer(c, a) ==
  /\ stmt' = [stmt EXCEPT ![c] = a]
  /\ UNCHANGED <<managerVars, pc, kind, target, cancelled, result, signal>>

SetStatus(s, st) == server' = [server EXCEPT ![s] = st]

\* An aborted transaction block accepts only its end or a return to a
\* savepoint; outside a block there are no savepoints.
ServerRefuses(c) ==
  /\ Executing(c)
  /\ \/ server[target[c]] = "closed"
     \/ server[target[c]] = "failed" /\ Asks(c) \notin {"undo", "commit", "rollback"}
     \/ server[target[c]] = "idle" /\ Asks(c) \in {"save", "undo", "release"}
  /\ Answer(c, "err")
  /\ UNCHANGED <<server, pending, committed, autocommitted>>

\* SELECT 1, the columns of a table, SAVEPOINT, RELEASE, a read.
ServerAgrees(c) ==
  /\ Executing(c)
  /\ \/ server[target[c]] = "open" /\ Asks(c) \in {"save", "release"}
     \/ server[target[c]] \in {"open", "idle"} /\ Asks(c) \in {"probe", "columns"}
     \/ server[target[c]] \in {"open", "idle"} /\ Asks(c) = "work" /\ kind[c] = "read"
  /\ Answer(c, "ok")
  /\ UNCHANGED <<server, pending, committed, autocommitted>>

ServerMatchesNothing(c) ==
  /\ Executing(c)
  /\ server[target[c]] \in {"open", "idle"}
  /\ Asks(c) = "work" /\ kind[c] = "row"
  /\ Answer(c, "empty")
  /\ UNCHANGED <<server, pending, committed, autocommitted>>

ServerChanges(c) ==
  /\ Executing(c)
  /\ Asks(c) = "change" \/ (Asks(c) = "work" /\ kind[c] = "row")
  /\ \/ /\ server[target[c]] = "open"
        /\ pending' = [pending EXCEPT ![target[c]] = @ \cup {c}]
        /\ UNCHANGED autocommitted
     \/ /\ server[target[c]] = "idle"
        /\ autocommitted' = autocommitted \cup {c}
        /\ UNCHANGED pending
  /\ Answer(c, "ok")
  /\ UNCHANGED <<server, committed>>

ServerFails(c) ==
  /\ Executing(c)
  /\ server[target[c]] \in {"open", "idle"}
  /\ Asks(c) \in {"change", "work"}
  /\ IF server[target[c]] = "open" THEN SetStatus(target[c], "failed") ELSE UNCHANGED server
  /\ Answer(c, "err")
  /\ UNCHANGED <<pending, committed, autocommitted>>

ServerUndoes(c) ==
  /\ Executing(c)
  /\ Asks(c) = "undo"
  /\ server[target[c]] \in {"open", "failed"}
  /\ SetStatus(target[c], "open")
  /\ pending' = [pending EXCEPT ![target[c]] = @ \ {c}]
  /\ Answer(c, "ok")
  /\ UNCHANGED <<committed, autocommitted>>

\* COMMIT of an aborted block rolls back, and is answered without an error.
ServerEnds(c) ==
  /\ Executing(c)
  /\ Asks(c) \in {"commit", "rollback"}
  /\ server[target[c]] \in {"idle", "open", "failed"}
  /\ committed' = IF Asks(c) = "commit" /\ server[target[c]] = "open"
                  THEN committed \cup pending[target[c]] ELSE committed
  /\ pending' = [pending EXCEPT ![target[c]] = {}]
  /\ SetStatus(target[c], "idle")
  /\ Answer(c, "ok")
  /\ UNCHANGED autocommitted

\* A deferred constraint or a serialization conflict: COMMIT rolls back.
ServerRejectsCommit(c) ==
  /\ Executing(c)
  /\ Asks(c) = "commit"
  /\ server[target[c]] = "open"
  /\ pending[target[c]] # {}
  /\ pending' = [pending EXCEPT ![target[c]] = {}]
  /\ SetStatus(target[c], "idle")
  /\ Answer(c, "err")
  /\ UNCHANGED <<committed, autocommitted>>

\* A cancel request fails whatever the session happens to execute.
CancelArrives(s) ==
  /\ signal[s]
  /\ signal' = [signal EXCEPT ![s] = FALSE]
  /\ LET hit == {c \in Calls : Executing(c) /\ target[c] = s}
     IN  /\ stmt' = [c \in Calls |-> IF c \in hit THEN "err" ELSE stmt[c]]
         /\ IF hit # {} /\ server[s] = "open"
            THEN SetStatus(s, "failed") ELSE UNCHANGED server
  /\ UNCHANGED <<managerVars, pc, kind, target, cancelled, result,
                 pending, committed, autocommitted>>

\* The connection breaks: the server rolls back, and the answer of the call
\* that holds the session may be lost on the way.
LoseConnection(s) ==
  /\ begin[s] = "ok"
  /\ server[s] \in {"idle", "open", "failed"}
  /\ SetStatus(s, "closed")
  /\ pending' = [pending EXCEPT ![s] = {}]
  /\ signal' = [signal EXCEPT ![s] = FALSE]
  /\ \E lost \in SUBSET ({holder[s]} \cap Calls) :
       stmt' = [c \in Calls |->
                  IF (target[c] = s /\ stmt[c] = "sent") \/ c \in lost
                  THEN "err" ELSE stmt[c]]
  /\ UNCHANGED <<managerVars, pc, kind, target, cancelled, result,
                 committed, autocommitted>>

\* The last Arc of the entry is gone: the client is dropped and disconnects.
DropSession(s) ==
  /\ begin[s] = "ok"
  /\ s \notin registered
  /\ server[s] # "closed"
  /\ ~\E c \in Calls : target[c] = s /\ pc[c] \notin {"new", "entry", "done"}
  /\ ~\E c \in Calls : target[c] = s /\ GaveUp(c)
  /\ SetStatus(s, "closed")
  /\ pending' = [pending EXCEPT ![s] = {}]
  /\ signal' = [signal EXCEPT ![s] = FALSE]
  /\ UNCHANGED <<managerVars, callVars, committed, autocommitted>>

-----------------------------------------------------------------------------
Opening(s) == Connect(s) \/ SendBegin(s) \/ InsertEntry(s)

Working(c) ==
  \/ LookUp(c) \/ Refuse(c)
  \/ ExecReturns(c) \/ Interrupt(c) \/ CancelSent(c) \/ InterruptedReturns(c)
  \/ ColumnsAnswered(c) \/ SavepointSet(c)
  \/ WorkAnswered(c) \/ UndoAnswered(c) \/ ReleaseAnswered(c)
  \/ ProbeAnswered(c) \/ EndAnswered(c) \/ Forget(c)

Serving(c) ==
  \/ ServerRefuses(c) \/ ServerAgrees(c) \/ ServerMatchesNothing(c)
  \/ ServerChanges(c) \/ ServerFails(c) \/ ServerUndoes(c)
  \/ ServerEnds(c) \/ ServerRejectsCommit(c)

\* Steps of the backend and the server, without the callers' requests.
System ==
  \/ \E s \in Tx : \/ Opening(s) \/ BeginFails(s)
                   \/ CancelArrives(s) \/ LoseConnection(s) \/ DropSession(s)
  \/ \E c \in Calls : Acquire(c) \/ Working(c) \/ Serving(c)

Requests ==
  \/ \E s \in Tx : BeginRequest(s)
  \/ \E c \in Calls : Cancel(c)
  \/ \E c \in Calls, k \in Kinds, s \in Tx : Invoke(c, k, s)

Next == System \/ Requests

Spec == Init /\ [][Next]_vars

-----------------------------------------------------------------------------
(* Fairness.  Every await of a command completes or times out, and tokio's *)
(* mutex serves its waiters in order; the server answers what it is asked. *)

ClientFairness ==
  /\ \A s \in Tx : WF_vars(Opening(s))
  /\ \A c \in Calls : WF_vars(Working(c)) /\ SF_vars(Acquire(c))

ServerFairness == \A c \in Calls : WF_vars(Serving(c))

\* The server may stop answering at any time.
ClientFairSpec == Spec /\ ClientFairness

FairSpec == Spec /\ ClientFairness /\ ServerFairness

-----------------------------------------------------------------------------
(* Properties *)

\* A change that was reported as failed, cancelled or timed out never becomes
\* part of a commit: the statement may have succeeded on the server, but the
\* session only accepts ROLLBACK afterwards.
FailedNeverCommitted ==
  \A c \in Calls : pc[c] = "done" /\ result[c] = "err" => c \notin committed

\* Row operations that lose the race against the end of their transaction
\* change nothing: their savepoint fails outside a transaction block.
RowsNeverAutocommit ==
  \A c \in Calls : kind[c] = "row" => c \notin autocommitted

\* Once a statement was interrupted nothing but ROLLBACK is sent on its
\* session, so that a late cancel request cannot hit another statement.
InterruptedOnlyRollsBack ==
  [][\A c \in Calls : stmt[c] # "sent" /\ stmt'[c] = "sent" /\ interrupted[target[c]]
                         => kind[c] = "rollback"]_vars

\* No transaction stays open on the server without an entry through which it
\* can be ended.
NoOrphanTransaction ==
  \A s \in Tx : begin[s] = "ok" /\ server[s] \in {"open", "failed"} => s \in registered

\* A failing row operation or read leaves the transaction usable: only an
\* executed statement can leave the block aborted.
RowErrorsAreContained ==
  \A s \in Tx : server[s] = "failed" =>
    \E c \in Calls : target[c] = s /\ (kind[c] \in Executes \/ holder[s] = c)

\* Every command returns as long as the server answers.
EveryCallReturns ==
  \A c \in Calls : pc[c] = "entry" ~> pc[c] = "done"

\* Even if the server never answers again, an executed statement does not
\* keep the session: its timeouts bound the time it holds the mutex.
ExecuteReleasesSession ==
  \A c \in Calls : pc[c] = "exec" ~> \A s \in Tx : holder[s] # c

-----------------------------------------------------------------------------
(* The refinement of AtomicTransactions. *)

Status(s) ==
  CASE server[s] \in {"open", "failed"}                      -> "open"
    [] server[s] = "none" \/ (server[s] = "idle" /\ begin[s] # "ok") -> "none"
    [] OTHER                                                 -> "ended"

Told(c) == IF pc[c] = "done" THEN result[c] ELSE "none"

Atomic == INSTANCE AtomicTransactions
            WITH Ops <- Calls,
                 status <- [s \in Tx |-> Status(s)],
                 effects <- pending,
                 durable <- committed \cup autocommitted,
                 told <- [c \in Calls |-> Told(c)]

\* Sessions, savepoints and cancellation implement atomic transactions: what a
\* COMMIT makes permanent is exactly the changes reported as successful, and
\* nothing becomes permanent before.
Atomicity == Atomic!Spec

-----------------------------------------------------------------------------
(* The inductive invariant behind the safety properties. *)

\* The stages at which a call holds the session mutex.
Holding == {"exec", "interrupting", "awaiting", "columns", "save", "work", "undo",
            "release", "probe", "commit", "rollback"}

\* The server session follows the begin command that opens it.
OpenInv ==
  \A s \in Tx :
    /\ begin[s] \in {"none", "requested"} => server[s] = "none"
    /\ begin[s] = "connected" => server[s] = "idle"
    /\ begin[s] = "begun" => server[s] = "open"
    /\ begin[s] \in {"ok", "err"} => server[s] # "none"

\* The mutex is held by the one call that uses the session.
LockInv ==
  /\ \A c \in Calls : pc[c] \in Holding => holder[target[c]] = c
  /\ \A s \in Tx : holder[s] # NoCall =>
       target[holder[s]] = s /\ pc[holder[s]] \in Holding

StageInv ==
  \A c \in Calls :
    /\ pc[c] \in {"exec", "interrupting", "awaiting"} => kind[c] \in Executes
    /\ pc[c] \in {"save", "work", "undo", "release"} => kind[c] \in Savepoints
    /\ pc[c] = "columns" => kind[c] = "row"
    /\ pc[c] \in {"probe", "commit"} => kind[c] = "commit"
    /\ pc[c] = "rollback" => kind[c] = "rollback"
    /\ pc[c] = "forget" => kind[c] \in {"commit", "rollback"}
    /\ kind[c] \in {"none", "commit", "rollback"} /\ pc[c] # "done" => result[c] = "none"
    /\ pc[c] \in {"undo", "release", "done"} => result[c] # "none"
    /\ stmt[c] = "sent" => pc[c] \in Holding \cup {"done"}
    /\ GaveUp(c) => kind[c] \in Executes

\* An interrupted session is used by nobody but the interrupted call, the
\* statements it gave up on, and rollbacks.
InterruptInv ==
  /\ \A c \in Calls :
       /\ pc[c] \in Holding /\ interrupted[target[c]]
            => pc[c] \in {"interrupting", "awaiting", "rollback"}
       /\ pc[c] \in {"interrupting", "awaiting"} => interrupted[target[c]]
       /\ GaveUp(c) => interrupted[target[c]]
  /\ \A s \in Tx : signal[s] => interrupted[s]

\* Two statements of a session are outstanding only if one of them is ROLLBACK.
SentInv ==
  \A c, d \in Calls :
    c # d /\ stmt[c] = "sent" /\ stmt[d] = "sent" /\ target[c] = target[d]
      => kind[c] = "rollback" \/ kind[d] = "rollback"

\* A change of the open transaction was reported as a success, can still only
\* be reported as a success, or is on an interrupted session.
Accounted(c) ==
  \/ pc[c] = "done" /\ result[c] = "ok"
  \/ interrupted[target[c]]
  \/ pc[c] = "exec" /\ stmt[c] = "ok"
  \/ pc[c] = "work" /\ stmt[c] = "ok" /\ server[target[c]] = "open"
  \/ pc[c] = "release" /\ result[c] = "ok" /\ stmt[c] \in {"sent", "ok"}
       /\ server[target[c]] = "open"

PendingInv ==
  \A s \in Tx : \A c \in pending[s] :
    /\ target[c] = s
    /\ kind[c] \in Changes
    /\ server[s] \in {"open", "failed"}
    /\ Accounted(c)

\* What an outstanding COMMIT is about to make permanent was reported as done.
CommitInv ==
  \A e \in Calls : stmt[e] = "sent" /\ Asks(e) = "commit" =>
    \A c \in pending[target[e]] : pc[c] = "done" /\ result[c] = "ok"

CommittedInv ==
  \A c \in committed : pc[c] = "done" /\ result[c] = "ok"

\* Between SAVEPOINT and its RELEASE the session is in a transaction block.
SavepointInv ==
  /\ \A c \in Calls : pc[c] = "work" \/ (pc[c] = "save" /\ stmt[c] = "ok")
                         => server[target[c]] # "idle"
  /\ \A c \in autocommitted : kind[c] = "write"

\* A transaction is forgotten only when it has ended.
EndInv ==
  /\ \A c \in Calls :
       pc[c] = "forget" \/ (pc[c] \in {"commit", "rollback"} /\ stmt[c] = "ok")
         => server[target[c]] \in {"idle", "closed"}
  /\ \A s \in Tx : begin[s] = "ok" /\ s \notin registered
                       => server[s] \in {"idle", "closed"}

IInv ==
  /\ TypeOK /\ OpenInv /\ LockInv /\ StageInv /\ InterruptInv /\ SentInv
  /\ PendingInv /\ CommitInv /\ CommittedInv /\ SavepointInv /\ EndInv

\* A block is aborted by an executed statement, or by the statement of a row
\* operation or read that is about to be undone.
FailInv ==
  \A s \in Tx :
    /\ interrupted[s] => \E c \in Calls : target[c] = s /\ kind[c] \in Executes
    /\ server[s] = "failed" => \E c \in Calls :
         /\ target[c] = s
         /\ \/ kind[c] \in Executes
            \/ pc[c] = "work" /\ stmt[c] = "err"
            \/ pc[c] = "undo" /\ stmt[c] = "sent"

\* The place of every command agrees with the session mutex, with the state of
\* the server's session and with what was promised to the user so far: the
\* inductive invariant from which the properties follow (TransactionManager).
Inductive == IInv /\ FailInv
=============================================================================
