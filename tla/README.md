# Verification of l8db

l8db is a desktop client for databases: a Tauri shell with a Rust backend
(`src/src-tauri/src`) and a TypeScript front end (`src/src`).  This directory
holds TLA+ models of the parts in which several things happen at once, the TLC
runs that check them and the TLAPS proofs about them.

## The system

| Part | State it keeps | Operations | What is hard | What makes it correct |
|---|---|---|---|---|
| Backend transactions (`db/transaction.rs`, `transaction_read.rs`) | map of open transactions; per PostgreSQL transaction one `PgSession` | begin, execute, row operations, reads, commit, rollback, list | commands look the entry up and only then wait for the session; every statement may fail, hang or lose its connection | a commit contains exactly what was reported as done; no transaction without a handle |
| Execution control (`db/execution.rs`) | job registry with cancellation tokens; the session's mutex and `interrupted` flag | run, cancel, connect, lock, finish, postgres | timeout and cancellation race the answer; the cancel request is a message of its own and may come late | a given-up statement does no harm; the session is not kept for ever |
| Managed transactions (`lib/transactions.ts`, `lib/managed-transactions.ts`) | the cards of the panel, busy counters, the ids being finished, transactions being opened | ensure, run, finish, runTableTransaction, sync | every `await` lets another handler in | one transaction per scope; a card for every open transaction; what the panel reports is what happened |
| Query editor and scripts (`query-view.tsx`, `script-runner.ts`) | running job, entries of a script | run, cancel, stop | choose a transaction, then use it later; stop between two statements | statements stay in the transaction they were shown in; a stopped script stops |
| Tasks and jobs (`lib/tasks.ts`, `lib/db.ts`) | task list, cancel callbacks | start, cancel, finish | a cancel comes before its job is registered or after it ended; a late answer of a cancellation | what the list says of a finished task is true; every task ends |
| SSH tunnels (`db/ssh.rs`) | map of tunnels, a forwarder task each | open, close, list | a lock held over awaits; two opens of one id; timeouts between bind and insert | every running forwarder is in the map; opening terminates |
| Connection activation (`lib/ssh.ts`, `lib/connections.ts`, editor, panes) | active connection, saved connections, activation queue | activate, save, choose in a pane, remove | the store is read before awaits and written after | activations take turns; ports in the store lead to a tunnel; none is left behind |
| Connection pools (`db/pool.rs`, `redis.rs`) | shared cells by key, idle connections, permits | run, shared, remove | callers that give up while their thread goes on; removal while in use | permits and connections do not drift apart; a connection has one user; one break costs one retry |
| Imports (`db/postgres.rs` csv_import) | one transaction on a connection of its own | run, cancel | the outcome of COMMIT is unknown when its answer is lost | the report is true |
| Table grid (`lib/queries.ts`, `data-table.tsx`) | cached rows with their ctid, editor, requests | fetch, edit, update, delete, commit, rollback | rows move with every update; a refetch and an edit cross | an edit hits the row that was shown |
| Data compare (`lib/data-compare.ts`) | rows read of two tables, a script | load, compare, script, run | the script is run later than the rows were read | nothing unseen is overwritten |
| Tabs, split view, buffered storage (`table-tabs.ts`, `split-view.ts`, `buffered-storage.ts`) | tabs and layout per connection, delayed writes | open, close, split, switch, flush | one store follows the other by subscription, one step behind | the layout fits the tabs; a switch loses neither |
| Extension host (`lib/extensions/*`) | descriptors, sessions, activations in progress, mutation queue | install, enable, disable, update, reload, remove, activate | activation and stop wait for each other; storage, guest and loader may fail | a disabled extension is silent; operations terminate; the storage has what is shown |
| Extension storage (`community_extensions.rs`) | files | install, replace, remove, set | a crash between two steps | a version is either there or not |
| Everything else | see the list of components in `PROJECT.json` | | | |

The front end calls the backend through Tauri commands: asynchronous, several
at a time, without an order between them.  JavaScript runs one handler at a
time and lets others in at each `await`; the backend runs its futures in
parallel on tokio.  So an action is, in every module, what one handler, future
or thread does between two awaits, and a program counter per handler says
where it stands.

## Modules

| Module | Models | Composed with |
|---|---|---|
| `PgTransactions` | PostgreSQL transactions of the backend, `PgSession`, `postgres()`, and the server session | |
| `AtomicTransactions` | what the transaction commands promise | refined by `PgTransactions` |
| `ManagedTransactions` | the front end's transactions | `PgTransactions` |
| `SshTunnels` | the commands on the tunnel map | |
| `ConnectionActivation` | activation, editing, panes, removal | `SshTunnels` |
| `BlockingPool` | the pool of the Oracle adapter | |
| `SharedConnection` | the shared cell and the retry of the Redis adapter | |
| `Jobs` | tasks, scripts, the job registry, cancellation | |
| `CsvImport` | one import with its transaction and its server | |
| `RowEdits` | the grid, its cache, the row versions on the server | |
| `DataCompare` | comparison, script and its execution | |
| `Workspace` | tabs, split view, buffered storage | |
| `ExtensionManager` | the extension manager, loader and sandboxes | |
| `ExtensionStore`, `AtomicStore` | file operations of the store; what it promises | `AtomicStore` is refined |
| `Components` | the components that share no state, and what each promises | `BlockingPool`, `SharedConnection`, `ExtensionStore`, `ExtensionManager`, `Workspace`, `DataCompare`, `RowEdits`, `Jobs`, `CsvImport` |
| `*_proofs` | theorems | |
| `MC*` | instances for TLC | |

### PgTransactions

A *call* is one command in flight.  `pc` is the await it stands at:

| Code | Actions |
|---|---|
| `begin_transaction`, `connect_postgres`, `begin`, `insert_entry` | `BeginRequest`, `Connect`, `SendBegin`, `InsertEntry`, `BeginFails` |
| `entry` (under the map's lock) | `LookUp` |
| `PgSession::lock`, `lock_for_cleanup` | `Acquire`, `Refuse` |
| `execution::postgres`, `finish` | `ExecReturns`, `Interrupt`, `CancelSent`, `InterruptedReturns` |
| `cancel` | `Cancel` |
| row operations, `fetch_rows`, `count_rows` | `ColumnsAnswered`, `SavepointSet`, `WorkAnswered`, `UndoAnswered`, `ReleaseAnswered` |
| `commit`, `rollback` | `ProbeAnswered`, `EndAnswered`, `Forget` |
| the server (not part of the repository) | `Server...`, `CancelArrives`, `LoseConnection`, `DropSession` |

A change is named by the call that made it, and is in one of three places:
`pending` in the open block, `committed` by a COMMIT, or `autocommitted`
because its statement reached the session outside a block.

The server executes the statements of a session in order; one whose caller gave
up is executed before anything sent later.  It may refuse a statement, lose the
connection (with or without the answer), reject a COMMIT, and receive a cancel
request at any later time.  COMMIT of an aborted block rolls back and is
answered without an error, as PostgreSQL does.

Simplifications: catalogue lookups, SAVEPOINT, RELEASE and `SELECT 1` fail only
in an aborted block or on a broken connection; errors that are found before the
session is used (an invalid `ctid`, a malformed filter) and an update of no
columns, which changes nothing, are left out; `execute` carries one statement;
reads see no data.  `Cancel` is enabled only for the two execute commands: reads
are registered as jobs too, but nothing looks at their token.

`AtomicTransactions` has begin, apply, undo, tell, commit and abort.  Commit is
one step; it takes the changes of the transaction, all of which must have been
reported as done.  `ApplyOutside` says what the code does with an operation
that arrives after the end: it takes effect on its own.  That row operations
never do this is `RowsNeverAutocommit`, that statements of the panel's
transactions do it only after a failed commit is `AutocommitNeedsFailedCommit`.

### ManagedTransactions

One connection and database.  `op` of an edit or query is the await its handler
stands at; the backend's `pc` says where the command is.  `store`, `busy`,
`finalizing` and `opening` are `transactions`, `busyTransactions`,
`finalizingTransactions` and `pendingTransactions`.  A handler that uses the
reply of a command runs some time after the backend is done with it.  The
switches of the settings page and `syncWithBackend` run at any time when the
constant `Background` names them.  The history variable `dropped` has the
transactions whose cards `syncWithBackend` removed.

A query is any data-changing statement, or a COMMIT typed by the user when
`Statements` contains `"end"`.  Scripts differ from the editor in that they
hold the transaction they found (`StartScript`) while statements run.

### SshTunnels and ConnectionActivation

`SshTunnels` has the commands open, close and list.  `open` keeps the guard of
the map alive through its `if let`, so on finding a tunnel of another
configuration it calls `close` while it holds the lock that `close` takes: it
stands at `"replace"` until the command's timeout drops it (`TimeOut`), and the
lock is taken until then.  Dropping an `ActiveTunnel` does not stop its
forwarder, so a tunnel overwritten in the map runs on: the history variable
`raced` marks where two opens raced.

`ConnectionActivation` has four kinds of actors.  Requests are calls of
`activateConnection` and wait in `activationQueue`; editors close the tunnel,
save and activate; panes open a tunnel of their own outside the queue; removers
delete a connection.  `next` and `previous` are what `performActivation` read
from the store before its awaits.  `touched` marks activations whose
connection was replaced while it was tested (`current !== next`).

### BlockingPool and SharedConnection

A call takes a permit in the order of asking (tokio's semaphore is fair), then
runs in a thread of `spawn_blocking`.  `Drop` is the caller's timeout: the
permit is returned at once, the thread goes on (`"abandoned"`) and its
connection is put back by nobody.  This is why `PoolIsBounded` counts holders
and idle connections but not abandoned threads: the code does not bound those,
although its test (`pool.rs:213`) expects at most the capacity of operations at
once; the test drops no call.

In `SharedConnection` cells are the `OnceCell`s of the map.  A call keeps the
cell it took even when another call removes it from the map, and `remove_pool`
removes whatever is there; the property is that one break of the connections,
or one PING whose answer is late on a connection that lives, still costs no call
both of its attempts.  `breaks` counts both.

### Jobs and CsvImport

A task is a statement of the editor or a script of `Length` statements.  Every
statement is a job of its own, registered in the backend when its command
starts, so `cancelExecution` retries up to `MaxAttempts` times (5 in the code)
when it finds no job.  `late` counts the statements of a script that the server
began after the stop.  `Restart` is the merge that turns tasks of an earlier run
into interrupted ones.  `Lenient` scripts go on after a failed statement.

The list does not tell a timeout from a cancellation: `finishTask` takes the
status from the text of the error, and a timeout the server confirmed says "vom
Server abgebrochen" (`execution.rs:299`) like a cancel does.  So `Ends` may answer
`"timeout"` at any time, and `Outcome` calls that task cancelled although nobody
asked for it.  `EndsAreTrue` is about what remains: a task shown as a success ran
all its statements, and one shown as cancelled has a statement that timed out,
or one that was aborted or skipped after a stop.

`CsvImport` has its own server with a queue of statements and of answers; a
cancel request may hit a later statement or none.  Rolling back a failed import
is `Fails`, `Cancelled` is the check of the token between rows, `CommitFailed`
is the report that the outcome is not known.

### RowEdits and DataCompare

`heap` is the table as PostgreSQL keeps it: an update writes a new version at
another place, and the old one is dead when the transaction has committed.  The
space of a dead version may be used again (`Reclaim`, which counts the place's
`turn`).  Another session takes a row and commits or rolls back later; a
statement that finds the row taken waits (`Waits`), and then follows it to its
new version or finds none, depending on the release of the server.  Of a row
that the transaction has changed the other sessions wait, and are left out.

The grid's rows carry the place they were read at, and for the properties its
turn; after an update the cached row gets the new place (`Changed`), after a
delete it goes.  The place is the only condition the code gives a statement
(`transaction.rs:532-538`), so an edit may hit a row that was not shown: the space
of its row was used again, or the statement waited and followed the update of
another session.  `Undisturbed` says that neither has happened, and
`EditsHitWhatIsShown` that this is all it takes: the row still has the value that
was shown, whatever else other sessions, refetches and ended transactions did.
Refetches are asked, read and delivered at different moments, and a commit, a
rollback or a refresh cancels them (`Restarted`).  `aged` marks that the grid may be
old for a reason the program cannot see: a change of another session, a fetch
that failed, an end during the first fetch.

`DataCompare` reads the two tables at different moments, computes the script
(updates with the values that were read in their WHERE clause, inserts) and
runs it in a query tab of whichever connection is active, while another session
changes rows.

### Workspace

`tabs` and `layout` are what is shown, `tabsBy` and `layouts` what is stored per
connection, `disk` what was written.  `Activate` is the whole chain of
subscriptions of a switch: the tabs of the new connection, the layout of the
new connection, and the prune that every change of the tabs triggers.
`closing` is a close under way: `asked` while its dialog waits for an answer,
then until the navigation has ended and `finally` closes the tabs (`Closed`).

### ExtensionManager and ExtensionStore

`op` is the operation at the head of the queue with the stack of `stop` calls it
is in; `starts` are the runs of `start`, with the place each awaits.  An
activation is started by a command or an event between any two steps.  Because
JavaScript runs ready continuations before the next message or timer, actions
of the outside are guarded by `Quiet`.  Guests may never answer (`TimedOut`),
fail, or crash.

An update keeps of the grants those the new manifest declares; what the manifest
declares is chosen when it begins.  It changes the descriptor before it stores,
so a refusal takes version and grants back (`TakenBack`, with the grants of
`restore`).  `StoredIsShown` compares both and the switch exactly.  A reload
changes no version: its manifest must be that of the old code, which it does not
store.  Dependencies that an update adds are left out, `Deps` is fixed.

`ExtensionStore` has one step per file operation; `Stops` is a failure or an end of
the program at any of them.  `StoreIsAtomic` is the refinement of `AtomicStore`:
what the next start finds is the package before or after the operation.

## Runs

| Run | Question | Instance |
|---|---|---|
| `pg` | inductive invariant, safety and refinement of transactions | one session, any three commands |
| `managed` | one transaction per scope; cards, ends and effects agree | two edits and two queries on two transactions and one table, two ends; scenarios `edits`, `queries`, `mixed` |
| `managed_listed`, `managed_shared`, `managed_typed`, `managed_rejected` | violations, see below | |
| `activation` | turns, backed ports, no tunnel left | three connections, two of them with tunnels, two requests, an editor, a pane and a remover |
| `components` | the safety of pools, workspace, compare, edits, extensions, store; tasks and imports tell the truth | one small instance of each, two of the workspace |
| `liveness` | what is started ends | transactions, activations, scripts, imports |
| `extensions_fair` | no operation of the queue is stuck | two extensions, one depends on the other, which is updated |
| `dependents`, `closing` | violations, see below | |

`components` and `liveness` put several components that share nothing into one
run: a variable `part` is chosen at the start, the component of that part runs
with its own `Init`, `Next` and fairness, and the others stay as they are.  The
states are the sum of those of the components, not the product.

Bounds, and why they are enough.

* Transactions: three calls on one session are every race the code knows: one
  that gave up and whose statement is still executing, one that waits for the
  session, and one that ends the transaction.  Sessions share nothing but the
  map, and the theorems hold for any number of both.  In the front end two
  operations and two ends allow an operation in each of the places that matter
  (opening, waiting, running) while a transaction is ended and another is
  opened for the same scope.
* Activation: two requests and an editor are a queue of three; three ports let
  an old, a new and a pane's tunnel exist at once.  Scenario `edited` has an
  edit and a pane, `removed` a removal.
* Pool: three calls for two permits, four connections (two in use, one in an
  abandoned thread, one that is opened).  Shared cell: two users, three cells,
  two breaks.
* Workspace: two tabs and up to three panes with a restart (part `work`); two
  scopes with two panes without one (part `switching`).  Compare: two keys and columns, one change by others.
* Row edits: two values and three places: a row, its updated version, and one
  more; or two places, the first used again once (`MaxTurns`).  Another session writes
  the value the table did not begin with.
* Extensions: a dependency, an update to version 2, storage that may fail.  Of an
  extension three runs are referred to at a time (`MaxRuns`): there is always a
  place for the next.  Grants are none or all; in `components` and
  `extensions_fair` only the dependency is updated, in `components` only it is
  reloaded and granted something.
  Store: one extension, two archives.
* Jobs: a query and one of two scripts of two statements, of which one goes on
  after errors; one cancel, two attempts.
  Import: three rows.

Interchangeable values are symmetry sets in `pg`, `managed*` and `activation`;
runs with temporal properties under fairness use none.  Deadlock is not checked
where an instance has finitely many calls and stops when all have returned; it
is checked in the runs of `ExtensionManager` and `Workspace`.

Fairness.

* Transactions: `ClientFairness`: every await of a command completes or is
  ended by its timeout (`WF` of `Working`); tokio's mutex is fair, so a call
  that finds it free again and again gets it (`SF` of `Acquire`).  That the
  server answers is assumed only in the part `session`; row operations, reads,
  COMMIT and ROLLBACK have no timeout of their own.  In the part `silent` it
  may stop, and an executed statement still releases the session
  (`SilentSessionIsReleased`).
* Activation: a handler whose reply is there runs (`WF`), an open ends by itself
  or by the timeout of `connect` (`WF`), and a close or list that finds the lock
  free again and again gets it (`SF`).
* Jobs: the statement of a task is answered, by the server or a timeout.
  Import: the client's own steps and timeouts only, nothing of the server.
* Extensions: continuations run (`WF`), the storage answers and guests answer or
  are given up (`SF`, since other activations may come in between).

Nothing is assumed about the user, lost connections, crashes or the arrival of
cancel requests.

Four properties are restricted to what the code promises, `EditsHitWhatIsShown`
(above) and three others.
`UnsyncedAreListed` excepts the transactions whose cards a refresh of the panel
removed (`managed_listed`); it still says of every other one that it is listed,
also while refreshes go on.  `PortsAreBackedUnedited` and `NoTunnelIsLeftUnedited`
hold until an editor has begun to save or a pane to open (`Undisturbed`): beside
an activation of the same connection they can close or replace its tunnel, and
the code says nothing against it.  So the two opens that race (`ssh.rs:305`) are
in the model and no property speaks of them.  `RowErrorsAreContained` is about
what happens between SAVEPOINT and RELEASE; the columns are looked up before
(`transaction.rs:504`, 582, 666), and a lookup that fails of itself, which the
model leaves out, aborts the block.

### What the runs found

* **A rejected COMMIT is followed by autocommit** (`managed_rejected`).  When the
  server rejects a COMMIT (deferred constraint, serialization), the block is
  over, but the entry and the card stay.  The next statement in the editor uses
  the card and is committed at once, in the mode that promises to collect DML
  until a manual commit.
* **A transaction loses its card** (`managed_listed`).  `syncWithBackend` applies
  the list of ids it received to the store as it is then; a transaction begun in
  between is removed from the panel though it is open.
* **Two transactions in shared mode** (`managed_shared`).  The per-table switch
  is enabled while a transaction is being opened.
* **A typed COMMIT ends a listed transaction** (`managed_typed`).  Scripts refuse
  it, the editor does not; the rollback of the card then discards nothing.
* **A dependent outlives its dependency** (`dependents`).  An activation of the
  dependent that is past its check of the dependencies, and finishes after the
  loop of `stop` has passed it, leaves it active while its dependency is
  disabled.
* **A close reaches another connection** (`closing`).  All tabs are to be closed,
  and a dialog asks about unsaved changes of one of them.  An activation that was
  under way ends before it is answered; then `closeAllTabs` empties the list of
  the connection that is active by then, and the tabs the question was about
  stay.  `AskedSpec` restricts the run to closes that ask, and has the navigation
  end at once.

## Proofs

All theorems hold for any sets the constants stand for, under the assumptions
named in the modules: the "no ..." constants are not members of the sets they
stand beside, capacities and lengths are positive, finite where cardinalities
are used.  The modules that are instantiated by others state theirs as a
formula `Assumptions`, which the theorems have as a hypothesis and the MC
modules assert.

`PgTransactions_proofs`: type correctness, `FailedNeverCommitted`,
`RowsNeverAutocommit`, `NoOrphanTransaction`, `InterruptedOnlyRollsBack`,
`RowErrorsAreContained`; every behaviour is one of `AtomicTransactions`
(`Implements`).  The safety properties are not inductive: a state in which
a call has failed and its change is still pending satisfies all of them, and
the next COMMIT violates one.  The invariant `IInv` says why there is none:

* `LockInv`: the mutex is held by exactly the call that uses the session.
* `InterruptInv`, `SentInv`: an interrupted session is used by nobody but the
  interrupted call, the statements it gave up on, and rollbacks; a second
  statement on a session is therefore a ROLLBACK or a given-up one before it.
* `PendingInv`: every pending change was reported as done, can only be reported
  as done, or is on an interrupted session (`Accounted`).
* `CommitInv`: when COMMIT is outstanding every pending change was reported as
  done, since the mutex excludes the second case and `interrupted` the third.
* `SavepointInv`, `EndInv`: between SAVEPOINT and RELEASE the session is in a
  block, and an entry is removed only after its block is over.

`InitInv` and one lemma per action show that it is inductive; `Step` puts them
together.  `FailInv`, with lemmas of its own, says who can leave a block
aborted; `Inductive` is both, the formula that the run `pg` checks
(`InductiveHolds`).  The refinement maps the three places of a change to the variables of
the abstract specification and shows, action by action, which abstract step or
stutter each is.  `CommitsAreProbed` (no COMMIT is outstanding on an aborted
block) and `RollbacksEnd` (why a ROLLBACK fails) are what a caller relies on
beyond that, and so are `Frame`, `EndEffects`, `SessionEffects` and
`ChangeEffects`: what a step of the backend leaves alone, and what it may do to
the ends and the changes of a session (`SystemFrame`, `SystemEffects`).

`ManagedTransactions_proofs`: the composition, for any number of edits, queries,
ends, sessions and tables.  `Invariance` has the invariant of the backend and
`UInv`, that of the handlers:

* `ScopeInv`: a scope has one card or one promise of `pendingTransactions`, and
  a transaction that is being opened is used only by those who wait for it.
* `PrivateInv`: a private transaction is used and ended by its edit alone.
* `OneEndInv`, `OneSentInv`, `CardEndInv`: of the ends of a transaction all but
  one have failed, and its card stays until one succeeds.
* `CountInv`, `ClearInv`, `QuietInv`: `busy` counts the operations under way,
  an end of the panel begins when there are none, and `finalizing` keeps new
  ones away; so no operation is between its entry and its answer while an end is
  under way or after one succeeded.  `QuietInv` is about calls of the backend,
  `busy` and `finalizing` are not: it is inductive only with the others.
* `EndedInv`, `GoneInv`: exactly the transactions that were ended have lost their
  entry.

`TypeOK`, `OneTransactionPerScope` and `CardsAreBacked` follow.  The theorems
about what became of the changes (`AutocommitNeedsFailedCommit`,
`EndsTellTheTruth`, `FailuresLeaveNothing`) need `TInv`, where each change is:
an idle session is one whose transaction was ended or whose COMMIT failed
(`IdleInv`), nothing is outstanding when the server has answered an end
(`LateInv`), a change that was made is pending, committed, or discarded by an
end that says so (`KeptInv`), and a successful COMMIT leaves none behind
(`WholeInv`).  They have the hypothesis `"end" \notin Statements`, no query is a
typed COMMIT, which would end a transaction behind the panel's back
(`managed_typed`).
`OpenAreListed` proves `UnsyncedAreListed`: every open transaction has a card, is
being opened, is ended by a private edit, or is in `dropped`.  It needs
`RollbacksEnd`, since a private edit ignores the outcome of its rollback.

Of the disagreements the runs found in this component, theorems say that what
TLC shows is their only cause: without a refresh every open transaction is
listed (`ListedWithoutRefresh`), without the per-table switch shared mode is
shared (`SharedWithoutSwitch`), without a typed COMMIT a rollback discards
(`RollbacksDiscard`, from `DiscardInv`), and without that nothing autocommits
before a COMMIT has failed (`AutocommitsAreExplained`).

`BackendIsUsedAsSpecified` shows that every behaviour is one of
`PgTransactions`, so its properties and its refinement hold under the user
interface (`BackendKeepsItsPromises`).

The components that share no state are proved about as the instances that
`Components` makes of them, so that a theorem names the formula the run
`components` checks: `Shared!` is `SharedConnection`, `Files!` and `Host!` the two
of the extensions, `Work!`, `Compare!` and `Edits!` those of the views, `List!`
`Jobs`, and `Import!` `CsvImport`.  The theorem of a component has the
specification of that component alone as its hypothesis.  `Components_proofs` has
`TypesCorrect`: when each follows its specification, whatever the others do
meanwhile, all keep their types (`TypesOK`).

`Pools_proofs`: `PoolIsBounded`, `ExclusiveUse` and `FailedAreClosed`, for
every capacity.  They are inductive together with `QueueInv` (who is in the
queue waits, once) and `ConnInv` (a call has a connection from its permit to the
end of its thread, one that did not fail while it is used).  `MoveCounts` says
how a move of a call changes the number of holders.  `OneBreakIsSurvived` of
`SharedConnection` needs `RetryInv`: what a retry finds in the map after it has
removed its cell was connected after the break, so a second failure of the call
is a second break; and nothing is dead before the first (`Broken`).

`ConnectionActivation_proofs`: `PreviousIsActive`.  `QueueInv` says that only the
head of the activation queue has begun, and that it is there once; hence
nothing but the head and a removal writes `active`.  `TypeCorrect` needs that a
command on its way carries a connection and a port.  `PortsBacked` and
`NoTunnelLeft` are about the tunnels, for every number of connections, requests,
removals, editors and panes, in every state in which no editor and no pane has
begun (`Undisturbed`); since nothing makes that true again once it is false
(`OnceDisturbed`), the invariant need only be kept by the steps of the others.
`TunnelInv` says that at most one command opens or closes a tunnel at a time
(`CalmInv`), which connection it is about (`CommandInv`), and that a tunnel runs
only if its port is known, or being told (`RunningInv`, `PortInv`, `AnswerInv`).

`Jobs_proofs`, on what is said of work after it has ended:

* `Jobs`: `JobsTellTheTruth` (`TasksAreTold`), for any number of tasks, statements
  and attempts; it is `StopIsHonoured` and `EndsAreTrue`.  `Progress` says that
  exactly the statements before the current one have results, `Stopping` that
  the late statement was already on its way, `Skipping` why a statement is
  skipped, `AskedInv` that one is aborted only after a stop.
* `CsvImport`: `ImportsTellTheTruth` (`ImportsAreTold`), for every number of rows; it
  is `ReportIsTrue` and `CancelledIsNotImported`.  `Conversation` says that up to
  COMMIT the import and the server are at the same statement: it is not sent
  yet, on its way, answered as done, or answered as an error; so an answer that
  is no error is the one the import waits for, and the rows it counts are there.
  `Committing` and `Reporting` say that until COMMIT is sent, and after a report
  that nothing was imported, nothing is committed and nothing under way can
  commit (`NoCommit`).

`Views_proofs`, on what a window shows:

* `RowEdits`: `EditsHitWhatIsShown`.  Whoever holds a row (grid, fetch, editor,
  request) holds the value of the version at its place, as long as that place
  has the turn the row was read in; versions stay where they are with the value
  they have (`Kept`), new ones go to places that are free, and a place gets free
  again only with another turn, or when another session rolls back what nobody
  has seen.
  `SettledGridIsCommitted` needs `OpenInv` (only an open transaction has requests
  and versions of its own) and `Settled`, which says what of the grid, of the
  fetch under way and of the request's answer is to be the committed rows.
* `DataCompare`: `NothingIsOverwritten` and `ScriptDoesItsWork`, on whichever
  side the script runs and with whatever changes by others.  `ScriptInv`: the
  statements that remain are those of the script's keys, each once;
  `UntouchedInv`: as long as nobody else changed anything, a key has its old row
  if its statement remains and the other side's if not.  `StatementEffect` says
  that a statement changes the row of its key alone, and only if it is as it was
  read.
* `Workspace`: `SplitFitsTabs` and `SwitchKeepsLayouts`.  One lemma for each
  operation on layouts (`AddedFits`, `RemovedFits`, `SetFits`, `PrunedFits` and so
  on) shows that it makes a layout the split view can show (`Arranged`) with no
  tabs but open ones and those it had; that tabs stay distinct is `LeftRows` and
  `ReorderedRows`.  `WorkInv` has the same of every stored layout, and that the
  stores agree on the active connection, without which a layout would be pruned
  by the tabs of another (`ActivateShows`).

`Extensions_proofs`, on the store and the manager:

* `ExtensionStore`: `StoreIsAtomic`, for every set of archives.  What an operation
  checked at its beginning still holds when it writes (`Checked`), since the lock
  keeps others out, and what it renames is complete; `StoreTypeCorrect` has from
  that what each file may hold (`Filed`).  Exactly one step of each
  operation, a rename or the removal of `package.json`, changes what the next
  start finds.
* `ExtensionManager`: `DisabledIsSilent`, `StoredIsShown` and
  `ActivatedHasSession`, for every set of extensions, all dependencies among them
  (cyclic ones too) and every number of runs.  `ManagerInv`: a run under way is
  the one of the map of activations (`RunInv`); which stages an operation has
  before it (`JobInv`), and that only the last of the stops it has begun is beyond
  its dependents; what a disabled extension may still have while it is being
  stopped, by the place of that stop (`Dying`): a new activation is rejected, so
  the one that `stop` waits for is the last; what is stored at each stage
  (`IsShown`, `StageInv`).
* `ActivatedHasSession` is not inductive with these.  `stop` takes the session
  down and then marks the extension as deactivated, so it must not do so under an
  activation that has just begun.  It may begin only in a turn in which something
  is ready (`Live`) or nothing is (`Quiet`), and `HostInv` says why that is not
  the turn of a `stop` that has stopped waiting: when the activation it waited for
  succeeded, the extension shows as activated and is not activated again; when it
  failed, then because one of its dependencies was disabled, so it fails again,
  or everything that is ready fails too (`FailuresSpread`, `TopInv`).  A failure
  reaches all that depend on it because what `checkDependencies` accepted it
  accepts of the dependencies (`DependenciesChecked`).

Every invariant and every safety property of a step that a passing run checks is
stated by a theorem.  Model-checked only is what must eventually happen:
`SilentSessionIsReleased`, `EveryAnsweredCallReturns`, `EveryActivationEnds`,
`EveryJobEnds` and `EveryOperationEnds` hold because of fairness, and the prover
has neither fairness nor `ENABLED`.  The six properties that fail are refuted by
TLC's counterexamples.

## Not modelled

* Oracle and generic transactions, whose drivers' behaviour after a dropped
  future the source does not show; scripts of several statements in one
  execute; a restart of the backend under persisted cards.
* The forwarder of a tunnel, the password prompt and the start-up of secrets.
* The cancel registry of table exports, exports themselves, server output
  sessions (buffers of messages), child processes of extensions.
* `setConfiguration` and the messages between host and guest; two windows on one
  storage, a full storage, the contents of tabs.
* Inserting rows, setting columns to NULL and the keys of other databases in the
  grid; refusals of `planDataCompare`, and dialects that compare NULL in another
  way.
* Adapters (text of queries, conversion of results), scanners of SQL text, the
  MCP server, views, preferences and packaging: pure functions, single store
  updates, or presentation.  They are most of the repository's lines, and no
  order of events matters in them.

## What is left of the plan

1. A restart in `ManagedTransactions`; generic transactions.
2. Server output sessions and the cancel registry of exports, once the code says
   what they promise.
