------------------------------ MODULE CsvImport ------------------------------
(***************************************************************************)
(* csv_import of src-tauri/src/db/postgres.rs: all rows in one transaction *)
(* of a connection of its own, each statement run by postgres of           *)
(* execution.rs, which asks the server to cancel it when the user cancels  *)
(* or the query timeout passes, and gives up when no answer follows.  A    *)
(* cancel request goes its own way and may hit a later statement or none.  *)
(***************************************************************************)
EXTENDS Naturals, Sequences

CONSTANTS Rows           \* how many rows the file has

\* What an instance has to provide.
Assumptions ==
  /\ Rows \in Nat \ {0}

VARIABLES
  pc,        \* the statement the import is at, or "over"
  row,       \* of an insert
  wait,      \* for the statement's answer
  token,     \* the user has cancelled
  tokenInTime, \* history: before COMMIT was sent
  queue,     \* statements the server has not answered, in order
  answers,   \* its answers on their way to the client
  requests,  \* cancel requests on their way to the server
  tx,        \* the state of the transaction
  inserted,  \* its rows
  linked,    \* the connection is there
  report     \* what the import has told

vars == <<pc, row, wait, token, tokenInTime, queue, answers, requests,
          tx, inserted, linked, report>>
server == <<queue, answers, requests, tx, inserted>>

TypeOK ==
  /\ pc \in {"BEGIN", "INSERT", "COMMIT", "ROLLBACK", "over"}
  /\ row \in 1..Rows
  /\ wait \in {"none", "answer", "cancelled"}
  /\ token \in BOOLEAN /\ tokenInTime \in BOOLEAN /\ linked \in BOOLEAN
  /\ queue \in Seq({"BEGIN", "INSERT", "COMMIT", "ROLLBACK"})
  /\ answers \in Seq({"done", "error"})
  /\ requests \in Nat
  /\ tx \in {"none", "open", "failed", "committed"} /\ inserted \in 0..Rows
  /\ report \in {"none", "failed", "unconfirmed", "rolled back", "imported"}

\* The columns are checked and the statement is prepared.
Init ==
  /\ pc = "BEGIN" /\ row = 1 /\ wait = "none"
  /\ token = FALSE /\ tokenInTime = FALSE
  /\ queue = <<>> /\ answers = <<>> /\ requests = 0
  /\ tx = "none" /\ inserted = 0 /\ linked = TRUE
  /\ report = "none"

Cancel ==
  /\ ~token /\ pc # "over"
  /\ token' = TRUE
  /\ tokenInTime' = (pc # "COMMIT" \/ wait = "none")
  /\ UNCHANGED <<pc, row, wait, server, linked, report>>

\* The import ends and its connection is dropped: what was sent is still run.
Over(told) == pc' = "over" /\ report' = told /\ wait' = "none" /\ UNCHANGED row

\* Mutant of CommitFailed: a COMMIT without an answer counts as rolled back.
CommitFailedSurely == Over("rolled back")

CommitFailed == Over("unconfirmed")

\* A statement ended in Err.
Fails ==
  \/ pc = "BEGIN" /\ Over("failed")
  \/ pc = "INSERT" /\ pc' = "ROLLBACK" /\ wait' = "none" /\ UNCHANGED <<row, report>>
  \/ pc = "COMMIT" /\ CommitFailed
  \/ pc = "ROLLBACK" /\ Over("unconfirmed")

Cancelled == token

\* postgres: a cancelled statement is not sent, and neither is COMMIT.
Refuse ==
  /\ wait = "none" /\ pc # "over"
  /\ (Cancelled /\ pc # "ROLLBACK") \/ ~linked
  /\ IF pc = "COMMIT" /\ Cancelled
     THEN pc' = "ROLLBACK" /\ UNCHANGED <<row, wait, report>>
     ELSE Fails
  /\ UNCHANGED <<token, tokenInTime, server, linked>>

Send ==
  /\ wait = "none" /\ linked
  /\ \/ pc = "ROLLBACK"
     \/ pc \in {"BEGIN", "INSERT", "COMMIT"} /\ ~Cancelled
  /\ queue' = Append(queue, pc)
  /\ wait' = "answer"
  /\ UNCHANGED <<pc, row, token, tokenInTime, answers, requests, tx, inserted, linked, report>>

\* The answer to the statement, after the answers to those given up.
Receive ==
  /\ wait # "none"
  /\ linked /\ queue = <<>> /\ answers # <<>>
  /\ answers' = <<>>
  /\ IF answers[Len(answers)] = "error" THEN Fails
     ELSE \/ pc = "BEGIN" /\ pc' = "INSERT" /\ wait' = "none" /\ UNCHANGED <<row, report>>
          \/ /\ pc = "INSERT" /\ wait' = "none" /\ UNCHANGED report
             /\ IF row = Rows THEN pc' = "COMMIT" /\ UNCHANGED row
                              ELSE row' = row + 1 /\ UNCHANGED pc
          \/ pc = "COMMIT" /\ Over("imported")
          \/ pc = "ROLLBACK" /\ Over("rolled back")
  /\ UNCHANGED <<token, tokenInTime, queue, requests, tx, inserted, linked>>

\* The user's cancel or the query timeout: the server is asked to cancel.
Interrupt ==
  /\ wait = "answer" /\ pc # "ROLLBACK"
  /\ wait' = "cancelled"
  /\ requests' = requests + 1
  /\ UNCHANGED <<pc, row, token, tokenInTime, queue, answers, tx, inserted, linked, report>>

\* Mutant of Impatient: a statement is waited for however long it takes.
ImpatientNever == FALSE

Impatient == wait = "cancelled" \/ (wait = "answer" /\ pc = "ROLLBACK")

\* No answer in time, after a cancel request or to a rollback.
GiveUp ==
  /\ Impatient
  /\ Fails
  /\ UNCHANGED <<token, tokenInTime, server, linked>>

\* The connection is lost while a statement waits.
Disconnected ==
  /\ wait # "none" /\ ~linked
  /\ Fails
  /\ UNCHANGED <<token, tokenInTime, server, linked>>

\* The server runs the next statement; one that fails fails the transaction, a
\* COMMIT that is rejected ends it.
Execute ==
  /\ queue # <<>>
  /\ queue' = Tail(queue)
  /\ \/ /\ Head(queue) = "BEGIN" /\ tx' = "open"
        /\ answers' = Append(answers, "done") /\ UNCHANGED inserted
     \/ /\ Head(queue) = "INSERT"
        /\ \/ /\ tx = "open" /\ inserted' = inserted + 1
              /\ answers' = Append(answers, "done") /\ UNCHANGED tx
           \/ tx' = "failed" /\ answers' = Append(answers, "error") /\ UNCHANGED inserted
     \/ /\ Head(queue) = "COMMIT"
        /\ \/ tx = "open" /\ tx' = "committed" /\ answers' = Append(answers, "done")
           \/ tx = "open" /\ tx' = "none" /\ answers' = Append(answers, "error")
           \/ tx = "failed" /\ tx' = "none" /\ answers' = Append(answers, "done")
        /\ UNCHANGED inserted
     \/ /\ Head(queue) = "ROLLBACK" /\ tx' = "none"
        /\ answers' = Append(answers, "done") /\ UNCHANGED inserted
  /\ UNCHANGED <<pc, row, wait, token, tokenInTime, requests, linked, report>>

\* A cancel request arrives: it stops the statement that runs, if there is one.
RequestArrives ==
  /\ requests > 0
  /\ requests' = requests - 1
  /\ \/ UNCHANGED <<queue, answers, tx>>
     \/ /\ queue # <<>>
        /\ queue' = Tail(queue)
        /\ answers' = Append(answers, "error")
        /\ tx' = IF Head(queue) = "COMMIT" THEN "none"
                 ELSE IF tx = "none" THEN tx ELSE "failed"
  /\ UNCHANGED <<pc, row, wait, token, tokenInTime, inserted, linked, report>>

\* The connection is lost, or the client dropped it and all it sent was run.
Unlink ==
  /\ linked
  /\ pc = "over" => queue = <<>>
  /\ linked' = FALSE
  /\ queue' = <<>> /\ answers' = <<>>
  /\ tx' = IF tx = "committed" THEN tx ELSE "none"
  /\ UNCHANGED <<pc, row, wait, token, tokenInTime, requests, inserted, report>>

Client == Refuse \/ Send \/ Receive \/ Interrupt \/ GiveUp \/ Disconnected

Next == Cancel \/ Client \/ Execute \/ RequestArrives \/ Unlink

Spec == Init /\ [][Next]_vars

\* The timers of the client fire; nothing is assumed of the server.
FairSpec == Spec /\ WF_vars(Client)

-----------------------------------------------------------------------------
(* Properties *)

\* What the import reports is true (csv_import): imported rows are all there,
\* and after a rollback it says is complete none is and none can come.
ReportIsTrue ==
  /\ report = "imported" => tx = "committed"
  /\ report = "imported" => inserted = Rows
  /\ report \in {"rolled back", "failed"} =>
       tx # "committed" /\ "COMMIT" \notin {queue[i] : i \in DOMAIN queue}

\* A cancel that was asked for before COMMIT was sent prevents it, whatever the
\* statement under way at that time answers.
CancelledIsNotImported == tokenInTime => tx # "committed"

\* An import ends, also with a server that does not answer.
ImportEnds == <>(pc = "over")
=============================================================================
