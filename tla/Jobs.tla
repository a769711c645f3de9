-------------------------------- MODULE Jobs --------------------------------
(***************************************************************************)
(* Tasks, scripts and their cancellation: the task list of src/lib/tasks.ts,*)
(* the statements of a query editor (invoke of db.ts) or of a script       *)
(* (runScript of script-runner.ts), and the registry of running jobs in    *)
(* src-tauri/src/db/execution.rs.  Each statement is a job of its own; a   *)
(* cancel looks the job up, again and again if it is not there.            *)
(***************************************************************************)
EXTENDS Naturals, FiniteSets

CONSTANTS Tasks,
          Scripts,       \* the tasks that are scripts
          Lenient,       \* the scripts in autocommit that go on after an error
          Supported,     \* the tasks on a connection that can cancel a query:
                         \* PostgreSQL or SQLite
          Cancels,       \* calls of cancelTask
          NoTask,
          Length,        \* statements of a script
          MaxAttempts    \* 5 in the code

\* What an instance has to provide.
Assumptions ==
  /\ Scripts \subseteq Tasks /\ Lenient \subseteq Scripts /\ Supported \subseteq Tasks
  /\ Length \in Nat \ {0}
  /\ MaxAttempts \in Nat \ {0}

VARIABLES
  status,    \* of the task list
  stopped,   \* the script's own flag; of a query, history: a cancel was asked for
  stmt,      \* the statement a task is at
  call,      \* where its execution stands
  current,   \* the job the script would cancel, 0 for none
  token,     \* the jobs whose cancellation token is set
  results,   \* of the statements
  cancel,    \* the calls of cancelTask: [t, job, attempt, at]
  late       \* history: statements that began at the server after the stop

vars == <<status, stopped, stmt, call, current, token, results, cancel, late>>

Active == {"running", "cancelling"}
Finished == {"success", "error", "cancelled", "interrupted"}
\* What becomes of a statement: "aborted" by a cancel or by the "timeout" the
\* server confirmed, whose errors both say "vom Server abgebrochen"; any other
\* failure is an "error".
Interrupted == {"aborted", "timeout"}
Failures == {"error"} \cup Interrupted
Answers == {"success"} \cup Failures

N(t) == IF t \in Scripts THEN Length ELSE 1
NoCancel == [t |-> NoTask, job |-> 0, attempt |-> 0, at |-> "out"]

TypeOK ==
  /\ status \in [Tasks -> Active \cup Finished \cup {"none"}]
  /\ stopped \in [Tasks -> BOOLEAN]
  /\ stmt \in [Tasks -> 1..Length + 1]
  /\ call \in [Tasks -> {"idle", "preparing", "sent", "running", "answered"}]
  /\ current \in [Tasks -> 0..Length]
  /\ token \subseteq Tasks \X (1..Length)
  /\ results \in [Tasks -> [1..Length -> Answers \cup {"none", "skipped"}]]
  /\ \A k \in Cancels : cancel[k].at \in {"out", "sent", "hit", "missed"}
                        /\ cancel[k].attempt \in 0..MaxAttempts
  /\ late \in [Tasks -> 0..Length]

Init ==
  /\ status = [t \in Tasks |-> "none"]
  /\ stopped = [t \in Tasks |-> FALSE]
  /\ stmt = [t \in Tasks |-> 1]
  /\ call = [t \in Tasks |-> "idle"]
  /\ current = [t \in Tasks |-> 0]
  /\ token = {}
  /\ results = [t \in Tasks |-> [i \in 1..Length |-> "none"]]
  /\ cancel = [k \in Cancels |-> NoCancel]
  /\ late = [t \in Tasks |-> 0]

Is(t, place) == call' = [call EXCEPT ![t] = place]
Failed(t) == \E i \in 1..Length : results[t][i] \in Failures

\* The task of a script is started before its first statement, the task of a
\* query when its job has got its id.
startTask(t) ==
  /\ status[t] = "none"
  /\ status' = [status EXCEPT ![t] = "running"]
  /\ IF t \in Scripts
     THEN UNCHANGED <<call, current>>
     ELSE Is(t, "sent") /\ current' = [current EXCEPT ![t] = 1]
  /\ UNCHANGED <<stopped, stmt, token, results, cancel, late>>

\* Mutant of Skips: the loop goes on after a stop.
SkipsFailedOnly(t) == Failed(t) /\ t \notin Lenient

Skips(t) == stopped[t] \/ (Failed(t) /\ t \notin Lenient)

\* One turn of the script's loop, up to the awaits before the job has its id.
Step(t) ==
  /\ t \in Scripts /\ status[t] \in Active /\ call[t] = "idle" /\ stmt[t] <= N(t)
  /\ IF Skips(t)
     THEN /\ results' = [results EXCEPT ![t][stmt[t]] = "skipped"]
          /\ stmt' = [stmt EXCEPT ![t] = @ + 1]
          /\ UNCHANGED call
     ELSE Is(t, "preparing") /\ UNCHANGED <<results, stmt>>
  /\ UNCHANGED <<status, stopped, current, token, cancel, late>>

onJob(t) ==
  /\ call[t] = "preparing"
  /\ Is(t, "sent")
  /\ current' = [current EXCEPT ![t] = stmt[t]]
  /\ UNCHANGED <<status, stopped, stmt, token, results, cancel, late>>

\* run: the job is in the registry while its future lives.
Register(t) ==
  /\ call[t] = "sent"
  /\ Is(t, "running")
  /\ late' = [late EXCEPT ![t] = IF stopped[t] THEN @ + 1 ELSE @]
  /\ UNCHANGED <<status, stopped, stmt, current, token, results, cancel>>

\* The statement ends; one that was cancelled may still have succeeded.  A driver
\* that cannot cancel ends a timeout with another error (timeout_message).
Possible(t) ==
  {"success", "error"}
    \cup (IF <<t, stmt[t]>> \in token THEN {"aborted"} ELSE {})
    \cup (IF t \in Supported THEN {"timeout"} ELSE {})

Ends(t) ==
  /\ call[t] = "running"
  /\ Is(t, "answered")
  /\ \E r \in Possible(t) : results' = [results EXCEPT ![t][stmt[t]] = r]
  /\ UNCHANGED <<status, stopped, stmt, current, token, cancel, late>>

Answer(t) ==
  /\ call[t] = "answered"
  /\ Is(t, "idle")
  /\ stmt' = [stmt EXCEPT ![t] = @ + 1]
  /\ current' = [current EXCEPT ![t] = 0]
  /\ UNCHANGED <<status, stopped, token, results, cancel, late>>

Results(t) == {results[t][i] : i \in 1..N(t)}

\* The error of a script is that of the last statement that failed.
EndsInterrupted(t) ==
  \E i \in 1..N(t) :
    results[t][i] \in Interrupted /\ \A j \in i + 1..N(t) : results[t][j] \notin Failures

\* finishTask takes the status from the text of the error.
Outcome(t) ==
  IF EndsInterrupted(t) THEN "cancelled"
  ELSE IF Results(t) \cap Failures # {} THEN "error"
  ELSE IF "skipped" \in Results(t) THEN "cancelled" ELSE "success"

Complete(t) == stmt[t] > N(t)

finishTask(t) ==
  /\ status[t] \in Active /\ call[t] = "idle" /\ Complete(t)
  /\ status' = [status EXCEPT ![t] = Outcome(t)]
  /\ UNCHANGED <<stopped, stmt, call, current, token, results, cancel, late>>

\* A script whose statement has no job yet, or whose driver cannot cancel, only
\* notes the stop; a query that cannot be cancelled has no cancel at all.
cancelTask(k, t) ==
  /\ cancel[k] = NoCancel
  /\ status[t] \in Active /\ t \in Scripts \cup Supported
  /\ status' = [status EXCEPT ![t] = "cancelling"]
  /\ stopped' = [stopped EXCEPT ![t] = TRUE]
  /\ cancel' = IF current[t] # 0 /\ t \in Supported
               THEN [cancel EXCEPT ![k] = [t |-> t, job |-> current[t], attempt |-> 1, at |-> "sent"]]
               ELSE cancel
  /\ UNCHANGED <<stmt, call, current, token, results, late>>

Registered(t, job) == call[t] = "running" /\ stmt[t] = job

\* cancel of execution.rs.
Arrives(k) ==
  /\ cancel[k].at = "sent"
  /\ LET t == cancel[k].t job == cancel[k].job IN
     /\ cancel' = [cancel EXCEPT ![k].at = IF Registered(t, job) THEN "hit" ELSE "missed"]
     /\ token' = token \cup IF Registered(t, job) THEN {<<t, job>>} ELSE {}
  /\ UNCHANGED <<status, stopped, stmt, call, current, results, late>>

Revived(t) == status[t] \in Active

\* cancelExecution and the end of cancelTask.
Answered(k) ==
  LET t == cancel[k].t IN
  /\ \/ /\ cancel[k].at = "hit"
        /\ cancel' = [cancel EXCEPT ![k] = NoCancel]
        /\ UNCHANGED status
     \/ /\ cancel[k].at = "missed" /\ cancel[k].attempt < MaxAttempts
        /\ cancel' = [cancel EXCEPT ![k].at = "sent", ![k].attempt = @ + 1]
        /\ UNCHANGED status
     \/ /\ cancel[k].at = "missed" /\ cancel[k].attempt = MaxAttempts
        /\ cancel' = [cancel EXCEPT ![k] = NoCancel]
        /\ status' = [status EXCEPT ![t] = IF Revived(t) THEN "running" ELSE @]
  /\ UNCHANGED <<stopped, stmt, call, current, token, results, late>>

\* The program is closed and started again: the stored list is merged.
Restart ==
  /\ status' = [t \in Tasks |-> IF status[t] \in Active THEN "interrupted" ELSE status[t]]
  /\ call' = [t \in Tasks |-> "idle"]
  /\ current' = [t \in Tasks |-> 0]
  /\ token' = {}
  /\ cancel' = [k \in Cancels |-> NoCancel]
  /\ UNCHANGED <<stopped, stmt, results, late>>

Proceeds(t) == Step(t) \/ onJob(t) \/ Register(t) \/ Ends(t) \/ Answer(t) \/ finishTask(t)

Next ==
  \/ \E t \in Tasks : startTask(t) \/ Proceeds(t) \/ \E k \in Cancels : cancelTask(k, t)
  \/ \E k \in Cancels : Arrives(k) \/ Answered(k)
  \/ Restart

Spec == Init /\ [][Next]_vars

\* The statements of a task are answered, by the server or by a timeout.
FairSpec == Spec /\ \A t \in Tasks : WF_vars(Proceeds(t))

-----------------------------------------------------------------------------
(* Properties *)

\* After a stop at most one more statement of a script reaches the server: the
\* one that was on its way and could not be cancelled yet (script-runner.ts).
StopIsHonoured == \A t \in Tasks : late[t] <= 1

\* What the list says of a task that ended is true (finishTask): a success ran
\* every statement; of a cancelled task the server took back a statement at a
\* timeout, or a stop was asked for and left a statement undone.
EndsAreTrue ==
  \A t \in Tasks :
    /\ status[t] = "success" => \A i \in 1..N(t) : results[t][i] = "success"
    /\ status[t] = "cancelled" =>
         \E i \in 1..N(t) :
           results[t][i] = "timeout" \/ (stopped[t] /\ results[t][i] \in {"aborted", "skipped"})

\* A task ends, whatever its cancels meet (tasks.ts, script-runner.ts).
EveryTaskEnds == \A t \in Tasks : status[t] \in Active ~> status[t] \in Finished
=============================================================================
