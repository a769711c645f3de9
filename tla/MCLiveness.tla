----------------------------- MODULE MCLiveness -----------------------------
(***************************************************************************)
(* What must eventually happen: one instance for TLC of each component     *)
(* whose liveness is checked.  A behaviour runs one of them, the part; the *)
(* others stay where they begin.  The fairness of a part is that of its    *)
(* own specification.                                                      *)
(***************************************************************************)
EXTENDS PgTransactions, TLC

CONSTANTS
  Clicks, Editors, Tunneled, Configs, Ports, None,  \* ConnectionActivation
  Query, Script, Cancels                              \* Jobs

VARIABLES
  part,
  saved, tunnelPort, active, openTx, line, stage, goal, next, previous, hadTunnel,
  touched, tunnels, running, lock, state, id, config, port, raced,
  status, stopped, at, call, current, token, results, cancel, late,
  step, row, wait, aborted, tokenInTime, queue, answers, requests, tx, inserted,
  linked, report

activationVars == <<saved, tunnelPort, active, openTx, line, stage, goal, next, previous,
                    hadTunnel, touched, tunnels, running, lock, state, id, config, port, raced>>
jobVars == <<status, stopped, at, call, current, token, results, cancel, late>>
importVars == <<step, row, wait, aborted, tokenInTime, queue, answers, requests, tx, inserted,
                linked, report>>
allVars == <<part, vars, activationVars, jobVars, importVars>>

Activation == INSTANCE ConnectionActivation WITH
                Requests <- Clicks, Panes <- {}, Removers <- {}, Ids <- Tunneled, Ssh <- Tunneled,
                queue <- line, pc <- stage, target <- goal
Tasks == INSTANCE Jobs WITH
           Tasks <- {Query, Script}, Scripts <- {Script}, Lenient <- {}, Supported <- {Query, Script},
           NoTask <- None, Length <- 2, MaxAttempts <- 2, stmt <- at
Import == INSTANCE CsvImport WITH Rows <- 3, pc <- step, token <- aborted

ASSUME Tasks!Assumptions /\ Import!Assumptions

\* "session": the server answers; "silent": it may stop to.
Parts == {"session", "silent", "activation", "tasks", "import"}

AllInit ==
  /\ part \in Parts
  /\ Init
  /\ Activation!Init
  /\ part = "activation" \/ (active = None /\ \A i \in Tunneled : saved[i] = CHOOSE x \in Configs : TRUE)
  /\ Tasks!Init
  /\ Import!Init

AllNext ==
  /\ UNCHANGED part
  /\ \/ /\ part \in {"session", "silent"} /\ Next
        /\ UNCHANGED <<activationVars, jobVars, importVars>>
     \/ /\ part = "activation" /\ Activation!Next
        /\ UNCHANGED <<vars, jobVars, importVars>>
     \/ /\ part = "tasks" /\ Tasks!Next
        /\ UNCHANGED <<vars, activationVars, importVars>>
     \/ /\ part = "import" /\ Import!Next
        /\ UNCHANGED <<vars, activationVars, jobVars>>

Fairness ==
  /\ \A i \in Tx : WF_vars(part \in {"session", "silent"} /\ Opening(i))
  /\ \A c \in Calls :
       /\ WF_vars(part \in {"session", "silent"} /\ Working(c))
       /\ SF_vars(part \in {"session", "silent"} /\ Acquire(c))
       /\ WF_vars(part = "session" /\ Serving(c))
  /\ \A a \in Clicks \cup Editors :
       /\ WF_activationVars(part = "activation" /\ Activation!Handler(a))
       /\ WF_activationVars(part = "activation" /\ Activation!Opens(a))
       /\ SF_activationVars(part = "activation" /\ Activation!Answers(a))
  /\ \A t \in {Query, Script} : WF_jobVars(part = "tasks" /\ Tasks!Proceeds(t))
  /\ WF_importVars(part = "import" /\ Import!Client)

AllSpec == AllInit /\ [][AllNext]_allVars /\ Fairness

\* The calls are alike, and so are the activations: one of them is watched.
Call == CHOOSE c \in Calls : TRUE
Click == CHOOSE c \in Clicks : TRUE

\* A statement is no longer waited for when its timeouts have passed, although
\* the server is silent (execution::postgres).
SilentSessionIsReleased ==
  part = "silent" /\ pc[Call] = "exec" ~> \A i \in Tx : holder[i] # Call

\* With a server that answers every command returns (TransactionManager).
EveryAnsweredCallReturns ==
  part = "session" /\ pc[Call] = "entry" ~> pc[Call] = "done"

\* Every activation ends, and those queued behind it (activateConnection).
EveryActivationEnds == stage[Click] = "queued" ~> stage[Click] \in {"ok", "err"}

\* A script and an import end (finishTask, csv_import).
EveryJobEnds ==
  part = "import" \/ status[Script] \in Tasks!Active
    ~> step = "over" \/ status[Script] \in Tasks!Finished
=============================================================================
