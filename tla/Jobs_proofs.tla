----------------------------- MODULE Jobs_proofs -----------------------------
(***************************************************************************)
(* Proofs about what runs for long: about Jobs, for every number of tasks, *)
(* statements and cancels, what is run of a stopped script and what the    *)
(* task list says at the end; about CsvImport, for every number of rows,   *)
(* that what an import reports is true and a cancel in time prevents it.   *)
(***************************************************************************)
EXTENDS Components, SequenceTheorems, TLAPS

Open == List!Active \cup {"none"}

TaskTypes ==
  /\ status \in [Tasks -> Open \cup List!Finished]
  /\ stopped \in [Tasks -> BOOLEAN]
  /\ stmt \in [Tasks -> Nat \ {0}]
  /\ call \in [Tasks -> {"idle", "preparing", "sent", "running", "answered"}]
  /\ results \in [Tasks -> [1..Length -> {"none", "success", "error", "aborted", "timeout", "skipped"}]]
  /\ late \in [Tasks -> Nat]

\* Nothing is executed of a task that is not active; the statements before the
\* one a task is at have a result, and those after it have none.
Progress(t) ==
  /\ stmt[t] <= List!N(t) + 1
  /\ status[t] = "none" => stmt[t] = 1
  /\ call[t] # "idle" => status[t] \in List!Active /\ stmt[t] <= List!N(t)
  /\ \A i \in 1..Length :
       /\ i < stmt[t] => results[t][i] # "none"
       /\ call[t] = "answered" /\ i = stmt[t] => results[t][i] \in List!Answers
       /\ status[t] \in Open /\ (i > stmt[t] \/ (i = stmt[t] /\ call[t] # "answered")) =>
            results[t][i] = "none"

\* The statement that was on its way at the stop is the last one.
Stopping(t) ==
  /\ status[t] = "none" => ~stopped[t]
  /\ late[t] <= 1
  /\ late[t] = 1 => stopped[t] /\ call[t] \notin {"preparing", "sent"}

\* A statement is skipped after a stop or a failure.
Skipping(t) ==
  \A i \in 1..Length :
    results[t][i] = "skipped" => t \in Scripts /\ (stopped[t] \/ List!Failed(t))

\* What a task that is over says is true.
Ended(t) ==
  /\ status[t] = "success" => \A i \in 1..List!N(t) : results[t][i] = "success"
  /\ status[t] = "cancelled" =>
       \E i \in 1..List!N(t) :
         results[t][i] \in List!Interrupted \/ (results[t][i] = "skipped" /\ stopped[t])

TasksInv ==
  /\ TaskTypes
  /\ \A t \in Tasks : Progress(t) /\ Stopping(t) /\ Skipping(t) /\ Ended(t)

LEMMA TasksInit == List!Assumptions /\ List!Init => TasksInv
  BY DEF List!Assumptions, List!Init, TasksInv, TaskTypes, Open, List!Active, List!Finished,
     Progress,
         Stopping, Skipping, Ended, List!N

-----------------------------------------------------------------------------
(* The actions.  Each changes one task; of the others nothing changes. *)

\* The part of the state that the invariant says of a task.
Same(t) ==
  /\ status'[t] = status[t] /\ stopped'[t] = stopped[t] /\ stmt'[t] = stmt[t]
  /\ call'[t] = call[t] /\ results'[t] = results[t] /\ late'[t] = late[t]

Good(t) == Progress(t) /\ Stopping(t) /\ Skipping(t) /\ Ended(t)

LEMMA OthersKept ==
  ASSUME NEW t \in Tasks, Good(t), Same(t)
  PROVE  Good(t)'
  BY DEF Good, Same, Progress, Stopping, Skipping, Ended, List!Failed

LEMMA OutcomeMeans ==
  ASSUME NEW t \in Tasks
  PROVE  /\ List!Outcome(t) \in {"success", "error", "cancelled"}
         /\ List!Outcome(t) = "success" =>
              \A i \in 1..List!N(t) : results[t][i] \notin List!Failures \cup {"skipped"}
         /\ List!Outcome(t) = "cancelled" =>
              \/ \E i \in 1..List!N(t) : results[t][i] \in List!Interrupted
              \/ /\ \E i \in 1..List!N(t) : results[t][i] = "skipped"
                 /\ \A i \in 1..List!N(t) : results[t][i] \notin List!Failures
<1>1. \A i \in 1..List!N(t) : results[t][i] \in List!Results(t)
  BY DEF List!Results
<1>2. ASSUME List!Outcome(t) = "success"
      PROVE  \A i \in 1..List!N(t) : results[t][i] \notin List!Failures \cup {"skipped"}
  BY <1>1, <1>2 DEF List!Outcome
<1>3. ASSUME List!Outcome(t) = "cancelled", ~List!EndsInterrupted(t)
      PROVE  /\ \E i \in 1..List!N(t) : results[t][i] = "skipped"
             /\ \A i \in 1..List!N(t) : results[t][i] \notin List!Failures
  BY <1>1, <1>3 DEF List!Outcome, List!Results
<1>4. List!EndsInterrupted(t) => \E i \in 1..List!N(t) : results[t][i] \in List!Interrupted
  BY DEF List!EndsInterrupted
<1> QED
  BY <1>2, <1>3, <1>4 DEF List!Outcome

LEMMA StepsOfATask ==
  ASSUME List!Assumptions, TasksInv, NEW t \in Tasks, List!startTask(t) \/ List!Proceeds(t)
  PROVE  TasksInv'
<1>1. /\ \A u \in Tasks \ {t} : Same(u)
      /\ Good(t)
      /\ List!N(t) \in 1..Length
  BY DEF TasksInv, TaskTypes, Good, List!N, List!Assumptions, List!Proceeds, List!startTask,
     List!Step,
         List!onJob, List!Register, List!Ends, List!Answer, List!finishTask, List!Is, Same
<1> USE DEF TasksInv, TaskTypes, List!Is, Good, Open, List!Active, List!Finished
<1>2. Length \in Nat
  BY DEF List!Assumptions
<1>3. CASE List!startTask(t)
  <2>1. TaskTypes'
    BY <1>3 DEF List!startTask
  <2>2. Good(t)'
    BY <1>1, <1>2, <1>3 DEF List!startTask, Progress, Stopping, Skipping, Ended, List!Failed
  <2> QED
    BY <1>1, <2>1, <2>2, OthersKept
<1>4. CASE List!Step(t)
  <2>1. stmt[t] \in 1..Length
    BY <1>1, <1>2, <1>4 DEF List!Step
  <2>2. CASE List!Skips(t)
    <3>1. TaskTypes'
      <4>1. /\ results' = [results EXCEPT ![t] = [results[t] EXCEPT ![stmt[t]] = "skipped"]]
            /\ stmt' = [stmt EXCEPT ![t] = stmt[t] + 1]
            /\ UNCHANGED <<status, stopped, call, late>>
        BY <2>2, <1>4 DEF List!Step
      <4> QED
        BY <2>1, <4>1
    <3>2. Stopping(t)' /\ Ended(t)'
      BY <2>1, <2>2, <1>1, <1>2, <1>4 DEF List!Step, Stopping, Ended
    <3>3. Progress(t)'
      <4>1. /\ results'[t] = [results[t] EXCEPT ![stmt[t]] = "skipped"] /\ stmt'[t] = stmt[t] + 1
            /\ status[t] \in List!Active /\ call[t] = "idle" /\ stmt[t] <= List!N(t)
            /\ UNCHANGED <<status, call>>
        BY <2>2, <1>4 DEF List!Step
      <4>2. \A i \in 1..Length :
              results'[t][i] = IF i = stmt[t] THEN "skipped" ELSE results[t][i]
        BY <2>1, <4>1
      <4> QED
        BY <2>1, <4>1, <4>2, <1>1, <1>2 DEF Progress
    <3>4. Skipping(t)'
      <4>1. /\ results' = [results EXCEPT ![t] = [results[t] EXCEPT ![stmt[t]] = "skipped"]]
            /\ call[t] = "idle" /\ status[t] \in List!Active /\ t \in Scripts
            /\ UNCHANGED <<status, stopped, call>>
        BY <2>2, <1>4 DEF List!Step
      <4>2. \A i \in 1..Length :
              results'[t][i] = IF i = stmt[t] THEN "skipped" ELSE results[t][i]
        BY <2>1, <4>1
      <4>3. results[t][stmt[t]] = "none"
        BY <2>1, <4>1, <1>1 DEF Progress
      <4>4. List!Failed(t) => List!Failed(t)'
        BY <4>2, <4>3 DEF List!Failed, List!Failures, List!Interrupted
      <4> QED
        BY <2>2, <4>1, <4>2, <4>4, <1>1 DEF List!Skips, Skipping
    <3> QED
      BY <1>1, <3>1, <3>2, <3>3, <3>4, OthersKept
  <2>3. CASE ~List!Skips(t)
    <3>1. TaskTypes'
      BY <2>3, <1>4 DEF List!Step
    <3>2. Good(t)'
      BY <2>3, <1>1, <1>2, <1>4
         DEF List!Step, List!Skips, Progress, Stopping, Skipping, Ended, List!Failed
    <3> QED
      BY <1>1, <3>1, <3>2, OthersKept
  <2> QED
    BY <2>2, <2>3
<1>5. CASE List!onJob(t)
  <2>1. TaskTypes'
    BY <1>5 DEF List!onJob
  <2>2. Good(t)'
    BY <1>1, <1>2, <1>5 DEF List!onJob, Progress, Stopping, Skipping, Ended, List!Failed
  <2> QED
    BY <1>1, <2>1, <2>2, OthersKept
<1>6. CASE List!Register(t)
  <2>1. TaskTypes'
    BY <1>6 DEF List!Register
  <2>2. Good(t)'
    BY <1>1, <1>2, <1>6 DEF List!Register, Progress, Stopping, Skipping, Ended, List!Failed
  <2> QED
    BY <1>1, <2>1, <2>2, OthersKept
<1>7. CASE List!Ends(t)
  <2>1. PICK r \in {"success", "error", "aborted", "timeout"} :
          results' = [results EXCEPT ![t][stmt[t]] = r]
    BY <1>7 DEF List!Ends, List!Possible
  <2>6. r \in List!Answers /\ r # "none" /\ r # "skipped"
    BY DEF List!Answers, List!Failures, List!Interrupted
  <2>2. TaskTypes'
    BY <1>1, <1>2, <1>7, <2>1 DEF List!Ends
  <2>3. Progress(t)'
    BY <1>1, <1>2, <1>7, <2>1, <2>6 DEF List!Ends, Progress
  <2>4. Stopping(t)' /\ Ended(t)'
    BY <1>1, <1>2, <1>7, <2>1 DEF List!Ends, Progress, Stopping, Ended
  <2>5. Skipping(t)'
    <3>1. /\ results' = [results EXCEPT ![t] = [results[t] EXCEPT ![stmt[t]] = r]]
          /\ call[t] = "running" /\ UNCHANGED stopped
      BY <1>7, <2>1 DEF List!Ends
    <3>2. stmt[t] \in 1..Length /\ results[t][stmt[t]] = "none"
      BY <1>1, <1>2, <3>1 DEF Progress
    <3>3. \A i \in 1..Length : results'[t][i] = IF i = stmt[t] THEN r ELSE results[t][i]
      BY <3>1, <3>2
    <3>4. List!Failed(t) => List!Failed(t)'
      BY <3>2, <3>3 DEF List!Failed, List!Failures, List!Interrupted
    <3> QED
      BY <2>6, <3>1, <3>3, <3>4, <1>1 DEF Skipping
  <2> QED
    BY <1>1, <2>2, <2>3, <2>4, <2>5, OthersKept
<1>8. CASE List!Answer(t)
  <2>1. TaskTypes'
    BY <1>8 DEF List!Answer
  <2>2. Progress(t)'
    <3>1. /\ status'[t] = status[t] /\ status[t] \in List!Active /\ results'[t] = results[t]
          /\ call[t] = "answered" /\ call'[t] = "idle" /\ stmt'[t] = stmt[t] + 1
          /\ stmt[t] \in Nat /\ stmt[t] <= List!N(t)
      BY <1>1, <1>8 DEF List!Answer, Progress
    <3>2. ASSUME NEW i \in 1..Length
          PROVE  /\ i < stmt'[t] => results'[t][i] # "none"
                 /\ i >= stmt'[t] => results'[t][i] = "none"
      <4>1. CASE i < stmt[t]
        BY <3>1, <4>1, <1>1, <1>2 DEF Progress
      <4>2. CASE i = stmt[t]
        <5>1. results[t][i] \in List!Answers /\ "none" \notin List!Answers
          BY <3>1, <4>2, <1>1 DEF Progress, List!Answers, List!Failures, List!Interrupted
        <5>2. i < stmt'[t] /\ ~(i >= stmt'[t])
          BY <3>1, <4>2
        <5> QED
          BY <3>1, <5>1, <5>2
      <4>3. CASE i > stmt[t]
        BY <3>1, <4>3, <1>1, <1>2 DEF Progress
      <4> QED
        BY <3>1, <1>2, <4>1, <4>2, <4>3
    <3> QED
      BY <3>1, <3>2, <1>1, <1>2 DEF Progress, List!N
  <2>3. Stopping(t)' /\ Ended(t)'
    BY <1>1, <1>2, <1>8 DEF List!Answer, Progress, Stopping, Ended
  <2>4. Skipping(t)'
    BY <1>1, <1>2, <1>8 DEF List!Answer, Progress, Skipping, List!Failed
  <2> QED
    BY <1>1, <2>1, <2>2, <2>3, <2>4, OthersKept
<1>9. CASE List!finishTask(t)
  <2>1. TaskTypes'
    BY <1>1, <1>9, OutcomeMeans DEF List!finishTask
  <2>2. Progress(t)'
    <3>1. /\ status'[t] \in {"success", "error", "cancelled"}
          /\ call'[t] = "idle" /\ stmt'[t] = stmt[t] /\ results'[t] = results[t]
      BY <1>1, <1>9, OutcomeMeans DEF List!finishTask
    <3> QED
      BY <3>1, <1>1, <1>2 DEF Progress, List!N
  <2>4. Stopping(t)' /\ Skipping(t)'
    <3>1. /\ status'[t] # "none"
          /\ stopped'[t] = stopped[t] /\ late'[t] = late[t] /\ results'[t] = results[t]
          /\ call'[t] = call[t]
      BY <1>9, OutcomeMeans DEF List!finishTask
    <3> QED
      BY <3>1, <1>1 DEF Stopping, Skipping, List!Failed
  <2>3. Ended(t)'
    <3>1. status'[t] = List!Outcome(t) /\ results' = results /\ stopped' = stopped
      BY <1>9 DEF List!finishTask
    <3>2. \A i \in 1..List!N(t) :
            /\ i \in 1..Length /\ results[t][i] # "none"
            /\ results[t][i] \in {"success", "skipped"} \cup List!Failures
      BY <1>1, <1>2, <1>9
         DEF List!finishTask, List!Complete, Progress, List!Failures, List!Interrupted
    <3>3. ASSUME List!Outcome(t) = "success" PROVE \A i \in 1..List!N(t) : results[t][i] = "success"
      BY <3>2, <3>3, <1>1, OutcomeMeans
    <3>4. ASSUME List!Outcome(t) = "cancelled"
          PROVE  \E i \in 1..List!N(t) :
                   results[t][i] \in List!Interrupted \/ (results[t][i] = "skipped" /\ stopped[t])
      <4>1. CASE \E i \in 1..List!N(t) : results[t][i] \in List!Interrupted
        BY <4>1
      <4>2. CASE \A i \in 1..List!N(t) : results[t][i] \notin List!Interrupted
        <5>1. \A i \in 1..List!N(t) : results[t][i] \notin List!Failures
          BY <3>4, <4>2, <1>1, OutcomeMeans
        <5>2. PICK i \in 1..List!N(t) : results[t][i] = "skipped"
          BY <3>4, <4>2, <1>1, OutcomeMeans
        <5>3. t \in Scripts /\ (stopped[t] \/ List!Failed(t))
          BY <3>2, <5>2, <1>1 DEF Skipping
        <5>4. ~List!Failed(t)
          BY <5>1, <5>3 DEF List!Failed, List!N
        <5> QED
          BY <5>2, <5>3, <5>4
      <4> QED
        BY <4>1, <4>2
    <3> QED
      BY <3>1, <3>3, <3>4 DEF Ended
  <2> QED
    BY <1>1, <2>1, <2>2, <2>3, <2>4, OthersKept
<1> QED
  BY <1>3, <1>4, <1>5, <1>6, <1>7, <1>8, <1>9 DEF List!Proceeds

LEMMA CancelSteps ==
  ASSUME List!Assumptions, TasksInv,
         \/ \E k \in Cancels, t \in Tasks : List!cancelTask(k, t)
         \/ \E k \in Cancels : List!Arrives(k) \/ List!Answered(k)
  PROVE  TasksInv'
<1> USE DEF TasksInv, TaskTypes, Open, List!Active, List!Finished
<1>1. CASE \E k \in Cancels, t \in Tasks : List!cancelTask(k, t)
  <2>1. PICK k \in Cancels, t \in Tasks : List!cancelTask(k, t)
    BY <1>1
  <2>2. TaskTypes'
    BY <2>1 DEF List!cancelTask
  <2>3. Progress(t)' /\ Stopping(t)' /\ Skipping(t)' /\ Ended(t)'
    BY <2>1 DEF List!cancelTask, Progress, Stopping, Skipping, Ended, List!Failed
  <2>4. \A u \in Tasks \ {t} : Same(u)
    BY <2>1 DEF List!cancelTask, Same
  <2> QED
    BY <2>2, <2>3, <2>4, OthersKept DEF Good
<1>2. CASE \E k \in Cancels : List!Arrives(k)
  BY <1>2, OthersKept DEF List!Arrives, Good, Same
<1>3. CASE \E k \in Cancels : List!Answered(k)
  <2>1. PICK k \in Cancels : List!Answered(k)
    BY <1>3
  <2>2. /\ UNCHANGED <<stopped, stmt, call, results, late>>
        /\ \/ status' = status
           \/ \E t \in Tasks : status[t] \in List!Active /\ status' = [status EXCEPT ![t] = "running"]
    BY <2>1 DEF List!Answered, List!Revived
  <2>3. TaskTypes'
    BY <2>2
  <2>4. \A u \in Tasks : Good(u)'
    BY <2>2 DEF Good, Progress, Stopping, Skipping, Ended, List!Failed
  <2> QED
    BY <2>3, <2>4 DEF Good
<1> QED
  BY <1>1, <1>2, <1>3

\* A restart loses the calls and not what the list says.
LEMMA RestartStep ==
  ASSUME List!Assumptions, TasksInv, List!Restart
  PROVE  TasksInv'
<1> USE DEF List!Restart, TasksInv, TaskTypes, Open, List!Active, List!Finished
<1>1. TaskTypes'
  OBVIOUS
<1>2. ASSUME NEW t \in Tasks PROVE Progress(t)' /\ Stopping(t)' /\ Skipping(t)' /\ Ended(t)'
  BY DEF Progress, Stopping, Skipping, Ended, List!Failed
<1> QED
  BY <1>1, <1>2

\* The invariant holds of every behaviour.
THEOREM TasksInvariance == List!Assumptions /\ List!Spec => []TasksInv
<1> SUFFICES ASSUME List!Assumptions PROVE List!Spec => []TasksInv
  OBVIOUS
<1>1. TasksInv /\ [List!Next]_List!vars => TasksInv'
  <2> SUFFICES ASSUME TasksInv, [List!Next]_List!vars PROVE TasksInv'
    OBVIOUS
  <2>1. CASE UNCHANGED List!vars
    BY <2>1, OthersKept DEF List!vars, TasksInv, TaskTypes, Good, Same
  <2> QED
    BY <2>1, StepsOfATask, CancelSteps, RestartStep DEF List!Next
<1> QED
  BY <1>1, TasksInit, PTL DEF List!Spec

\* After a stop at most one more statement of a script is executed
\* (runScript, cancelTask), for scripts of any length.
THEOREM StopHonoured == List!Assumptions /\ List!Spec => []List!StopIsHonoured
<1>1. TasksInv => List!StopIsHonoured
  BY DEF TasksInv, Stopping, List!StopIsHonoured
<1> QED
  BY <1>1, TasksInvariance, PTL

-----------------------------------------------------------------------------
(* What a task and its cancels know of a job. *)

\* A job that is known is one of its task's statements, and a cancel under way
\* is that of a task.
JobsInv ==
  /\ current \in [Tasks -> 0..Length]
  /\ token \subseteq Tasks \X (1..Length)
  /\ cancel \in [Cancels -> [t : Tasks \cup {NoTask}, job : 0..Length, attempt : 0..MaxAttempts,
                            at : {"out", "sent", "hit", "missed"}]]
  /\ \A k \in Cancels : cancel[k].at # "out" => cancel[k].t \in Tasks

LEMMA JobsInit == List!Assumptions /\ List!Init => JobsInv
  BY DEF List!Assumptions, List!Init, List!NoCancel, JobsInv

LEMMA JobsStep ==
  ASSUME List!Assumptions, TasksInv, JobsInv, [List!Next]_List!vars
  PROVE  JobsInv'
<1> USE DEF JobsInv
<1>1. CASE UNCHANGED List!vars
  BY <1>1 DEF List!vars
<1>2. ASSUME NEW t \in Tasks, List!startTask(t) \/ List!Proceeds(t) PROVE JobsInv'
  <2>1. /\ stmt[t] \in Nat \ {0} /\ (call[t] = "preparing" => stmt[t] <= List!N(t))
        /\ List!N(t) \in 1..Length /\ Length \in Nat
    BY DEF List!Assumptions, List!N, TasksInv, TaskTypes, Progress
  <2>2. UNCHANGED <<token, cancel>>
    BY <1>2 DEF List!startTask, List!Proceeds, List!Step, List!onJob, List!Register, List!Ends,
       List!Answer, List!finishTask
  <2>3. \/ UNCHANGED current
        \/ \E number \in 0..Length : current' = [current EXCEPT ![t] = number]
    BY <1>2, <2>1 DEF List!startTask, List!Proceeds, List!Step, List!onJob, List!Register,
       List!Ends, List!Answer, List!finishTask
  <2> QED
    BY <2>2, <2>3
<1>3. ASSUME NEW k \in Cancels, NEW t \in Tasks, List!cancelTask(k, t) PROVE JobsInv'
  <2>1. UNCHANGED <<current, token>>
    BY <1>3 DEF List!cancelTask
  <2>2. CASE cancel' = cancel
    BY <2>1, <2>2
  <2>3. CASE cancel' # cancel
    <3>1. cancel' = [cancel EXCEPT ![k] =
                       [t |-> t, job |-> current[t], attempt |-> 1, at |-> "sent"]]
      BY <1>3, <2>3 DEF List!cancelTask
    <3>2. 1 \in 0..MaxAttempts
      BY DEF List!Assumptions
    <3> QED
      BY <2>1, <3>1, <3>2
  <2> QED
    BY <2>2, <2>3
<1>4. ASSUME NEW k \in Cancels, List!Arrives(k) PROVE JobsInv'
  <2> DEFINE t == cancel[k].t
             number == cancel[k].job
  <2>1. t \in Tasks /\ number \in 0..Length
    BY <1>4 DEF List!Arrives
  <2>2. current' = current
        /\ \E at \in {"hit", "missed"} : cancel' = [cancel EXCEPT ![k].at = at]
    BY <1>4 DEF List!Arrives
  <2>3. token' \subseteq Tasks \X (1..Length)
    <3>1. CASE List!Registered(t, number)
      <4>1. number \in 1..Length
        BY <2>1, <3>1 DEF List!Registered, TasksInv, TaskTypes, List!Assumptions
      <4> QED
        BY <1>4, <2>1, <4>1 DEF List!Arrives
    <3>2. CASE ~List!Registered(t, number)
      BY <1>4, <3>2 DEF List!Arrives
    <3> QED
      BY <3>1, <3>2
  <2> QED
    BY <2>1, <2>2, <2>3
<1>5. ASSUME NEW k \in Cancels, List!Answered(k) PROVE JobsInv'
  <2>1. UNCHANGED <<current, token>>
    BY <1>5 DEF List!Answered
  <2>2. CASE cancel' = [cancel EXCEPT ![k] = List!NoCancel]
    <3>1. 0 \in 0..Length /\ 0 \in 0..MaxAttempts
      BY DEF List!Assumptions
    <3> QED
      BY <2>1, <2>2, <3>1 DEF List!NoCancel
  <2>3. CASE /\ cancel' = [cancel EXCEPT ![k].at = "sent", ![k].attempt = @ + 1]
             /\ cancel[k].at = "missed" /\ cancel[k].attempt < MaxAttempts
    <3>1. cancel[k].attempt + 1 \in 0..MaxAttempts
      BY <2>3 DEF List!Assumptions
    <3> QED
      BY <2>1, <2>3, <3>1
  <2> QED
    BY <1>5, <2>2, <2>3 DEF List!Answered
<1>6. CASE List!Restart
  <2>1. 0 \in 0..Length /\ 0 \in 0..MaxAttempts
    BY DEF List!Assumptions
  <2> QED
    BY <1>6, <2>1 DEF List!Restart, List!NoCancel
<1> QED
  BY <1>1, <1>2, <1>3, <1>4, <1>5, <1>6 DEF List!Next

LEMMA JobsInvariance == List!Assumptions /\ List!Spec => []JobsInv
<1> SUFFICES ASSUME List!Assumptions PROVE List!Spec => []JobsInv
  OBVIOUS
<1>1. List!Spec => []TasksInv
  BY TasksInvariance
<1> QED
  BY <1>1, JobsInit, JobsStep, PTL DEF List!Spec

\* The list, the jobs and the cancels keep their types: a statement's index
\* never leaves the script, and a cancel is tried MaxAttempts times at most.
THEOREM TasksTypeCorrect == List!Assumptions /\ List!Spec => []List!TypeOK
<1> SUFFICES ASSUME List!Assumptions PROVE List!Spec => []List!TypeOK
  OBVIOUS
<1>1. TasksInv /\ JobsInv => List!TypeOK
  <2> SUFFICES ASSUME TasksInv, JobsInv PROVE List!TypeOK
    OBVIOUS
  <2>1. Length \in Nat \ {0} /\ \A t \in Tasks : List!N(t) \in 1..Length
    BY DEF List!Assumptions, List!N
  <2>2. \A t \in Tasks : stmt[t] \in 1..Length + 1 /\ late[t] \in 0..Length
    BY <2>1 DEF TasksInv, TaskTypes, Progress, Stopping
  <2>3. results \in [Tasks -> [1..Length -> List!Answers \cup {"none", "skipped"}]]
    <3>1. {"none", "success", "error", "aborted", "timeout", "skipped"}
            = List!Answers \cup {"none", "skipped"}
      BY DEF List!Answers, List!Failures, List!Interrupted
    <3> QED
      BY <3>1 DEF TasksInv, TaskTypes
  <2> QED
    BY <2>2, <2>3 DEF List!TypeOK, TasksInv, TaskTypes, JobsInv, Open
<1> QED
  BY <1>1, TasksInvariance, JobsInvariance, PTL

-----------------------------------------------------------------------------
(* What the list says at the end. *)

\* A cancel under way, a token that is set and a statement that was aborted are
\* those of a task whose stop was asked for.
AskedInv ==
  /\ \A k \in Cancels : cancel[k].at # "out" => stopped[cancel[k].t]
  /\ \A t \in Tasks, n \in 1..Length : <<t, n>> \in token => stopped[t]
  /\ \A t \in Tasks : \A n \in 1..List!N(t) : results[t][n] = "aborted" => stopped[t]

LEMMA AskedInit == List!Assumptions /\ List!Init => AskedInv
  BY DEF List!Assumptions, List!Init, List!NoCancel, List!N, AskedInv

LEMMA AskedStep ==
  ASSUME List!Assumptions, TasksInv, JobsInv, AskedInv, [List!Next]_List!vars
  PROVE  AskedInv'
<1> USE DEF AskedInv
<1>1. CASE UNCHANGED List!vars
  BY <1>1 DEF List!vars, List!N
<1>2. ASSUME NEW t \in Tasks, List!startTask(t) \/ List!Proceeds(t) PROVE AskedInv'
  <2>1. UNCHANGED <<stopped, token, cancel>>
    BY <1>2 DEF List!startTask, List!Proceeds, List!Step, List!onJob, List!Register, List!Ends,
       List!Answer, List!finishTask
  <2>2. CASE UNCHANGED results
    BY <2>1, <2>2 DEF List!N
  <2>3. CASE results' = [results EXCEPT ![t][stmt[t]] = "skipped"]
    BY <2>1, <2>3 DEF List!N, TasksInv, TaskTypes
  <2>4. CASE List!Ends(t)
    <3>1. PICK r \in List!Possible(t) : results' = [results EXCEPT ![t][stmt[t]] = r]
      BY <2>4 DEF List!Ends
    <3>2. r = "aborted" => stopped[t]
      <4>1. stmt[t] \in 1..Length
        BY <2>4 DEF List!Ends, TasksInv, TaskTypes, Progress, List!N, List!Assumptions
      <4> QED
        BY <3>1, <4>1 DEF List!Possible
    <3>3. results' = [results EXCEPT ![t] = [results[t] EXCEPT ![stmt[t]] = r]]
      BY <3>1
    <3>4. \A u \in Tasks : \A n \in 1..List!N(u) :
            results'[u][n] = IF u = t /\ n = stmt[t] THEN r ELSE results[u][n]
      <4>1. \A u \in Tasks : 1..List!N(u) \subseteq 1..Length
        BY DEF List!N, List!Assumptions
      <4>2. results \in [Tasks -> [1..Length ->
                           {"none", "success", "error", "aborted", "timeout", "skipped"}]]
        BY DEF TasksInv, TaskTypes
      <4> QED
        BY <3>3, <4>1, <4>2
    <3> QED
      BY <2>1, <3>2, <3>4 DEF List!N
  <2> QED
    BY <1>2, <2>2, <2>3, <2>4 DEF List!startTask, List!Proceeds, List!Step, List!onJob,
       List!Register, List!Answer, List!finishTask
<1>3. ASSUME NEW k \in Cancels, NEW t \in Tasks, List!cancelTask(k, t) PROVE AskedInv'
  <2>1. /\ UNCHANGED <<token, results>>
        /\ \A u \in Tasks : stopped'[u] = (u = t \/ stopped[u])
    BY <1>3 DEF List!cancelTask, TasksInv, TaskTypes
  <2>2. \A l \in Cancels : cancel'[l].at # "out" => cancel'[l].t \in Tasks /\ stopped'[cancel'[l].t]
    <3>1. CASE cancel' = cancel
      BY <2>1, <3>1 DEF JobsInv
    <3>2. CASE cancel' = [cancel EXCEPT ![k] =
                            [t |-> t, job |-> current[t], attempt |-> 1, at |-> "sent"]]
      BY <2>1, <3>2 DEF JobsInv
    <3> QED
      BY <1>3, <3>1, <3>2 DEF List!cancelTask
  <2> QED
    BY <2>1, <2>2 DEF List!N
<1>4. ASSUME NEW k \in Cancels, List!Arrives(k) PROVE AskedInv'
  <2>1. UNCHANGED <<stopped, results>> /\ cancel[k].at = "sent"
        /\ \E at \in {"hit", "missed"} : cancel' = [cancel EXCEPT ![k].at = at]
        /\ token' \subseteq token \cup {<<cancel[k].t, cancel[k].job>>}
    BY <1>4 DEF List!Arrives
  <2>2. \A l \in Cancels : cancel'[l].at # "out" => cancel[l].at # "out" /\ cancel'[l].t = cancel[l].t
    BY <2>1 DEF JobsInv
  <2> QED
    BY <2>1, <2>2 DEF List!N
<1>5. ASSUME NEW k \in Cancels, List!Answered(k) PROVE AskedInv'
  <2>1. UNCHANGED <<stopped, token, results>>
    BY <1>5 DEF List!Answered
  <2>2. \A l \in Cancels : cancel'[l].at # "out" => cancel[l].at # "out" /\ cancel'[l].t = cancel[l].t
    BY <1>5 DEF List!Answered, List!NoCancel, JobsInv
  <2> QED
    BY <2>1, <2>2 DEF List!N
<1>6. CASE List!Restart
  BY <1>6 DEF List!Restart, List!NoCancel, List!N
<1> QED
  BY <1>1, <1>2, <1>3, <1>4, <1>5, <1>6 DEF List!Next

LEMMA AskedInvariance == List!Assumptions /\ List!Spec => []AskedInv
<1> SUFFICES ASSUME List!Assumptions PROVE List!Spec => []AskedInv
  OBVIOUS
<1>1. List!Spec => []TasksInv
  BY TasksInvariance
<1>2. List!Spec => []JobsInv
  BY JobsInvariance
<1> QED
  BY <1>1, <1>2, AskedInit, AskedStep, PTL DEF List!Spec

\* What the task list says of a task that ended is true (finishTask).
THEOREM EndsTrue == List!Assumptions /\ List!Spec => []List!EndsAreTrue
<1>1. TasksInv /\ AskedInv => List!EndsAreTrue
  <2> SUFFICES ASSUME TasksInv, AskedInv, NEW t \in Tasks
               PROVE  /\ status[t] = "success" => \A i \in 1..List!N(t) : results[t][i] = "success"
                      /\ status[t] = "cancelled" =>
                           \E i \in 1..List!N(t) :
                             \/ results[t][i] = "timeout"
                             \/ stopped[t] /\ results[t][i] \in {"aborted", "skipped"}
    BY DEF List!EndsAreTrue
  <2>1. Ended(t)
    BY DEF TasksInv
  <2> QED
    BY <2>1 DEF Ended, AskedInv, List!Interrupted
<1> QED
  BY <1>1, TasksInvariance, AskedInvariance, PTL

\* Both: what the user is told of tasks and of stopped scripts is true
\* (tasks.ts, script-runner.ts).
THEOREM TasksAreTold == List!Assumptions /\ List!Spec => []JobsTellTheTruth
<1>1. List!StopIsHonoured /\ List!EndsAreTrue => JobsTellTheTruth
  BY DEF JobsTellTheTruth
<1> QED
  BY <1>1, StopHonoured, EndsTrue, PTL

-----------------------------------------------------------------------------
(* CsvImport.                                                              *)

Statements == {"BEGIN", "INSERT", "COMMIT", "ROLLBACK"}

ImportTypes ==
  /\ step \in Statements \cup {"over"}
  /\ row \in Nat
  /\ wait \in {"none", "answer", "cancelled"}
  /\ aborted \in BOOLEAN /\ tokenInTime \in BOOLEAN /\ linked \in BOOLEAN
  /\ sent \in Seq(Statements)
  /\ answers \in Seq({"done", "error"})
  /\ block \in {"none", "open", "failed", "committed"}
  /\ inserted \in Nat
  /\ report \in {"none", "failed", "unconfirmed", "rolled back", "imported"}

\* Nothing is committed, and nothing on its way will commit.
NoCommit ==
  /\ block # "committed"
  /\ \A i \in 1..Len(sent) : sent[i] # "COMMIT"

\* How many rows were inserted before the statement the import is at.
Before == IF step = "COMMIT" THEN Lines ELSE row - 1

Only(seq, x) == Len(seq) = 1 /\ seq[1] = x

\* Up to COMMIT the client and the server are at the same statement: it is yet
\* to be sent or executed, or was executed, or failed.
Unanswered ==
  /\ Len(answers) = 0
  /\ IF wait = "none" THEN Len(sent) = 0 ELSE Only(sent, step)
  /\ block = (IF step = "BEGIN" THEN "none" ELSE "open")
  /\ inserted = Before

Done ==
  /\ wait # "none" /\ Len(sent) = 0 /\ Only(answers, "done")
  /\ block = (IF step = "COMMIT" THEN "committed" ELSE "open")
  /\ inserted = (IF step = "INSERT" THEN Before + 1 ELSE Before)

NotDone == wait # "none" /\ Len(sent) = 0 /\ Only(answers, "error") /\ block # "committed"

Conversation ==
  step \in {"BEGIN", "INSERT", "COMMIT"} /\ linked => Unanswered \/ Done \/ NotDone

\* COMMIT is sent by an import that is at it, and that no cancel in time met.
Committing ==
  /\ tokenInTime => aborted /\ (step = "COMMIT" => wait = "none") /\ NoCommit
  /\ step \in {"BEGIN", "INSERT", "ROLLBACK"} \/ (step = "COMMIT" /\ wait = "none") => NoCommit
  /\ ~linked => Len(sent) = 0

Reporting ==
  /\ step # "over" => report = "none"
  /\ step = "over" => wait = "none"
  /\ report \in {"rolled back", "failed"} => NoCommit
  /\ report = "imported" => block = "committed" /\ inserted = Lines /\ Len(sent) = 0

ImportInv == ImportTypes /\ Conversation /\ Committing /\ Reporting

\* What is used of sequences.
LEMMA OfSequences ==
  ASSUME ImportTypes
  PROVE  /\ Len(sent) \in Nat /\ Len(answers) \in Nat
         /\ sent = <<>> <=> Len(sent) = 0
         /\ answers = <<>> <=> Len(answers) = 0
         /\ Len(<<>>) = 0
         /\ \A x \in Statements :
              /\ Append(sent, x) \in Seq(Statements) /\ Len(Append(sent, x)) = Len(sent) + 1
              /\ Append(sent, x)[Len(sent) + 1] = x
              /\ \A i \in 1..Len(sent) : Append(sent, x)[i] = sent[i]
         /\ \A x \in {"done", "error"} :
              /\ Append(answers, x) \in Seq({"done", "error"})
              /\ Len(Append(answers, x)) = Len(answers) + 1
              /\ Append(answers, x)[Len(answers) + 1] = x
         /\ sent # <<>> =>
              /\ Head(sent) = sent[1] /\ sent[1] \in Statements
              /\ Tail(sent) \in Seq(Statements) /\ Len(Tail(sent)) = Len(sent) - 1
              /\ \A i \in 1..Len(Tail(sent)) : Tail(sent)[i] = sent[i + 1]
<1>1. sent \in Seq(Statements) /\ answers \in Seq({"done", "error"})
  BY DEF ImportTypes
<1>2. Len(sent) \in Nat /\ Len(answers) \in Nat /\ Len(<<>>) = 0
  BY <1>1, LenProperties, EmptySeq
<1>3. (sent = <<>> <=> Len(sent) = 0) /\ (answers = <<>> <=> Len(answers) = 0)
  BY <1>1, <1>2, EmptySeq
<1>4. \A x \in Statements :
        /\ Append(sent, x) \in Seq(Statements) /\ Len(Append(sent, x)) = Len(sent) + 1
        /\ Append(sent, x)[Len(sent) + 1] = x
        /\ \A i \in 1..Len(sent) : Append(sent, x)[i] = sent[i]
  BY <1>1, AppendProperties
<1>5. \A x \in {"done", "error"} :
        /\ Append(answers, x) \in Seq({"done", "error"})
        /\ Len(Append(answers, x)) = Len(answers) + 1
        /\ Append(answers, x)[Len(answers) + 1] = x
  BY <1>1, AppendProperties
<1>6. sent # <<>> =>
        /\ Head(sent) = sent[1] /\ sent[1] \in Statements
        /\ Tail(sent) \in Seq(Statements) /\ Len(Tail(sent)) = Len(sent) - 1
        /\ \A i \in 1..Len(Tail(sent)) : Tail(sent)[i] = sent[i + 1]
  BY <1>1, HeadTailProperties
<1> QED
  BY <1>2, <1>3, <1>4, <1>5, <1>6

LEMMA ImportInit == Import!Init => ImportInv
<1> SUFFICES ASSUME Import!Init PROVE ImportInv
  OBVIOUS
<1>1. ImportTypes
  <2>1. <<>> \in Seq(Statements) /\ <<>> \in Seq({"done", "error"})
    BY EmptySeq
  <2> QED
    BY <2>1 DEF Import!Init, ImportTypes, Statements
<1>2. Len(sent) = 0 /\ Len(answers) = 0
  BY <1>1, OfSequences DEF Import!Init
<1> QED
  BY <1>1, <1>2
     DEF Import!Init, ImportInv, Conversation, Unanswered, Committing, Reporting, NoCommit, Before

-----------------------------------------------------------------------------
(* The user and the client. *)

LEMMA CancelStep ==
  ASSUME ImportInv, Import!Cancel
  PROVE  ImportInv'
<1> USE DEF ImportInv, Import!Cancel, Import!server
<1>1. ImportTypes'
  BY DEF ImportTypes
<1>2. Conversation'
  BY DEF Conversation, Unanswered, Done, NotDone, Before, Only
<1>3. NoCommit <=> NoCommit'
  BY DEF NoCommit
<1>4. Committing' /\ Reporting'
  BY <1>3 DEF Committing, Reporting, ImportTypes, Statements
<1> QED
  BY <1>1, <1>2, <1>4

\* A statement ended in an error: nothing is said to be imported, and only of a
\* COMMIT something else than that nothing was.
LEMMA FailsStep ==
  ASSUME ImportInv, Import!Fails, step # "over", wait # "none" \/ ~linked \/ step # "COMMIT",
         UNCHANGED <<aborted, tokenInTime, block, inserted, linked, sent>>,
         answers' \in Seq({"done", "error"})
  PROVE  ImportInv'
<1> USE DEF ImportInv, Import!Fails, Import!Over, Import!CommitFailed, ImportTypes, Statements
<1>1. ImportTypes'
  OBVIOUS
<1>2. step' \in {"ROLLBACK", "over"} /\ wait' = "none"
  OBVIOUS
<1>3. Conversation'
  BY <1>2 DEF Conversation
<1>4. NoCommit => NoCommit'
  BY DEF NoCommit
<1>5. Committing'
  BY <1>2, <1>4 DEF Committing
<1>6. Reporting'
  BY <1>2, <1>4 DEF Reporting, Committing
<1> QED
  BY <1>1, <1>3, <1>5, <1>6

LEMMA RefuseStep ==
  ASSUME ImportInv, Import!Refuse
  PROVE  ImportInv'
<1>1. CASE step = "COMMIT" /\ Import!Cancelled
  <2> USE <1>1 DEF ImportInv, Import!Refuse, Import!server
  <2>1. ImportTypes' /\ NoCommit /\ NoCommit'
    BY DEF ImportTypes, Statements, Committing, NoCommit
  <2>2. Conversation' /\ Committing' /\ Reporting'
    BY <2>1 DEF Conversation, Committing, Reporting
  <2> QED
    BY <2>1, <2>2
<1>2. CASE ~(step = "COMMIT" /\ Import!Cancelled)
  BY <1>2, FailsStep DEF ImportInv, Import!Refuse, Import!server, ImportTypes
<1> QED
  BY <1>1, <1>2

LEMMA SendStep ==
  ASSUME ImportInv, Import!Send
  PROVE  ImportInv'
<1> USE DEF ImportInv, Import!Send
<1>1. ImportTypes /\ step \in Statements
  BY DEF Statements
<1>2. /\ Len(sent') = Len(sent) + 1 /\ sent' \in Seq(Statements) /\ Len(sent) \in Nat
      /\ sent'[Len(sent) + 1] = step
      /\ \A i \in 1..Len(sent) : sent'[i] = sent[i]
  BY <1>1, OfSequences
<1>3. ImportTypes'
  BY <1>1, <1>2 DEF ImportTypes
<1>4. Conversation'
  BY <1>2 DEF Conversation, Unanswered, Done, NotDone, Before, Only
<1>5. NoCommit /\ step # "COMMIT" => NoCommit'
  BY <1>2 DEF NoCommit
<1>6. Committing' /\ Reporting'
  BY <1>5 DEF Committing, Reporting, Import!Cancelled
<1> QED
  BY <1>3, <1>4, <1>6

\* An answer that is no error is the one to the statement the import is at.
LEMMA ReceiveStep ==
  ASSUME ImportInv, Import!Receive
  PROVE  ImportInv'
<1>1. ImportTypes /\ Conversation /\ Committing /\ Reporting
  BY DEF ImportInv
<1>2. /\ wait # "none" /\ linked /\ sent = <<>> /\ answers # <<>> /\ answers' = <<>>
      /\ UNCHANGED <<aborted, tokenInTime, sent, block, inserted, linked>>
  BY DEF Import!Receive
<1>3. /\ answers' \in Seq({"done", "error"}) /\ answers \in Seq({"done", "error"})
      /\ Len(answers) \in Nat \ {0} /\ Len(sent) = 0 /\ Len(answers') = 0
  BY <1>1, <1>2, OfSequences, EmptySeq DEF ImportTypes
<1>4. CASE answers[Len(answers)] = "error"
  BY <1>1, <1>2, <1>3, <1>4, FailsStep DEF ImportTypes, Reporting, Import!Receive
<1>5. CASE answers[Len(answers)] # "error" /\ step = "ROLLBACK"
  <2>1. step' = "over" /\ wait' = "none" /\ report' = "rolled back" /\ row' = row
    BY <1>5 DEF Import!Receive, Import!Over
  <2>2. NoCommit'
    BY <1>1, <1>2, <1>3, <1>5 DEF NoCommit, Committing
  <2>3. ImportTypes'
    BY <1>1, <1>2, <1>3, <2>1 DEF ImportTypes, Statements
  <2> QED
    BY <1>1, <1>2, <1>3, <1>5, <2>1, <2>2, <2>3 DEF ImportInv, Conversation, Committing, Reporting
<1>6. CASE answers[Len(answers)] # "error" /\ step # "ROLLBACK"
  <2>1. step \in {"BEGIN", "INSERT", "COMMIT"} /\ Done
    BY <1>1, <1>2, <1>3, <1>6
       DEF ImportTypes, Statements, Conversation, Unanswered, NotDone, Only, Reporting
  <2>2. wait' = "none" /\ (NoCommit <=> NoCommit')
    BY <1>2, <1>6, <2>1 DEF Import!Receive, Import!Over, NoCommit
  <2>3. CASE step = "COMMIT"
    <3>1. step' = "over" /\ report' = "imported" /\ row' = row
      BY <1>6, <2>3 DEF Import!Receive, Import!Over
    <3>2. block = "committed" /\ inserted = Lines
      BY <1>1, <2>1, <2>3 DEF Done, Before, ImportTypes
    <3>3. ImportTypes'
      BY <1>1, <1>2, <1>3, <2>2, <3>1 DEF ImportTypes, Statements
    <3> QED
      BY <1>1, <1>2, <1>3, <2>2, <2>3, <3>1, <3>2, <3>3
         DEF ImportInv, Conversation, Committing, Reporting
  <2>4. CASE step # "COMMIT"
    <3>1. report' = report
      BY <1>6, <2>1, <2>4 DEF Import!Receive
    <3>2. \/ step = "BEGIN" /\ step' = "INSERT" /\ row' = row
          \/ step = "INSERT" /\ step' = "COMMIT" /\ row' = row /\ row = Lines
          \/ step = "INSERT" /\ step' = "INSERT" /\ row' = row + 1
      BY <1>6, <2>1, <2>4 DEF Import!Receive
    <3>3. row \in Nat /\ row' \in Nat /\ inserted \in Nat
      <4>1. row \in Nat /\ inserted \in Nat
        BY <1>1 DEF ImportTypes
      <4> QED
        BY <3>2, <4>1
    <3>4. ImportTypes'
      BY <1>1, <1>2, <1>3, <2>2, <3>1, <3>2, <3>3 DEF ImportTypes, Statements
    <3>5. inserted' = Before'
      BY <1>2, <2>1, <3>2, <3>3 DEF Done, Before
    <3>6. Unanswered'
      BY <1>2, <1>3, <2>1, <2>2, <3>2, <3>5 DEF Unanswered, Done
    <3> QED
      BY <1>1, <1>2, <1>3, <2>1, <2>2, <3>1, <3>2, <3>4, <3>6
      DEF ImportInv, Conversation, Committing, Reporting
  <2> QED
    BY <2>3, <2>4
<1> QED
  BY <1>4, <1>5, <1>6

LEMMA InterruptStep ==
  ASSUME ImportInv, Import!Interrupt
  PROVE  ImportInv'
<1> USE DEF ImportInv, Import!Interrupt
<1>1. ImportTypes'
  BY DEF ImportTypes
<1>2. Conversation'
  BY DEF Conversation, Unanswered, Done, NotDone, Before, Only
<1>3. NoCommit <=> NoCommit'
  BY DEF NoCommit
<1>4. Committing' /\ Reporting'
  BY <1>3 DEF Committing, Reporting
<1> QED
  BY <1>1, <1>2, <1>4

LEMMA GiveUpStep ==
  ASSUME ImportInv, Import!GiveUp \/ Import!Disconnected
  PROVE  ImportInv'
  BY FailsStep
     DEF ImportInv, Import!GiveUp, Import!Impatient, Import!Disconnected, Import!server,
        ImportTypes,
         Reporting

-----------------------------------------------------------------------------
(* The server and the connection. *)

\* The server answered the first statement of the queue with x.
LEMMA AnswerStep ==
  ASSUME ImportInv, sent # <<>>, sent' = Tail(sent), NEW x \in {"done", "error"},
         answers' = Append(answers, x),
         block' \in {"none", "open", "failed", "committed"}, inserted' \in Nat,
         block' = "committed" => block = "committed" \/ (Head(sent) = "COMMIT" /\ x = "done"),
         UNCHANGED <<step, row, wait, aborted, tokenInTime, linked, report>>,
         Unanswered /\ step \in {"BEGIN", "INSERT", "COMMIT"} /\ x = "done" /\ Head(sent) = step =>
           /\ block' = (IF step = "COMMIT" THEN "committed" ELSE "open")
           /\ inserted' = (IF step = "INSERT" THEN inserted + 1 ELSE inserted)
  PROVE  ImportInv'
<1> USE DEF ImportInv
<1>1. /\ Len(sent) \in Nat \ {0} /\ Len(answers) \in Nat
      /\ Head(sent) = sent[1] /\ sent' \in Seq(Statements)
      /\ Len(sent') = Len(sent) - 1
      /\ \A i \in 1..Len(sent') : sent'[i] = sent[i + 1]
      /\ answers' \in Seq({"done", "error"})
      /\ Len(answers') = Len(answers) + 1 /\ answers'[Len(answers) + 1] = x
  BY OfSequences
<1>2. ImportTypes'
  BY <1>1 DEF ImportTypes
<1>3. NoCommit => NoCommit'
  BY <1>1 DEF NoCommit
<1>4. ASSUME step \in {"BEGIN", "INSERT", "COMMIT"}, linked
      PROVE  Done' \/ NotDone'
  <2>1. Unanswered /\ wait # "none" /\ Head(sent) = step /\ Len(sent) = 1
    BY <1>1, <1>4 DEF Conversation, Unanswered, Done, NotDone, Only
  <2>2. Len(sent') = 0 /\ Only(answers, x)'
    BY <1>1, <2>1 DEF Unanswered, Only
  <2>3. CASE x = "done"
    BY <1>4, <2>1, <2>2, <2>3 DEF Done, Unanswered, Before
  <2>4. CASE x = "error"
    BY <1>4, <2>1, <2>2, <2>4 DEF NotDone, Unanswered
  <2> QED
    BY <2>3, <2>4
<1>5. Conversation'
  BY <1>4 DEF Conversation
<1>6. Committing' /\ Reporting'
  BY <1>1, <1>3 DEF Committing, Reporting
<1> QED
  BY <1>2, <1>5, <1>6

LEMMA ExecuteStep ==
  ASSUME ImportInv, Import!Execute
  PROVE  ImportInv'
<1>1. block \in {"none", "open", "failed", "committed"} /\ inserted \in Nat /\ inserted + 1 \in Nat
  <2>1. block \in {"none", "open", "failed", "committed"} /\ inserted \in Nat
    BY DEF ImportInv, ImportTypes
  <2> QED
    BY <2>1
<1>2. CASE Head(sent) = "BEGIN"
  BY <1>1, <1>2, AnswerStep DEF Import!Execute, Unanswered
<1>3. CASE Head(sent) = "INSERT"
  BY <1>1, <1>3, AnswerStep DEF Import!Execute, Unanswered
<1>4. CASE Head(sent) = "COMMIT"
  BY <1>1, <1>4, AnswerStep DEF Import!Execute, Unanswered
<1>5. CASE Head(sent) = "ROLLBACK"
  BY <1>1, <1>5, AnswerStep DEF Import!Execute, Unanswered
<1> QED
  BY <1>2, <1>3, <1>4, <1>5 DEF Import!Execute

LEMMA RequestArrivesStep ==
  ASSUME ImportInv, Import!RequestArrives
  PROVE  ImportInv'
<1>1. CASE UNCHANGED <<sent, answers, block>>
  <2> USE <1>1 DEF ImportInv, Import!RequestArrives
  <2>1. ImportTypes' /\ (NoCommit <=> NoCommit')
    BY DEF ImportTypes, NoCommit
  <2>2. Conversation'
    BY DEF Conversation, Unanswered, Done, NotDone, Before, Only
  <2>3. Committing' /\ Reporting'
    BY <2>1 DEF Committing, Reporting
  <2> QED
    BY <2>1, <2>2, <2>3
<1>2. CASE ~UNCHANGED <<sent, answers, block>>
  BY <1>2, AnswerStep DEF Import!RequestArrives, ImportInv, ImportTypes
<1> QED
  BY <1>1, <1>2

LEMMA UnlinkStep ==
  ASSUME ImportInv, Import!Unlink
  PROVE  ImportInv'
<1> USE DEF ImportInv, Import!Unlink
<1>1. ImportTypes' /\ Len(sent') = 0
  BY EmptySeq, OfSequences DEF ImportTypes
<1>2. NoCommit => NoCommit'
  BY <1>1 DEF NoCommit
<1> QED
  BY <1>1, <1>2 DEF Conversation, Committing, Reporting

-----------------------------------------------------------------------------
(* The theorems. *)

LEMMA ImportStep == ImportInv /\ [Import!Next]_Import!vars => ImportInv'
<1> SUFFICES ASSUME ImportInv, [Import!Next]_Import!vars PROVE ImportInv'
  OBVIOUS
<1>1. CASE UNCHANGED Import!vars
  BY <1>1
     DEF Import!vars, ImportInv, ImportTypes, Conversation, Unanswered, Done, NotDone, Only,
        Before,
         Committing, Reporting, NoCommit
<1>2. CASE Import!Next
  BY <1>2, CancelStep, RefuseStep, SendStep, ReceiveStep, InterruptStep, GiveUpStep, ExecuteStep,
     RequestArrivesStep, UnlinkStep DEF Import!Next, Import!Client
<1> QED
  BY <1>1, <1>2

\* The invariant holds of every behaviour.
THEOREM ImportInvariance == Import!Spec => []ImportInv
  BY ImportInit, ImportStep, PTL DEF Import!Spec

\* What an import reports is true, whatever is lost, late or given up
\* (csv_import): imported rows are all there, and of those it says are rolled
\* back none is and none can come.
THEOREM ReportsAreTrue == Import!Spec => []Import!ReportIsTrue
<1>1. ImportInv => Import!ReportIsTrue
  <2> SUFFICES ASSUME ImportInv PROVE Import!ReportIsTrue
    OBVIOUS
  <2>1. DOMAIN sent = 1..Len(sent)
    BY LenProperties DEF ImportInv, ImportTypes
  <2> QED
    BY <2>1 DEF ImportInv, Reporting, NoCommit, Import!ReportIsTrue
<1> QED
  BY <1>1, ImportInvariance, PTL

\* A cancel before COMMIT was sent prevents it (postgres, csv_import).
THEOREM CancelledStayOut == Import!Spec => []Import!CancelledIsNotImported
<1>1. ImportInv => Import!CancelledIsNotImported
  BY DEF ImportInv, Committing, NoCommit, Import!CancelledIsNotImported
<1> QED
  BY <1>1, ImportInvariance, PTL

\* Both: what the user is told of an import, cancelled or not, is true
\* (csv_import).
THEOREM ImportsAreTold == Import!Spec => []ImportsTellTheTruth
<1>1. Import!ReportIsTrue /\ Import!CancelledIsNotImported => ImportsTellTheTruth
  BY DEF ImportsTellTheTruth
<1> QED
  BY <1>1, ReportsAreTrue, CancelledStayOut, PTL

-----------------------------------------------------------------------------
(* The rows of an import. *)

\* At most one INSERT is on its way, and it is the one of a row not counted yet.
RowsInv ==
  /\ row \in 1..Lines /\ inserted \in 0..Lines /\ requests \in Nat
  /\ \A i \in 1..Len(sent) : sent[i] = "INSERT" => i = 1 /\ inserted < Lines

LEMMA RowsInit == Import!Assumptions /\ Import!Init => RowsInv
<1> SUFFICES ASSUME Import!Assumptions, Import!Init PROVE RowsInv
  OBVIOUS
<1>1. Len(sent) = 0
  BY ImportInit, OfSequences DEF ImportInv, Import!Init
<1> QED
  BY <1>1 DEF Import!Assumptions, Import!Init, RowsInv

LEMMA RowsStep ==
  ASSUME Import!Assumptions, ImportInv, RowsInv, [Import!Next]_Import!vars
  PROVE  RowsInv'
<1> USE DEF RowsInv, Import!server
<1>1. ImportTypes /\ Lines \in Nat \ {0}
  BY DEF ImportInv, Import!Assumptions
<1>2. CASE UNCHANGED Import!vars \/ Import!Cancel \/ Import!Interrupt
  BY <1>2 DEF Import!vars, Import!Cancel, Import!Interrupt
<1>3. CASE Import!Refuse \/ Import!GiveUp \/ Import!Disconnected
  <2>1. UNCHANGED <<row, sent, inserted, requests>>
    BY <1>3 DEF Import!Refuse, Import!GiveUp, Import!Disconnected, Import!Fails, Import!Over,
       Import!CommitFailed
  <2> QED
    BY <2>1
<1>4. CASE Import!Receive
  <2>1. UNCHANGED <<sent, inserted, requests>> /\ (row' = row \/ (row # Lines /\ row' = row + 1))
    BY <1>4 DEF Import!Receive, Import!Fails, Import!Over, Import!CommitFailed
  <2> QED
    BY <1>1, <2>1
<1>5. CASE Import!Send
  <2>1. UNCHANGED <<row, inserted, requests>> /\ step \in Statements
    BY <1>5 DEF Import!Send, Statements
  <2>2. /\ Len(sent) \in Nat /\ Len(sent') = Len(sent) + 1 /\ sent'[Len(sent) + 1] = step
        /\ \A i \in 1..Len(sent) : sent'[i] = sent[i]
    BY <1>1, <1>5, <2>1, OfSequences DEF Import!Send
  <2>3. step = "INSERT" => Len(sent) = 0 /\ inserted < Lines
    BY <1>1, <1>5 DEF Import!Send, ImportInv, Conversation, Unanswered, Done, NotDone, Before
  <2> QED
    BY <2>1, <2>2, <2>3
<1>6. ASSUME sent # <<>>, sent' = Tail(sent),
             inserted' = inserted \/ (Head(sent) = "INSERT" /\ inserted' = inserted + 1),
             row' = row, requests' \in Nat
      PROVE  RowsInv'
  <2>1. /\ Len(sent) \in Nat /\ Head(sent) = sent[1] /\ Len(sent') = Len(sent) - 1
        /\ \A i \in 1..Len(sent') : sent'[i] = sent[i + 1]
    BY <1>1, <1>6, OfSequences
  <2>2. Len(sent) # 0
    BY <1>1, <1>6, OfSequences
  <2>3. \A i \in 1..Len(sent') : sent'[i] # "INSERT"
    BY <2>1
  <2>4. inserted' \in 0..Lines
    BY <1>1, <1>6, <2>1, <2>2
  <2> QED
    BY <1>6, <2>3, <2>4
<1>7. CASE Import!Execute
  BY <1>6, <1>7 DEF Import!Execute
<1>8. CASE Import!RequestArrives
  <2>1. requests' \in Nat /\ UNCHANGED <<row, inserted>>
    BY <1>8 DEF Import!RequestArrives
  <2>2. CASE sent' = sent
    BY <2>1, <2>2
  <2>3. CASE sent' # sent
    BY <1>6, <1>8, <2>1, <2>3 DEF Import!RequestArrives
  <2> QED
    BY <2>2, <2>3
<1>9. CASE Import!Unlink
  <2>1. Len(sent') = 0 /\ UNCHANGED <<row, inserted, requests>>
    BY <1>1, <1>9, OfSequences DEF Import!Unlink
  <2> QED
    BY <2>1
<1> QED
  BY <1>2, <1>3, <1>4, <1>5, <1>7, <1>8, <1>9 DEF Import!Next, Import!Client

\* The import, its messages and the server keep their types: it never goes
\* beyond the last row of the file, and inserts none of them twice.
THEOREM ImportTypeCorrect == Import!Assumptions /\ Import!Spec => []Import!TypeOK
<1> SUFFICES ASSUME Import!Assumptions PROVE Import!Spec => []Import!TypeOK
  OBVIOUS
<1>1. Import!Spec => []RowsInv
  BY ImportInvariance, RowsInit, RowsStep, PTL DEF Import!Spec
<1>2. ImportInv /\ RowsInv => Import!TypeOK
  BY DEF ImportInv, ImportTypes, Statements, RowsInv, Import!TypeOK
<1> QED
  BY <1>1, <1>2, ImportInvariance, PTL
=============================================================================
