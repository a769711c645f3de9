--------------------- MODULE ConnectionActivation_proofs ---------------------
(***************************************************************************)
(* Proofs about ConnectionActivation, for every set of connections and     *)
(* actors: activations run one at a time, the connection that one found    *)
(* active stays the active one until it ends, every command carries the    *)
(* connection and the port it is about, and while nobody edits and no pane *)
(* opens a tunnel of its own, the ports the window remembers are the ones  *)
(* the backend holds.                                                      *)
(***************************************************************************)
EXTENDS ConnectionActivation, TLAPS

Activators == Requests \cup Editors
States == Waiting \cup {"idle", "queued", "ok", "err", "closing", "saved"}

Types ==
  /\ pc \in [Actors -> States]
  /\ queue \in Seq(Activators)
  /\ active \in Ids \cup {None}
  /\ target \in [Actors -> Ids \cup {None}]
  /\ previous \in [Actors -> Ids \cup {None}]

\* Panes and removals never stand in the queue, and only editors close and save.
Roles ==
  /\ \A a \in Requests : pc[a] # "closing"
  /\ \A a \in Panes : pc[a] \in {"idle", "open", "ok", "err"}
  /\ \A a \in Removers : pc[a] \in {"idle", "ok"}

\* The queue holds every activation that is not over, once, and only its head
\* has begun.
QueueInv ==
  /\ \A m, n \in 1..Len(queue) : queue[m] = queue[n] => m = n
  /\ \A n \in 1..Len(queue) :
       pc[queue[n]] \in Waiting \cup {"queued"} /\ (n # 1 => pc[queue[n]] = "queued")
  /\ \A a \in Performing : queue # <<>> /\ a = queue[1]

Inv == Types /\ Roles /\ QueueInv /\ PreviousIsActive

LEMMA InitInv == Init => Inv
  BY DEF Init, Inv, Types, Roles, QueueInv, PreviousIsActive, Performing, States, Waiting,
         Activators, Actors

-----------------------------------------------------------------------------

\* The head of the queue ends.
LEMMA FinishStep ==
  ASSUME Inv, NEW a \in Activators, queue # <<>>, a = queue[1], NEW s \in {"ok", "err"},
         Finish(a, s), active' \in Ids \cup {None},
         target' \in [Actors -> Ids \cup {None}], previous' \in [Actors -> Ids \cup {None}]
  PROVE  Inv'
<1> USE DEF Inv, Types, Finish, Go
<1>1. /\ a \in Actors
      /\ queue' \in Seq(Activators) /\ Len(queue') = Len(queue) - 1
      /\ \A n \in 1..Len(queue') : queue'[n] = queue[n + 1]
  BY DEF Activators, Actors
<1>2. Types'
  BY <1>1 DEF States
<1>3. Roles'
  BY <1>1, ActorsHaveOneRole DEF Roles, Activators, Actors, Waiting
<1>4. \A b \in Activators : pc'[b] \in Waiting => b # a /\ b \in Performing
  BY <1>1 DEF Waiting, Performing, Activators, Actors
<1>5. Performing' = {}
  BY <1>4 DEF Performing, QueueInv, Activators
<1>6. QueueInv'
  BY <1>1, <1>5 DEF QueueInv
<1> QED
  BY <1>2, <1>3, <1>5, <1>6 DEF PreviousIsActive

\* The head of the queue goes on.
LEMMA GoStep ==
  ASSUME Inv, NEW a \in Activators, queue # <<>>, a = queue[1], NEW s \in Waiting,
         Go(a, s), UNCHANGED <<queue, active, target>>,
         \/ a \in Performing /\ previous' = previous
         \/ previous' = [previous EXCEPT ![a] = active]
  PROVE  Inv'
<1> USE DEF Inv, Types, Go
<1>1. a \in Actors /\ Len(queue) \in Nat /\ \A n \in 1..Len(queue) : queue[n] \in Actors
  BY DEF Activators, Actors
<1>2. Types'
  BY <1>1 DEF States
<1>3. Roles'
  BY <1>1, ActorsHaveOneRole DEF Roles, Activators, Actors, Waiting
<1>4. Performing' \subseteq {a}
  BY <1>1 DEF Performing, QueueInv, Activators, Actors
<1>5. QueueInv'
  BY <1>1, <1>4 DEF QueueInv
<1>6. PreviousIsActive'
  BY <1>1, <1>4 DEF PreviousIsActive
<1> QED
  BY <1>2, <1>3, <1>5, <1>6

\* Somebody acts who is not in the queue.
LEMMA OutsideStep ==
  ASSUME Inv, NEW a \in Actors, NEW s \in States, Go(a, s),
         UNCHANGED <<queue, previous>>,
         \/ a \in Panes /\ s \in {"open", "ok", "err"}
         \/ a \in Removers /\ s = "ok"
         \/ a \in Editors /\ s \notin Waiting /\ pc[a] \notin Waiting \cup {"queued"},
         active' \in {active, None}, target' \in [Actors -> Ids \cup {None}]
  PROVE  Inv'
<1> USE DEF Inv, Types, Go
<1>1. Len(queue) \in Nat /\ \A n \in 1..Len(queue) : queue[n] \in Activators
  OBVIOUS
<1>2. Types'
  OBVIOUS
<1>3. Roles'
  BY ActorsHaveOneRole DEF Roles, Actors
<1>4. Performing' = Performing
  BY ActorsHaveOneRole DEF Performing, Activators, Actors
<1>5. \A n \in 1..Len(queue) : queue[n] # a
  BY <1>1, ActorsHaveOneRole DEF QueueInv, Activators
<1>6. QueueInv'
  BY <1>1, <1>4, <1>5 DEF QueueInv, Activators, Actors
<1>7. PreviousIsActive'
  BY <1>4 DEF PreviousIsActive
<1> QED
  BY <1>2, <1>3, <1>6, <1>7

\* An activation joins the queue.
LEMMA JoinStep ==
  ASSUME Inv, NEW a \in Activators, pc[a] = "idle", Go(a, "queued"), queue' = Append(queue, a),
         UNCHANGED <<active, previous>>, target' \in [Actors -> Ids \cup {None}]
  PROVE  Inv'
<1> USE DEF Inv, Types, Go
<1>1. /\ a \in Actors /\ Len(queue) \in Nat
      /\ \A n \in 1..Len(queue) : queue[n] \in Actors /\ queue[n] # a
  <2>1. Activators \subseteq Actors
    BY DEF Activators, Actors
  <2>2. Len(queue) \in Nat /\ \A n \in 1..Len(queue) : queue[n] \in Activators
    OBVIOUS
  <2>3. \A n \in 1..Len(queue) : pc[queue[n]] # "idle"
    BY DEF QueueInv, Waiting
  <2> QED
    BY <2>1, <2>2, <2>3
<1>2. /\ queue' \in Seq(Activators) /\ Len(queue') = Len(queue) + 1
      /\ queue'[Len(queue) + 1] = a
      /\ \A n \in 1..Len(queue) : queue'[n] = queue[n]
  BY <1>1
<1>3. Types'
  BY <1>1, <1>2 DEF States
<1>4. Roles'
  BY <1>1, ActorsHaveOneRole DEF Roles, Activators, Actors, Waiting
<1>5. Performing' = Performing
  BY <1>1 DEF Performing, Waiting, Activators, Actors
<1>6. QueueInv'
  <2>1. \A n \in 1..Len(queue') : n = Len(queue) + 1 \/ n \in 1..Len(queue)
    BY <1>1, <1>2
  <2>2. \A n \in 1..Len(queue) : pc'[queue[n]] = pc[queue[n]]
    BY <1>1
  <2>3. \A m, n \in 1..Len(queue') : queue'[m] = queue'[n] => m = n
    BY <1>1, <1>2, <2>1 DEF QueueInv
  <2>4. \A n \in 1..Len(queue') :
          pc'[queue'[n]] \in Waiting \cup {"queued"} /\ (n # 1 => pc'[queue'[n]] = "queued")
    BY <1>1, <1>2, <2>1, <2>2 DEF QueueInv
  <2>5. \A b \in Performing' : queue' # <<>> /\ b = queue'[1]
    BY <1>1, <1>2, <1>5 DEF QueueInv
  <2> QED
    BY <2>3, <2>4, <2>5 DEF QueueInv
<1>7. PreviousIsActive'
  BY <1>5 DEF PreviousIsActive
<1> QED
  BY <1>3, <1>4, <1>6, <1>7

-----------------------------------------------------------------------------
(* The actions. *)

\* Whoever waits in an activation is the head of the queue.
LEMMA PerformerIsHead ==
  ASSUME Inv, NEW a \in Actors,
         pc[a] \in Waiting \ {"open"} \/ (pc[a] = "open" /\ a \notin Panes)
  PROVE  a \in Activators /\ a \in Performing /\ queue # <<>> /\ a = queue[1]
  BY DEF Inv, Roles, QueueInv, Performing, Waiting, Activators, Actors

\* The connection left is the previous one; it becomes the goal at the end.
LEMMA LeaveStep ==
  ASSUME Inv, NEW a \in Activators, queue # <<>>, a = queue[1],
         NEW old, NEW had, Leave(a, old, had), UNCHANGED target,
         \/ a \in Performing /\ previous' = previous
         \/ previous' = [previous EXCEPT ![a] = active]
  PROVE  Inv'
<1>1. Goal(a) \in Ids \cup {None} /\ previous' \in [Actors -> Ids \cup {None}]
  BY DEF Inv, Types, Goal, Activators, Actors
<1>2. \/ Finish(a, "ok") /\ active' = Goal(a)
      \/ /\ Go(a, "closeOld") \/ Go(a, "set")
         /\ UNCHANGED <<active, queue>>
  BY DEF Leave
<1> QED
  BY <1>1, <1>2, FinishStep, GoStep DEF Inv, Types, Waiting

LEMMA BeginStep ==
  ASSUME Inv, NEW a \in Actors, Begin(a)
  PROVE  Inv'
<1>1. a \in Activators /\ queue # <<>> /\ a = queue[1] /\ UNCHANGED target
  BY DEF Begin, Turn, Inv, Types
<1>2. previous' = [previous EXCEPT ![a] = active]
  BY DEF Begin
<1>3. previous' \in [Actors -> Ids \cup {None}]
  BY <1>2 DEF Inv, Types
<1>4. \/ Finish(a, "err") /\ UNCHANGED active
      \/ Leave(a, active, a \in hadTunnel')
      \/ /\ UNCHANGED <<active, queue>>
         /\ Go(a, "test") \/ Go(a, "list") \/ Go(a, "open")
  BY DEF Begin
<1> QED
  BY <1>1, <1>2, <1>3, <1>4, FinishStep, LeaveStep, GoStep DEF Inv, Types, Waiting

LEMMA ReplySteps ==
  ASSUME Inv, NEW a \in Actors, Listed(a) \/ Opened(a) \/ TestPassed(a) \/ TestFailed(a)
  PROVE  Inv'
<1>1. pc[a] \in Waiting \ {"open"} \/ (pc[a] = "open" /\ a \notin Panes)
  BY DEF Listed, Opened, TestPassed, TestFailed, Waiting
<1>2. a \in Activators /\ a \in Performing /\ queue # <<>> /\ a = queue[1]
  BY <1>1, PerformerIsHead
<1>3. UNCHANGED <<previous, target>>
  BY DEF Listed, Opened, TestPassed, TestFailed
<1>4. \/ Finish(a, "err") /\ UNCHANGED active
      \/ Leave(a, previous[a], a \in hadTunnel)
      \/ /\ UNCHANGED <<active, queue>>
         /\ Go(a, "test") \/ Go(a, "open") \/ Go(a, "closeNew")
  BY DEF Listed, Opened, StartTest, TestPassed, TestFailed
<1> QED
  BY <1>2, <1>3, <1>4, FinishStep, LeaveStep, GoStep DEF Inv, Types, Waiting

LEMMA LastSteps ==
  ASSUME Inv, NEW a \in Actors, ClosedNew(a) \/ ClosedOld(a) \/ SetActive(a)
  PROVE  Inv'
<1>1. pc[a] \in Waiting \ {"open"}
  BY DEF ClosedNew, ClosedOld, SetActive, Waiting
<1>2. a \in Activators /\ a \in Performing /\ queue # <<>> /\ a = queue[1]
  BY <1>1, PerformerIsHead
<1>3. UNCHANGED <<previous, target>> /\ Goal(a) \in Ids \cup {None}
  BY <1>2 DEF ClosedNew, ClosedOld, SetActive, Goal, Inv, Types, Activators
<1>4. \/ Finish(a, "err") /\ UNCHANGED active
      \/ Go(a, "set") /\ UNCHANGED <<active, queue>>
      \/ Finish(a, "ok") /\ active' = Goal(a)
  BY DEF ClosedNew, ClosedOld, SetActive
<1> QED
  BY <1>2, <1>3, <1>4, FinishStep, GoStep DEF Inv, Types, Waiting

LEMMA EditorAndPaneSteps ==
  ASSUME Inv, NEW a \in Actors, CloseEdited(a) \/ SaveEdited(a) \/ PaneOpened(a)
  PROVE  Inv'
<1>1. CASE CloseEdited(a)
  BY <1>1, OutsideStep DEF CloseEdited, Inv, Types, States, Waiting
<1>2. CASE SaveEdited(a)
  <2>1. a \in Editors
    BY <1>2 DEF SaveEdited, Inv, Roles, Types, Actors, Waiting
  <2> QED
    BY <1>2, <2>1, OutsideStep DEF SaveEdited, Inv, Types, States, Waiting
<1>3. CASE PaneOpened(a)
  BY <1>3, OutsideStep DEF PaneOpened, Replied, Inv, Types, States
<1> QED
  BY <1>1, <1>2, <1>3

LEMMA UserStep ==
  ASSUME Inv, User
  PROVE  Inv'
<1>1. ASSUME NEW a \in Requests, NEW i \in Ids \cup {None}, Request(a, i) PROVE Inv'
  BY <1>1, JoinStep DEF Request, Inv, Types, Activators, Actors
<1>2. ASSUME NEW e \in Editors, NEW i \in Ids, NEW x \in Configs, StartEdit(e, i, x) PROVE Inv'
  <2>1. e \in Activators /\ e \in Actors /\ pc[e] = "idle" /\ UNCHANGED <<active, previous>>
        /\ target' \in [Actors -> Ids \cup {None}]
    BY <1>2 DEF StartEdit, Inv, Types, Activators, Actors
  <2>2. \/ Go(e, "queued") /\ queue' = Append(queue, e)
        \/ Go(e, "ok") /\ UNCHANGED queue
    BY <1>2 DEF StartEdit
  <2> QED
    BY <2>1, <2>2, JoinStep, OutsideStep DEF States, Waiting
<1>3. ASSUME NEW p \in Panes, NEW i \in Ids, ChoosePane(p, i) PROVE Inv'
  BY <1>3, OutsideStep DEF ChoosePane, Inv, Types, Actors, States, Waiting
<1>4. ASSUME NEW m \in Removers, NEW i \in Ids, Remove(m, i) PROVE Inv'
  BY <1>4, OutsideStep DEF Remove, Inv, Types, Actors, States
<1>5. CASE BeginTransaction \/ EndTransaction
  BY <1>5 DEF BeginTransaction, EndTransaction, Inv, Types, Roles, QueueInv, PreviousIsActive,
              Performing
<1> QED
  BY <1>1, <1>2, <1>3, <1>4, <1>5 DEF User

LEMMA Step == Inv /\ [Next]_vars => Inv'
<1> SUFFICES ASSUME Inv, [Next]_vars PROVE Inv'
  OBVIOUS
<1>1. ASSUME NEW a \in Actors, Handler(a) PROVE Inv'
  BY <1>1, BeginStep, ReplySteps, LastSteps, EditorAndPaneSteps DEF Handler
<1>2. ASSUME UNCHANGED uiVars PROVE Inv'
  BY <1>2 DEF uiVars, Inv, Types, Roles, QueueInv, PreviousIsActive, Performing
<1> QED
  BY <1>1, <1>2, UserStep DEF Next, Opens, Answers, vars

\* While an activation is under way, the connection it found active is still
\* active, unless it was removed (activateConnection, activationQueue), for any
\* number of activations, edits, panes and removals.
THEOREM ActivationsTakeTurns == Spec => []PreviousIsActive
<1>1. Inv => PreviousIsActive
  BY DEF Inv
<1> QED
  BY <1>1, InitInv, Step, PTL DEF Spec

-----------------------------------------------------------------------------
(* Types. *)

\* What an activation lists, opens, tests or closes is a connection.
ArgumentInv ==
  \A a \in Actors :
    /\ pc[a] \in {"list", "open", "test", "closeNew"} => target[a] \in Ids
    /\ pc[a] = "list" => next[a] \in Configs
    /\ pc[a] = "closeOld" => previous[a] \in Ids

\* A command of the backend has an id, an open has a configuration.
CallInv ==
  \A a \in Actors :
    /\ state[a] \in Backend!Pending => id[a] \in Ids
    /\ state[a] \in {"open", "replace", "connect", "insert"} => config[a] \in Configs
    /\ state[a] = "insert" => port[a] \in Ports

WindowTypes ==
  /\ saved \in [Ids -> Configs \cup {None}]
  /\ tunnelPort \in [Ids -> Ports \cup {None}]
  /\ openTx \subseteq Ids
  /\ next \in [Actors -> Configs \cup {None}]
  /\ hadTunnel \subseteq Actors
  /\ touched \subseteq Actors

\* What the window asks the backend for.
Call ==
  \/ UNCHANGED backendVars
  \/ \E a \in Actors, i \in Ids :
       \/ Backend!Close(a, i) \/ Backend!List(a, i)
       \/ \E x \in Configs : Backend!Open(a, i, x)

BackendTypes == Backend!TypeOK /\ CallInv
Typed == WindowTypes /\ ArgumentInv /\ BackendTypes

LEMMA TypedInit == Init => Typed
<1> SUFFICES ASSUME Init PROVE Typed
  OBVIOUS
<1> USE DEF Init, Backend!Init
<1>1. WindowTypes /\ ArgumentInv
  BY DEF WindowTypes, ArgumentInv
<1>2. Backend!TypeOK
  BY DEF Backend!TypeOK
<1>3. CallInv
  BY DEF CallInv, Backend!Pending
<1> QED
  BY <1>1, <1>2, <1>3 DEF Typed, BackendTypes

LEMMA CallTypes == BackendTypes /\ Call => BackendTypes'
<1> SUFFICES ASSUME BackendTypes, Call PROVE BackendTypes'
  OBVIOUS
<1> USE DEF BackendTypes, Backend!TypeOK, CallInv, Backend!Pending
<1>1. CASE UNCHANGED backendVars
  BY <1>1 DEF backendVars
<1>2. ASSUME NEW a \in Actors, NEW i \in Ids, NEW x \in Configs \cup {None},
             NEW s \in {"open", "close", "list"}, s = "open" => x # None,
             Backend!Command(a, s, i, x)
      PROVE  BackendTypes'
  BY <1>2 DEF Backend!Command, Backend!Go
<1> QED
  BY <1>1, <1>2, TunnelsAssume
     DEF Call, Backend!Open, Backend!Close, Backend!List, Backend!Assumptions

LEMMA AnswerTypes ==
  ASSUME BackendTypes, NEW a \in Actors,
         Backend!Opens(a) \/ Backend!Closed(a) \/ Backend!Listed(a)
  PROVE  BackendTypes'
<1> USE DEF BackendTypes, Backend!TypeOK, CallInv, Backend!Pending, Backend!Go
<1>1. CASE Backend!Find(a)
  BY <1>1, TunnelsAssume DEF Backend!Find, Backend!Assumptions
<1>2. CASE Backend!Connect(a)
  BY <1>2 DEF Backend!Connect
<1>3. CASE Backend!Insert(a)
  BY <1>3 DEF Backend!Insert
<1>4. CASE Backend!TimeOut(a)
  BY <1>4 DEF Backend!TimeOut, Backend!Awaits
<1>5. CASE Backend!Closed(a) \/ Backend!Listed(a)
  BY <1>5 DEF Backend!Closed, Backend!Listed, Backend!Without
<1> QED
  BY <1>1, <1>2, <1>3, <1>4, <1>5 DEF Backend!Opens

LEMMA WindowStep ==
  ASSUME Inv, Inv', Typed, NEW a \in Actors, Handler(a)
  PROVE  WindowTypes' /\ ArgumentInv' /\ Call
<1> USE TunnelsAssume, SshAreConnections, ActorsHaveOneRole
        DEF Inv, Types, Typed, WindowTypes, ArgumentInv, Go, Finish
<1>1. CASE Begin(a)
  <2> USE <1>1 DEF Begin
  <2>1. a \in Activators /\ (Goal(a) = None \/ Goal(a) = target[a])
    BY DEF Turn, Goal
  <2>2. Refused(a) \/ Goal(a) = None \/ (target[a] \in Ids /\ saved[target[a]] \in Configs)
    BY <2>1 DEF Refused
  <2>3. WindowTypes'
    BY <2>2
  <2>4. ArgumentInv'
    BY <2>1, <2>2, SMTT(60) DEF Leave
  <2>5. Call
    BY <2>1, <2>2, SMTT(60) DEF Leave, Call
  <2> QED
    BY <2>3, <2>4, <2>5
<1>2. CASE Listed(a) \/ Opened(a)
  <2> USE <1>2 DEF Listed, Opened, StartTest, Learn
  <2>1. target[a] \in Ids
    OBVIOUS
  <2>2. WindowTypes'
    BY <2>1 DEF BackendTypes, Backend!TypeOK
  <2>3. ArgumentInv'
    BY <2>1
  <2>4. Call
    BY <2>1 DEF Call
  <2> QED
    BY <2>2, <2>3, <2>4
<1>3. CASE TestPassed(a)
  <2> USE <1>3 DEF TestPassed, Leave
  <2>1. WindowTypes' /\ ArgumentInv'
    BY SMTT(60)
  <2>2. Call
    BY SMTT(60) DEF Call
  <2> QED
    BY <2>1, <2>2
<1>4. CASE TestFailed(a)
  BY <1>4, SMTT(60) DEF TestFailed, Call
<1>5. CASE ClosedNew(a) \/ ClosedOld(a) \/ SetActive(a)
  BY <1>5, SMTT(60) DEF ClosedNew, ClosedOld, SetActive, Forget, Touch, Call
<1>6. CASE CloseEdited(a)
  BY <1>6, SMTT(60) DEF CloseEdited, Call
<1>7. CASE SaveEdited(a) \/ PaneOpened(a)
  <2> USE <1>7 DEF SaveEdited, PaneOpened, Forget, Touch, Learn
  <2>1. WindowTypes'
    BY SMTT(60) DEF BackendTypes, Backend!TypeOK
  <2>2. ArgumentInv' /\ Call
    BY SMTT(60) DEF Call, Replied
  <2> QED
    BY <2>1, <2>2
<1> QED
  BY <1>1, <1>2, <1>3, <1>4, <1>5, <1>6, <1>7 DEF Handler

LEMMA UserTypes ==
  ASSUME Inv, Inv', Typed, User
  PROVE  WindowTypes' /\ ArgumentInv' /\ Call
<1> USE DEF Inv, Types, Typed, WindowTypes, ArgumentInv, Go, Actors
<1>1. ASSUME NEW a \in Requests, NEW i \in Ids \cup {None}, Request(a, i)
      PROVE  WindowTypes' /\ ArgumentInv' /\ Call
  BY <1>1 DEF Request, Call
<1>2. ASSUME NEW e \in Editors, NEW i \in Ids, NEW x \in Configs, StartEdit(e, i, x)
      PROVE  WindowTypes' /\ ArgumentInv' /\ Call
  BY <1>2, SMTT(60) DEF StartEdit, Call
<1>3. ASSUME NEW p \in Panes, NEW i \in Ids, ChoosePane(p, i)
      PROVE  WindowTypes' /\ ArgumentInv' /\ Call
  BY <1>3 DEF ChoosePane, Call
<1>4. ASSUME NEW m \in Removers, NEW i \in Ids, Remove(m, i)
      PROVE  WindowTypes' /\ ArgumentInv' /\ Call
  BY <1>4 DEF Remove, Touch, Call
<1>5. CASE BeginTransaction \/ EndTransaction
  BY <1>5 DEF BeginTransaction, EndTransaction, Call
<1> QED
  BY <1>1, <1>2, <1>3, <1>4, <1>5 DEF User

LEMMA TypedStep == Inv /\ Inv' /\ Typed /\ [Next]_vars => Typed'
<1> SUFFICES ASSUME Inv, Inv', Typed, [Next]_vars PROVE Typed'
  OBVIOUS
<1>1. ASSUME UNCHANGED uiVars PROVE WindowTypes' /\ ArgumentInv'
  BY <1>1 DEF uiVars, WindowTypes, ArgumentInv, Typed
<1>2. CASE UNCHANGED vars
  BY <1>1, <1>2, CallTypes DEF vars, Call, Typed
<1>3. ASSUME NEW a \in Actors, Opens(a) \/ Answers(a) PROVE Typed'
  <2>1. BackendTypes'
    BY <1>3, AnswerTypes DEF Opens, Answers, Typed
  <2>2. WindowTypes' /\ ArgumentInv'
    BY <1>1, <1>3 DEF Opens, Answers
  <2> QED
    BY <2>1, <2>2 DEF Typed
<1>4. ASSUME NEW a \in Actors, Handler(a) PROVE Typed'
  BY <1>4, WindowStep, CallTypes DEF Typed
<1>5. CASE User
  BY <1>5, UserTypes, CallTypes DEF Typed
<1> QED
  BY <1>2, <1>3, <1>4, <1>5 DEF Next

\* The window and the backend keep the types of their variables: every command
\* names a connection, and a tunnel is inserted with a configuration and a port.
THEOREM TypeCorrect == Spec => []TypeOK
<1>1. Inv /\ Typed => TypeOK
  BY DEF Inv, Types, Typed, WindowTypes, BackendTypes, TypeOK, States, Activators
<1> QED
  BY <1>1, InitInv, Step, TypedInit, TypedStep, PTL DEF Spec

-----------------------------------------------------------------------------
(* The tunnels, as long as no edit and no pane of its own interferes. *)

Closing(i) ==
  \E a \in Actors : \/ pc[a] = "closeNew" /\ target[a] = i
                    \/ pc[a] = "closeOld" /\ previous[a] = i

\* Nobody meets a tunnel of another configuration: the lock of the map is never
\* held across an await, and no open is dropped between bind and insert.
CalmInv ==
  /\ lock = None /\ ~raced
  /\ \A a \in Actors : state[a] # "replace"

\* The commands under way are those of the activation that runs, and the closes
\* of removed connections.
CommandInv ==
  \A a \in Actors :
    /\ state[a] \in {"open", "connect", "insert"} => pc[a] = "open"
    /\ state[a] = "list" => pc[a] = "list"
    /\ state[a] = "close" /\ a \in Requests => pc[a] \in {"closeNew", "closeOld"}
    /\ a \in Removers => state[a] \in {"idle", "close", "ok"}
    /\ a \in Editors \cup Panes /\ pc[a] = "idle" => state[a] = "idle"
    /\ a \in Removers /\ state[a] = "close" => saved[id[a]] = None
    /\ pc[a] = "open" => state[a] \in {"open", "connect", "insert", "ok", "err"}
    /\ pc[a] = "list" => state[a] \in {"list", "ok", "err"}
    /\ pc[a] \in {"closeNew", "closeOld"} => state[a] \in {"close", "ok"}
    /\ pc[a] \in {"open", "list", "closeNew"} => id[a] = target[a]
    /\ pc[a] = "closeOld" => id[a] = previous[a]

\* The forwarders are those of the tunnels and of the one being inserted.
RunningInv ==
  /\ \A i \in Ids : tunnels[i] # None => tunnels[i][2] \in running
  /\ \A i, j \in Ids : i # j /\ tunnels[i] # None /\ tunnels[j] # None
                         => tunnels[i][2] # tunnels[j][2]
  /\ \A a \in Actors : state[a] = "insert" =>
       /\ port[a] \in running
       /\ \A i \in Ids : tunnels[i] # None => tunnels[i][2] # port[a]
  /\ \A p \in running : \/ \E i \in Ids : tunnels[i] # None /\ tunnels[i][2] = p
                        \/ \E a \in Actors : state[a] = "insert" /\ port[a] = p

\* What the window knows of a tunnel, and what the backend has.
PortInv ==
  \A i \in Ids :
    /\ tunnelPort[i] # None => saved[i] # None
    /\ tunnelPort[i] # None =>
         Closing(i) \/ (tunnels[i] # None /\ tunnels[i][2] = tunnelPort[i])
    /\ tunnels[i] # None /\ saved[i] # None =>
         \/ tunnelPort[i] # None
         \/ \E a \in Actors : pc[a] = "open" /\ target[a] = i /\ state[a] = "ok"

\* What the running activation knows of the tunnel of its connection.
AnswerInv ==
  \A a \in Actors :
    /\ pc[a] = "open" /\ state[a] \in {"open", "connect", "insert", "err"} =>
         tunnels[target[a]] = None
    /\ pc[a] = "open" /\ state[a] = "ok" /\ saved[target[a]] # None =>
         tunnels[target[a]] # None /\ tunnels[target[a]][2] = port[a]
    /\ pc[a] = "list" /\ state[a] = "err" => tunnels[target[a]] = None
    /\ pc[a] = "closeNew" /\ state[a] = "ok" => tunnels[target[a]] = None
    /\ pc[a] = "closeOld" /\ state[a] = "ok" => tunnels[previous[a]] = None

TunnelInv == CalmInv /\ CommandInv /\ RunningInv /\ PortInv /\ AnswerInv

\* At most one activation is under way.
Sole == \A a, b \in Actors : pc[a] \in Waiting /\ pc[b] \in Waiting => a = b

Calm == Inv /\ Typed /\ Undisturbed /\ Sole /\ TunnelInv

LEMMA SoleHolds == Undisturbed /\ Inv => Sole
  BY DEF Undisturbed, Inv, Types, Roles, QueueInv, Sole, Performing, Waiting, Actors

LEMMA TunnelInit == Init => TunnelInv
<1> SUFFICES ASSUME Init PROVE TunnelInv
  OBVIOUS
<1> USE DEF Init, Backend!Init
<1>1. CalmInv /\ CommandInv
  BY DEF CalmInv, CommandInv
<1>2. RunningInv /\ PortInv /\ AnswerInv
  BY DEF RunningInv, PortInv, AnswerInv
<1> QED
  BY <1>1, <1>2 DEF TunnelInv

LEMMA RequestTunnel ==
  ASSUME Calm, NEW a \in Requests, NEW i \in Ids \cup {None}, Request(a, i)
  PROVE  TunnelInv'
<1> USE DEF Calm, TunnelInv, Inv, Types, Roles, Typed, WindowTypes, ArgumentInv,
        BackendTypes, Backend!TypeOK, CallInv, Backend!Pending, Waiting, Actors, Request,
        Go, Finish, Backend!Close, Backend!List, Backend!Open, Backend!Command,
        Backend!Go, backendVars
<1>1. CalmInv'
  BY SMTT(60) DEF CalmInv, CommandInv, AnswerInv
<1>2. CommandInv'
  BY SMTT(60) DEF CommandInv, AnswerInv, Sole
<1>3. RunningInv'
  BY SMTT(60) DEF RunningInv, CalmInv, CommandInv, AnswerInv
<1>4. PortInv'
  BY SMTT(60) DEF PortInv, CalmInv, CommandInv, AnswerInv, Closing, Sole
<1>5. AnswerInv'
  BY SMTT(60) DEF AnswerInv, CalmInv, CommandInv, Sole, PortInv, Closing
<1> QED
  BY <1>1, <1>2, <1>3, <1>4, <1>5

LEMMA RemoveTunnel ==
  ASSUME Calm, NEW m \in Removers, NEW i \in Ids, Remove(m, i)
  PROVE  TunnelInv'
<1> USE DEF Calm, TunnelInv, Inv, Types, Roles, Typed, WindowTypes, ArgumentInv,
        BackendTypes, Backend!TypeOK, CallInv, Backend!Pending, Waiting, Actors, Remove,
        Touch, Go, Finish, Backend!Close, Backend!List, Backend!Open, Backend!Command,
        Backend!Go, backendVars
<1>1. CalmInv'
  BY SMTT(60) DEF CalmInv, CommandInv, AnswerInv
<1>2. CommandInv'
  BY ActorsHaveOneRole, SMTT(60) DEF CommandInv
<1>3. RunningInv'
  BY SMTT(60) DEF RunningInv, CalmInv, CommandInv, AnswerInv
<1>4. PortInv'
  BY SMTT(60) DEF PortInv, CalmInv, CommandInv, AnswerInv, Closing, Sole
<1>5. AnswerInv'
  BY SMTT(60) DEF AnswerInv, CalmInv, CommandInv, Sole, PortInv, Closing
<1> QED
  BY <1>1, <1>2, <1>3, <1>4, <1>5

LEMMA BeginTunnel ==
  ASSUME Calm, NEW a \in Actors, Begin(a)
  PROVE  TunnelInv'
<1> USE DEF Calm, Inv, Types, Typed, WindowTypes, BackendTypes, Backend!TypeOK
<1>1. queue # <<>> /\ a = queue[1] /\ a \in Requests /\ pc[a] = "queued"
  BY DEF Begin, Turn, Activators, Undisturbed
<1>2. \A b \in Actors : pc[b] \notin Waiting
  <2>1. \A b \in Actors : b \in Performing \/ pc[b] \notin Waiting
    BY DEF Performing, Roles, Undisturbed, Actors, Waiting
  <2> QED
    BY <1>1, <2>1 DEF QueueInv, Performing, Waiting
<1>3. state[a] \notin Backend!Pending
  BY <1>1 DEF TunnelInv, CalmInv, CommandInv, Backend!Pending, Waiting
<1>4. /\ UNCHANGED <<saved, tunnelPort, target, tunnels, running, lock, raced>>
      /\ \A b \in Actors : b # a => UNCHANGED <<pc[b], state[b], id[b], port[b], previous[b]>>
  <2>1. UNCHANGED <<saved, tunnelPort, target, tunnels, running, lock, raced>>
    BY DEF Begin, Leave, Backend!Close, Backend!List, Backend!Open, Backend!Command, backendVars
  <2>2. \A b \in Actors : b # a => UNCHANGED <<pc[b], state[b], id[b], port[b], previous[b]>>
    BY DEF Begin, Leave, Finish, Go, Backend!Close, Backend!List, Backend!Open, Backend!Command,
           Backend!Go, backendVars
  <2> QED
    BY <2>1, <2>2
<1>5. \/ pc'[a] \in {"ok", "err", "set", "test"} /\ state'[a] = state[a]
      \/ pc'[a] = "closeOld" /\ state'[a] = "close" /\ id'[a] = previous'[a]
      \/ pc'[a] = "list" /\ state'[a] = "list" /\ id'[a] = target[a]
      \/ /\ pc'[a] = "open" /\ state'[a] = "open" /\ id'[a] = target[a]
         /\ target[a] \in Ids /\ tunnelPort[target[a]] = None /\ saved[target[a]] # None
  <2> USE DEF Begin
  <2>1. CASE Refused(a)
    BY <2>1 DEF Finish, Go, backendVars
  <2>2. CASE ~Refused(a) /\ Goal(a) = None
    BY <2>2 DEF Leave, Finish, Go, Backend!Close, Backend!Command, Backend!Go, backendVars
  <2>3. CASE ~Refused(a) /\ Goal(a) # None
    <3>1. target[a] \in Ids /\ saved[target[a]] # None
      BY <2>3 DEF Refused, Goal
    <3> QED
      BY <2>3, <3>1 DEF Go, Backend!List, Backend!Open, Backend!Command, Backend!Go, backendVars
  <2> QED
    BY <2>1, <2>2, <2>3
<1>6. CalmInv'
  BY <1>4, <1>5 DEF TunnelInv, CalmInv
<1>7. CommandInv'
  BY <1>1, <1>3, <1>4, <1>5, ActorsHaveOneRole DEF TunnelInv, CommandInv, Backend!Pending
<1>8. RunningInv'
  <2>1. \A b \in Actors : /\ state'[b] = "insert" <=> state[b] = "insert"
                          /\ state[b] = "insert" => port'[b] = port[b]
    BY <1>3, <1>4, <1>5 DEF Backend!Pending
  <2> QED
    BY <1>4, <2>1 DEF TunnelInv, RunningInv
<1>9. PortInv'
  <2>1. \A i \in Ids : ~Closing(i)
    BY <1>2 DEF Closing, Waiting
  <2> QED
    BY <1>2, <1>4, <2>1 DEF TunnelInv, PortInv, Waiting
<1>10. AnswerInv'
  <2>1. pc'[a] = "open" => tunnels[target[a]] = None
    BY <1>2, <1>5 DEF TunnelInv, PortInv, Waiting
  <2> QED
    BY <1>2, <1>4, <1>5, <2>1 DEF AnswerInv, Waiting
<1> QED
  BY <1>6, <1>7, <1>8, <1>9, <1>10 DEF TunnelInv

LEMMA ListedTunnel ==
  ASSUME Calm, NEW a \in Actors, Listed(a)
  PROVE  TunnelInv'
<1> USE DEF Calm, TunnelInv, Inv, Types, Roles, Typed, WindowTypes, ArgumentInv,
        BackendTypes, Backend!TypeOK, CallInv, Backend!Pending, Waiting, Actors, Listed,
        StartTest, Replied, Go, Finish, Backend!Close, Backend!List, Backend!Open,
        Backend!Command, Backend!Go, backendVars
<1>1. CalmInv'
  BY SMTT(60) DEF CalmInv, CommandInv, AnswerInv
<1>2. CommandInv'
  BY SMTT(60) DEF CommandInv, AnswerInv, Sole
<1>3. RunningInv'
  <2>1. UNCHANGED <<tunnels, running>>
    OBVIOUS
  <2>2. \A b \in Actors : /\ state'[b] = "insert" <=> state[b] = "insert"
                          /\ state[b] = "insert" => port'[b] = port[b]
    OBVIOUS
  <2>3. RunningInv
    OBVIOUS
  <2> QED
    BY <2>1, <2>2, <2>3, SMTT(60) DEF RunningInv
<1>4. PortInv'
  BY SMTT(60) DEF PortInv, CalmInv, CommandInv, AnswerInv, Closing, Sole
<1>5. AnswerInv'
  BY SMTT(60) DEF AnswerInv, CalmInv, CommandInv, Sole, PortInv, Closing
<1> QED
  BY <1>1, <1>2, <1>3, <1>4, <1>5

LEMMA OpenedTunnel ==
  ASSUME Calm, NEW a \in Actors, Opened(a)
  PROVE  TunnelInv'
<1> USE DEF Calm, TunnelInv, Inv, Types, Roles, Typed, WindowTypes, ArgumentInv,
        BackendTypes, Backend!TypeOK, CallInv, Backend!Pending, Waiting, Actors, Opened,
        StartTest, Learn, Replied, Go, Finish, Backend!Close, Backend!List, Backend!Open,
        Backend!Command, Backend!Go, backendVars
<1>1. CalmInv'
  BY SMTT(60) DEF CalmInv, CommandInv, AnswerInv
<1>2. CommandInv'
  BY SMTT(60) DEF CommandInv, AnswerInv, Sole
<1>3. RunningInv'
  BY SMTT(60) DEF RunningInv, CalmInv, CommandInv, AnswerInv
<1>4. PortInv'
  <2>1. \A b \in Actors : pc[b] = "open" => b = a
    BY DEF Sole
  <2>2. \A b \in Actors : pc[b] \notin {"closeNew", "closeOld"}
    BY DEF Sole
  <2>3. /\ UNCHANGED <<tunnels, saved>> /\ target[a] \in Ids
        /\ \A i \in Ids : i # target[a] => tunnelPort'[i] = tunnelPort[i]
    OBVIOUS
  <2>4. CASE state[a] = "ok"
    <3>1. tunnelPort' = IF saved[target[a]] = None THEN tunnelPort
                        ELSE [tunnelPort EXCEPT ![target[a]] = port[a]]
      BY <2>4
    <3> DEFINE t == target[a]
    <3>2. saved[t] # None => /\ tunnels[t] # None /\ tunnels[t][2] = port[a]
                             /\ tunnelPort'[t] = port[a]
      BY <2>3, <2>4, <3>1 DEF AnswerInv
    <3>3. saved[t] = None => tunnelPort'[t] = tunnelPort[t]
      BY <3>1
    <3>4. \A i \in Ids : tunnels[i] # None /\ saved[i] # None => tunnelPort'[i] # None
      <4>1. port[a] \in Ports => port[a] # None
        BY TunnelsAssume DEF Backend!Assumptions
      <4>2. tunnels[t] # None /\ tunnels[t][2] = port[a] => port[a] \in Ports
        BY <2>3
      <4> QED
        BY <2>1, <2>3, <3>2, <4>1, <4>2 DEF PortInv
    <3>5. \A i \in Ids : ~Closing(i)
      BY <2>2 DEF Closing
    <3> QED
      BY <2>3, <3>2, <3>3, <3>4, <3>5 DEF PortInv
  <2>5. CASE state[a] = "err"
    BY <2>1, <2>2, <2>3, <2>5 DEF PortInv, AnswerInv, Closing
  <2> QED
    BY <2>4, <2>5
<1>5. AnswerInv'
  BY SMTT(60) DEF AnswerInv, CalmInv, CommandInv, Sole, PortInv, Closing
<1> QED
  BY <1>1, <1>2, <1>3, <1>4, <1>5

LEMMA TestPassedTunnel ==
  ASSUME Calm, NEW a \in Actors, TestPassed(a)
  PROVE  TunnelInv'
<1> USE DEF Calm, TunnelInv, Inv, Types, Roles, Typed, WindowTypes, ArgumentInv,
        BackendTypes, Backend!TypeOK, CallInv, Backend!Pending, Waiting, Actors,
        TestPassed, Leave, Go, Finish, Backend!Close, Backend!List, Backend!Open,
        Backend!Command, Backend!Go, backendVars
<1>1. CalmInv'
  BY SMTT(60) DEF CalmInv, CommandInv, AnswerInv
<1>2. CommandInv'
  BY SMTT(60) DEF CommandInv, AnswerInv, Sole
<1>3. RunningInv'
  BY SMTT(60) DEF RunningInv, CalmInv, CommandInv, AnswerInv
<1>4. PortInv'
  BY SMTT(60) DEF PortInv, CalmInv, CommandInv, AnswerInv, Closing, Sole
<1>5. AnswerInv'
  BY SMTT(60) DEF AnswerInv, CalmInv, CommandInv, Sole, PortInv, Closing
<1> QED
  BY <1>1, <1>2, <1>3, <1>4, <1>5

LEMMA TestFailedTunnel ==
  ASSUME Calm, NEW a \in Actors, TestFailed(a)
  PROVE  TunnelInv'
<1> USE DEF Calm, TunnelInv, Inv, Types, Roles, Typed, WindowTypes, ArgumentInv,
        BackendTypes, Backend!TypeOK, CallInv, Backend!Pending, Waiting, Actors,
        TestFailed, Go, Finish, Backend!Close, Backend!List, Backend!Open,
        Backend!Command, Backend!Go, backendVars
<1>1. CalmInv'
  BY SMTT(60) DEF CalmInv, CommandInv, AnswerInv
<1>2. CommandInv'
  BY SMTT(60) DEF CommandInv, AnswerInv, Sole
<1>3. RunningInv'
  <2>1. UNCHANGED <<tunnels, running>>
    OBVIOUS
  <2>2. \A b \in Actors : /\ state'[b] = "insert" <=> state[b] = "insert"
                          /\ state[b] = "insert" => port'[b] = port[b]
    OBVIOUS
  <2> HIDE DEF Calm, TunnelInv, Inv, Types, Roles, Typed, WindowTypes, ArgumentInv,
               BackendTypes, CallInv, Actors, TestFailed, Go
  <2>3. RunningInv
    BY DEF Calm, TunnelInv
  <2> QED
    BY <2>1, <2>2, <2>3 DEF RunningInv
<1>4. PortInv'
  BY SMTT(60) DEF PortInv, CalmInv, CommandInv, AnswerInv, Closing, Sole
<1>5. AnswerInv'
  BY SMTT(60) DEF AnswerInv, CalmInv, CommandInv, Sole, PortInv, Closing
<1> QED
  BY <1>1, <1>2, <1>3, <1>4, <1>5

LEMMA ClosedNewTunnel ==
  ASSUME Calm, NEW a \in Actors, ClosedNew(a)
  PROVE  TunnelInv'
<1> USE DEF Calm, TunnelInv, Inv, Types, Roles, Typed, WindowTypes, ArgumentInv,
        BackendTypes, Backend!TypeOK, CallInv, Backend!Pending, Waiting, Actors,
        ClosedNew, Forget, Touch, Replied, Go, Finish, Backend!Close, Backend!List,
        Backend!Open, Backend!Command, Backend!Go, backendVars
<1>1. CalmInv'
  BY SMTT(60) DEF CalmInv, CommandInv, AnswerInv
<1>2. CommandInv'
  BY SMTT(60) DEF CommandInv, AnswerInv, Sole
<1>3. RunningInv'
  BY SMTT(60) DEF RunningInv, CalmInv, CommandInv, AnswerInv
<1>4. PortInv'
  BY SMTT(60) DEF PortInv, CalmInv, CommandInv, AnswerInv, Closing, Sole
<1>5. AnswerInv'
  BY SMTT(60) DEF AnswerInv, CalmInv, CommandInv, Sole, PortInv, Closing
<1> QED
  BY <1>1, <1>2, <1>3, <1>4, <1>5

LEMMA ClosedOldTunnel ==
  ASSUME Calm, NEW a \in Actors, ClosedOld(a)
  PROVE  TunnelInv'
<1> USE DEF Calm, TunnelInv, Inv, Types, Roles, Typed, WindowTypes, ArgumentInv,
        BackendTypes, Backend!TypeOK, CallInv, Backend!Pending, Waiting, Actors,
        ClosedOld, Forget, Touch, Replied, Go, Finish, Backend!Close, Backend!List,
        Backend!Open, Backend!Command, Backend!Go, backendVars
<1>1. CalmInv'
  BY SMTT(60) DEF CalmInv, CommandInv, AnswerInv
<1>2. CommandInv'
  BY SMTT(60) DEF CommandInv, AnswerInv, Sole
<1>3. RunningInv'
  BY SMTT(60) DEF RunningInv, CalmInv, CommandInv, AnswerInv
<1>4. PortInv'
  BY SMTT(60) DEF PortInv, CalmInv, CommandInv, AnswerInv, Closing, Sole
<1>5. AnswerInv'
  BY SMTT(60) DEF AnswerInv, CalmInv, CommandInv, Sole, PortInv, Closing
<1> QED
  BY <1>1, <1>2, <1>3, <1>4, <1>5

LEMMA SetActiveTunnel ==
  ASSUME Calm, NEW a \in Actors, SetActive(a)
  PROVE  TunnelInv'
<1> USE DEF Calm, TunnelInv, Inv, Types, Roles, Typed, WindowTypes, ArgumentInv,
        BackendTypes, Backend!TypeOK, CallInv, Backend!Pending, Waiting, Actors,
        SetActive, Go, Finish, Backend!Close, Backend!List, Backend!Open,
        Backend!Command, Backend!Go, backendVars
<1>1. CalmInv'
  BY SMTT(60) DEF CalmInv, CommandInv, AnswerInv
<1>2. CommandInv'
  BY SMTT(60) DEF CommandInv, AnswerInv, Sole
<1>3. RunningInv'
  BY SMTT(60) DEF RunningInv, CalmInv, CommandInv, AnswerInv
<1>4. PortInv'
  BY SMTT(60) DEF PortInv, CalmInv, CommandInv, AnswerInv, Closing, Sole
<1>5. AnswerInv'
  BY SMTT(60) DEF AnswerInv, CalmInv, CommandInv, Sole, PortInv, Closing
<1> QED
  BY <1>1, <1>2, <1>3, <1>4, <1>5

LEMMA BackendFindTunnel ==
  ASSUME Calm, NEW a \in Actors, Backend!Find(a), UNCHANGED uiVars
  PROVE  TunnelInv'
<1> USE DEF Calm, TunnelInv, Inv, Types, Roles, Typed, WindowTypes, ArgumentInv,
        BackendTypes, Backend!TypeOK, CallInv, Backend!Pending, Waiting, Actors,
        Backend!Find, Backend!Go, uiVars
<1>1. CalmInv'
  BY SMTT(60) DEF CalmInv, CommandInv, AnswerInv
<1>2. CommandInv'
  BY SMTT(60) DEF CommandInv, AnswerInv, Sole
<1>3. RunningInv'
  <2>1. UNCHANGED <<tunnels, running>>
    OBVIOUS
  <2>2. \A b \in Actors : /\ state'[b] = "insert" <=> state[b] = "insert"
                          /\ state[b] = "insert" => port'[b] = port[b]
    OBVIOUS
  <2>3. RunningInv
    OBVIOUS
  <2> QED
    BY <2>1, <2>2, <2>3, SMTT(60) DEF RunningInv
<1>4. PortInv'
  BY SMTT(60) DEF PortInv, CalmInv, CommandInv, AnswerInv, Closing, Sole
<1>5. AnswerInv'
  BY SMTT(60) DEF AnswerInv, CalmInv, CommandInv, Sole, PortInv, Closing
<1> QED
  BY <1>1, <1>2, <1>3, <1>4, <1>5

LEMMA BackendConnectTunnel ==
  ASSUME Calm, NEW a \in Actors, Backend!Connect(a), UNCHANGED uiVars
  PROVE  TunnelInv'
<1> USE DEF Calm, TunnelInv, Inv, Types, Roles, Typed, WindowTypes, ArgumentInv,
        BackendTypes, Backend!TypeOK, CallInv, Backend!Pending, Waiting, Actors,
        Backend!Connect, Backend!Go, uiVars
<1>1. CalmInv'
  BY SMTT(60) DEF CalmInv, CommandInv, AnswerInv
<1>2. CommandInv'
  BY SMTT(60) DEF CommandInv, AnswerInv, Sole
<1>3. RunningInv'
  <2>1. \A b \in Actors : state[b] # "insert"
    BY DEF CommandInv, Sole
  <2>2. CASE state'[a] = "err" /\ UNCHANGED <<running, port>>
    BY <2>1, <2>2 DEF RunningInv
  <2>3. ASSUME NEW p \in Ports \ running, running' = running \cup {p},
               port' = [port EXCEPT ![a] = p], state'[a] = "insert"
        PROVE  RunningInv'
    BY <2>1, <2>3 DEF RunningInv
  <2> QED
    BY <2>2, <2>3
<1>4. PortInv'
  BY SMTT(60) DEF PortInv, CalmInv, CommandInv, AnswerInv, Closing, Sole
<1>5. AnswerInv'
  BY SMTT(60) DEF AnswerInv, CalmInv, CommandInv, Sole, PortInv, Closing
<1> QED
  BY <1>1, <1>2, <1>3, <1>4, <1>5

LEMMA BackendInsertTunnel ==
  ASSUME Calm, NEW a \in Actors, Backend!Insert(a), UNCHANGED uiVars
  PROVE  TunnelInv'
<1> USE DEF Calm, TunnelInv, Inv, Types, Roles, Typed, WindowTypes, ArgumentInv,
        BackendTypes, Backend!TypeOK, CallInv, Backend!Pending, Waiting, Actors,
        Backend!Insert, Backend!Go, uiVars
<1>1. CalmInv'
  BY SMTT(60) DEF CalmInv, CommandInv, AnswerInv
<1>2. CommandInv'
  BY SMTT(60) DEF CommandInv, AnswerInv, Sole
<1>3. /\ id[a] = target[a] /\ target[a] \in Ids /\ tunnels[id[a]] = None
      /\ \A b \in Actors : state[b] \in {"open", "connect", "insert"} => b = a
      /\ \A b \in Actors : pc[b] \in Waiting => b = a
  BY DEF CommandInv, AnswerInv, Sole
<1>4. /\ tunnels'[id[a]] = <<config[a], port[a]>> /\ tunnels'[id[a]] # None
      /\ tunnels'[id[a]][2] = port[a]
      /\ \A i \in Ids : i # id[a] => tunnels'[i] = tunnels[i]
  BY <1>3, TunnelsAssume DEF Backend!Assumptions
<1>5. RunningInv'
  BY <1>3, <1>4, SMTT(60) DEF RunningInv
<1>6. PortInv'
  BY SMTT(60) DEF PortInv, CalmInv, CommandInv, AnswerInv, Closing, Sole
<1>7. AnswerInv'
  BY <1>3, <1>4, SMTT(60) DEF AnswerInv, CommandInv
<1> QED
  BY <1>1, <1>2, <1>5, <1>6, <1>7

LEMMA BackendTimeOutTunnel ==
  ASSUME Calm, NEW a \in Actors, Backend!TimeOut(a), UNCHANGED uiVars
  PROVE  TunnelInv'
<1> USE DEF Calm, TunnelInv, Inv, Types, Roles, Typed, WindowTypes, ArgumentInv,
        BackendTypes, Backend!TypeOK, CallInv, Backend!Pending, Waiting, Actors,
        Backend!TimeOut, Backend!Awaits, Backend!Free, Backend!Go, uiVars
<1>1. CalmInv'
  BY SMTT(60) DEF CalmInv, CommandInv, AnswerInv
<1>2. CommandInv'
  BY SMTT(60) DEF CommandInv, AnswerInv, Sole
<1>3. RunningInv'
  BY SMTT(60) DEF RunningInv, CalmInv, CommandInv, AnswerInv
<1>4. PortInv'
  BY SMTT(60) DEF PortInv, CalmInv, CommandInv, AnswerInv, Closing, Sole
<1>5. AnswerInv'
  BY SMTT(60) DEF AnswerInv, CalmInv, CommandInv, Sole, PortInv, Closing
<1> QED
  BY <1>1, <1>2, <1>3, <1>4, <1>5

LEMMA BackendClosedTunnel ==
  ASSUME Calm, NEW a \in Actors, Backend!Closed(a), UNCHANGED uiVars
  PROVE  TunnelInv'
<1> USE DEF Calm, TunnelInv, Inv, Types, Roles, Typed, WindowTypes, ArgumentInv,
        BackendTypes, Backend!TypeOK, CallInv, Backend!Pending, Waiting, Actors,
        Backend!Closed, Backend!Without, Backend!Aborted, Backend!Go, uiVars
<1>1. CalmInv'
  BY SMTT(60) DEF CalmInv, CommandInv, AnswerInv
<1>2. CommandInv'
  BY SMTT(60) DEF CommandInv, AnswerInv, Sole
<1>3. RunningInv'
  BY SMTT(60) DEF RunningInv, CalmInv, CommandInv, AnswerInv
<1>4. /\ id[a] \in Ids
      /\ \/ a \in Removers /\ saved[id[a]] = None
         \/ /\ a \in Requests
            /\ \/ pc[a] = "closeNew" /\ target[a] = id[a]
               \/ pc[a] = "closeOld" /\ previous[a] = id[a]
  <2>1. state[a] = "close" /\ a \in Requests \cup Removers
    BY DEF Undisturbed, CommandInv
  <2>2. id[a] \in Ids
    BY <2>1
  <2>3. a \in Removers => saved[id[a]] = None
    BY <2>1 DEF CommandInv
  <2>4. a \in Requests => \/ pc[a] = "closeNew" /\ target[a] = id[a]
                          \/ pc[a] = "closeOld" /\ previous[a] = id[a]
    BY <2>1 DEF CommandInv
  <2> QED
    BY <2>1, <2>2, <2>3, <2>4
<1>5. /\ tunnels'[id[a]] = None /\ \A i \in Ids : i # id[a] => tunnels'[i] = tunnels[i]
      /\ \A b \in Actors : b # a => state'[b] = state[b]
      /\ state[a] = "close" /\ state'[a] = "ok"
  BY <1>4
<1>6. PortInv'
  <2>1. \A i \in Ids : Closing(i)' <=> Closing(i)
    BY DEF Closing
  <2>2. tunnelPort[id[a]] # None /\ saved[id[a]] # None => Closing(id[a])
    BY <1>4 DEF Closing
  <2>3. pc[a] # "open"
    BY <1>4
  <2> QED
    BY <1>4, <1>5, <2>1, <2>2, <2>3 DEF PortInv
<1>7. AnswerInv'
  <2>1. \A b \in Actors : pc[b] = "open" /\ saved[target[b]] # None => target[b] # id[a]
    BY <1>4 DEF Sole
  <2>2. \A b \in Actors : b # a /\ pc[b] \in Waiting => a \in Removers
    BY <1>4 DEF Sole
  <2> QED
    BY <1>4, <1>5, <2>1, <2>2 DEF AnswerInv, CommandInv
<1> QED
  BY <1>1, <1>2, <1>3, <1>6, <1>7

LEMMA BackendListedTunnel ==
  ASSUME Calm, NEW a \in Actors, Backend!Listed(a), UNCHANGED uiVars
  PROVE  TunnelInv'
<1> USE DEF Calm, TunnelInv, Inv, Types, Roles, Typed, WindowTypes, ArgumentInv,
        BackendTypes, Backend!TypeOK, CallInv, Backend!Pending, Waiting, Actors,
        Backend!Listed, Backend!Go, uiVars
<1>1. CalmInv'
  BY SMTT(60) DEF CalmInv, CommandInv, AnswerInv
<1>2. CommandInv'
  BY SMTT(60) DEF CommandInv, AnswerInv, Sole
<1>3. RunningInv'
  BY SMTT(60) DEF RunningInv, CalmInv, CommandInv, AnswerInv
<1>4. PortInv'
  <2>1. UNCHANGED <<saved, tunnelPort, tunnels>> /\ \A i \in Ids : Closing(i)' <=> Closing(i)
    BY DEF Closing
  <2>2. \A b \in Actors : UNCHANGED <<pc[b], target[b]>>
                        /\ (pc[b] = "open" => state'[b] = state[b])
    BY DEF CommandInv
  <2>3. PortInv
    OBVIOUS
  <2> QED
    BY <2>1, <2>2, <2>3, SMTT(60) DEF PortInv
<1>5. AnswerInv'
  BY SMTT(60) DEF AnswerInv, CalmInv, CommandInv, Sole, PortInv, Closing
<1> QED
  BY <1>1, <1>2, <1>3, <1>4, <1>5

LEMMA OnceDisturbed == Inv /\ [Next]_vars /\ Undisturbed' => Undisturbed
<1> SUFFICES ASSUME Inv, [Next]_vars, NEW a \in Editors \cup Panes, pc'[a] = "idle"
             PROVE  pc[a] = "idle"
  BY DEF Undisturbed
<1> USE DEF Inv, Types, Go, Finish, Actors
<1>1. CASE UNCHANGED uiVars
  BY <1>1 DEF uiVars
<1>2. ASSUME NEW b \in Actors, Handler(b) PROVE pc[a] = "idle"
  BY <1>2 DEF Handler, Begin, Leave, Listed, Opened, StartTest, TestPassed, TestFailed, ClosedNew,
     ClosedOld, SetActive, CloseEdited, SaveEdited, PaneOpened, Replied
<1>3. CASE User
  BY <1>3 DEF User, Request, StartEdit, ChoosePane, Remove, BeginTransaction, EndTransaction
<1> QED
  BY <1>1, <1>2, <1>3 DEF Next, Opens, Answers, vars

LEMMA TunnelStep ==
  ASSUME Undisturbed, Undisturbed', Inv, Typed, TunnelInv, [Next]_vars
  PROVE  TunnelInv'
<1>1. Calm
  BY SoleHolds DEF Calm
<1>2. CASE UNCHANGED vars
  BY <1>2 DEF vars, uiVars, backendVars, TunnelInv, CalmInv, CommandInv, RunningInv, PortInv,
     AnswerInv, Closing
<1>3. ASSUME NEW a \in Actors, Handler(a) PROVE TunnelInv'
  <2>1. ~(CloseEdited(a) \/ SaveEdited(a) \/ PaneOpened(a))
    BY DEF Undisturbed, CloseEdited, SaveEdited, PaneOpened, Inv, Roles, Actors
  <2> QED
    BY <1>1, <1>3, <2>1, BeginTunnel, ListedTunnel, OpenedTunnel, TestPassedTunnel,
       TestFailedTunnel, ClosedNewTunnel, ClosedOldTunnel, SetActiveTunnel DEF Handler
<1>4. CASE User
  <2>1. CASE BeginTransaction \/ EndTransaction
    BY <2>1 DEF BeginTransaction, EndTransaction, backendVars, TunnelInv, CalmInv, CommandInv,
       RunningInv, PortInv, AnswerInv, Closing
  <2>2. ASSUME NEW e \in Editors, NEW i \in Ids, NEW x \in Configs, StartEdit(e, i, x)
        PROVE  FALSE
    BY <2>2 DEF StartEdit, Go, Undisturbed, Inv, Types, Actors
  <2>3. ASSUME NEW p \in Panes, NEW i \in Ids, ChoosePane(p, i) PROVE FALSE
    BY <2>3 DEF ChoosePane, Go, Undisturbed, Inv, Types, Actors
  <2> QED
    BY <1>1, <1>4, <2>1, <2>2, <2>3, RequestTunnel, RemoveTunnel DEF User
<1>5. ASSUME NEW a \in Actors, Opens(a) \/ Answers(a) PROVE TunnelInv'
  BY <1>1, <1>5, BackendFindTunnel, BackendConnectTunnel, BackendInsertTunnel,
     BackendTimeOutTunnel, BackendClosedTunnel, BackendListedTunnel
     DEF Opens, Answers, Backend!Opens
<1> QED
  BY <1>2, <1>3, <1>4, <1>5 DEF Next

LEMMA TunnelsAreAsTheyAreKnown == TunnelInv => PortsAreBacked /\ NoTunnelIsLeft
<1> SUFFICES ASSUME TunnelInv, Quiet PROVE PortsAreBacked /\ NoTunnelIsLeft
  BY DEF PortsAreBacked, NoTunnelIsLeft
<1>1. \A i \in Ids : ~Closing(i)
  BY DEF Quiet, Closing
<1>2. PortsAreBacked
  BY <1>1 DEF PortsAreBacked, TunnelInv, PortInv, RunningInv
<1>3. \A a \in Actors : state[a] # "insert" /\ pc[a] # "open"
  BY DEF Quiet, Backend!Pending
<1>4. NoTunnelIsLeft
  BY <1>3 DEF NoTunnelIsLeft, TunnelInv, PortInv, RunningInv
<1> QED
  BY <1>2, <1>4

\* Until an edit or a pane interferes, the tunnels are those the window knows,
\* but for the activation, the removal and the commands under way.
THEOREM TunnelInvariance == Spec => [](Undisturbed => TunnelInv)
<1>1. Inv /\ Typed /\ (Undisturbed => TunnelInv) /\ [Next]_vars => (Undisturbed => TunnelInv)'
  BY OnceDisturbed, TunnelStep
<1> QED
  BY <1>1, InitInv, Step, TypedInit, TypedStep, TunnelInit, PTL DEF Spec

\* As long as no edit and no pane interferes, whatever activations, removals,
\* failures and timeouts do, a port the window knows is that of a running
\* tunnel (performActivation, open).
THEOREM PortsBacked == Spec => []PortsAreBackedUnedited
<1>1. (Undisturbed => TunnelInv) => PortsAreBackedUnedited
  BY TunnelsAreAsTheyAreKnown DEF PortsAreBackedUnedited
<1> QED
  BY <1>1, TunnelInvariance, PTL

\* As long as no edit and no pane interferes, no tunnel is left of a connection
\* that still exists, and no forwarder runs that close cannot stop.
THEOREM NoTunnelLeft == Spec => []NoTunnelIsLeftUnedited
<1>1. (Undisturbed => TunnelInv) => NoTunnelIsLeftUnedited
  BY TunnelsAreAsTheyAreKnown DEF NoTunnelIsLeftUnedited
<1> QED
  BY <1>1, TunnelInvariance, PTL
=============================================================================
