------------------------ MODULE ConnectionActivation ------------------------
(***************************************************************************)
(* Activating, editing and removing connections in one window              *)
(* (src/lib/ssh.ts, src/lib/connections.ts and the views that call them),  *)
(* composed with the tunnels of SshTunnels.                                *)
(*                                                                         *)
(* An action is what a JavaScript handler does between two awaits.  Every  *)
(* actor handles one request of the user and has one command of the        *)
(* backend under way at a time; its reply is handled some time after.      *)
(***************************************************************************)
EXTENDS Naturals, Sequences, FiniteSets

CONSTANTS
  Requests,     \* activations of a connection, or of none (disconnect)
  Editors,      \* saves of an edited connection
  Panes,        \* split panes that choose a connection of their own
  Removers,     \* removals
  Ids, Ssh,     \* the connections, and those that use a tunnel
  Configs, Ports, None

Actors == Requests \cup Editors \cup Panes \cup Removers

ASSUME SshAreConnections == Ssh \subseteq Ids
ASSUME NoneIsNoId == None \notin Ids
ASSUME ActorsHaveOneRole ==
  /\ (Requests \cup Editors) \cap (Panes \cup Removers) = {}
  /\ Requests \cap Editors = {} /\ Panes \cap Removers = {}

VARIABLES
  saved,      \* connections: id -> its configuration, None when removed
  tunnelPort, \* id -> the port of its tunnel, as the window knows it
  active,     \* activeId
  openTx,     \* the connections with a transaction in the panel
  queue,      \* activationQueue: requests not finished, the first one runs
  pc,         \* where an actor stands
  target,     \* the connection of an actor, None for a disconnect
  next,       \* the configuration of it that was read, or that is to be saved
  previous,   \* the active connection when an activation began
  hadTunnel,  \* whether that one had a tunnel then
  touched     \* the activations whose entry was replaced since it was tested

uiVars == <<saved, tunnelPort, active, openTx, queue, pc, target, next,
            previous, hadTunnel, touched>>

VARIABLES tunnels, running, lock, state, id, config, port, raced

Backend == INSTANCE SshTunnels WITH Calls <- Actors

backendVars == <<tunnels, running, lock, state, id, config, port, raced>>
vars == <<uiVars, backendVars>>

ASSUME TunnelsAssume == Backend!Assumptions

Waiting == {"list", "open", "test", "closeNew", "closeOld", "set"}

TypeOK ==
  /\ Backend!TypeOK
  /\ saved \in [Ids -> Configs \cup {None}]
  /\ tunnelPort \in [Ids -> Ports \cup {None}]
  /\ active \in Ids \cup {None}
  /\ openTx \subseteq Ids
  /\ queue \in Seq(Requests \cup Editors)
  /\ pc \in [Actors -> Waiting \cup {"idle", "queued", "ok", "err", "closing", "saved"}]
  /\ target \in [Actors -> Ids \cup {None}]
  /\ next \in [Actors -> Configs \cup {None}]
  /\ previous \in [Actors -> Ids \cup {None}]
  /\ hadTunnel \subseteq Actors
  /\ touched \subseteq Actors

Init ==
  /\ Backend!Init
  /\ saved \in [Ids -> Configs]
  /\ tunnelPort = [i \in Ids |-> None]
  /\ active \in (Ids \ Ssh) \cup {None}
  /\ openTx = {}
  /\ queue = <<>>
  /\ pc = [a \in Actors |-> "idle"]
  /\ target = [a \in Actors |-> None]
  /\ next = [a \in Actors |-> None]
  /\ previous = [a \in Actors |-> None]
  /\ hadTunnel = {}
  /\ touched = {}

Go(a, s) == pc' = [pc EXCEPT ![a] = s]

\* The entry of i is replaced: who compares it with the one he read will see.
Touch(i) == touched' = touched \cup {a \in Actors : pc[a] = "test" /\ target[a] = i}

Replied(a) == state[a] \in {"ok", "err"}

-----------------------------------------------------------------------------
(* performActivation *)

Finish(a, s) == Go(a, s) /\ queue' = Tail(queue)

Request(a, i) ==
  /\ pc[a] = "idle"
  /\ Go(a, "queued")
  /\ target' = [target EXCEPT ![a] = i]
  /\ queue' = Append(queue, a)
  /\ UNCHANGED <<saved, tunnelPort, active, openTx, next, previous, hadTunnel,
                 touched, backendVars>>

\* The connection an activation is for; an editor first asks for none.
Goal(a) == IF a \in Editors THEN None ELSE target[a]

\* Mutant of Turn: activations do not wait for each other.
TurnOfAll(a) == \E n \in DOMAIN queue : queue[n] = a

Turn(a) == queue # <<>> /\ a = Head(queue)

\* Switching away from a connection with an open transaction is refused.
Refused(a) ==
  \/ active \notin {None, Goal(a)} /\ active \in openTx
  \/ Goal(a) # None /\ saved[Goal(a)] = None

\* The old connection's tunnel is closed, then the window goes to its start
\* page, then the new connection is active.
Leave(a, old, had) ==
  \/ /\ old = Goal(a)
     /\ active' = Goal(a)
     /\ Finish(a, "ok")
     /\ UNCHANGED backendVars
  \/ /\ old # Goal(a) /\ old # None /\ had
     /\ Go(a, "closeOld") /\ Backend!Close(a, old)
     /\ UNCHANGED <<active, queue>>
  \/ /\ old # Goal(a) /\ ~(old # None /\ had)
     /\ Go(a, "set")
     /\ UNCHANGED <<active, queue, backendVars>>

Begin(a) ==
  /\ pc[a] = "queued" /\ Turn(a)
  /\ previous' = [previous EXCEPT ![a] = active]
  /\ hadTunnel' = IF active # None /\ tunnelPort[active] # None
                  THEN hadTunnel \cup {a} ELSE hadTunnel
  /\ \/ /\ Refused(a)
        /\ Finish(a, "err")
        /\ UNCHANGED <<active, next, backendVars>>
     \/ /\ ~Refused(a) /\ Goal(a) = None
        /\ Leave(a, active, a \in hadTunnel')
        /\ UNCHANGED next
     \/ /\ ~Refused(a) /\ Goal(a) # None
        /\ next' = [next EXCEPT ![a] = saved[target[a]]]
        /\ UNCHANGED <<active, queue>>
        /\ \/ /\ target[a] \notin Ssh
              /\ Go(a, "test") /\ UNCHANGED backendVars
           \/ /\ target[a] \in Ssh /\ tunnelPort[target[a]] # None
              /\ Go(a, "list") /\ Backend!List(a, target[a])
           \/ /\ target[a] \in Ssh /\ tunnelPort[target[a]] = None
              /\ Go(a, "open")
              /\ Backend!Open(a, target[a], saved[target[a]])
  /\ UNCHANGED <<saved, tunnelPort, openTx, target, touched>>

\* The entry as it is after the tunnel was opened is tested.
StartTest(a) ==
  \/ /\ saved[target[a]] = None
     /\ Finish(a, "err")
     /\ UNCHANGED <<next, touched>>
  \/ /\ saved[target[a]] # None
     /\ Go(a, "test")
     /\ next' = [next EXCEPT ![a] = saved[target[a]]]
     /\ touched' = touched \ {a}
     /\ UNCHANGED queue

Listed(a) ==
  /\ pc[a] = "list" /\ Replied(a)
  /\ \/ /\ state[a] = "ok"
        /\ StartTest(a)
        /\ UNCHANGED backendVars
     \/ /\ state[a] = "err"
        /\ Go(a, "open")
        /\ Backend!Open(a, target[a], next[a])
        /\ UNCHANGED <<queue, next, touched>>
  /\ UNCHANGED <<saved, tunnelPort, active, openTx, target, previous, hadTunnel>>

\* The reply of open: the port is entered if the connection still exists.
Learn(i, p) ==
  tunnelPort' = IF saved[i] = None THEN tunnelPort ELSE [tunnelPort EXCEPT ![i] = p]

Opened(a) ==
  /\ pc[a] = "open" /\ a \notin Panes /\ Replied(a)
  /\ \/ /\ state[a] = "ok"
        /\ Learn(target[a], port[a])
        /\ StartTest(a)
     \/ /\ state[a] = "err"
        /\ Finish(a, "err")
        /\ UNCHANGED <<tunnelPort, next, touched>>
  /\ UNCHANGED <<saved, active, openTx, target, previous, hadTunnel, backendVars>>

Unchanged(a) == a \notin touched /\ saved[target[a]] # None

\* The test is answered, or its timeout expires.
TestPassed(a) ==
  /\ pc[a] = "test"
  /\ target[a] \in Ssh => tunnelPort[target[a]] # None \/ a \in touched
  /\ IF Unchanged(a)
     THEN Leave(a, previous[a], a \in hadTunnel)
     ELSE Finish(a, "err") /\ UNCHANGED <<active, backendVars>>
  /\ UNCHANGED <<saved, tunnelPort, openTx, target, next, previous, hadTunnel, touched>>

TestFailed(a) ==
  /\ pc[a] = "test"
  /\ IF target[a] \in Ssh /\ previous[a] # target[a]
     THEN Go(a, "closeNew") /\ Backend!Close(a, target[a]) /\ UNCHANGED queue
     ELSE Finish(a, "err") /\ UNCHANGED backendVars
  /\ UNCHANGED <<saved, tunnelPort, active, openTx, target, next, previous,
                 hadTunnel, touched>>

\* Mutant of Forget: the window keeps the port of a tunnel it closed.
ForgetNot(i) == UNCHANGED <<tunnelPort, touched>>

Forget(i) ==
  /\ tunnelPort' = [tunnelPort EXCEPT ![i] = None]
  /\ Touch(i)

ClosedNew(a) ==
  /\ pc[a] = "closeNew" /\ Replied(a)
  /\ Forget(target[a])
  /\ Finish(a, "err")
  /\ UNCHANGED <<saved, active, openTx, target, next, previous, hadTunnel, backendVars>>

ClosedOld(a) ==
  /\ pc[a] = "closeOld" /\ Replied(a)
  /\ Forget(previous[a])
  /\ Go(a, "set")
  /\ UNCHANGED <<saved, active, openTx, queue, target, next, previous, hadTunnel, backendVars>>

\* After the navigation to the start page.
SetActive(a) ==
  /\ pc[a] = "set"
  /\ active' = Goal(a)
  /\ Finish(a, "ok")
  /\ UNCHANGED <<saved, tunnelPort, openTx, target, next, previous, hadTunnel,
                 touched, backendVars>>

-----------------------------------------------------------------------------
(* Editing, split panes, removing, transactions *)

\* The editor disconnects an active connection before it saves.
StartEdit(e, i, x) ==
  /\ pc[e] = "idle" /\ saved[i] # None
  /\ target' = [target EXCEPT ![e] = i]
  /\ next' = [next EXCEPT ![e] = x]
  /\ \/ active = i /\ Go(e, "queued") /\ queue' = Append(queue, e)
     \/ active # i /\ Go(e, "ok") /\ UNCHANGED queue
  /\ UNCHANGED <<saved, tunnelPort, active, openTx, previous, hadTunnel, touched, backendVars>>

\* Then it stores the secrets, closes the tunnel and replaces the entry.
CloseEdited(e) ==
  /\ e \in Editors /\ pc[e] = "ok"
  /\ Go(e, "closing")
  /\ IF target[e] \in Ssh THEN Backend!Close(e, target[e]) ELSE UNCHANGED backendVars
  /\ UNCHANGED <<saved, tunnelPort, active, openTx, queue, target, next, previous,
                 hadTunnel, touched>>

SaveEdited(e) ==
  /\ pc[e] = "closing" /\ (target[e] \in Ssh => Replied(e))
  /\ Go(e, "saved")
  /\ saved' = [saved EXCEPT ![target[e]] = IF @ = None THEN None ELSE next[e]]
  /\ Forget(target[e])
  /\ UNCHANGED <<active, openTx, queue, target, next, previous, hadTunnel, backendVars>>

\* ensureSshTunnel for a pane whose connection has no tunnel.
ChoosePane(p, i) ==
  /\ pc[p] = "idle" /\ i \in Ssh /\ saved[i] # None /\ tunnelPort[i] = None
  /\ Go(p, "open")
  /\ target' = [target EXCEPT ![p] = i]
  /\ Backend!Open(p, i, saved[i])
  /\ UNCHANGED <<saved, tunnelPort, active, openTx, queue, next, previous, hadTunnel, touched>>

PaneOpened(p) ==
  /\ p \in Panes /\ pc[p] = "open" /\ Replied(p)
  /\ Go(p, state[p])
  /\ IF state[p] = "ok"
     THEN Learn(target[p], port[p]) /\ Touch(target[p])
     ELSE UNCHANGED <<tunnelPort, touched>>
  /\ UNCHANGED <<saved, active, openTx, queue, target, next, previous, hadTunnel, backendVars>>

\* removeConnection: the tunnel is closed without waiting for it.
Remove(m, i) ==
  /\ pc[m] = "idle" /\ saved[i] # None /\ i \notin openTx
  /\ Go(m, "ok")
  /\ saved' = [saved EXCEPT ![i] = None]
  /\ tunnelPort' = [tunnelPort EXCEPT ![i] = None]
  /\ active' = IF active = i THEN None ELSE active
  /\ Touch(i)
  /\ Backend!Close(m, i)
  /\ UNCHANGED <<openTx, queue, target, next, previous, hadTunnel>>

BeginTransaction ==
  /\ active # None /\ saved[active] # None
  /\ openTx' = openTx \cup {active}
  /\ UNCHANGED <<saved, tunnelPort, active, queue, pc, target, next, previous,
                 hadTunnel, touched, backendVars>>

EndTransaction ==
  /\ openTx # {}
  /\ \E i \in openTx : openTx' = openTx \ {i}
  /\ UNCHANGED <<saved, tunnelPort, active, queue, pc, target, next, previous,
                 hadTunnel, touched, backendVars>>

-----------------------------------------------------------------------------
Handler(a) ==
  \/ Begin(a) \/ Listed(a) \/ Opened(a) \/ TestPassed(a) \/ TestFailed(a)
  \/ ClosedNew(a) \/ ClosedOld(a) \/ SetActive(a)
  \/ CloseEdited(a) \/ SaveEdited(a) \/ PaneOpened(a)

User ==
  \/ \E a \in Requests, i \in Ids \cup {None} : Request(a, i)
  \/ \E e \in Editors, i \in Ids, x \in Configs : StartEdit(e, i, x)
  \/ \E p \in Panes, i \in Ids : ChoosePane(p, i)
  \/ \E m \in Removers, i \in Ids : Remove(m, i)
  \/ BeginTransaction \/ EndTransaction

Opens(a) == Backend!Opens(a) /\ UNCHANGED uiVars
Answers(a) == (Backend!Closed(a) \/ Backend!Listed(a)) /\ UNCHANGED uiVars

Next == User \/ \E a \in Actors : Handler(a) \/ Opens(a) \/ Answers(a)

Spec == Init /\ [][Next]_vars

\* The window handles a reply, the runtime polls a command that can go on, the
\* timer of an open expires, and the lock is handed to its waiters in turn.
FairSpec ==
  /\ Spec
  /\ \A a \in Actors : WF_vars(Handler(a)) /\ WF_vars(Opens(a)) /\ SF_vars(Answers(a))

-----------------------------------------------------------------------------
(* Properties *)

Performing == {a \in Requests \cup Editors : pc[a] \in Waiting}

\* The connection an activation leaves, and whose tunnel it closes, is still
\* the active one when it goes on, unless it was removed (activationQueue).
PreviousIsActive == \A a \in Performing : previous[a] = active \/ active = None

Quiet == \A a \in Actors : pc[a] \in {"idle", "ok", "err", "saved"} /\ state[a] \notin Backend!Pending

\* No edit was begun, and no pane has chosen a connection of its own.
Undisturbed == \A a \in Editors \cup Panes : pc[a] = "idle"

\* When nothing is under way, a connection with a tunnel port has that tunnel,
\* and connections to the port are forwarded (performActivation, open).
PortsAreBacked ==
  Quiet => \A i \in Ids : tunnelPort[i] # None =>
    tunnels[i] # None /\ tunnels[i][2] = tunnelPort[i] /\ tunnelPort[i] \in running

\* When nothing is under way, a tunnel belongs to a connection that knows its
\* port, or to one that was removed while its tunnel was being opened; and no
\* forwarder runs that close cannot stop, unless two opens of an id inserted
\* their tunnels or a timeout struck between bind and insert (raced).
NoTunnelIsLeft ==
  Quiet =>
    /\ \A i \in Ids : tunnels[i] # None => tunnelPort[i] # None \/ saved[i] = None
    /\ raced \/ \A p \in running : \E i \in Ids : tunnels[i] # None /\ tunnels[i][2] = p

\* A port is backed by its tunnel as long as no edit and no pane interferes
\* with an activation.
PortsAreBackedUnedited == Undisturbed => PortsAreBacked

\* No tunnel is left behind, as long as no edit and no pane interferes.
NoTunnelIsLeftUnedited == Undisturbed => NoTunnelIsLeft

\* Every activation comes to an end, and those queued behind it get their turn.
EveryActivationEnds == \A a \in Requests : pc[a] = "queued" ~> pc[a] \in {"ok", "err"}
=============================================================================
