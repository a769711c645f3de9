----------------------------- MODULE SshTunnels -----------------------------
(***************************************************************************)
(* SshTunnelManager of src-tauri/src/db/ssh.rs: the commands open, close   *)
(* and list on the map of tunnels.  Every tunnel has a local port and a    *)
(* task that forwards its connections; the task runs until it is aborted,  *)
(* dropping its handle does not stop it.                                   *)
(***************************************************************************)
EXTENDS Naturals, FiniteSets

CONSTANTS Calls,       \* the commands under way
          Ids, Configs, Ports,
          None

\* What an instance has to provide.
Assumptions == None \notin Calls \cup Ids \cup Configs \cup Ports \cup (Configs \X Ports)

VARIABLES
  tunnels,   \* id -> configuration and port of its tunnel
  running,   \* the ports whose forwarder runs
  lock,      \* the open that holds the lock of the map across an await
  state,     \* where a command stands
  id, config,   \* its arguments
  port,      \* the tunnel it bound or found
  raced      \* history: an open was given up between its bind and its insert,
             \* or inserted its tunnel over another one

tunnelVars == <<tunnels, running, lock, state, id, config, port, raced>>

Pending == {"open", "replace", "connect", "insert", "close", "list"}

TypeOK ==
  /\ tunnels \in [Ids -> (Configs \X Ports) \cup {None}]
  /\ running \subseteq Ports
  /\ lock \in Calls \cup {None}
  /\ state \in [Calls -> Pending \cup {"idle", "ok", "err"}]
  /\ id \in [Calls -> Ids \cup {None}]
  /\ config \in [Calls -> Configs \cup {None}]
  /\ port \in [Calls -> Ports \cup {None}]
  /\ raced \in BOOLEAN

Init ==
  /\ tunnels = [i \in Ids |-> None]
  /\ running = {}
  /\ lock = None
  /\ state = [c \in Calls |-> "idle"]
  /\ id = [c \in Calls |-> None]
  /\ config = [c \in Calls |-> None]
  /\ port = [c \in Calls |-> None]
  /\ raced = FALSE

Go(c, s) == state' = [state EXCEPT ![c] = s]

Free == lock = None

-----------------------------------------------------------------------------
(* The commands *)

Command(c, name, i, x) ==
  /\ state[c] \notin Pending
  /\ Go(c, name)
  /\ id' = [id EXCEPT ![c] = i]
  /\ config' = [config EXCEPT ![c] = x]
  /\ port' = [port EXCEPT ![c] = None]
  /\ UNCHANGED <<tunnels, running, lock, raced>>

\* Mutant of Open: the configuration of the request is lost.
OpenBare(c, i, x) == Command(c, "open", i, None)

Open(c, i, x) == Command(c, "open", i, x)

Close(c, i) == Command(c, "close", i, None)

List(c, i) == Command(c, "list", i, None)

\* An open tunnel with the same configuration is shared.  For another one,
\* open calls close while the guard of the map is still alive.
Find(c) ==
  /\ state[c] = "open" /\ Free
  /\ \/ /\ tunnels[id[c]] = None
        /\ Go(c, "connect")
        /\ UNCHANGED <<lock, port>>
     \/ /\ tunnels[id[c]] # None /\ tunnels[id[c]][1] = config[c]
        /\ Go(c, "ok")
        /\ port' = [port EXCEPT ![c] = tunnels[id[c]][2]]
        /\ UNCHANGED lock
     \/ /\ tunnels[id[c]] # None /\ tunnels[id[c]][1] # config[c]
        /\ Go(c, "replace")
        /\ lock' = c
        /\ UNCHANGED port
  /\ UNCHANGED <<tunnels, running, id, config, raced>>

\* Connect, authenticate, bind a local port and spawn its forwarder.
Connect(c) ==
  /\ state[c] = "connect"
  /\ \/ /\ \E p \in Ports \ running :
             /\ running' = running \cup {p}
             /\ port' = [port EXCEPT ![c] = p]
        /\ Go(c, "insert")
     \/ Go(c, "err") /\ UNCHANGED <<running, port>>
  /\ UNCHANGED <<tunnels, lock, id, config, raced>>

Insert(c) ==
  /\ state[c] = "insert" /\ Free
  /\ Go(c, "ok")
  /\ raced' = (raced \/ tunnels[id[c]] # None)
  /\ tunnels' = [tunnels EXCEPT ![id[c]] = <<config[c], port[c]>>]
  /\ UNCHANGED <<running, lock, id, config, port>>

\* Mutant of Awaits: no timeout around open.
AwaitsForEver(c) == FALSE

\* An await of open that is not ready: the lock of the map or the network.
Awaits(c) ==
  \/ state[c] \in {"replace", "connect"}
  \/ state[c] \in {"open", "insert"} /\ ~Free

\* execution::connect drops an open that took too long.
TimeOut(c) ==
  /\ Awaits(c)
  /\ Go(c, "err")
  /\ lock' = IF lock = c THEN None ELSE lock
  /\ raced' = (raced \/ state[c] = "insert")
  /\ UNCHANGED <<tunnels, running, id, config, port>>

Aborted(i) == IF tunnels[i] = None THEN {} ELSE {tunnels[i][2]}

\* Mutant of Without: the tunnel stays in the map.
WithoutNone(i) == tunnels

Without(i) == [tunnels EXCEPT ![i] = None]

Closed(c) ==
  /\ state[c] = "close" /\ Free
  /\ Go(c, "ok")
  /\ running' = running \ Aborted(id[c])
  /\ tunnels' = Without(id[c])
  /\ UNCHANGED <<lock, id, config, port, raced>>

\* What the caller looks for in the answer: whether the id has a tunnel.
Listed(c) ==
  /\ state[c] = "list" /\ Free
  /\ Go(c, IF tunnels[id[c]] = None THEN "err" ELSE "ok")
  /\ UNCHANGED <<tunnels, running, lock, id, config, port, raced>>

Opens(c) == Find(c) \/ Connect(c) \/ Insert(c) \/ TimeOut(c)
=============================================================================
