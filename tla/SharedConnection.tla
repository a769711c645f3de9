-------------------------- MODULE SharedConnection --------------------------
(***************************************************************************)
(* The connection all calls of a Redis adapter share: PoolManager::shared  *)
(* and remove_pool of src-tauri/src/db/pool.rs as RedisAdapter::conn uses  *)
(* them.  The map holds a cell for the connection; a call that took a cell *)
(* out of the map keeps it, even when another call removes it from there.  *)
(***************************************************************************)
EXTENDS Naturals, FiniteSets

CONSTANTS Calls, Cells, NoCell,
          MaxBreaks     \* how often the server drops all connections or is late

\* What an instance has to provide.
Assumptions ==
  /\ NoCell \notin Cells
  /\ MaxBreaks \in Nat

VARIABLES
  shared,    \* the cell in the map of PoolManager
  ready,     \* the cells that hold a connection
  alive,     \* those whose connection works
  pc,        \* where a call stands
  cell,      \* the cell it uses
  attempt,   \* of the loop in conn
  breaks,    \* history: how often the connections broke or a PING was late
  refused    \* history: a connect failed, or the server refused a PING

vars == <<shared, ready, alive, pc, cell, attempt, breaks, refused>>

TypeOK ==
  /\ shared \in Cells \cup {NoCell}
  /\ alive \subseteq ready /\ ready \subseteq Cells
  /\ pc \in [Calls -> {"out", "fetch", "wait", "connect", "ping", "remove", "ok", "err"}]
  /\ cell \in [Calls -> Cells \cup {NoCell}]
  /\ attempt \in [Calls -> 0..1]
  /\ breaks \in 0..MaxBreaks
  /\ refused \in BOOLEAN

Init ==
  /\ shared = NoCell
  /\ ready = {} /\ alive = {}
  /\ pc = [c \in Calls |-> "out"]
  /\ cell = [c \in Calls |-> NoCell]
  /\ attempt = [c \in Calls |-> 0]
  /\ breaks = 0
  /\ refused = FALSE

Go(c, state) == pc' = [pc EXCEPT ![c] = state]

Enter(c) ==
  /\ pc[c] = "out"
  /\ Go(c, "fetch")
  /\ attempt' = [attempt EXCEPT ![c] = 0]
  /\ UNCHANGED <<shared, ready, alive, cell, breaks, refused>>

\* shared: the cell of the map, a new and empty one when there is none.
Fetch(c) ==
  /\ pc[c] = "fetch"
  /\ Go(c, "wait")
  /\ \/ /\ shared # NoCell
        /\ cell' = [cell EXCEPT ![c] = shared]
        /\ UNCHANGED <<shared, ready, alive>>
     \/ /\ shared = NoCell
        /\ \E x \in {y \in Cells : \A d \in Calls : cell[d] # y} :
             /\ shared' = x
             /\ cell' = [cell EXCEPT ![c] = x]
             /\ ready' = ready \ {x}
             /\ alive' = alive \ {x}
  /\ UNCHANGED <<attempt, breaks, refused>>

MayConnect(x) == \A d \in Calls : ~(pc[d] = "connect" /\ cell[d] = x)

\* get_or_try_init: one caller at a time connects, the others wait for it.
Await(c) ==
  /\ pc[c] = "wait"
  /\ \/ cell[c] \in ready /\ Go(c, "ping")
     \/ cell[c] \notin ready /\ MayConnect(cell[c]) /\ Go(c, "connect")
  /\ UNCHANGED <<shared, ready, alive, cell, attempt, breaks, refused>>

Connected(c) ==
  /\ pc[c] = "connect"
  /\ \/ /\ Go(c, "ping")
        /\ ready' = ready \cup {cell[c]}
        /\ alive' = alive \cup {cell[c]}
        /\ UNCHANGED <<cell, refused>>
     \/ /\ Go(c, "err")
        /\ cell' = [cell EXCEPT ![c] = NoCell]
        /\ refused' = TRUE
        /\ UNCHANGED <<ready, alive>>
  /\ UNCHANGED <<shared, attempt, breaks>>

MayRetry(c) == attempt[c] = 0

\* The PING of conn: an I/O error of the first attempt is tried again, that of a
\* dead connection and that of an answer which is late.
Pinged(c) ==
  /\ pc[c] = "ping"
  /\ \/ /\ cell[c] \in alive /\ Go(c, "ok")
        /\ UNCHANGED <<attempt, refused, breaks>>
     \/ /\ \/ cell[c] \notin alive /\ UNCHANGED breaks
           \/ cell[c] \in alive /\ breaks < MaxBreaks /\ breaks' = breaks + 1
        /\ \/ MayRetry(c) /\ Go(c, "remove") /\ attempt' = [attempt EXCEPT ![c] = @ + 1]
           \/ ~MayRetry(c) /\ Go(c, "err") /\ UNCHANGED attempt
        /\ UNCHANGED refused
     \/ /\ Go(c, "err") /\ refused' = TRUE
        /\ UNCHANGED <<attempt, breaks>>
  /\ cell' = [cell EXCEPT ![c] = NoCell]
  /\ UNCHANGED <<shared, ready, alive>>

\* Mutant of Removed: the cell stays in the map.
RemovedNot == shared

Removed == NoCell

\* remove_pool: whatever cell the map holds by now.
Remove(c) ==
  /\ pc[c] = "remove"
  /\ Go(c, "fetch")
  /\ shared' = Removed
  /\ UNCHANGED <<ready, alive, cell, attempt, breaks, refused>>

Return(c) ==
  /\ pc[c] \in {"ok", "err"}
  /\ Go(c, "out")
  /\ UNCHANGED <<shared, ready, alive, cell, attempt, breaks, refused>>

\* A caller gives up at an await; a cell it was filling stays empty.
Drop(c) ==
  /\ pc[c] \in {"fetch", "wait", "connect", "ping", "remove"}
  /\ Go(c, "out")
  /\ cell' = [cell EXCEPT ![c] = NoCell]
  /\ UNCHANGED <<shared, ready, alive, attempt, breaks, refused>>

\* The server restarts: the connections made so far are dead.
Break ==
  /\ breaks < MaxBreaks
  /\ breaks' = breaks + 1
  /\ alive' = {}
  /\ UNCHANGED <<shared, ready, pc, cell, attempt, refused>>

Next ==
  \/ \E c \in Calls : \/ Enter(c) \/ Fetch(c) \/ Await(c) \/ Connected(c)
                      \/ Pinged(c) \/ Remove(c) \/ Return(c) \/ Drop(c)
  \/ Break

Spec == Init /\ [][Next]_vars

-----------------------------------------------------------------------------
(* Properties *)

\* The retry of conn (redis.rs:200): after one break of the connections, or one
\* late answer to a PING, every call gets a working one, although the calls that
\* find the old one dead remove each other's cells from the map.
OneBreakIsSurvived ==
  breaks <= 1 /\ ~refused => \A c \in Calls : pc[c] # "err"
=============================================================================
