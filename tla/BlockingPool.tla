---------------------------- MODULE BlockingPool ----------------------------
(***************************************************************************)
(* BlockingPool of src-tauri/src/db/pool.rs: connections of a driver that  *)
(* blocks its thread (Oracle).  A call takes a permit, an idle connection  *)
(* or a new one, and runs its work in a thread of its own.  The caller may *)
(* drop the call at any await (its timeout); the thread is not stopped by  *)
(* that and keeps the connection until it ends.                            *)
(***************************************************************************)
EXTENDS Naturals, Sequences, FiniteSets

CONSTANTS Calls, Conns, NoConn,
          Capacity,
          Droppable      \* the calls made under a timeout

ASSUME CapacityIsPositive == Capacity \in Nat \ {0}
ASSUME CallsAreFinite == IsFiniteSet(Calls)
ASSUME NoConnIsNone == NoConn \notin Conns
ASSUME DroppableAreCalls == Droppable \subseteq Calls

VARIABLES
  permits,   \* of the semaphore
  queue,     \* the calls waiting for one
  idle,      \* the idle connections, last used last
  pc,        \* where a call stands
  conn,      \* the connection of a call, or of the thread a dropped call left
  failed     \* history: connections whose last operation or check failed

vars == <<permits, queue, idle, pc, conn, failed>>

Working == {"checking", "opening", "working"}
Holders == {c \in Calls : pc[c] \in Working}

TypeOK ==
  /\ permits \in Nat
  /\ queue \in Seq(Calls)
  /\ idle \in Seq(Conns)
  /\ pc \in [Calls -> Working \cup {"out", "waiting", "closing", "abandoned"}]
  /\ conn \in [Calls -> Conns \cup {NoConn}]
  /\ failed \subseteq Conns

Init ==
  /\ permits = Capacity
  /\ queue = <<>>
  /\ idle = <<>>
  /\ pc = [c \in Calls |-> "out"]
  /\ conn = [c \in Calls |-> NoConn]
  /\ failed = {}

IdleConns == {idle[i] : i \in DOMAIN idle}
Closed == {k \in Conns : k \notin IdleConns /\ \A c \in Calls : conn[c] # k}

Move(c, state, k) ==
  /\ pc' = [pc EXCEPT ![c] = state]
  /\ conn' = [conn EXCEPT ![c] = k]

\* The call is over: its permit goes back to the semaphore.
Leave(c) == Move(c, "out", NoConn) /\ permits' = permits + 1

Enter(c) ==
  /\ pc[c] = "out"
  /\ Move(c, "waiting", NoConn)
  /\ queue' = Append(queue, c)
  /\ UNCHANGED <<permits, idle, failed>>

\* Mutant of Available: the semaphore is not asked.
AvailableAlways == TRUE

Available == permits > 0

\* Mutant of Rest: the idle connection is looked at and not taken out.
RestShared == idle

Rest == SubSeq(idle, 1, Len(idle) - 1)

\* The permit, and the connection used last: checked first when it was idle
\* for longer than IDLE_CHECK_AFTER, a new one when there is none.
Start(c) ==
  /\ queue # <<>> /\ c = Head(queue)
  /\ Available
  /\ permits' = permits - 1
  /\ queue' = Tail(queue)
  /\ \/ /\ idle = <<>>
        /\ \E k \in Closed : Move(c, "opening", k)
        /\ UNCHANGED idle
     \/ /\ idle # <<>>
        /\ \E state \in {"checking", "working"} : Move(c, state, idle[Len(idle)])
        /\ idle' = Rest
  /\ UNCHANGED failed

\* A connection that fails the check is replaced.
Checked(c) ==
  /\ pc[c] = "checking"
  /\ \/ /\ Move(c, "working", conn[c])
        /\ UNCHANGED failed
     \/ /\ \E k \in Closed : Move(c, "opening", k)
        /\ failed' = failed \cup {conn[c]}
  /\ UNCHANGED <<permits, queue, idle>>

\* Mutant of ConnectFailed: a failed connect keeps its permit.
ConnectFailedLeaking(c) == Move(c, "out", NoConn) /\ UNCHANGED permits

ConnectFailed(c) == Leave(c)

Opened(c) ==
  /\ pc[c] = "opening"
  /\ \/ Move(c, "working", conn[c]) /\ UNCHANGED permits
     \/ ConnectFailed(c)
  /\ failed' = failed \ {conn[c]}
  /\ UNCHANGED <<queue, idle>>

\* Only the connection of an operation that succeeded goes back to the pool.
Worked(c) ==
  /\ pc[c] = "working"
  /\ Leave(c)
  /\ \/ /\ idle' = Append(idle, conn[c])
        /\ UNCHANGED failed
     \/ /\ failed' = failed \cup {conn[c]}
        /\ UNCHANGED idle
  /\ UNCHANGED queue

\* The caller drops the future: the permit is free at once, the thread goes on
\* with the operation, or with the check or the connect it was at.
Drop(c) ==
  /\ c \in Droppable
  /\ \/ /\ pc[c] = "waiting"
        /\ Move(c, "out", NoConn)
        /\ \E i \in DOMAIN queue :
             /\ queue[i] = c
             /\ queue' = SubSeq(queue, 1, i - 1) \o SubSeq(queue, i + 1, Len(queue))
        /\ UNCHANGED permits
     \/ /\ pc[c] \in Working
        /\ Move(c, IF pc[c] = "working" THEN "abandoned" ELSE "closing", conn[c])
        /\ permits' = permits + 1
        /\ UNCHANGED queue
  /\ UNCHANGED <<idle, failed>>

\* The thread of a dropped call ends, its connection is closed.
ThreadEnds(c) ==
  /\ pc[c] \in {"closing", "abandoned"}
  /\ Move(c, "out", NoConn)
  /\ UNCHANGED <<permits, queue, idle, failed>>

Answers(c) == Checked(c) \/ Opened(c) \/ Worked(c)

Next == \E c \in Calls : Enter(c) \/ Start(c) \/ Answers(c) \/ Drop(c) \/ ThreadEnds(c)

Spec == Init /\ [][Next]_vars

-----------------------------------------------------------------------------
(* Properties *)

\* Permits and connections do not drift apart (pool.rs run): whatever fails or
\* is dropped, every permit is free or held, and what is idle fits into the
\* places that no call holds.
PoolIsBounded ==
  /\ permits + Cardinality(Holders) = Capacity
  /\ Len(idle) + Cardinality(Holders) <= Capacity

\* A connection is used by one thread, or it is idle, never both (pool.rs run
\* hands the driver's connection, which is not to be shared, to a thread).
ExclusiveUse ==
  /\ \A i, j \in DOMAIN idle : idle[i] = idle[j] => i = j
  /\ \A c \in Calls : conn[c] \notin IdleConns
  /\ \A c, d \in Calls : conn[c] = conn[d] /\ conn[c] # NoConn => c = d

\* A connection whose operation or check failed is never offered again
\* (pool.rs:165).
FailedAreClosed == IdleConns \cap failed = {}
=============================================================================
