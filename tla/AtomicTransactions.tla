------------------------- MODULE AtomicTransactions -------------------------
(***************************************************************************)
(* What the transaction commands promise, without sessions, mutexes,       *)
(* savepoints, cancellation or a server that answers late: the changes of  *)
(* a transaction become durable all at once and only in the step that ends *)
(* it, and a commit contains nothing but changes reported as successful.   *)
(***************************************************************************)
CONSTANTS
  Tx,   \* transactions
  Ops   \* operations

VARIABLES
  status,   \* whether the transaction was begun, and ended
  effects,  \* operations whose changes are part of the open transaction
  durable,  \* operations whose changes are permanent
  told      \* what the user was told of an operation

vars == <<status, effects, durable, told>>

Init ==
  /\ status = [s \in Tx |-> "none"]
  /\ effects = [s \in Tx |-> {}]
  /\ durable = {}
  /\ told = [o \in Ops |-> "none"]

Begin(s) ==
  /\ status[s] = "none"
  /\ status' = [status EXCEPT ![s] = "open"]
  /\ UNCHANGED <<effects, durable, told>>

Apply(s, o) ==
  /\ status[s] = "open"
  /\ effects' = [effects EXCEPT ![s] = @ \cup {o}]
  /\ UNCHANGED <<status, durable, told>>

Undo(s, o) ==
  /\ status[s] = "open"
  /\ effects' = [effects EXCEPT ![s] = @ \ {o}]
  /\ UNCHANGED <<status, durable, told>>

\* An operation that arrives after the end takes effect on its own.
ApplyOutside(s, o) ==
  /\ status[s] = "ended"
  /\ durable' = durable \cup {o}
  /\ UNCHANGED <<status, effects, told>>

Tell(o, r) ==
  /\ told[o] = "none"
  /\ told' = [told EXCEPT ![o] = r]
  /\ UNCHANGED <<status, effects, durable>>

End(s) ==
  /\ status' = [status EXCEPT ![s] = "ended"]
  /\ effects' = [effects EXCEPT ![s] = {}]
  /\ UNCHANGED told

Commit(s) ==
  /\ status[s] = "open"
  /\ \A o \in effects[s] : told[o] = "ok"
  /\ durable' = durable \cup effects[s]
  /\ End(s)

Abort(s) ==
  /\ status[s] # "ended"
  /\ End(s)
  /\ UNCHANGED durable

Next ==
  \/ \E s \in Tx : Begin(s) \/ Commit(s) \/ Abort(s)
  \/ \E s \in Tx, o \in Ops : Apply(s, o) \/ Undo(s, o) \/ ApplyOutside(s, o)
  \/ \E o \in Ops, r \in {"ok", "err"} : Tell(o, r)

Spec == Init /\ [][Next]_vars
=============================================================================
