--------------------- MODULE ManagedTransactions_proofs ---------------------
(***************************************************************************)
(* Proofs about ManagedTransactions, for any numbers of edits, queries,    *)
(* ends, sessions and tables.  The backend's invariant and what its steps  *)
(* leave alone are taken from PgTransactions_proofs; UInv says what the    *)
(* handlers of the user interface add: who uses a transaction, who ends    *)
(* it, and that the two exclude each other.                                *)
(***************************************************************************)
EXTENDS ManagedTransactions, FiniteSetTheorems, TLAPS

P == INSTANCE PgTransactions_proofs
       WITH Kinds <- {"write", "end", "row", "commit", "rollback"}

-----------------------------------------------------------------------------
(* The inductive invariant. *)

Ops == Edits \cup Queries

Failed(e) == pc[e] = "done" /\ result[e] = "err"

\* The transaction of the edit is its own (runTableTransaction without managed
\* transactions).
Private(o) == o \in Edits /\ (op[o] \in {"private", "privateWork"} \/ opEnd[o] # NoCall)

\* The operations runManagedOperation counts for a transaction.
Sent(s) == {o \in Ops : op[o] = "sent" /\ opTx[o] = s}

UiTypes ==
  /\ store \subseteq [txId : Tx, scope : Scopes]
  /\ busy \in [Tx -> Nat]
  /\ finalizing \subseteq Tx
  /\ opening \in [Scopes -> Tx \cup {NoTx}]
  /\ separate \in BOOLEAN
  /\ managed \in BOOLEAN
  /\ op \in [Ops -> {"idle", "opening", "ready", "sent", "ok", "err",
                     "private", "privateWork", "privateCommit", "privateUndo"}]
  /\ opTx \in [Ops -> Tx \cup {NoTx}]
  /\ opEnd \in [Edits -> Ends \cup {NoCall}]
  /\ ending \in [Ends -> {"idle", "sent", "private", "reported"}]
  /\ sync \in {"idle", "asked", "answered"}
  /\ listed \subseteq Tx
  /\ dropped \subseteq Tx

\* Where an operation stands says whether its command was sent and answered.
OpInv ==
  \A o \in Ops :
    /\ op[o] \in {"idle", "opening", "ready", "private"} => pc[o] = "new"
    /\ op[o] \in {"sent", "privateWork"} => pc[o] # "new"
    /\ op[o] \in {"ok", "privateCommit"} => pc[o] = "done" /\ result[o] = "ok"
    /\ op[o] = "privateUndo" => pc[o] = "done"
    /\ op[o] = "err" => pc[o] = "new" \/ Failed(o) \/ (Private(o) /\ pc[o] = "done")
    /\ op[o] = "idle" <=> opTx[o] = NoTx
    /\ pc[o] # "new" => target[o] = opTx[o] /\ kind[o] \in Statements \cup {"write", "row"}
    /\ o \in Queries =>
         op[o] \notin {"private", "privateWork", "privateCommit", "privateUndo"}

\* The ends of the panel hold finalizing, the others belong to a private edit.
EndingInv ==
  \A e \in Ends :
    /\ ending[e] = "idle" <=> pc[e] = "new"
    /\ pc[e] # "new" => kind[e] \in {"commit", "rollback"}
    /\ ending[e] = "reported" => pc[e] = "done"
    /\ ending[e] = "sent" => target[e] \in finalizing
    /\ ending[e] = "private" => \E o \in Edits : Private(o) /\ opTx[o] = target[e]

\* Cards and promises of pendingTransactions: a scope has one card or one
\* promise, a transaction belongs to one scope, and a transaction that is being
\* opened is used by nobody but the operations waiting for it.
ScopeInv ==
  /\ \A t, u \in store : t.scope = u.scope \/ t.txId = u.txId => t = u
  /\ \A t \in store : begin[t.txId] = "ok"
  /\ \A sc \in Scopes : opening[sc] # NoTx =>
       /\ begin[opening[sc]] # "none"
       /\ \A t \in store : t.scope # sc /\ t.txId # opening[sc]
       /\ \A o \in Ops : opTx[o] = opening[sc] => op[o] = "opening"
       /\ \A e \in Ends : target[e] # opening[sc]
       /\ \A sd \in Scopes : opening[sd] = opening[sc] => sd = sc
  /\ \A o \in Ops : op[o] # "idle" => begin[opTx[o]] # "none"
  /\ \A o \in Ops : op[o] = "opening" => \E sc \in Scopes : opening[sc] = opTx[o]

\* A private transaction is used by its edit alone and ended by it alone.
PrivateInv ==
  \A o \in Edits :
    /\ op[o] \in {"private", "privateWork", "privateCommit", "privateUndo"} => Private(o)
    /\ op[o] \in {"privateCommit", "privateUndo"} => opEnd[o] # NoCall
    /\ Private(o) =>
         /\ op[o] \in {"private", "privateWork", "privateCommit", "privateUndo", "ok", "err"}
         /\ \A t \in store : t.txId # opTx[o]
         /\ \A p \in Ops : p # o => opTx[p] # opTx[o]
         /\ \A e \in Ends : target[e] = opTx[o] => e = opEnd[o] \/ Failed(e)
         /\ \A e \in Ends : target[e] = opTx[o] => ending[e] = "private"
         /\ opEnd[o] # NoCall =>
              /\ target[opEnd[o]] = opTx[o]
              /\ op[o] = "privateCommit" => kind[opEnd[o]] = "commit"
              /\ op[o] \in {"privateUndo", "err"} => kind[opEnd[o]] = "rollback"
              /\ op[o] \in {"ok", "err"} => pc[opEnd[o]] = "done"
              /\ op[o] \in {"ok", "err", "privateCommit", "privateUndo"}

\* Of the ends of one transaction all but one have failed.
OneEndInv ==
  \A d, e \in Ends :
    d # e /\ target[d] = target[e] /\ pc[d] # "new" /\ pc[e] # "new" => Failed(d) \/ Failed(e)

\* The panel ends a transaction once at a time.
OneSentInv ==
  \A d, e \in Ends :
    d # e /\ target[d] = target[e] => ~(ending[d] = "sent" /\ ending[e] = "sent")

\* A card stays until its end succeeds.
CardEndInv ==
  \A t \in store, e \in Ends : target[e] = t.txId => ending[e] = "sent" \/ Failed(e)

\* busyTransactions counts the operations under way.
CountInv ==
  \A s \in Tx : IsFiniteSet(Sent(s)) /\ busy[s] = Cardinality(Sent(s))

\* An end of the panel waits for them and keeps new ones away.
ClearInv ==
  \A e \in Ends, o \in Ops :
    ending[e] = "sent" /\ opTx[o] = target[e] => op[o] # "sent"

\* While an end is under way, or after one that succeeded, no operation of its
\* transaction is between its entry and its answer.
QuietInv ==
  \A e \in Ends, o \in Ops :
    pc[e] # "new" /\ ~Failed(e) /\ pc[o] # "new" /\ target[o] = target[e] =>
      pc[o] = "done" \/ (pc[o] = "entry" /\ target[o] \notin registered)

\* Exactly the transactions that were ended have lost their entry.
EndedInv ==
  \A e \in Ends : pc[e] = "done" /\ result[e] = "ok" => target[e] \notin registered
GoneInv ==
  \A s \in Tx : begin[s] = "ok" /\ s \notin registered =>
    \E e \in Ends : target[e] = s /\ pc[e] = "done" /\ result[e] = "ok"

UInv ==
  /\ UiTypes /\ OpInv /\ EndingInv /\ ScopeInv /\ PrivateInv
  /\ OneEndInv /\ OneSentInv /\ CardEndInv /\ CountInv /\ ClearInv
  /\ QuietInv /\ EndedInv /\ GoneInv

\* What the proofs about the user interface use of the backend's invariant.
BackendInv ==
  /\ P!TypeOK
  /\ \A c \in Calls : pc[c] = "done" => result[c] # "none"

(* What became of the changes, as long as nobody types COMMIT. *)

\* The transaction of the session was ended, or a COMMIT failed.
Over(s) ==
  CommitFailed(s) \/ \E e \in Ends : target[e] = s /\ (P!Success(e) \/ P!Rejected(e))

Discarded(s) ==
  \/ CommitFailed(s)
  \/ \E e \in Ends : target[e] = s /\ (P!Rejected(e) \/ (kind[e] = "rollback" /\ P!Success(e)))

Persisted(s) ==
  \E e \in Ends : target[e] = s /\ kind[e] = "commit" /\ (P!Success(e) \/ server[s] = "closed")

\* Only the end of its transaction leaves a session outside a block.
IdleInv == \A s \in Tx : begin[s] = "ok" /\ server[s] = "idle" => Over(s)

\* Nothing is outstanding when the server has answered an end.
LateInv ==
  \A e \in Ends, o \in Ops :
    target[e] = target[o] /\ (P!Success(e) \/ P!Rejected(e)) => stmt[o] # "sent"

AutoInv == \A o \in autocommitted, s \in Tx : target[o] = s => CommitFailed(s)

\* What is committed was committed by an end.
CommittedInv == \A o \in committed, s \in Tx : target[o] = s => Persisted(s)

\* Where a change is that was made and not reported as failed.
KeptInv ==
  \A o \in Ops, s \in Tx : target[o] = s /\ P!Did(o) =>
    \/ o \in pending[s] \cup committed \cup autocommitted
    \/ server[s] = "closed"
    \/ Discarded(s)

\* A commit that succeeds leaves no successful change behind.
WholeInv ==
  \A e \in Ends, o \in Ops, s \in Tx :
    kind[e] = "commit" /\ P!Success(e) /\ target[e] = s /\ target[o] = s
      /\ pc[o] = "done" /\ result[o] = "ok" => o \in committed \/ CommitFailed(s)

\* A rollback that succeeds has no committed change behind it.
DiscardInv ==
  \A e \in Ends : kind[e] = "rollback" /\ P!Success(e) =>
    \A o \in committed : target[o] # target[e]

TInv ==
  /\ IdleInv /\ LateInv /\ AutoInv /\ CommittedInv /\ KeptInv /\ WholeInv /\ DiscardInv

Inv == P!IInv /\ P!ProbeInv /\ UInv

-----------------------------------------------------------------------------
(* Counting the operations of a transaction. *)

LEMMA SameCount ==
  ASSUME CountInv, busy' = busy,
         \A o \in Ops : /\ op'[o] = "sent" <=> op[o] = "sent"
                        /\ op[o] = "sent" => opTx'[o] = opTx[o]
  PROVE  CountInv'
<1>1. \A s \in Tx : Sent(s)' = Sent(s)
  BY DEF Sent, Ops
<1> QED
  BY <1>1 DEF CountInv

LEMMA CountUp ==
  ASSUME UiTypes, CountInv, NEW o \in Ops, NEW s \in Tx, op[o] # "sent",
         busy' = [busy EXCEPT ![s] = @ + 1],
         op' = [op EXCEPT ![o] = "sent"],
         opTx' = [opTx EXCEPT ![o] = s]
  PROVE  CountInv'
<1>1. Sent(s)' = Sent(s) \cup {o} /\ o \notin Sent(s)
  BY DEF Sent, Ops, UiTypes
<1>2. \A t \in Tx \ {s} : Sent(t)' = Sent(t) /\ busy'[t] = busy[t]
  BY DEF Sent, Ops, UiTypes
<1>3. IsFiniteSet(Sent(s)') /\ Cardinality(Sent(s)') = Cardinality(Sent(s)) + 1
  BY <1>1, FS_AddElement DEF CountInv
<1>4. busy'[s] = busy[s] + 1
  BY DEF UiTypes
<1> QED
  BY <1>2, <1>3, <1>4 DEF CountInv

\* A counted operation is there to be counted down.
LEMMA CountDown ==
  ASSUME UiTypes, CountInv, NEW o \in Ops, op[o] = "sent", opTx[o] \in Tx,
         NEW r, r # "sent",
         busy' = [busy EXCEPT ![opTx[o]] = @ - 1],
         op' = [op EXCEPT ![o] = r],
         opTx' = opTx
  PROVE  CountInv' /\ busy' \in [Tx -> Nat]
<1> DEFINE s == opTx[o]
<1>1. Sent(s)' = Sent(s) \ {o} /\ o \in Sent(s)
  BY DEF Sent, Ops, UiTypes
<1>2. \A t \in Tx \ {s} : Sent(t)' = Sent(t) /\ busy'[t] = busy[t]
  BY DEF Sent, Ops, UiTypes
<1>3. IsFiniteSet(Sent(s)') /\ Cardinality(Sent(s)') = Cardinality(Sent(s)) - 1
  BY <1>1, FS_RemoveElement DEF CountInv
<1>4. busy'[s] = busy[s] - 1
  BY DEF UiTypes
<1>5. busy[s] \in Nat /\ busy[s] # 0
  BY <1>1, FS_EmptySet DEF CountInv, UiTypes
<1>6. busy' \in [Tx -> Nat]
  BY <1>5 DEF UiTypes
<1>7. CountInv'
  BY <1>2, <1>3, <1>4 DEF CountInv
<1> QED
  BY <1>6, <1>7

LEMMA NotBusy ==
  ASSUME CountInv, NEW s \in Tx, busy[s] = 0
  PROVE  \A o \in Ops : opTx[o] = s => op[o] # "sent"
<1>1. Sent(s) = {}
  BY FS_EmptySet DEF CountInv
<1> QED
  BY <1>1 DEF Sent

-----------------------------------------------------------------------------
(* The steps of the user interface. *)

LEMMA UInvInit == Init => UInv
<1> SUFFICES ASSUME Init PROVE UInv
  OBVIOUS
<1> USE NoTxIsNoTx, NoCallIsNoCall DEF Init, Backend!Init, Ops, Calls
<1>1. UiTypes /\ OpInv /\ EndingInv /\ ScopeInv /\ PrivateInv
  BY DEF UiTypes, OpInv, EndingInv, ScopeInv, PrivateInv, Private
<1>2. OneEndInv /\ OneSentInv /\ CardEndInv /\ ClearInv /\ QuietInv
      /\ EndedInv /\ GoneInv
  BY DEF OneEndInv, OneSentInv, CardEndInv, ClearInv, QuietInv,
         EndedInv, GoneInv
<1>3. CountInv
  <2>1. \A s \in Tx : Sent(s) = {}
    BY DEF Sent
  <2> QED
    BY <2>1, FS_EmptySet DEF CountInv
<1> QED
  BY <1>1, <1>2, <1>3 DEF UInv

\* An operation finds a card.
LEMMA UseCardStep ==
  ASSUME UInv, BackendInv,
         NEW o \in Ops, op[o] = "idle", NEW t \in store,
         Use(o, t.txId, "ready"),
         UNCHANGED <<store, busy, finalizing, separate, managed, opEnd, ending, sync,
                     listed, dropped>>,
         UNCHANGED <<opening, backendVars>>
  PROVE  UInv'
<1> USE NoTxIsNoTx, NoCallIsNoCall, CallsAreDistinct
        DEF UInv, UiTypes, BackendInv, P!TypeOK, P!Stages, P!AllKinds, Ops, Calls,
            Scopes, Use, backendVars
<1>1. UiTypes' /\ OpInv' /\ ScopeInv' /\ PrivateInv' /\ OneEndInv'
  BY SMTT(60) DEF OpInv, ScopeInv, PrivateInv, OneEndInv, Private, Failed
<1>2. OneSentInv' /\ CardEndInv' /\ ClearInv' /\ QuietInv'
      /\ EndedInv' /\ GoneInv'
  BY SMTT(60) DEF OneSentInv, CardEndInv, ClearInv, QuietInv, EndedInv, GoneInv, Failed
<1>3. EndingInv'
  BY SMTT(60) DEF EndingInv, PrivateInv, Private, Failed
<1>4. CountInv'
  BY SameCount DEF OpInv
<1> QED
  BY <1>1, <1>2, <1>3, <1>4

\* An operation waits for a transaction that is being opened for its scope.
LEMMA JoinStep ==
  ASSUME UInv, BackendInv,
         NEW o \in Ops, op[o] = "idle",
         NEW sc \in Scopes, opening[sc] # NoTx,
         Use(o, opening[sc], "opening"),
         UNCHANGED <<store, busy, finalizing, separate, managed, opEnd, ending, sync,
                     listed, dropped>>,
         UNCHANGED <<opening, backendVars>>
  PROVE  UInv'
<1> USE NoTxIsNoTx, NoCallIsNoCall, CallsAreDistinct
        DEF UInv, UiTypes, BackendInv, P!TypeOK, P!Stages, P!AllKinds, Ops, Calls,
            Scopes, Use, backendVars
<1>1. UiTypes' /\ OpInv' /\ ScopeInv' /\ OneEndInv' /\ OneSentInv'
  BY SMTT(60) DEF OpInv, ScopeInv, OneEndInv, OneSentInv, Private, Failed
<1>2. CardEndInv' /\ ClearInv' /\ QuietInv' /\ EndedInv' /\ GoneInv'
  BY SMTT(60) DEF CardEndInv, ClearInv, QuietInv, EndedInv, GoneInv, Failed
<1>3. EndingInv'
  BY SMTT(60) DEF EndingInv, PrivateInv, Private, Failed
<1>4. PrivateInv'
  BY SMTT(60) DEF PrivateInv, ScopeInv, Private, Failed
<1>5. CountInv'
  BY SameCount DEF OpInv
<1> QED
  BY <1>1, <1>2, <1>3, <1>4, <1>5

\* A transaction is opened for a scope that has neither a card nor a promise;
\* nobody has used its session before.
LEMMA OpenStep ==
  ASSUME UInv, BackendInv,
         NEW o \in Ops, op[o] = "idle",
         NEW sc \in Scopes, NEW s \in Tx, opening[sc] = NoTx,
         \A t \in store : t.scope # sc,
         Backend!BeginRequest(s),
         opening' = [opening EXCEPT ![sc] = s],
         Use(o, s, "opening"),
         UNCHANGED <<store, busy, finalizing, separate, managed, opEnd, ending, sync,
                     listed, dropped>>
  PROVE  UInv'
<1> USE NoTxIsNoTx, NoCallIsNoCall, CallsAreDistinct
        DEF UInv, UiTypes, BackendInv, P!TypeOK, P!Stages, P!AllKinds, Ops, Calls,
            Scopes, Use, Backend!BeginRequest, Backend!callVars, Backend!serverVars
<1>1. UiTypes' /\ OpInv' /\ OneEndInv' /\ OneSentInv'
  BY SMTT(60) DEF OpInv, OneEndInv, OneSentInv, Private, Failed
<1>2. CardEndInv' /\ ClearInv' /\ QuietInv' /\ EndedInv' /\ GoneInv'
  BY SMTT(60) DEF CardEndInv, ClearInv, QuietInv, EndedInv, GoneInv, Failed
<1>3. EndingInv'
  BY SMTT(60) DEF EndingInv, PrivateInv, Private, Failed
<1>4. ScopeInv'
  BY SMTT(60) DEF ScopeInv, OpInv, Private, Failed
<1>5. PrivateInv'
  BY SMTT(60) DEF PrivateInv, ScopeInv, Private, Failed
<1>6. CountInv'
  BY SameCount DEF OpInv
<1> QED
  BY <1>1, <1>2, <1>3, <1>4, <1>5, <1>6

\* ensureManagedTransaction is one of the three.
LEMMA EnsureStep ==
  ASSUME UInv, BackendInv,
         NEW o \in Ops, op[o] = "idle", NEW requested \in Scopes,
         Ensure(o, requested),
         UNCHANGED <<store, busy, finalizing, separate, managed, opEnd, ending, sync,
                     listed, dropped>>
  PROVE  UInv'
<1> DEFINE sc == IF separate THEN requested ELSE "connection"
<1>1. sc \in Scopes
  BY DEF Scopes
<1>2. CASE (\E t \in Find(sc) : Use(o, t.txId, "ready")) /\ UNCHANGED <<opening, backendVars>>
  BY <1>2, UseCardStep DEF Find
<1>3. CASE opening[sc] # NoTx /\ Use(o, opening[sc], "opening")
           /\ UNCHANGED <<opening, backendVars>>
  BY <1>1, <1>3, JoinStep
<1>4. ASSUME Find(sc) = {}, opening[sc] = NoTx,
             NEW s \in Tx, Backend!BeginRequest(s),
             opening' = [opening EXCEPT ![sc] = s], Use(o, s, "opening")
      PROVE  UInv'
  <2>1. \A t \in store : t.scope # sc
    BY <1>4 DEF Find
  <2> QED
    BY <1>1, <1>4, <2>1, OpenStep
<1> QED
  BY <1>2, <1>3, <1>4 DEF Ensure

\* The reply of begin_transaction: the promise becomes a card.
LEMMA OpenedStep ==
  ASSUME UInv, BackendInv,
         NEW sc \in Scopes, Opened(sc)
  PROVE  UInv'
<1> USE NoTxIsNoTx, NoCallIsNoCall, CallsAreDistinct
        DEF UInv, UiTypes, BackendInv, P!TypeOK, P!Stages, P!AllKinds, Ops, Calls,
            Scopes, Opened, backendVars
<1>1. UiTypes' /\ OpInv' /\ ScopeInv' /\ OneEndInv'
  BY SMTT(60) DEF OpInv, ScopeInv, OneEndInv, Private, Failed
<1>2. OneSentInv' /\ ClearInv' /\ QuietInv' /\ EndedInv' /\ GoneInv'
  BY SMTT(60) DEF OneSentInv, ClearInv, QuietInv, EndedInv, GoneInv, Failed
<1>3. EndingInv'
  BY SMTT(60) DEF EndingInv, PrivateInv, Private, Failed
<1>4. PrivateInv'
  BY SMTT(60) DEF PrivateInv, ScopeInv, Private, Failed
<1>5. CardEndInv'
  BY SMTT(60) DEF CardEndInv, ScopeInv, Failed
<1>6. CountInv'
  BY SameCount DEF OpInv
<1> QED
  BY <1>1, <1>2, <1>3, <1>4, <1>5, <1>6

\* runManagedOperation refuses a transaction that is being ended.
LEMMA RunRefusedStep ==
  ASSUME UInv, BackendInv,
         NEW o \in Ops, NEW s \in Tx,
         \/ (op[o] = "idle" /\ \E t \in store : t.txId = s)
           \/ (op[o] = "ready" /\ opTx[o] = s),
         Use(o, s, "err"),
         UNCHANGED <<store, busy, finalizing, separate, managed, opEnd, ending, sync,
                     listed, dropped>>,
         UNCHANGED <<opening, backendVars>>
  PROVE  UInv'
<1> USE NoTxIsNoTx, NoCallIsNoCall, CallsAreDistinct
        DEF UInv, UiTypes, BackendInv, P!TypeOK, P!Stages, P!AllKinds, Ops, Calls,
            Scopes, Use, backendVars
<1>1. UiTypes' /\ OpInv' /\ ScopeInv' /\ PrivateInv' /\ OneEndInv'
  BY SMTT(60) DEF OpInv, ScopeInv, PrivateInv, OneEndInv, Private, Failed
<1>2. OneSentInv' /\ CardEndInv' /\ ClearInv' /\ QuietInv'
      /\ EndedInv' /\ GoneInv'
  BY SMTT(60) DEF OneSentInv, CardEndInv, ClearInv, QuietInv, EndedInv, GoneInv, Failed
<1>3. EndingInv'
  BY SMTT(60) DEF EndingInv, PrivateInv, Private, Failed
<1>4. CountInv'
  BY SameCount DEF OpInv
<1> QED
  BY <1>1, <1>2, <1>3, <1>4

\* It counts an operation that it sends, which no end is under way for: one of
\* the panel would hold finalizing, one of a private edit has no card.
LEMMA RunSentStep ==
  ASSUME UInv, BackendInv,
         NEW o \in Ops, NEW s \in Tx,
         NEW k \in Statements \cup {"write", "row"},
         \/ (op[o] = "idle" /\ \E t \in store : t.txId = s)
           \/ (op[o] = "ready" /\ opTx[o] = s),
         s \notin finalizing,
         busy' = [busy EXCEPT ![s] = @ + 1],
         Use(o, s, "sent"),
         Backend!Invoke(o, k, s),
         UNCHANGED <<store, finalizing, opening, separate, managed, opEnd, ending, sync,
                     listed, dropped>>
  PROVE  UInv'
<1> USE NoTxIsNoTx, NoCallIsNoCall, CallsAreDistinct, StatementsAreStatements
        DEF UInv, UiTypes, BackendInv, P!TypeOK, P!Stages, P!AllKinds, Ops, Calls,
            Scopes, Use, Backend!Invoke, Backend!managerVars, Backend!serverVars
<1>1. UiTypes' /\ OpInv' /\ ScopeInv' /\ PrivateInv'
  BY SMTT(60) DEF OpInv, ScopeInv, PrivateInv, Private, Failed
<1>2. OneEndInv' /\ OneSentInv' /\ CardEndInv' /\ EndedInv'
      /\ GoneInv'
  BY SMTT(60) DEF OneEndInv, OneSentInv, CardEndInv, EndedInv, GoneInv, Failed
<1>3. EndingInv'
  BY SMTT(60) DEF EndingInv, OpInv, PrivateInv, Private, Failed
<1>4. CountInv'
  BY CountUp
<1>5. ClearInv'
  BY SMTT(60) DEF ClearInv, EndingInv, Private
<1>6. QuietInv'
  BY SMTT(60) DEF QuietInv, EndingInv, PrivateInv, EndedInv, Private, Failed
<1> QED
  BY <1>1, <1>2, <1>3, <1>4, <1>5, <1>6

LEMMA RunStep ==
  ASSUME UInv, BackendInv,
         NEW o \in Ops, NEW s \in Tx, NEW k \in Statements \cup {"write", "row"},
         \/ (op[o] = "idle" /\ \E t \in store : t.txId = s)
           \/ (op[o] = "ready" /\ opTx[o] = s),
         Run(o, s, k),
         UNCHANGED <<store, finalizing, opening, separate, managed, opEnd, ending, sync,
                     listed, dropped>>
  PROVE  UInv'
  BY RunRefusedStep, RunSentStep DEF Run

\* The rest of runManagedOperation counts it down.
LEMMA RepliedStep ==
  ASSUME UInv, BackendInv,
         NEW o \in Ops, Replied(o)
  PROVE  UInv'
<1> USE NoTxIsNoTx, NoCallIsNoCall, CallsAreDistinct
        DEF UInv, UiTypes, BackendInv, P!TypeOK, P!Stages, P!AllKinds, Ops, Calls,
            Scopes, Replied, backendVars
<1>1. OpInv' /\ EndingInv' /\ ScopeInv' /\ PrivateInv' /\ OneEndInv'
  BY SMTT(60) DEF OpInv, EndingInv, ScopeInv, PrivateInv, OneEndInv, Private, Failed
<1>2. OneSentInv' /\ CardEndInv' /\ ClearInv' /\ QuietInv'
      /\ EndedInv' /\ GoneInv'
  BY SMTT(60) DEF OneSentInv, CardEndInv, ClearInv, QuietInv, EndedInv, GoneInv, Failed
<1>3. UiTypes'
  <2>1. opTx[o] \in Tx /\ result[o] # "sent"
    BY DEF OpInv
  <2>2. busy' \in [Tx -> Nat]
    BY <2>1, CountDown
  <2>3. result[o] \in {"ok", "err"}
    OBVIOUS
  <2> QED
    BY <2>2, <2>3
<1>4. CountInv'
  <2>1. opTx[o] \in Tx
    BY DEF OpInv
  <2>2. result[o] # "sent"
    OBVIOUS
  <2> QED
    BY <2>1, <2>2, CountDown
<1> QED
  BY <1>1, <1>2, <1>3, <1>4

\* finishManagedTransaction starts an end: nothing is counted, so no operation
\* is under way; no other end is, since finalizing is free and the card there.
LEMMA FinishStep ==
  ASSUME UInv, BackendInv,
         NEW e \in Ends, NEW k \in {"commit", "rollback"}, NEW t \in store,
         Finish(e, k, t)
  PROVE  UInv'
<1> USE NoTxIsNoTx, NoCallIsNoCall, CallsAreDistinct
        DEF UInv, UiTypes, BackendInv, P!TypeOK, P!Stages, P!AllKinds, Ops, Calls,
            Scopes, Finish, Backend!Invoke, Backend!managerVars, Backend!serverVars
<1>1. UiTypes' /\ OpInv' /\ EndingInv' /\ ScopeInv'
  BY SMTT(60) DEF OpInv, EndingInv, ScopeInv, Private, Failed
<1>2. PrivateInv' /\ CardEndInv' /\ EndedInv' /\ GoneInv'
  BY SMTT(60) DEF PrivateInv, CardEndInv, EndedInv, GoneInv, Private, Failed
<1>3. OneEndInv'
  BY SMTT(60) DEF OneEndInv, EndingInv, CardEndInv, Private, Failed
<1>4. OneSentInv'
  BY SMTT(60) DEF OneSentInv, EndingInv, Private
<1>5. CountInv'
  BY SameCount DEF OpInv
<1>6. ClearInv'
  BY NotBusy, SMTT(60) DEF ClearInv
<1>7. QuietInv'
  BY NotBusy, SMTT(60) DEF QuietInv, OpInv, PrivateInv, Private, Failed
<1> QED
  BY <1>1, <1>2, <1>3, <1>4, <1>5, <1>6, <1>7

\* Its reply frees finalizing, which no other end of the panel holds.
LEMMA FinishedStep ==
  ASSUME UInv, BackendInv,
         NEW e \in Ends, Finished(e)
  PROVE  UInv'
<1> USE NoTxIsNoTx, NoCallIsNoCall, CallsAreDistinct
        DEF UInv, UiTypes, BackendInv, P!TypeOK, P!Stages, P!AllKinds, Ops, Calls,
            Scopes, Finished, backendVars
<1>1. UiTypes' /\ OpInv' /\ ScopeInv' /\ PrivateInv' /\ OneEndInv'
  BY SMTT(60) DEF OpInv, ScopeInv, PrivateInv, OneEndInv, Private, Failed
<1>2. OneSentInv' /\ CardEndInv' /\ ClearInv' /\ QuietInv'
      /\ EndedInv' /\ GoneInv'
  BY SMTT(60) DEF OneSentInv, CardEndInv, ClearInv, QuietInv, EndedInv, GoneInv, Failed
<1>3. EndingInv'
  BY SMTT(60) DEF EndingInv, OneSentInv, Private
<1>4. CountInv'
  BY SameCount DEF OpInv
<1> QED
  BY <1>1, <1>2, <1>3, <1>4

\* An edit opens a transaction of its own.
LEMMA StartPrivateStep ==
  ASSUME UInv, BackendInv,
         NEW o \in Edits, NEW table \in Tables, StartPrivate(o, table)
  PROVE  UInv'
<1> USE NoTxIsNoTx, NoCallIsNoCall, CallsAreDistinct
        DEF UInv, UiTypes, BackendInv, P!TypeOK, P!Stages, P!AllKinds, Ops, Calls,
            Scopes, StartPrivate, Find, Use, Backend!BeginRequest, Backend!callVars,
            Backend!serverVars
<1>1. UiTypes' /\ OpInv' /\ ScopeInv' /\ OneEndInv' /\ OneSentInv'
  BY SMTT(60) DEF OpInv, ScopeInv, OneEndInv, OneSentInv, Private, Failed
<1>2. CardEndInv' /\ ClearInv' /\ QuietInv' /\ EndedInv' /\ GoneInv'
  BY SMTT(60) DEF CardEndInv, ClearInv, QuietInv, EndedInv, GoneInv, Failed
<1>3. EndingInv'
  BY SMTT(60) DEF EndingInv, PrivateInv, Private, Failed
<1>4. PrivateInv'
  BY SMTT(60) DEF PrivateInv, OpInv, ScopeInv, Private, Failed
<1>5. CountInv'
  BY SameCount DEF OpInv
<1> QED
  BY <1>1, <1>2, <1>3, <1>4, <1>5

LEMMA PrivateOpenedStep ==
  ASSUME UInv, BackendInv,
         NEW o \in Edits, PrivateOpened(o)
  PROVE  UInv'
<1> USE NoTxIsNoTx, NoCallIsNoCall, CallsAreDistinct
        DEF UInv, UiTypes, BackendInv, P!TypeOK, P!Stages, P!AllKinds, Ops, Calls,
            Scopes, PrivateOpened, backendVars, Backend!Invoke, Backend!managerVars,
            Backend!serverVars
<1>1. UiTypes' /\ OpInv' /\ EndingInv' /\ ScopeInv' /\ PrivateInv'
  BY SMTT(60) DEF OpInv, EndingInv, ScopeInv, PrivateInv, Private, Failed
<1>2. OneEndInv' /\ OneSentInv' /\ CardEndInv'
  BY SMTT(60) DEF OneEndInv, OneSentInv, CardEndInv, Failed
<1>6. ClearInv' /\ EndedInv' /\ GoneInv'
  BY SMTT(60) DEF ClearInv, EndedInv, GoneInv, Failed
<1>3. CountInv'
  BY SameCount DEF OpInv
<1>4. QuietInv'
  BY SMTT(60) DEF QuietInv, OpInv, ScopeInv, PrivateInv, Private, Failed
<1> QED
  BY <1>1, <1>2, <1>3, <1>4, <1>6

\* It ends it after its work, or again when its commit failed.
LEMMA PrivateEndStep ==
  ASSUME UInv, BackendInv,
         NEW o \in Edits, NEW k \in {"commit", "rollback"}, NEW state,
         \/ /\ op[o] = "privateWork" /\ pc[o] = "done"
            /\ \/ result[o] = "ok" /\ k = "commit" /\ state = "privateCommit"
               \/ result[o] = "err" /\ k = "rollback" /\ state = "privateUndo"
         \/ /\ op[o] = "privateCommit" /\ Failed(opEnd[o])
            /\ k = "rollback" /\ state = "privateUndo",
         PrivateEnd(o, k, state),
         UNCHANGED <<store, busy, finalizing, opening, separate, managed, opTx, sync,
                     listed, dropped>>
  PROVE  UInv'
<1> USE NoTxIsNoTx, NoCallIsNoCall, CallsAreDistinct
        DEF UInv, UiTypes, BackendInv, P!TypeOK, P!Stages, P!AllKinds, Ops, Calls,
            Scopes, PrivateEnd, Backend!Invoke, Backend!managerVars, Backend!serverVars
<1>1. UiTypes' /\ OpInv' /\ EndingInv' /\ ScopeInv'
  BY SMTT(60) DEF OpInv, EndingInv, ScopeInv, Private, Failed
<1>2. PrivateInv' /\ OneSentInv' /\ ClearInv' /\ EndedInv'
      /\ GoneInv'
  BY SMTT(60) DEF PrivateInv, OneSentInv, ClearInv, EndedInv, GoneInv, Private, Failed
<1>3. OneEndInv'
  BY SMTT(60) DEF OneEndInv, PrivateInv, Private, Failed
<1>4. CardEndInv'
  BY SMTT(60) DEF CardEndInv, PrivateInv, Private, Failed
<1>5. CountInv'
  BY SameCount DEF OpInv
<1>6. QuietInv'
  BY SMTT(60) DEF QuietInv, OpInv, PrivateInv, Private, Failed
<1> QED
  BY <1>1, <1>2, <1>3, <1>4, <1>5, <1>6

LEMMA PrivateWorkedStep ==
  ASSUME UInv, BackendInv, NEW o \in Edits, PrivateWorked(o)
  PROVE  UInv'
<1>1. op[o] = "privateWork" /\ pc[o] = "done"
  BY DEF PrivateWorked
<1>2. result[o] \in {"ok", "err"}
  BY <1>1 DEF BackendInv, P!TypeOK, Calls
<1> QED
  BY <1>1, <1>2, PrivateEndStep DEF PrivateWorked

LEMMA PrivateCommittedOkStep ==
  ASSUME UInv, BackendInv,
         NEW o \in Edits, op[o] = "privateCommit",
         pc[opEnd[o]] = "done", result[opEnd[o]] = "ok",
         op' = [op EXCEPT ![o] = "ok"],
         UNCHANGED <<store, busy, finalizing, opening, separate, managed, opTx, opEnd,
                     ending, sync, listed, dropped, backendVars>>
  PROVE  UInv'
<1> USE NoTxIsNoTx, NoCallIsNoCall, CallsAreDistinct
        DEF UInv, UiTypes, BackendInv, P!TypeOK, P!Stages, P!AllKinds, Ops, Calls,
            Scopes, backendVars
<1>1. UiTypes' /\ OpInv' /\ EndingInv' /\ ScopeInv' /\ PrivateInv'
      /\ OneEndInv'
  BY SMTT(60) DEF OpInv, EndingInv, ScopeInv, PrivateInv, OneEndInv, Private, Failed
<1>2. OneSentInv' /\ CardEndInv' /\ ClearInv' /\ QuietInv'
      /\ EndedInv' /\ GoneInv'
  BY SMTT(60) DEF OneSentInv, CardEndInv, ClearInv, QuietInv, EndedInv, GoneInv, Failed
<1>3. CountInv'
  BY SameCount DEF OpInv
<1> QED
  BY <1>1, <1>2, <1>3

LEMMA PrivateCommittedStep ==
  ASSUME UInv, BackendInv, NEW o \in Edits, PrivateCommitted(o)
  PROVE  UInv'
  BY PrivateCommittedOkStep, PrivateEndStep DEF PrivateCommitted, Failed

LEMMA PrivateUndoneStep ==
  ASSUME UInv, BackendInv,
         NEW o \in Edits, PrivateUndone(o)
  PROVE  UInv'
<1> USE NoTxIsNoTx, NoCallIsNoCall, CallsAreDistinct
        DEF UInv, UiTypes, BackendInv, P!TypeOK, P!Stages, P!AllKinds, Ops, Calls,
            Scopes, PrivateUndone, backendVars
<1>1. UiTypes' /\ EndingInv' /\ ScopeInv' /\ PrivateInv'
      /\ OneEndInv'
  BY SMTT(60) DEF EndingInv, ScopeInv, PrivateInv, OneEndInv, Private, Failed
<1>2. OneSentInv' /\ CardEndInv' /\ ClearInv' /\ QuietInv'
      /\ EndedInv' /\ GoneInv'
  BY SMTT(60) DEF OneSentInv, CardEndInv, ClearInv, QuietInv, EndedInv, GoneInv, Failed
<1>3. OpInv'
  BY SMTT(60) DEF OpInv, PrivateInv, Private, Failed
<1>4. CountInv'
  BY SameCount DEF OpInv
<1> QED
  BY <1>1, <1>2, <1>3, <1>4

\* syncWithBackend takes cards away and adds none.
LEMMA SyncStep ==
  ASSUME UInv, BackendInv,
         SyncAsk \/ SyncAnswer \/ SyncApply
  PROVE  UInv'
<1> USE NoTxIsNoTx, NoCallIsNoCall, CallsAreDistinct
        DEF UInv, UiTypes, BackendInv, P!TypeOK, P!Stages, P!AllKinds, Ops, Calls,
            Scopes, SyncAsk, SyncAnswer, SyncApply, backendVars
<1>1. UiTypes' /\ OpInv' /\ EndingInv' /\ ScopeInv' /\ PrivateInv'
      /\ OneEndInv'
  BY SMTT(60) DEF OpInv, EndingInv, ScopeInv, PrivateInv, OneEndInv, Private, Failed
<1>2. OneSentInv' /\ CardEndInv' /\ ClearInv' /\ QuietInv'
      /\ EndedInv' /\ GoneInv'
  BY SMTT(60) DEF OneSentInv, CardEndInv, ClearInv, QuietInv, EndedInv, GoneInv, Failed
<1>3. CountInv'
  BY SameCount DEF OpInv
<1> QED
  BY <1>1, <1>2, <1>3

LEMMA SwitchStep ==
  ASSUME UInv, BackendInv,
         SwitchManaged \/ SwitchSeparate
  PROVE  UInv'
<1> USE NoTxIsNoTx, NoCallIsNoCall, CallsAreDistinct
        DEF UInv, UiTypes, BackendInv, P!TypeOK, P!Stages, P!AllKinds, Ops, Calls,
            Scopes, SwitchManaged, SwitchSeparate, backendVars
<1>1. OpInv' /\ EndingInv' /\ ScopeInv' /\ PrivateInv' /\ OneEndInv'
  BY SMTT(60) DEF OpInv, EndingInv, ScopeInv, PrivateInv, OneEndInv, Private, Failed
<1>2. OneSentInv' /\ CardEndInv' /\ ClearInv' /\ QuietInv'
      /\ EndedInv' /\ GoneInv'
  BY SMTT(60) DEF OneSentInv, CardEndInv, ClearInv, QuietInv, EndedInv, GoneInv, Failed
<1>3. UiTypes'
  <2>1. managed' \in BOOLEAN /\ separate' \in BOOLEAN
    OBVIOUS
  <2>2. UNCHANGED <<store, busy, finalizing, opening, op, opTx, opEnd, ending, listed, dropped>>
        /\ sync' \in {"idle", "asked", "answered"}
    OBVIOUS
  <2> QED
    BY <2>1, <2>2
<1>4. CountInv'
  BY SameCount DEF OpInv
<1> QED
  BY <1>1, <1>2, <1>3, <1>4

LEMMA CancelStep ==
  ASSUME UInv, BackendInv,
         NEW o \in Queries, Backend!Cancel(o), UNCHANGED uiVars
  PROVE  UInv'
<1> USE NoTxIsNoTx, NoCallIsNoCall, CallsAreDistinct
        DEF UInv, UiTypes, BackendInv, P!TypeOK, P!Stages, P!AllKinds, Ops, Calls,
            Scopes, Backend!Cancel, Backend!managerVars, Backend!serverVars, uiVars
<1>1. UiTypes' /\ OpInv' /\ EndingInv' /\ ScopeInv' /\ PrivateInv'
      /\ OneEndInv'
  BY SMTT(60) DEF OpInv, EndingInv, ScopeInv, PrivateInv, OneEndInv, Private, Failed
<1>2. OneSentInv' /\ CardEndInv' /\ ClearInv' /\ QuietInv'
      /\ EndedInv' /\ GoneInv'
  BY SMTT(60) DEF OneSentInv, CardEndInv, ClearInv, QuietInv, EndedInv, GoneInv, Failed
<1>3. CountInv'
  BY SameCount DEF OpInv
<1> QED
  BY <1>1, <1>2, <1>3

\* The backend and the server: what a step leaves alone is enough.
LEMMA SystemStep ==
  ASSUME UInv, BackendInv,
         BackendInv', P!Frame, UNCHANGED uiVars,
         \A c \in Calls : pc[c] = "forget" => kind[c] \in {"commit", "rollback"}
  PROVE  UInv'
<1> USE NoTxIsNoTx, NoCallIsNoCall, CallsAreDistinct, StatementsAreStatements
        DEF UInv, UiTypes, BackendInv, P!TypeOK, P!Stages, P!AllKinds, Ops, Calls,
            Scopes, P!Frame, uiVars
<1>1. UiTypes' /\ OpInv' /\ EndingInv' /\ PrivateInv'
  BY SMTT(60) DEF OpInv, EndingInv, PrivateInv, Private, Failed
<1>2. OneEndInv' /\ OneSentInv' /\ CardEndInv' /\ ClearInv'
      /\ QuietInv'
  BY SMTT(60) DEF OneEndInv, OneSentInv, CardEndInv, ClearInv, QuietInv, Failed
<1>3. ScopeInv'
  BY SMTT(60) DEF ScopeInv, OpInv, Private, Failed
<1>4. CountInv'
  BY SameCount DEF OpInv
<1>5. EndedInv'
  BY SMTT(60) DEF EndedInv, EndingInv, Private
<1>6. GoneInv'
  <2> SUFFICES ASSUME NEW s \in Tx, begin'[s] = "ok", s \notin registered'
               PROVE  \E e \in Ends : target'[e] = s /\ pc'[e] = "done" /\ result'[e] = "ok"
    BY DEF GoneInv
  <2>1. CASE s \notin registered
    BY <2>1, SMTT(60) DEF GoneInv
  <2>2. CASE s \in registered
    <3>1. PICK c \in Calls : /\ pc[c] = "forget" /\ target[c] = s
                           /\ pc'[c] = "done" /\ result'[c] = "ok"
      BY <2>2
    <3>2. kind[c] \in {"commit", "rollback"}
      BY <3>1
    <3>3. c \in Ends
      <4>1. c \in Ops => kind[c] \in Statements \cup {"write", "row"}
        BY <3>1, SMTT(30) DEF OpInv
      <4>2. c \in Ends \/ c \in Ops
        OBVIOUS
      <4> HIDE DEF UInv, UiTypes, BackendInv, P!TypeOK, P!Frame, Ops, Calls
      <4> QED
        BY <3>2, <4>1, <4>2
    <3>4. target'[c] = s
      BY <3>1
    <3> QED
      BY <3>1, <3>3, <3>4
  <2> QED
    BY <2>1, <2>2
<1> QED
  BY <1>1, <1>2, <1>3, <1>4, <1>5, <1>6

-----------------------------------------------------------------------------
(* The backend inside the composition. *)

\* The commands of the user interface, as the backend's assumption wants them.
LEMMA KindsAreKnown ==
  NoTx \notin Tx /\ NoCall \notin Calls
  /\ {"write", "end", "row", "commit", "rollback"} \subseteq P!AllKinds
  BY NoTxIsNoTx, NoCallIsNoCall DEF P!AllKinds

\* Backend and P are the same instance, one without and one with the proofs.
LEMMA SameInit == Backend!Init <=> P!Init
  BY DEF Backend!Init, P!Init

LEMMA SameSystem == Backend!System <=> P!System
  BY DEF Backend!Connect, P!Connect, Backend!SendBegin, P!SendBegin,
         Backend!InsertEntry, P!InsertEntry, Backend!BeginFails, P!BeginFails,
         Backend!Return, P!Return, Backend!Unlock, P!Unlock, Backend!Send, P!Send,
         Backend!LookUp, P!LookUp, Backend!FirstStages, P!FirstStages, Backend!MayUse,
         P!MayUse, Backend!Acquire, P!Acquire, Backend!Refuse, P!Refuse,
         Backend!ExecReturns, P!ExecReturns, Backend!Interrupt, P!Interrupt,
         Backend!CancelSent, P!CancelSent, Backend!InterruptedReturns,
         P!InterruptedReturns, Backend!Answered, P!Answered, Backend!ColumnsAnswered,
         P!ColumnsAnswered, Backend!SavepointSet, P!SavepointSet, Backend!WorkAnswered,
         P!WorkAnswered, Backend!UndoAnswered, P!UndoAnswered, Backend!ReleaseAnswered,
         P!ReleaseAnswered, Backend!ProbeAnswered, P!ProbeAnswered, Backend!EndAnswered,
         P!EndAnswered, Backend!Forget, P!Forget, Backend!GaveUp, P!GaveUp,
         Backend!Executing, P!Executing, Backend!Asks, P!Asks, Backend!Answer, P!Answer,
         Backend!SetStatus, P!SetStatus, Backend!ServerRefuses, P!ServerRefuses,
         Backend!ServerAgrees, P!ServerAgrees, Backend!ServerMatchesNothing,
         P!ServerMatchesNothing, Backend!ServerChanges, P!ServerChanges,
         Backend!ServerFails, P!ServerFails, Backend!ServerUndoes, P!ServerUndoes,
         Backend!ServerEnds, P!ServerEnds, Backend!ServerRejectsCommit,
         P!ServerRejectsCommit, Backend!CancelArrives, P!CancelArrives,
         Backend!LoseConnection, P!LoseConnection, Backend!DropSession, P!DropSession,
         Backend!Opening, P!Opening, Backend!Working, P!Working, Backend!Serving,
         P!Serving, Backend!System, P!System, Backend!managerVars, P!managerVars,
         Backend!callVars, P!callVars, Backend!serverVars, P!serverVars,
         Backend!Executes, P!Executes, Backend!Savepoints, P!Savepoints

LEMMA SameRequests ==
  /\ \A s \in Tx : Backend!BeginRequest(s) <=> P!BeginRequest(s)
  /\ \A c \in Calls : Backend!Cancel(c) <=> P!Cancel(c)
  /\ \A c \in Calls, s \in Tx : \A k : Backend!Invoke(c, k, s) <=> P!Invoke(c, k, s)
  BY DEF Backend!BeginRequest, P!BeginRequest, Backend!Cancel, P!Cancel,
         Backend!Invoke, P!Invoke, Backend!managerVars, P!managerVars,
         Backend!callVars, P!callVars, Backend!serverVars, P!serverVars,
         Backend!Executes, P!Executes

LEMMA SameVars == Backend!vars = P!vars /\ (UNCHANGED backendVars => UNCHANGED P!vars)
  BY DEF Backend!vars, P!vars, Backend!managerVars, P!managerVars, Backend!callVars,
         P!callVars, Backend!serverVars, P!serverVars, backendVars

LEMMA BackendInvHolds == P!IInv => BackendInv
  BY DEF P!IInv, P!StageInv, BackendInv

\* A handler sends the commands the backend knows on sessions that were opened,
\* or leaves the backend alone.
LEMMA NextIsBackend == UInv /\ BackendInv /\ [Next]_vars => [P!Next]_P!vars
<1> SUFFICES ASSUME UInv, BackendInv, Next PROVE P!Next \/ UNCHANGED P!vars
  BY SameVars DEF vars
<1> USE DEF UInv, UiTypes, Ops
<1> DEFINE Request ==
      \/ \E s \in Tx : Backend!BeginRequest(s)
      \/ \E c \in Calls : Backend!Cancel(c)
      \/ \E c \in Calls, s \in Tx :
           \E k \in {"write", "end", "row", "commit", "rollback"} : Backend!Invoke(c, k, s)
<1>1. Request => P!Next
  BY SameRequests DEF P!Next, P!Requests
<1>2. Backend!System => P!Next
  BY SameSystem DEF P!Next
<1>3. ASSUME Handler PROVE Request \/ UNCHANGED backendVars
  <2>1. ASSUME NEW o \in Ops, NEW s \in Tx, NEW k \in {"write", "end", "row"}, Run(o, s, k)
        PROVE  Request \/ UNCHANGED backendVars
    BY <2>1 DEF Run, Calls
  <2>2. ASSUME NEW o \in Ops, Continue(o) PROVE Request \/ UNCHANGED backendVars
    <3>1. opTx[o] \in Tx
      BY <2>2 DEF Continue, OpInv
    <3> QED
      BY <2>1, <2>2, <3>1 DEF Continue
  <2>3. ASSUME NEW o \in Edits, NEW k \in {"commit", "rollback"}, NEW state,
               opTx[o] \in Tx, PrivateEnd(o, k, state)
        PROVE  Request
    BY <2>3 DEF PrivateEnd, Calls
  <2>4. ASSUME NEW o \in Edits,
               PrivateOpened(o) \/ PrivateWorked(o) \/ PrivateCommitted(o) \/ PrivateUndone(o)
        PROVE  Request \/ UNCHANGED backendVars
    <3>1. opTx[o] \in Tx
      BY <2>4 DEF PrivateOpened, PrivateWorked, PrivateCommitted, PrivateUndone, OpInv
    <3> QED
      BY <2>3, <2>4, <3>1
         DEF PrivateOpened, PrivateWorked, PrivateCommitted, PrivateUndone, Calls
  <2> QED
    BY <1>3, <2>2, <2>4 DEF Handler, Opened, Replied, Finished, SyncAnswer, SyncApply
<1>4. ASSUME User PROVE Request \/ UNCHANGED backendVars
  <2>1. ASSUME NEW o \in Ops, NEW requested, Ensure(o, requested)
        PROVE  Request \/ UNCHANGED backendVars
    BY <2>1 DEF Ensure
  <2>2. ASSUME NEW o \in Queries, StartQuery(o) PROVE Request \/ UNCHANGED backendVars
    BY <2>2, StatementsAreStatements DEF StartQuery, Find, Run, Calls
  <2>3. ASSUME NEW e \in Ends, NEW k \in {"commit", "rollback"}, NEW t \in store,
               Finish(e, k, t)
        PROVE  Request
    BY <2>3 DEF Finish, Calls
  <2> QED
    BY <1>4, <2>1, <2>2, <2>3
       DEF User, StartEdit, StartPrivate, OpenQuery, StartScript, SyncAsk, SwitchManaged,
           SwitchSeparate, Calls
<1> QED
  BY <1>1, <1>2, <1>3, <1>4, SameVars DEF Next

LEMMA UInvStep ==
  ASSUME UInv, P!IInv, BackendInv, BackendInv', [Next]_vars
  PROVE  UInv'
<1>1. CASE UNCHANGED vars
  BY <1>1 DEF vars, uiVars, backendVars, UInv, UiTypes, OpInv, EndingInv, ScopeInv,
     PrivateInv, OneEndInv, OneSentInv, CardEndInv, CountInv, ClearInv, QuietInv,
     EndedInv, GoneInv, Failed, Private, Sent
<1>2. ASSUME Handler PROVE UInv'
  <2>1. ASSUME NEW o \in Ops, Continue(o) PROVE UInv'
    <3>1. opTx[o] \in Tx
      BY <2>1 DEF Continue, UInv, UiTypes, OpInv, Ops
    <3> QED
      BY <2>1, <3>1, RunStep DEF Continue
  <2> QED
    BY <1>2, <2>1, OpenedStep, RepliedStep, PrivateOpenedStep, PrivateWorkedStep,
       PrivateCommittedStep, PrivateUndoneStep, FinishedStep, SyncStep
       DEF Handler, Ops
<1>3. ASSUME User PROVE UInv'
  <2>1. ASSUME NEW o \in Edits, NEW table \in Tables, StartEdit(o, table) PROVE UInv'
    BY <2>1, EnsureStep DEF StartEdit, Ops, Scopes
  <2>2. ASSUME NEW o \in Queries, StartQuery(o) PROVE UInv'
    <3>1. PICK t \in store, k \in Statements : Run(o, t.txId, k)
      BY <2>2 DEF StartQuery, Find
    <3>2. t.txId \in Tx
      BY DEF UInv, UiTypes
    <3> QED
      BY <2>2, <3>1, <3>2, RunStep DEF StartQuery, Ops
  <2>3. ASSUME NEW o \in Queries, OpenQuery(o) PROVE UInv'
    BY <2>3, EnsureStep DEF OpenQuery, Ops, Scopes
  <2>4. ASSUME NEW o \in Queries, StartScript(o) PROVE UInv'
    BY <2>4, UseCardStep DEF StartScript, Find, Ops
  <2> QED
    BY <1>3, <2>1, <2>2, <2>3, <2>4, StartPrivateStep, FinishStep, CancelStep, SyncStep,
       SwitchStep
       DEF User
<1>4. ASSUME Backend!System, UNCHANGED uiVars PROVE UInv'
  <2>1. P!Frame
    BY <1>4, SameSystem, P!SystemFrame, KindsAreKnown
  <2>2. \A c \in Calls : pc[c] = "forget" => kind[c] \in {"commit", "rollback"}
    BY DEF P!IInv, P!StageInv
  <2> QED
    BY <1>4, <2>1, <2>2, SystemStep
<1> QED
  BY <1>1, <1>2, <1>3, <1>4 DEF Next

\* The invariants of the backend and of the user interface hold in every
\* reachable state of their composition.
LEMMA InvStep == Inv /\ [Next]_vars => Inv' /\ [P!Next]_P!vars
<1> SUFFICES ASSUME Inv, [Next]_vars PROVE Inv' /\ [P!Next]_P!vars
  OBVIOUS
<1> USE DEF Inv
<1>1. BackendInv
  BY BackendInvHolds
<1>2. [P!Next]_P!vars
  BY <1>1, NextIsBackend
<1>3. P!IInv' /\ P!ProbeInv'
  BY <1>2, P!Step, P!ProbeInvStep, KindsAreKnown
<1>4. BackendInv'
  BY <1>3 DEF P!IInv, P!StageInv, BackendInv
<1> QED
  BY <1>1, <1>2, <1>3, <1>4, UInvStep

THEOREM Invariance == Spec => []Inv
<1>1. Init => Inv
  BY UInvInit, SameInit, P!InitInv, P!ProbeInvInit, KindsAreKnown DEF Init, Inv
<1> QED
  BY <1>1, InvStep, PTL DEF Spec

LEMMA SameTypeOK == P!TypeOK <=> Backend!TypeOK
  BY DEF P!TypeOK, Backend!TypeOK, P!Stages, Backend!Stages, P!AllKinds, Backend!AllKinds

\* The variables of the user interface and of the backend keep their types.
THEOREM TypeCorrect == Spec => []TypeOK
<1>1. Inv => TypeOK
  BY SameTypeOK DEF Inv, P!IInv, UInv, UiTypes, Ops, TypeOK
<1> QED
  BY <1>1, Invariance, PTL DEF Inv

\* However edits, queries and the settings interleave, a scope has at most one
\* card, and none while a transaction is being opened for it.
THEOREM OneTransaction == Spec => []OneTransactionPerScope
<1>1. UInv => OneTransactionPerScope
  <2> SUFFICES ASSUME UInv, NEW sc \in Scopes
               PROVE  /\ Cardinality({t \in store : t.scope = sc}) <= 1
                      /\ opening[sc] # NoTx => \A t \in store : t.scope # sc
    BY DEF OneTransactionPerScope
  <2> DEFINE own == {t \in store : t.scope = sc}
  <2>1. CASE own = {}
    <3>1. Cardinality(own) = 0
      BY <2>1, FS_EmptySet
    <3>2. \A t \in store : t.scope # sc
      BY <2>1
    <3> QED
      BY <3>1, <3>2
  <2>2. ASSUME NEW t \in own PROVE own = {t}
    BY DEF UInv, ScopeInv
  <2>3. CASE own # {}
    <3>1. PICK t \in own : own = {t}
      BY <2>2, <2>3
    <3>2. Cardinality(own) = 1
      BY <3>1, FS_Singleton
    <3>3. opening[sc] = NoTx
      BY <3>1 DEF UInv, ScopeInv
    <3> QED
      BY <3>2, <3>3
  <2> QED
    BY <2>1, <2>3
<1> QED
  BY <1>1, Invariance, PTL DEF Inv

\* A card stands for a transaction that can still be ended, or is being ended.
THEOREM Backed == Spec => []CardsAreBacked
<1>1. UInv => CardsAreBacked
  <2> SUFFICES ASSUME UInv, NEW t \in store, t.txId \notin registered
               PROVE  t.txId \in finalizing
    BY DEF CardsAreBacked
  <2>1. t.txId \in Tx /\ begin[t.txId] = "ok"
    BY DEF UInv, UiTypes, ScopeInv
  <2>2. PICK e \in Ends : target[e] = t.txId /\ pc[e] = "done" /\ result[e] = "ok"
    BY <2>1 DEF UInv, GoneInv
  <2>3. ending[e] = "sent"
    BY <2>2 DEF UInv, CardEndInv, Failed
  <2> QED
    BY <2>2, <2>3 DEF UInv, EndingInv
<1> QED
  BY <1>1, Invariance, PTL DEF Inv

-----------------------------------------------------------------------------
(* The changes. *)

LEMMA TInvInit == Init => TInv
<1> SUFFICES ASSUME Init PROVE TInv
  OBVIOUS
<1> USE DEF Init, Backend!Init, Ops, Calls
<1>1. IdleInv /\ LateInv
  BY DEF IdleInv, LateInv
<1>2. AutoInv /\ CommittedInv
  BY DEF AutoInv, CommittedInv
<1>3. \A o \in Ops : pc[o] = "new"
  OBVIOUS
<1>4. KeptInv
  BY <1>3 DEF KeptInv, P!Did
<1>5. WholeInv
  BY <1>3 DEF WholeInv
<1>6. DiscardInv
  BY DEF DiscardInv
<1> QED
  BY <1>1, <1>2, <1>4, <1>5, <1>6 DEF TInv

\* A request of the user interface makes no end and no change.
LEMMA TInvRequest ==
  ASSUME Inv, TInv, P!TypeOK', P!RequestFrame
  PROVE  TInv'
<1> USE NoTxIsNoTx DEF Inv, P!IInv, P!TypeOK, P!RequestFrame, Ops, Calls
<1>1. \A c \in Calls, s \in Tx :
        /\ target[c] = s => target'[c] = s /\ kind'[c] = kind[c] /\ pc'[c] = pc[c]
        /\ target'[c] = s => target[c] = s \/ pc'[c] = "entry"
  OBVIOUS
<1>2. \A c \in Calls : /\ P!Success(c)' => P!Success(c)
                       /\ P!Rejected(c)' => P!Rejected(c)
                       /\ P!Did(c)' => P!Did(c)
                       /\ P!Success(c) => P!Success(c)'
                       /\ P!Rejected(c) => P!Rejected(c)'
                       /\ P!Success(c) \/ P!Rejected(c) \/ P!Did(c) => pc[c] \notin {"new", "entry"}
  BY DEF P!Success, P!Rejected, P!Did, P!StageInv
<1>3. \A s \in Tx : CommitFailed(s) => CommitFailed(s)'
  BY <1>1 DEF CommitFailed
<1>4. \A s \in Tx : /\ Over(s) => Over(s)'
                    /\ Discarded(s) => Discarded(s)'
                    /\ Persisted(s) => Persisted(s)'
  BY <1>1, <1>2, <1>3 DEF Over, Discarded, Persisted
<1>5. IdleInv'
  BY <1>4 DEF TInv, IdleInv
<1>6. LateInv'
  BY <1>1, <1>2 DEF TInv, LateInv
<1>7. AutoInv' /\ CommittedInv'
  <2>1. \A o \in committed \cup autocommitted : pc[o] # "new"
    BY DEF P!CommittedInv, P!SavepointInv
  <2>2. \A o \in committed \cup autocommitted : target'[o] = target[o]
    BY <2>1
  <2> QED
    BY <1>3, <1>4, <2>2 DEF TInv, AutoInv, CommittedInv
<1>8. KeptInv'
  BY <1>1, <1>2, <1>4 DEF TInv, KeptInv
<1>9. WholeInv'
  BY <1>1, <1>2, <1>3 DEF TInv, WholeInv
<1>10. DiscardInv'
  <2>1. \A o \in committed : o \in Calls /\ pc[o] # "new"
    BY DEF P!CommittedInv, P!SavepointInv
  <2>2. \A o \in committed : target'[o] = target[o]
    BY <2>1
  <2>3. ASSUME NEW e \in Ends, P!Success(e)'
        PROVE  P!Success(e) /\ target'[e] = target[e] /\ kind'[e] = kind[e]
    <3>1. P!Success(e) /\ pc[e] # "new"
      BY <2>3, <1>2
    <3> QED
      BY <3>1
  <2>4. committed' = committed
    OBVIOUS
  <2> QED
    BY <2>2, <2>3, <2>4 DEF TInv, DiscardInv
<1> QED
  BY <1>5, <1>6, <1>7, <1>8, <1>9, <1>10 DEF TInv

\* What a step of the backend makes of the ends.
LEMMA Stays ==
  ASSUME Inv, P!IInv', P!Frame, P!EndEffects, P!SessionEffects,
         NEW s \in Tx, begin[s] = "ok"
  PROVE  /\ CommitFailed(s) => CommitFailed(s)'
         /\ Over(s) => Over(s)' \/ server'[s] = "closed"
         /\ Discarded(s) => Discarded(s)' \/ server'[s] = "closed"
         /\ Persisted(s) => Persisted(s)'
<1> USE DEF Inv, P!IInv, P!TypeOK, Calls, P!IsEnd
<1>1. \A e \in Ends : target[e] = s =>
        /\ target'[e] = s /\ kind'[e] = kind[e] /\ kind[e] \in {"commit", "rollback"}
        /\ P!Success(e) => P!Success(e)' \/ server'[s] = "closed"
        /\ P!Rejected(e) => \/ P!Rejected(e)' \/ server'[s] = "closed"
                            \/ pc'[e] = "done" /\ result'[e] = "err"
  BY NoTxIsNoTx DEF P!Frame, P!EndEffects, UInv, EndingInv
<1>2. \A e \in Ends : kind[e] = "commit" /\ result[e] = "err" => result'[e] = "err"
  BY DEF P!Frame, P!StageInv
<1>3. \A e \in Ends : P!Rejected(e) => kind[e] = "commit"
  BY DEF P!Rejected, P!StageInv
<1>4. CommitFailed(s) => CommitFailed(s)'
  BY <1>1, <1>2 DEF CommitFailed
<1>5. ASSUME NEW e \in Ends, target[e] = s, P!Rejected(e)
      PROVE  P!Rejected(e)' \/ server'[s] = "closed" \/ CommitFailed(s)'
  BY <1>1, <1>3, <1>5 DEF CommitFailed
<1>6. Over(s) => Over(s)' \/ server'[s] = "closed"
  BY <1>1, <1>4, <1>5 DEF Over
<1>7. Discarded(s) => Discarded(s)' \/ server'[s] = "closed"
  BY <1>1, <1>4, <1>5 DEF Discarded
<1>8. server[s] = "closed" => server'[s] = "closed"
  BY DEF P!SessionEffects
<1>9. Persisted(s) => Persisted(s)'
  BY <1>1, <1>8 DEF Persisted
<1> QED
  BY <1>4, <1>6, <1>7, <1>9

LEMMA TInvSystem ==
  ASSUME Inv, Inv', TInv, "end" \notin Statements,
         P!Frame, P!EndEffects, P!SessionEffects, P!ChangeEffects
  PROVE  TInv'
<1> USE NoTxIsNoTx DEF Inv, P!IInv, P!TypeOK, Ops, Calls
<1>1. \A c \in Calls : /\ pc[c] # "new" => target[c] \in Tx /\ begin[target[c]] = "ok"
                       /\ target'[c] = target[c] /\ kind'[c] = kind[c]
  BY DEF P!Frame
<1>2. \A c \in Calls : kind[c] # "end"
  BY StatementsAreStatements DEF UInv, OpInv, EndingInv
<1>3. /\ \A c \in Calls : P!IsEnd(c) => c \in Ends
      /\ \A c \in Ends : pc[c] # "new" => P!IsEnd(c)
  BY StatementsAreStatements DEF UInv, OpInv, EndingInv, P!IsEnd
<1>4. \A o \in Ops : pc[o] # "new" => kind[o] \in P!Changes
  <2>1. \A o \in Ops : pc[o] # "new" => kind[o] \in Statements \cup {"write", "row"}
    BY DEF UInv, OpInv
  <2>2. Statements \subseteq {"write"}
    BY StatementsAreStatements
  <2> HIDE DEF Inv, P!IInv, P!TypeOK
  <2> QED
    BY <2>1, <2>2 DEF P!Changes
<1>5. \A s \in Tx : begin[s] = "ok" =>
        /\ CommitFailed(s) => CommitFailed(s)'
        /\ Over(s) => Over(s)' \/ server'[s] = "closed"
        /\ Discarded(s) => Discarded(s)' \/ server'[s] = "closed"
        /\ Persisted(s) => Persisted(s)'
  BY Stays
<1>6. \A e \in Ends : P!Success(e) \/ P!Rejected(e) => pc[e] # "new" /\ ~Failed(e)
  BY DEF P!Success, P!Rejected, Failed
<1>7. \A e \in Ends : (P!Success(e) \/ P!Rejected(e))' => pc[e] # "new" /\ ~Failed(e)
  BY DEF P!Success, P!Rejected, Failed, P!Frame
<1>8. \A d, e \in Ends :
        (P!Success(d) \/ P!Rejected(d)) /\ pc[e] # "new" /\ ~Failed(e)
          /\ target[d] = target[e] => d = e
  BY <1>6 DEF UInv, OneEndInv
<1>9. IdleInv'
  <2> SUFFICES ASSUME NEW s \in Tx, begin'[s] = "ok", server'[s] = "idle" PROVE Over(s)'
    BY DEF IdleInv
  <2>1. CASE begin[s] = "ok" /\ server[s] = "idle"
    BY <2>1, <1>5 DEF TInv, IdleInv
  <2>2. CASE \E c \in Calls : target[c] = s
               /\ (kind[c] = "end" \/ (P!IsEnd(c) /\ (P!Success(c) \/ P!Rejected(c))'))
    BY <2>2, <1>1, <1>2, <1>3 DEF Over
  <2> QED
    BY <2>1, <2>2 DEF P!SessionEffects
<1>10. LateInv'
  <2> SUFFICES ASSUME NEW e \in Ends, NEW o \in Ops, target[e] = target[o],
                      (P!Success(e) \/ P!Rejected(e))', stmt'[o] = "sent"
               PROVE  FALSE
    BY <1>1 DEF LateInv
  <2>1. pc[e] # "new" /\ ~Failed(e)
    BY <1>7
  <2>2. pc[o] # "new" /\ pc'[o] # "entry"
    BY DEF P!Frame, P!StageInv, P!Holding
  <2>3. pc[o] = "done" \/ pc[o] = "entry"
    BY <2>1, <2>2 DEF UInv, QuietInv
  <2>4. pc[o] = "entry" => stmt[o] # "sent"
    BY DEF P!StageInv, P!Holding
  <2>5. stmt[o] = "sent" /\ pc[o] = "done"
    BY <2>3, <2>4 DEF P!ChangeEffects
  <2>6. ~(P!Success(e) \/ P!Rejected(e))
    BY <2>5 DEF TInv, LateInv
  <2> QED
    BY <2>1, <2>5, <2>6, <1>3 DEF P!EndEffects
<1>11. AutoInv'
  <2> SUFFICES ASSUME NEW o \in autocommitted', NEW s \in Tx, target[o] = s
               PROVE  CommitFailed(s)'
    BY <1>1 DEF AutoInv
  <2>1. o \in Calls /\ begin[s] = "ok"
    BY <1>1
  <2>2. CASE o \in autocommitted
    BY <2>1, <2>2, <1>5 DEF TInv, AutoInv
  <2>3. CASE o \notin autocommitted
    <3>1. kind[o] \in P!Changes /\ stmt[o] = "sent" /\ server[s] = "idle"
      BY <2>3 DEF P!ChangeEffects
    <3>2. o \in Ops
      BY <3>1 DEF UInv, EndingInv, P!Changes
    <3>3. Over(s)
      BY <2>1, <3>1 DEF TInv, IdleInv
    <3>4. \A e \in Ends : target[e] = s => ~(P!Success(e) \/ P!Rejected(e))
      BY <3>1, <3>2 DEF TInv, LateInv
    <3>5. CommitFailed(s)
      BY <3>3, <3>4 DEF Over
    <3> QED
      BY <2>1, <3>5, <1>5
  <2> QED
    BY <2>2, <2>3
<1>12. CommittedInv'
  <2> SUFFICES ASSUME NEW o \in committed', NEW s \in Tx, target[o] = s
               PROVE  Persisted(s)'
    BY <1>1 DEF CommittedInv
  <2>1. CASE o \in committed
    BY <2>1, <1>1, <1>5 DEF TInv, CommittedInv
  <2>2. CASE o \notin committed
    <3>1. PICK e \in Calls : target[e] = s /\ kind[e] = "commit" /\ P!Success(e)'
      BY <2>2, <1>2 DEF P!ChangeEffects
    <3> QED
      BY <3>1, <1>1, <1>3 DEF Persisted, P!IsEnd
  <2> QED
    BY <2>1, <2>2
<1>13. KeptInv'
  <2> SUFFICES ASSUME NEW o \in Ops, NEW s \in Tx, target[o] = s, P!Did(o)',
                      o \notin pending'[s] \cup committed' \cup autocommitted',
                      server'[s] # "closed"
               PROVE  Discarded(s)'
    BY <1>1 DEF KeptInv
  <2>1. pc[o] # "new" /\ begin[s] = "ok"
    BY <1>1
  <2>2. P!Did(o)
    BY <2>1, <1>4 DEF P!ChangeEffects
  <2>3. server[s] # "closed" /\ o \notin committed \cup autocommitted
    BY <2>1 DEF P!SessionEffects, P!ChangeEffects
  <2>4. CASE o \in pending[s]
    <3>1. pc[o] # "undo"
      BY <2>2 DEF P!Did
    <3>2. PICK e \in Calls : target[e] = s
            /\ \/ kind[e] = "end" \/ (P!IsEnd(e) /\ P!Rejected(e)')
               \/ kind[e] = "rollback" /\ P!Success(e)'
      BY <2>4, <3>1 DEF P!SessionEffects
    <3> QED
      BY <3>2, <1>1, <1>2, <1>3 DEF Discarded, P!IsEnd
  <2>5. CASE Discarded(s)
    BY <2>1, <2>5, <1>5
  <2> QED
    BY <2>2, <2>3, <2>4, <2>5 DEF TInv, KeptInv
<1>14. WholeInv'
  <2> SUFFICES ASSUME NEW e \in Ends, NEW o \in Ops, NEW s \in Tx,
                      kind[e] = "commit", P!Success(e)', target[e] = s,
                      target[o] = s, pc'[o] = "done", result'[o] = "ok",
                      ~CommitFailed(s)'
               PROVE  o \in committed'
    BY <1>1 DEF WholeInv
  <2>1. pc[e] # "new" /\ ~Failed(e) /\ pc[o] # "new" /\ begin[s] = "ok" /\ ~CommitFailed(s)
    BY <1>1, <1>5, <1>7
  <2>2. CASE P!Success(e)
    <3>1. pc[o] = "done"
      BY <2>1 DEF UInv, QuietInv, P!Frame
    <3>2. result[o] = "ok"
      BY <3>1 DEF P!Frame
    <3>3. o \in committed
      BY <2>1, <2>2, <3>1, <3>2 DEF TInv, WholeInv
    <3> QED
      BY <3>3 DEF P!ChangeEffects
  <2>3. CASE ~P!Success(e)
    <3>1. /\ pc[e] = "commit" /\ stmt[e] = "sent" /\ server[s] \in {"idle", "open", "failed"}
          /\ pending'[s] = {} /\ autocommitted' = autocommitted
          /\ server[s] = "open" => pending[s] \subseteq committed'
      BY <2>1, <2>3, <1>3 DEF P!EndEffects
    <3>2. \A d \in Ends : target[d] = s => ~(P!Success(d) \/ P!Rejected(d))
      BY <2>1, <3>1, <1>8 DEF P!Success, P!Rejected
    <3>3. ~Over(s) /\ ~Discarded(s)
      BY <2>1, <3>2 DEF Over, Discarded
    <3>4. server[s] = "open"
      BY <2>1, <3>1, <3>3 DEF TInv, IdleInv, P!ProbeInv
    <3>5. o \notin autocommitted
      BY <2>1 DEF TInv, AutoInv
    <3>6. P!Did(o)
      BY <2>1, <3>1, <3>5, <1>4 DEF P!ChangeEffects, P!Did
    <3>7. o \in pending[s] \cup committed
      BY <3>3, <3>4, <3>5, <3>6 DEF TInv, KeptInv
    <3> QED
      BY <3>1, <3>4, <3>7 DEF P!ChangeEffects
  <2> QED
    BY <2>2, <2>3
<1>15. DiscardInv'
  <2> SUFFICES ASSUME NEW e \in Ends, kind[e] = "rollback", P!Success(e)',
                      NEW o \in committed', target[o] = target[e]
               PROVE  FALSE
    BY <1>1 DEF DiscardInv
  <2>1. PICK s \in Tx : target[e] = s /\ begin[s] = "ok" /\ pc[e] # "new" /\ ~Failed(e)
    BY <1>1, <1>7
  <2>2. ASSUME NEW d \in Ends, target[d] = s, kind[d] = "commit", pc[d] # "new", ~Failed(d)
        PROVE  FALSE
    BY <2>1, <2>2 DEF UInv, OneEndInv
  <2>3. CASE o \notin committed
    <3>1. PICK d \in Calls : target[d] = s /\ kind[d] = "commit" /\ P!Success(d)'
      BY <2>1, <2>3, <1>2 DEF P!ChangeEffects
    <3> QED
      BY <3>1, <2>2, <1>3, <1>7 DEF P!IsEnd
  <2>4. CASE o \in committed
    <3>1. ~P!Success(e)
      BY <2>4 DEF TInv, DiscardInv
    <3>2. server[s] # "closed"
      BY <2>1, <3>1, <1>3 DEF P!EndEffects
    <3>3. PICK d \in Ends : target[d] = s /\ kind[d] = "commit" /\ P!Success(d)
      BY <2>1, <2>4, <3>2 DEF TInv, CommittedInv, Persisted
    <3> QED
      BY <3>3, <2>2, <1>6
  <2> QED
    BY <2>3, <2>4
<1> QED
  BY <1>9, <1>10, <1>11, <1>12, <1>13, <1>14, <1>15 DEF TInv

LEMMA TInvStep == "end" \notin Statements /\ Inv /\ TInv /\ [Next]_vars => TInv'
<1> SUFFICES ASSUME "end" \notin Statements, Inv, TInv, [Next]_vars PROVE TInv'
  OBVIOUS
<1>1. Inv' /\ [P!Next]_P!vars
  BY InvStep
<1>2. CASE P!System
  <2>1. P!Frame
    BY <1>2, P!SystemFrame, KindsAreKnown DEF Inv
  <2>2. P!EndEffects /\ P!SessionEffects /\ P!ChangeEffects
    BY <1>2, P!SystemEffects, KindsAreKnown DEF Inv
  <2> QED
    BY <1>1, <2>1, <2>2, TInvSystem
<1>3. CASE P!Requests \/ UNCHANGED P!vars
  <2>1. P!RequestFrame
    BY <1>3, P!RequestsFrame, KindsAreKnown DEF Inv
  <2>2. P!TypeOK'
    BY <1>1 DEF Inv, P!IInv
  <2> QED
    BY <2>1, <2>2, TInvRequest
<1> QED
  BY <1>1, <1>2, <1>3 DEF P!Next

\* The changes are where the ends have left them, as long as no statement of a
\* query ends the transaction behind the panel's back.
THEOREM ChangesInvariance == "end" \notin Statements => (Spec => [](Inv /\ TInv))
<1> SUFFICES ASSUME "end" \notin Statements PROVE Spec => [](Inv /\ TInv)
  OBVIOUS
<1>1. Spec => []TInv
  <2>1. Init => TInv
    BY TInvInit
  <2>2. Inv /\ TInv /\ [Next]_vars => TInv'
    BY TInvStep
  <2> QED
    BY <2>1, <2>2, Invariance, PTL DEF Spec
<1> QED
  BY <1>1, Invariance, PTL

\* Without typed COMMITs a statement takes effect outside of its transaction
\* only after a COMMIT of that transaction failed.
THEOREM AutocommitsAreExplained ==
  "end" \notin Statements => (Spec => []AutocommitNeedsFailedCommit)
<1> SUFFICES ASSUME "end" \notin Statements PROVE Spec => []AutocommitNeedsFailedCommit
  OBVIOUS
<1>1. Inv /\ TInv => AutocommitNeedsFailedCommit
  <2> SUFFICES ASSUME Inv, TInv, NEW o \in autocommitted PROVE CommitFailed(target[o])
    BY DEF AutocommitNeedsFailedCommit
  <2>1. o \in Calls /\ kind[o] = "write"
    BY DEF Inv, P!IInv, P!TypeOK, P!SavepointInv, Calls
  <2>2. pc[o] # "new"
    BY <2>1 DEF Inv, P!IInv, P!TypeOK
  <2>3. target[o] \in Tx
    BY <2>1, <2>2, NoTxIsNoTx DEF Inv, P!IInv, P!TypeOK, Calls
  <2> QED
    BY <2>3 DEF TInv, AutoInv
<1> QED
  BY <1>1, ChangesInvariance, PTL

\* Without typed COMMITs what the panel reported of an end is what became of
\* the changes of its transaction.
THEOREM EndsAreTruthful ==
  "end" \notin Statements => (Spec => []EndsTellTheTruth)
<1> SUFFICES ASSUME "end" \notin Statements PROVE Spec => []EndsTellTheTruth
  OBVIOUS
<1>1. Inv /\ TInv => EndsTellTheTruth
  <2> SUFFICES ASSUME Inv, TInv, NEW e \in Ends, pc[e] = "done", result[e] = "ok",
                      ~CommitFailed(target[e]),
                      NEW o \in Ops, target[o] = target[e]
               PROVE  /\ kind[e] = "commit" /\ op[o] = "ok" => o \in committed
                      /\ kind[e] = "rollback" => o \notin committed \cup autocommitted
    BY DEF EndsTellTheTruth, Ops
  <2>1. PICK s \in Tx : target[e] = s
    BY NoTxIsNoTx DEF Inv, P!IInv, P!TypeOK, Calls
  <2>2. ASSUME kind[e] = "commit", op[o] = "ok" PROVE o \in committed
    <3>1. pc[o] = "done" /\ result[o] = "ok"
      BY <2>2 DEF Inv, UInv, OpInv
    <3>2. P!Success(e)
      BY DEF P!Success
    <3> QED
      BY <2>1, <2>2, <3>1, <3>2 DEF TInv, WholeInv
  <2>3. ASSUME kind[e] = "rollback", o \in committed PROVE FALSE
    <3>1. PICK d \in Ends : target[d] = s /\ kind[d] = "commit"
      BY <2>1, <2>3 DEF TInv, CommittedInv, Persisted
    <3>2. d # e /\ pc[d] # "new"
      BY <2>1, <2>3, <3>1, NoTxIsNoTx DEF Inv, P!IInv, P!TypeOK, Calls
    <3>3. Failed(d)
      BY <2>1, <3>1, <3>2 DEF Inv, UInv, OneEndInv, Failed
    <3> QED
      BY <2>1, <3>1, <3>3 DEF CommitFailed, Failed
  <2>4. o \notin autocommitted
    BY <2>1 DEF TInv, AutoInv
  <2> QED
    BY <2>2, <2>3, <2>4
<1> QED
  BY <1>1, ChangesInvariance, PTL

\* Without typed COMMITs an edit or statement the user was told has failed has
\* left nothing, except where its own COMMIT lost the connection.
THEOREM FailuresAreEmpty ==
  "end" \notin Statements => (Spec => []FailuresLeaveNothing)
<1> SUFFICES ASSUME "end" \notin Statements PROVE Spec => []FailuresLeaveNothing
  OBVIOUS
<1>1. Inv /\ TInv => FailuresLeaveNothing
  <2> SUFFICES ASSUME Inv, TInv, NEW o \in Ops, op[o] = "err"
               PROVE  /\ o \in autocommitted => CommitFailed(target[o])
                      /\ o \in committed =>
                           o \in Edits /\ opEnd[o] # NoCall /\ server[opTx[o]] = "closed"
    BY DEF FailuresLeaveNothing, Ops
  <2>1. o \in Calls
    BY DEF Ops, Calls
  <2>2. o \in committed \cup autocommitted => target[o] \in Tx /\ pc[o] # "new"
    BY <2>1, NoTxIsNoTx
       DEF Inv, P!IInv, P!TypeOK, P!CommittedInv, P!SavepointInv
  <2>3. o \in autocommitted => CommitFailed(target[o])
    BY <2>2 DEF TInv, AutoInv
  <2>4. ASSUME o \in committed
        PROVE  o \in Edits /\ opEnd[o] # NoCall /\ server[opTx[o]] = "closed"
    <3>1. Private(o) /\ target[o] = opTx[o] /\ opTx[o] \in Tx
      BY <2>2, <2>4 DEF Inv, P!IInv, P!CommittedInv, UInv, OpInv, Failed
    <3>2. o \in Edits /\ opEnd[o] # NoCall /\ kind[opEnd[o]] = "rollback"
      BY <3>1 DEF Private, Inv, UInv, PrivateInv
    <3>3. PICK d \in Ends : /\ target[d] = opTx[o] /\ kind[d] = "commit"
                            /\ P!Success(d) \/ server[opTx[o]] = "closed"
      BY <2>4, <3>1 DEF TInv, CommittedInv, Persisted
    <3>4. Failed(d)
      BY <3>1, <3>2, <3>3 DEF Inv, UInv, PrivateInv
    <3> QED
      BY <3>2, <3>3, <3>4 DEF P!Success, Failed
  <2> QED
    BY <2>3, <2>4
<1> QED
  BY <1>1, ChangesInvariance, PTL

\* Without typed COMMITs a rollback in the panel discards what the card stands
\* for, also after a COMMIT that failed or whose answer was lost.
THEOREM RollbacksDiscard ==
  "end" \notin Statements => (Spec => []RollbackDiscards)
<1> SUFFICES ASSUME "end" \notin Statements PROVE Spec => []RollbackDiscards
  OBVIOUS
<1>1. TInv => RollbackDiscards
  BY DEF TInv, DiscardInv, RollbackDiscards, P!Success
<1> QED
  BY <1>1, ChangesInvariance, PTL

-----------------------------------------------------------------------------
(* With the per-table switch left alone, shared mode is shared.            *)

\* In shared mode cards and promises are for the connection.
SharedInv ==
  ~separate =>
    /\ \A t \in store : t.scope = "connection"
    /\ \A sc \in Scopes : opening[sc] # NoTx => sc = "connection"

LEMMA SharedInvStep ==
  "separate" \notin Background /\ UiTypes /\ SharedInv /\ [Next]_vars => SharedInv'
<1> SUFFICES ASSUME "separate" \notin Background, UiTypes, SharedInv, [Next]_vars
             PROVE  SharedInv'
  OBVIOUS
<1>1. ASSUME NEW sc \in Scopes, Opened(sc) PROVE SharedInv'
  BY <1>1, NoTxIsNoTx DEF Opened, SharedInv, Scopes
<1>2. ASSUME NEW o \in Ops, NEW k, Ensure(o, k), separate' = separate, store' = store
      PROVE  SharedInv'
  <2>1. CASE opening' = opening
    BY <1>2, <2>1 DEF SharedInv
  <2>2. CASE ~separate /\ \E s \in Tx : opening' = [opening EXCEPT !["connection"] = s]
    BY <1>2, <2>2 DEF SharedInv, UiTypes
  <2>3. CASE separate
    BY <1>2, <2>3 DEF SharedInv
  <2> QED
    BY <1>2, <2>1, <2>2, <2>3 DEF Ensure
<1>3. CASE SyncApply \/ \E e \in Ends : Finished(e)
  BY <1>3 DEF SyncApply, Finished, SharedInv
<1>4. CASE UNCHANGED <<store, opening, separate>>
  BY <1>4 DEF SharedInv
<1>5. CASE \E o \in Edits, k \in Tables : StartEdit(o, k)
  BY <1>5, <1>2 DEF StartEdit, Ops
<1>6. CASE \E o \in Queries : OpenQuery(o)
  BY <1>6, <1>2 DEF OpenQuery, Ops
<1>7. CASE \E sc \in Scopes : Opened(sc)
  BY <1>7, <1>1
<1>8. CASE SwitchSeparate
  BY <1>8 DEF SwitchSeparate
<1>9. ASSUME NEW o \in Ops,
             Continue(o) \/ Replied(o) \/ StartQuery(o) \/ StartScript(o)
      PROVE  UNCHANGED <<store, opening, separate>>
  BY <1>9 DEF Continue, Replied, StartQuery, StartScript
<1>10. ASSUME NEW o \in Edits,
              PrivateOpened(o) \/ PrivateWorked(o) \/ PrivateCommitted(o) \/ PrivateUndone(o)
                \/ \E k \in Tables : StartPrivate(o, k)
       PROVE  UNCHANGED <<store, opening, separate>>
  BY <1>10 DEF PrivateOpened, PrivateWorked, PrivateCommitted, PrivateUndone, StartPrivate
<1>11. ASSUME NEW e \in Ends, NEW k, NEW t \in store, Finish(e, k, t)
       PROVE  UNCHANGED <<store, opening, separate>>
  BY <1>11 DEF Finish
<1>12. CASE SyncAsk \/ SyncAnswer \/ SwitchManaged
  BY <1>12, <1>4 DEF SyncAsk, SyncAnswer, SwitchManaged
<1>13. CASE UNCHANGED uiVars
  BY <1>13, <1>4 DEF uiVars
<1> QED
  BY <1>3, <1>4, <1>5, <1>6, <1>7, <1>8, <1>9, <1>10, <1>11, <1>12, <1>13
     DEF Next, Handler, User, Ops, vars

\* Two transactions in shared mode take a switch of the mode: without it there is
\* one card, whoever opens and ends transactions at the same time.
THEOREM SharedWithoutSwitch ==
  "separate" \notin Background => (Spec => []SharedModeIsShared)
<1> SUFFICES ASSUME "separate" \notin Background PROVE Spec => []SharedModeIsShared
  OBVIOUS
<1>1. Init => SharedInv
  BY DEF Init, SharedInv
<1>2. Inv /\ SharedInv /\ [Next]_vars => SharedInv'
  BY SharedInvStep DEF Inv, UInv
<1>3. Inv /\ SharedInv => SharedModeIsShared
  <2> SUFFICES ASSUME Inv, SharedInv, ~separate PROVE Cardinality(store) <= 1
    BY DEF SharedModeIsShared
  <2>1. CASE store = {}
    BY <2>1, FS_EmptySet
  <2>2. ASSUME NEW t \in store PROVE store = {t}
    BY <2>2 DEF SharedInv, Inv, UInv, ScopeInv
  <2>3. CASE store # {}
    <3>1. PICK t : store = {t}
      BY <2>2, <2>3
    <3>2. Cardinality(store) = 1
      BY <3>1, FS_Singleton
    <3> QED
      BY <3>2
  <2> QED
    BY <2>1, <2>3
<1> QED
  BY <1>1, <1>2, <1>3, Invariance, PTL DEF Spec

-----------------------------------------------------------------------------
(* Open transactions are in the panel, unless a refresh removed them.      *)

Ended(s) == \E e \in Ends : target[e] = s /\ pc[e] = "done" /\ result[e] = "ok"

\* A private edit has tried to roll back, whatever came of it.
Undone(s) == \E o \in Edits : opTx[o] = s /\ op[o] = "err" /\ opEnd[o] # NoCall

ShownInv ==
  /\ \A o \in Edits : pc[o] # "new" => kind[o] = "row"
  /\ \A s \in Tx : begin[s] \notin {"none", "err"} => 
       InPanel(s) \/ s \in dropped \/ Ended(s) \/ Undone(s)

LInv == ShownInv /\ P!RollbackInv

LEMMA ShownInvInit == Init => ShownInv
  BY DEF Init, Backend!Init, ShownInv, Ops, Calls

\* A transaction in the panel stays there, or is ended.
LEMMA ShownStays ==
  ASSUME ShownInv, dropped' = dropped, \A o \in Edits : pc'[o] # "new" => kind'[o] = "row",
         \A s \in Tx : begin'[s] \notin {"none", "err"} =>
           \/ InPanel(s)'
           \/ /\ begin[s] \notin {"none", "err"}
              /\ InPanel(s) => Ended(s)'
              /\ Ended(s) => Ended(s)'
              /\ Undone(s) => Undone(s)'
  PROVE  ShownInv'
  BY DEF ShownInv

LEMMA ShownInvStep == Inv /\ Inv' /\ ShownInv /\ [Next]_vars => ShownInv'
<1> SUFFICES ASSUME Inv, Inv', ShownInv, [Next]_vars PROVE ShownInv'
  OBVIOUS
<1> USE NoTxIsNoTx, NoCallIsNoCall, CallsAreDistinct
        DEF Inv, UInv, UiTypes, P!IInv, P!TypeOK, Ops, Calls, Scopes, ShownInv, InPanel,
            Ended, Undone, OpInv, Use, backendVars, Backend!Invoke, Backend!BeginRequest,
            Backend!managerVars, Backend!callVars, Backend!serverVars
<1>1. CASE UNCHANGED vars
  BY <1>1, SMTT(60) DEF vars, uiVars
<1>2. ASSUME NEW sc \in Scopes, Opened(sc) PROVE ShownInv'
  <2> USE <1>2 DEF Opened
  <2>1. \A o \in Edits : pc'[o] # "new" => kind'[o] = "row"
    OBVIOUS
  <2>2. ASSUME NEW s \in Tx, begin[s] \notin {"none", "err"}, InPanel(s) PROVE InPanel(s)'
    <3>1. CASE opening[sc] = s
      <4>1. [txId |-> s, scope |-> sc] \in store'
        BY <2>2, <3>1
      <4> HIDE DEF Inv, UInv, UiTypes, P!IInv, P!TypeOK, ShownInv, Opened, Scopes, Ops, Calls, Ended, Undone
      <4> QED
        BY <4>1
    <3>2. CASE opening[sc] # s
      BY <2>2, <3>2
    <3> QED
      BY <3>1, <3>2
  <2>3. \A s \in Tx : Ended(s) => Ended(s)'
    BY SMTT(60)
  <2>4. \A s \in Tx : Undone(s) => Undone(s)'
    BY SMTT(60)
  <2> HIDE DEF InPanel, Ended, Undone, ShownInv
  <2> QED
    BY <2>1, <2>2, <2>3, <2>4, ShownStays
<1>3. ASSUME NEW o \in Ops, Continue(o) PROVE ShownInv'
  <2> USE <1>3 DEF Continue, Run, Private
  <2>1. \A c \in Edits : pc'[c] # "new" => kind'[c] = "row"
    OBVIOUS
  <2>2. \A s \in Tx : InPanel(s) => InPanel(s)'
    BY SMTT(30)
  <2>3. \A s \in Tx : Ended(s) => Ended(s)'
    BY SMTT(60)
  <2>4. \A s \in Tx : Undone(s) => Undone(s)'
    BY SMTT(60)
  <2>5. dropped' = dropped /\ \A s \in Tx : begin'[s] \notin {"none", "err"} =>
          begin[s] \notin {"none", "err"} \/ InPanel(s)'
    BY SMTT(60)
  <2> HIDE DEF InPanel, Ended, Undone, ShownInv
  <2> QED
    BY <2>1, <2>2, <2>3, <2>4, <2>5, ShownStays
<1>4. ASSUME NEW o \in Ops, Replied(o) PROVE ShownInv'
  <2> USE <1>4 DEF Replied
  <2>1. \A c \in Edits : pc'[c] # "new" => kind'[c] = "row"
    OBVIOUS
  <2>2. \A s \in Tx : InPanel(s) => InPanel(s)'
    BY SMTT(30)
  <2>3. \A s \in Tx : Ended(s) => Ended(s)'
    BY SMTT(30)
  <2>4. \A s \in Tx : Undone(s) => Undone(s)'
    BY SMTT(30)
  <2>5. dropped' = dropped /\ begin' = begin
    OBVIOUS
  <2> HIDE DEF InPanel, Ended, Undone, ShownInv
  <2> QED
    BY <2>1, <2>2, <2>3, <2>4, <2>5, ShownStays
<1>5. ASSUME NEW o \in Edits, PrivateOpened(o) PROVE ShownInv'
  <2> USE <1>5 DEF PrivateOpened
  <2>1. \A c \in Edits : pc'[c] # "new" => kind'[c] = "row"
    OBVIOUS
  <2>2. \A s \in Tx : begin[s] # "err" /\ InPanel(s) => InPanel(s)'
    OBVIOUS
  <2>3. \A s \in Tx : Ended(s) => Ended(s)'
    BY SMTT(60)
  <2>4. \A s \in Tx : Undone(s) => Undone(s)'
    BY SMTT(60)
  <2>5. begin' = begin /\ dropped' = dropped
    BY SMTT(60)
  <2> HIDE DEF InPanel, Ended, Undone, ShownInv
  <2> QED
    BY <2>1, <2>2, <2>3, <2>4, <2>5, ShownStays
<1>6. ASSUME NEW o \in Edits, PrivateWorked(o) PROVE ShownInv'
  <2> USE <1>6 DEF PrivateWorked, PrivateEnd, EndingInv
  <2>1. \A c \in Edits : pc'[c] # "new" => kind'[c] = "row"
    OBVIOUS
  <2>2. \A s \in Tx : InPanel(s) => InPanel(s)'
    BY SMTT(30)
  <2>3. \A s \in Tx : Ended(s) => Ended(s)'
    BY SMTT(60)
  <2>4. \A s \in Tx : Undone(s) => Undone(s)'
    BY SMTT(60)
  <2>5. begin' = begin /\ dropped' = dropped
    BY SMTT(60)
  <2> HIDE DEF InPanel, Ended, Undone, ShownInv
  <2> QED
    BY <2>1, <2>2, <2>3, <2>4, <2>5, ShownStays
<1>7. ASSUME NEW o \in Edits, PrivateCommitted(o) PROVE ShownInv'
  <2> USE <1>7 DEF PrivateCommitted, PrivateEnd, EndingInv, PrivateInv, Private
  <2>1. \A c \in Edits : pc'[c] # "new" => kind'[c] = "row"
    OBVIOUS
  <2>2. \A s \in Tx : InPanel(s) => InPanel(s)' \/ Ended(s)'
    OBVIOUS
  <2>3. \A s \in Tx : Ended(s) => Ended(s)'
    BY SMTT(60)
  <2>4. \A s \in Tx : Undone(s) => Undone(s)'
    BY SMTT(60)
  <2>5. begin' = begin /\ dropped' = dropped
    BY SMTT(60)
  <2> HIDE DEF InPanel, Ended, Undone, ShownInv
  <2> QED
    BY <2>1, <2>2, <2>3, <2>4, <2>5, ShownStays
<1>8. ASSUME NEW o \in Edits, PrivateUndone(o) PROVE ShownInv'
  BY <1>8, SMTT(60) DEF PrivateUndone, PrivateInv
<1>9. ASSUME NEW e \in Ends, Finished(e) PROVE ShownInv'
  BY <1>9, SMTT(60) DEF Finished
<1>10. ASSUME SyncAnswer \/ SyncApply \/ SyncAsk PROVE ShownInv'
  <2>1. CASE SyncAnswer \/ SyncAsk
    BY <2>1, SMTT(60) DEF SyncAnswer, SyncAsk
  <2>2. CASE SyncApply
    <3> USE <2>2 DEF SyncApply
    <3>1. \A c \in Edits : pc'[c] # "new" => kind'[c] = "row"
      OBVIOUS
    <3>2. \A s \in Tx : InPanel(s) => InPanel(s)' \/ s \in dropped'
      OBVIOUS
    <3>3. /\ begin' = begin /\ dropped \subseteq dropped'
          /\ \A s \in Tx : (Ended(s) => Ended(s)') /\ (Undone(s) => Undone(s)')
      OBVIOUS
    <3> HIDE DEF InPanel, Ended, Undone, SyncApply
    <3> QED
      BY <3>1, <3>2, <3>3
  <2> QED
    BY <1>10, <2>1, <2>2
<1>11. ASSUME SwitchManaged \/ SwitchSeparate PROVE ShownInv'
  BY <1>11, SMTT(60) DEF SwitchManaged, SwitchSeparate
<1>12. ASSUME NEW o \in Edits, NEW table \in Tables, StartEdit(o, table) PROVE ShownInv'
  <2> USE <1>12 DEF StartEdit, Ensure, Find
  <2>1. \A c \in Edits : pc'[c] # "new" => kind'[c] = "row"
    OBVIOUS
  <2>2. \A s \in Tx : InPanel(s) => InPanel(s)'
    BY SMTT(30)
  <2>3. \A s \in Tx : Ended(s) => Ended(s)'
    BY SMTT(60)
  <2>4. \A s \in Tx : Undone(s) => Undone(s)'
    BY SMTT(60)
  <2>5. dropped' = dropped /\ \A s \in Tx : begin'[s] \notin {"none", "err"} =>
          begin[s] \notin {"none", "err"} \/ InPanel(s)'
    BY SMTT(60)
  <2> HIDE DEF InPanel, Ended, Undone, ShownInv
  <2> QED
    BY <2>1, <2>2, <2>3, <2>4, <2>5, ShownStays
<1>13. ASSUME NEW o \in Edits, NEW table \in Tables, StartPrivate(o, table) PROVE ShownInv'
  BY <1>13, SMTT(60) DEF StartPrivate
<1>14. ASSUME NEW o \in Queries, StartQuery(o) PROVE ShownInv'
  <2> USE <1>14 DEF StartQuery, Run, Find
  <2>1. \A c \in Edits : pc'[c] # "new" => kind'[c] = "row"
    OBVIOUS
  <2>2. \A s \in Tx : InPanel(s) => InPanel(s)'
    BY SMTT(30)
  <2>3. \A s \in Tx : Ended(s) => Ended(s)'
    BY SMTT(60)
  <2>4. \A s \in Tx : Undone(s) => Undone(s)'
    BY SMTT(60)
  <2>5. dropped' = dropped /\ \A s \in Tx : begin'[s] \notin {"none", "err"} =>
          begin[s] \notin {"none", "err"} \/ InPanel(s)'
    BY SMTT(60)
  <2> HIDE DEF InPanel, Ended, Undone, ShownInv
  <2> QED
    BY <2>1, <2>2, <2>3, <2>4, <2>5, ShownStays
<1>15. ASSUME NEW o \in Queries, OpenQuery(o) PROVE ShownInv'
  <2> USE <1>15 DEF OpenQuery, Ensure, Find
  <2>1. \A c \in Edits : pc'[c] # "new" => kind'[c] = "row"
    OBVIOUS
  <2>2. \A s \in Tx : InPanel(s) => InPanel(s)'
    BY SMTT(30)
  <2>3. \A s \in Tx : Ended(s) => Ended(s)'
    BY SMTT(60)
  <2>4. \A s \in Tx : Undone(s) => Undone(s)'
    BY SMTT(60)
  <2>5. dropped' = dropped /\ \A s \in Tx : begin'[s] \notin {"none", "err"} =>
          begin[s] \notin {"none", "err"} \/ InPanel(s)'
    BY SMTT(60)
  <2> HIDE DEF InPanel, Ended, Undone, ShownInv
  <2> QED
    BY <2>1, <2>2, <2>3, <2>4, <2>5, ShownStays
<1>16. ASSUME NEW o \in Queries, StartScript(o) PROVE ShownInv'
  BY <1>16, SMTT(60) DEF StartScript, Find
<1>17. ASSUME NEW e \in Ends, NEW k \in {"commit", "rollback"}, NEW t \in store,
              Finish(e, k, t)
       PROVE  ShownInv'
  BY <1>17, SMTT(60) DEF Finish, EndingInv
<1>18. ASSUME NEW o \in Queries, Backend!Cancel(o), UNCHANGED uiVars PROVE ShownInv'
  BY <1>18, SMTT(60) DEF uiVars, Backend!Cancel
<1>19. ASSUME Backend!System, UNCHANGED uiVars PROVE ShownInv'
  <2>1. P!Frame
    BY <1>19, SameSystem, P!SystemFrame, KindsAreKnown
  <2>2. \A c \in Edits : pc'[c] # "new" => kind'[c] = "row"
    BY <1>19, <2>1, SMTT(60) DEF uiVars, P!Frame
  <2>3. \A s \in Tx : InPanel(s) => InPanel(s)'
    BY <1>19, SMTT(60) DEF uiVars
  <2>4. \A s \in Tx : Ended(s) => Ended(s)'
    BY <1>19, <2>1, SMTT(60) DEF uiVars, P!Frame
  <2>5. \A s \in Tx : Undone(s) => Undone(s)'
    BY <1>19, <2>1, SMTT(60) DEF uiVars, P!Frame
  <2>6. dropped' = dropped /\ \A s \in Tx : begin'[s] \notin {"none", "err"} =>
          begin[s] \notin {"none", "err"} \/ InPanel(s)'
    BY <1>19, <2>1, SMTT(60) DEF uiVars, P!Frame
  <2> HIDE DEF InPanel, Ended, Undone, ShownInv
  <2> QED
    BY <2>2, <2>3, <2>4, <2>5, <2>6, ShownStays
<1> HIDE DEF Inv, ShownInv, P!IInv, P!TypeOK, UInv, UiTypes, backendVars
<1> QED
  BY <1>1, <1>2, <1>3, <1>4, <1>5, <1>6, <1>7, <1>8, <1>9, <1>10, <1>11, <1>12, <1>13, <1>14,
     <1>15, <1>16, <1>17, <1>18, <1>19
     DEF Next, Handler, User, Ops

\* Every open transaction is in the panel, is being opened, or belongs to a
\* private edit that will end it, unless a refresh of the panel removed its card
\* (syncWithBackend).
THEOREM OpenAreListed == Spec => []UnsyncedAreListed
<1>1. Init => LInv
  BY ShownInvInit, SameInit, P!RollbackInvInit, KindsAreKnown DEF Init, LInv
<1>2. Inv /\ LInv /\ [Next]_vars => LInv'
  <2> SUFFICES ASSUME Inv, LInv, [Next]_vars PROVE LInv'
    OBVIOUS
  <2>1. Inv' /\ [P!Next]_P!vars
    BY InvStep
  <2>2. ShownInv'
    BY <2>1, ShownInvStep DEF LInv
  <2>3. P!RollbackInv'
    BY <2>1, P!MarkInvStep, P!UndoneInvStep, KindsAreKnown DEF Inv, LInv, P!RollbackInv
  <2> QED
    BY <2>2, <2>3 DEF LInv
<1>3. Inv /\ LInv => UnsyncedAreListed
  <2> SUFFICES ASSUME Inv, LInv,
                      NEW s \in Tx, begin[s] = "ok", server[s] \in {"open", "failed"}
               PROVE  InPanel(s) \/ s \in dropped
    BY DEF UnsyncedAreListed, Open
  <2>1. s \in registered
    BY DEF Inv, P!IInv, P!EndInv
  <2>2. ~Ended(s)
    BY <2>1 DEF Ended, Inv, UInv, EndedInv
  <2>3. ASSUME NEW o \in Edits, opTx[o] = s, op[o] = "err", opEnd[o] # NoCall PROVE FALSE
    <3>1. Private(o)
      BY <2>3 DEF Private
    <3> DEFINE e == opEnd[o]
    <3>2. e \in Ends /\ target[e] = s /\ kind[e] = "rollback" /\ pc[e] = "done"
      BY <2>3, <3>1 DEF Inv, UInv, UiTypes, PrivateInv
    <3>3. result[e] = "err"
      BY <2>2, <3>2 DEF Ended, Inv, P!IInv, P!TypeOK, P!StageInv, Calls
    <3>4. interrupted[s]
      BY <2>1, <3>2, <3>3 DEF LInv, P!RollbackInv, P!UndoneInv, Calls
    <3>5. PICK c \in Calls : target[c] = s /\ kind[c] \in P!Executes
      BY <3>4 DEF LInv, P!RollbackInv, P!MarkInv
    <3>6. pc[c] # "new"
      BY <3>5, NoTxIsNoTx DEF Inv, P!IInv, P!TypeOK
    <3>7. c \notin Ends
      BY <3>5, <3>6 DEF Inv, UInv, EndingInv, P!Executes
    <3>8. c \in Ops /\ opTx[c] = s
      BY <3>5, <3>6, <3>7 DEF Inv, UInv, OpInv, Calls, Ops
    <3>9. c = o
      BY <2>3, <3>1, <3>8 DEF Inv, UInv, PrivateInv
    <3> QED
      BY <3>5, <3>6, <3>9 DEF LInv, ShownInv, P!Executes
  <2> QED
    BY <2>2, <2>3 DEF LInv, ShownInv, Undone
<1> QED
  BY <1>1, <1>2, <1>3, Invariance, PTL DEF Spec

\* It takes a refresh to lose a card: as long as none is asked for, every open
\* transaction is in the panel.
THEOREM ListedWithoutRefresh ==
  "sync" \notin Background => (Spec => []OpenTransactionsAreListed)
<1> SUFFICES ASSUME "sync" \notin Background PROVE Spec => []OpenTransactionsAreListed
  OBVIOUS
<1> DEFINE Fresh == sync = "idle" /\ dropped = {}
<1>1. Init => Fresh
  BY DEF Init
<1>2. Fresh /\ [Next]_vars => Fresh'
  <2> SUFFICES ASSUME Fresh, [Next]_vars PROVE UNCHANGED <<sync, dropped>>
    OBVIOUS
  <2>1. CASE Handler
    BY <2>1 DEF Handler, Opened, Continue, Replied, PrivateOpened, PrivateWorked,
                PrivateCommitted, PrivateUndone, Finished, SyncAnswer, SyncApply
  <2>2. CASE User
    BY <2>2 DEF User, StartEdit, StartPrivate, StartQuery, OpenQuery, StartScript, Finish,
                SyncAsk, SwitchManaged, SwitchSeparate, uiVars
  <2> QED
    BY <2>1, <2>2 DEF Next, vars, uiVars
<1>3. Fresh /\ UnsyncedAreListed => OpenTransactionsAreListed
  BY DEF UnsyncedAreListed, OpenTransactionsAreListed
<1> QED
  BY <1>1, <1>2, <1>3, OpenAreListed, PTL DEF Spec

-----------------------------------------------------------------------------
(* The backend under the user interface. *)

\* The calls of the user interface are calls the backend was proved correct for:
\* every property of PgTransactions holds in the composition.
THEOREM BackendIsUsedAsSpecified == Spec => P!Spec
<1>1. Init => P!Init
  BY SameInit DEF Init
<1> QED
  BY <1>1, InvStep, Invariance, PTL DEF Spec, P!Spec

\* What was reported as failed, cancelled or timed out never becomes part of a
\* commit, and a managed row edit takes effect in its transaction or not at all.
THEOREM BackendKeepsItsPromises ==
  Spec => /\ []P!FailedNeverCommitted
          /\ []P!RowsNeverAutocommit
          /\ []P!NoOrphanTransaction
          /\ P!InterruptedOnlyRollsBack
          /\ P!Atomicity
<1>1. Spec => P!Spec
  BY BackendIsUsedAsSpecified
<1>2. P!Spec => []P!FailedNeverCommitted
  BY P!FailuresStayOut, KindsAreKnown
<1>3. P!Spec => []P!RowsNeverAutocommit
  BY P!RowsStayInside, KindsAreKnown
<1>4. P!Spec => []P!NoOrphanTransaction
  BY P!NoOrphan, KindsAreKnown
<1>5. P!Spec => P!InterruptedOnlyRollsBack
  BY P!OnlyRollback, KindsAreKnown
<1>6. P!Spec => P!Atomicity
  BY P!Implements, KindsAreKnown
<1> QED
  BY <1>1, <1>2, <1>3, <1>4, <1>5, <1>6
=============================================================================
