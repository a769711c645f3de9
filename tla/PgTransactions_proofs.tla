------------------------ MODULE PgTransactions_proofs ------------------------
(***************************************************************************)
(* Proofs about PgTransactions, for every set of sessions, calls and       *)
(* commands.  One lemma per action shows that it preserves the inductive   *)
(* invariant IInv: a first step for the conjuncts that follow from what    *)
(* the action assigns, then one step for each conjunct that needs others.  *)
(* The refinement of AtomicTransactions and, for the modules that use the  *)
(* backend, what a step of it leaves alone follow.                         *)
(***************************************************************************)
EXTENDS PgTransactions, TLAPS

\* Nothing is registered, held, sent or changed before the first request.
LEMMA InitInv == Init => IInv
  BY NoTxIsNoTx, NoCallIsNoCall DEF Init, IInv, TypeOK, Stages, AllKinds,
                                    OpenInv, LockInv, Holding, StageInv,
                                    GaveUp, Executes, Savepoints,
                                    InterruptInv, SentInv, PendingInv,
                                    Accounted, Changes, CommitInv, Asks,
                                    CommittedInv, SavepointInv, EndInv

-----------------------------------------------------------------------------
(* Opening a session. *)

\* The begin command disturbs nothing a call can see: no call has a session
\* before its entry is inserted.
LEMMA BeginRequestStep ==
  ASSUME IInv, NEW s \in Tx, BeginRequest(s)
  PROVE  IInv'
<1> USE NoTxIsNoTx, NoCallIsNoCall DEF IInv, TypeOK, BeginRequest, callVars,
                                       serverVars
<1>1. TypeOK' /\ OpenInv' /\ LockInv' /\ StageInv' /\ InterruptInv'
      /\ SentInv' /\ PendingInv' /\ CommitInv' /\ CommittedInv'
      /\ SavepointInv' /\ EndInv'
  BY SMTT(60) DEF Stages, AllKinds, OpenInv, LockInv, Holding, StageInv,
                  GaveUp, Executes, Savepoints, InterruptInv, SentInv,
                  PendingInv, Accounted, Changes, CommitInv, Asks,
                  CommittedInv, SavepointInv, EndInv
<1> QED
  BY <1>1

LEMMA ConnectStep ==
  ASSUME IInv, NEW s \in Tx, Connect(s)
  PROVE  IInv'
<1> USE NoTxIsNoTx, NoCallIsNoCall DEF IInv, TypeOK, Connect, callVars
<1>1. TypeOK' /\ OpenInv' /\ LockInv' /\ StageInv' /\ InterruptInv'
      /\ SentInv' /\ PendingInv' /\ CommitInv' /\ CommittedInv'
      /\ SavepointInv' /\ EndInv'
  BY SMTT(60) DEF Stages, AllKinds, OpenInv, LockInv, Holding, StageInv,
                  GaveUp, Executes, Savepoints, InterruptInv, SentInv,
                  PendingInv, Accounted, Changes, CommitInv, Asks,
                  CommittedInv, SavepointInv, EndInv
<1> QED
  BY <1>1

LEMMA SendBeginStep ==
  ASSUME IInv, NEW s \in Tx, SendBegin(s)
  PROVE  IInv'
<1> USE NoTxIsNoTx, NoCallIsNoCall DEF IInv, TypeOK, SendBegin, callVars
<1>1. TypeOK' /\ OpenInv' /\ LockInv' /\ StageInv' /\ InterruptInv'
      /\ SentInv' /\ PendingInv' /\ CommitInv' /\ CommittedInv'
      /\ SavepointInv' /\ EndInv'
  BY SMTT(60) DEF Stages, AllKinds, OpenInv, LockInv, Holding, StageInv,
                  GaveUp, Executes, Savepoints, InterruptInv, SentInv,
                  PendingInv, Accounted, Changes, CommitInv, Asks,
                  CommittedInv, SavepointInv, EndInv
<1> QED
  BY <1>1

LEMMA InsertEntryStep ==
  ASSUME IInv, NEW s \in Tx, InsertEntry(s)
  PROVE  IInv'
<1> USE NoTxIsNoTx, NoCallIsNoCall DEF IInv, TypeOK, InsertEntry, callVars,
                                       serverVars
<1>1. TypeOK' /\ OpenInv' /\ LockInv' /\ StageInv' /\ InterruptInv'
      /\ SentInv' /\ PendingInv' /\ CommitInv' /\ CommittedInv'
      /\ SavepointInv' /\ EndInv'
  BY SMTT(60) DEF Stages, AllKinds, OpenInv, LockInv, Holding, StageInv,
                  GaveUp, Executes, Savepoints, InterruptInv, SentInv,
                  PendingInv, Accounted, Changes, CommitInv, Asks,
                  CommittedInv, SavepointInv, EndInv
<1> QED
  BY <1>1

LEMMA BeginFailsStep ==
  ASSUME IInv, NEW s \in Tx, BeginFails(s)
  PROVE  IInv'
<1> USE NoTxIsNoTx, NoCallIsNoCall DEF IInv, TypeOK, BeginFails, callVars
<1>1. TypeOK' /\ OpenInv' /\ LockInv' /\ StageInv' /\ InterruptInv'
      /\ SentInv' /\ PendingInv' /\ CommitInv' /\ CommittedInv'
      /\ SavepointInv' /\ EndInv'
  BY SMTT(60) DEF Stages, AllKinds, OpenInv, LockInv, Holding, StageInv,
                  GaveUp, Executes, Savepoints, InterruptInv, SentInv,
                  PendingInv, Accounted, Changes, CommitInv, Asks,
                  CommittedInv, SavepointInv, EndInv
<1> QED
  BY <1>1

-----------------------------------------------------------------------------
(* Calls: entering and refusing. *)

\* Setting a token changes no other part of the state.
LEMMA CancelStep ==
  ASSUME IInv, NEW c \in Calls, Cancel(c)
  PROVE  IInv'
<1> USE NoTxIsNoTx, NoCallIsNoCall DEF IInv, TypeOK, Cancel, managerVars,
                                       serverVars, Executes
<1>1. TypeOK' /\ OpenInv' /\ LockInv' /\ StageInv' /\ InterruptInv'
      /\ SentInv' /\ PendingInv' /\ CommitInv' /\ CommittedInv'
      /\ SavepointInv' /\ EndInv'
  BY SMTT(60) DEF Stages, AllKinds, OpenInv, LockInv, Holding, StageInv,
                  GaveUp, Savepoints, InterruptInv, SentInv, PendingInv,
                  Accounted, Changes, CommitInv, Asks, CommittedInv,
                  SavepointInv, EndInv
<1> QED
  BY <1>1

\* A call is made with one of the commands, on a session that was opened.
LEMMA InvokeStep ==
  ASSUME IInv, NEW c \in Calls, NEW k \in Kinds, NEW s \in Tx, Invoke(c, k, s)
  PROVE  IInv'
<1>1. k \in AllKinds
  BY KindsAreKinds
<1> USE <1>1, NoTxIsNoTx, NoCallIsNoCall DEF IInv, TypeOK, Invoke,
                                             managerVars, serverVars
<1>2. TypeOK' /\ OpenInv' /\ LockInv' /\ StageInv' /\ InterruptInv'
  BY SMTT(60) DEF Stages, AllKinds, OpenInv, LockInv, Holding, StageInv,
                  GaveUp, Executes, Savepoints, InterruptInv
<1>3. SentInv' /\ PendingInv' /\ CommitInv' /\ CommittedInv'
      /\ SavepointInv' /\ EndInv'
  BY SMTT(60) DEF SentInv, PendingInv, Accounted, Changes, CommitInv, Asks,
                  CommittedInv, SavepointInv, EndInv
<1> QED
  BY <1>2, <1>3

\* A call that finds no entry is done; it had sent nothing it could give up on.
LEMMA LookUpStep ==
  ASSUME IInv, NEW c \in Calls, LookUp(c)
  PROVE  IInv'
<1> USE NoTxIsNoTx, NoCallIsNoCall DEF IInv, TypeOK, LookUp, Return,
                                       managerVars, serverVars
<1>1. TypeOK' /\ OpenInv' /\ LockInv' /\ StageInv' /\ SentInv'
  BY SMTT(60) DEF Stages, AllKinds, OpenInv, LockInv, Holding, StageInv,
                  GaveUp, Executes, Savepoints, SentInv
<1>2. PendingInv' /\ CommitInv' /\ CommittedInv' /\ SavepointInv' /\ EndInv'
  BY SMTT(60) DEF PendingInv, Accounted, Changes, CommitInv, Asks,
                  CommittedInv, SavepointInv, EndInv
<1>3. InterruptInv'
  BY SMTT(60) DEF InterruptInv, Holding, GaveUp, StageInv, Executes,
                  Savepoints
<1> QED
  BY <1>1, <1>2, <1>3

\* The mutex and the interrupted flag: a free mutex means that no statement
\* but one an interrupted call gave up on is outstanding, and only rollback may
\* then send one.  When a COMMIT or its probe is sent nothing pending is
\* half-reported, because its caller would hold the mutex.
LEMMA AcquireStep ==
  ASSUME IInv, NEW c \in Calls, Acquire(c)
  PROVE  IInv'
<1> USE NoTxIsNoTx, NoCallIsNoCall DEF IInv, TypeOK, Acquire, Send,
                                       FirstStages, MayUse, serverVars,
                                       Executes
<1>1. TypeOK' /\ OpenInv' /\ LockInv' /\ InterruptInv' /\ PendingInv'
  BY SMTT(60) DEF Stages, AllKinds, OpenInv, LockInv, Holding, InterruptInv,
                  GaveUp, PendingInv, Accounted, Changes
<1>2. CommittedInv' /\ SavepointInv' /\ EndInv'
  BY SMTT(60) DEF CommittedInv, SavepointInv, EndInv
<1>3. StageInv'
  BY SMTT(60) DEF StageInv, Holding, GaveUp, Savepoints, Stages, AllKinds
<1>4. SentInv'
  BY SMTT(60) DEF SentInv, LockInv, Holding, StageInv, GaveUp, Savepoints,
                  InterruptInv
<1>5. CommitInv'
  BY SMTT(60) DEF CommitInv, Asks, LockInv, Holding, PendingInv, Accounted,
                  Changes
<1> QED
  BY <1>1, <1>2, <1>3, <1>4, <1>5

\* Refusing takes nothing and leaves nothing.
LEMMA RefuseStep ==
  ASSUME IInv, NEW c \in Calls, Refuse(c)
  PROVE  IInv'
<1> USE NoTxIsNoTx, NoCallIsNoCall DEF IInv, TypeOK, Refuse, Return, MayUse,
                                       managerVars, serverVars, Executes
<1>1. TypeOK' /\ OpenInv' /\ LockInv' /\ StageInv' /\ SentInv'
      /\ PendingInv' /\ CommitInv' /\ CommittedInv' /\ SavepointInv'
      /\ EndInv'
  BY SMTT(60) DEF Stages, AllKinds, OpenInv, LockInv, Holding, StageInv,
                  GaveUp, Savepoints, SentInv, PendingInv, Accounted, Changes,
                  CommitInv, Asks, CommittedInv, SavepointInv, EndInv
<1>2. InterruptInv'
  BY SMTT(60) DEF InterruptInv, Holding, GaveUp, StageInv, Savepoints
<1> QED
  BY <1>1, <1>2

-----------------------------------------------------------------------------
(* Calls: executing under a timeout. *)

\* An answered statement leaves nothing outstanding behind.
LEMMA ExecReturnsStep ==
  ASSUME IInv, NEW c \in Calls, ExecReturns(c)
  PROVE  IInv'
<1> USE NoTxIsNoTx, NoCallIsNoCall DEF IInv, TypeOK, ExecReturns, Return,
                                       Unlock, serverVars
<1>1. TypeOK' /\ OpenInv' /\ LockInv' /\ StageInv' /\ InterruptInv'
  BY SMTT(60) DEF Stages, AllKinds, OpenInv, LockInv, Holding, StageInv,
                  GaveUp, Executes, Savepoints, InterruptInv
<1>2. SentInv' /\ PendingInv' /\ CommitInv' /\ CommittedInv'
      /\ SavepointInv' /\ EndInv'
  BY SMTT(60) DEF SentInv, PendingInv, Accounted, Changes, CommitInv, Asks,
                  CommittedInv, SavepointInv, EndInv
<1> QED
  BY <1>1, <1>2

\* The mutex is held by the interrupted call, so no other call is between
\* its acquisition and its release.
LEMMA InterruptStep ==
  ASSUME IInv, NEW c \in Calls, Interrupt(c)
  PROVE  IInv'
<1> USE NoTxIsNoTx, NoCallIsNoCall DEF IInv, TypeOK, Interrupt, serverVars
<1>1. TypeOK' /\ OpenInv' /\ LockInv' /\ StageInv' /\ SentInv'
      /\ PendingInv' /\ CommitInv' /\ CommittedInv' /\ SavepointInv'
      /\ EndInv'
  BY SMTT(60) DEF Stages, AllKinds, OpenInv, LockInv, Holding, StageInv,
                  GaveUp, Executes, Savepoints, SentInv, PendingInv,
                  Accounted, Changes, CommitInv, Asks, CommittedInv,
                  SavepointInv, EndInv
<1>2. InterruptInv'
  BY SMTT(60) DEF InterruptInv, Holding, GaveUp, LockInv
<1> QED
  BY <1>1, <1>2

\* A cancel request is only ever on its way to an interrupted session.
LEMMA CancelSentStep ==
  ASSUME IInv, NEW c \in Calls, CancelSent(c)
  PROVE  IInv'
<1> USE NoTxIsNoTx, NoCallIsNoCall DEF IInv, TypeOK, CancelSent, managerVars
<1>1. TypeOK' /\ OpenInv' /\ LockInv' /\ StageInv' /\ InterruptInv'
      /\ SentInv' /\ PendingInv' /\ CommitInv' /\ CommittedInv'
      /\ SavepointInv' /\ EndInv'
  BY SMTT(60) DEF Stages, AllKinds, OpenInv, LockInv, Holding, StageInv,
                  GaveUp, Executes, Savepoints, InterruptInv, SentInv,
                  PendingInv, Accounted, Changes, CommitInv, Asks,
                  CommittedInv, SavepointInv, EndInv
<1> QED
  BY <1>1

\* The statement the call gives up on stays on an interrupted session.
LEMMA InterruptedReturnsStep ==
  ASSUME IInv, NEW c \in Calls, InterruptedReturns(c)
  PROVE  IInv'
<1> USE NoTxIsNoTx, NoCallIsNoCall DEF IInv, TypeOK, InterruptedReturns,
                                       Return, Unlock, serverVars
<1>1. TypeOK' /\ OpenInv' /\ LockInv' /\ StageInv' /\ InterruptInv'
  BY SMTT(60) DEF Stages, AllKinds, OpenInv, LockInv, Holding, StageInv,
                  GaveUp, Executes, Savepoints, InterruptInv
<1>2. SentInv' /\ PendingInv' /\ CommitInv' /\ CommittedInv'
      /\ SavepointInv' /\ EndInv'
  BY SMTT(60) DEF SentInv, PendingInv, Accounted, Changes, CommitInv, Asks,
                  CommittedInv, SavepointInv, EndInv
<1> QED
  BY <1>1, <1>2

-----------------------------------------------------------------------------
(* Calls: row operations and reads. *)

\* A statement of a row operation is sent on a session that is not
\* interrupted, where nothing else is outstanding.
LEMMA ColumnsAnsweredStep ==
  ASSUME IInv, NEW c \in Calls, ColumnsAnswered(c)
  PROVE  IInv'
<1> USE NoTxIsNoTx, NoCallIsNoCall DEF IInv, TypeOK, ColumnsAnswered,
                                       Answered, Return, Send, Unlock,
                                       serverVars
<1>1. TypeOK' /\ OpenInv' /\ LockInv' /\ StageInv' /\ InterruptInv'
  BY SMTT(60) DEF Stages, AllKinds, OpenInv, LockInv, Holding, StageInv,
                  GaveUp, Executes, Savepoints, InterruptInv
<1>2. PendingInv' /\ CommittedInv' /\ SavepointInv' /\ EndInv'
  BY SMTT(60) DEF PendingInv, Accounted, Changes, CommittedInv, SavepointInv,
                  EndInv
<1>3. SentInv'
  BY SMTT(60) DEF SentInv, LockInv, Holding, StageInv, GaveUp, Executes,
                  Savepoints, InterruptInv
<1>4. CommitInv'
  BY SMTT(60) DEF CommitInv, Asks, StageInv, Holding, GaveUp, Executes,
                  Savepoints
<1> QED
  BY <1>1, <1>2, <1>3, <1>4

LEMMA SavepointSetStep ==
  ASSUME IInv, NEW c \in Calls, SavepointSet(c)
  PROVE  IInv'
<1> USE NoTxIsNoTx, NoCallIsNoCall DEF IInv, TypeOK, SavepointSet, Answered,
                                       Return, Send, Unlock, serverVars
<1>1. TypeOK' /\ OpenInv' /\ LockInv' /\ StageInv' /\ InterruptInv'
  BY SMTT(60) DEF Stages, AllKinds, OpenInv, LockInv, Holding, StageInv,
                  GaveUp, Executes, Savepoints, InterruptInv
<1>2. PendingInv' /\ CommittedInv' /\ SavepointInv' /\ EndInv'
  BY SMTT(60) DEF PendingInv, Accounted, Changes, CommittedInv, SavepointInv,
                  EndInv
<1>3. SentInv'
  BY SMTT(60) DEF SentInv, LockInv, Holding, StageInv, GaveUp, Executes,
                  Savepoints, InterruptInv
<1>4. CommitInv'
  BY SMTT(60) DEF CommitInv, Asks, StageInv, Holding, GaveUp, Executes,
                  Savepoints
<1> QED
  BY <1>1, <1>2, <1>3, <1>4

LEMMA WorkAnsweredStep ==
  ASSUME IInv, NEW c \in Calls, WorkAnswered(c)
  PROVE  IInv'
<1> USE NoTxIsNoTx, NoCallIsNoCall DEF IInv, TypeOK, WorkAnswered, Answered,
                                       Send, managerVars, serverVars
<1>1. TypeOK' /\ OpenInv' /\ LockInv' /\ StageInv' /\ InterruptInv'
      /\ PendingInv' /\ CommittedInv' /\ SavepointInv' /\ EndInv'
  BY SMTT(60) DEF Stages, AllKinds, OpenInv, LockInv, Holding, StageInv,
                  GaveUp, Executes, Savepoints, InterruptInv, PendingInv,
                  Accounted, Changes, CommittedInv, SavepointInv, EndInv
<1>2. SentInv'
  BY SMTT(60) DEF SentInv, LockInv, Holding, StageInv, GaveUp, Executes,
                  Savepoints, InterruptInv
<1>3. CommitInv'
  BY SMTT(60) DEF CommitInv, Asks, StageInv, Holding, GaveUp, Executes,
                  Savepoints
<1> QED
  BY <1>1, <1>2, <1>3

LEMMA UndoAnsweredStep ==
  ASSUME IInv, NEW c \in Calls, UndoAnswered(c)
  PROVE  IInv'
<1> USE NoTxIsNoTx, NoCallIsNoCall DEF IInv, TypeOK, UndoAnswered, Answered,
                                       Return, Send, Unlock, serverVars
<1>1. TypeOK' /\ OpenInv' /\ LockInv' /\ StageInv' /\ InterruptInv'
  BY SMTT(60) DEF Stages, AllKinds, OpenInv, LockInv, Holding, StageInv,
                  GaveUp, Executes, Savepoints, InterruptInv
<1>2. PendingInv' /\ CommitInv' /\ CommittedInv' /\ SavepointInv' /\ EndInv'
  BY SMTT(60) DEF PendingInv, Accounted, Changes, CommitInv, Asks,
                  CommittedInv, SavepointInv, EndInv
<1>3. SentInv'
  BY SMTT(60) DEF SentInv, LockInv, Holding, StageInv, GaveUp, Executes,
                  Savepoints, InterruptInv
<1> QED
  BY <1>1, <1>2, <1>3

LEMMA ReleaseAnsweredStep ==
  ASSUME IInv, NEW c \in Calls, ReleaseAnswered(c)
  PROVE  IInv'
<1> USE NoTxIsNoTx, NoCallIsNoCall DEF IInv, TypeOK, ReleaseAnswered,
                                       Answered, Return, Unlock, serverVars
<1>1. TypeOK' /\ OpenInv' /\ LockInv' /\ StageInv' /\ InterruptInv'
  BY SMTT(60) DEF Stages, AllKinds, OpenInv, LockInv, Holding, StageInv,
                  GaveUp, Executes, Savepoints, InterruptInv
<1>2. SentInv' /\ PendingInv' /\ CommitInv' /\ CommittedInv'
      /\ SavepointInv' /\ EndInv'
  BY SMTT(60) DEF SentInv, PendingInv, Accounted, Changes, CommitInv, Asks,
                  CommittedInv, SavepointInv, EndInv
<1> QED
  BY <1>1, <1>2

-----------------------------------------------------------------------------
(* Calls: commit and rollback. *)

\* COMMIT follows its probe under the same guard: what is pending was
\* reported as successful, for its caller does not hold the mutex.
LEMMA ProbeAnsweredStep ==
  ASSUME IInv, NEW c \in Calls, ProbeAnswered(c)
  PROVE  IInv'
<1> USE NoTxIsNoTx, NoCallIsNoCall DEF IInv, TypeOK, ProbeAnswered, Answered,
                                       Return, Send, Unlock, serverVars
<1>1. TypeOK' /\ OpenInv' /\ LockInv' /\ StageInv' /\ InterruptInv'
  BY SMTT(60) DEF Stages, AllKinds, OpenInv, LockInv, Holding, StageInv,
                  GaveUp, Executes, Savepoints, InterruptInv
<1>2. PendingInv' /\ CommittedInv' /\ SavepointInv' /\ EndInv'
  BY SMTT(60) DEF PendingInv, Accounted, Changes, CommittedInv, SavepointInv,
                  EndInv
<1>3. SentInv'
  BY SMTT(60) DEF SentInv, LockInv, Holding, StageInv, GaveUp, Executes,
                  Savepoints, InterruptInv
<1>4. CommitInv'
  BY SMTT(60) DEF CommitInv, Asks, LockInv, Holding, InterruptInv, GaveUp,
                  PendingInv, Accounted, Changes
<1> QED
  BY <1>1, <1>2, <1>3, <1>4

\* A transaction is forgotten after its session has ended it.
LEMMA EndAnsweredStep ==
  ASSUME IInv, NEW c \in Calls, EndAnswered(c)
  PROVE  IInv'
<1> USE NoTxIsNoTx, NoCallIsNoCall DEF IInv, TypeOK, EndAnswered, Answered,
                                       Return, Unlock, serverVars
<1>1. TypeOK' /\ OpenInv' /\ LockInv' /\ StageInv' /\ InterruptInv'
  BY SMTT(60) DEF Stages, AllKinds, OpenInv, LockInv, Holding, StageInv,
                  GaveUp, Executes, Savepoints, InterruptInv
<1>2. SentInv' /\ PendingInv' /\ CommitInv' /\ CommittedInv'
      /\ SavepointInv' /\ EndInv'
  BY SMTT(60) DEF SentInv, PendingInv, Accounted, Changes, CommitInv, Asks,
                  CommittedInv, SavepointInv, EndInv
<1> QED
  BY <1>1, <1>2

LEMMA ForgetStep ==
  ASSUME IInv, NEW c \in Calls, Forget(c)
  PROVE  IInv'
<1> USE NoTxIsNoTx, NoCallIsNoCall DEF IInv, TypeOK, Forget, Return,
                                       serverVars
<1>1. TypeOK' /\ OpenInv' /\ LockInv' /\ StageInv' /\ SentInv'
      /\ PendingInv' /\ CommitInv' /\ CommittedInv' /\ SavepointInv'
      /\ EndInv'
  BY SMTT(60) DEF Stages, AllKinds, OpenInv, LockInv, Holding, StageInv,
                  GaveUp, Executes, Savepoints, SentInv, PendingInv,
                  Accounted, Changes, CommitInv, Asks, CommittedInv,
                  SavepointInv, EndInv
<1>2. InterruptInv'
  BY SMTT(60) DEF InterruptInv, Holding, GaveUp, StageInv, Executes,
                  Savepoints
<1> QED
  BY <1>1, <1>2

-----------------------------------------------------------------------------
(* The server. *)

\* An answer without an effect.
LEMMA ServerRefusesStep ==
  ASSUME IInv, NEW c \in Calls, ServerRefuses(c)
  PROVE  IInv'
<1> USE NoTxIsNoTx, NoCallIsNoCall DEF IInv, TypeOK, ServerRefuses, Executing,
                                       Answer, managerVars, Asks, GaveUp
<1>1. TypeOK' /\ OpenInv' /\ LockInv' /\ StageInv' /\ InterruptInv'
      /\ SentInv' /\ PendingInv' /\ CommitInv' /\ CommittedInv'
      /\ SavepointInv' /\ EndInv'
  BY SMTT(60) DEF Stages, AllKinds, OpenInv, LockInv, Holding, StageInv,
                  Executes, Savepoints, InterruptInv, SentInv, PendingInv,
                  Accounted, Changes, CommitInv, CommittedInv, SavepointInv,
                  EndInv
<1> QED
  BY <1>1

LEMMA ServerAgreesStep ==
  ASSUME IInv, NEW c \in Calls, ServerAgrees(c)
  PROVE  IInv'
<1> USE NoTxIsNoTx, NoCallIsNoCall DEF IInv, TypeOK, ServerAgrees, Executing,
                                       Answer, managerVars, Asks, GaveUp
<1>1. TypeOK' /\ OpenInv' /\ LockInv' /\ StageInv' /\ InterruptInv'
      /\ SentInv' /\ PendingInv' /\ CommitInv' /\ CommittedInv'
      /\ SavepointInv' /\ EndInv'
  BY SMTT(60) DEF Stages, AllKinds, OpenInv, LockInv, Holding, StageInv,
                  Executes, Savepoints, InterruptInv, SentInv, PendingInv,
                  Accounted, Changes, CommitInv, CommittedInv, SavepointInv,
                  EndInv
<1> QED
  BY <1>1

LEMMA ServerMatchesNothingStep ==
  ASSUME IInv, NEW c \in Calls, ServerMatchesNothing(c)
  PROVE  IInv'
<1> USE NoTxIsNoTx, NoCallIsNoCall DEF IInv, TypeOK, ServerMatchesNothing,
                                       Executing, Answer, managerVars, Asks,
                                       GaveUp
<1>1. TypeOK' /\ OpenInv' /\ LockInv' /\ StageInv' /\ InterruptInv'
      /\ SentInv' /\ PendingInv' /\ CommitInv' /\ CommittedInv'
      /\ SavepointInv' /\ EndInv'
  BY SMTT(60) DEF Stages, AllKinds, OpenInv, LockInv, Holding, StageInv,
                  Executes, Savepoints, InterruptInv, SentInv, PendingInv,
                  Accounted, Changes, CommitInv, CommittedInv, SavepointInv,
                  EndInv
<1> QED
  BY <1>1

\* A change is made by the call that holds the mutex or by one that gave up
\* on it, never while a COMMIT is outstanding.
LEMMA ServerChangesStep ==
  ASSUME IInv, NEW c \in Calls, ServerChanges(c)
  PROVE  IInv'
<1> USE NoTxIsNoTx, NoCallIsNoCall DEF IInv, TypeOK, ServerChanges, Executing,
                                       Answer, managerVars, Asks, GaveUp
<1>1. TypeOK' /\ OpenInv' /\ LockInv' /\ StageInv' /\ InterruptInv'
  BY SMTT(60) DEF Stages, AllKinds, OpenInv, LockInv, Holding, StageInv,
                  Executes, Savepoints, InterruptInv
<1>2. SentInv' /\ CommittedInv'
  BY SMTT(60) DEF SentInv, CommittedInv
<1>3. PendingInv'
  BY SMTT(60) DEF PendingInv, Accounted, Changes, StageInv, Holding, Executes,
                  Savepoints, InterruptInv
<1>4. CommitInv'
  BY SMTT(60) DEF CommitInv, StageInv, Holding, Executes, Savepoints, SentInv
<1>5. SavepointInv'
  BY SMTT(60) DEF SavepointInv, StageInv, Holding, Executes, Savepoints
<1>6. EndInv'
  BY SMTT(60) DEF EndInv, StageInv, Holding, Executes, Savepoints
<1> QED
  BY <1>1, <1>2, <1>3, <1>4, <1>5, <1>6

\* Only the caller of the failed statement loses the account of its change.
LEMMA ServerFailsStep ==
  ASSUME IInv, NEW c \in Calls, ServerFails(c)
  PROVE  IInv'
<1> USE NoTxIsNoTx, NoCallIsNoCall DEF IInv, TypeOK, ServerFails, Executing,
                                       Answer, SetStatus, managerVars, Asks,
                                       GaveUp
<1>1. TypeOK' /\ OpenInv' /\ LockInv' /\ StageInv' /\ InterruptInv'
      /\ SentInv' /\ CommitInv' /\ CommittedInv' /\ SavepointInv' /\ EndInv'
  BY SMTT(60) DEF Stages, AllKinds, OpenInv, LockInv, Holding, StageInv,
                  Executes, Savepoints, InterruptInv, SentInv, CommitInv,
                  CommittedInv, SavepointInv, EndInv
<1>2. PendingInv'
  BY SMTT(60) DEF PendingInv, Accounted, Changes, LockInv, Holding, StageInv,
                  Executes, Savepoints, InterruptInv
<1> QED
  BY <1>1, <1>2

\* ROLLBACK TO takes back what the failed statement did.
LEMMA ServerUndoesStep ==
  ASSUME IInv, NEW c \in Calls, ServerUndoes(c)
  PROVE  IInv'
<1> USE NoTxIsNoTx, NoCallIsNoCall DEF IInv, TypeOK, ServerUndoes, Executing,
                                       Answer, SetStatus, managerVars, Asks,
                                       GaveUp
<1>1. TypeOK' /\ OpenInv' /\ LockInv' /\ StageInv' /\ InterruptInv'
      /\ SentInv' /\ PendingInv' /\ CommitInv' /\ CommittedInv'
      /\ SavepointInv' /\ EndInv'
  BY SMTT(60) DEF Stages, AllKinds, OpenInv, LockInv, Holding, StageInv,
                  Executes, Savepoints, InterruptInv, SentInv, PendingInv,
                  Accounted, Changes, CommitInv, CommittedInv, SavepointInv,
                  EndInv
<1> QED
  BY <1>1

\* Everything a COMMIT makes permanent was reported as successful.
LEMMA ServerEndsStep ==
  ASSUME IInv, NEW c \in Calls, ServerEnds(c)
  PROVE  IInv'
<1> USE NoTxIsNoTx, NoCallIsNoCall DEF IInv, TypeOK, ServerEnds, Executing,
                                       Answer, SetStatus, managerVars, Asks,
                                       GaveUp
<1>1. TypeOK' /\ OpenInv' /\ LockInv' /\ StageInv' /\ InterruptInv'
      /\ SentInv' /\ PendingInv' /\ CommitInv' /\ EndInv'
  BY SMTT(60) DEF Stages, AllKinds, OpenInv, LockInv, Holding, StageInv,
                  Executes, Savepoints, InterruptInv, SentInv, PendingInv,
                  Accounted, Changes, CommitInv, EndInv
<1>2. CommittedInv'
  BY SMTT(60) DEF CommittedInv, CommitInv
<1>3. SavepointInv'
  BY SMTT(60) DEF SavepointInv, LockInv, Holding, StageInv, Executes,
                  Savepoints, InterruptInv
<1> QED
  BY <1>1, <1>2, <1>3

\* A rejected COMMIT empties the transaction like a rollback.
LEMMA ServerRejectsCommitStep ==
  ASSUME IInv, NEW c \in Calls, ServerRejectsCommit(c)
  PROVE  IInv'
<1> USE NoTxIsNoTx, NoCallIsNoCall DEF IInv, TypeOK, ServerRejectsCommit,
                                       Executing, Answer, SetStatus,
                                       managerVars, Asks, GaveUp
<1>1. TypeOK' /\ OpenInv' /\ LockInv' /\ StageInv' /\ InterruptInv'
      /\ SentInv' /\ PendingInv' /\ CommitInv' /\ CommittedInv' /\ EndInv'
  BY SMTT(60) DEF Stages, AllKinds, OpenInv, LockInv, Holding, StageInv,
                  Executes, Savepoints, InterruptInv, SentInv, PendingInv,
                  Accounted, Changes, CommitInv, CommittedInv, EndInv
<1>2. SavepointInv'
  BY SMTT(60) DEF SavepointInv, LockInv, Holding, StageInv, Executes,
                  Savepoints, InterruptInv
<1> QED
  BY <1>1, <1>2

-----------------------------------------------------------------------------
(* The connection. *)

\* The statement a late cancel request hits is on an interrupted session.
LEMMA CancelArrivesStep ==
  ASSUME IInv, NEW s \in Tx, CancelArrives(s)
  PROVE  IInv'
<1> USE NoTxIsNoTx, NoCallIsNoCall DEF IInv, TypeOK, CancelArrives, Executing,
                                       SetStatus, managerVars, GaveUp
<1>1. TypeOK' /\ OpenInv' /\ LockInv' /\ StageInv' /\ InterruptInv'
      /\ SentInv' /\ CommitInv' /\ CommittedInv' /\ SavepointInv' /\ EndInv'
  BY SMTT(60) DEF Stages, AllKinds, OpenInv, LockInv, Holding, StageInv,
                  Executes, Savepoints, InterruptInv, SentInv, CommitInv,
                  Asks, CommittedInv, SavepointInv, EndInv
<1>2. PendingInv'
  BY SMTT(60) DEF PendingInv, Accounted, Changes, InterruptInv, Holding
<1> QED
  BY <1>1, <1>2

\* The answer a broken connection loses is that of the holder of the mutex.
LEMMA LoseConnectionStep ==
  ASSUME IInv, NEW s \in Tx, LoseConnection(s)
  PROVE  IInv'
<1> USE NoTxIsNoTx, NoCallIsNoCall DEF IInv, TypeOK, managerVars
<1>1. /\ begin[s] = "ok"
      /\ server' = [server EXCEPT ![s] = "closed"]
      /\ pending' = [pending EXCEPT ![s] = {}]
      /\ signal' = [signal EXCEPT ![s] = FALSE]
      /\ UNCHANGED <<managerVars, pc, kind, target, cancelled, result,
                     committed, autocommitted>>
  BY DEF LoseConnection, SetStatus
<1>2. PICK lost \in SUBSET ({holder[s]} \cap Calls) :
        stmt' = [c \in Calls |->
                   IF (target[c] = s /\ stmt[c] = "sent") \/ c \in lost
                   THEN "err" ELSE stmt[c]]
  BY DEF LoseConnection
<1>3. \A c \in Calls : stmt'[c] = stmt[c] \/ stmt'[c] = "err"
  BY <1>2
<1>4. stmt' \in [Calls -> {"none", "sent", "ok", "empty", "err"}]
  BY <1>2
<1>5. \A c \in Calls : c \in lost => target[c] = s /\ pc[c] \in Holding
  BY <1>2 DEF LockInv
<1>6. \A c \in Calls : pc[c] = "new" => stmt'[c] = "none"
  BY <1>2, <1>5 DEF Holding
<1>7. TypeOK'
  BY <1>1, <1>4, <1>6 DEF Stages, AllKinds
<1>8. OpenInv' /\ LockInv' /\ CommittedInv' /\ SavepointInv' /\ EndInv'
  BY <1>1, <1>3, <1>4 DEF OpenInv, LockInv, Holding, CommittedInv, SavepointInv, EndInv
<1>9. StageInv' /\ InterruptInv' /\ SentInv'
  BY <1>1, <1>3, <1>4 DEF StageInv, InterruptInv, SentInv, Holding, GaveUp, Executes, Savepoints
<1>10. PendingInv'
  BY <1>1, <1>2, <1>5 DEF PendingInv, Accounted, Changes
<1>11. CommitInv'
  BY <1>1, <1>3, <1>4 DEF CommitInv, Asks
<1> QED
  BY <1>7, <1>8, <1>9, <1>10, <1>11

\* The session of a forgotten transaction has nothing pending.
LEMMA DropSessionStep ==
  ASSUME IInv, NEW s \in Tx, DropSession(s)
  PROVE  IInv'
<1> USE NoTxIsNoTx, NoCallIsNoCall DEF IInv, TypeOK, DropSession, SetStatus,
                                       managerVars, callVars, GaveUp
<1>1. TypeOK' /\ OpenInv' /\ LockInv' /\ StageInv' /\ InterruptInv'
      /\ SentInv' /\ PendingInv' /\ CommitInv' /\ CommittedInv'
      /\ SavepointInv' /\ EndInv'
  BY SMTT(60) DEF Stages, AllKinds, OpenInv, LockInv, Holding, StageInv,
                  Executes, Savepoints, InterruptInv, SentInv, PendingInv,
                  Accounted, Changes, CommitInv, Asks, CommittedInv,
                  SavepointInv, EndInv
<1> QED
  BY <1>1

-----------------------------------------------------------------------------
(* The invariant, and what it implies. *)

\* Every step of the backend, the server and the callers preserves IInv.
LEMMA Step == IInv /\ [Next]_vars => IInv'
<1> SUFFICES ASSUME IInv, [Next]_vars PROVE IInv'
  OBVIOUS
<1>1. CASE UNCHANGED vars
  BY <1>1 DEF vars, managerVars, callVars, serverVars, IInv, TypeOK, OpenInv, LockInv, StageInv,
              InterruptInv, SentInv, PendingInv, Accounted, CommitInv, Asks, CommittedInv,
              SavepointInv, EndInv, GaveUp
<1>2. ASSUME NEW s \in Tx,
             \/ Opening(s) \/ BeginFails(s) \/ BeginRequest(s)
             \/ CancelArrives(s) \/ LoseConnection(s) \/ DropSession(s)
      PROVE  IInv'
  BY <1>2, BeginRequestStep, ConnectStep, SendBeginStep, InsertEntryStep, BeginFailsStep,
     CancelArrivesStep, LoseConnectionStep, DropSessionStep
     DEF Opening
<1>3. ASSUME NEW c \in Calls, Acquire(c) \/ Working(c)
      PROVE  IInv'
  BY <1>3, AcquireStep, LookUpStep, RefuseStep, ExecReturnsStep, InterruptStep,
     CancelSentStep, InterruptedReturnsStep, ColumnsAnsweredStep, SavepointSetStep,
     WorkAnsweredStep, UndoAnsweredStep, ReleaseAnsweredStep, ProbeAnsweredStep,
     EndAnsweredStep, ForgetStep
     DEF Working
<1>4. ASSUME NEW c \in Calls, Serving(c)
      PROVE  IInv'
  BY <1>4, ServerRefusesStep, ServerAgreesStep, ServerMatchesNothingStep,
     ServerChangesStep, ServerFailsStep, ServerUndoesStep, ServerEndsStep,
     ServerRejectsCommitStep
     DEF Serving
<1>5. ASSUME NEW c \in Calls, Cancel(c) \/ \E k \in Kinds, s \in Tx : Invoke(c, k, s)
      PROVE  IInv'
  BY <1>5, CancelStep, InvokeStep
<1> QED
  BY <1>1, <1>2, <1>3, <1>4, <1>5 DEF Next, System, Requests

\* IInv holds in every reachable state.
THEOREM Invariance == Spec => []IInv
  BY InitInv, Step, PTL DEF Spec

\* The variables keep their types, and a call has a command and an opened
\* session from the moment it is made.
THEOREM TypeCorrect == Spec => []TypeOK
<1>1. IInv => TypeOK
  BY DEF IInv
<1> QED
  BY <1>1, Invariance, PTL

\* A change reported as failed, cancelled or timed out is never committed.
THEOREM FailuresStayOut == Spec => []FailedNeverCommitted
<1>1. IInv => FailedNeverCommitted
  BY DEF IInv, CommittedInv, FailedNeverCommitted
<1> QED
  BY <1>1, Invariance, PTL

\* A row operation never takes effect outside a transaction.
THEOREM RowsStayInside == Spec => []RowsNeverAutocommit
<1>1. IInv => RowsNeverAutocommit
  BY DEF IInv, SavepointInv, RowsNeverAutocommit
<1> QED
  BY <1>1, Invariance, PTL

\* An open transaction always has the entry through which it can be ended.
THEOREM NoOrphan == Spec => []NoOrphanTransaction
<1>1. IInv => NoOrphanTransaction
  BY DEF IInv, EndInv, NoOrphanTransaction
<1> QED
  BY <1>1, Invariance, PTL

\* On an interrupted session only ROLLBACK is sent: a call that holds the
\* mutex of such a session is past its statement, or rolls back.
THEOREM OnlyRollback == Spec => InterruptedOnlyRollsBack
<1> DEFINE P == \A c \in Calls :
                  stmt[c] # "sent" /\ stmt'[c] = "sent" /\ interrupted[target[c]]
                    => kind[c] = "rollback"
<1>1. ASSUME IInv, [Next]_vars PROVE P
  <2> USE <1>1 DEF IInv, TypeOK
  <2>1. CASE UNCHANGED vars
    BY <2>1 DEF vars, callVars
  <2>2. ASSUME NEW s \in Tx,
               \/ Opening(s) \/ BeginFails(s) \/ BeginRequest(s)
               \/ CancelArrives(s) \/ LoseConnection(s) \/ DropSession(s)
        PROVE  P
    BY <2>2 DEF Opening, Connect, SendBegin, InsertEntry, BeginFails, BeginRequest,
                CancelArrives, LoseConnection, DropSession, callVars
  <2>3. ASSUME NEW c \in Calls, Acquire(c) PROVE P
    BY <2>3 DEF Acquire, Send, FirstStages, MayUse
  <2>4. ASSUME NEW c \in Calls, Working(c) PROVE P
    BY <2>4, SMTT(60) DEF Working, LookUp, Refuse, ExecReturns, Interrupt, CancelSent,
       InterruptedReturns, ColumnsAnswered, SavepointSet, WorkAnswered, UndoAnswered,
       ReleaseAnswered, ProbeAnswered, EndAnswered, Forget, Return, Send, Answered,
       InterruptInv, Holding
  <2>5. ASSUME NEW c \in Calls, Serving(c) PROVE P
    BY <2>5 DEF Serving, ServerRefuses, ServerAgrees, ServerMatchesNothing, ServerChanges,
                ServerFails, ServerUndoes, ServerEnds, ServerRejectsCommit, Answer
  <2>6. ASSUME NEW c \in Calls, Cancel(c) \/ \E k \in Kinds, s \in Tx : Invoke(c, k, s)
        PROVE  P
    BY <2>6 DEF Cancel, Invoke
  <2> QED
    BY <2>1, <2>2, <2>3, <2>4, <2>5, <2>6 DEF Next, System, Requests
<1>2. IInv /\ [Next]_vars => [P]_vars
  BY <1>1
<1> QED
  BY <1>2, Invariance, PTL DEF Spec, InterruptedOnlyRollsBack

-----------------------------------------------------------------------------
(* What aborts a transaction block. *)

LEMMA FailInvInit == Init => FailInv
  BY DEF Init, FailInv

\* A broken connection is not an aborted block, and the other sessions keep
\* the calls that aborted theirs.
LEMMA LoseConnectionFailInv ==
  ASSUME IInv, FailInv, NEW s \in Tx, LoseConnection(s)
  PROVE  FailInv'
<1> USE DEF IInv, TypeOK
<1>1. /\ server' = [server EXCEPT ![s] = "closed"]
      /\ UNCHANGED <<interrupted, kind, target, pc>>
  BY DEF LoseConnection, SetStatus, managerVars
<1>2. \A c \in Calls : target[c] # s => stmt'[c] = stmt[c]
  BY NoTxIsNoTx, NoCallIsNoCall DEF LoseConnection, LockInv
<1> QED
  BY <1>1, <1>2 DEF FailInv

LEMMA FailInvStep == IInv /\ FailInv /\ [Next]_vars => FailInv'
<1> SUFFICES ASSUME IInv, FailInv, [Next]_vars PROVE FailInv'
  OBVIOUS
<1> USE NoTxIsNoTx, NoCallIsNoCall DEF IInv, TypeOK, FailInv, Executes
<1>1. CASE UNCHANGED vars
  BY <1>1 DEF vars, managerVars, callVars, serverVars
<1>2. ASSUME NEW s \in Tx, Opening(s) \/ BeginFails(s) \/ BeginRequest(s) PROVE FailInv'
  BY <1>2, SMTT(60) DEF Opening, Connect, SendBegin, InsertEntry, BeginFails,
     BeginRequest, callVars, serverVars
<1>3. ASSUME NEW s \in Tx, CancelArrives(s) PROVE FailInv'
  BY <1>3, SMTT(60) DEF CancelArrives, SetStatus, Executing, managerVars,
     StageInv, Holding, GaveUp, Savepoints, InterruptInv
<1>4. ASSUME NEW s \in Tx, LoseConnection(s) PROVE FailInv'
  BY <1>4, LoseConnectionFailInv
<1>5. ASSUME NEW s \in Tx, DropSession(s) PROVE FailInv'
  BY <1>5, SMTT(60) DEF DropSession, SetStatus, managerVars, callVars
<1>6. ASSUME NEW c \in Calls, Acquire(c) \/ Cancel(c) PROVE FailInv'
  BY <1>6, SMTT(60) DEF Acquire, Cancel, Send, FirstStages, MayUse, managerVars, serverVars
<1>7. ASSUME NEW c \in Calls,
             \/ LookUp(c) \/ Refuse(c) \/ ExecReturns(c) \/ Interrupt(c)
             \/ CancelSent(c) \/ InterruptedReturns(c)
      PROVE  FailInv'
  BY <1>7, SMTT(60) DEF LookUp, Refuse, ExecReturns, Interrupt, CancelSent,
     InterruptedReturns, Return, managerVars, serverVars, StageInv
<1>8. ASSUME NEW c \in Calls,
             \/ ColumnsAnswered(c) \/ SavepointSet(c) \/ WorkAnswered(c)
             \/ UndoAnswered(c) \/ ReleaseAnswered(c)
      PROVE  FailInv'
  BY <1>8, SMTT(60) DEF ColumnsAnswered, SavepointSet, WorkAnswered, UndoAnswered,
     ReleaseAnswered, Answered, Return, Send, managerVars, serverVars
<1>9. ASSUME NEW c \in Calls, ProbeAnswered(c) \/ EndAnswered(c) \/ Forget(c)
      PROVE  FailInv'
  BY <1>9, SMTT(60) DEF ProbeAnswered, EndAnswered, Forget, Answered, Return, Send,
     managerVars, serverVars
<1>10. ASSUME NEW c \in Calls, Serving(c) PROVE FailInv'
  <2>1. CASE ServerRefuses(c) \/ ServerAgrees(c) \/ ServerMatchesNothing(c)
             \/ ServerChanges(c) \/ ServerEnds(c) \/ ServerRejectsCommit(c)
    BY <2>1, SMTT(60) DEF ServerRefuses, ServerAgrees, ServerMatchesNothing, ServerChanges,
       ServerEnds, ServerRejectsCommit, Answer, SetStatus, Executing, Asks, managerVars
  <2>2. CASE ServerFails(c) \/ ServerUndoes(c)
    BY <2>2, SMTT(60) DEF ServerFails, ServerUndoes, Answer, SetStatus, Executing, Asks,
       managerVars, StageInv, Holding, GaveUp
  <2> QED
    BY <1>10, <2>1, <2>2 DEF Serving
<1>11. ASSUME NEW c \in Calls, NEW k \in Kinds, NEW s \in Tx, Invoke(c, k, s)
      PROVE  FailInv'
  BY <1>11, SMTT(60) DEF Invoke, managerVars, serverVars
<1> QED
  BY <1>1, <1>2, <1>3, <1>4, <1>5, <1>6, <1>7, <1>8, <1>9, <1>10, <1>11
     DEF Next, System, Requests, Working

\* Whatever the commands, the server and the connection do, in any number of
\* sessions: every place of a command agrees with the mutex and the session.
THEOREM InductiveHolds == Spec => []Inductive
<1>1. IInv /\ FailInv <=> Inductive
  BY DEF Inductive
<1> QED
  BY <1>1, Invariance, FailInvInit, FailInvStep, PTL DEF Spec

\* A failing row operation or read leaves the transaction usable.
THEOREM RowErrorsContained == Spec => []RowErrorsAreContained
<1>1. Inductive => RowErrorsAreContained
  BY DEF Inductive, IInv, FailInv, RowErrorsAreContained, LockInv, Holding
<1> QED
  BY <1>1, InductiveHolds, PTL

-----------------------------------------------------------------------------
(* PgTransactions implements AtomicTransactions: every step of a session,  *)
(* a call or the server is a step of an atomic transaction or leaves the   *)
(* mapped variables unchanged.  The invariant IInv supplies what a single  *)
(* step does not show: that whatever an outstanding COMMIT makes permanent *)
(* was reported as successful.                                             *)

\* The mapped variables are functions; an assignment to them is shown point
\* by point.
LEMMA SetStatusOf ==
  ASSUME NEW s \in Tx, NEW st, Status(s)' = st,
         \A t \in Tx \ {s} : Status(t)' = Status(t)
  PROVE  [t \in Tx |-> Status(t)]' = [[t \in Tx |-> Status(t)] EXCEPT ![s] = st]
  OBVIOUS

LEMMA SetTold ==
  ASSUME NEW c \in Calls, NEW r, Told(c)' = r,
         \A d \in Calls \ {c} : Told(d)' = Told(d)
  PROVE  [d \in Calls |-> Told(d)]' = [[d \in Calls |-> Told(d)] EXCEPT ![c] = r]
  OBVIOUS

LEMMA AtomicInit == Init => Atomic!Init
  BY DEF Init, Atomic!Init, Status, Told

-----------------------------------------------------------------------------
(* The steps of a session. *)

\* BEGIN is the step that opens the transaction.
LEMMA SendBeginRefines ==
  ASSUME IInv, NEW s \in Tx, SendBegin(s)
  PROVE  Atomic!Begin(s)
<1> USE DEF IInv, TypeOK, OpenInv, SendBegin, callVars
<1>1. /\ Status(s) = "none" /\ Status(s)' = "open"
      /\ \A t \in Tx \ {s} : Status(t)' = Status(t)
  BY DEF Status
<1>2. UNCHANGED [d \in Calls |-> Told(d)]
  BY DEF Told
<1> QED
  BY <1>1, <1>2, SetStatusOf DEF Atomic!Begin

\* A begin that fails leaves no transaction.
LEMMA BeginFailsRefines ==
  ASSUME IInv, NEW s \in Tx, BeginFails(s)
  PROVE  Atomic!Abort(s)
<1> USE DEF IInv, TypeOK, OpenInv, BeginFails, callVars
<1>1. /\ Status(s) # "ended" /\ Status(s)' = "ended"
      /\ \A t \in Tx \ {s} : Status(t)' = Status(t)
  BY DEF Status
<1>2. UNCHANGED [d \in Calls |-> Told(d)]
  BY DEF Told
<1>3. pending[s] = {}
  BY DEF PendingInv, Changes
<1>4. pending' = [pending EXCEPT ![s] = {}]
  BY <1>3
<1>5. [t \in Tx |-> Status(t)]'
        = [[t \in Tx |-> Status(t)] EXCEPT ![s] = "ended"]
  BY <1>1, SetStatusOf
<1>6. UNCHANGED (committed \cup autocommitted)
  OBVIOUS
<1> HIDE DEF IInv, TypeOK, OpenInv, BeginFails, callVars
<1> QED
  BY <1>1, <1>2, <1>4, <1>5, <1>6 DEF Atomic!Abort, Atomic!End

\* A session that is closed aborts the transaction it had open, if any.
LEMMA CloseRefines ==
  ASSUME IInv, NEW s \in Tx, LoseConnection(s) \/ DropSession(s)
  PROVE  Atomic!Abort(s) \/ UNCHANGED Atomic!vars
<1> USE DEF IInv, TypeOK
<1>1. /\ server' = [server EXCEPT ![s] = "closed"]
      /\ pending' = [pending EXCEPT ![s] = {}]
      /\ begin[s] = "ok"
      /\ UNCHANGED <<begin, pc, result, committed, autocommitted>>
  BY DEF LoseConnection, DropSession, SetStatus, managerVars, callVars
<1>2. Status(s)' = "ended" /\ \A t \in Tx \ {s} : Status(t)' = Status(t)
  BY <1>1 DEF Status
<1>3. UNCHANGED [d \in Calls |-> Told(d)]
  BY <1>1 DEF Told
<1>4. CASE Status(s) # "ended"
  BY <1>1, <1>2, <1>3, <1>4, SetStatusOf DEF Atomic!Abort, Atomic!End
<1>5. CASE Status(s) = "ended"
  <2>1. pending[s] = {}
    BY <1>1, <1>5 DEF PendingInv, Status
  <2>2. pending' = pending
    BY <1>1, <2>1
  <2>3. UNCHANGED [t \in Tx |-> Status(t)]
    BY <1>2, <1>5
  <2> QED
    BY <1>1, <1>3, <2>2, <2>3 DEF Atomic!vars
<1> QED
  BY <1>4, <1>5

\* Opening a connection, inserting the entry and a late cancel request are
\* invisible.
LEMMA SessionStutters ==
  ASSUME IInv, NEW s \in Tx,
         BeginRequest(s) \/ Connect(s) \/ InsertEntry(s) \/ CancelArrives(s)
  PROVE  UNCHANGED Atomic!vars
<1> USE DEF IInv, TypeOK
<1>1. UNCHANGED <<pc, result, pending, committed, autocommitted>>
  BY DEF BeginRequest, Connect, InsertEntry, CancelArrives, managerVars, callVars, serverVars
<1>2. \A t \in Tx : Status(t)' = Status(t)
  BY SMTT(30) DEF BeginRequest, Connect, InsertEntry, CancelArrives, SetStatus,
                  managerVars, serverVars, OpenInv, Status
<1>3. UNCHANGED [t \in Tx |-> Status(t)] /\ UNCHANGED [d \in Calls |-> Told(d)]
  BY <1>1, <1>2 DEF Told
<1> QED
  BY <1>1, <1>3 DEF Atomic!vars

-----------------------------------------------------------------------------
(* The steps of a call: it tells its outcome when it is done. *)

LEMMA InvokeRefines ==
  ASSUME IInv, NEW c \in Calls, NEW k \in Kinds, NEW s \in Tx, Invoke(c, k, s)
  PROVE  UNCHANGED Atomic!vars
<1> USE DEF IInv, TypeOK, Invoke, managerVars, serverVars
<1>1. \A d \in Calls : Told(d)' = Told(d)
  BY DEF Told
<1>2. UNCHANGED [t \in Tx |-> Status(t)]
  BY DEF Status
<1> QED
  BY <1>1, <1>2 DEF Atomic!vars

LEMMA CallRefines ==
  ASSUME IInv, NEW c \in Calls, Acquire(c) \/ Working(c) \/ Cancel(c)
  PROVE  (\E r \in {"ok", "err"} : Atomic!Tell(c, r)) \/ UNCHANGED Atomic!vars
<1> USE DEF IInv, TypeOK
<1>1. /\ pc[c] # "done"
      /\ \A d \in Calls \ {c} : pc'[d] = pc[d] /\ result'[d] = result[d]
      /\ UNCHANGED <<begin, server, pending, committed, autocommitted>>
  BY SMTT(60) DEF Working, LookUp, Refuse, ExecReturns, InterruptedReturns, ColumnsAnswered,
       SavepointSet, UndoAnswered, ReleaseAnswered, ProbeAnswered, EndAnswered, Forget,
       Acquire, Interrupt, CancelSent, WorkAnswered, Cancel, Answered, Return, Send,
       managerVars, serverVars
<1>2. pc'[c] = "done" => result'[c] \in {"ok", "err"}
  BY SMTT(60) DEF Working, LookUp, Refuse, ExecReturns, InterruptedReturns, ColumnsAnswered,
       SavepointSet, UndoAnswered, ReleaseAnswered, ProbeAnswered, EndAnswered, Forget,
       Acquire, Interrupt, CancelSent, WorkAnswered, Cancel, Answered, Return, Send,
       StageInv, FirstStages, Stages
<1>3. Told(c) = "none" /\ \A d \in Calls \ {c} : Told(d)' = Told(d)
  BY <1>1 DEF Told
<1>4. UNCHANGED [t \in Tx |-> Status(t)]
  BY <1>1 DEF Status
<1>5. CASE pc'[c] = "done"
  <2>1. Told(c)' = result'[c]
    BY <1>5 DEF Told
  <2>2. PICK r \in {"ok", "err"} : result'[c] = r
    BY <1>5, <1>2
  <2>3. Atomic!Tell(c, r)
    BY <1>1, <1>3, <1>4, <2>1, <2>2, SetTold DEF Atomic!Tell
  <2> QED
    BY <2>3
<1>6. CASE pc'[c] # "done"
  <2>1. Told(c)' = Told(c)
    BY <1>6, <1>3 DEF Told
  <2> QED
    BY <2>1, <1>1, <1>3, <1>4 DEF Atomic!vars
<1> QED
  BY <1>5, <1>6

-----------------------------------------------------------------------------
(* The steps of the server. *)

LEMMA ServerStutters ==
  ASSUME IInv, NEW c \in Calls,
         ServerRefuses(c) \/ ServerAgrees(c) \/ ServerMatchesNothing(c) \/ ServerFails(c)
  PROVE  UNCHANGED Atomic!vars
<1> USE DEF IInv, TypeOK, Answer, managerVars
<1>1. UNCHANGED <<pc, result, pending, committed, autocommitted>>
  BY DEF ServerRefuses, ServerAgrees, ServerMatchesNothing, ServerFails
<1>2. \A t \in Tx : Status(t)' = Status(t)
  BY SMTT(30) DEF ServerRefuses, ServerAgrees, ServerMatchesNothing, ServerFails,
                  SetStatus, Status
<1>3. UNCHANGED [t \in Tx |-> Status(t)] /\ UNCHANGED [d \in Calls |-> Told(d)]
  BY <1>1, <1>2 DEF Told
<1> QED
  BY <1>1, <1>3 DEF Atomic!vars

\* A change joins the open transaction, or takes effect after its end.
LEMMA ServerChangesRefines ==
  ASSUME IInv, NEW c \in Calls, ServerChanges(c)
  PROVE  Atomic!Apply(target[c], c) \/ Atomic!ApplyOutside(target[c], c)
  BY SMTT(30), NoTxIsNoTx DEF IInv, TypeOK, ServerChanges, Executing, Answer, Atomic!Apply,
     Atomic!ApplyOutside, managerVars, StageInv, Holding, Status, Told

LEMMA ServerUndoesRefines ==
  ASSUME IInv, NEW c \in Calls, ServerUndoes(c)
  PROVE  Atomic!Undo(target[c], c)
  BY SMTT(30), NoTxIsNoTx DEF IInv, TypeOK, ServerUndoes, SetStatus, Executing, Answer,
     Atomic!Undo, managerVars, StageInv, Holding, Status, Told

\* COMMIT of an open transaction commits, every other end aborts, and the end
\* of a transaction that has ended already changes nothing.
LEMMA ServerEndsRefines ==
  ASSUME IInv, NEW c \in Calls, ServerEnds(c)
  PROVE  Atomic!Abort(target[c]) \/ Atomic!Commit(target[c]) \/ UNCHANGED Atomic!vars
  BY SMTT(30), NoTxIsNoTx DEF IInv, TypeOK, ServerEnds, SetStatus, Executing, Answer,
     Atomic!Abort, Atomic!Commit, Atomic!End, Atomic!vars, managerVars, OpenInv, PendingInv,
     CommitInv, StageInv, Holding, Status, Told

LEMMA ServerRejectsCommitRefines ==
  ASSUME IInv, NEW c \in Calls, ServerRejectsCommit(c)
  PROVE  Atomic!Abort(target[c])
  BY SMTT(30), NoTxIsNoTx DEF IInv, TypeOK, ServerRejectsCommit, SetStatus, Executing, Answer,
     Atomic!Abort, Atomic!End, managerVars, StageInv, Holding, Status, Told

-----------------------------------------------------------------------------
(* The refinement. *)

LEMMA AtomicStep == IInv /\ [Next]_vars => [Atomic!Next]_(Atomic!vars)
<1> SUFFICES ASSUME IInv, [Next]_vars PROVE [Atomic!Next]_(Atomic!vars)
  OBVIOUS
<1>1. CASE UNCHANGED vars
  BY <1>1 DEF vars, managerVars, callVars, serverVars, Atomic!vars, Status, Told
<1>2. ASSUME NEW s \in Tx,
             \/ Opening(s) \/ BeginFails(s) \/ BeginRequest(s)
             \/ CancelArrives(s) \/ LoseConnection(s) \/ DropSession(s)
      PROVE  [Atomic!Next]_(Atomic!vars)
  BY <1>2, SendBeginRefines, BeginFailsRefines, CloseRefines, SessionStutters
     DEF Opening, Atomic!Next
<1>3. ASSUME NEW c \in Calls, Acquire(c) \/ Working(c) \/ Cancel(c)
      PROVE  [Atomic!Next]_(Atomic!vars)
  BY <1>3, CallRefines DEF Atomic!Next
<1>4. ASSUME NEW c \in Calls, Serving(c)
      PROVE  [Atomic!Next]_(Atomic!vars)
  <2>1. target[c] \in Tx
    BY <1>4, NoTxIsNoTx DEF Serving, ServerRefuses, ServerAgrees, ServerMatchesNothing,
       ServerChanges, ServerFails, ServerUndoes, ServerEnds, ServerRejectsCommit, Executing,
       IInv, TypeOK
  <2> QED
    BY <1>4, <2>1, ServerStutters, ServerChangesRefines, ServerUndoesRefines,
       ServerEndsRefines, ServerRejectsCommitRefines
       DEF Serving, Atomic!Next
<1>5. ASSUME NEW c \in Calls, NEW k \in Kinds, NEW s \in Tx, Invoke(c, k, s)
      PROVE  [Atomic!Next]_(Atomic!vars)
  BY <1>5, InvokeRefines
<1> QED
  BY <1>1, <1>2, <1>3, <1>4, <1>5 DEF Next, System, Requests

\* The backend's transactions are atomic: only a COMMIT of changes that were
\* all reported as successful makes them durable, all at once.
THEOREM Implements == Spec => Atomicity
  BY AtomicInit, AtomicStep, Invariance, PTL DEF Spec, Atomicity, Atomic!Spec
-----------------------------------------------------------------------------
(* What the callers may rely on while the backend and the server work. *)

\* A call keeps its command and its session; a session is never opened twice;
\* an entry is inserted by the begin of its session and removed by an end that
\* reports success; a call gets past the map only while the entry is there.
Frame ==
  /\ UNCHANGED <<kind, target>>
  /\ \A s \in Tx :
       /\ begin'[s] = "none" <=> begin[s] = "none"
       /\ begin[s] \in {"ok", "err"} => begin'[s] = begin[s]
       /\ s \in registered' /\ s \notin registered => begin[s] = "begun" /\ begin'[s] = "ok"
       /\ s \in registered /\ s \notin registered' =>
            \E c \in Calls : pc[c] = "forget" /\ pc'[c] = "done" /\ result'[c] = "ok"
                               /\ target[c] = s
       /\ begin'[s] = "ok" /\ begin[s] # "ok" => s \in registered'
  /\ \A c \in Calls :
       /\ pc'[c] = "new" <=> pc[c] = "new"
       /\ pc[c] = "done" => pc'[c] = "done"
       /\ pc[c] \in {"new", "done"} => result'[c] = result[c]
       /\ pc'[c] = "entry" => pc[c] = "entry"
       /\ pc[c] = "entry" /\ pc'[c] \notin {"entry", "done"} => target[c] \in registered
       /\ pc[c] = "forget" => pc'[c] = "forget"
            \/ (pc'[c] = "done" /\ result'[c] = "ok" /\ target[c] \notin registered')
       /\ pc[c] # "done" /\ pc'[c] = "done" =>
            \/ result'[c] = "err"
            \/ /\ pc[c] # "entry"
               /\ kind[c] \in {"commit", "rollback"} => pc[c] = "forget"

LEMMA SystemFrame == IInv /\ System => Frame
<1> SUFFICES ASSUME IInv, System PROVE Frame
  OBVIOUS
<1> USE NoTxIsNoTx, NoCallIsNoCall DEF IInv, TypeOK, Frame
<1>1. ASSUME NEW s \in Tx, Opening(s) \/ BeginFails(s) PROVE Frame
  BY <1>1, SMTT(60) DEF Opening, Connect, SendBegin, InsertEntry, BeginFails, callVars
<1>2. ASSUME NEW s \in Tx, CancelArrives(s) \/ LoseConnection(s) \/ DropSession(s)
      PROVE  Frame
  BY <1>2, SMTT(60) DEF CancelArrives, LoseConnection, DropSession, managerVars, callVars
<1>3. ASSUME NEW c \in Calls, Acquire(c) \/ LookUp(c) \/ Refuse(c) PROVE Frame
  BY <1>3, SMTT(60) DEF Acquire, Send, FirstStages, LookUp, Refuse, Return, managerVars,
     Executes
<1>4. ASSUME NEW c \in Calls,
             \/ ExecReturns(c) \/ Interrupt(c) \/ CancelSent(c) \/ InterruptedReturns(c)
      PROVE  Frame
  BY <1>4, SMTT(60) DEF ExecReturns, Interrupt, CancelSent, InterruptedReturns, Return,
     Unlock, managerVars, StageInv, Executes
<1>5. ASSUME NEW c \in Calls,
             \/ ColumnsAnswered(c) \/ SavepointSet(c) \/ WorkAnswered(c)
             \/ UndoAnswered(c) \/ ReleaseAnswered(c)
      PROVE  Frame
  BY <1>5, SMTT(60) DEF ColumnsAnswered, SavepointSet, WorkAnswered, UndoAnswered,
     ReleaseAnswered, Answered, Return, Send, managerVars, StageInv, Savepoints
<1>6. ASSUME NEW c \in Calls, ProbeAnswered(c) \/ EndAnswered(c) \/ Forget(c) PROVE Frame
  BY <1>6, SMTT(60) DEF ProbeAnswered, EndAnswered, Forget, Answered, Return, Send,
     managerVars, StageInv
<1>7. ASSUME NEW c \in Calls, Serving(c) PROVE Frame
  BY <1>7, SMTT(60) DEF Serving, ServerRefuses, ServerAgrees, ServerMatchesNothing,
     ServerChanges, ServerFails, ServerUndoes, ServerEnds, ServerRejectsCommit, Answer,
     managerVars
<1> QED
  BY <1>1, <1>2, <1>3, <1>4, <1>5, <1>6, <1>7 DEF System, Working

-----------------------------------------------------------------------------
(* A COMMIT is sent only after the probe found the block in order. *)

\* Nothing aborts the block between the answer of the probe and the COMMIT: the
\* session is held, and not interrupted.
ProbeInv ==
  \A c \in Calls :
    (pc[c] = "probe" /\ stmt[c] = "ok") \/ (pc[c] = "commit" /\ stmt[c] = "sent")
      => server[target[c]] # "failed"

LEMMA ProbeInvInit == Init => ProbeInv
  BY DEF Init, ProbeInv

LEMMA ProbeInvStep == IInv /\ ProbeInv /\ [Next]_vars => ProbeInv'
<1> SUFFICES ASSUME IInv, ProbeInv, [Next]_vars PROVE ProbeInv'
  OBVIOUS
<1> USE NoTxIsNoTx, NoCallIsNoCall DEF IInv, TypeOK, ProbeInv
<1>1. CASE UNCHANGED vars
  BY <1>1 DEF vars, managerVars, callVars, serverVars
<1>2. ASSUME NEW s \in Tx, Opening(s) \/ BeginFails(s) \/ BeginRequest(s) PROVE ProbeInv'
  BY <1>2, SMTT(60) DEF Opening, Connect, SendBegin, InsertEntry, BeginFails,
     BeginRequest, callVars, serverVars
<1>3. ASSUME NEW s \in Tx, CancelArrives(s) PROVE ProbeInv'
  BY <1>3, SMTT(60) DEF CancelArrives, SetStatus, Executing, managerVars, InterruptInv,
     Holding
<1>4. ASSUME NEW s \in Tx, LoseConnection(s) PROVE ProbeInv'
  BY <1>4, SMTT(60) DEF LoseConnection, SetStatus, managerVars
<1>5. ASSUME NEW s \in Tx, DropSession(s) PROVE ProbeInv'
  BY <1>5, SMTT(60) DEF DropSession, SetStatus, managerVars, callVars
<1>6. ASSUME NEW c \in Calls, Acquire(c) \/ Cancel(c) PROVE ProbeInv'
  BY <1>6, SMTT(60) DEF Acquire, Cancel, Send, FirstStages, MayUse, managerVars, serverVars
<1>7. ASSUME NEW c \in Calls,
             \/ LookUp(c) \/ Refuse(c) \/ ExecReturns(c) \/ Interrupt(c)
             \/ CancelSent(c) \/ InterruptedReturns(c)
      PROVE  ProbeInv'
  BY <1>7, SMTT(60) DEF LookUp, Refuse, ExecReturns, Interrupt, CancelSent,
     InterruptedReturns, Return, managerVars, serverVars
<1>8. ASSUME NEW c \in Calls,
             \/ ColumnsAnswered(c) \/ SavepointSet(c) \/ WorkAnswered(c)
             \/ UndoAnswered(c) \/ ReleaseAnswered(c)
      PROVE  ProbeInv'
  BY <1>8, SMTT(60) DEF ColumnsAnswered, SavepointSet, WorkAnswered, UndoAnswered,
     ReleaseAnswered, Answered, Return, Send, managerVars, serverVars
<1>9. ASSUME NEW c \in Calls, ProbeAnswered(c) \/ EndAnswered(c) \/ Forget(c) PROVE ProbeInv'
  BY <1>9, SMTT(60) DEF ProbeAnswered, EndAnswered, Forget, Answered, Return, Send,
     managerVars, serverVars
<1>10. ASSUME NEW c \in Calls, Serving(c) PROVE ProbeInv'
  <2>1. CASE ServerRefuses(c) \/ ServerAgrees(c) \/ ServerMatchesNothing(c)
             \/ ServerChanges(c) \/ ServerEnds(c) \/ ServerRejectsCommit(c)
             \/ ServerUndoes(c)
    BY <2>1, SMTT(60) DEF ServerRefuses, ServerAgrees, ServerMatchesNothing, ServerChanges,
       ServerEnds, ServerRejectsCommit, ServerUndoes, Answer, SetStatus, Executing, Asks,
       managerVars, StageInv, Executes
  <2>2. CASE ServerFails(c)
    BY <2>2, SMTT(60) DEF ServerFails, Answer, SetStatus, Executing, Asks, managerVars,
       StageInv, LockInv, InterruptInv, Holding, GaveUp
  <2> QED
    BY <1>10, <2>1, <2>2 DEF Serving
<1>11. ASSUME NEW c \in Calls, NEW k \in Kinds, NEW s \in Tx, Invoke(c, k, s)
      PROVE  ProbeInv'
  BY <1>11, SMTT(60) DEF Invoke, managerVars, serverVars
<1> QED
  BY <1>1, <1>2, <1>3, <1>4, <1>5, <1>6, <1>7, <1>8, <1>9, <1>10, <1>11
     DEF Next, System, Requests, Working

\* No COMMIT is outstanding on an aborted block, where the server would answer
\* it without an error although it rolls back (the SELECT 1 before COMMIT).
THEOREM CommitsAreProbed == Spec => []ProbeInv
  BY Invariance, ProbeInvInit, ProbeInvStep, PTL DEF Spec

-----------------------------------------------------------------------------
(* Why a rollback fails. *)

\* Only an interrupted statement marks a session.
MarkInv ==
  \A s \in Tx : interrupted[s] => \E c \in Calls : target[c] = s /\ kind[c] \in Executes

\* A rollback fails when the transaction is gone, or when the cancel request of
\* a statement that was interrupted before hits it.
UndoneInv ==
  \A c \in Calls :
    /\ kind[c] = "rollback"
    /\ (pc[c] = "rollback" /\ stmt[c] = "err") \/ (pc[c] = "done" /\ result[c] = "err")
    => server[target[c]] = "closed" \/ target[c] \notin registered \/ interrupted[target[c]]

RollbackInv == MarkInv /\ UndoneInv

LEMMA RollbackInvInit == Init => RollbackInv
  BY DEF Init, RollbackInv, MarkInv, UndoneInv

LEMMA MarkInvStep == IInv /\ MarkInv /\ [Next]_vars => MarkInv'
<1> SUFFICES ASSUME IInv, MarkInv, [Next]_vars PROVE MarkInv'
  OBVIOUS
<1> USE NoTxIsNoTx, NoCallIsNoCall DEF IInv, TypeOK
<1>1. ASSUME UNCHANGED <<interrupted, kind, target>> PROVE MarkInv'
  BY <1>1 DEF MarkInv
<1>2. ASSUME NEW c \in Calls, Interrupt(c) PROVE MarkInv'
  BY <1>2 DEF Interrupt, MarkInv, StageInv
<1>3. ASSUME NEW c \in Calls, NEW k \in Kinds, NEW s \in Tx, Invoke(c, k, s)
      PROVE  MarkInv'
  BY <1>3 DEF Invoke, managerVars, MarkInv
<1>4. ASSUME NEW s \in Tx,
             \/ Opening(s) \/ BeginFails(s) \/ BeginRequest(s)
             \/ CancelArrives(s) \/ LoseConnection(s) \/ DropSession(s)
      PROVE  UNCHANGED <<interrupted, kind, target>>
  BY <1>4 DEF Opening, Connect, SendBegin, InsertEntry, BeginFails, BeginRequest, CancelArrives,
     LoseConnection, DropSession, managerVars, callVars
<1>5. ASSUME NEW c \in Calls, Acquire(c) \/ Cancel(c) \/ (Working(c) /\ ~Interrupt(c))
      PROVE  UNCHANGED <<interrupted, kind, target>>
  BY <1>5 DEF Acquire, Cancel, Working, LookUp, Refuse, ExecReturns, CancelSent,
     InterruptedReturns,
     ColumnsAnswered, SavepointSet, WorkAnswered, UndoAnswered, ReleaseAnswered,
     ProbeAnswered, EndAnswered, Forget, Return, Send, managerVars
<1>6. ASSUME NEW c \in Calls, Serving(c) PROVE UNCHANGED <<interrupted, kind, target>>
  BY <1>6 DEF Serving, ServerRefuses, ServerAgrees, ServerMatchesNothing, ServerChanges,
     ServerFails, ServerUndoes, ServerEnds, ServerRejectsCommit, Answer, managerVars
<1> QED
  BY <1>1, <1>2, <1>3, <1>4, <1>5, <1>6
     DEF Next, System, Requests, Working, vars, managerVars, callVars

LEMMA UndoneInvStep == IInv /\ UndoneInv /\ [Next]_vars => UndoneInv'
<1> SUFFICES ASSUME IInv, UndoneInv, [Next]_vars PROVE UndoneInv'
  OBVIOUS
<1> USE NoTxIsNoTx, NoCallIsNoCall DEF IInv, TypeOK, UndoneInv, StageInv, Executes, Savepoints
<1>1. CASE UNCHANGED vars
  BY <1>1 DEF vars, managerVars, callVars, serverVars
<1>2. ASSUME NEW s \in Tx, Opening(s) \/ BeginFails(s) \/ BeginRequest(s) PROVE UndoneInv'
  BY <1>2, SMTT(60) DEF Opening, Connect, SendBegin, InsertEntry, BeginFails,
     BeginRequest, callVars, serverVars
<1>3. ASSUME NEW s \in Tx, CancelArrives(s) PROVE UndoneInv'
  BY <1>3, SMTT(60) DEF CancelArrives, SetStatus, Executing, managerVars, InterruptInv,
     Holding
<1>4. ASSUME NEW s \in Tx, LoseConnection(s) PROVE UndoneInv'
  BY <1>4, SMTT(60) DEF LoseConnection, SetStatus, managerVars, LockInv, Holding
<1>5. ASSUME NEW s \in Tx, DropSession(s) PROVE UndoneInv'
  BY <1>5, SMTT(60) DEF DropSession, SetStatus, managerVars, callVars
<1>6. ASSUME NEW c \in Calls, Acquire(c) \/ Cancel(c) PROVE UndoneInv'
  BY <1>6, SMTT(60) DEF Acquire, Cancel, Send, FirstStages, MayUse, managerVars, serverVars
<1>7. ASSUME NEW c \in Calls,
             \/ LookUp(c) \/ Refuse(c) \/ ExecReturns(c) \/ Interrupt(c)
             \/ CancelSent(c) \/ InterruptedReturns(c)
      PROVE  UndoneInv'
  BY <1>7, SMTT(60) DEF LookUp, Refuse, ExecReturns, Interrupt, CancelSent,
     InterruptedReturns, Return, MayUse, managerVars, serverVars
<1>8. ASSUME NEW c \in Calls,
             \/ ColumnsAnswered(c) \/ SavepointSet(c) \/ WorkAnswered(c)
             \/ UndoAnswered(c) \/ ReleaseAnswered(c)
      PROVE  UndoneInv'
  BY <1>8, SMTT(60) DEF ColumnsAnswered, SavepointSet, WorkAnswered, UndoAnswered,
     ReleaseAnswered, Answered, Return, Send, managerVars, serverVars
<1>9. ASSUME NEW c \in Calls, ProbeAnswered(c) \/ EndAnswered(c) \/ Forget(c) PROVE UndoneInv'
  BY <1>9, SMTT(60) DEF ProbeAnswered, EndAnswered, Forget, Answered, Return, Send,
     managerVars, serverVars
<1>10. ASSUME NEW c \in Calls, Serving(c) PROVE UndoneInv'
  <2>1. CASE ServerRefuses(c) \/ ServerAgrees(c) \/ ServerMatchesNothing(c)
             \/ ServerChanges(c) \/ ServerEnds(c) \/ ServerRejectsCommit(c)
             \/ ServerUndoes(c)
    BY <2>1, SMTT(60) DEF ServerRefuses, ServerAgrees, ServerMatchesNothing, ServerChanges,
       ServerEnds, ServerRejectsCommit, ServerUndoes, Answer, SetStatus, Executing, Asks,
       managerVars
  <2>2. CASE ServerFails(c)
    BY <2>2, SMTT(60) DEF ServerFails, Answer, SetStatus, Executing, Asks, managerVars,
       LockInv, InterruptInv, Holding, GaveUp
  <2> QED
    BY <1>10, <2>1, <2>2 DEF Serving
<1>11. ASSUME NEW c \in Calls, NEW k \in Kinds, NEW s \in Tx, Invoke(c, k, s)
      PROVE  UndoneInv'
  BY <1>11, SMTT(60) DEF Invoke, managerVars, serverVars
<1> QED
  BY <1>1, <1>2, <1>3, <1>4, <1>5, <1>6, <1>7, <1>8, <1>9, <1>10, <1>11
     DEF Next, System, Requests, Working

\* A ROLLBACK that fails leaves no transaction open, unless a statement of the
\* session was interrupted before (execution::postgres, InterruptedReturns).
THEOREM RollbacksEnd == Spec => []RollbackInv
<1>1. IInv /\ RollbackInv /\ [Next]_vars => RollbackInv'
  BY MarkInvStep, UndoneInvStep DEF RollbackInv
<1> QED
  BY <1>1, Invariance, RollbackInvInit, PTL DEF Spec

-----------------------------------------------------------------------------
(* What a step of the backend and the server does to the changes. *)

\* The end is done on the server, and nothing but a broken connection keeps its
\* call from reporting it.
Success(c) ==
  \/ pc[c] \in {"commit", "rollback"} /\ stmt[c] = "ok"
  \/ pc[c] = "forget"
  \/ pc[c] = "done" /\ result[c] = "ok"

\* The server answered the COMMIT with an error.
Rejected(c) == pc[c] = "commit" /\ stmt[c] = "err"

\* The change was made, and its call will report it or has done so.
Did(c) ==
  \/ pc[c] \in {"exec", "work"} /\ stmt[c] = "ok"
  \/ pc[c] \in {"release", "done"} /\ result[c] = "ok"

IsEnd(c) == kind[c] \in {"commit", "rollback"}

\* An end that succeeds ends the whole block, with everything in it, after
\* every statement a call gave up on; only a broken connection hides it.
EndEffects ==
  \A c \in Calls : IsEnd(c) =>
    /\ Success(c) => Success(c)' \/ server'[target[c]] = "closed"
    /\ Rejected(c) => \/ Rejected(c)' \/ server'[target[c]] = "closed"
                      \/ pc'[c] = "done" /\ result'[c] = "err"
    /\ ~(Success(c) \/ Rejected(c)) /\ (Success(c) \/ Rejected(c))' =>
         \A d \in Calls : target[d] = target[c] /\ pc[d] = "done" => stmt'[d] # "sent"
    /\ ~Success(c) /\ Success(c)' =>
         /\ pc[c] = kind[c] /\ stmt[c] = "sent"
         /\ server[target[c]] \in {"idle", "open", "failed"}
         /\ pending'[target[c]] = {} /\ autocommitted' = autocommitted
         /\ pc[c] = "commit" /\ server[target[c]] = "open" =>
              pending[target[c]] \subseteq committed'

\* A session leaves its block, and loses its changes, by an end only.
SessionEffects ==
  \A s \in Tx :
    /\ begin[s] = "ok" /\ server[s] = "closed" => server'[s] = "closed"
    /\ begin'[s] = "ok" /\ server'[s] = "idle" =>
         \/ begin[s] = "ok" /\ server[s] = "idle"
         \/ \E c \in Calls : target[c] = s
              /\ (kind[c] = "end" \/ (IsEnd(c) /\ (Success(c) \/ Rejected(c))'))
    /\ \A c \in pending[s] : c \notin pending'[s] =>
         \/ c \in committed' \/ server'[s] = "closed" \/ pc[c] = "undo"
         \/ \E e \in Calls : target[e] = s
              /\ \/ kind[e] = "end" \/ (IsEnd(e) /\ Rejected(e)')
                 \/ kind[e] = "rollback" /\ Success(e)'

ChangeEffects ==
  /\ committed \subseteq committed'
  /\ autocommitted \subseteq autocommitted'
  /\ \A c \in committed' : c \notin committed =>
       \E e \in Calls : target[e] = target[c]
          /\ (kind[e] = "end" \/ (kind[e] = "commit" /\ Success(e)'))
  /\ \A c \in autocommitted' : c \notin autocommitted =>
       /\ kind[c] \in Changes /\ stmt[c] = "sent"
       /\ target[c] \in Tx /\ begin[target[c]] = "ok" /\ server[target[c]] = "idle"
  /\ \A c \in Calls :
       /\ kind[c] \in Changes /\ Did(c)' /\ ~Did(c) =>
            c \in pending'[target[c]] \cup autocommitted'
       /\ stmt'[c] = "sent" /\ stmt[c] # "sent" => pc[c] \notin {"new", "entry", "done"}

LEMMA SystemEffects ==
  IInv /\ ProbeInv /\ System => EndEffects /\ SessionEffects /\ ChangeEffects
<1> DEFINE Effects == EndEffects /\ SessionEffects /\ ChangeEffects
<1> SUFFICES ASSUME IInv, ProbeInv, System PROVE Effects
  OBVIOUS
<1> USE NoTxIsNoTx, NoCallIsNoCall
        DEF IInv, TypeOK, ProbeInv, StageInv, GaveUp, Executes, Savepoints, Changes,
            EndEffects, SessionEffects, ChangeEffects, Success, Rejected, Did, IsEnd
<1>1. ASSUME NEW s \in Tx, Opening(s) \/ BeginFails(s) PROVE Effects
  BY <1>1, SMTT(60) DEF Opening, Connect, SendBegin, InsertEntry, BeginFails, callVars,
     serverVars, OpenInv
<1>2. ASSUME NEW s \in Tx, CancelArrives(s) PROVE Effects
  BY <1>2, SMTT(60) DEF CancelArrives, SetStatus, Executing, managerVars, InterruptInv, Holding
<1>3. ASSUME NEW s \in Tx, LoseConnection(s) \/ DropSession(s) PROVE Effects
  <2>1. CASE LoseConnection(s)
    <3> USE <2>1 DEF LoseConnection, SetStatus, managerVars
    <3>1. EndEffects
      BY SMTT(60) DEF LockInv, Holding
    <3>2. SessionEffects
      BY SMTT(60)
    <3>3. ChangeEffects
      BY SMTT(60) DEF LockInv, Holding
    <3> QED
      BY <3>1, <3>2, <3>3
  <2>2. CASE DropSession(s)
    BY <2>2, SMTT(60) DEF DropSession, SetStatus, managerVars, callVars
  <2> QED
    BY <1>3, <2>1, <2>2
<1>4. ASSUME NEW c \in Calls, Acquire(c) \/ LookUp(c) \/ Refuse(c) PROVE Effects
  BY <1>4, SMTT(60) DEF Acquire, Send, FirstStages, MayUse, LookUp, Refuse, Return, managerVars,
     serverVars
<1>5. ASSUME NEW c \in Calls, ExecReturns(c) \/ Interrupt(c) \/ CancelSent(c) \/ InterruptedReturns(c)
      PROVE  Effects
  BY <1>5, SMTT(60) DEF ExecReturns, Interrupt, CancelSent, InterruptedReturns, Return,
     managerVars,
     serverVars
<1>6. ASSUME NEW c \in Calls,
             ColumnsAnswered(c) \/ SavepointSet(c) \/ WorkAnswered(c)
             \/ UndoAnswered(c) \/ ReleaseAnswered(c)
      PROVE  Effects
  BY <1>6, SMTT(60) DEF ColumnsAnswered, SavepointSet, WorkAnswered, UndoAnswered,
     ReleaseAnswered,
     Answered, Return, Send, managerVars, serverVars
<1>7. ASSUME NEW c \in Calls, ProbeAnswered(c) \/ EndAnswered(c) \/ Forget(c) PROVE Effects
  BY <1>7, SMTT(60) DEF ProbeAnswered, EndAnswered, Forget, Answered, Return, Send, managerVars,
     serverVars
<1>8. ASSUME NEW c \in Calls,
             ServerRefuses(c) \/ ServerAgrees(c) \/ ServerMatchesNothing(c)
             \/ ServerFails(c) \/ ServerUndoes(c)
      PROVE  Effects
  BY <1>8, SMTT(60) DEF ServerRefuses, ServerAgrees, ServerMatchesNothing, ServerFails,
     ServerUndoes,
     SetStatus, Executing, Asks, Answer, managerVars, InterruptInv, Holding
<1>9. ASSUME NEW c \in Calls, ServerChanges(c) PROVE Effects
  <2> USE <1>9 DEF ServerChanges, Executing, Asks, Answer, managerVars
  <2>1. EndEffects
    BY SMTT(60)
  <2>2. SessionEffects
    BY SMTT(60)
  <2>3. ChangeEffects
    BY SMTT(60) DEF Holding
  <2> QED
    BY <2>1, <2>2, <2>3
<1>10. ASSUME NEW c \in Calls, ServerEnds(c) \/ ServerRejectsCommit(c) PROVE Effects
  BY <1>10, SMTT(60) DEF ServerEnds, ServerRejectsCommit, SetStatus, Executing, Asks, Answer,
     managerVars,
     PendingInv
<1> QED
  BY <1>1, <1>2, <1>3, <1>4, <1>5, <1>6, <1>7, <1>8, <1>9, <1>10
     DEF System, Working, Serving

\* A request makes calls and sessions, and touches no other.
RequestFrame ==
  /\ UNCHANGED <<stmt, result, server, pending, committed, autocommitted>>
  /\ \A s \in Tx : begin'[s] = "ok" <=> begin[s] = "ok"
  /\ \A c \in Calls :
       /\ pc[c] # "new" => pc'[c] = pc[c] /\ kind'[c] = kind[c] /\ target'[c] = target[c]
       /\ pc[c] = "new" => pc'[c] \in {"new", "entry"}

LEMMA RequestsFrame == IInv /\ (Requests \/ UNCHANGED vars) => RequestFrame
  BY DEF Requests, BeginRequest, Cancel, Invoke, vars, managerVars, callVars, serverVars,
         IInv, TypeOK, RequestFrame
=============================================================================
