----------------------------- MODULE Pools_proofs -----------------------------
(***************************************************************************)
(* Proofs about the connections of the databases: the pool of a blocking   *)
(* driver (BlockingPool), for every capacity and any number of calls and   *)
(* connections, and the shared connection of the others                    *)
(* (SharedConnection), for any users, connections and number of breaks.    *)
(***************************************************************************)
EXTENDS Components, FiniteSetTheorems, SequenceTheorems, TLAPS

\* Who is in the queue waits, and is there once.
QueueInv ==
  /\ \A i \in 1..Len(queue) : pc[queue[i]] = "waiting"
  /\ \A i, j \in 1..Len(queue) : queue[i] = queue[j] => i = j

\* A call has a connection from its permit until its thread ends, one that did
\* not fail while it is used.
ConnInv ==
  \A c \in Calls :
    /\ pc[c] \in {"out", "waiting"} <=> conn[c] = NoConn
    /\ pc[c] \in {"checking", "working"} => conn[c] \notin failed

PoolInv == TypeOK /\ QueueInv /\ ConnInv /\ PoolIsBounded /\ ExclusiveUse /\ FailedAreClosed

LEMMA HoldersAreFinite == IsFiniteSet(Holders) /\ Cardinality(Holders) \in Nat
  BY CallsAreFinite, FS_Subset, FS_CardinalityType DEF Holders

LEMMA PoolInit == Init => PoolInv
<1> SUFFICES ASSUME Init PROVE PoolInv
  OBVIOUS
<1>1. Holders = {} /\ Cardinality(Holders) = 0
  BY FS_EmptySet DEF Init, Holders, Working
<1> QED
  BY <1>1, CapacityIsPositive, NoConnIsNone
     DEF Init, PoolInv, TypeOK, QueueInv, ConnInv, PoolIsBounded, ExclusiveUse, FailedAreClosed,
         IdleConns

-----------------------------------------------------------------------------
(* Moving a call. *)

\* How the number of holders changes when a call moves.
LEMMA MoveCounts ==
  ASSUME PoolInv, NEW c \in Calls, NEW s, NEW k, Move(c, s, k)
  PROVE  /\ Cardinality(Holders') \in Nat /\ Cardinality(Holders) \in Nat
         /\ c \notin Holders /\ s \in Working => Cardinality(Holders') = Cardinality(Holders) + 1
         /\ c \in Holders /\ s \notin Working => Cardinality(Holders') = Cardinality(Holders) - 1
         /\ (c \in Holders <=> s \in Working) => Cardinality(Holders') = Cardinality(Holders)
<1>1. \A d \in Calls : pc'[d] = IF d = c THEN s ELSE pc[d]
  BY DEF Move, PoolInv, TypeOK
<1>2. Holders' = IF s \in Working THEN Holders \cup {c} ELSE Holders \ {c}
  BY <1>1 DEF Holders
<1> QED
  BY <1>2, HoldersAreFinite, FS_AddElement, FS_RemoveElement, FS_CardinalityType

\* The types of what a move assigns.
LEMMA MoveTypes ==
  ASSUME PoolInv, NEW c \in Calls, NEW s, NEW k, Move(c, s, k),
         s \in Working \cup {"out", "waiting", "closing", "abandoned"},
         k \in Conns \cup {NoConn}
  PROVE  /\ pc' \in [Calls -> Working \cup {"out", "waiting", "closing", "abandoned"}]
         /\ conn' \in [Calls -> Conns \cup {NoConn}]
         /\ pc'[c] = s /\ conn'[c] = k
         /\ \A d \in Calls \ {c} : pc'[d] = pc[d] /\ conn'[d] = conn[d]
  BY DEF Move, PoolInv, TypeOK

-----------------------------------------------------------------------------
(* The sequences. *)

LEMMA PrefixProperties ==
  ASSUME NEW S, NEW seq, NEW n \in Int, \A i \in 1..n : seq[i] \in S
  PROVE  /\ SubSeq(seq, 1, n) \in Seq(S)
         /\ Len(SubSeq(seq, 1, n)) = IF 1 <= n THEN n - 1 + 1 ELSE 0
         /\ \A i \in 1..(n - 1 + 1) : SubSeq(seq, 1, n)[i] = seq[1 + i - 1]
<1>1. 1 \in Int
  OBVIOUS
<1> QED
  BY <1>1, SubSeqProperties

LEMMA RestIsPrefix ==
  ASSUME PoolInv, idle # <<>>
  PROVE  /\ Rest \in Seq(Conns) /\ Len(Rest) = Len(idle) - 1
         /\ \A i \in 1..Len(Rest) : Rest[i] = idle[i]
         /\ Len(idle) \in Nat \ {0} /\ idle[Len(idle)] \in Conns
<1>1. idle \in Seq(Conns) /\ Len(idle) \in Nat \ {0}
  BY EmptySeq, LenProperties DEF PoolInv, TypeOK
<1>2. \A i \in 1..Len(idle) : idle[i] \in Conns
  BY <1>1, ElementOfSeq
<1>3. PICK n \in Int : n = Len(idle) - 1
  BY <1>1
<1>4. /\ SubSeq(idle, 1, n) \in Seq(Conns)
      /\ Len(SubSeq(idle, 1, n)) = IF 1 <= n THEN n - 1 + 1 ELSE 0
      /\ \A i \in 1..(n - 1 + 1) : SubSeq(idle, 1, n)[i] = idle[1 + i - 1]
  <2>1. \A i \in 1..n : idle[i] \in Conns
    BY <1>1, <1>2, <1>3
  <2> QED
    BY <2>1, PrefixProperties
<1>5. Rest = SubSeq(idle, 1, n) /\ Len(Rest) = n /\ n \in Nat
  BY <1>1, <1>3, <1>4 DEF Rest
<1>6. \A i \in 1..n : 1 + i - 1 = i /\ i \in 1..(n - 1 + 1)
  BY <1>5
<1>7. \A i \in 1..Len(Rest) : Rest[i] = idle[i]
  BY <1>4, <1>5, <1>6
<1> QED
  BY <1>1, <1>2, <1>3, <1>4, <1>5, <1>7

LEMMA TailIsRest ==
  ASSUME PoolInv, queue # <<>>
  PROVE  /\ Tail(queue) \in Seq(Calls) /\ Len(Tail(queue)) = Len(queue) - 1
         /\ \A i \in 1..Len(Tail(queue)) : Tail(queue)[i] = queue[i + 1]
         /\ Len(queue) \in Nat \ {0} /\ Head(queue) = queue[1]
<1>1. queue \in Seq(Calls)
  BY DEF PoolInv, TypeOK
<1> QED
  BY <1>1, HeadTailProperties, EmptySeq, LenProperties

-----------------------------------------------------------------------------
(* The actions. *)

LEMMA EnterStep == ASSUME PoolInv, NEW c \in Calls, Enter(c) PROVE PoolInv'
<1>1. /\ pc[c] = "out" /\ Move(c, "waiting", NoConn)
      /\ queue' = Append(queue, c) /\ UNCHANGED <<permits, idle, failed>>
  BY DEF Enter
<1>2. /\ pc' \in [Calls -> Working \cup {"out", "waiting", "closing", "abandoned"}]
      /\ conn' \in [Calls -> Conns \cup {NoConn}]
      /\ pc'[c] = "waiting" /\ conn'[c] = NoConn
      /\ \A d \in Calls \ {c} : pc'[d] = pc[d] /\ conn'[d] = conn[d]
  BY <1>1, MoveTypes
<1>3. Cardinality(Holders') = Cardinality(Holders)
  <2>1. c \notin Holders /\ "waiting" \notin Working
    BY <1>1 DEF Holders, Working
  <2> QED
    BY <1>1, <2>1, MoveCounts
<1>4. /\ queue \in Seq(Calls) /\ queue' \in Seq(Calls) /\ Len(queue') = Len(queue) + 1
      /\ Len(queue) \in Nat /\ queue'[Len(queue) + 1] = c
      /\ \A i \in 1..Len(queue) : queue'[i] = queue[i] /\ queue[i] \in Calls
  BY <1>1, AppendProperties, LenProperties, ElementOfSeq DEF PoolInv, TypeOK
<1>5. TypeOK'
  BY <1>1, <1>2, <1>4 DEF PoolInv, TypeOK
<1>6. QueueInv'
  BY <1>1, <1>2, <1>4 DEF PoolInv, QueueInv
<1>7. ConnInv'
  BY <1>1, <1>2 DEF PoolInv, ConnInv, Working
<1>8. PoolIsBounded'
  BY <1>1, <1>3 DEF PoolInv, PoolIsBounded
<1>9. ExclusiveUse'
  BY <1>1, <1>2, NoConnIsNone DEF PoolInv, ExclusiveUse, IdleConns, TypeOK, ConnInv
<1>10. FailedAreClosed'
  BY <1>1 DEF PoolInv, FailedAreClosed, IdleConns
<1> QED
  BY <1>5, <1>6, <1>7, <1>8, <1>9, <1>10 DEF PoolInv

LEMMA StartStep == ASSUME PoolInv, NEW c \in Calls, Start(c) PROVE PoolInv'
<1>1. /\ queue # <<>> /\ c = Head(queue) /\ permits > 0 /\ permits' = permits - 1
      /\ queue' = Tail(queue) /\ failed' = failed
  BY DEF Start, Available
<1>2. /\ queue' \in Seq(Calls) /\ Len(queue') = Len(queue) - 1
      /\ \A i \in 1..Len(queue') : queue'[i] = queue[i + 1]
      /\ Len(queue) \in Nat \ {0} /\ c = queue[1]
  BY <1>1, TailIsRest
<1>3. pc[c] = "waiting" /\ conn[c] = NoConn
  BY <1>2 DEF PoolInv, QueueInv, ConnInv
<1>4. PICK s \in Working, k \in Conns :
        /\ Move(c, s, k)
        /\ \/ /\ idle = <<>> /\ idle' = idle /\ k \in Closed /\ s = "opening"
           \/ /\ idle # <<>> /\ idle' = Rest /\ k = idle[Len(idle)]
  BY <1>1, RestIsPrefix DEF Start, Closed, Working
<1>5. /\ pc' \in [Calls -> Working \cup {"out", "waiting", "closing", "abandoned"}]
      /\ conn' \in [Calls -> Conns \cup {NoConn}]
      /\ pc'[c] = s /\ conn'[c] = k
      /\ \A d \in Calls \ {c} : pc'[d] = pc[d] /\ conn'[d] = conn[d]
  BY <1>4, MoveTypes
<1>6. /\ Cardinality(Holders') = Cardinality(Holders) + 1
      /\ Cardinality(Holders) \in Nat
  <2>1. c \notin Holders /\ s \in Working
    BY <1>3, <1>4 DEF Holders, Working
  <2> QED
    BY <1>3, <1>4, <2>1, MoveCounts
<1>7. idle \in Seq(Conns) /\ Len(idle) \in Nat /\ DOMAIN idle = 1..Len(idle)
  BY LenProperties DEF PoolInv, TypeOK
<1>8. idle' \in Seq(Conns) /\ Len(idle') \in Nat /\ DOMAIN idle' = 1..Len(idle')
  BY <1>4, <1>7, RestIsPrefix, LenProperties
<1>9. \A i \in 1..Len(idle') : i \in 1..Len(idle) /\ idle'[i] = idle[i]
  <2>1. CASE idle = <<>>
    BY <1>4, <2>1
  <2>2. CASE idle # <<>>
    <3>1. Len(Rest) = Len(idle) - 1 /\ \A i \in 1..Len(Rest) : Rest[i] = idle[i]
      BY <2>2, RestIsPrefix
    <3>2. idle' = Rest
      BY <1>4, <2>2
    <3>3. \A i \in 1..(Len(idle) - 1) : i \in 1..Len(idle)
      BY <1>7
    <3> QED
      BY <3>1, <3>2, <3>3
  <2> QED
    BY <2>1, <2>2
<1>10. k \notin IdleConns' /\ \A d \in Calls : conn[d] # k
  <2>1. CASE idle = <<>>
    BY <1>4, <2>1 DEF Closed, IdleConns
  <2>2. CASE idle # <<>>
    <3>1. Len(idle') = Len(idle) - 1 /\ Len(idle) \in 1..Len(idle) /\ k = idle[Len(idle)]
      BY <1>4, <2>2, RestIsPrefix
    <3>2. \A i \in 1..Len(idle') : idle'[i] # k
      BY <3>1, <1>7, <1>8, <1>9 DEF PoolInv, ExclusiveUse
    <3> QED
      BY <3>1, <3>2, <1>7, <1>8 DEF PoolInv, ExclusiveUse, IdleConns
  <2> QED
    BY <2>1, <2>2
<1>11. k \notin failed \/ s = "opening"
  <2>1. CASE idle # <<>>
    <3>1. Len(idle) \in 1..Len(idle)
      BY <2>1, <1>7, RestIsPrefix
    <3>2. k \in IdleConns
      BY <3>1, <2>1, <1>4, <1>7 DEF IdleConns
    <3> QED
      BY <3>2 DEF PoolInv, FailedAreClosed
  <2> QED
    BY <2>1, <1>4
<1>12. TypeOK'
  BY <1>1, <1>2, <1>5, <1>8 DEF PoolInv, TypeOK
<1>13. QueueInv'
  <2>1. \A i \in 1..Len(queue') :
          /\ i \in 1..Len(queue) /\ i + 1 \in 1..Len(queue) /\ 1 \in 1..Len(queue)
          /\ queue'[i] = queue[i + 1] /\ i + 1 # 1
    BY <1>2
  <2>2. \A i \in 1..Len(queue') : queue'[i] \in Calls \ {c} /\ pc[queue'[i]] = "waiting"
    <3>1. \A i \in 1..Len(queue') : pc[queue'[i]] = "waiting" /\ queue'[i] # queue[1]
      BY <2>1 DEF PoolInv, QueueInv
    <3>2. \A i \in 1..Len(queue') : queue[i + 1] \in Calls
      BY <2>1, ElementOfSeq DEF PoolInv, TypeOK
    <3> QED
      BY <1>2, <2>1, <3>1, <3>2
  <2>3. \A i, j \in 1..Len(queue') : queue'[i] = queue'[j] => i = j
    BY <2>1 DEF PoolInv, QueueInv
  <2> QED
    BY <1>5, <2>2, <2>3 DEF QueueInv
<1>14. ConnInv'
  BY <1>1, <1>4, <1>5, <1>11, NoConnIsNone DEF PoolInv, ConnInv, Working
<1>15. Len(idle') + Cardinality(Holders') <= Capacity
  <2>1. CASE idle = <<>>
    <3>1. Len(idle') = 0
      BY <2>1, <1>4, EmptySeq
    <3> QED
      BY <3>1, <1>1, <1>6, CapacityIsPositive DEF PoolInv, PoolIsBounded, TypeOK
  <2>2. CASE idle # <<>>
    BY <2>2, <1>4, <1>6, <1>7, RestIsPrefix, CapacityIsPositive DEF PoolInv, PoolIsBounded
  <2> QED
    BY <2>1, <2>2
<1>16. PoolIsBounded'
  BY <1>1, <1>6, <1>15 DEF PoolInv, PoolIsBounded, TypeOK
<1>17. ExclusiveUse'
  BY <1>5, <1>7, <1>8, <1>9, <1>10, NoConnIsNone DEF PoolInv, ExclusiveUse, IdleConns
<1>18. FailedAreClosed'
  BY <1>1, <1>7, <1>8, <1>9 DEF PoolInv, FailedAreClosed, IdleConns
<1> QED
  BY <1>12, <1>13, <1>14, <1>16, <1>17, <1>18 DEF PoolInv

\* What the steps of a call share that leave the queue alone: neither the state
\* before nor the one after is "waiting".
LEMMA QueueIsKept ==
  ASSUME PoolInv, NEW c \in Calls, NEW s, NEW k, Move(c, s, k), pc[c] # "waiting",
         UNCHANGED queue
  PROVE  QueueInv'
<1>1. \A i \in 1..Len(queue) : queue[i] \in Calls /\ queue[i] # c
  BY ElementOfSeq DEF PoolInv, TypeOK, QueueInv
<1> QED
  BY <1>1 DEF PoolInv, TypeOK, QueueInv, Move

LEMMA CheckedStep == ASSUME PoolInv, NEW c \in Calls, Checked(c) PROVE PoolInv'
<1>1. pc[c] = "checking" /\ UNCHANGED <<permits, queue, idle>> /\ conn[c] # NoConn
      /\ conn[c] \in Conns
  BY DEF Checked, PoolInv, ConnInv, TypeOK
<1>2. PICK s \in {"working", "opening"}, k \in Conns :
        /\ Move(c, s, k)
        /\ \/ s = "working" /\ k = conn[c] /\ failed' = failed
           \/ s = "opening" /\ k \in Closed /\ failed' = failed \cup {conn[c]}
  BY <1>1 DEF Checked, Closed
<1>3. /\ pc' \in [Calls -> Working \cup {"out", "waiting", "closing", "abandoned"}]
      /\ conn' \in [Calls -> Conns \cup {NoConn}]
      /\ pc'[c] = s /\ conn'[c] = k
      /\ \A d \in Calls \ {c} : pc'[d] = pc[d] /\ conn'[d] = conn[d]
  BY <1>2, MoveTypes DEF Working
<1>4. Cardinality(Holders') = Cardinality(Holders)
  <2>1. c \in Holders /\ s \in Working
    BY <1>1, <1>2 DEF Holders, Working
  <2> QED
    BY <1>1, <1>2, <2>1, MoveCounts
<1>5. TypeOK'
  BY <1>1, <1>2, <1>3 DEF PoolInv, TypeOK
<1>6. QueueInv'
  BY <1>1, <1>2, QueueIsKept
<1>7. \A d \in Calls \ {c} : conn[d] # k /\ conn[d] # conn[c]
  BY <1>1, <1>2 DEF PoolInv, ExclusiveUse, Closed
<1>8. ConnInv'
  BY <1>1, <1>2, <1>3, <1>7, NoConnIsNone DEF PoolInv, ConnInv, Working
<1>9. PoolIsBounded'
  BY <1>1, <1>4 DEF PoolInv, PoolIsBounded
<1>10. k \notin IdleConns
  BY <1>1, <1>2 DEF PoolInv, ExclusiveUse, Closed
<1>11. ExclusiveUse'
  BY <1>1, <1>3, <1>7, <1>10 DEF PoolInv, ExclusiveUse, IdleConns
<1>12. FailedAreClosed'
  BY <1>1, <1>2 DEF PoolInv, FailedAreClosed, ExclusiveUse, IdleConns
<1> QED
  BY <1>5, <1>6, <1>8, <1>9, <1>11, <1>12 DEF PoolInv

LEMMA OpenedStep == ASSUME PoolInv, NEW c \in Calls, Opened(c) PROVE PoolInv'
<1>1. /\ pc[c] = "opening" /\ UNCHANGED <<queue, idle>> /\ failed' = failed \ {conn[c]}
      /\ conn[c] # NoConn /\ conn[c] \in Conns
  BY DEF Opened, PoolInv, ConnInv, TypeOK
<1>2. PICK s \in {"working", "out"}, k \in Conns \cup {NoConn} :
        /\ Move(c, s, k)
        /\ \/ s = "working" /\ k = conn[c] /\ permits' = permits
           \/ s = "out" /\ k = NoConn /\ permits' = permits + 1
  BY <1>1 DEF Opened, ConnectFailed, Leave
<1>3. /\ pc' \in [Calls -> Working \cup {"out", "waiting", "closing", "abandoned"}]
      /\ conn' \in [Calls -> Conns \cup {NoConn}]
      /\ pc'[c] = s /\ conn'[c] = k
      /\ \A d \in Calls \ {c} : pc'[d] = pc[d] /\ conn'[d] = conn[d]
  BY <1>2, MoveTypes DEF Working
<1>4. /\ permits' + Cardinality(Holders') = permits + Cardinality(Holders)
      /\ Cardinality(Holders') <= Cardinality(Holders)
      /\ Cardinality(Holders) \in Nat /\ Cardinality(Holders') \in Nat /\ permits \in Nat
  <2>1. permits \in Nat
    BY DEF PoolInv, TypeOK
  <2>2. c \in Holders /\ (s \in Working <=> s = "working")
    BY <1>1 DEF Holders, Working
  <2>3. CASE s = "working"
    BY <2>1, <2>2, <2>3, <1>2, MoveCounts
  <2>4. CASE s = "out"
    BY <2>1, <2>2, <2>4, <1>2, MoveCounts
  <2> QED
    BY <2>3, <2>4
<1>5. TypeOK'
  BY <1>1, <1>2, <1>3 DEF PoolInv, TypeOK
<1>6. QueueInv'
  BY <1>1, <1>2, QueueIsKept
<1>7. ConnInv'
  BY <1>1, <1>2, <1>3, NoConnIsNone DEF PoolInv, ConnInv, Working
<1>8. PoolIsBounded'
  <2>1. Len(idle) \in Nat
    BY LenProperties DEF PoolInv, TypeOK
  <2> QED
    BY <1>1, <1>4, <2>1, CapacityIsPositive DEF PoolInv, PoolIsBounded
<1>9. ExclusiveUse'
  <2>1. NoConn \notin IdleConns
    BY <1>1, NoConnIsNone, LenProperties DEF PoolInv, TypeOK, IdleConns
  <2>2. \A d \in Calls : conn'[d] = conn[d] \/ conn'[d] = NoConn
    BY <1>2, <1>3
  <2>3. IdleConns' = IdleConns
    BY <1>1 DEF IdleConns
  <2> QED
    BY <1>1, <1>3, <2>1, <2>2, <2>3 DEF PoolInv, ExclusiveUse
<1>10. FailedAreClosed'
  BY <1>1 DEF PoolInv, FailedAreClosed, IdleConns
<1> QED
  BY <1>5, <1>6, <1>7, <1>8, <1>9, <1>10 DEF PoolInv

LEMMA WorkedStep == ASSUME PoolInv, NEW c \in Calls, Worked(c) PROVE PoolInv'
<1>1. /\ pc[c] = "working" /\ Move(c, "out", NoConn) /\ permits' = permits + 1
      /\ queue' = queue /\ conn[c] # NoConn /\ conn[c] \in Conns /\ conn[c] \notin failed
      /\ \/ idle' = Append(idle, conn[c]) /\ failed' = failed
         \/ failed' = failed \cup {conn[c]} /\ idle' = idle
  BY DEF Worked, Leave, PoolInv, ConnInv, TypeOK
<1>2. /\ pc' \in [Calls -> Working \cup {"out", "waiting", "closing", "abandoned"}]
      /\ conn' \in [Calls -> Conns \cup {NoConn}]
      /\ pc'[c] = "out" /\ conn'[c] = NoConn
      /\ \A d \in Calls \ {c} : pc'[d] = pc[d] /\ conn'[d] = conn[d]
  BY <1>1, MoveTypes
<1>3. /\ Cardinality(Holders') = Cardinality(Holders) - 1
      /\ Cardinality(Holders) \in Nat /\ Cardinality(Holders') \in Nat
  <2>1. c \in Holders /\ "out" \notin Working
    BY <1>1 DEF Holders, Working
  <2> QED
    BY <1>1, <2>1, MoveCounts
<1>4. idle \in Seq(Conns) /\ Len(idle) \in Nat /\ DOMAIN idle = 1..Len(idle)
  BY LenProperties DEF PoolInv, TypeOK
<1>5. conn[c] \notin IdleConns /\ NoConn \notin IdleConns
      /\ \A d \in Calls \ {c} : conn[d] # conn[c]
  BY <1>1, <1>4, NoConnIsNone, ElementOfSeq DEF PoolInv, ExclusiveUse, IdleConns
<1>6. QueueInv'
  BY <1>1, QueueIsKept
<1>7. ConnInv'
  BY <1>1, <1>2, <1>5 DEF PoolInv, ConnInv, Working
<1>8. CASE idle' = Append(idle, conn[c]) /\ failed' = failed
  <2>1. /\ idle' \in Seq(Conns) /\ Len(idle') = Len(idle) + 1
        /\ idle'[Len(idle) + 1] = conn[c]
        /\ \A i \in 1..Len(idle) : idle'[i] = idle[i]
    BY <1>1, <1>4, <1>8, AppendProperties
  <2>2. DOMAIN idle' = 1..Len(idle')
    BY <2>1, LenProperties
  <2>3. TypeOK'
    BY <1>1, <1>2, <1>8, <2>1 DEF PoolInv, TypeOK
  <2>4. PoolIsBounded'
    BY <1>1, <1>3, <1>4, <2>1, CapacityIsPositive DEF PoolInv, PoolIsBounded, TypeOK
  <2>5. IdleConns' = IdleConns \cup {conn[c]}
    <3>1. \A i \in 1..Len(idle') : i \in 1..Len(idle) \/ i = Len(idle) + 1
      BY <1>4, <2>1
    <3>2. \A i \in 1..Len(idle) : i \in 1..Len(idle')
      BY <1>4, <2>1
    <3>3. Len(idle) + 1 \in 1..Len(idle')
      BY <1>4, <2>1
    <3> QED
      BY <1>4, <2>1, <2>2, <3>1, <3>2, <3>3 DEF IdleConns
  <2>6. ExclusiveUse'
    <3>1. \A i, j \in 1..Len(idle') : idle'[i] = idle'[j] => i = j
      BY <1>4, <1>5, <2>1 DEF PoolInv, ExclusiveUse, IdleConns
    <3> QED
      <4>1. \A d \in Calls : conn'[d] \notin IdleConns'
        BY <1>1, <1>2, <1>5, <2>5, NoConnIsNone DEF PoolInv, ExclusiveUse
      <4>2. \A d, f \in Calls : conn'[d] = conn'[f] /\ conn'[d] # NoConn => d = f
        BY <1>2 DEF PoolInv, ExclusiveUse
      <4> QED
        BY <3>1, <4>1, <4>2, <2>2 DEF ExclusiveUse
  <2>7. FailedAreClosed'
    BY <1>1, <1>8, <2>5 DEF PoolInv, FailedAreClosed
  <2> QED
    BY <1>6, <1>7, <2>3, <2>4, <2>6, <2>7 DEF PoolInv
<1>9. CASE failed' = failed \cup {conn[c]} /\ idle' = idle
  <2>1. TypeOK'
    BY <1>1, <1>2, <1>9 DEF PoolInv, TypeOK
  <2>2. PoolIsBounded'
    BY <1>1, <1>3, <1>4, <1>9, CapacityIsPositive DEF PoolInv, PoolIsBounded, TypeOK
  <2>3. IdleConns' = IdleConns
    BY <1>9 DEF IdleConns
  <2>4. ExclusiveUse'
    BY <1>2, <1>5, <1>9, <2>3 DEF PoolInv, ExclusiveUse
  <2>5. FailedAreClosed'
    BY <1>5, <1>9, <2>3 DEF PoolInv, FailedAreClosed
  <2> QED
    BY <1>6, <1>7, <2>1, <2>2, <2>4, <2>5 DEF PoolInv
<1> QED
  BY <1>1, <1>8, <1>9

LEMMA ThreadEndsStep == ASSUME PoolInv, NEW c \in Calls, ThreadEnds(c) PROVE PoolInv'
<1>1. /\ pc[c] \in {"closing", "abandoned"} /\ Move(c, "out", NoConn)
      /\ UNCHANGED <<permits, queue, idle, failed>>
  BY DEF ThreadEnds
<1>2. /\ pc' \in [Calls -> Working \cup {"out", "waiting", "closing", "abandoned"}]
      /\ conn' \in [Calls -> Conns \cup {NoConn}]
      /\ pc'[c] = "out" /\ conn'[c] = NoConn
      /\ \A d \in Calls \ {c} : pc'[d] = pc[d] /\ conn'[d] = conn[d]
  BY <1>1, MoveTypes
<1>3. Cardinality(Holders') = Cardinality(Holders)
  <2>1. c \notin Holders /\ "out" \notin Working
    BY <1>1 DEF Holders, Working
  <2> QED
    BY <1>1, <2>1, MoveCounts
<1>4. QueueInv'
  BY <1>1, QueueIsKept
<1>5. NoConn \notin IdleConns /\ IdleConns' = IdleConns
  BY <1>1, NoConnIsNone, LenProperties, ElementOfSeq DEF PoolInv, TypeOK, IdleConns
<1>6. TypeOK' /\ ConnInv'
  BY <1>1, <1>2 DEF PoolInv, TypeOK, ConnInv, Working
<1>7. PoolIsBounded'
  BY <1>1, <1>3 DEF PoolInv, PoolIsBounded
<1>8. ExclusiveUse' /\ FailedAreClosed'
  BY <1>1, <1>2, <1>5 DEF PoolInv, ExclusiveUse, FailedAreClosed
<1> QED
  BY <1>4, <1>6, <1>7, <1>8 DEF PoolInv

\* A call that leaves the queue takes its entry with it and no other.
LEMMA DropWaits ==
  ASSUME PoolInv, NEW c \in Calls, NEW i \in DOMAIN queue, queue[i] = c,
         queue' = SubSeq(queue, 1, i - 1) \o SubSeq(queue, i + 1, Len(queue))
  PROVE  /\ queue' \in Seq(Calls)
         /\ \A j \in 1..Len(queue') : queue'[j] # c /\ \E k \in 1..Len(queue) : queue'[j] = queue[k]
         /\ \A j, k \in 1..Len(queue') : queue'[j] = queue'[k] => j = k
<1>1. /\ queue \in Seq(Calls) /\ Len(queue) \in Nat /\ DOMAIN queue = 1..Len(queue)
      /\ i \in 1..Len(queue) /\ \A j \in 1..Len(queue) : queue[j] \in Calls
  BY LenProperties, ElementOfSeq DEF PoolInv, TypeOK
<1>2. PICK a \in Nat, b \in Nat, n \in Nat :
        /\ a + 1 <= n /\ b = a + 2 /\ n = Len(queue) /\ i - 1 = a /\ i + 1 = b /\ i = a + 1
  <2>1. PICK l \in Nat : l = Len(queue)
    BY <1>1
  <2>2. PICK j \in 1..l : j = i
    BY <1>1, <2>1
  <2>3. /\ j - 1 \in Nat /\ j + 1 \in Nat /\ (j - 1) + 1 <= l
        /\ j + 1 = (j - 1) + 2 /\ j = (j - 1) + 1
    OBVIOUS
  <2> QED
    BY <2>1, <2>2, <2>3
<1>3. a + 1 <= n /\ b = a + 2
  BY <1>2
<1>4. PICK s, t : s = SubSeq(queue, 1, a) /\ t = SubSeq(queue, b, n) /\ queue' = s \o t
  BY <1>2
<1>5. s \in Seq(Calls) /\ Len(s) = a /\ \A j \in 1..a : s[j] = queue[j]
  <2>1. \A j \in 1..a : queue[j] \in Calls
    BY <1>1, <1>2
  <2>2. /\ s \in Seq(Calls) /\ Len(s) = IF 1 <= a THEN a - 1 + 1 ELSE 0
        /\ \A j \in 1..(a - 1 + 1) : s[j] = queue[1 + j - 1]
    BY <2>1, <1>4, PrefixProperties, SMTT(30)
  <2>3. \A j \in 1..a : 1 + j - 1 = j /\ j \in 1..(a - 1 + 1)
    OBVIOUS
  <2> QED
    BY <2>2, <2>3
<1>6. PICK m \in Nat : a + 1 + m = n
  BY <1>3
<1>7. t \in Seq(Calls) /\ Len(t) = m /\ \A j \in 1..m : t[j] = queue[j + a + 1]
  <2>1. \A j \in b..n : queue[j] \in Calls
    BY <1>1, <1>2
  <2>2. b \in Int /\ n \in Int
    OBVIOUS
  <2>3. /\ t \in Seq(Calls) /\ Len(t) = IF b <= n THEN n - b + 1 ELSE 0
        /\ \A j \in 1..(n - b + 1) : t[j] = queue[b + j - 1]
    BY <2>1, <2>2, <1>4, SubSeqProperties
  <2>4. \A j \in 1..m : b + j - 1 = j + a + 1 /\ j \in 1..(n - b + 1)
    BY <1>3, <1>6
  <2>5. (IF b <= n THEN n - b + 1 ELSE 0) = m
    BY <1>3, <1>6
  <2> QED
    BY <2>3, <2>4, <2>5
<1>8. /\ queue' \in Seq(Calls) /\ Len(queue') = a + m
      /\ \A j \in 1..(a + m) : queue'[j] = IF j <= a THEN s[j] ELSE t[j - a]
  <2>1. /\ s \o t \in Seq(Calls) /\ Len(s \o t) = Len(s) + Len(t)
        /\ \A j \in 1..(Len(s) + Len(t)) :
             (s \o t)[j] = IF j <= Len(s) THEN s[j] ELSE t[j - Len(s)]
    <3>1. s \in Seq(Calls) /\ t \in Seq(Calls)
      BY <1>5, <1>7
    <3> QED
      BY <3>1, ConcatProperties
  <2>2. Len(s) = a /\ Len(t) = m /\ queue' = s \o t
    BY <1>4, <1>5, <1>7
  <2> QED
    BY <2>1, <2>2
<1>9. \A j \in 1..a : queue'[j] = queue[j]
  BY <1>5, <1>8, SMTT(30)
<1>10. \A j \in (a + 1)..(a + m) : queue'[j] = queue[j + 1]
  <2> SUFFICES ASSUME NEW j \in (a + 1)..(a + m) PROVE queue'[j] = queue[j + 1]
    OBVIOUS
  <2>1. PICK k \in 1..m : k = j - a /\ j = k + a /\ j + 1 = k + a + 1
    OBVIOUS
  <2>2. j \in 1..(a + m) /\ ~(j <= a)
    OBVIOUS
  <2> QED
    BY <2>1, <2>2, <1>7, <1>8
<1>11. \A j, k \in 1..n : queue[j] = queue[k] => j = k
  BY <1>2 DEF PoolInv, QueueInv
<1>12. \A j \in 1..(a + m) :
         \E k \in 1..n : queue'[j] = queue[k] /\ k # a + 1 /\ ((k = j /\ j <= a) \/ (k = j + 1 /\ j > a))
  <2> SUFFICES ASSUME NEW j \in 1..(a + m)
               PROVE  \E k \in 1..n :
                        queue'[j] = queue[k] /\ k # a + 1 /\ ((k = j /\ j <= a) \/ (k = j + 1 /\ j > a))
    OBVIOUS
  <2>1. CASE j <= a
    <3>1. j \in 1..n /\ j # a + 1 /\ j \in 1..a
      BY <2>1, <1>3
    <3>2. queue'[j] = queue[j]
      BY <3>1, <1>9
    <3> QED
      BY <3>1, <3>2, <2>1
  <2>2. CASE j > a
    <3>1. j + 1 \in 1..n /\ j + 1 # a + 1 /\ j \in (a + 1)..(a + m)
      BY <2>2, <1>6
    <3> QED
      BY <3>1, <2>2, <1>10
  <2>3. j <= a \/ j > a
    OBVIOUS
  <2> QED
    BY <2>1, <2>2, <2>3
<1>13. \A j \in 1..Len(queue') : queue'[j] # c /\ \E k \in 1..Len(queue) : queue'[j] = queue[k]
  <2>1. a + 1 \in 1..n /\ queue[a + 1] = c
    BY <1>2, <1>3
  <2>2. n = Len(queue) /\ Len(queue') = a + m
    BY <1>2, <1>8
  <2>3. \A j \in 1..(a + m) : \E k \in 1..n : queue'[j] = queue[k] /\ queue[k] # queue[a + 1]
    BY <2>1, <1>11, <1>12
  <2> QED
    BY <2>1, <2>2, <2>3
<1>14. \A j, k \in 1..Len(queue') : queue'[j] = queue'[k] => j = k
  <2> SUFFICES ASSUME NEW j \in 1..(a + m), NEW k \in 1..(a + m), queue'[j] = queue'[k]
               PROVE  j = k
    BY <1>8
  <2>1. PICK x \in 1..n :
          queue'[j] = queue[x] /\ x # a + 1 /\ ((x = j /\ j <= a) \/ (x = j + 1 /\ j > a))
    BY <1>12
  <2>2. PICK y \in 1..n :
          queue'[k] = queue[y] /\ y # a + 1 /\ ((y = k /\ k <= a) \/ (y = k + 1 /\ k > a))
    BY <1>12
  <2>3. x = y
    BY <2>1, <2>2, <1>11
  <2>4. ((x = j /\ j <= a) \/ (x = j + 1 /\ j > a)) /\ ((x = k /\ k <= a) \/ (x = k + 1 /\ k > a))
    BY <2>1, <2>2, <2>3
  <2>5. x # a + 1
    BY <2>1
  <2> QED
    BY <2>4, <2>5
<1> QED
  BY <1>8, <1>13, <1>14

LEMMA DropStep == ASSUME PoolInv, NEW c \in Calls, Drop(c) PROVE PoolInv'
<1>1. idle' = idle /\ failed' = failed /\ IdleConns' = IdleConns /\ NoConn \notin IdleConns
  BY NoConnIsNone, LenProperties, ElementOfSeq DEF Drop, PoolInv, TypeOK, IdleConns
<1>2. CASE pc[c] = "waiting"
  <2>1. /\ Move(c, "out", NoConn) /\ permits' = permits /\ conn[c] = NoConn
        /\ \E i \in DOMAIN queue :
             /\ queue[i] = c
             /\ queue' = SubSeq(queue, 1, i - 1) \o SubSeq(queue, i + 1, Len(queue))
    BY <1>2 DEF Drop, PoolInv, ConnInv, Working
  <2>2. /\ pc' \in [Calls -> Working \cup {"out", "waiting", "closing", "abandoned"}]
        /\ conn' \in [Calls -> Conns \cup {NoConn}]
        /\ pc'[c] = "out" /\ conn'[c] = NoConn
        /\ \A d \in Calls \ {c} : pc'[d] = pc[d] /\ conn'[d] = conn[d]
    BY <2>1, MoveTypes
  <2>3. Cardinality(Holders') = Cardinality(Holders)
    <3>1. c \notin Holders /\ "out" \notin Working
      BY <1>2 DEF Holders, Working
    <3> QED
      BY <2>1, <3>1, MoveCounts
  <2>4. /\ queue' \in Seq(Calls)
        /\ \A j \in 1..Len(queue') : queue'[j] # c /\ \E k \in 1..Len(queue) : queue'[j] = queue[k]
        /\ \A j, k \in 1..Len(queue') : queue'[j] = queue'[k] => j = k
    BY <2>1, DropWaits
  <2>5. QueueInv'
    <3>1. \A k \in 1..Len(queue) : queue[k] \in Calls /\ pc[queue[k]] = "waiting"
      BY ElementOfSeq DEF PoolInv, TypeOK, QueueInv
    <3> QED
      BY <2>2, <2>4, <3>1 DEF QueueInv
  <2>6. TypeOK' /\ ConnInv'
    BY <1>1, <2>1, <2>2, <2>4 DEF PoolInv, TypeOK, ConnInv, Working
  <2>7. PoolIsBounded'
    BY <1>1, <2>1, <2>3 DEF PoolInv, PoolIsBounded
  <2>8. ExclusiveUse' /\ FailedAreClosed'
    BY <1>1, <2>2 DEF PoolInv, ExclusiveUse, FailedAreClosed
  <2> QED
    BY <2>5, <2>6, <2>7, <2>8 DEF PoolInv
<1>3. CASE pc[c] \in Working
  <2>1. PICK s \in {"abandoned", "closing"} : Move(c, s, conn[c])
    BY <1>3 DEF Drop, Working
  <2>2. permits' = permits + 1 /\ queue' = queue /\ conn[c] # NoConn
    BY <1>3 DEF Drop, Working, PoolInv, ConnInv
  <2>3. /\ pc' \in [Calls -> Working \cup {"out", "waiting", "closing", "abandoned"}]
        /\ conn' \in [Calls -> Conns \cup {NoConn}]
        /\ pc'[c] = s /\ conn' = conn
        /\ \A d \in Calls \ {c} : pc'[d] = pc[d]
    <3>1. conn[c] \in Conns \cup {NoConn}
      BY DEF PoolInv, TypeOK
    <3> QED
      BY <2>1, <3>1, MoveTypes DEF Move, PoolInv, TypeOK
  <2>4. /\ Cardinality(Holders') = Cardinality(Holders) - 1
        /\ Cardinality(Holders) \in Nat /\ Cardinality(Holders') \in Nat
    <3>1. c \in Holders /\ s \notin Working
      BY <1>3, <2>1 DEF Holders, Working
    <3> QED
      BY <1>3, <2>1, <3>1, MoveCounts
  <2>5. QueueInv'
    BY <1>3, <2>1, <2>2, QueueIsKept DEF Working
  <2>6. TypeOK'
    BY <1>1, <2>2, <2>3 DEF PoolInv, TypeOK
  <2>7. ConnInv'
    BY <1>1, <2>2, <2>3 DEF PoolInv, ConnInv
  <2>8. PoolIsBounded'
    <3>1. Len(idle) \in Nat
      BY LenProperties DEF PoolInv, TypeOK
    <3> QED
      BY <1>1, <2>2, <2>4, <3>1, CapacityIsPositive DEF PoolInv, PoolIsBounded, TypeOK
  <2>9. ExclusiveUse' /\ FailedAreClosed'
    BY <1>1, <2>3 DEF PoolInv, ExclusiveUse, FailedAreClosed
  <2> QED
    BY <2>5, <2>6, <2>7, <2>8, <2>9 DEF PoolInv
<1> QED
  BY <1>2, <1>3 DEF Drop

LEMMA PoolStep == PoolInv /\ [Next]_vars => PoolInv'
<1> SUFFICES ASSUME PoolInv, [Next]_vars PROVE PoolInv'
  OBVIOUS
<1>1. CASE UNCHANGED vars
  BY <1>1 DEF vars, PoolInv, TypeOK, QueueInv, ConnInv, PoolIsBounded, ExclusiveUse,
              FailedAreClosed, IdleConns, Holders
<1>2. ASSUME NEW c \in Calls,
             Enter(c) \/ Start(c) \/ Answers(c) \/ Drop(c) \/ ThreadEnds(c)
      PROVE  PoolInv'
  BY <1>2, EnterStep, StartStep, CheckedStep, OpenedStep, WorkedStep, DropStep, ThreadEndsStep
     DEF Answers
<1> QED
  BY <1>1, <1>2 DEF Next

-----------------------------------------------------------------------------
(* Theorems *)

\* The strengthening holds throughout: who waits is queued once, who has a
\* permit or a thread has a connection of its own.
THEOREM PoolInvariance == Spec => []PoolInv
<1> QED
  BY PoolInit, PoolStep, PTL DEF Spec

\* Calls, permits and connections keep their types: a permit is given back only
\* by who holds one, and the queue holds calls (pool.rs run).
THEOREM PoolTypeCorrect == Spec => []TypeOK
<1>1. PoolInv => TypeOK
  BY DEF PoolInv
<1> QED
  BY <1>1, PoolInvariance, PTL

\* No permit is lost, and idle connections and running calls together never
\* exceed the capacity, whatever fails and whatever is dropped (pool.rs run).
THEOREM PoolBounded == Spec => []PoolIsBounded
<1>1. PoolInv => PoolIsBounded
  BY DEF PoolInv
<1> QED
  BY <1>1, PoolInvariance, PTL

\* No connection is used by two threads, or used and idle at once (pool.rs run).
THEOREM Exclusive == Spec => []ExclusiveUse
<1>1. PoolInv => ExclusiveUse
  BY DEF PoolInv
<1> QED
  BY <1>1, PoolInvariance, PTL

\* A connection whose last check or operation failed is not offered again
\* (pool.rs:146 and pool.rs:165).
THEOREM FailedClosed == Spec => []FailedAreClosed
<1>1. PoolInv => FailedAreClosed
  BY DEF PoolInv
<1> QED
  BY <1>1, PoolInvariance, PTL
-----------------------------------------------------------------------------
(* The connection the calls of a Redis adapter share, for any number of    *)
(* calls, cells and breaks.                                                *)

\* The cells whose connection broke.
Broken == ready \ alive

\* A call that waits for a cell has one, and one that sends a PING has a
\* connection in it.
CellInv ==
  \A c \in Users :
    /\ phase[c] \in {"wait", "connect", "ping"} => cell[c] \in Cells
    /\ phase[c] = "ping" => cell[c] \in ready

\* A retry follows a break or a late answer.  The call has emptied the map since,
\* and what others put there was connected after the break; a second break spoils
\* this.
RetryInv ==
  \A c \in Users : attempt[c] = 1 =>
    /\ breaks # 0
    /\ breaks = 1 /\ phase[c] = "fetch" => shared \notin Broken
    /\ breaks = 1 /\ phase[c] \in {"wait", "connect", "ping"} => cell[c] \notin Broken

SharedInv ==
  /\ Shared!TypeOK
  /\ CellInv
  /\ breaks = 0 => Broken = {}
  /\ RetryInv
  /\ Shared!OneBreakIsSurvived

LEMMA SharedInit == Shared!Assumptions /\ Shared!Init => SharedInv
<1> SUFFICES ASSUME Shared!Assumptions, Shared!Init PROVE SharedInv
  OBVIOUS
<1>1. Shared!TypeOK
  <2>1. breaks \in 0..MaxBreaks /\ attempt \in [Users -> 0..1]
    BY DEF Shared!Assumptions, Shared!Init
  <2>2. refused \in BOOLEAN
    BY DEF Shared!Init
  <2>3. phase \in [Users -> {"out"}] /\ cell \in [Users -> {NoCell}]
    BY DEF Shared!Init
  <2>4. shared = NoCell /\ ready = {} /\ alive = {}
    BY DEF Shared!Init
  <2> QED
    BY <2>1, <2>2, <2>3, <2>4 DEF Shared!TypeOK
<1>2. Broken = {} /\ CellInv /\ RetryInv /\ Shared!OneBreakIsSurvived
  BY DEF Shared!Init, Broken, CellInv, RetryInv, Shared!OneBreakIsSurvived
<1> QED
  BY <1>1, <1>2 DEF SharedInv

\* Nobody uses the cell a call puts into the map, and it is empty.
LEMMA FetchStep ==
  ASSUME Shared!Assumptions, SharedInv, NEW c \in Users, Shared!Fetch(c)
  PROVE  SharedInv'
<1> USE DEF Shared!Assumptions, SharedInv, Shared!TypeOK, Shared!Fetch, Shared!Go
<1>1. CASE shared # NoCell
  BY <1>1 DEF CellInv, Broken, RetryInv, Shared!OneBreakIsSurvived
<1>2. CASE shared = NoCell
  <2>1. PICK x \in Cells : /\ \A d \in Users : cell[d] # x
                           /\ shared' = x
                           /\ cell' = [cell EXCEPT ![c] = x]
                           /\ ready' = ready \ {x}
                           /\ alive' = alive \ {x}
    BY <1>2
  <2>2. x \notin Broken' /\ Broken' \subseteq Broken
    BY <2>1 DEF Broken
  <2>3. Shared!TypeOK'
    BY <2>1
  <2>4. CellInv'
    BY <2>1 DEF CellInv
  <2>5. RetryInv'
    BY <2>1, <2>2 DEF RetryInv
  <2> QED
    BY <2>2, <2>3, <2>4, <2>5 DEF Shared!OneBreakIsSurvived
<1> QED
  BY <1>1, <1>2

\* A PING finds its connection dead only after a break, and in a retry only
\* after two.
LEMMA PingedStep ==
  ASSUME Shared!Assumptions, SharedInv, NEW c \in Users, Shared!Pinged(c)
  PROVE  SharedInv'
<1> USE DEF Shared!Assumptions, SharedInv, Shared!TypeOK, Shared!Pinged, Shared!MayRetry,
            Shared!Go
<1>1. cell[c] \notin alive => breaks # 0 /\ (attempt[c] = 1 => breaks # 1)
  BY DEF CellInv, RetryInv, Broken
<1>2. Shared!TypeOK'
  <2>1. attempt' \in [Users -> 0..1]
    OBVIOUS
  <2>2. breaks' \in 0..MaxBreaks
    OBVIOUS
  <2>5. refused' \in BOOLEAN
    OBVIOUS
  <2>3. /\ phase' \in [Users -> {"out", "fetch", "wait", "connect", "ping", "remove", "ok", "err"}]
        /\ cell' \in [Users -> Cells \cup {NoCell}]
    OBVIOUS
  <2>4. UNCHANGED <<shared, ready, alive>>
    OBVIOUS
  <2> QED
    BY <2>1, <2>2, <2>3, <2>4, <2>5
<1>3. /\ breaks' # breaks => breaks' = breaks + 1
      /\ attempt[c] = 1 => breaks # 0
  BY DEF RetryInv
<1>4. CellInv'
  BY DEF CellInv
<1>5. RetryInv'
  <2>1. CASE UNCHANGED breaks
    BY <1>1, <2>1 DEF RetryInv, Broken
  <2>2. CASE breaks' = breaks + 1 /\ attempt[c] = 0
    BY <2>2 DEF RetryInv, Broken
  <2>3. CASE breaks' = breaks + 1 /\ attempt[c] = 1
    BY <1>3, <2>3 DEF RetryInv, Broken
  <2> QED
    BY <1>3, <2>1, <2>2, <2>3
<1>6. Shared!OneBreakIsSurvived'
  BY <1>1, <1>3 DEF Shared!OneBreakIsSurvived
<1> QED
  BY <1>2, <1>3, <1>4, <1>5, <1>6 DEF Broken

LEMMA OtherStep ==
  ASSUME Shared!Assumptions, SharedInv, NEW c \in Users,
         Shared!Enter(c) \/ Shared!Await(c) \/ Shared!Connected(c)
           \/ Shared!Remove(c) \/ Shared!Return(c) \/ Shared!Drop(c)
  PROVE  SharedInv'
<1> USE DEF Shared!Assumptions, SharedInv, Shared!TypeOK, CellInv, Broken, RetryInv,
            Shared!OneBreakIsSurvived, Shared!Go
<1>1. CASE Shared!Enter(c)
  BY <1>1 DEF Shared!Enter
<1>2. CASE Shared!Await(c)
  BY <1>2 DEF Shared!Await
<1>3. CASE Shared!Connected(c)
  BY <1>3 DEF Shared!Connected
<1>4. CASE Shared!Remove(c)
  BY <1>4 DEF Shared!Remove, Shared!Removed
<1>5. CASE Shared!Return(c)
  BY <1>5 DEF Shared!Return
<1>6. CASE Shared!Drop(c)
  BY <1>6 DEF Shared!Drop
<1> QED
  BY <1>1, <1>2, <1>3, <1>4, <1>5, <1>6

LEMMA BreakStep ==
  ASSUME Shared!Assumptions, SharedInv, Shared!Break
  PROVE  SharedInv'
<1> USE DEF Shared!Assumptions, SharedInv, Shared!TypeOK, Shared!Break
<1>1. Shared!TypeOK' /\ CellInv' /\ breaks' # 0
  BY DEF CellInv
<1>2. breaks' = 1 => \A c \in Users : attempt[c] # 1
  BY DEF RetryInv
<1>3. RetryInv'
  BY <1>1, <1>2 DEF RetryInv
<1>4. Shared!OneBreakIsSurvived'
  BY DEF Shared!OneBreakIsSurvived
<1> QED
  BY <1>1, <1>3, <1>4

\* The state of the shared connection keeps its types, and every waiting call has
\* a cell (pool.rs shared).
THEOREM SharedInvariance == Shared!Assumptions /\ Shared!Spec => []SharedInv
<1>1. Shared!Assumptions /\ SharedInv /\ [Shared!Next]_Shared!vars => SharedInv'
  <2> SUFFICES ASSUME Shared!Assumptions, SharedInv, [Shared!Next]_Shared!vars
               PROVE  SharedInv'
    OBVIOUS
  <2>1. CASE UNCHANGED Shared!vars
    BY <2>1 DEF Shared!vars, SharedInv, Shared!TypeOK, CellInv, Broken, RetryInv,
                Shared!OneBreakIsSurvived
  <2> QED
    BY <2>1, FetchStep, PingedStep, OtherStep, BreakStep DEF Shared!Next
<1>2. Shared!Assumptions /\ Shared!Init => SharedInv
  BY SharedInit
<1>3. CASE Shared!Assumptions
  BY <1>1, <1>2, <1>3, PTL DEF Shared!Spec
<1> QED
  BY <1>3

\* The shared connection keeps the types of its state (pool.rs shared).
THEOREM SharedTypeCorrect == Shared!Assumptions /\ Shared!Spec => []Shared!TypeOK
<1>1. SharedInv => Shared!TypeOK
  BY DEF SharedInv
<1> QED
  BY <1>1, SharedInvariance, PTL

\* One break of the connections or late answer costs no call more than one attempt
\* (redis.rs:200), however many calls find the connection dead at once.
THEOREM BreakSurvived == Shared!Assumptions /\ Shared!Spec => []OneBreakIsSurvived
<1>1. SharedInv => OneBreakIsSurvived
  BY DEF SharedInv, OneBreakIsSurvived
<1> QED
  BY <1>1, SharedInvariance, PTL
=============================================================================
