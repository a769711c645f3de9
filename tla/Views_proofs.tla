----------------------------- MODULE Views_proofs -----------------------------
(***************************************************************************)
(* Proofs about what a window shows: the table grid and its edits          *)
(* (RowEdits), for every set of values and number of places; the data      *)
(* compare (DataCompare), for every finite set of keys; the tabs and the   *)
(* split view (Workspace), for any connections and number of panes.        *)
(***************************************************************************)
EXTENDS Components, SequenceTheorems, FiniteSetTheorems, WellFoundedInduction,
        TLAPS

-----------------------------------------------------------------------------
(* The inductive invariant: whoever holds a row, the grid, a fetch, the    *)
(* cell editor or a request, holds the value of the version at its place.  *)

Written(p) == p \in Edits!Places /\ heap[p].state \notin {"free", "theirs"}

\* What r says of its place is what is written there, unless the space of the
\* version it was has been used again.
IsTrue(r) ==
  /\ r.at \in Edits!Places /\ r.turn \in Nat /\ r.turn <= heap[r.at].turn
  /\ r.turn = heap[r.at].turn => Written(r.at) /\ r.val = heap[r.at].val

AllTrue(rows) == \A r \in rows : IsTrue(r)

Versions ==
  [val : Values \union {0}, state : Edits!StateNames, turn : 0..MaxTurns,
   next : Edits!Places \union {0}]

\* Another session has taken one row at most, and has written its new version.
HeapInv ==
  /\ heap \in [Edits!Places -> Versions]
  /\ \A p \in Edits!Places :
       /\ heap[p].state # "free" => heap[p].val \in Values
       /\ heap[p].next # 0 => heap[p].state = "taken" /\ heap[heap[p].next].state = "theirs"
  /\ \A p, q \in Edits!Places : heap[p].state = "taken" /\ heap[q].state = "taken" => p = q

FetchInv ==
  /\ fetch \in [stage : {"idle", "asked", "read"}, inTx : BOOLEAN,
                rows : SUBSET Edits!Entries]
  /\ AllTrue(fetch.rows)

GridInv == grid \subseteq Edits!Entries /\ AllTrue(grid)

EditInv ==
  /\ edit \in Edits!Entries \union {Edits!NoEntry}
  /\ edit # Edits!NoEntry => IsTrue(edit)

Requests ==
  [op : {"none", "update", "delete", "duplicate"},
   row : Edits!Entries \union {Edits!NoEntry}, next : Values \union {0},
   stage : {"idle", "sent", "done", "failed"}, on : Edits!Places \union {0},
   new : Edits!Entries \union {Edits!NoEntry}]

\* A request is for a row that somebody has read, and knows the one it has made.
RequestInv ==
  /\ request \in Requests
  /\ request.stage # "idle" =>
       /\ request.op # "none" /\ request.row \in Edits!Entries /\ IsTrue(request.row)
       /\ request.on \in Edits!Places /\ request.next \in Values
  /\ request.stage = "done" /\ request.op # "delete" =>
       request.new \in Edits!Entries /\ IsTrue(request.new)

EditsInv == HeapInv /\ FetchInv /\ GridInv /\ EditInv /\ RequestInv

\* Versions stay where they are, and with the value they have, until their space
\* is used again.
Kept ==
  \A p \in Edits!Places :
    /\ heap[p].turn \in Nat /\ heap'[p].turn \in Nat /\ heap[p].turn <= heap'[p].turn
    /\ heap'[p].turn = heap[p].turn /\ heap[p].state \notin {"free", "theirs"} =>
         heap'[p].state \notin {"free", "theirs"} /\ heap'[p].val = heap[p].val

-----------------------------------------------------------------------------

LEMMA VersionFields ==
  ASSUME NEW h \in Versions
  PROVE  /\ h.turn \in Nat /\ h.turn \in 0..MaxTurns /\ h.state \in Edits!StateNames
         /\ h.val \in Values \union {0} /\ h.next \in Edits!Places \union {0}
  BY DEF Versions

LEMMA NoPlace == 0 \notin Edits!Places
  BY DEF Edits!Places

\* What is true of a place stays true of it.
LEMMA KeptTrue ==
  ASSUME Kept, NEW r, IsTrue(r)
  PROVE  /\ r.at \in Edits!Places /\ r.turn \in Nat /\ r.turn <= heap'[r.at].turn
         /\ r.turn = heap'[r.at].turn =>
              heap'[r.at].state \notin {"free", "theirs"} /\ r.val = heap'[r.at].val
<1>1. /\ r.at \in Edits!Places /\ r.turn \in Nat /\ r.turn <= heap[r.at].turn
      /\ r.turn = heap[r.at].turn =>
           heap[r.at].state \notin {"free", "theirs"} /\ r.val = heap[r.at].val
  BY DEF IsTrue, Written
<1>2. /\ heap[r.at].turn \in Nat /\ heap'[r.at].turn \in Nat
      /\ heap[r.at].turn <= heap'[r.at].turn
      /\ heap'[r.at].turn = heap[r.at].turn /\ heap[r.at].state \notin {"free", "theirs"} =>
           heap'[r.at].state \notin {"free", "theirs"} /\ heap'[r.at].val = heap[r.at].val
  BY <1>1 DEF Kept
<1> QED
  BY <1>1, <1>2

\* A new version goes to a place that has none.
LEMMA NextPlaceIsFree ==
  ASSUME Edits!FreePlaces # {}
  PROVE  Edits!NextPlace \in Edits!Places /\ heap[Edits!NextPlace].state = "free"
  BY DEF Edits!NextPlace, Edits!FreePlaces

\* Nothing but the rows at the start is written, and nobody holds a row.
LEMMA EditsInit == Edits!Assumptions /\ Edits!Init => EditsInv
<1> SUFFICES ASSUME Edits!Assumptions, Edits!Init PROVE EditsInv
  OBVIOUS
<1> USE DEF Edits!Init, Edits!NoFetch, Edits!NoEntry, Edits!NoRequest
<1>1. HeapInv
  <2>1. PICK vals \in [1..Initial -> Values] :
          heap = [p \in Edits!Places |-> IF p <= Initial
                                   THEN Edits!Version(vals[p], "live", 0)
                                   ELSE Edits!Version(0, "free", 0)]
    OBVIOUS
  <2>2. \A p \in Edits!Places : p <= Initial => vals[p] \in Values
    BY <2>1 DEF Edits!Places, Edits!Assumptions
  <2>3. 0 \in 0..MaxTurns
    BY DEF Edits!Assumptions
  <2>4. \A p \in Edits!Places :
          /\ heap[p] \in Versions
          /\ heap[p].state # "free" => heap[p].val \in Values
          /\ heap[p].next = 0 /\ heap[p].state # "taken"
    BY <2>1, <2>2, <2>3 DEF Versions, Edits!Version, Edits!StateNames
  <2>5. heap \in [Edits!Places -> Versions]
    BY <2>1, <2>4
  <2> QED
    BY <2>4, <2>5 DEF HeapInv
<1>2. FetchInv /\ GridInv /\ EditInv
  BY DEF FetchInv, GridInv, EditInv, AllTrue
<1>3. RequestInv
  BY DEF RequestInv, Requests
<1> QED
  BY <1>1, <1>2, <1>3 DEF EditsInv

\* An action that writes only in free places leaves everything true that was,
\* of whoever keeps the rows he held.
LEMMA HoldersKept ==
  ASSUME EditsInv, Kept
  PROVE  /\ fetch' = fetch => FetchInv'
         /\ grid' = grid => GridInv'
         /\ edit' = edit => EditInv'
         /\ request' = request => RequestInv'
<1>1. ASSUME NEW rows, AllTrue(rows)
      PROVE  \A r \in rows :
               /\ r.at \in Edits!Places /\ r.turn \in Nat /\ r.turn <= heap'[r.at].turn
               /\ r.turn = heap'[r.at].turn =>
                    heap'[r.at].state \notin {"free", "theirs"} /\ r.val = heap'[r.at].val
  BY <1>1, KeptTrue DEF AllTrue
<1>2. fetch' = fetch => FetchInv'
  BY <1>1 DEF EditsInv, FetchInv, AllTrue, IsTrue, Written
<1>3. grid' = grid => GridInv'
  BY <1>1 DEF EditsInv, GridInv, AllTrue, IsTrue, Written
<1>4. edit' = edit => EditInv'
  BY KeptTrue DEF EditsInv, EditInv, IsTrue, Written
<1>5. ASSUME request' = request PROVE RequestInv'
  <2>1. request.stage # "idle" =>
          /\ request.row.at \in Edits!Places /\ request.row.turn \in Nat
          /\ request.row.turn <= heap'[request.row.at].turn
          /\ request.row.turn = heap'[request.row.at].turn =>
               /\ heap'[request.row.at].state \notin {"free", "theirs"}
               /\ request.row.val = heap'[request.row.at].val
    BY KeptTrue DEF EditsInv, RequestInv
  <2>2. request.stage = "done" /\ request.op # "delete" =>
          /\ request.new.at \in Edits!Places /\ request.new.turn \in Nat
          /\ request.new.turn <= heap'[request.new.at].turn
          /\ request.new.turn = heap'[request.new.at].turn =>
               /\ heap'[request.new.at].state \notin {"free", "theirs"}
               /\ request.new.val = heap'[request.new.at].val
    BY KeptTrue DEF EditsInv, RequestInv
  <2> QED
    BY <1>5, <2>1, <2>2 DEF EditsInv, RequestInv, IsTrue, Written
<1> QED
  BY <1>2, <1>3, <1>4, <1>5

-----------------------------------------------------------------------------
(* The other sessions. *)

LEMMA OtherUpdatesStep ==
  ASSUME EditsInv, NEW p \in Edits!Places, NEW v \in Values, Edits!OtherUpdates(p, v)
  PROVE  EditsInv'
<1>1. Edits!NextPlace \in Edits!Places /\ heap[Edits!NextPlace].state = "free"
  BY NextPlaceIsFree DEF Edits!OtherUpdates
<1>2. PICK n \in Edits!Places : n = Edits!NextPlace /\ heap[n].state = "free" /\ n # p
  BY <1>1 DEF Edits!OtherUpdates
<1>3. heap' = [heap EXCEPT ![p] = [heap[p] EXCEPT !.state = "taken", !.next = n],
                           ![n] = Edits!Version(v, "theirs", heap[n].turn)]
  BY <1>2 DEF Edits!New, Edits!OtherUpdates
<1>4. \A q \in Edits!Places :
        /\ heap[q] \in Versions
        /\ heap[q].state # "taken" /\ heap[q].next = 0
  BY DEF EditsInv, HeapInv, Edits!Untaken, Edits!OtherUpdates
<1>5. /\ heap'[p] = [heap[p] EXCEPT !.state = "taken", !.next = n]
      /\ heap'[n] = [val |-> v, state |-> "theirs", turn |-> heap[n].turn, next |-> 0]
      /\ \A q \in Edits!Places \ {p, n} : heap'[q] = heap[q]
  BY <1>2, <1>3 DEF EditsInv, HeapInv, Edits!Version
<1>6. /\ heap'[p] \in Versions /\ heap'[p].state = "taken" /\ heap'[p].val = heap[p].val
      /\ heap'[p].next = n /\ heap'[p].turn = heap[p].turn
      /\ heap'[n] \in Versions
  <2>1. PICK h \in Versions : h = heap[p]
    BY <1>4
  <2>2. heap'[p] = [val |-> h.val, state |-> "taken", turn |-> h.turn, next |-> n]
    BY <1>5, <2>1 DEF Versions
  <2>3. heap[n].turn \in 0..MaxTurns
    BY <1>2, <1>4, VersionFields
  <2>4. heap'[n] \in Versions
    BY <1>5, <2>3 DEF Versions, Edits!StateNames
  <2>5. heap'[p] \in Versions
    BY <1>2, <2>1, <2>2, VersionFields DEF Versions, Edits!StateNames
  <2> QED
    BY <2>1, <2>2, <2>4, <2>5
<1>7. heap' \in [Edits!Places -> Versions]
  <2>1. \A q \in Edits!Places : heap'[q] \in Versions
    BY <1>4, <1>5, <1>6
  <2>2. DOMAIN heap' = Edits!Places /\ heap' = [q \in Edits!Places |-> heap'[q]]
    BY <1>3 DEF EditsInv, HeapInv
  <2> QED
    BY <2>1, <2>2
<1>8. HeapInv'
  <2>1. heap'[n].state = "theirs" /\ heap'[n].val \in Values /\ heap'[n].next = 0
    BY <1>5
  <2>2. \A q \in Edits!Places : q # p /\ q # n =>
          /\ heap'[q] = heap[q] /\ heap'[q].state # "taken" /\ heap'[q].next = 0
          /\ heap'[q].state # "free" => heap'[q].val \in Values
    <3>1. ASSUME NEW q \in Edits!Places, q # p, q # n PROVE heap'[q] = heap[q]
      BY <1>5, <3>1
    <3> QED
      BY <1>4, <3>1 DEF EditsInv, HeapInv
  <2>3. heap'[p].val \in Values
    BY <1>6 DEF EditsInv, HeapInv, Edits!OtherUpdates
  <2>4. \A q \in Edits!Places :
          /\ heap'[q].state # "free" => heap'[q].val \in Values
          /\ heap'[q].next # 0 => q = p
          /\ heap'[q].state = "taken" => q = p
    BY <2>1, <2>2, <2>3
  <2> QED
    BY <1>2, <1>6, <1>7, <2>1, <2>4 DEF HeapInv
<1>9. Kept
  <2>1. \A q \in Edits!Places : heap[q].turn \in Nat /\ heap'[q].turn = heap[q].turn
    <3>1. \A q \in Edits!Places : heap[q].turn \in Nat
      BY <1>4, VersionFields
    <3>2. heap'[n].turn = heap[n].turn /\ heap'[p].turn = heap[p].turn
      BY <1>5, <1>6
    <3>3. ASSUME NEW q \in Edits!Places, q # p, q # n PROVE heap'[q].turn = heap[q].turn
      BY <1>5, <3>3
    <3> QED
      BY <3>1, <3>2, <3>3
  <2>2. \A q \in Edits!Places \ {n} :
          /\ heap'[q].val = heap[q].val
          /\ heap[q].state \notin {"free", "theirs"} => heap'[q].state \notin {"free", "theirs"}
    BY <1>5, <1>6
  <2> QED
    BY <1>2, <1>5, <2>1, <2>2 DEF Kept
<1> QED
  BY <1>8, <1>9, HoldersKept DEF EditsInv, Edits!OtherUpdates

LEMMA OtherDeletesStep ==
  ASSUME EditsInv, NEW p \in Edits!Places, Edits!OtherDeletes(p)
  PROVE  EditsInv'
<1> USE DEF Edits!OtherDeletes
<1>1. \A q \in Edits!Places : heap[q] \in Versions /\ heap[q].state # "taken" /\ heap[q].next = 0
  BY DEF EditsInv, HeapInv, Edits!Untaken
<1>2. /\ heap'[p] = [heap[p] EXCEPT !.state = "taken"]
      /\ \A q \in Edits!Places \ {p} : heap'[q] = heap[q]
      /\ DOMAIN heap' = Edits!Places
  BY DEF EditsInv, HeapInv
<1>3. /\ heap'[p] \in Versions /\ heap'[p].state = "taken" /\ heap'[p].val = heap[p].val
      /\ heap'[p].next = 0 /\ heap'[p].turn = heap[p].turn
  BY <1>1, <1>2 DEF Versions, Edits!StateNames
<1>4. heap' \in [Edits!Places -> Versions]
  BY <1>1, <1>2, <1>3 DEF EditsInv, HeapInv
<1>5. HeapInv'
  BY <1>1, <1>2, <1>3, <1>4 DEF EditsInv, HeapInv
<1>6. Kept
  BY <1>1, <1>2, <1>3 DEF Kept, Versions
<1> QED
  BY <1>5, <1>6, HoldersKept DEF EditsInv

\* Of a row that is not taken nobody has written the next version.
LEMMA OneIsTaken ==
  ASSUME HeapInv, NEW p \in Edits!Places, heap[p].state = "taken"
  PROVE  /\ \A q \in Edits!Places \ {p} : heap[q].next = 0 /\ heap[q].state # "taken"
         /\ heap[p].next \in Edits!Places \union {0} /\ heap[p].next # p
<1>1. \A q \in Edits!Places \ {p} : heap[q].next = 0 /\ heap[q].state # "taken"
  BY DEF HeapInv
<1>2. heap[p].next \in Edits!Places \union {0}
  BY VersionFields DEF HeapInv
<1>3. heap[p].next # 0 => heap[heap[p].next].state = "theirs"
  BY DEF HeapInv
<1> QED
  BY <1>1, <1>2, <1>3, NoPlace

\* What another session has written becomes a row, which nobody has read before.
LEMMA OtherCommitsStep ==
  ASSUME EditsInv, NEW p \in Edits!Places, Edits!OtherCommits(p)
  PROVE  EditsInv'
<1> USE DEF Edits!OtherCommits
<1>1. PICK n \in Edits!Places \union {0} :
        /\ n = heap[p].next /\ n # p
        /\ \A q \in Edits!Places \ {p} : heap[q].next = 0 /\ heap[q].state # "taken"
  BY OneIsTaken DEF EditsInv
<1>2. \A q \in Edits!Places :
        heap'[q] = IF q = p THEN [heap[p] EXCEPT !.state = "dead", !.next = 0]
                   ELSE IF q = n THEN [heap[q] EXCEPT !.state = "live"] ELSE heap[q]
  BY <1>1
<1>3. \A q \in Edits!Places : heap[q] \in Versions
  BY DEF EditsInv, HeapInv
<1>4. \A q \in Edits!Places :
        /\ heap'[q] \in Versions /\ heap'[q].next = 0 /\ heap'[q].state # "taken"
        /\ heap'[q].val = heap[q].val /\ heap'[q].turn = heap[q].turn
        /\ heap'[q].state \in {"live", "dead", heap[q].state}
  <2> SUFFICES ASSUME NEW q \in Edits!Places
               PROVE  /\ heap'[q] \in Versions /\ heap'[q].next = 0 /\ heap'[q].state # "taken"
                      /\ heap'[q].val = heap[q].val /\ heap'[q].turn = heap[q].turn
                      /\ heap'[q].state \in {"live", "dead", heap[q].state}
    OBVIOUS
  <2>1. CASE q = p
    BY <1>2, <1>3, <2>1 DEF Versions, Edits!StateNames
  <2>2. CASE q # p /\ q = n
    <3>1. heap'[q] = [heap[q] EXCEPT !.state = "live"] /\ heap[q].next = 0
      BY <1>1, <1>2, <2>2
    <3> QED
      BY <1>3, <3>1 DEF Versions, Edits!StateNames
  <2>3. CASE q # p /\ q # n
    BY <1>1, <1>2, <1>3, <2>3
  <2> QED
    BY <2>1, <2>2, <2>3
<1>5. \A q \in Edits!Places : heap'[q].state # "free" => heap[q].state # "free"
  <2>1. n \in Edits!Places => heap[n].state = "theirs"
    BY <1>1, NoPlace DEF EditsInv, HeapInv
  <2> QED
    BY <1>2, <2>1
<1>6. heap' \in [Edits!Places -> Versions]
  BY <1>4
<1>7. HeapInv'
  BY <1>4, <1>5, <1>6 DEF EditsInv, HeapInv
<1>8. Kept
  BY <1>3, <1>4 DEF Kept, Versions
<1>9. RequestInv'
  <2>1. CASE request' = request
    BY <1>8, <2>1, HoldersKept
  <2>2. CASE Edits!Waits(p) /\ n # 0 /\ request' = [request EXCEPT !.on = n]
    <3>1. request \in Requests /\ request.stage = "sent"
      BY <2>2 DEF EditsInv, RequestInv, Edits!Waits
    <3>2. /\ request' \in Requests /\ request'.stage = "sent" /\ request'.on = n
          /\ request'.op = request.op /\ request'.row = request.row
          /\ request'.next = request.next
      BY <2>2, <3>1 DEF Requests
    <3>3. /\ request.op # "none" /\ request.row \in Edits!Entries /\ IsTrue(request.row)
          /\ request.next \in Values
      BY <3>1 DEF EditsInv, RequestInv
    <3>4. IsTrue(request.row)'
      BY <1>8, <3>2, <3>3, KeptTrue DEF IsTrue, Written
    <3> QED
      BY <2>2, <3>2, <3>3, <3>4 DEF RequestInv
  <2> QED
    BY <1>1, <2>1, <2>2
<1> QED
  BY <1>7, <1>8, <1>9, HoldersKept DEF EditsInv

LEMMA OtherRollsBackStep ==
  ASSUME EditsInv, NEW p \in Edits!Places, Edits!OtherRollsBack(p)
  PROVE  EditsInv'
<1> USE DEF Edits!OtherRollsBack
<1>1. PICK n \in Edits!Places \union {0} :
        /\ n = heap[p].next /\ n # p /\ (n # 0 => heap[n].state = "theirs")
        /\ \A q \in Edits!Places \ {p} : heap[q].next = 0 /\ heap[q].state # "taken"
  BY OneIsTaken DEF EditsInv, HeapInv
<1>2. \A q \in Edits!Places :
        heap'[q] = IF q = p THEN [heap[p] EXCEPT !.state = "live", !.next = 0]
                   ELSE IF q = n THEN Edits!Version(0, "free", heap[q].turn) ELSE heap[q]
  BY <1>1
<1>3. \A q \in Edits!Places : heap[q] \in Versions
  BY DEF EditsInv, HeapInv
<1>4. \A q \in Edits!Places :
        /\ heap'[q] \in Versions /\ heap'[q].next = 0 /\ heap'[q].state # "taken"
        /\ heap'[q].turn = heap[q].turn
        /\ \/ heap'[q].val = heap[q].val /\ heap'[q].state \in {"live", heap[q].state}
              /\ (heap[q].state = "free" <=> heap'[q].state = "free")
           \/ heap'[q].state = "free" /\ heap[q].state = "theirs"
        /\ heap[q].state = "theirs" \/ heap'[q].state # "theirs"
  <2> SUFFICES ASSUME NEW q \in Edits!Places
               PROVE  /\ heap'[q] \in Versions /\ heap'[q].next = 0 /\ heap'[q].state # "taken"
                      /\ heap'[q].turn = heap[q].turn
                      /\ \/ heap'[q].val = heap[q].val /\ heap'[q].state \in {"live", heap[q].state}
                            /\ (heap[q].state = "free" <=> heap'[q].state = "free")
                         \/ heap'[q].state = "free" /\ heap[q].state = "theirs"
                      /\ heap[q].state = "theirs" \/ heap'[q].state # "theirs"
    OBVIOUS
  <2>1. CASE q = p
    BY <1>2, <1>3, <2>1 DEF Versions, Edits!StateNames
  <2>2. CASE q # p /\ q = n
    <3>1. heap'[q] = [val |-> 0, state |-> "free", turn |-> heap[q].turn, next |-> 0]
      BY <1>2, <2>2 DEF Edits!Version
    <3>2. heap[q].state = "theirs" /\ heap[q].turn \in 0..MaxTurns
      BY <1>1, <1>3, <2>2, NoPlace, VersionFields
    <3>3. heap'[q] \in Versions
      BY <3>1, <3>2 DEF Versions, Edits!StateNames
    <3> QED
      BY <3>1, <3>2, <3>3
  <2>3. CASE q # p /\ q # n
    BY <1>1, <1>2, <1>3, <2>3
  <2> QED
    BY <2>1, <2>2, <2>3
<1>5. heap' \in [Edits!Places -> Versions]
  BY <1>4
<1>6. HeapInv'
  BY <1>4, <1>5 DEF EditsInv, HeapInv
<1>7. Kept
  BY <1>3, <1>4 DEF Kept, Versions
<1> QED
  BY <1>6, <1>7, HoldersKept DEF EditsInv

\* The space of a dead version counts one turn more.
LEMMA ReclaimStep ==
  ASSUME Edits!Assumptions, EditsInv, NEW p \in Edits!Places, Edits!Reclaim(p)
  PROVE  EditsInv'
<1> USE DEF Edits!Reclaim
<1>1. \A q \in Edits!Places : heap[q] \in Versions
  BY DEF EditsInv, HeapInv
<1>2. /\ heap'[p] = [val |-> 0, state |-> "free", turn |-> heap[p].turn + 1, next |-> 0]
      /\ \A q \in Edits!Places \ {p} : heap'[q] = heap[q]
      /\ DOMAIN heap' = Edits!Places
  BY DEF EditsInv, HeapInv, Edits!Version
<1>3. heap[p].turn \in Nat /\ heap[p].turn + 1 \in 0..MaxTurns
  BY <1>1 DEF Versions, Edits!Assumptions
<1>4. heap'[p] \in Versions
  BY <1>2, <1>3 DEF Versions, Edits!StateNames
<1>5. heap' \in [Edits!Places -> Versions]
  BY <1>1, <1>2, <1>4 DEF EditsInv, HeapInv
<1>6. HeapInv'
  BY <1>2, <1>5 DEF EditsInv, HeapInv
<1>7. Kept
  <2>1. \A q \in Edits!Places \ {p} : heap[q].turn \in Nat
    BY <1>1 DEF Versions
  <2> QED
    BY <1>2, <1>3, <2>1 DEF Kept
<1> QED
  BY <1>6, <1>7, HoldersKept DEF EditsInv

-----------------------------------------------------------------------------
(* The actions. *)

\* An action that leaves the versions alone.
LEMMA SameHeap ==
  ASSUME EditsInv, heap' = heap
  PROVE  HeapInv' /\ Kept
<1>1. HeapInv'
  BY DEF EditsInv, HeapInv
<1>2. Kept
  BY DEF EditsInv, HeapInv, Versions, Kept
<1> QED
  BY <1>1, <1>2

\* The statement leaves the version it changes, and makes one in a free place.
LEMMA MakesStep ==
  ASSUME EditsInv, NEW q \in Edits!Places, heap[q].state \in {"live", "mine", "taken"},
         NEW n \in Edits!Places, heap[n].state = "free", NEW v \in Values,
         NEW old, old \in {heap[q]} \union
                          (IF heap[q].state = "taken" THEN {} ELSE {Edits!Left(q)}),
         heap' = [heap EXCEPT ![q] = old, ![n] = Edits!Version(v, "mine", heap[n].turn)]
  PROVE  /\ HeapInv' /\ Kept
         /\ heap'[n] = [val |-> v, state |-> "mine", turn |-> heap[n].turn, next |-> 0]
<1>1. n # q
  OBVIOUS
<1>2. \A p \in Edits!Places : heap[p] \in Versions
  BY DEF EditsInv, HeapInv
<1>3. /\ old \in Versions /\ old.val = heap[q].val /\ old.turn = heap[q].turn
      /\ old.next = heap[q].next /\ old.state \in {"live", "mine", "taken", "dead", "gone"}
      /\ old.state = "taken" <=> heap[q].state = "taken"
  BY <1>2 DEF Edits!Left, Versions, Edits!StateNames
<1>4. /\ heap'[q] = old
      /\ heap'[n] = [val |-> v, state |-> "mine", turn |-> heap[n].turn, next |-> 0]
      /\ \A p \in Edits!Places \ {q, n} : heap'[p] = heap[p]
      /\ DOMAIN heap' = Edits!Places
  BY <1>1 DEF EditsInv, HeapInv, Edits!Version
<1>5. heap'[n] \in Versions
  BY <1>2, <1>4 DEF Versions, Edits!StateNames
<1>6. heap' \in [Edits!Places -> Versions]
  BY <1>2, <1>3, <1>4, <1>5 DEF EditsInv, HeapInv
<1>7. \A p \in Edits!Places :
        /\ heap'[p].state # "free" => heap'[p].val \in Values
        /\ heap'[p].next # 0 => heap'[p].state = "taken" /\ heap'[p].next = heap[p].next
  BY <1>1, <1>3, <1>4 DEF EditsInv, HeapInv
<1>8. \A p \in Edits!Places : heap'[p].state = "taken" => heap[p].state = "taken"
  BY <1>3, <1>4
<1>9. \A p \in Edits!Places : heap[p].state = "theirs" => heap'[p].state = "theirs"
  BY <1>1, <1>4
<1>10. HeapInv'
  <2>1. \A p \in Edits!Places : heap'[p].next # 0 => heap'[heap'[p].next].state = "theirs"
    <3> SUFFICES ASSUME NEW p \in Edits!Places, heap'[p].next # 0
                 PROVE  heap'[heap'[p].next].state = "theirs"
      OBVIOUS
    <3>1. heap'[p].next = heap[p].next /\ heap[p].next # 0
      BY <1>7
    <3>2. heap[p].next \in Edits!Places /\ heap[heap[p].next].state = "theirs"
      BY <1>2, <3>1 DEF EditsInv, HeapInv, Versions
    <3> QED
      BY <1>9, <3>1, <3>2
  <2>2. \A p, r \in Edits!Places : heap'[p].state = "taken" /\ heap'[r].state = "taken" => p = r
    BY <1>8 DEF EditsInv, HeapInv
  <2> QED
    BY <1>6, <1>7, <2>1, <2>2 DEF HeapInv
<1>11. Kept
  BY <1>1, <1>2, <1>3, <1>4 DEF Kept, Versions
<1> QED
  BY <1>4, <1>10, <1>11

\* A statement deletes the version it is at.
LEMMA LeavesStep ==
  ASSUME EditsInv, NEW q \in Edits!Places, heap[q].state \in {"live", "mine"},
         heap' = [heap EXCEPT ![q] = Edits!Left(q)]
  PROVE  HeapInv' /\ Kept
<1>1. \A p \in Edits!Places : heap[p] \in Versions
  BY DEF EditsInv, HeapInv
<1>2. /\ Edits!Left(q) \in Versions /\ Edits!Left(q).val = heap[q].val
      /\ Edits!Left(q).turn = heap[q].turn /\ Edits!Left(q).next = heap[q].next
      /\ Edits!Left(q).state \in {"dead", "gone"}
  BY <1>1 DEF Edits!Left, Versions, Edits!StateNames
<1>3. /\ heap'[q] = Edits!Left(q)
      /\ \A p \in Edits!Places \ {q} : heap'[p] = heap[p]
      /\ DOMAIN heap' = Edits!Places
  BY DEF EditsInv, HeapInv
<1>4. heap' \in [Edits!Places -> Versions]
  BY <1>1, <1>2, <1>3 DEF EditsInv, HeapInv
<1>5. HeapInv'
  BY <1>2, <1>3, <1>4 DEF EditsInv, HeapInv, Versions
<1>6. Kept
  BY <1>1, <1>2, <1>3 DEF Kept, Versions
<1> QED
  BY <1>5, <1>6

\* What a statement that was sent has to do with.
LEMMA ExecuteFinds ==
  ASSUME EditsInv, Edits!Execute
  PROVE  /\ request \in Requests /\ request.op # "none" /\ request.on \in Edits!Places
         /\ request.row \in Edits!Entries /\ IsTrue(request.row) /\ request.next \in Values
         /\ request'.stage = "done" =>
              /\ heap[request.on].state \in {"live", "mine", "taken"}
              /\ heap[request.on].val \in Values
              /\ request.op # "duplicate" => heap[request.on].state # "taken"
<1>1. /\ request \in Requests /\ request.op # "none" /\ request.on \in Edits!Places
      /\ request.row \in Edits!Entries /\ IsTrue(request.row) /\ request.next \in Values
      /\ request.stage = "sent"
  BY DEF EditsInv, RequestInv, Edits!Execute
<1>2. request'.stage = "done" => heap[request.on].state \in {"live", "mine", "taken"}
  BY <1>1 DEF Edits!Execute, Edits!States, Requests
<1>3. heap[request.on].state = "taken" => request.op = "duplicate"
  BY <1>1 DEF Edits!Execute, Edits!Waits, Requests
<1> QED
  BY <1>1, <1>2, <1>3 DEF EditsInv, HeapInv

\* A request that is done, with the row it has made.
LEMMA RequestDone ==
  ASSUME EditsInv, Kept, request.stage = "sent", NEW entry \in Edits!Entries \union {Edits!NoEntry},
         request' = [request EXCEPT !.stage = "done", !.new = entry],
         request.op # "delete" => entry \in Edits!Entries /\ IsTrue(entry)'
  PROVE  RequestInv'
<1>1. request \in Requests
  BY DEF EditsInv, RequestInv
<1>2. /\ request' \in Requests /\ request'.stage = "done" /\ request'.new = entry
      /\ request'.op = request.op /\ request'.row = request.row
      /\ request'.next = request.next /\ request'.on = request.on
  BY <1>1 DEF Requests
<1>3. /\ request.op # "none" /\ request.row \in Edits!Entries /\ IsTrue(request.row)
      /\ request.on \in Edits!Places /\ request.next \in Values
  BY DEF EditsInv, RequestInv
<1>4. PICK r \in Edits!Entries : r = request.row
  BY <1>3
<1>5. IsTrue(r)'
  BY <1>3, <1>4, KeptTrue DEF IsTrue, Written
<1> QED
  BY <1>2, <1>3, <1>4, <1>5 DEF RequestInv

\* The request learns the row it made.
LEMMA GridExecuteStep ==
  ASSUME EditsInv, Edits!Execute
  PROVE  EditsInv'
<1>1. /\ request \in Requests /\ request.op # "none" /\ request.on \in Edits!Places
      /\ request.row \in Edits!Entries /\ IsTrue(request.row) /\ request.next \in Values
      /\ request'.stage = "done" =>
           /\ heap[request.on].state \in {"live", "mine", "taken"}
           /\ heap[request.on].val \in Values
           /\ request.op # "duplicate" => heap[request.on].state # "taken"
  BY ExecuteFinds
<1>2. fetch' = fetch /\ grid' = grid /\ edit' = edit /\ request.stage = "sent"
  BY DEF Edits!Execute
<1>3. ASSUME HeapInv', Kept, RequestInv' PROVE EditsInv'
  BY <1>2, <1>3, HoldersKept DEF EditsInv
<1>4. PICK q \in Edits!Places : q = request.on
  BY <1>1
<1>5. CASE request.op \in {"update", "duplicate"} /\ request'.stage = "done"
  <2>1. PICK n \in Edits!Places : n = Edits!NextPlace /\ heap[n].state = "free"
    BY <1>1, <1>5, NextPlaceIsFree DEF Edits!Execute, Requests
  <2>2. PICK v \in Values :
          v = IF request.op = "update" THEN request.next ELSE heap[q].val
    BY <1>1, <1>4, <1>5
  <2>3. PICK old : old = IF request.op = "update" THEN Edits!Left(q) ELSE heap[q]
    OBVIOUS
  <2>4. PICK made : made = [at |-> n, val |-> v, turn |-> heap[n].turn]
    OBVIOUS
  <2>5. /\ heap' = [heap EXCEPT ![q] = old, ![n] = Edits!Version(v, "mine", heap[n].turn)]
        /\ request' = [request EXCEPT !.stage = "done", !.new = made]
    <3>1. CASE request.op = "update"
      <4>1. /\ heap' = [heap EXCEPT ![q] = Edits!Left(q),
                                    ![Edits!NextPlace] = Edits!Mine(request.next)]
            /\ request' = [request EXCEPT !.stage = "done", !.new = Edits!Made(request.next)]
        BY <1>1, <1>4, <1>5, <3>1 DEF Edits!Execute, Requests
      <4> QED
        BY <2>1, <2>2, <2>3, <2>4, <3>1, <4>1 DEF Edits!Mine, Edits!New, Edits!Made
    <3>2. CASE request.op = "duplicate"
      <4>1. /\ heap' = [heap EXCEPT ![Edits!NextPlace] = Edits!Mine(heap[q].val)]
            /\ request' = [request EXCEPT !.stage = "done", !.new = Edits!Made(heap[q].val)]
        BY <1>1, <1>4, <1>5, <3>2 DEF Edits!Execute, Requests
      <4>2. heap' = [heap EXCEPT ![n] = Edits!Version(v, "mine", heap[n].turn)]
            /\ request' = [request EXCEPT !.stage = "done", !.new = made]
        BY <2>1, <2>2, <2>4, <3>2, <4>1 DEF Edits!Mine, Edits!New, Edits!Made
      <4> QED
        BY <2>3, <3>2, <4>2 DEF EditsInv, HeapInv
    <3> QED
      BY <1>5, <3>1, <3>2
  <2>6. /\ heap[q].state \in {"live", "mine", "taken"}
        /\ old \in {heap[q]} \union (IF heap[q].state = "taken" THEN {} ELSE {Edits!Left(q)})
    BY <1>1, <1>4, <1>5, <2>3
  <2>7. /\ HeapInv' /\ Kept
        /\ heap'[n] = [val |-> v, state |-> "mine", turn |-> heap[n].turn, next |-> 0]
    BY <2>1, <2>5, <2>6, MakesStep
  <2>8. made \in Edits!Entries /\ made.turn \in Nat
    BY <2>1, <2>4 DEF Edits!Entries, EditsInv, HeapInv, Versions
  <2>9. IsTrue(made)'
    BY <2>4, <2>7, <2>8 DEF IsTrue, Written
  <2>10. RequestInv'
    BY <1>2, <2>5, <2>7, <2>8, <2>9, RequestDone
  <2> QED
    BY <1>3, <2>7, <2>10
<1>6. CASE request.op = "delete" /\ request'.stage = "done"
  <2>1. /\ heap' = [heap EXCEPT ![q] = Edits!Left(q)]
        /\ request' = [request EXCEPT !.stage = "done"]
    BY <1>1, <1>4, <1>6 DEF Edits!Execute, Requests
  <2>2. HeapInv' /\ Kept
    <3>1. heap[q].state \in {"live", "mine"}
      BY <1>1, <1>4, <1>6
    <3> QED
      BY <2>1, <3>1, LeavesStep
  <2>3. PICK entry \in Edits!Entries \union {Edits!NoEntry} : entry = request.new
    BY <1>1 DEF Requests
  <2>4. request' = [request EXCEPT !.stage = "done", !.new = entry]
    BY <1>1, <2>1, <2>3 DEF Requests
  <2>5. RequestInv'
    BY <1>2, <1>6, <2>2, <2>4, RequestDone
  <2> QED
    BY <1>3, <2>2, <2>5
<1>7. CASE request'.stage = "failed"
  <2>1. heap' = heap /\ request' = [request EXCEPT !.stage = "failed"]
    BY <1>1, <1>7 DEF Edits!Execute, Requests
  <2>2. HeapInv' /\ Kept
    BY <2>1, SameHeap
  <2>3. RequestInv'
    BY <2>1, <1>1 DEF RequestInv, Requests, IsTrue, Written
  <2> QED
    BY <1>3, <2>2, <2>3
<1> QED
  BY <1>1, <1>5, <1>6, <1>7 DEF Edits!Execute, Requests

\* Fetches see what is written.
LEMMA GridFetchStep ==
  ASSUME EditsInv, tx \in BOOLEAN,
         Edits!Refresh \/ Edits!Reload \/ Edits!ReadRows \/ Edits!FetchFails \/ Edits!Deliver
  PROVE  EditsInv'
<1> USE DEF Edits!NoFetch, Edits!Asked
<1>1. heap' = heap /\ edit' = edit /\ request' = request
  BY DEF Edits!Refresh, Edits!Reload, Edits!ReadRows, Edits!FetchFails, Edits!Deliver
<1>2. HeapInv' /\ EditInv' /\ RequestInv' /\ Kept
  BY <1>1, SameHeap, HoldersKept
<1>3. CASE Edits!Refresh \/ Edits!Reload
  <2>1. fetch' = Edits!Asked /\ (grid' = grid \/ grid' = {})
    BY <1>3 DEF Edits!Refresh, Edits!Reload
  <2>2. FetchInv'
    BY <2>1 DEF FetchInv, AllTrue
  <2>3. GridInv'
    BY <1>2, <2>1, HoldersKept DEF GridInv, AllTrue
  <2> QED
    BY <1>2, <2>2, <2>3 DEF EditsInv
<1>4. CASE Edits!ReadRows
  <2>1. Edits!View(fetch.inTx) \subseteq Edits!Entries /\ AllTrue(Edits!View(fetch.inTx))
    <3> SUFFICES ASSUME NEW p \in Edits!Places, heap[p].state \in Edits!States(fetch.inTx)
                 PROVE  Edits!Row(p) \in Edits!Entries /\ IsTrue(Edits!Row(p))
      BY DEF Edits!View, AllTrue
    <3>1. heap[p] \in Versions /\ heap[p].state \notin {"free", "theirs"} /\ heap[p].val \in Values
      BY DEF Edits!States, EditsInv, HeapInv
    <3> QED
      BY <3>1 DEF Edits!Row, Edits!Entries, Versions, IsTrue, Written
  <2>2. fetch' = [fetch EXCEPT !.stage = "read", !.rows = Edits!View(fetch.inTx)] /\ grid' = grid
    BY <1>4 DEF Edits!ReadRows
  <2>3. PICK rows : rows = Edits!View(fetch.inTx)
    OBVIOUS
  <2>4. fetch'.rows = rows /\ rows \subseteq Edits!Entries
        /\ fetch' \in [stage : {"idle", "asked", "read"}, inTx : BOOLEAN, rows : SUBSET Edits!Entries]
    BY <2>1, <2>2, <2>3 DEF EditsInv, FetchInv
  <2>5. AllTrue(rows)'
    BY <1>1, <2>1, <2>3 DEF AllTrue, IsTrue, Written
  <2>6. FetchInv'
    BY <2>4, <2>5 DEF FetchInv, AllTrue
  <2> QED
    BY <1>2, <2>2, <2>6, HoldersKept DEF EditsInv
<1>5. CASE Edits!FetchFails
  <2>1. fetch' = Edits!NoFetch /\ grid' = grid
    BY <1>5 DEF Edits!FetchFails
  <2>2. FetchInv'
    BY <2>1 DEF FetchInv, AllTrue
  <2> QED
    BY <1>2, <2>1, <2>2, HoldersKept DEF EditsInv
<1>6. CASE Edits!Deliver
  <2>1. fetch' = Edits!NoFetch /\ grid' = fetch.rows
    BY <1>6 DEF Edits!Deliver
  <2>2. FetchInv'
    BY <2>1 DEF FetchInv, AllTrue
  <2>3. GridInv'
    BY <1>1, <2>1 DEF EditsInv, FetchInv, GridInv, AllTrue, IsTrue, Written
  <2> QED
    BY <1>2, <2>2, <2>3 DEF EditsInv
<1> QED
  BY <1>3, <1>4, <1>5, <1>6

\* An editor opens on a row of the grid, and sends what it shows.
LEMMA EditStep ==
  ASSUME EditsInv, Edits!CancelEdit \/ (\E entry \in grid : Edits!OpenEdit(entry))
              \/ (\E v \in Values : Edits!Save(v) /\ v = edit.val)
  PROVE  EditsInv'
<1>1. heap' = heap /\ fetch' = fetch /\ grid' = grid /\ request' = request
  BY DEF Edits!CancelEdit, Edits!OpenEdit, Edits!Save
<1>2. HeapInv' /\ Kept
  BY <1>1, SameHeap
<1>3. EditInv'
  BY <1>1
     DEF EditsInv, GridInv, AllTrue, EditInv, IsTrue, Written, Edits!CancelEdit, Edits!OpenEdit,
         Edits!Save
<1> QED
  BY <1>1, <1>2, <1>3, HoldersKept DEF EditsInv

LEMMA GridSendStep ==
  ASSUME EditsInv, NEW what \in {"update", "delete", "duplicate"}, NEW entry, NEW v \in Values,
         entry \in grid \/ (entry = edit /\ edit # Edits!NoEntry), Edits!Send(what, entry, v)
  PROVE  EditsInv'
<1>1. heap' = heap /\ fetch' = fetch /\ grid' = grid /\ edit' = edit
  BY DEF Edits!Send
<1>2. HeapInv' /\ Kept
  BY <1>1, SameHeap
<1>3. entry \in Edits!Entries /\ IsTrue(entry)
  BY DEF EditsInv, GridInv, AllTrue, EditInv
<1>4. request' = [op |-> what, row |-> entry, next |-> v, stage |-> "sent",
                  on |-> entry.at, new |-> Edits!NoEntry]
  BY DEF Edits!Send, Edits!NoRequest
<1>5. request' \in Requests /\ entry.at \in Edits!Places
  BY <1>3, <1>4 DEF Requests, Edits!Entries
<1>6. IsTrue(entry)'
  BY <1>1, <1>3 DEF IsTrue, Written
<1>7. RequestInv'
  BY <1>3, <1>4, <1>5, <1>6 DEF RequestInv
<1> QED
  BY <1>1, <1>2, <1>7, HoldersKept DEF EditsInv

\* What enters the cache is the row the request made.
LEMMA GridAnswerStep ==
  ASSUME EditsInv, Edits!Answered \/ Edits!Refused
  PROVE  EditsInv'
<1>1. heap' = heap /\ fetch' = fetch /\ request' = Edits!NoRequest
      /\ edit' \in {edit, Edits!NoEntry}
  BY DEF Edits!Answered, Edits!Refused
<1>2. HeapInv' /\ Kept
  BY <1>1, SameHeap
<1>3. RequestInv'
  BY <1>1 DEF RequestInv, Requests, Edits!NoRequest
<1>4. EditInv'
  BY <1>1, <1>2, HoldersKept DEF EditInv
<1>5. GridInv'
  <2>1. \A r \in grid' : r \in grid \/ (r \in Edits!Entries /\ IsTrue(r))
    <3>1. request.stage = "done" /\ request.op # "delete" =>
            request.new \in Edits!Entries /\ IsTrue(request.new)
      BY DEF EditsInv, RequestInv
    <3> QED
      BY <3>1 DEF Edits!Answered, Edits!Refused, Edits!Changed
  <2>2. \A r \in grid' : r \in Edits!Entries /\ IsTrue(r)
    BY <2>1 DEF EditsInv, GridInv, AllTrue
  <2> QED
    BY <1>1, <2>2 DEF GridInv, AllTrue, IsTrue, Written
<1> QED
  BY <1>1, <1>2, <1>3, <1>4, <1>5, HoldersKept DEF EditsInv

\* A commit or rollback changes who sees a version, never the version.
LEMMA GridEndStep ==
  ASSUME EditsInv, tx \in BOOLEAN, NEW commit \in BOOLEAN, Edits!End(commit)
  PROVE  EditsInv'
<1>1. \A p \in Edits!Places : heap[p] \in Versions
  BY DEF EditsInv, HeapInv
<1>2. \A p \in Edits!Places :
        /\ heap'[p] = [heap[p] EXCEPT !.state = Edits!Outcome(heap[p].state, commit)]
        /\ Edits!Outcome(heap[p].state, commit) \in
             IF heap[p].state \in {"mine", "gone"} THEN {"live", "dead"} ELSE {heap[p].state}
  BY DEF Edits!End, Edits!Outcome
<1>3. \A p \in Edits!Places :
        /\ heap'[p] \in Versions
        /\ heap'[p].val = heap[p].val /\ heap'[p].turn = heap[p].turn
        /\ heap'[p].next = heap[p].next
        /\ heap'[p].state \in
             IF heap[p].state \in {"mine", "gone"} THEN {"live", "dead"} ELSE {heap[p].state}
  BY <1>1, <1>2 DEF Versions, Edits!StateNames
<1>4. HeapInv' /\ Kept
  <2>1. heap' \in [Edits!Places -> Versions]
    BY <1>3 DEF Edits!End
  <2>2. \A p \in Edits!Places : heap'[p].next # 0 => heap'[heap'[p].next].state = "theirs"
    <3> SUFFICES ASSUME NEW p \in Edits!Places, heap'[p].next # 0
                 PROVE  heap'[heap'[p].next].state = "theirs"
      OBVIOUS
    <3>1. heap[p].next \in Edits!Places /\ heap[heap[p].next].state = "theirs"
      BY <1>1, <1>3 DEF EditsInv, HeapInv, Versions
    <3> QED
      BY <1>3, <3>1
  <2>3. HeapInv'
    <3>1. \A p \in Edits!Places :
            /\ heap'[p].state = "free" <=> heap[p].state = "free"
            /\ heap'[p].state = "taken" <=> heap[p].state = "taken"
            /\ heap'[p].val = heap[p].val /\ heap'[p].next = heap[p].next
      BY <1>3
    <3> QED
      BY <2>1, <2>2, <3>1 DEF EditsInv, HeapInv
  <2>4. Kept
    <3>1. \A p \in Edits!Places :
            /\ heap[p].turn \in Nat /\ heap'[p].turn = heap[p].turn /\ heap'[p].val = heap[p].val
      BY <1>1, <1>3, VersionFields
    <3>2. \A p \in Edits!Places :
            heap[p].state \notin {"free", "theirs"} => heap'[p].state \notin {"free", "theirs"}
      BY <1>3
    <3> QED
      BY <3>1, <3>2 DEF Kept
  <2> QED
    BY <2>3, <2>4
<1>5. FetchInv'
  <2>1. CASE fetch' = fetch
    BY <1>4, <2>1, HoldersKept
  <2>2. CASE fetch' # fetch
    <3>1. fetch' = [Edits!Asked EXCEPT !.inTx = FALSE]
      BY <2>2 DEF Edits!End, Edits!Restarted
    <3> QED
      BY <3>1 DEF Edits!Asked, FetchInv, AllTrue
  <2> QED
    BY <2>1, <2>2
<1>6. grid' = grid /\ edit' = edit /\ request' = request
  BY DEF Edits!End
<1> QED
  BY <1>4, <1>5, <1>6, HoldersKept DEF EditsInv

-----------------------------------------------------------------------------
(* The specification. *)

TxInv == tx \in BOOLEAN

LEMMA EditsStep ==
  ASSUME Edits!Assumptions, EditsInv, TxInv, [Edits!Next]_Edits!vars
  PROVE  EditsInv' /\ TxInv'
<1> USE DEF TxInv
<1>1. TxInv'
  BY DEF Edits!Next, Edits!vars, Edits!OtherUpdates, Edits!OtherDeletes, Edits!OtherCommits,
         Edits!OtherRollsBack, Edits!Reclaim, Edits!Execute,
         Edits!Refresh, Edits!Reload, Edits!ReadRows, Edits!FetchFails, Edits!Deliver,
         Edits!OpenEdit, Edits!CancelEdit, Edits!Save, Edits!Send, Edits!Answered,
         Edits!Refused, Edits!End
<1>2. ASSUME NEW p \in Edits!Places, NEW v \in Values, Edits!OtherUpdates(p, v) PROVE EditsInv'
  BY <1>2, OtherUpdatesStep
<1>3. ASSUME NEW p \in Edits!Places,
             \/ Edits!OtherDeletes(p) \/ Edits!Reclaim(p)
             \/ Edits!OtherCommits(p) \/ Edits!OtherRollsBack(p)
      PROVE  EditsInv'
  BY <1>3, OtherDeletesStep, ReclaimStep, OtherCommitsStep, OtherRollsBackStep
<1>4. CASE Edits!Execute
  BY <1>1, <1>4, GridExecuteStep
<1>5. CASE Edits!Refresh \/ Edits!Reload \/ Edits!ReadRows \/ Edits!FetchFails \/ Edits!Deliver
  BY <1>1, <1>5, GridFetchStep
<1>6. CASE Edits!CancelEdit \/ \E entry \in grid : Edits!OpenEdit(entry)
  BY <1>1, <1>6, EditStep
<1>7. ASSUME NEW v \in Values, Edits!Save(v) PROVE EditsInv'
  <2>1. CASE v = edit.val
    BY <1>7, <2>1, EditStep
  <2>2. CASE v # edit.val
    BY <1>7, <2>2, GridSendStep DEF Edits!Save
  <2> QED
    BY <2>1, <2>2
<1>8. ASSUME NEW entry \in grid, NEW what \in {"delete", "duplicate"}, Edits!Send(what, entry, entry.val)
      PROVE  EditsInv'
  BY <1>8, GridSendStep DEF EditsInv, GridInv, Edits!Entries
<1>9. CASE Edits!Answered \/ Edits!Refused
  BY <1>1, <1>9, GridAnswerStep
<1>10. ASSUME NEW commit \in BOOLEAN, Edits!End(commit) PROVE EditsInv'
  BY <1>10, GridEndStep
<1>11. CASE UNCHANGED Edits!vars
  BY <1>1, <1>11
     DEF Edits!vars, EditsInv, HeapInv, FetchInv, GridInv, EditInv, RequestInv, AllTrue, IsTrue,
         Written
<1> QED
  BY <1>1, <1>2, <1>3, <1>4, <1>5, <1>6, <1>7, <1>8, <1>9, <1>10, <1>11 DEF Edits!Next

\* The invariant holds of every behaviour: whatever the grid, a fetch, the
\* editor or a request holds of a row was written at that place.
THEOREM EditsInvariance == Edits!Assumptions /\ Edits!Spec => [](EditsInv /\ TxInv)
<1> SUFFICES ASSUME Edits!Assumptions PROVE Edits!Spec => [](EditsInv /\ TxInv)
  OBVIOUS
<1>1. Edits!Init => EditsInv /\ TxInv
  BY EditsInit DEF Edits!Init, TxInv
<1>2. EditsInv /\ TxInv /\ [Edits!Next]_Edits!vars => EditsInv' /\ TxInv'
  BY EditsStep
<1> QED
  BY <1>1, <1>2, PTL DEF Edits!Spec

\* A row operation that succeeds at the place it was sent to hits the row as the
\* user saw it, unless the space of that row has been used again
\* (useUpdateRowMutation, update_row), for any number of rows, values, changes by
\* other sessions and transactions.
THEOREM EditsHit == Edits!Assumptions /\ Edits!Spec => EditsHitWhatIsShown
<1>1. EditsInv /\ TxInv /\ [Edits!Next]_Edits!vars =>
        [Edits!Execute /\ request'.stage = "done" /\ Edits!Undisturbed =>
           heap[request.on].val = request.row.val]_Edits!vars
  BY ExecuteFinds DEF IsTrue, Edits!Undisturbed
<1> QED
  BY <1>1, EditsInvariance, PTL
     DEF Edits!Spec, Edits!EditsHitWhatIsShown, EditsHitWhatIsShown
-----------------------------------------------------------------------------
(* What is open, and what the grid shows when nothing is.                  *)

\* Only an open transaction has requests and versions of its own, and places
\* that are free hold no value.
OpenInv ==
  /\ tx \in BOOLEAN /\ aged \in BOOLEAN
  /\ request # Edits!NoRequest => tx
  /\ \A p \in Edits!Places : heap[p].state \in {"mine", "gone"} => tx
  /\ \A p \in Edits!Places : heap[p].state = "free" => heap[p].val = 0

\* What a fetch has read, and what the grid shows when none is under way.
Settled ==
  ~tx /\ ~aged =>
    /\ fetch.stage = "read" => fetch.rows = Edits!View(FALSE)
    /\ loaded /\ fetch.stage = "idle" => grid = Edits!View(FALSE)

LEMMA InitOpen == Edits!Assumptions /\ Edits!Init => OpenInv /\ Settled
<1> SUFFICES ASSUME Edits!Assumptions, Edits!Init PROVE OpenInv /\ Settled
  OBVIOUS
<1>1. ASSUME NEW p \in Edits!Places
      PROVE  /\ heap[p].state \notin {"mine", "gone"}
             /\ heap[p].state = "free" => heap[p].val = 0
  BY DEF Edits!Init, Edits!Version
<1>2. tx \in BOOLEAN /\ aged \in BOOLEAN /\ request = Edits!NoRequest
  BY DEF Edits!Init
<1>3. OpenInv
  BY <1>1, <1>2 DEF OpenInv
<1>4. fetch.stage = "asked"
  BY DEF Edits!Init, Edits!NoFetch
<1> QED
  BY <1>3, <1>4 DEF Settled

\* A step of others makes no version the transaction's own.
LEMMA OthersOpen ==
  ASSUME EditsInv, OpenInv, NEW p \in Edits!Places,
         \/ \E v \in Values : Edits!OtherUpdates(p, v)
         \/ Edits!OtherDeletes(p) \/ Edits!OtherCommits(p)
         \/ Edits!OtherRollsBack(p) \/ Edits!Reclaim(p)
  PROVE  OpenInv'
<1>1. heap \in [Edits!Places -> Versions]
  BY DEF EditsInv, HeapInv
<1>2. \A q \in Edits!Places : heap[q] \in Versions
  BY <1>1
<1>3. ASSUME NEW q \in Edits!Places
      PROVE  /\ heap'[q].state \in {"mine", "gone"} => heap'[q].state = heap[q].state
             /\ heap'[q].state = "free" => heap'[q].val = 0
  <2>1. CASE \E v \in Values : Edits!OtherUpdates(p, v)
    <3>1. PICK v \in Values : Edits!OtherUpdates(p, v)
      BY <2>1
    <3>2. PICK n \in Edits!Places : n = Edits!NextPlace /\ heap[n].state = "free" /\ n # p
      BY <3>1, NextPlaceIsFree DEF Edits!OtherUpdates
    <3>3. heap' = [heap EXCEPT ![p] = [heap[p] EXCEPT !.state = "taken", !.next = n],
                               ![n] = Edits!Version(v, "theirs", heap[n].turn)]
      BY <3>1, <3>2 DEF Edits!OtherUpdates, Edits!New
    <3>4. heap'[q].state \in {"taken", "theirs"} \/ heap'[q] = heap[q]
      BY <1>1, <1>2, <3>2, <3>3 DEF Edits!Version, Versions
    <3> QED
      BY <3>4 DEF OpenInv
  <2>2. CASE Edits!OtherDeletes(p)
    <3>1. heap'[q].state = "taken" \/ heap'[q] = heap[q]
      BY <1>1, <1>2, <2>2 DEF Edits!OtherDeletes, Versions
    <3> QED
      BY <3>1 DEF OpenInv
  <2>3. CASE Edits!OtherCommits(p)
    <3>1. heap'[q].state \in {"dead", "live"} \/ heap'[q] = heap[q]
      BY <1>2, <2>3 DEF Edits!OtherCommits, Versions
    <3> QED
      BY <3>1 DEF OpenInv
  <2>4. CASE Edits!OtherRollsBack(p)
    <3>1. \/ heap'[q].state = "live" \/ heap'[q] = heap[q]
          \/ heap'[q] = Edits!Version(0, "free", heap[q].turn)
      BY <1>2, <2>4 DEF Edits!OtherRollsBack, Versions
    <3> QED
      BY <3>1 DEF OpenInv, Edits!Version
  <2>5. CASE Edits!Reclaim(p)
    <3>1. heap'[q] = heap[q] \/ heap'[q] = Edits!Version(0, "free", heap[q].turn + 1)
      BY <1>1, <2>5 DEF Edits!Reclaim
    <3> QED
      BY <3>1 DEF OpenInv, Edits!Version
  <2> QED
    BY <2>1, <2>2, <2>3, <2>4, <2>5
<1>4. tx' = tx /\ aged' \in BOOLEAN
  BY DEF OpenInv, Edits!OtherUpdates, Edits!OtherDeletes, Edits!OtherCommits,
         Edits!OtherRollsBack, Edits!Reclaim
<1>5. request' # Edits!NoRequest => request # Edits!NoRequest
  BY DEF Edits!OtherUpdates, Edits!OtherDeletes, Edits!OtherCommits, Edits!OtherRollsBack,
         Edits!Reclaim, Edits!Waits, Edits!NoRequest
<1> QED
  BY <1>3, <1>4, <1>5 DEF OpenInv

\* A step that is no statement, end or change by others leaves the versions alone.
LEMMA OpenStep ==
  ASSUME EditsInv, OpenInv, [Edits!Next]_Edits!vars
  PROVE  OpenInv'
<1>1. ASSUME NEW p \in Edits!Places,
             \/ \E v \in Values : Edits!OtherUpdates(p, v)
             \/ Edits!OtherDeletes(p) \/ Edits!Reclaim(p)
             \/ Edits!OtherCommits(p) \/ Edits!OtherRollsBack(p)
      PROVE  OpenInv'
  BY <1>1, OthersOpen
<1>2. CASE Edits!Execute
  <2>1. tx /\ tx' = tx /\ aged' = aged
    BY <1>2 DEF Edits!Execute, Edits!NoRequest, OpenInv
  <2>2. /\ request.on \in Edits!Places /\ request \in Requests /\ request.op # "none"
        /\ request'.stage = "done" => heap[request.on].state \in {"live", "mine", "taken"}
    BY <1>2, ExecuteFinds
  <2>3. PICK q \in Edits!Places : q = request.on
    BY <2>2
  <2>4. \A p \in Edits!Places : heap[p] \in Versions
    BY DEF EditsInv, HeapInv
  <2>5. Edits!Left(q).state \in {"dead", "gone"}
    BY <2>4 DEF Edits!Left, Versions
  <2>6. \A v : Edits!Mine(v).state = "mine"
    BY DEF Edits!Mine, Edits!New, Edits!Version
  <2>7. \A p \in Edits!Places :
          heap'[p] \in {heap[p], Edits!Left(q), Edits!Mine(request.next), Edits!Mine(heap[q].val)}
    BY <1>2, <2>3 DEF Edits!Execute, EditsInv, HeapInv
  <2>8. \A p \in Edits!Places : heap'[p].state = "free" => heap'[p] = heap[p]
    BY <2>5, <2>6, <2>7
  <2> QED
    BY <2>1, <2>8 DEF OpenInv
<1>3. CASE Edits!Refresh \/ Edits!Reload \/ Edits!ReadRows \/ Edits!FetchFails \/ Edits!Deliver
  BY <1>3 DEF OpenInv, Edits!Refresh, Edits!Reload, Edits!ReadRows, Edits!FetchFails, Edits!Deliver
<1>4. CASE Edits!CancelEdit \/ \E entry \in grid : Edits!OpenEdit(entry)
  BY <1>4 DEF OpenInv, Edits!CancelEdit, Edits!OpenEdit
<1>5. ASSUME NEW v \in Values, Edits!Save(v) PROVE OpenInv'
  BY <1>5 DEF OpenInv, Edits!Save, Edits!Send
<1>6. ASSUME NEW entry \in grid, NEW what \in {"delete", "duplicate"}, Edits!Send(what, entry, entry.val)
      PROVE  OpenInv'
  BY <1>6 DEF OpenInv, Edits!Send
<1>7. CASE Edits!Answered \/ Edits!Refused
  BY <1>7 DEF OpenInv, Edits!Answered, Edits!Refused
<1>8. ASSUME NEW commit \in BOOLEAN, Edits!End(commit) PROVE OpenInv'
  <2>1. \A p \in Edits!Places : heap[p] \in Versions
    BY DEF EditsInv, HeapInv
  <2>2. ASSUME NEW p \in Edits!Places
        PROVE  /\ heap'[p].state \notin {"mine", "gone"}
               /\ heap'[p].val = heap[p].val
               /\ heap'[p].state = "free" => heap[p].state = "free"
    <3>1. heap'[p] = [heap[p] EXCEPT !.state = Edits!Outcome(heap[p].state, commit)]
      BY <1>8 DEF Edits!End
    <3>2. /\ Edits!Outcome(heap[p].state, commit) \notin {"mine", "gone"}
          /\ Edits!Outcome(heap[p].state, commit) = "free" => heap[p].state = "free"
      BY DEF Edits!Outcome
    <3> QED
      BY <2>1, <3>1, <3>2 DEF Versions
  <2>3. request' = Edits!NoRequest /\ aged' \in BOOLEAN /\ tx' = FALSE
    BY <1>8 DEF Edits!End
  <2> QED
    BY <2>2, <2>3 DEF OpenInv
<1>9. CASE UNCHANGED Edits!vars
  BY <1>9 DEF OpenInv, Edits!vars
<1> QED
  BY <1>1, <1>2, <1>3, <1>4, <1>5, <1>6, <1>7, <1>8, <1>9 DEF Edits!Next

\* A statement sees the same rows when the versions it sees are the same.
LEMMA SameView ==
  ASSUME \A p \in Edits!Places :
           /\ heap'[p].state \in Edits!States(FALSE) <=> heap[p].state \in Edits!States(FALSE)
           /\ heap[p].state \in Edits!States(FALSE) =>
                heap'[p].val = heap[p].val /\ heap'[p].turn = heap[p].turn
  PROVE  Edits!View(FALSE)' = Edits!View(FALSE)
<1>1. \A p \in Edits!Places : heap[p].state \in Edits!States(FALSE) => Edits!Row(p)' = Edits!Row(p)
  BY DEF Edits!Row
<1>2. {q \in Edits!Places : heap'[q].state \in Edits!States(FALSE)} =
        {q \in Edits!Places : heap[q].state \in Edits!States(FALSE)}
  OBVIOUS
<1>3. Edits!View(FALSE)' =
        {Edits!Row(p)' : p \in {q \in Edits!Places : heap'[q].state \in Edits!States(FALSE)}}
  BY DEF Edits!View, Edits!Row, Edits!States
<1> QED
  BY <1>1, <1>2, <1>3 DEF Edits!View

\* Nobody sees what another session does before it commits, nor what the server
\* clears away.
LEMMA OthersUnseen ==
  ASSUME EditsInv, NEW p \in Edits!Places,
         \/ \E v \in Values : Edits!OtherUpdates(p, v)
         \/ Edits!OtherDeletes(p) \/ Edits!OtherRollsBack(p) \/ Edits!Reclaim(p)
  PROVE  Edits!View(FALSE)' = Edits!View(FALSE)
<1> USE DEF Edits!States
<1>1. heap \in [Edits!Places -> Versions]
  BY DEF EditsInv, HeapInv
<1>2. \A q \in Edits!Places : heap[q] \in Versions
  BY <1>1
<1>3. CASE \E v \in Values : Edits!OtherUpdates(p, v)
  <2>1. PICK v \in Values : Edits!OtherUpdates(p, v)
    BY <1>3
  <2>2. PICK n \in Edits!Places : n = Edits!NextPlace /\ heap[n].state = "free" /\ n # p
    BY <2>1, NextPlaceIsFree DEF Edits!OtherUpdates
  <2>3. heap' = [heap EXCEPT ![p] = [heap[p] EXCEPT !.state = "taken", !.next = n],
                             ![n] = Edits!Version(v, "theirs", heap[n].turn)]
    BY <2>1, <2>2 DEF Edits!OtherUpdates, Edits!New
  <2>4. /\ heap'[p].state = "taken" /\ heap'[p].val = heap[p].val /\ heap'[p].turn = heap[p].turn
        /\ heap'[n].state = "theirs" /\ heap[p].state = "live"
        /\ \A q \in Edits!Places \ {p, n} : heap'[q] = heap[q]
    BY <1>1, <1>2, <2>1, <2>2, <2>3 DEF Edits!Version, Versions, Edits!OtherUpdates
  <2> QED
    BY <2>2, <2>4, SameView
<1>4. CASE Edits!OtherDeletes(p)
  <2>1. /\ heap'[p].state = "taken" /\ heap'[p].val = heap[p].val /\ heap'[p].turn = heap[p].turn
        /\ heap[p].state = "live" /\ \A q \in Edits!Places \ {p} : heap'[q] = heap[q]
    BY <1>1, <1>2, <1>4 DEF Versions, Edits!OtherDeletes
  <2> QED
    BY <2>1, SameView
<1>5. CASE Edits!OtherRollsBack(p)
  <2>1. PICK n \in Edits!Places \union {0} :
          n = heap[p].next /\ n # p /\ (n # 0 => heap[n].state = "theirs")
    BY <1>5, OneIsTaken DEF EditsInv, HeapInv, Edits!OtherRollsBack
  <2>2. \A q \in Edits!Places :
          heap'[q] = IF q = p THEN [heap[p] EXCEPT !.state = "live", !.next = 0]
                     ELSE IF q = n THEN Edits!Version(0, "free", heap[q].turn) ELSE heap[q]
    BY <1>5, <2>1 DEF Edits!OtherRollsBack
  <2>3. /\ heap'[p].state = "live" /\ heap'[p].val = heap[p].val /\ heap'[p].turn = heap[p].turn
        /\ heap[p].state = "taken"
        /\ \A q \in Edits!Places \ {p} :
             heap'[q] = heap[q] \/ (heap'[q].state = "free" /\ heap[q].state = "theirs")
    <3>1. heap[p].state = "taken"
      BY <1>5 DEF Edits!OtherRollsBack
    <3>2. PICK h \in Versions : h = heap[p]
      BY <1>2
    <3>3. heap'[p] = [val |-> h.val, state |-> "live", turn |-> h.turn, next |-> 0]
      BY <2>2, <3>2 DEF Versions
    <3>4. n \in Edits!Places => heap[n].state = "theirs"
      BY <2>1, NoPlace
    <3>5. ASSUME NEW q \in Edits!Places \ {p}
          PROVE  heap'[q] = heap[q] \/ (heap'[q].state = "free" /\ heap[q].state = "theirs")
      <4>1. CASE q = n
        <5>1. heap'[q] = Edits!Version(0, "free", heap[q].turn)
          BY <2>2, <4>1
        <5> QED
          BY <3>4, <4>1, <5>1 DEF Edits!Version
      <4>2. CASE q # n
        BY <2>2, <4>2
      <4> QED
        BY <4>1, <4>2
    <3> QED
      BY <3>1, <3>2, <3>3, <3>5
  <2> QED
    BY <2>3, SameView
<1>6. CASE Edits!Reclaim(p)
  <2>1. /\ heap'[p].state = "free" /\ heap[p].state = "dead"
        /\ \A q \in Edits!Places \ {p} : heap'[q] = heap[q]
    BY <1>1, <1>6 DEF Edits!Version, Edits!Reclaim
  <2> QED
    BY <2>1, SameView
<1> QED
  BY <1>3, <1>4, <1>5, <1>6

\* Outside of a transaction a fetch reads what is committed; the end of one
\* starts a fetch, or leaves the grid aged.
LEMMA SettledStep ==
  ASSUME EditsInv, OpenInv, Settled, [Edits!Next]_Edits!vars
  PROVE  Settled'
<1> USE DEF Settled
<1>1. heap' = heap => Edits!View(FALSE)' = Edits!View(FALSE)
  BY SameView
<1>2. ASSUME NEW p \in Edits!Places,
             \/ \E v \in Values : Edits!OtherUpdates(p, v)
             \/ Edits!OtherDeletes(p) \/ Edits!OtherRollsBack(p) \/ Edits!Reclaim(p)
      PROVE  Settled'
  <2>1. Edits!View(FALSE)' = Edits!View(FALSE)
    BY <1>2, OthersUnseen
  <2>2. UNCHANGED <<tx, aged, fetch, loaded, grid>>
    BY <1>2 DEF Edits!OtherUpdates, Edits!OtherDeletes, Edits!OtherRollsBack, Edits!Reclaim
  <2> QED
    BY <2>1, <2>2
<1>3. ASSUME NEW p \in Edits!Places, Edits!OtherCommits(p) PROVE Settled'
  BY <1>3 DEF Edits!OtherCommits
<1>4. CASE Edits!Execute
  BY <1>4 DEF OpenInv, Edits!Execute, Edits!NoRequest
<1>5. CASE Edits!Refresh \/ Edits!Reload
  <2>1. fetch'.stage = "asked"
    BY <1>5 DEF Edits!Refresh, Edits!Reload, Edits!Asked
  <2> QED
    BY <2>1
<1>6. CASE Edits!ReadRows
  <2>1. ~tx => fetch'.stage = "read" /\ fetch'.rows = Edits!View(FALSE)
    BY <1>6 DEF Edits!ReadRows, EditsInv, FetchInv, OpenInv
  <2> QED
    BY <1>6, <1>1, <2>1 DEF Edits!ReadRows
<1>7. CASE Edits!FetchFails
  BY <1>7 DEF Edits!FetchFails
<1>8. CASE Edits!Deliver
  <2>1. fetch'.stage = "idle" /\ heap' = heap /\ tx' = tx
    BY <1>8 DEF Edits!Deliver, Edits!NoFetch
  <2>2. fetch.stage = "read" /\ grid' = fetch.rows /\ aged' = aged
    BY <1>8 DEF Edits!Deliver
  <2> QED
    BY <2>1, <2>2, <1>1
<1>9. CASE Edits!CancelEdit \/ \E entry \in grid : Edits!OpenEdit(entry)
  BY <1>9, <1>1 DEF Edits!CancelEdit, Edits!OpenEdit
<1>10. ASSUME NEW v \in Values, Edits!Save(v) PROVE Settled'
  BY <1>10, <1>1 DEF Edits!Save, Edits!Send
<1>11. ASSUME NEW entry \in grid, NEW what \in {"delete", "duplicate"}, Edits!Send(what, entry, entry.val)
       PROVE  Settled'
  BY <1>11 DEF Edits!Send
<1>12. CASE Edits!Answered \/ Edits!Refused
  BY <1>12, <1>1 DEF OpenInv, Edits!Answered, Edits!Refused, Edits!NoRequest
<1>13. ASSUME NEW commit \in BOOLEAN, Edits!End(commit) PROVE Settled'
  <2>1. fetch' = fetch \/ fetch'.stage = "asked"
    BY <1>13 DEF Edits!End, Edits!Restarted, Edits!Asked
  <2>2. fetch' = fetch => fetch.stage = "asked" \/ (~loaded /\ fetch.stage # "idle")
    BY <1>13 DEF Edits!End, Edits!Restarted, Edits!Asked
  <2>3. aged' = (aged \/ ~loaded) /\ loaded' = loaded
    BY <1>13 DEF Edits!End
  <2> QED
    BY <2>1, <2>2, <2>3
<1>14. CASE UNCHANGED Edits!vars
  BY <1>14, <1>1 DEF Edits!vars
<1> QED
  BY <1>2, <1>3, <1>4, <1>5, <1>6, <1>7, <1>8, <1>9, <1>10, <1>11, <1>12, <1>13, <1>14
     DEF Edits!Next

\* Both hold of every behaviour.
LEMMA Openness == Edits!Assumptions /\ Edits!Spec => [](OpenInv /\ Settled)
<1>1. EditsInv /\ OpenInv /\ Settled /\ [Edits!Next]_Edits!vars => OpenInv' /\ Settled'
  BY OpenStep, SettledStep
<1>2. Edits!Assumptions /\ Edits!Init => OpenInv /\ Settled
  BY InitOpen
<1> QED
  BY <1>1, <1>2, EditsInvariance, PTL DEF Edits!Spec

\* The state of the grid, the requests and the table keeps its types, and a
\* row operation is under way only while the transaction is open
\* (runTableTransaction), for any number of rows and values.
THEOREM EditsTypeCorrect == Edits!Assumptions /\ Edits!Spec => []Edits!TypeOK
<1> SUFFICES ASSUME Edits!Assumptions PROVE Edits!Spec => []Edits!TypeOK
  OBVIOUS
<1>1. EditsInv /\ OpenInv => Edits!TypeOK
  <2> SUFFICES ASSUME EditsInv, OpenInv PROVE Edits!TypeOK
    OBVIOUS
  <2>1. ASSUME NEW p \in Edits!Places
        PROVE  /\ heap[p].state \in Edits!StateNames
               /\ heap[p].state = "free" <=> heap[p].val \notin Values
               /\ heap[p].state \in {"mine", "gone"} => tx
               /\ heap[p].turn \in 0..MaxTurns /\ heap[p].next \in Edits!Places \union {0}
    <3>1. heap[p] \in Versions /\ (heap[p].state # "free" => heap[p].val \in Values)
      BY DEF EditsInv, HeapInv
    <3>2. heap[p].state = "free" => heap[p].val \notin Values
      BY DEF OpenInv, Edits!Assumptions
    <3> QED
      BY <3>1, <3>2 DEF Versions, OpenInv
  <2>2. /\ grid \subseteq Edits!Entries /\ fetch.stage \in {"idle", "asked", "read"}
        /\ fetch.rows \subseteq Edits!Entries /\ edit \in Edits!Entries \union {Edits!NoEntry}
    BY DEF EditsInv, GridInv, FetchInv, EditInv
  <2>3. request.stage \in {"idle", "sent", "done", "failed"}
    BY DEF EditsInv, RequestInv, Requests
  <2> QED
    BY <2>1, <2>2, <2>3 DEF Edits!TypeOK, OpenInv
<1> QED
  BY <1>1, EditsInvariance, Openness, PTL

\* When everything has settled the grid shows what is committed (handleCommit,
\* handleRollback), however many fetches, edits and ends overlapped before.
THEOREM GridSettles == Edits!Assumptions /\ Edits!Spec => []SettledGridIsCommitted
<1>1. Settled => SettledGridIsCommitted
  BY DEF Settled, SettledGridIsCommitted, Edits!SettledGridIsCommitted, Edits!NoFetch
<1> QED
  BY <1>1, Openness, PTL
-----------------------------------------------------------------------------
(* The comparison of two tables and its script, for any finite set of keys *)
(* and any columns, values and number of changes by other sessions.        *)

LEMMA OtherSide ==
  ASSUME NEW s \in Compare!Sides
  PROVE  /\ Compare!Other(s) \in Compare!Sides
         /\ Compare!Other(s) # s
         /\ Compare!Other(Compare!Other(s)) = s
  BY DEF Compare!Sides, Compare!Other

LEMMA SameCardinality ==
  ASSUME NEW S
  PROVE  Compare!Cardinality(S) = Cardinality(S)
  BY DEF Compare!Cardinality, Cardinality

\* SetToSeq has every element of a finite set, once.
LEMMA SetToSeqLists ==
  ASSUME NEW S, IsFiniteSet(S)
  PROVE  LET f == Compare!SetToSeq(S) IN
           /\ f \in Seq(S) /\ Len(f) = Cardinality(S)
           /\ \A m, n \in 1..Len(f) : f[m] = f[n] => m = n
           /\ \A x \in S : \E n \in 1..Len(f) : f[n] = x
<1> DEFINE c == Cardinality(S)
           f == Compare!SetToSeq(S)
<1>1. c \in Nat /\ \E g \in [1..c -> S] : \A m, n \in 1..c : g[m] = g[n] => m = n
  BY FS_CardinalityType DEF ExistsBijection, Bijection, Injection, IsInjective
<1>2. f \in [1..c -> S] /\ \A m, n \in 1..c : f[m] = f[n] => m = n
  BY <1>1, SameCardinality DEF Compare!SetToSeq, Compare!IsInjective
<1>3. f \in Seq(S) /\ Len(f) = c
  BY <1>1, <1>2
<1>4. f \in Surjection(1..c, S)
  <2>1. f \in Injection(1..c, S)
    BY <1>2 DEF Injection, IsInjective
  <2>2. Cardinality(1..c) = c
    BY <1>1, FS_Interval
  <2> HIDE DEF f, c
  <2> QED
    BY <2>1, <2>2, FS_Injection DEF c
<1>5. \A x \in S : \E n \in 1..c : f[n] = x
  BY <1>4 DEF Surjection
<1> QED
  BY <1>2, <1>3, <1>5

\* Both tables have been read.
TablesAreRead == \A s \in Compare!Sides : read[s] \in Compare!Tables

\* What a script does about a key: nothing, or the one statement it needs.
Needed(k, t) == Compare!Missing(k, t) \/ Compare!Differs(k, t)
StatementFor(k, t) ==
  IF Compare!Missing(k, t) THEN Compare!Insert(k, t) ELSE Compare!Update(k, t)

\* A script for side t has, once each, statements that keys among the chosen need.
IsScriptFor(seq, chosen, t) ==
  /\ \A n \in 1..Len(seq) :
       /\ seq[n].key \in chosen /\ Needed(seq[n].key, t)
       /\ seq[n] = StatementFor(seq[n].key, t)
  /\ \A m, n \in 1..Len(seq) : seq[m].key = seq[n].key => m = n

LEMMA StatementFields ==
  ASSUME NEW k, NEW t
  PROVE  /\ StatementFor(k, t).key = k
         /\ StatementFor(k, t).row = read[Compare!Other(t)][k]
         /\ Compare!Missing(k, t) => /\ StatementFor(k, t).op = "insert"
                                     /\ StatementFor(k, t) = Compare!Insert(k, t)
         /\ Compare!Differs(k, t) => /\ StatementFor(k, t).op = "update"
                                     /\ StatementFor(k, t).was = read[t][k]
                                     /\ StatementFor(k, t) = Compare!Update(k, t)
  BY DEF StatementFor, Compare!Insert, Compare!Update, Compare!Missing, Compare!Differs

\* buildSyncScript has exactly the statements that are needed.
LEMMA ScriptIsComplete ==
  ASSUME IsFiniteSet(Keys), NEW chosen \in SUBSET Keys, NEW t \in Compare!Sides
  PROVE  LET seq == Compare!Script(chosen, t) IN
           /\ IsScriptFor(seq, chosen, t)
           /\ \A k \in chosen : Needed(k, t) => \E n \in 1..Len(seq) : seq[n].key = k
           /\ Len(seq) \in Nat
           /\ seq \in Seq({StatementFor(k, t) : k \in chosen})
<1> DEFINE mis == {k \in chosen : Compare!Missing(k, t)}
           dif == {k \in chosen : Compare!Differs(k, t)}
           ins == {Compare!Insert(k, t) : k \in mis}
           upd == {Compare!Update(k, t) : k \in dif}
           f == Compare!SetToSeq(ins)
           g == Compare!SetToSeq(upd)
           all == {StatementFor(k, t) : k \in chosen}
           seq == Compare!Script(chosen, t)
<1>1. IsFiniteSet(ins) /\ IsFiniteSet(upd)
  <2>1. IsFiniteSet(mis) /\ IsFiniteSet(dif)
    BY FS_Subset
  <2> HIDE DEF mis, dif
  <2>2. /\ [k \in mis |-> Compare!Insert(k, t)] \in Surjection(mis, ins)
        /\ [k \in dif |-> Compare!Update(k, t)] \in Surjection(dif, upd)
    BY DEF Surjection
  <2> HIDE DEF ins, upd
  <2> QED
    BY <2>1, <2>2, FS_Surjection
<1>2. ins \subseteq all /\ upd \subseteq all
  BY StatementFields
<1>3. /\ f \in Seq(all) /\ g \in Seq(all)
      /\ \A n \in 1..Len(f) : f[n] \in ins
      /\ \A n \in 1..Len(g) : g[n] \in upd
  <2>1. f \in Seq(ins) /\ g \in Seq(upd)
    BY <1>1, SetToSeqLists
  <2> HIDE DEF f, g, ins, upd, all
  <2> QED
    BY <2>1, <1>2
<1>4. /\ seq \in Seq(all) /\ Len(seq) = Len(f) + Len(g)
      /\ \A n \in 1..Len(f) : seq[n] = f[n]
      /\ \A n \in 1..Len(g) : seq[Len(f) + n] = g[n]
      /\ \A n \in 1..Len(seq) : n > Len(f) => n - Len(f) \in 1..Len(g) /\ seq[n] = g[n - Len(f)]
  <2>1. seq = f \o g
    BY DEF Compare!Script
  <2> HIDE DEF f, g, seq, all
  <2> QED
    BY <2>1, <1>3
<1>5. \A x \in ins : /\ x.key \in chosen /\ Compare!Missing(x.key, t)
                     /\ x = StatementFor(x.key, t)
  BY StatementFields
<1>6. \A x \in upd : /\ x.key \in chosen /\ Compare!Differs(x.key, t)
                     /\ x = StatementFor(x.key, t)
  BY StatementFields
<1>7. \A m, n \in 1..Len(f) : f[m].key = f[n].key => m = n
  <2>1. \A m, n \in 1..Len(f) : f[m] = f[n] => m = n
    BY <1>1, SetToSeqLists
  <2> HIDE DEF f, ins
  <2> QED
    BY <2>1, <1>3, <1>5
<1>8. \A m, n \in 1..Len(g) : g[m].key = g[n].key => m = n
  <2>1. \A m, n \in 1..Len(g) : g[m] = g[n] => m = n
    BY <1>1, SetToSeqLists
  <2> HIDE DEF g, upd
  <2> QED
    BY <2>1, <1>3, <1>6
<1>9. \A k : ~(Compare!Missing(k, t) /\ Compare!Differs(k, t))
  BY DEF Compare!Missing, Compare!Differs
<1>10. Len(f) \in Nat /\ Len(g) \in Nat
  BY <1>3
<1>11. ASSUME NEW k \in chosen, Needed(k, t)
       PROVE  \E n \in 1..Len(seq) : seq[n].key = k
  <2>1. CASE Compare!Missing(k, t)
    <3>1. Compare!Insert(k, t) \in ins /\ Compare!Insert(k, t).key = k
      BY <2>1 DEF Compare!Insert
    <3>2. PICK n \in 1..Len(f) : f[n] = Compare!Insert(k, t)
      BY <3>1, <1>1, SetToSeqLists
    <3>3. n \in 1..Len(seq)
      BY <1>4, <1>10
    <3> HIDE DEF f, seq
    <3> QED
      BY <3>1, <3>2, <3>3, <1>4
  <2>2. CASE Compare!Differs(k, t)
    <3>1. Compare!Update(k, t) \in upd /\ Compare!Update(k, t).key = k
      BY <2>2 DEF Compare!Update
    <3>2. PICK n \in 1..Len(g) : g[n] = Compare!Update(k, t)
      BY <3>1, <1>1, SetToSeqLists
    <3>3. Len(f) + n \in 1..Len(seq)
      BY <1>4, <1>10
    <3> HIDE DEF f, g, seq
    <3> QED
      BY <3>1, <3>2, <3>3, <1>4
  <2> QED
    BY <1>11, <2>1, <2>2 DEF Needed
<1>12. IsScriptFor(seq, chosen, t)
  <2> HIDE DEF f, g, seq, ins, upd
  <2>1. ASSUME NEW n \in 1..Len(seq)
        PROVE  \/ n \in 1..Len(f) /\ seq[n] = f[n]
               \/ n - Len(f) \in 1..Len(g) /\ seq[n] = g[n - Len(f)]
    BY <1>4, <1>10
  <2>2. ASSUME NEW n \in 1..Len(seq)
        PROVE  /\ seq[n].key \in chosen /\ Needed(seq[n].key, t)
               /\ seq[n] = StatementFor(seq[n].key, t)
    BY <2>1, <1>3, <1>5, <1>6 DEF Needed
  <2>3. ASSUME NEW m \in 1..Len(seq), NEW n \in 1..Len(seq), seq[m].key = seq[n].key
        PROVE  m = n
    <3>1. CASE m \in 1..Len(f) /\ n \in 1..Len(f)
      BY <3>1, <2>3, <1>4, <1>7
    <3>2. CASE m \notin 1..Len(f) /\ n \notin 1..Len(f)
      <4>1. m - Len(f) \in 1..Len(g) /\ n - Len(f) \in 1..Len(g)
            /\ seq[m] = g[m - Len(f)] /\ seq[n] = g[n - Len(f)]
        BY <3>2, <1>4, <1>10
      <4>2. m - Len(f) = n - Len(f)
        BY <4>1, <2>3, <1>8
      <4> QED
        BY <4>2, <1>10
    <3>3. ASSUME NEW i \in 1..Len(seq), NEW j \in 1..Len(seq),
                 i \in 1..Len(f), j \notin 1..Len(f), seq[i].key = seq[j].key
          PROVE  FALSE
      <4>1. seq[i] \in ins /\ seq[j] \in upd
        <5>1. seq[i] = f[i]
          BY <3>3, <1>4
        <5>2. j - Len(f) \in 1..Len(g) /\ seq[j] = g[j - Len(f)]
          BY <3>3, <2>1
        <5> QED
          BY <5>1, <5>2, <3>3, <1>3
      <4> QED
        BY <4>1, <3>3, <1>5, <1>6, <1>9
    <3> QED
      BY <2>3, <3>1, <3>2, <3>3
  <2> QED
    BY <2>2, <2>3 DEF IsScriptFor
<1>13. Len(seq) \in Nat
  BY <1>4
<1>14. seq \in Seq(all)
  BY <1>4
<1> HIDE DEF seq
<1> QED
  BY <1>11, <1>12, <1>13, <1>14 DEF seq

\* The state of a comparison; a script is one for what was read.
CompareTypes ==
  /\ table \in [Compare!Sides -> Compare!Tables]
  /\ read \in [Compare!Sides -> Compare!Tables \cup {Compare!NotRead}]
  /\ selected \subseteq Keys /\ target \in Compare!Sides /\ place \in Compare!Sides
  /\ changes \in 0..MaxChanges
  /\ stage # "reading" => TablesAreRead

ScriptInv ==
  /\ script \in Seq({StatementFor(k, target) : k \in Keys})
  /\ IsScriptFor(script, selected, target)
  /\ stage \in {"reading", "compared", "done"} => script = <<>>

\* The row a key has on side target while only the script changes the tables.
Remaining(k) == \E n \in 1..Len(script) : script[n].key = k
Brought(k) ==
  /\ place = target /\ k \in selected
  /\ read[Compare!Other(target)][k] # NoRow
  /\ ~Remaining(k)

UntouchedInv ==
  changes = 0 =>
    /\ stage = "reading" =>
         \A s \in Compare!Sides : read[s] \in {Compare!NotRead, table[s]}
    /\ stage = "compared" => \A s \in Compare!Sides : read[s] = table[s]
    /\ stage \in {"running", "done"} =>
         /\ table[Compare!Other(target)] = read[Compare!Other(target)]
         /\ \A k \in Keys :
              table[target][k] = IF Brought(k) THEN read[Compare!Other(target)][k]
                                 ELSE read[target][k]

CompareInv == CompareTypes /\ ScriptInv /\ UntouchedInv

LEMMA CompareInit == Compare!Assumptions /\ Compare!Init => CompareInv
<1> SUFFICES ASSUME Compare!Assumptions, Compare!Init PROVE CompareInv
  OBVIOUS
<1> USE DEF Compare!Init
<1>1. CompareTypes
  BY DEF CompareTypes, Compare!Sides, Compare!Assumptions
<1>2. ScriptInv
  BY DEF ScriptInv, IsScriptFor
<1>3. UntouchedInv
  BY DEF UntouchedInv
<1> QED
  BY <1>1, <1>2, <1>3 DEF CompareInv

LEMMA LoadStep ==
  ASSUME CompareInv, NEW s \in Compare!Sides, Compare!Load(s)
  PROVE  CompareInv'
<1> USE DEF CompareInv, Compare!Load
<1>1. /\ Compare!Other(s) \in Compare!Sides /\ Compare!Other(s) # s
      /\ \A o \in Compare!Sides : o = s \/ o = Compare!Other(s)
  BY OtherSide DEF Compare!Sides
<1>2. \A o \in Compare!Sides : read'[o] = IF o = s THEN table[s] ELSE read[o]
  BY DEF CompareTypes
<1>3. stage' # "reading" => read[Compare!Other(s)] # Compare!NotRead
  OBVIOUS
<1>4. CompareTypes'
  BY <1>1, <1>2, <1>3 DEF CompareTypes, TablesAreRead, Compare!NotRead
<1>5. ScriptInv'
  BY DEF ScriptInv, IsScriptFor
<1>6. UntouchedInv'
  BY <1>1, <1>2, <1>3 DEF UntouchedInv
<1> QED
  BY <1>4, <1>5, <1>6

LEMMA SameNeeds ==
  ASSUME read' = read, NEW k, NEW t
  PROVE  Needed(k, t)' = Needed(k, t) /\ StatementFor(k, t)' = StatementFor(k, t)
  BY DEF Needed, StatementFor, Compare!Missing, Compare!Differs, Compare!Insert, Compare!Update

LEMMA RunStep ==
  ASSUME Compare!Assumptions, CompareInv,
         NEW chosen \in SUBSET Keys, NEW t \in Compare!Sides, NEW p \in Compare!Sides,
         Compare!Run(chosen, t, p)
  PROVE  CompareInv'
<1>1. /\ stage = "compared" /\ stage' = "running" /\ selected' = chosen /\ target' = t
      /\ place' = p /\ script' = Compare!Script(chosen, t)
      /\ table' = table /\ read' = read /\ changes' = changes
  BY DEF Compare!Run
<1>2. IsFiniteSet(Keys)
  BY DEF Compare!Assumptions, Compare!IsFiniteSet, IsFiniteSet
<1>3. /\ IsScriptFor(script', chosen, t)
      /\ \A k \in chosen : Needed(k, t) => \E n \in 1..Len(script') : script'[n].key = k
      /\ script' \in Seq({StatementFor(k, t) : k \in chosen})
  BY <1>1, <1>2, ScriptIsComplete
<1>4. CompareTypes'
  BY <1>1 DEF CompareInv, CompareTypes, TablesAreRead
<1>5. ScriptInv'
  <2>1. script' \in Seq({StatementFor(k, t) : k \in Keys})
    BY <1>3
  <2>2. {StatementFor(k, target) : k \in Keys}' = {StatementFor(k, t) : k \in Keys}
    BY <1>1, SameNeeds
  <2>3. IsScriptFor(script, selected, target)'
    BY <1>1, <1>3, SameNeeds DEF IsScriptFor
  <2> QED
    BY <1>1, <2>1, <2>2, <2>3 DEF ScriptInv
<1>6. UntouchedInv'
  <2> SUFFICES ASSUME changes = 0
               PROVE  /\ table[Compare!Other(t)] = read[Compare!Other(t)]
                      /\ \A k \in Keys :
                           table[t][k] = IF Brought(k)' THEN read[Compare!Other(t)][k]
                                         ELSE read[t][k]
    BY <1>1 DEF UntouchedInv
  <2>1. \A s \in Compare!Sides : read[s] = table[s]
    BY <1>1 DEF CompareInv, UntouchedInv
  <2>2. ASSUME NEW k \in chosen, read[Compare!Other(t)][k] # NoRow, ~Needed(k, t)
        PROVE  read[t][k] = read[Compare!Other(t)][k]
    BY <2>2 DEF Needed, Compare!Missing, Compare!Differs
  <2>3. \A k \in Keys : Brought(k)' => /\ k \in chosen /\ ~Needed(k, t)
                                       /\ read[Compare!Other(t)][k] # NoRow
    BY <1>1, <1>3 DEF Brought, Remaining
  <2> QED
    BY <2>1, <2>2, <2>3, OtherSide
<1> QED
  BY <1>4, <1>5, <1>6 DEF CompareInv

\* A statement writes the row of the source where the target's row is the one that
\* was read, and nothing elsewhere.
LEMMA StatementEffect ==
  ASSUME CompareInv, Compare!Execute
  PROVE  LET k == Head(script).key
             source == read[Compare!Other(target)][k]
         IN /\ script # <<>> /\ k \in Keys /\ k \in selected
            /\ source # NoRow /\ source # read[target][k]
            /\ \/ /\ table[place][k] = read[target][k]
                  /\ table' = [table EXCEPT ![place][k] = source]
               \/ /\ table[place][k] # read[target][k]
                  /\ table' = table
            /\ stage = "running" /\ stage' \in {"running", "failed"}
            /\ script' = Tail(script)
            /\ UNCHANGED <<read, selected, target, place, changes>>
<1> DEFINE st == Head(script)
           k == st.key
           source == read[Compare!Other(target)][k]
           old == read[target][k]
<1>1. script # <<>> /\ script \in Seq({StatementFor(x, target) : x \in Keys})
  BY DEF Compare!Execute, CompareInv, ScriptInv
<1>2. 1 \in 1..Len(script) /\ st = script[1]
  BY <1>1
<1>3. k \in selected /\ k \in Keys /\ Needed(k, target) /\ st = StatementFor(k, target)
  BY <1>2 DEF CompareInv, ScriptInv, IsScriptFor, CompareTypes
<1>4. /\ Compare!Other(target) \in Compare!Sides /\ target \in Compare!Sides
      /\ source \in Compare!Rows \cup {NoRow} /\ old \in Compare!Rows \cup {NoRow}
  BY <1>3, OtherSide
     DEF CompareInv, CompareTypes, Compare!Execute, TablesAreRead, Compare!Tables
<1>5. source # NoRow /\ source # old
  BY <1>3 DEF Needed, Compare!Missing, Compare!Differs
<1>6. st.row = source
  BY <1>3, StatementFields
<1>7. \/ /\ table[place][k] = old /\ table' = [table EXCEPT ![place][k] = source]
      \/ /\ table[place][k] # old /\ table' = table
  <2>1. CASE Compare!Missing(k, target)
    <3>1. st.op = "insert" /\ old = NoRow
      BY <1>3, <2>1, StatementFields DEF Compare!Missing
    <3> QED
      BY <3>1, <1>6 DEF Compare!Execute
  <2>2. CASE Compare!Differs(k, target)
    <3>1. st.op = "update" /\ st.was = old /\ old # NoRow
      BY <1>3, <2>2, StatementFields DEF Compare!Differs
    <3>2. Compare!Assigned(st, old) = source
      BY <3>1, <1>4, <1>5, <1>6 DEF Compare!Assigned, Compare!Rows
    <3> QED
      BY <3>1, <3>2 DEF Compare!Execute, Compare!Matches
  <2> QED
    BY <1>3, <2>1, <2>2 DEF Needed
<1>8. /\ stage = "running" /\ stage' \in {"running", "failed"} /\ script' = Tail(script)
      /\ UNCHANGED <<read, selected, target, place, changes>>
  BY DEF Compare!Execute
<1> HIDE DEF st
<1> QED
  BY <1>1, <1>3, <1>5, <1>7, <1>8 DEF st

LEMMA ExecuteScriptStep ==
  ASSUME CompareInv, Compare!Execute
  PROVE  CompareInv'
<1>0. PICK k \in Keys : k = Head(script).key
  BY StatementEffect
<1> DEFINE source == read[Compare!Other(target)][k]
<1>1. /\ script # <<>> /\ k \in Keys /\ k \in selected
      /\ source # NoRow /\ source # read[target][k]
      /\ \/ /\ table[place][k] = read[target][k]
            /\ table' = [table EXCEPT ![place][k] = source]
         \/ /\ table[place][k] # read[target][k]
            /\ table' = table
      /\ stage = "running" /\ stage' \in {"running", "failed"} /\ script' = Tail(script)
      /\ read' = read /\ selected' = selected /\ target' = target /\ place' = place
      /\ changes' = changes
  BY <1>0, StatementEffect
<1>2. /\ Compare!Other(target) \in Compare!Sides /\ Compare!Other(target) # target
      /\ target \in Compare!Sides /\ place \in Compare!Sides
      /\ table \in [Compare!Sides -> Compare!Tables]
      /\ place # target => place = Compare!Other(target)
  BY OtherSide DEF CompareInv, CompareTypes, Compare!Sides
<1>3. source \in Compare!Rows \cup {NoRow}
  BY <1>1, <1>2 DEF CompareInv, CompareTypes, TablesAreRead, Compare!Tables
<1>4. /\ script \in Seq({StatementFor(x, target) : x \in Keys})
      /\ Len(script) \in Nat /\ Len(script') = Len(script) - 1
      /\ k = script[1].key /\ 1 \in 1..Len(script)
      /\ \A n \in 1..Len(script') : n + 1 \in 1..Len(script) /\ script'[n] = script[n + 1]
  <2>1. script \in Seq({StatementFor(x, target) : x \in Keys})
    BY DEF CompareInv, ScriptInv
  <2> QED
    BY <1>0, <1>1, <2>1
<1>5. CompareTypes'
  <2>1. [table[place] EXCEPT ![k] = source] \in Compare!Tables
    BY <1>2, <1>3 DEF Compare!Tables
  <2>2. table' = table \/ table' = [table EXCEPT ![place] = [table[place] EXCEPT ![k] = source]]
    BY <1>1
  <2>3. table' \in [Compare!Sides -> Compare!Tables]
    BY <1>2, <2>1, <2>2
  <2> QED
    BY <1>1, <2>3 DEF CompareInv, CompareTypes, TablesAreRead
<1>6. ScriptInv'
  <2>1. script' \in Seq({StatementFor(x, target) : x \in Keys})
    BY <1>1, <1>4
  <2>2. {StatementFor(x, target) : x \in Keys}' = {StatementFor(x, target) : x \in Keys}
    BY <1>1, SameNeeds
  <2>3. IsScriptFor(script', selected, target)
    BY <1>1, <1>4 DEF CompareInv, ScriptInv, IsScriptFor
  <2>4. IsScriptFor(script, selected, target)'
    BY <1>1, <2>3, SameNeeds DEF IsScriptFor
  <2> QED
    BY <1>1, <2>1, <2>2, <2>4 DEF ScriptInv
<1>7. ~Remaining(k)' /\ \A x \in Keys \ {k} : Remaining(x)' <=> Remaining(x)
  <2>1. \A m, n \in 1..Len(script) : script[m].key = script[n].key => m = n
    BY DEF CompareInv, ScriptInv, IsScriptFor
  <2>2. \A n \in 1..Len(script') : script'[n].key # k
    BY <1>4, <2>1
  <2>3. ASSUME NEW x \in Keys \ {k}, NEW n \in 1..Len(script), script[n].key = x
        PROVE  n - 1 \in 1..Len(script') /\ script'[n - 1].key = x
    <3>1. n # 1
      BY <1>4, <2>3
    <3>2. n - 1 \in 1..Len(script')
      BY <1>4, <3>1
    <3> QED
      BY <1>4, <2>3, <3>2
  <2> QED
    BY <1>4, <2>2, <2>3 DEF Remaining
<1>8. Remaining(k)
  BY <1>4 DEF Remaining
<1>9. UntouchedInv'
  <2> SUFFICES ASSUME changes = 0
               PROVE  /\ table'[Compare!Other(target)] = read[Compare!Other(target)]
                      /\ \A x \in Keys :
                           table'[target][x] = IF Brought(x)' THEN read[Compare!Other(target)][x]
                                               ELSE read[target][x]
    BY <1>1 DEF UntouchedInv
  <2>1. /\ table[Compare!Other(target)] = read[Compare!Other(target)]
        /\ \A x \in Keys :
             table[target][x] = IF Brought(x) THEN read[Compare!Other(target)][x]
                                ELSE read[target][x]
    BY <1>1 DEF CompareInv, UntouchedInv
  <2>2. CASE place = target
    <3>1. table[target][k] = read[target][k]
      BY <1>1, <1>8, <2>1 DEF Brought
    <3>2. table' = [table EXCEPT ![target][k] = source]
      BY <1>1, <2>2, <3>1
    <3>3. /\ table'[Compare!Other(target)] = table[Compare!Other(target)]
          /\ table'[target][k] = source
          /\ \A x \in Keys \ {k} : table'[target][x] = table[target][x]
      BY <1>1, <1>2, <3>2 DEF Compare!Tables
    <3>4. Brought(k)' /\ \A x \in Keys \ {k} : Brought(x)' <=> Brought(x)
      BY <1>1, <1>7, <2>2 DEF Brought
    <3> QED
      BY <2>1, <3>3, <3>4
  <2>3. CASE place # target
    <3>1. table[place][k] = source
      BY <1>2, <2>1, <2>3
    <3>2. table' = table
      BY <1>1, <3>1
    <3>3. \A x \in Keys : ~Brought(x) /\ ~Brought(x)'
      BY <1>1, <2>3 DEF Brought
    <3> QED
      BY <2>1, <3>2, <3>3
  <2> QED
    BY <2>2, <2>3
<1> QED
  BY <1>5, <1>6, <1>9 DEF CompareInv

LEMMA FinishStep ==
  ASSUME CompareInv, Compare!Finish
  PROVE  CompareInv'
<1>1. /\ stage = "running" /\ stage' = "done" /\ script = <<>> /\ script' = script
      /\ table' = table /\ read' = read /\ selected' = selected /\ target' = target
      /\ place' = place /\ changes' = changes
  BY DEF Compare!Finish
<1>2. CompareTypes'
  BY <1>1 DEF CompareInv, CompareTypes, TablesAreRead
<1>3. ScriptInv'
  BY <1>1 DEF CompareInv, ScriptInv, IsScriptFor
<1>4. \A k \in Keys : Brought(k)' <=> Brought(k)
  BY <1>1 DEF Brought, Remaining
<1>5. UntouchedInv'
  BY <1>1, <1>4 DEF CompareInv, UntouchedInv
<1> QED
  BY <1>2, <1>3, <1>5 DEF CompareInv

LEMMA ChangeStep ==
  ASSUME Compare!Assumptions, CompareInv, NEW s \in Compare!Sides, NEW k \in Keys,
         NEW entry \in Compare!Rows \cup {NoRow}, Compare!Change(s, k, entry)
  PROVE  CompareInv'
<1>1. /\ table' = [table EXCEPT ![s][k] = entry] /\ changes' = changes + 1
      /\ changes < MaxChanges /\ stage' = stage /\ script' = script
      /\ read' = read /\ selected' = selected /\ target' = target /\ place' = place
  BY DEF Compare!Change
<1>2. table' \in [Compare!Sides -> Compare!Tables]
  BY <1>1 DEF CompareInv, CompareTypes, Compare!Tables
<1>3. changes' \in 0..MaxChanges /\ changes' # 0
  BY <1>1 DEF CompareInv, CompareTypes, Compare!Assumptions
<1>4. CompareTypes'
  BY <1>1, <1>2, <1>3 DEF CompareInv, CompareTypes, TablesAreRead
<1>5. ScriptInv'
  <2>1. {StatementFor(x, target) : x \in Keys}' = {StatementFor(x, target) : x \in Keys}
    BY <1>1, SameNeeds
  <2>2. IsScriptFor(script, selected, target)'
    BY <1>1, SameNeeds DEF CompareInv, ScriptInv, IsScriptFor
  <2> QED
    BY <1>1, <2>1, <2>2 DEF CompareInv, ScriptInv
<1> QED
  BY <1>3, <1>4, <1>5 DEF CompareInv, UntouchedInv

\* A script under way has each statement it still needs once, and while nobody
\* else changes the tables they are what the script has made of what was read.
THEOREM CompareInvariance == Compare!Assumptions /\ Compare!Spec => []CompareInv
<1>1. Compare!Assumptions /\ CompareInv /\ [Compare!Next]_Compare!vars => CompareInv'
  <2> SUFFICES ASSUME Compare!Assumptions, CompareInv, [Compare!Next]_Compare!vars
               PROVE  CompareInv'
    OBVIOUS
  <2>1. CASE UNCHANGED Compare!vars
    <3>1. /\ stage' = stage /\ script' = script /\ table' = table /\ read' = read
          /\ selected' = selected /\ target' = target /\ place' = place
          /\ changes' = changes
      BY <2>1 DEF Compare!vars
    <3>2. \A k \in Keys : Brought(k)' <=> Brought(k)
      BY <3>1 DEF Brought, Remaining
    <3>3. ScriptInv'
      <4>1. {StatementFor(x, target) : x \in Keys}' = {StatementFor(x, target) : x \in Keys}
        BY <3>1, SameNeeds
      <4>2. IsScriptFor(script, selected, target)'
        BY <3>1, SameNeeds DEF CompareInv, ScriptInv, IsScriptFor
      <4> QED
        BY <3>1, <4>1, <4>2 DEF CompareInv, ScriptInv
    <3>4. CompareTypes' /\ UntouchedInv'
      BY <3>1, <3>2 DEF CompareInv, CompareTypes, TablesAreRead, UntouchedInv
    <3> QED
      BY <3>3, <3>4 DEF CompareInv
  <2> QED
    BY <2>1, LoadStep, RunStep, ExecuteScriptStep, FinishStep, ChangeStep DEF Compare!Next
<1>2. Compare!Assumptions /\ Compare!Init => CompareInv
  BY CompareInit
<1>3. CASE Compare!Assumptions
  BY <1>1, <1>2, <1>3, PTL DEF Compare!Spec
<1> QED
  BY <1>3

\* The types of a comparison, and no script has more statements than keys.
THEOREM CompareTypeCorrect == Compare!Assumptions /\ Compare!Spec => []Compare!TypeOK
<1>1. Compare!Assumptions /\ CompareInv => Compare!TypeOK
  <2> SUFFICES ASSUME Compare!Assumptions, CompareInv PROVE Compare!TypeOK
    OBVIOUS
  <2>1. IsFiniteSet(Keys)
    BY DEF Compare!Assumptions, Compare!IsFiniteSet, IsFiniteSet
  <2>2. Len(script) \in Nat
    BY DEF CompareInv, ScriptInv
  <2>3. [n \in 1..Len(script) |-> script[n].key] \in Injection(1..Len(script), Keys)
    BY DEF CompareInv, CompareTypes, ScriptInv, IsScriptFor, Injection, IsInjective
  <2>4. Cardinality(1..Len(script)) <= Cardinality(Keys)
    BY <2>1, <2>3, FS_Injection
  <2>5. Len(script) <= Compare!Cardinality(Keys)
    BY <2>2, <2>4, SameCardinality, FS_Interval
  <2> QED
    BY <2>5 DEF Compare!TypeOK, CompareInv, CompareTypes
<1>2. CASE Compare!Assumptions
  BY <1>1, <1>2, CompareInvariance, PTL
<1> QED
  BY <1>2

\* A script overwrites only rows that still are as the user compared them
\* (buildSyncScript), wherever it runs and whatever other sessions do.
THEOREM ScriptOverwritesNothing ==
  Compare!Assumptions /\ Compare!Spec => NothingIsOverwritten
<1>1. CompareInv => [Compare!Execute => \A k \in Keys :
        table[place][k] # NoRow /\ table'[place][k] # table[place][k] =>
            table[place][k] = read[target][k]]_Compare!vars
  <2> SUFFICES ASSUME CompareInv, Compare!Execute, NEW k \in Keys,
                      table'[place][k] # table[place][k]
               PROVE  table[place][k] = read[target][k]
    OBVIOUS
  <2>1. table[place] \in Compare!Tables
    BY DEF CompareInv, CompareTypes
  <2>2. k = Head(script).key
    BY <2>1, StatementEffect DEF CompareInv, CompareTypes, Compare!Tables
  <2> QED
    BY <2>2, StatementEffect
<1>2. CASE Compare!Assumptions
  BY <1>1, <1>2, CompareInvariance, PTL DEF NothingIsOverwritten, Compare!NothingIsOverwritten
<1> QED
  BY <1>2

\* A script that ran to its end while nobody else changed the tables brought the
\* selected rows to the target and did nothing else; on the connection of the
\* source it did nothing at all (buildSyncScript).
THEOREM ScriptWorks ==
  Compare!Assumptions /\ Compare!Spec => []ScriptDoesItsWork
<1>1. CompareInv => ScriptDoesItsWork
  <2> SUFFICES ASSUME CompareInv, stage = "done", changes = 0
               PROVE  ScriptDoesItsWork
    BY DEF ScriptDoesItsWork, Compare!ScriptDoesItsWork
  <2>1. \A k \in Keys : ~Remaining(k)
    BY DEF CompareInv, ScriptInv, Remaining
  <2> QED
    BY <2>1 DEF CompareInv, UntouchedInv, Brought, ScriptDoesItsWork, Compare!ScriptDoesItsWork
<1>2. CASE Compare!Assumptions
  BY <1>1, <1>2, CompareInvariance, PTL
<1> QED
  BY <1>2
-----------------------------------------------------------------------------
(* The tabs and the split view, for any connections, any finite set of tabs *)
(* and any number of panes: no pane shows a tab twice or one that is closed. *)

Scopes == Ids \cup {NoId}

\* Tabs side by side, none twice.
TabRows == {s \in Seq(Tabs) : \A i, j \in 1..Len(s) : s[i] = s[j] => i = j}

\* The layouts of the split view.
Panes == [panes : Seq(Tabs \cup {NoTab}), focus : Nat]

IsArranged(l) ==
  /\ Len(l.panes) # 1 /\ Len(l.panes) <= MaxPanes
  /\ l.focus = 1 \/ l.focus \in 1..Len(l.panes)
  /\ \A i, j \in 1..Len(l.panes) : i # j /\ l.panes[i] # NoTab => l.panes[i] # l.panes[j]

Arranged == {l \in Panes : IsArranged(l)}

\* An operation that makes m of the layout l shows tabs l shows, or open ones.
ShowsOnly(m, l, ts) == Work!Shown(m) \subseteq Work!Shown(l) \cup Work!ToSet(ts)

CloseRequests ==
  [kind : {"tab", "others", "right", "all"}, key : Tabs, of : Scopes, asked : BOOLEAN]

WorkInv ==
  /\ saved \subseteq Ids /\ active \in saved \cup {NoId}
  /\ tabsBy \in [Scopes -> TabRows] /\ disk \in [Scopes -> TabRows]
  /\ layouts \in [Scopes -> Arranged]
  /\ closing \in CloseRequests \cup {Work!NotClosing}
  /\ lost \subseteq Scopes
  /\ Work!ShowsActive /\ Work!PanesAreOpen

-----------------------------------------------------------------------------
(* The operations on tabs and layouts. *)

LEMMA RowsAreSets ==
  ASSUME NEW ts \in TabRows
  PROVE  /\ ts \in Seq(Tabs) /\ Len(ts) \in Nat /\ DOMAIN ts = 1..Len(ts)
         /\ Work!ToSet(ts) = {ts[i] : i \in 1..Len(ts)}
         /\ Work!ToSet(ts) \subseteq Tabs
         /\ \A i, j \in 1..Len(ts) : ts[i] = ts[j] => i = j
  BY DEF TabRows, Work!ToSet

LEMMA PanesAreSets ==
  ASSUME NEW l \in Arranged
  PROVE  /\ l \in Panes /\ Len(l.panes) \in Nat /\ DOMAIN l.panes = 1..Len(l.panes)
         /\ \A k : k \in Work!Shown(l) <=>
                     k # NoTab /\ \E i \in 1..Len(l.panes) : l.panes[i] = k
  BY DEF Arranged, Panes, Work!Shown, Work!ToSet

LEMMA LeastPlace ==
  ASSUME NEW T \in SUBSET Nat, T # {}
  PROVE  Work!Min(T) \in T
<1>1. \E x \in T : \A y \in T : ~(<<y, x>> \in OpToRel(<, Nat))
  BY NatLessThanWellFounded, WFMin
<1>2. ASSUME NEW x \in Nat, NEW y \in Nat, <<y, x>> \notin OpToRel(<, Nat) PROVE x =< y
  BY <1>2 DEF OpToRel
<1>3. \E x \in T : \A y \in T : x =< y
  BY <1>1, <1>2
<1> QED
  BY <1>3 DEF Work!Min

\* nextFill finds a tab that is in no pane.
LEMMA FillIsFree ==
  ASSUME NEW used, NEW preferred \in Tabs \cup {NoTab}, NEW ts \in TabRows
  PROVE  LET f == Work!Fill(used, preferred, ts)
         IN /\ f \in {preferred, NoTab} \cup Work!ToSet(ts)
            /\ f = NoTab \/ f \notin used
<1> DEFINE rest == {i \in DOMAIN ts : ts[i] \notin used}
<1>1. CASE preferred \notin used \cup {NoTab} \/ rest = {}
  BY <1>1 DEF Work!Fill
<1>2. CASE preferred \in used \cup {NoTab} /\ rest # {}
  <2>1. rest \subseteq 1..Len(ts) /\ rest \subseteq Nat
    BY RowsAreSets
  <2>2. Work!Min(rest) \in rest
    BY <1>2, <2>1, LeastPlace
  <2>3. Work!Fill(used, preferred, ts) = ts[Work!Min(rest)]
    BY <1>2 DEF Work!Fill
  <2> QED
    BY <2>2, <2>3 DEF Work!ToSet
<1> QED
  BY <1>1, <1>2

LEMMA SingleIsArranged == MaxPanes \in Nat => Work!Single \in Arranged /\ Work!Shown(Work!Single) = {}
  BY DEF Work!Single, Arranged, IsArranged, Panes, Work!Shown, Work!ToSet

\* addPane.
LEMMA AddedFits ==
  ASSUME Work!Assumptions, NEW l \in Arranged, NEW ts \in TabRows,
         NEW now \in Work!ToSet(ts) \cup {NoTab}, NEW k \in Work!ToSet(ts) \cup {NoTab}
  PROVE  /\ Work!Added(l, now, k, ts) \in Arranged
         /\ ShowsOnly(Work!Added(l, now, k, ts), l, ts)
<1> DEFINE base == Work!Base(l, now, k)
           fill == Work!Fill(Work!ToSet(base), k, ts)
           m == [panes |-> Append(base, fill), focus |-> Len(base) + 1]
<1>1. now \in Tabs \cup {NoTab} /\ k \in Tabs \cup {NoTab}
  BY RowsAreSets
<1>2. /\ base \in Seq(Tabs \cup {NoTab}) /\ Len(base) <= MaxPanes
      /\ \A i, j \in 1..Len(base) : i # j /\ base[i] # NoTab => base[i] # base[j]
      /\ \A i \in 1..Len(base) :
           base[i] # NoTab => base[i] \in Work!Shown(l) \cup Work!ToSet(ts)
  <2>1. CASE l.panes # <<>>
    <3>1. base = l.panes
      BY <2>1 DEF Work!Base
    <3> QED
      BY <3>1, PanesAreSets DEF Arranged, IsArranged, Panes
  <2>2. CASE l.panes = <<>>
    <3>1. base \in {<<>>, <<now>>, <<k>>}
      BY <2>2 DEF Work!Base
    <3>2. ASSUME NEW x \in Work!ToSet(ts) \cup {NoTab}, x \in Tabs \cup {NoTab}, base = <<x>>
          PROVE  /\ Len(base) = 1 /\ \A i \in 1..Len(base) : i = 1 /\ base[i] = x
                 /\ base \in Seq(Tabs \cup {NoTab})
      BY <3>2
    <3>3. CASE base = <<>>
      BY <3>3 DEF Work!Assumptions
    <3>4. CASE base = <<now>>
      <4> HIDE DEF base
      <4> QED
        BY <1>1, <3>2, <3>4 DEF Work!Assumptions
    <3>5. CASE base = <<k>>
      <4> HIDE DEF base
      <4> QED
        BY <1>1, <3>2, <3>5 DEF Work!Assumptions
    <3> QED
      BY <3>1, <3>3, <3>4, <3>5
  <2> QED
    BY <2>1, <2>2
<1> HIDE DEF base
<1>3. /\ fill \in Tabs \cup {NoTab}
      /\ fill = NoTab \/ fill \in Work!ToSet(ts)
      /\ fill = NoTab \/ \A i \in 1..Len(base) : base[i] # fill
  <2>1. fill \in {k, NoTab} \cup Work!ToSet(ts) /\ (fill = NoTab \/ fill \notin Work!ToSet(base))
    BY <1>1, FillIsFree
  <2>2. \A i \in 1..Len(base) : base[i] \in Work!ToSet(base)
    BY <1>2 DEF Work!ToSet
  <2> QED
    BY <1>1, <2>1, <2>2, RowsAreSets
<1> HIDE DEF fill
<1>4. CASE Len(base) \in {0, MaxPanes}
  BY <1>4 DEF Work!Added, ShowsOnly, base
<1>5. CASE Len(base) \notin {0, MaxPanes}
  <2>1. Work!Added(l, now, k, ts) = m
    BY <1>5 DEF Work!Added, base, fill
  <2>2. /\ m.panes \in Seq(Tabs \cup {NoTab}) /\ Len(m.panes) = Len(base) + 1
        /\ \A i \in 1..Len(base) : m.panes[i] = base[i]
        /\ m.panes[Len(base) + 1] = fill
        /\ Len(base) \in Nat
    BY <1>2, <1>3
  <2>3. m \in Panes
    BY <2>2 DEF Panes
  <2>4. \A i, j \in 1..Len(m.panes) : i # j /\ m.panes[i] # NoTab => m.panes[i] # m.panes[j]
    BY <1>2, <1>3, <2>2
  <2>5. Len(m.panes) # 1 /\ Len(m.panes) <= MaxPanes /\ m.focus \in 1..Len(m.panes)
    BY <1>2, <1>5, <2>2 DEF Work!Assumptions
  <2>6. m \in Arranged
    BY <2>3, <2>4, <2>5 DEF Arranged, IsArranged
  <2>7. \A i \in 1..Len(m.panes) :
          m.panes[i] # NoTab => m.panes[i] \in Work!Shown(l) \cup Work!ToSet(ts)
    BY <1>2, <1>3, <2>2
  <2>8. ShowsOnly(m, l, ts)
    BY <2>6, <2>7, PanesAreSets DEF ShowsOnly
  <2> QED
    BY <2>1, <2>6, <2>8
<1> QED
  BY <1>4, <1>5

\* A sequence with one place less.
LEMMA WithoutOne ==
  ASSUME NEW S, NEW s \in Seq(S), NEW i \in 1..Len(s)
  PROVE  /\ Work!RemoveAt(s, i) \in Seq(S)
         /\ Len(Work!RemoveAt(s, i)) = Len(s) - 1
         /\ \A j \in 1..Len(s) - 1 :
              Work!RemoveAt(s, i)[j] = s[IF j < i THEN j ELSE j + 1]
<1> DEFINE a == SubSeq(s, 1, i - 1)
           b == SubSeq(s, i + 1, Len(s))
<1>1. /\ a \in Seq(S) /\ Len(a) = i - 1
      /\ \A j \in 1..i - 1 : a[j] = s[j]
  BY SubSeqProperties
<1>2. /\ b \in Seq(S) /\ Len(b) = Len(s) - i
      /\ \A j \in 1..Len(s) - i : b[j] = s[i + j]
  BY SubSeqProperties
<1> HIDE DEF a, b
<1>3. /\ a \o b \in Seq(S) /\ Len(a \o b) = Len(s) - 1
      /\ \A j \in 1..Len(s) - 1 : (a \o b)[j] = IF j <= Len(a) THEN a[j] ELSE b[j - Len(a)]
  <2>1. Len(a) + Len(b) = Len(s) - 1
    BY <1>1, <1>2
  <2>2. /\ a \o b \in Seq(S) /\ Len(a \o b) = Len(a) + Len(b)
        /\ \A j \in 1..Len(a) + Len(b) :
             (a \o b)[j] = IF j <= Len(a) THEN a[j] ELSE b[j - Len(a)]
    BY <1>1, <1>2, ConcatProperties
  <2> QED
    BY <2>1, <2>2
<1>4. Work!RemoveAt(s, i) = a \o b
  BY DEF Work!RemoveAt, a, b
<1>5. ASSUME NEW j \in 1..Len(s) - 1
      PROVE  (a \o b)[j] = s[IF j < i THEN j ELSE j + 1]
  <2>1. (a \o b)[j] = IF j <= Len(a) THEN a[j] ELSE b[j - Len(a)]
    BY <1>3
  <2>2. CASE j < i
    BY <1>1, <1>2, <2>1, <2>2
  <2>3. CASE j >= i
    BY <1>1, <1>2, <2>1, <2>3
  <2>4. j < i \/ j >= i
    OBVIOUS
  <2> QED
    BY <2>2, <2>3, <2>4
<1> QED
  BY <1>3, <1>4, <1>5

\* closePane.
LEMMA RemovedFits ==
  ASSUME Work!Assumptions, NEW l \in Arranged, NEW i \in DOMAIN l.panes, NEW ts
  PROVE  Work!Removed(l, i) \in Arranged /\ ShowsOnly(Work!Removed(l, i), l, ts)
<1> DEFINE m == [panes |-> Work!RemoveAt(l.panes, i), focus |-> Work!FocusAfter(l, i)]
<1>1. CASE Len(l.panes) <= 2
  <2>1. Work!Removed(l, i) = Work!Single
    BY <1>1 DEF Work!Removed
  <2> QED
    BY <2>1, SingleIsArranged DEF Work!Assumptions, ShowsOnly
<1>2. CASE ~(Len(l.panes) <= 2)
  <2>1. Work!Removed(l, i) = m
    BY <1>2 DEF Work!Removed
  <2>2. /\ l.panes \in Seq(Tabs \cup {NoTab}) /\ i \in 1..Len(l.panes) /\ Len(l.panes) \in Nat
        /\ l.focus \in 1..Len(l.panes)
    BY <1>2, PanesAreSets DEF Arranged, IsArranged, Panes
  <2>3. /\ m.panes \in Seq(Tabs \cup {NoTab}) /\ Len(m.panes) = Len(l.panes) - 1
        /\ \A j \in 1..Len(l.panes) - 1 : m.panes[j] = l.panes[IF j < i THEN j ELSE j + 1]
    BY <2>2, WithoutOne
  <2>4. m.focus \in 1..Len(l.panes) - 1
    BY <1>2, <2>2 DEF Work!FocusAfter
  <2> DEFINE from(j) == IF j < i THEN j ELSE j + 1
  <2>5. \A n, j \in 1..Len(l.panes) : n # j /\ l.panes[n] # NoTab => l.panes[n] # l.panes[j]
    BY DEF Arranged, IsArranged
  <2>6. \A j \in 1..Len(m.panes) : from(j) \in 1..Len(l.panes) /\ m.panes[j] = l.panes[from(j)]
    <3>1. ASSUME NEW j \in 1..Len(l.panes) - 1
          PROVE  from(j) \in 1..Len(l.panes) /\ m.panes[j] = l.panes[from(j)]
      <4>1. m.panes[j] = l.panes[from(j)]
        BY <2>3
      <4> HIDE DEF m
      <4>2. from(j) \in 1..Len(l.panes)
        BY <2>2
      <4> QED
        BY <4>1, <4>2
    <3> QED
      BY <2>3, <3>1
  <2>7. \A j, n \in 1..Len(m.panes) : j # n => from(j) # from(n)
    BY <2>2, <2>3
  <2>8. m \in Panes /\ Len(m.panes) # 1 /\ Len(m.panes) <= MaxPanes
    BY <1>2, <2>2, <2>3, <2>4 DEF Arranged, IsArranged, Panes, Work!Assumptions
  <2> HIDE DEF from, m
  <2>9. \A j, n \in 1..Len(m.panes) : j # n /\ m.panes[j] # NoTab => m.panes[j] # m.panes[n]
    BY <2>5, <2>6, <2>7
  <2>10. m \in Arranged
    BY <2>3, <2>4, <2>9, <2>8 DEF Arranged, IsArranged
  <2>11. \A j \in 1..Len(m.panes) : m.panes[j] # NoTab => m.panes[j] \in Work!Shown(l)
    BY <2>6, PanesAreSets
  <2>12. ShowsOnly(m, l, ts)
    BY <2>10, <2>11, PanesAreSets DEF ShowsOnly
  <2> QED
    BY <2>1, <2>10, <2>12
<1> QED
  BY <1>1, <1>2

\* Layouts with as many panes as l, another focus and other tabs in them.
LEMMA Refilled ==
  ASSUME NEW l \in Arranged, NEW ts, NEW p \in [1..Len(l.panes) -> Tabs \cup {NoTab}],
         NEW f \in 1..Len(l.panes) \cup {l.focus},
         \A i, j \in 1..Len(l.panes) : i # j /\ p[i] # NoTab => p[i] # p[j],
         \A i \in 1..Len(l.panes) : p[i] \in {NoTab} \cup Work!Shown(l) \cup Work!ToSet(ts)
  PROVE  [panes |-> p, focus |-> f] \in Arranged /\ ShowsOnly([panes |-> p, focus |-> f], l, ts)
<1> DEFINE m == [panes |-> p, focus |-> f]
<1>1. p \in Seq(Tabs \cup {NoTab}) /\ Len(p) = Len(l.panes)
  BY PanesAreSets, IsASeq
<1>2. m \in Arranged
  BY <1>1, PanesAreSets DEF Arranged, IsArranged, Panes
<1>3. ShowsOnly(m, l, ts)
  BY <1>1, <1>2, PanesAreSets DEF ShowsOnly
<1> QED
  BY <1>2, <1>3

\* focusPane.
LEMMA FocusedFits ==
  ASSUME NEW l \in Arranged, NEW ts, NEW i \in DOMAIN l.panes
  PROVE  [l EXCEPT !.focus = i] \in Arranged /\ ShowsOnly([l EXCEPT !.focus = i], l, ts)
<1>1. [l EXCEPT !.focus = i] = [panes |-> l.panes, focus |-> i]
  BY PanesAreSets DEF Panes
<1>2. /\ l.panes \in [1..Len(l.panes) -> Tabs \cup {NoTab}] /\ i \in 1..Len(l.panes)
      /\ \A n \in 1..Len(l.panes) : l.panes[n] \in {NoTab} \cup Work!Shown(l)
      /\ \A n, j \in 1..Len(l.panes) :
           n # j /\ l.panes[n] # NoTab => l.panes[n] # l.panes[j]
  BY PanesAreSets DEF Panes, Arranged, IsArranged
<1>3. /\ [panes |-> l.panes, focus |-> i] \in Arranged
      /\ ShowsOnly([panes |-> l.panes, focus |-> i], l, ts)
  BY <1>2, Refilled
<1> QED
  BY <1>1, <1>3

\* A tab that is in no pane is put into the pane i.
LEMMA PutFits ==
  ASSUME NEW l \in Arranged, NEW ts \in TabRows, NEW i \in 1..Len(l.panes),
         NEW k \in Work!ToSet(ts) \cup {NoTab}, k \notin Work!Shown(l)
  PROVE  LET m == [panes |-> [l.panes EXCEPT ![i] = k], focus |-> i]
         IN m \in Arranged /\ ShowsOnly(m, l, ts)
<1> DEFINE p == [l.panes EXCEPT ![i] = k]
<1>1. /\ l.panes \in [1..Len(l.panes) -> Tabs \cup {NoTab}] /\ k \in Tabs \cup {NoTab}
      /\ \A n, j \in 1..Len(l.panes) :
           n # j /\ l.panes[n] # NoTab => l.panes[n] # l.panes[j]
      /\ \A n \in 1..Len(l.panes) :
           l.panes[n] \in {NoTab} \cup Work!Shown(l) /\ (l.panes[n] = k => k = NoTab)
  <2>1. l \in Panes /\ \A n, j \in 1..Len(l.panes) :
           n # j /\ l.panes[n] # NoTab => l.panes[n] # l.panes[j]
    BY PanesAreSets DEF Arranged, IsArranged
  <2>2. k \in Tabs \cup {NoTab}
    BY RowsAreSets
  <2> QED
    BY <2>1, <2>2, PanesAreSets DEF Panes
<1>2. /\ p \in [1..Len(l.panes) -> Tabs \cup {NoTab}]
      /\ \A n \in 1..Len(l.panes) : p[n] = IF n = i THEN k ELSE l.panes[n]
  BY <1>1
<1> HIDE DEF p
<1>3. \A n, j \in 1..Len(l.panes) : n # j /\ p[n] # NoTab => p[n] # p[j]
  BY <1>1, <1>2
<1>4. \A n \in 1..Len(l.panes) : p[n] \in {NoTab} \cup Work!Shown(l) \cup Work!ToSet(ts)
  BY <1>1, <1>2
<1>5. [panes |-> p, focus |-> i] \in Arranged /\ ShowsOnly([panes |-> p, focus |-> i], l, ts)
  BY <1>2, <1>3, <1>4, Refilled
<1> QED
  BY <1>5 DEF p

\* The tabs of the panes i and j change places.
LEMMA SwapFits ==
  ASSUME NEW l \in Arranged, NEW ts, NEW i \in 1..Len(l.panes), NEW j \in 1..Len(l.panes),
         NEW f \in 1..Len(l.panes)
  PROVE  LET m == [panes |-> [l.panes EXCEPT ![i] = l.panes[j], ![j] = l.panes[i]],
                   focus |-> f]
         IN m \in Arranged /\ ShowsOnly(m, l, ts)
<1> DEFINE p == [l.panes EXCEPT ![i] = l.panes[j], ![j] = l.panes[i]]
<1>1. /\ l.panes \in [1..Len(l.panes) -> Tabs \cup {NoTab}]
      /\ \A n, o \in 1..Len(l.panes) :
           n # o /\ l.panes[n] # NoTab => l.panes[n] # l.panes[o]
      /\ \A n \in 1..Len(l.panes) : l.panes[n] \in {NoTab} \cup Work!Shown(l)
  BY PanesAreSets DEF Panes, Arranged, IsArranged
<1>2. /\ p \in [1..Len(l.panes) -> Tabs \cup {NoTab}]
      /\ \A n \in 1..Len(l.panes) :
           p[n] = IF n = j THEN l.panes[i] ELSE IF n = i THEN l.panes[j] ELSE l.panes[n]
  BY <1>1
<1> HIDE DEF p
<1>3. \A n, o \in 1..Len(l.panes) : n # o /\ p[n] # NoTab => p[n] # p[o]
  BY <1>1, <1>2
<1>4. \A n \in 1..Len(l.panes) : p[n] \in {NoTab} \cup Work!Shown(l) \cup Work!ToSet(ts)
  BY <1>1, <1>2
<1>5. [panes |-> p, focus |-> f] \in Arranged /\ ShowsOnly([panes |-> p, focus |-> f], l, ts)
  BY <1>2, <1>3, <1>4, Refilled
<1> QED
  BY <1>5 DEF p

\* The tabs and the layout of a split view in which k is shown or was put.
LEMMA RevealedFits ==
  ASSUME NEW l \in Arranged, NEW ts \in TabRows, NEW k \in Work!ToSet(ts)
  PROVE  Work!Revealed(l, k) \in Arranged /\ ShowsOnly(Work!Revealed(l, k), l, ts)
<1>1. CASE ~Work!Split(l)
  BY <1>1 DEF Work!Revealed, ShowsOnly
<1>2. CASE Work!Split(l) /\ k \in Work!Shown(l)
  <2>1. Work!Place(l, k) \in DOMAIN l.panes
    BY <1>2 DEF Work!Place, Work!Shown, Work!ToSet
  <2>2. Work!Revealed(l, k) = [l EXCEPT !.focus = Work!Place(l, k)]
    BY <1>2 DEF Work!Revealed
  <2> QED
    BY <2>1, <2>2, FocusedFits
<1>3. CASE Work!Split(l) /\ k \notin Work!Shown(l)
  <2>1. Work!Revealed(l, k) = [l EXCEPT !.panes[l.focus] = k]
    BY <1>3 DEF Work!Revealed
  <2>2. l \in Panes /\ l.focus \in 1..Len(l.panes)
    BY <1>3, PanesAreSets DEF Work!Split, Arranged, IsArranged
  <2>3. [l EXCEPT !.panes[l.focus] = k]
          = [panes |-> [l.panes EXCEPT ![l.focus] = k], focus |-> l.focus]
    BY <2>2 DEF Panes
  <2>4. /\ [panes |-> [l.panes EXCEPT ![l.focus] = k], focus |-> l.focus] \in Arranged
        /\ ShowsOnly([panes |-> [l.panes EXCEPT ![l.focus] = k], focus |-> l.focus], l, ts)
    BY <1>3, <2>2, PutFits
  <2> QED
    BY <2>1, <2>3, <2>4
<1> QED
  BY <1>1, <1>2, <1>3

\* setPane.
LEMMA SetFits ==
  ASSUME NEW l \in Arranged, NEW ts \in TabRows, NEW i \in DOMAIN l.panes,
         NEW k \in Work!ToSet(ts)
  PROVE  Work!Set(l, i, k) \in Arranged /\ ShowsOnly(Work!Set(l, i, k), l, ts)
<1>1. i \in 1..Len(l.panes)
  BY PanesAreSets
<1>2. CASE k \notin Work!Shown(l)
  <2>1. Work!Set(l, i, k) = [panes |-> [l.panes EXCEPT ![i] = k], focus |-> i]
    BY <1>2 DEF Work!Set
  <2> QED
    BY <1>1, <1>2, <2>1, PutFits
<1>3. CASE k \in Work!Shown(l)
  <2> DEFINE p == Work!Place(l, k)
  <2>1. p \in 1..Len(l.panes) /\ l.panes[p] = k
    BY <1>3, PanesAreSets DEF Work!Place, Work!Shown, Work!ToSet
  <2>2. Work!Set(l, i, k)
          = [panes |-> [l.panes EXCEPT ![p] = l.panes[i], ![i] = l.panes[p]], focus |-> i]
    BY <1>3, <2>1 DEF Work!Set
  <2> HIDE DEF p
  <2> QED
    BY <1>1, <2>1, <2>2, SwapFits
<1> QED
  BY <1>2, <1>3

\* swapPanes.
LEMMA SwappedFits ==
  ASSUME NEW l \in Arranged, NEW ts, NEW i \in DOMAIN l.panes, NEW j \in DOMAIN l.panes
  PROVE  Work!Swapped(l, i, j) \in Arranged /\ ShowsOnly(Work!Swapped(l, i, j), l, ts)
  BY PanesAreSets, SwapFits DEF Work!Swapped

LEMMA NoSplit ==
  ASSUME NEW l \in Arranged, ~Work!Split(l)
  PROVE  Len(l.panes) = 0
<1>1. PICK n \in Nat : n = Len(l.panes)
  BY DEF Arranged, Panes
<1>2. n # 1
  BY <1>1 DEF Arranged, IsArranged
<1>3. ~(n > 1)
  BY <1>1 DEF Work!Split
<1>4. n = 0
  BY <1>2, <1>3
<1> QED
  BY <1>1, <1>4

\* The panes of tabs that are gone are emptied.
LEMMA PrunedFits ==
  ASSUME MaxPanes \in Nat, NEW l \in Arranged, NEW ts
  PROVE  /\ Work!Pruned(l, ts) \in Arranged
         /\ Work!Shown(Work!Pruned(l, ts)) \subseteq Work!ToSet(ts)
<1> DEFINE left == [i \in DOMAIN l.panes |->
                      IF l.panes[i] \in Work!ToSet(ts) THEN l.panes[i] ELSE NoTab]
           m == [panes |-> left, focus |-> l.focus]
<1>1. CASE ~Work!Split(l)
  <2>1. Len(l.panes) = 0
    BY <1>1, NoSplit
  <2>2. Work!Shown(l) = {}
    BY <2>1, PanesAreSets
  <2> QED
    BY <1>1, <2>2 DEF Work!Pruned
<1>2. CASE Work!Split(l) /\ Work!ToSet(left) = {NoTab}
  <2>1. Work!Pruned(l, ts) = Work!Single
    BY <1>2 DEF Work!Pruned
  <2> QED
    BY <2>1, SingleIsArranged
<1>3. CASE Work!Split(l) /\ Work!ToSet(left) # {NoTab}
  <2>1. Work!Pruned(l, ts) = [l EXCEPT !.panes = left]
    BY <1>3 DEF Work!Pruned
  <2>2. [l EXCEPT !.panes = left] = m
    <3> HIDE DEF left
    <3> QED
      BY PanesAreSets DEF Panes
  <2>3. /\ l.panes \in [1..Len(l.panes) -> Tabs \cup {NoTab}]
        /\ \A n, o \in 1..Len(l.panes) :
             n # o /\ l.panes[n] # NoTab => l.panes[n] # l.panes[o]
    BY PanesAreSets DEF Panes, Arranged, IsArranged
  <2>4. /\ left \in [1..Len(l.panes) -> Tabs \cup {NoTab}]
        /\ \A n \in 1..Len(l.panes) :
             left[n] # NoTab => left[n] = l.panes[n] /\ left[n] \in Work!ToSet(ts)
    <3>1. DOMAIN l.panes = 1..Len(l.panes)
      BY PanesAreSets
    <3> QED
      BY <2>3, <3>1
  <2> HIDE DEF left
  <2>5. /\ \A n, o \in 1..Len(l.panes) : n # o /\ left[n] # NoTab => left[n] # left[o]
        /\ \A n \in 1..Len(l.panes) : left[n] \in {NoTab} \cup Work!Shown(l) \cup Work!ToSet(ts)
    BY <2>3, <2>4
  <2>6. m \in Arranged
    BY <2>4, <2>5, Refilled
  <2>7. DOMAIN left = 1..Len(l.panes)
    BY <2>4
  <2>8. Work!Shown(m) \subseteq Work!ToSet(ts)
    BY <2>4, <2>7 DEF Work!Shown, Work!ToSet
  <2> QED
    BY <2>1, <2>2, <2>6, <2>8
<1> QED
  BY <1>1, <1>2, <1>3

\* A sequence with one place more.
LEMMA WithOneMore ==
  ASSUME NEW S, NEW s \in Seq(S), NEW i \in 1..Len(s) + 1, NEW e \in S
  PROVE  /\ Work!InsertAt(s, i, e) \in Seq(S)
         /\ Len(Work!InsertAt(s, i, e)) = Len(s) + 1
         /\ \A j \in 1..Len(s) + 1 : Work!InsertAt(s, i, e)[j] =
              IF j < i THEN s[j] ELSE IF j = i THEN e ELSE s[j - 1]
<1> DEFINE a == SubSeq(s, 1, i - 1)
           b == SubSeq(s, i, Len(s))
           c == a \o <<e>>
<1>1. /\ a \in Seq(S) /\ Len(a) = i - 1
      /\ \A j \in 1..i - 1 : a[j] = s[j]
  BY SubSeqProperties
<1>2. /\ b \in Seq(S) /\ Len(b) = Len(s) - i + 1
      /\ \A j \in 1..Len(s) - i + 1 : b[j] = s[i + j - 1]
  BY SubSeqProperties
<1>3. Work!InsertAt(s, i, e) = c \o b
  BY DEF Work!InsertAt
<1> HIDE DEF a, b
<1>4. /\ c \in Seq(S) /\ Len(c) = i
      /\ \A j \in 1..i : c[j] = IF j < i THEN s[j] ELSE e
  BY <1>1
<1> HIDE DEF c
<1>5. /\ c \o b \in Seq(S) /\ Len(c \o b) = Len(c) + Len(b)
      /\ \A j \in 1..Len(c) + Len(b) : (c \o b)[j] = IF j <= Len(c) THEN c[j] ELSE b[j - Len(c)]
  BY <1>2, <1>4, ConcatProperties
<1>6. Len(c) + Len(b) = Len(s) + 1
  BY <1>2, <1>4
<1>7. ASSUME NEW j \in 1..Len(s) + 1
      PROVE  (c \o b)[j] = IF j < i THEN s[j] ELSE IF j = i THEN e ELSE s[j - 1]
  <2>1. CASE j <= i
    BY <1>4, <1>5, <1>6, <2>1
  <2>2. CASE j > i
    <3>1. (c \o b)[j] = b[j - i] /\ j - i \in 1..Len(s) - i + 1
      BY <1>4, <1>5, <1>6, <2>2
    <3> QED
      BY <1>2, <2>2, <3>1
  <2>3. i \in Nat /\ j \in Nat
    OBVIOUS
  <2>4. j <= i \/ j > i
    BY <2>3
  <2> QED
    BY <2>1, <2>2, <2>4
<1> QED
  BY <1>3, <1>5, <1>6, <1>7

\* reorderTabs.
LEMMA ReorderedRows ==
  ASSUME NEW ts \in TabRows, NEW i \in DOMAIN ts, NEW j \in DOMAIN ts
  PROVE  Work!InsertAt(Work!RemoveAt(ts, i), j, ts[i]) \in TabRows
<1> DEFINE r == Work!RemoveAt(ts, i)
           s == Work!InsertAt(r, j, ts[i])
           from(n) == IF n = j THEN i
                      ELSE LET o == IF n < j THEN n ELSE n - 1
                           IN IF o < i THEN o ELSE o + 1
<1>1. /\ ts \in Seq(Tabs) /\ i \in 1..Len(ts) /\ j \in 1..Len(ts) /\ ts[i] \in Tabs
      /\ Len(ts) \in Nat
      /\ \A n, o \in 1..Len(ts) : ts[n] = ts[o] => n = o
  BY RowsAreSets
<1>2. /\ r \in Seq(Tabs) /\ Len(r) = Len(ts) - 1
      /\ \A n \in 1..Len(ts) - 1 : r[n] = ts[IF n < i THEN n ELSE n + 1]
  BY <1>1, WithoutOne
<1> HIDE DEF r
<1>3. j \in 1..Len(r) + 1 /\ Len(r) + 1 = Len(ts)
  BY <1>1, <1>2
<1>4. /\ s \in Seq(Tabs) /\ Len(s) = Len(r) + 1
      /\ \A n \in 1..Len(r) + 1 :
           s[n] = IF n < j THEN r[n] ELSE IF n = j THEN ts[i] ELSE r[n - 1]
  <2>1. r \in Seq(Tabs) /\ j \in 1..Len(r) + 1 /\ ts[i] \in Tabs
    BY <1>1, <1>2, <1>3
  <2>2. /\ Work!InsertAt(r, j, ts[i]) \in Seq(Tabs)
        /\ Len(Work!InsertAt(r, j, ts[i])) = Len(r) + 1
        /\ \A n \in 1..Len(r) + 1 : Work!InsertAt(r, j, ts[i])[n] =
             IF n < j THEN r[n] ELSE IF n = j THEN ts[i] ELSE r[n - 1]
    <3> HIDE DEF s, from
    <3>1. PICK e \in Tabs : e = ts[i]
      BY <2>1
    <3>2. /\ Work!InsertAt(r, j, e) \in Seq(Tabs)
          /\ Len(Work!InsertAt(r, j, e)) = Len(r) + 1
          /\ \A n \in 1..Len(r) + 1 : Work!InsertAt(r, j, e)[n] =
               IF n < j THEN r[n] ELSE IF n = j THEN e ELSE r[n - 1]
      <4>1. \A q \in Seq(Tabs) : \A n \in 1..Len(q) + 1 : \A x \in Tabs :
              /\ Work!InsertAt(q, n, x) \in Seq(Tabs)
              /\ Len(Work!InsertAt(q, n, x)) = Len(q) + 1
              /\ \A o \in 1..Len(q) + 1 : Work!InsertAt(q, n, x)[o] =
                   IF o < n THEN q[o] ELSE IF o = n THEN x ELSE q[o - 1]
        BY WithOneMore
      <4>2. \A n \in 1..Len(r) + 1 : \A x \in Tabs :
              /\ Work!InsertAt(r, n, x) \in Seq(Tabs)
              /\ Len(Work!InsertAt(r, n, x)) = Len(r) + 1
              /\ \A o \in 1..Len(r) + 1 : Work!InsertAt(r, n, x)[o] =
                   IF o < n THEN r[o] ELSE IF o = n THEN x ELSE r[o - 1]
        BY <2>1, <4>1
      <4> QED
        BY <2>1, <4>2
    <3> QED
      BY <3>1, <3>2
  <2> QED
    BY <2>2
<1> HIDE DEF s
<1>5. ASSUME NEW n \in 1..Len(ts) PROVE from(n) \in 1..Len(ts) /\ s[n] = ts[from(n)]
  <2>1. CASE n = j
    BY <1>1, <1>3, <1>4, <2>1
  <2>2. CASE n < j
    BY <1>1, <1>2, <1>3, <1>4, <2>2
  <2>3. CASE n > j
    <3>1. n - 1 \in 1..Len(ts) - 1 /\ s[n] = r[n - 1]
      BY <1>1, <1>3, <1>4, <2>3
    <3>2. from(n) = IF n - 1 < i THEN n - 1 ELSE n
      BY <1>1, <2>3
    <3> HIDE DEF from
    <3> QED
      BY <1>1, <1>2, <3>1, <3>2
  <2> QED
    BY <1>1, <2>1, <2>2, <2>3
<1>6. \A n, o \in 1..Len(ts) : n # o => from(n) # from(o)
  BY <1>1
<1> HIDE DEF from
<1>7. \A n, o \in 1..Len(s) : s[n] = s[o] => n = o
  <2> SUFFICES ASSUME NEW n \in 1..Len(ts), NEW o \in 1..Len(ts), n # o PROVE s[n] # s[o]
    BY <1>3, <1>4
  <2>1. from(n) # from(o) /\ s[n] = ts[from(n)] /\ s[o] = ts[from(o)]
    BY <1>5, <1>6
  <2> QED
    BY <1>1, <1>5, <2>1
<1>8. s \in TabRows
  BY <1>4, <1>7 DEF TabRows
<1> QED
  BY <1>8 DEF s, r

\* What closing leaves (closeTab and the others).
LEMMA LeftRows ==
  ASSUME NEW ts \in TabRows, NEW key, NEW kind \in {"tab", "others", "right", "all"}
  PROVE  Work!Left(kind, key, ts) \in TabRows
<1> DEFINE at == CHOOSE i \in DOMAIN ts : ts[i] = key
<1>1. <<>> \in TabRows
  BY DEF TabRows
<1>2. CASE kind = "all" \/ key \notin Work!ToSet(ts)
  BY <1>1, <1>2 DEF Work!Left
<1>3. CASE kind # "all" /\ key \in Work!ToSet(ts)
  <2>1. at \in 1..Len(ts) /\ ts[at] = key /\ key \in Tabs
    BY <1>3, RowsAreSets DEF Work!ToSet
  <2>2. /\ ts \in Seq(Tabs) /\ Len(ts) \in Nat
        /\ \A i, j \in 1..Len(ts) : ts[i] = ts[j] => i = j
    BY RowsAreSets
  <2>3. CASE kind = "others"
    <3>1. <<key>> \in TabRows
      BY <2>1 DEF TabRows
    <3> QED
      BY <1>3, <2>3, <3>1 DEF Work!Left
  <2>4. CASE kind = "tab"
    <3>1. Work!Left(kind, key, ts) = Work!RemoveAt(ts, at)
      BY <1>3, <2>4 DEF Work!Left
    <3> HIDE DEF at
    <3>2. /\ Work!RemoveAt(ts, at) \in Seq(Tabs) /\ Len(Work!RemoveAt(ts, at)) = Len(ts) - 1
          /\ \A j \in 1..Len(ts) - 1 :
               Work!RemoveAt(ts, at)[j] = ts[IF j < at THEN j ELSE j + 1]
      BY <2>1, <2>2, WithoutOne
    <3> QED
      BY <2>1, <2>2, <3>1, <3>2 DEF TabRows
  <2>5. CASE kind = "right"
    <3>1. Work!Left(kind, key, ts) = SubSeq(ts, 1, at)
      BY <1>3, <2>5 DEF Work!Left
    <3> HIDE DEF at
    <3>2. /\ SubSeq(ts, 1, at) \in Seq(Tabs) /\ Len(SubSeq(ts, 1, at)) = at
          /\ \A j \in 1..at : SubSeq(ts, 1, at)[j] = ts[j]
      BY <2>1, <2>2
    <3>3. PICK r \in Seq(Tabs) : /\ Work!Left(kind, key, ts) = r /\ Len(r) = at
                                /\ \A j \in 1..at : r[j] = ts[j]
      BY <3>1, <3>2
    <3>4. \A i, j \in 1..Len(r) : r[i] = r[j] => i = j
      BY <2>1, <2>2, <3>3
    <3> QED
      BY <3>3, <3>4 DEF TabRows
  <2> QED
    BY <1>3, <2>3, <2>4, <2>5
<1> QED
  BY <1>2, <1>3

-----------------------------------------------------------------------------
(* The stores. *)

LEMMA WorkInit == Work!Assumptions /\ Work!Init => WorkInv
<1> SUFFICES ASSUME Work!Assumptions, Work!Init PROVE WorkInv
  OBVIOUS
<1>1. <<>> \in TabRows
  BY DEF TabRows
<1>2. Work!Single \in Arranged /\ Work!Shown(Work!Single) = {}
  BY SingleIsArranged DEF Work!Assumptions
<1>3. layouts = [c \in Scopes |-> Work!Single] /\ tabsBy = [c \in Scopes |-> <<>>]
  BY DEF Work!Init, Work!Scopes, Scopes
<1>4. closing = Work!NotClosing /\ active = NoId /\ saved = Ids
  BY DEF Work!Init
<1>5. Work!ShowsActive
  BY <1>3 DEF Work!Init, Work!ShowsActive, Scopes
<1>6. Work!PanesAreOpen
  BY <1>2, <1>3 DEF Work!Init, Work!PanesAreOpen, Scopes
<1> QED
  BY <1>1, <1>2, <1>3, <1>4, <1>5, <1>6 DEF WorkInv, Work!Init, Scopes

\* What is shown is stored for the active connection.
LEMMA ShownIsActive ==
  ASSUME WorkInv
  PROVE  /\ active \in Scopes /\ tabs = tabsBy[active] /\ tabs \in TabRows
         /\ layout = layouts[active] /\ layout \in Arranged
  BY DEF WorkInv, Work!ShowsActive, Scopes

\* storeFor.
LEMMA SetTabsStep ==
  ASSUME Work!Assumptions, WorkInv, NEW ts \in TabRows, Work!SetTabs(ts),
         closing' \in CloseRequests \cup {Work!NotClosing}
  PROVE  WorkInv'
<1> DEFINE m == Work!Pruned(layout, ts)
<1>1. m \in Arranged /\ Work!Shown(m) \subseteq Work!ToSet(ts)
  BY ShownIsActive, PrunedFits DEF Work!Assumptions
<1>2. /\ layout' = m /\ layouts' = [layouts EXCEPT ![active] = m]
      /\ tabs' = ts /\ tabsBy' = [tabsBy EXCEPT ![active] = ts]
      /\ lost' = lost \ {active} /\ saved' = saved /\ active' = active /\ disk' = disk
  BY DEF Work!SetTabs, Work!Put
<1> HIDE DEF m
<1>3. Work!ShowsActive'
  BY <1>2, ShownIsActive DEF WorkInv, Work!ShowsActive
<1>4. ASSUME NEW c \in (saved' \cup {NoId}) \ lost'
      PROVE  Work!Shown(layouts'[c]) \subseteq Work!ToSet(tabsBy'[c])
  <2>1. c \in Scopes
    BY <1>2 DEF WorkInv, Scopes
  <2>2. CASE c = active
    BY <1>1, <1>2, <2>1, <2>2 DEF WorkInv
  <2>3. CASE c # active
    BY <1>2, <1>4, <2>1, <2>3 DEF WorkInv, Work!PanesAreOpen
  <2> QED
    BY <2>2, <2>3
<1>5. Work!PanesAreOpen'
  BY <1>4 DEF Work!PanesAreOpen, Work!Shown, Work!ToSet
<1>6. /\ tabsBy' \in [Scopes -> TabRows] /\ layouts' \in [Scopes -> Arranged]
  BY <1>1, <1>2 DEF WorkInv
<1> QED
  BY <1>2, <1>3, <1>5, <1>6 DEF WorkInv

\* snapshot.
LEMMA PutStep ==
  ASSUME WorkInv, NEW m \in Arranged, ShowsOnly(m, layout, tabs), Work!Put(m),
         UNCHANGED <<saved, active, tabs, tabsBy, disk, lost>>, closing' \in CloseRequests \cup {Work!NotClosing}
  PROVE  WorkInv'
<1>1. layout' = m /\ layouts' = [layouts EXCEPT ![active] = m]
  BY DEF Work!Put
<1>2. Work!ShowsActive'
  BY <1>1, ShownIsActive DEF WorkInv, Work!ShowsActive
<1>3. ASSUME NEW c \in (saved' \cup {NoId}) \ lost'
      PROVE  Work!Shown(layouts'[c]) \subseteq Work!ToSet(tabsBy'[c])
  <2>1. c \in Scopes /\ Work!Shown(layouts[c]) \subseteq Work!ToSet(tabsBy[c])
    BY <1>3 DEF WorkInv, Scopes, Work!PanesAreOpen
  <2>2. CASE c = active
    BY <1>1, <2>1, <2>2, ShownIsActive DEF WorkInv, ShowsOnly
  <2>3. CASE c # active
    BY <1>1, <2>1, <2>3 DEF WorkInv
  <2> QED
    BY <2>2, <2>3
<1>4. Work!PanesAreOpen'
  BY <1>3 DEF Work!PanesAreOpen, Work!Shown, Work!ToSet
<1>5. layouts' \in [Scopes -> Arranged]
  BY <1>1 DEF WorkInv
<1> QED
  BY <1>2, <1>4, <1>5 DEF WorkInv

LEMMA ArrangeStep ==
  ASSUME WorkInv, NEW m \in Arranged, ShowsOnly(m, layout, tabs), Work!Arrange(m)
  PROVE  WorkInv'
<1>1. closing' \in CloseRequests \cup {Work!NotClosing}
  BY DEF WorkInv, Work!Arrange
<1> QED
  BY <1>1, PutStep DEF Work!Arrange

\* executeClose.
LEMMA ExecuteCloseStep ==
  ASSUME Work!Assumptions, WorkInv, NEW r \in CloseRequests,
         Work!ExecuteClose(r)
  PROVE  WorkInv'
<1>1. CASE /\ r.kind \in {"tab", "right"}
           /\ Work!SetTabs(Work!Left(r.kind, r.key, tabs))
           /\ closing' = Work!NotClosing
  <2>1. Work!Left(r.kind, r.key, tabs) \in TabRows
    BY <1>1, ShownIsActive, LeftRows
  <2> QED
    BY <1>1, <2>1, SetTabsStep
<1>2. CASE /\ Work!Put(IF r.kind = "all" THEN Work!Single ELSE layout)
           /\ closing' = [r EXCEPT !.asked = FALSE]
           /\ UNCHANGED <<saved, active, tabs, tabsBy, disk, lost>>
  <2> DEFINE m == IF r.kind = "all" THEN Work!Single ELSE layout
  <2>1. m \in Arranged /\ ShowsOnly(m, layout, tabs)
    BY ShownIsActive, SingleIsArranged DEF Work!Assumptions, ShowsOnly
  <2>2. closing' \in CloseRequests
    BY <1>2 DEF CloseRequests
  <2> QED
    BY <1>2, <2>1, <2>2, PutStep
<1> QED
  BY <1>1, <1>2 DEF Work!ExecuteClose

LEMMA RequestCloseStep ==
  ASSUME Work!Assumptions, WorkInv, NEW kind \in {"tab", "others", "right", "all"},
         NEW k \in Work!ToSet(tabs), Work!RequestClose(kind, k)
  PROVE  WorkInv'
<1> DEFINE r == [kind |-> kind, key |-> k, of |-> active, asked |-> TRUE]
<1>1. r \in CloseRequests
  BY ShownIsActive, RowsAreSets DEF CloseRequests
<1>2. CASE Work!ExecuteClose(r)
  BY <1>1, <1>2, ExecuteCloseStep
<1>3. CASE closing' = r /\ UNCHANGED <<saved, active, tabs, tabsBy, disk, layout, layouts, lost>>
  BY <1>1, <1>3 DEF WorkInv, Work!ShowsActive, Work!PanesAreOpen, Work!Shown, Work!ToSet
<1> QED
  BY <1>2, <1>3 DEF Work!RequestClose

LEMMA AnswerCloseStep ==
  ASSUME Work!Assumptions, WorkInv, Work!AnswerClose
  PROVE  WorkInv'
<1>1. closing \in CloseRequests
  BY DEF WorkInv, Work!AnswerClose, Work!NotClosing
<1>2. CASE Work!ExecuteClose(closing)
  BY <1>1, <1>2, ExecuteCloseStep
<1>3. CASE /\ closing' = Work!NotClosing
           /\ UNCHANGED <<saved, active, tabs, tabsBy, disk, layout, layouts, lost>>
  BY <1>3 DEF WorkInv, Work!ShowsActive, Work!PanesAreOpen, Work!Shown, Work!ToSet
<1> QED
  BY <1>2, <1>3 DEF Work!AnswerClose

LEMMA ClosedStep ==
  ASSUME Work!Assumptions, WorkInv, Work!Closed
  PROVE  WorkInv'
<1>1. closing \in CloseRequests
  BY DEF WorkInv, Work!Closed
<1>2. Work!Left(closing.kind, closing.key, tabs) \in TabRows
  BY <1>1, ShownIsActive, LeftRows DEF CloseRequests
<1>3. /\ Work!SetTabs(Work!Left(closing.kind, closing.key, tabs))
      /\ closing' \in CloseRequests \cup {Work!NotClosing}
  BY DEF Work!Closed
<1> QED
  BY <1>2, <1>3, SetTabsStep

LEMMA OpenTabStep ==
  ASSUME Work!Assumptions, WorkInv, NEW k \in Tabs, Work!OpenTab(k)
  PROVE  WorkInv'
<1>1. tabs \in TabRows /\ k \notin Work!ToSet(tabs)
  BY ShownIsActive DEF Work!OpenTab
<1>2. Append(tabs, k) \in TabRows
  <2>1. /\ tabs \in Seq(Tabs) /\ Len(tabs) \in Nat
        /\ \A i, j \in 1..Len(tabs) : tabs[i] = tabs[j] => i = j
        /\ \A i \in 1..Len(tabs) : tabs[i] # k
    BY <1>1, RowsAreSets
  <2>2. PICK s \in Seq(Tabs) :
          /\ s = Append(tabs, k) /\ Len(s) = Len(tabs) + 1 /\ s[Len(tabs) + 1] = k
          /\ \A i \in 1..Len(tabs) : s[i] = tabs[i]
    <3>1. /\ Append(tabs, k) \in Seq(Tabs) /\ Len(Append(tabs, k)) = Len(tabs) + 1
          /\ \A i \in 1..Len(tabs) : Append(tabs, k)[i] = tabs[i]
          /\ Append(tabs, k)[Len(tabs) + 1] = k
      BY <2>1, AppendProperties
    <3> QED
      BY <3>1
  <2>3. \A i, j \in 1..Len(s) : s[i] = s[j] => i = j
    BY <2>1, <2>2
  <2> QED
    BY <2>2, <2>3 DEF TabRows
<1>3. Work!SetTabs(Append(tabs, k)) /\ closing' \in CloseRequests \cup {Work!NotClosing}
  BY DEF Work!OpenTab, WorkInv
<1> QED
  BY <1>2, <1>3, SetTabsStep

LEMMA ReorderStep ==
  ASSUME Work!Assumptions, WorkInv, NEW i \in DOMAIN tabs, NEW j \in DOMAIN tabs,
         Work!ReorderTabs(i, j)
  PROVE  WorkInv'
<1> DEFINE ts == Work!InsertAt(Work!RemoveAt(tabs, i), j, tabs[i])
<1>1. ts \in TabRows
  BY ShownIsActive, ReorderedRows
<1>2. Work!SetTabs(ts) /\ closing' \in CloseRequests \cup {Work!NotClosing}
  BY DEF Work!ReorderTabs, WorkInv
<1> HIDE DEF ts
<1> QED
  BY <1>1, <1>2, SetTabsStep

LEMMA UserStep ==
  ASSUME Work!Assumptions, WorkInv, Work!User
  PROVE  WorkInv'
<1>1. /\ active \in Scopes /\ tabs \in TabRows /\ layout \in Arranged
      /\ Work!ToSet(tabs) \subseteq Tabs
  BY ShownIsActive, RowsAreSets
<1>2. ASSUME NEW k \in Work!ToSet(tabs) \cup {NoTab}, Work!AddPane(k) PROVE WorkInv'
  BY <1>1, <1>2, AddedFits, ArrangeStep DEF Work!AddPane
<1>3. ASSUME NEW k \in Work!ToSet(tabs), Work!Reveal(k) PROVE WorkInv'
  BY <1>1, <1>3, RevealedFits, ArrangeStep DEF Work!Reveal
<1>4. ASSUME NEW i \in DOMAIN layout.panes, Work!ClosePane(i) PROVE WorkInv'
  BY <1>1, <1>4, RemovedFits, ArrangeStep DEF Work!ClosePane
<1>5. ASSUME NEW i \in DOMAIN layout.panes, Work!FocusPane(i) PROVE WorkInv'
  BY <1>1, <1>5, FocusedFits, ArrangeStep DEF Work!FocusPane
<1>6. ASSUME NEW i \in DOMAIN layout.panes, NEW k \in Work!ToSet(tabs), Work!SetPane(i, k)
      PROVE  WorkInv'
  BY <1>1, <1>6, SetFits, ArrangeStep DEF Work!SetPane
<1>7. ASSUME NEW i \in DOMAIN layout.panes, NEW j \in DOMAIN layout.panes,
             Work!SwapPanes(i, j)
      PROVE  WorkInv'
  BY <1>1, <1>7, SwappedFits, ArrangeStep DEF Work!SwapPanes
<1> QED
  BY <1>2, <1>3, <1>4, <1>5, <1>6, <1>7, OpenTabStep, ReorderStep, RequestCloseStep DEF Work!User

\* A change of the active connection: what it shows is what was stored.
LEMMA ActivateShows ==
  ASSUME WorkInv, NEW id \in Scopes, id # active, Work!Activate(id)
  PROVE  /\ active' = id /\ tabs' = tabsBy[id] /\ layouts' = layouts
         /\ layout' = layouts[id]
  BY DEF Work!Activate, Work!Prunes

LEMMA SwitchStep ==
  ASSUME WorkInv, NEW id \in saved \cup {NoId}, Work!Switch(id)
  PROVE  WorkInv'
<1>1. /\ active' = id /\ tabs' = tabsBy[id] /\ layouts' = layouts /\ layout' = layouts[id]
      /\ UNCHANGED <<saved, tabsBy, disk, closing, lost>>
  BY ActivateShows DEF Work!Switch, WorkInv, Scopes
<1> QED
  BY <1>1 DEF WorkInv, Work!ShowsActive, Work!PanesAreOpen, Work!Shown, Work!ToSet

LEMMA RemoveStep ==
  ASSUME Work!Assumptions, WorkInv, NEW id \in saved, Work!RemoveConnection(id)
  PROVE  WorkInv'
<1>1. id \in Scopes /\ id # NoId /\ <<>> \in TabRows
  BY DEF WorkInv, Work!Assumptions, Scopes, TabRows
<1>2. /\ saved' = saved \ {id} /\ tabsBy' = [tabsBy EXCEPT ![id] = <<>>]
      /\ disk' = disk /\ closing' = closing /\ lost' = lost /\ layouts' = layouts
      /\ IF id = active
         THEN active' = NoId /\ tabs' = tabsBy[NoId] /\ layout' = layouts[NoId]
         ELSE active' = active /\ tabs' = tabs /\ layout' = layout
  BY <1>1, ActivateShows DEF Work!RemoveConnection, Scopes
<1>3. active' \in saved' \cup {NoId} /\ active' # id
  BY <1>1, <1>2 DEF WorkInv
<1>4. Work!ShowsActive'
  BY <1>1, <1>2, <1>3 DEF WorkInv, Work!ShowsActive, Scopes
<1>5. ASSUME NEW c \in (saved' \cup {NoId}) \ lost'
      PROVE  Work!Shown(layouts'[c]) \subseteq Work!ToSet(tabsBy'[c])
  <2>1. c # id /\ c \in (saved \cup {NoId}) \ lost /\ tabsBy'[c] = tabsBy[c]
    BY <1>1, <1>2 DEF WorkInv, Scopes
  <2> QED
    BY <1>2, <2>1 DEF WorkInv, Work!PanesAreOpen
<1>6. Work!PanesAreOpen'
  BY <1>5 DEF Work!PanesAreOpen, Work!Shown, Work!ToSet
<1>7. tabsBy' \in [Scopes -> TabRows]
  BY <1>1, <1>2 DEF WorkInv
<1> QED
  BY <1>2, <1>3, <1>4, <1>6, <1>7 DEF WorkInv

\* A killed program comes back with older tabs; the connections whose tabs
\* were not written are those in lost.
LEMMA WorkRestartStep ==
  ASSUME WorkInv, Work!Restart
  PROVE  WorkInv'
<1>1. /\ tabsBy' = disk /\ tabs' = disk[active] /\ layout' = layouts[active]
      /\ closing' = Work!NotClosing /\ lost' = lost \cup {c \in Scopes : disk[c] # tabsBy[c]}
      /\ UNCHANGED <<saved, active, disk, layouts>>
  BY DEF Work!Restart, Work!Scopes, Scopes
<1>2. ASSUME NEW c \in (saved' \cup {NoId}) \ lost'
      PROVE  Work!Shown(layouts'[c]) \subseteq Work!ToSet(tabsBy'[c])
  <2>1. c \in (saved \cup {NoId}) \ lost /\ c \in Scopes
    BY <1>1 DEF WorkInv, Scopes
  <2>2. tabsBy'[c] = tabsBy[c] /\ layouts'[c] = layouts[c]
    BY <1>1, <2>1
  <2> QED
    BY <2>1, <2>2 DEF WorkInv, Work!PanesAreOpen
<1>3. Work!PanesAreOpen'
  BY <1>2 DEF Work!PanesAreOpen, Work!Shown, Work!ToSet
<1>4. Work!ShowsActive'
  BY <1>1 DEF Work!ShowsActive
<1> QED
  BY <1>1, <1>3, <1>4 DEF WorkInv

\* The stores agree on what the active connection shows; every stored layout is
\* one the split view can show, and it shows tabs that are open there.
THEOREM WorkInvariance == Work!Assumptions /\ Work!Spec => []WorkInv
<1>1. Work!Assumptions /\ WorkInv /\ [Work!Next]_Work!vars => WorkInv'
  <2> SUFFICES ASSUME Work!Assumptions, WorkInv, [Work!Next]_Work!vars PROVE WorkInv'
    OBVIOUS
  <2>1. CASE UNCHANGED Work!vars
    BY <2>1 DEF Work!vars, WorkInv, Work!ShowsActive, Work!PanesAreOpen, Work!Shown, Work!ToSet
  <2>2. CASE Work!Flush
    <3>1. /\ disk' = tabsBy
          /\ UNCHANGED <<saved, active, tabs, tabsBy, layout, layouts, closing, lost>>
      BY <2>2 DEF Work!Flush
    <3>2. Work!ShowsActive' /\ Work!PanesAreOpen'
      BY <3>1 DEF WorkInv, Work!ShowsActive, Work!PanesAreOpen, Work!Shown, Work!ToSet
    <3> QED
      BY <3>1, <3>2 DEF WorkInv
  <2> QED
    BY <2>1, <2>2, UserStep, AnswerCloseStep, ClosedStep, SwitchStep, RemoveStep, WorkRestartStep
       DEF Work!Next
<1>2. CASE Work!Assumptions
  BY <1>1, <1>2, WorkInit, PTL DEF Work!Spec
<1> QED
  BY <1>2

\* No connection has more tabs than there are, and no split view more panes than
\* it may.
THEOREM WorkTypeCorrect == Work!Assumptions /\ Work!Spec => []Work!TypeOK
<1>1. Work!Assumptions /\ WorkInv => Work!TypeOK
  <2> SUFFICES ASSUME Work!Assumptions, WorkInv PROVE Work!TypeOK
    OBVIOUS
  <2>1. ASSUME NEW ts \in TabRows PROVE ts \in Work!TabLists /\ Work!IsInjective(ts)
    <3>1. /\ ts \in Seq(Tabs) /\ Len(ts) \in Nat /\ DOMAIN ts = 1..Len(ts)
          /\ \A i, j \in 1..Len(ts) : ts[i] = ts[j] => i = j
      BY RowsAreSets
    <3>2. ts \in Injection(1..Len(ts), Tabs)
      BY <3>1 DEF Injection, IsInjective
    <3>3. IsFiniteSet(Tabs)
      BY DEF Work!Assumptions, Work!IsFiniteSet, IsFiniteSet
    <3>4. Cardinality(1..Len(ts)) <= Cardinality(Tabs)
      BY <3>2, <3>3, FS_Injection
    <3>5. Len(ts) <= Cardinality(Tabs) /\ Cardinality(Tabs) \in Nat
      BY <3>1, <3>3, <3>4, FS_Interval, FS_CardinalityType
    <3>6. Len(ts) \in 0..Work!Cardinality(Tabs)
      BY <3>1, <3>5 DEF Work!Cardinality, Cardinality
    <3>7. ts \in [1..Len(ts) -> Tabs]
      BY <3>1
    <3> QED
      BY <3>1, <3>6, <3>7 DEF Work!TabLists, Work!BoundedSeq, Work!SeqOf, Work!IsInjective
  <2>2. ASSUME NEW l \in Arranged PROVE l \in Work!Layouts
    <3>1. /\ l \in Panes /\ Len(l.panes) \in 0..MaxPanes /\ l.focus \in 1..MaxPanes
      BY PanesAreSets DEF Arranged, IsArranged, Work!Assumptions
    <3>2. l.panes \in [1..Len(l.panes) -> Tabs \cup {NoTab}]
      BY <3>1 DEF Panes
    <3>3. l.panes \in Work!BoundedSeq(Tabs \cup {NoTab}, MaxPanes)
      BY <3>1, <3>2 DEF Work!BoundedSeq, Work!SeqOf
    <3> QED
      BY <3>1, <3>3 DEF Work!Layouts, Panes
  <2>3. closing.of \in Scopes
    BY DEF WorkInv, CloseRequests, Work!NotClosing, Scopes
  <2> QED
    BY <2>1, <2>2, <2>3, ShownIsActive DEF WorkInv, Work!TypeOK, Work!Scopes, Scopes
<1>2. CASE Work!Assumptions
  BY <1>1, <1>2, WorkInvariance, PTL
<1> QED
  BY <1>2

\* The split view fits the tabs (split-view.ts, table-tabs.ts): it is that of the
\* active connection, shows open tabs only and none twice, whatever is opened,
\* closed, moved, switched, removed or lost.
THEOREM SplitFits == Work!Assumptions /\ Work!Spec => []SplitFitsTabs
<1>1. WorkInv => SplitFitsTabs
  <2> SUFFICES ASSUME WorkInv PROVE SplitFitsTabs
    OBVIOUS
  <2>1. ASSUME NEW c \in Scopes, NEW l, l = layouts[c]
        PROVE  /\ \A i, j \in DOMAIN l.panes :
                    i # j /\ l.panes[i] # NoTab => l.panes[i] # l.panes[j]
               /\ Len(l.panes) # 1
               /\ l.focus = 1 \/ l.focus \in DOMAIN l.panes
    <3>1. l \in Arranged
      BY <2>1 DEF WorkInv
    <3> QED
      BY <3>1, PanesAreSets DEF Arranged, IsArranged
  <2>2. Work!PanesAreDistinct
    BY <2>1 DEF Work!PanesAreDistinct, Work!Scopes, Scopes
  <2> QED
    BY <2>2 DEF WorkInv, SplitFitsTabs, Work!SplitFitsTabs
<1>2. CASE Work!Assumptions
  BY <1>1, <1>2, WorkInvariance, PTL
<1> QED
  BY <1>2

\* A switch of the connection changes neither the tabs nor the layout stored for
\* any connection that is kept.
THEOREM SwitchKeeps == Work!Assumptions /\ Work!Spec => SwitchKeepsLayouts
<1>1. Work!Assumptions /\ WorkInv /\ [Work!Next]_Work!vars =>
        [active' # active => \A c \in saved' \cup {NoId} :
           tabsBy'[c] = tabsBy[c] /\ layouts'[c] = layouts[c]]_Work!vars
  <2> SUFFICES ASSUME Work!Assumptions, WorkInv, Work!Next, active' # active,
                      NEW c \in saved' \cup {NoId}
               PROVE  tabsBy'[c] = tabsBy[c] /\ layouts'[c] = layouts[c]
    BY DEF Work!vars
  <2>1. \/ \E id \in saved \cup {NoId} : Work!Switch(id)
        \/ \E id \in saved : Work!RemoveConnection(id)
    BY DEF Work!Next, Work!User, Work!AnswerClose, Work!Closed, Work!Flush, Work!Restart,
           Work!OpenTab, Work!ReorderTabs, Work!RequestClose, Work!ExecuteClose, Work!AddPane,
           Work!Reveal, Work!ClosePane, Work!FocusPane, Work!SetPane, Work!SwapPanes,
           Work!Arrange, Work!SetTabs
  <2>2. ASSUME NEW id \in saved \cup {NoId}, Work!Switch(id)
        PROVE  tabsBy' = tabsBy /\ layouts' = layouts
    BY <2>2, ActivateShows DEF Work!Switch, WorkInv, Scopes
  <2>3. ASSUME NEW id \in saved, Work!RemoveConnection(id)
        PROVE  /\ tabsBy' = [tabsBy EXCEPT ![id] = <<>>] /\ layouts' = layouts
               /\ c # id /\ c \in Scopes
    BY <2>3, ActivateShows DEF Work!RemoveConnection, Work!Assumptions, WorkInv, Scopes
  <2> QED
    BY <2>1, <2>2, <2>3 DEF WorkInv
<1>2. CASE Work!Assumptions
  BY <1>1, <1>2, WorkInvariance, PTL
     DEF Work!Spec, SwitchKeepsLayouts, Work!SwitchKeepsLayouts
<1> QED
  BY <1>2
=============================================================================
