----------------------------- MODULE DataCompare -----------------------------
(***************************************************************************)
(* The comparison of two tables and the script that brings one in line     *)
(* with the other (data-compare.ts, data-compare-view.tsx).  Both tables   *)
(* are read, each at its own moment; the rows that differ are compared by  *)
(* key; the script opens in a query tab of whatever connection is active   *)
(* and runs there, statement by statement, while other sessions go on      *)
(* changing both tables.                                                   *)
(*                                                                         *)
(* Abstracted: the refusals of planDataCompare and of tables that are too  *)
(* large or have no usable key, which end the comparison before a script;  *)
(* how a literal is quoted.  A row is a function from the compared columns *)
(* to values, a table a function from key values to rows.                  *)
(***************************************************************************)
EXTENDS Naturals, Sequences, SequencesExt, FiniteSets

CONSTANTS
    Keys,           \* values of the primary key
    Columns,        \* compareColumns
    Values,         \* values of a column, NULL among them
    Null,           \* the value NULL
    NoRow,          \* the table has no row of a key
    MaxChanges      \* bound: changes by other sessions

\* What an instance has to provide.
Assumptions == IsFiniteSet(Keys) /\ MaxChanges \in Nat

Sides == {"left", "right"}
Rows == [Columns -> Values]
Tables == [Keys -> Rows \union {NoRow}]

VARIABLES
    table,          \* the two tables
    read,           \* what was read of them, none before
    selected,       \* the keys chosen for the script
    target,         \* direction: the side the script is for
    script,         \* the statements that have not run
    place,          \* the side whose connection the script runs on
    stage,          \* "reading" | "compared" | "running" | "done" | "failed"
    changes         \* changes made by other sessions

vars == <<table, read, selected, target, script, place, stage, changes>>

NotRead == [k \in {} |-> NoRow]

Init ==
    /\ table \in [Sides -> Tables]
    /\ read = [s \in Sides |-> NotRead]
    /\ selected = {}
    /\ target = "right"
    /\ script = <<>>
    /\ place = "right"
    /\ stage = "reading"
    /\ changes = 0

Other(s) == CHOOSE o \in Sides : o # s

-----------------------------------------------------------------------------
\* loadSide, for the side whose rows arrive next.
Load(s) ==
    /\ stage = "reading"
    /\ read[s] = NotRead
    /\ read' = [read EXCEPT ![s] = table[s]]
    /\ stage' = IF read[Other(s)] = NotRead THEN "reading" ELSE "compared"
    /\ UNCHANGED <<table, selected, target, script, place, changes>>

\* compareTableData: the category of a key, with side t as the target.
Missing(k, t) == read[t][k] = NoRow /\ read[Other(t)][k] # NoRow
Differs(k, t) == NoRow \notin {read[t][k], read[Other(t)][k]}
                 /\ read[t][k] # read[Other(t)][k]

Insert(k, t) == [op |-> "insert", key |-> k, row |-> read[Other(t)][k], was |-> NoRow]
Update(k, t) == [op |-> "update", key |-> k, row |-> read[Other(t)][k], was |-> read[t][k]]

\* buildSyncScript of the rows that are selected: the inserts, then the
\* updates; a row that only the target has stays.
Script(chosen, t) ==
    SetToSeq({Insert(k, t) : k \in {k \in chosen : Missing(k, t)}})
    \o SetToSeq({Update(k, t) : k \in {k \in chosen : Differs(k, t)}})

\* openScript, and the start of the script in the query tab.
Run(chosen, t, p) ==
    /\ stage = "compared"
    /\ selected' = chosen
    /\ target' = t
    /\ place' = p
    /\ script' = Script(chosen, t)
    /\ stage' = "running"
    /\ UNCHANGED <<table, read, changes>>

\* Mutant of Matches: the update is conditioned on the columns it changes.
MatchesChanged(s, row) ==
    /\ row # NoRow
    /\ \A c \in Columns : s.row[c] # s.was[c] => row[c] = s.was[c]

\* Mutant of Matches: the columns are compared with =, which NULL never is.
MatchesEqual(s, row) ==
    row # NoRow /\ \A c \in Columns : row[c] = s.was[c] /\ row[c] # Null

\* The WHERE of an update: its key, and every compared column IS NOT
\* DISTINCT FROM the value that was read.
Matches(s, row) == row = s.was

\* SET assigns the columns that differ.
Assigned(s, row) ==
    [c \in Columns |-> IF s.row[c] # s.was[c] THEN s.row[c] ELSE row[c]]

\* One statement on the connection the script runs on.
Execute ==
    LET s == Head(script)
        row == table[place][s.key]
    IN /\ stage = "running"
       /\ script # <<>>
       /\ script' = Tail(script)
       /\ \/ /\ s.op = "insert" /\ row = NoRow
             /\ table' = [table EXCEPT ![place][s.key] = s.row]
             /\ UNCHANGED stage
          \/ /\ s.op = "insert" /\ row # NoRow           \* duplicate key
             /\ stage' \in {"running", "failed"}         \* continue, or stop
             /\ UNCHANGED table
          \/ /\ s.op = "update" /\ Matches(s, row)
             /\ table' = [table EXCEPT ![place][s.key] = Assigned(s, row)]
             /\ UNCHANGED stage
          \/ /\ s.op = "update" /\ ~Matches(s, row)      \* no row is hit
             /\ UNCHANGED <<table, stage>>
       /\ UNCHANGED <<read, selected, target, place, changes>>

Finish ==
    /\ stage = "running"
    /\ script = <<>>
    /\ stage' = "done"
    /\ UNCHANGED <<table, read, selected, target, script, place, changes>>

\* Another session inserts, changes or deletes a row.
Change(s, k, row) ==
    /\ changes < MaxChanges
    /\ row # table[s][k]
    /\ changes' = changes + 1
    /\ table' = [table EXCEPT ![s][k] = row]
    /\ UNCHANGED <<read, selected, target, script, place, stage>>

Next ==
    \/ \E s \in Sides : Load(s)
    \/ \E chosen \in SUBSET Keys, t \in Sides, p \in Sides : Run(chosen, t, p)
    \/ Execute
    \/ Finish
    \/ \E s \in Sides, k \in Keys, row \in Rows \union {NoRow} : Change(s, k, row)

Spec == Init /\ [][Next]_vars

-----------------------------------------------------------------------------
TypeOK ==
    /\ table \in [Sides -> Tables]
    /\ \A s \in Sides : read[s] \in Tables \union {NotRead}
    /\ selected \subseteq Keys
    /\ {target, place} \subseteq Sides
    /\ Len(script) <= Cardinality(Keys)
    /\ changes \in 0..MaxChanges

\* The script overwrites no row that is not exactly the row the user was
\* shown for the target, whatever other sessions did since and even on the
\* wrong connection: an update whose row is no longer that one hits nothing.
NothingIsOverwritten ==
    [][Execute => \A k \in Keys :
        table[place][k] # NoRow /\ table'[place][k] # table[place][k] =>
            table[place][k] = read[target][k]]_vars

\* When nobody else changed anything, the script brings the rows that were
\* selected from the source to the target and changes nothing else; run on
\* the connection of the source by mistake, it changes nothing at all.
ScriptDoesItsWork ==
    stage = "done" /\ changes = 0 =>
        /\ table[Other(target)] = read[Other(target)]
        /\ \A k \in Keys :
            table[target][k] =
                IF place = target /\ k \in selected /\ read[Other(target)][k] # NoRow
                THEN read[Other(target)][k]
                ELSE read[target][k]

=============================================================================
