----------------------- MODULE MCManagedTransactions -----------------------
(***************************************************************************)
(* Instances of ManagedTransactions for TLC.  Who acts beside the panel's  *)
(* commits and rollbacks depends on the scenario: all of them at once are  *)
(* too many behaviours.                                                    *)
(***************************************************************************)
EXTENDS ManagedTransactions, TLC

CONSTANT Scenarios
VARIABLE scenario

Idle(o) == op[o] = "idle"

Restriction ==
  CASE scenario = "edits"   ->  \* two edits, and the refresh of the panel
         (\A o \in Queries : Idle(o)') /\ UNCHANGED <<managed, separate>>
    [] scenario = "queries" ->  \* two statements, and the safe mode switched
         (\A o \in Edits : Idle(o)') /\ UNCHANGED <<sync, separate>>
    [] scenario = "mixed"   ->  \* one of each, and "per table" switched; no cancel
         /\ Cardinality({o \in Edits : ~Idle(o)'}) <= 1
         /\ Cardinality({o \in Queries : ~Idle(o)'}) <= 1
         /\ UNCHANGED <<sync, managed, cancelled>>

ScenarioInit ==
  /\ Init
  /\ scenario \in Scenarios
  /\ IF scenario = "mixed" THEN managed ELSE ~separate

ScenarioSpec ==
  ScenarioInit /\ [][Next /\ Restriction /\ UNCHANGED scenario]_<<vars, scenario>>

Symmetry == UNION {Permutations(S) : S \in {Tx, Edits, Queries, Ends, Tables}}
=============================================================================
