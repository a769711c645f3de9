----------------------- MODULE MCConnectionActivation -----------------------
(***************************************************************************)
(* An instance of ConnectionActivation for TLC: d connects directly, s and *)
(* t use tunnels.  Who acts depends on the scenario: all of them at once   *)
(* are too many behaviours.                                                *)
(***************************************************************************)
EXTENDS ConnectionActivation, TLC

CONSTANTS d, s, t
VARIABLE scenario

Connections == {d, s, t}
Tunneled == {s, t}

Idle(S) == \A a \in S : pc[a] = "idle"

ScenarioInit ==
  /\ Init
  /\ \/ scenario = "edited" /\ saved[t] = saved[s]
     \/ scenario = "removed" /\ active = None /\ Cardinality({saved[i] : i \in Ids}) = 1

\* edited: activations of d and s, an edit, and a split pane.
\* removed: activations of s and t, and a removal.
Restriction ==
  \/ /\ scenario = "edited"
     /\ Idle(Removers)' /\ \A a \in Actors : target'[a] # t
  \/ /\ scenario = "removed"
     /\ Idle(Editors \cup Panes)' /\ \A a \in Actors : target'[a] # d

ScenarioSpec ==
  ScenarioInit /\ [][Next /\ Restriction /\ UNCHANGED scenario]_<<vars, scenario>>

Symmetry == UNION {Permutations(S) : S \in {Requests, Editors, Panes, Removers, Configs, Ports}}
=============================================================================
