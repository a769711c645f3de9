------------------------- MODULE MCExtensionManager -------------------------
(* Instances of ExtensionManager for TLC: an extension a that b depends on. *)
EXTENDS ExtensionManager, TLC

OneDependency == {<<"b", "a">>}
Two == {"a", "b"}
OnlyB == {"b"}
NoGrants == {{}}

\* Of the two only a is updated.
UpdatesOfA == op'.kind = "update" => op'.x = "a"
OneUpdated == Init /\ [][Next /\ UpdatesOfA]_vars /\ Fairness
=============================================================================
