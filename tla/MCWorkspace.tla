---------------------------- MODULE MCWorkspace ----------------------------
(* An instance of Workspace for TLC: one connection and no connection. *)
EXTENDS Workspace

\* All tabs are closed, one of which has changes that are not saved, so that the
\* close asks; the navigation after the answer is over before anything else
\* happens.
AskedAll ==
    /\ closing'.kind \in {"none", "all"}
    /\ closing = NotClosing => closing' = NotClosing \/ closing'.asked
    /\ closing # NotClosing /\ ~closing.asked => Closed

AskedSpec == Init /\ [][Next /\ AskedAll]_vars
=============================================================================
