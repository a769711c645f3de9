----------------------------- MODULE AtomicStore -----------------------------
(***************************************************************************)
(* What the store of an extension promises: an operation takes effect at   *)
(* one instant or not at all, whatever fails and wherever the program      *)
(* stops.  One that reports success took effect; one that reports an error *)
(* did not, but a removal, which may have removed the package already.  A   *)
(* crash is one of the two, without a report.                              *)
(***************************************************************************)
CONSTANTS Packages, NoPackage

VARIABLES stored,  \* the package that is installed, or NoPackage
          call,    \* the operation under way, or "none"
          done     \* whether it took effect

TypeOK ==
  /\ stored \in Packages \cup {NoPackage}
  /\ call \in {"none", "install", "change", "remove", "set"}
  /\ done \in BOOLEAN

Init == stored \in Packages \cup {NoPackage} /\ call = "none" /\ done = FALSE

Call ==
  /\ call = "none" /\ call' \in {"install", "change", "remove", "set"}
  /\ UNCHANGED <<stored, done>>

Effect ==
  /\ ~done /\ done' = TRUE
  /\ \/ call = "install" /\ stored = NoPackage /\ stored' \in Packages
     \/ call = "change" /\ stored # NoPackage /\ stored' \in Packages
     \/ call = "remove" /\ stored # NoPackage /\ stored' = NoPackage
     \/ call = "set" /\ stored # NoPackage /\ UNCHANGED stored
  /\ UNCHANGED call

Ends(may) == call # "none" /\ may /\ call' = "none" /\ done' = FALSE /\ UNCHANGED stored

Success == Ends(done)
Error == Ends(~done \/ call = "remove")

Next == Call \/ Effect \/ Success \/ Error

Spec == Init /\ [][Next]_<<stored, call, done>>
=============================================================================
