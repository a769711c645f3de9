--------------------------- MODULE Components_proofs ---------------------------
(***************************************************************************)
(* What the proofs of the components say of all of them together.          *)
(***************************************************************************)
EXTENDS Pools_proofs, Views_proofs, Extensions_proofs, Jobs_proofs

\* The components keep the types of their state: no queue, index, job, version
\* or place leaves its range, for every value of the constants.
THEOREM TypesCorrect == Assumptions /\ SideBySide => []TypesOK
<1> SUFFICES ASSUME Assumptions PROVE SideBySide => []TypesOK
  OBVIOUS
<1>1. Spec => []TypeOK
  BY PoolTypeCorrect
<1>2. Shared!Spec => []Shared!TypeOK
  BY SharedTypeCorrect DEF Assumptions
<1>3. Files!Spec => []Files!TypeOK
  BY StoreTypeCorrect
<1>4. Host!Spec => []Host!TypeOK
  BY ManagerTypeCorrect DEF Assumptions
<1>5. Work!Spec => []Work!TypeOK
  BY WorkTypeCorrect DEF Assumptions
<1>6. Compare!Spec => []Compare!TypeOK
  BY CompareTypeCorrect DEF Assumptions
<1>7. Edits!Spec => []Edits!TypeOK
  BY EditsTypeCorrect DEF Assumptions
<1>8. List!Spec => []List!TypeOK
  BY TasksTypeCorrect DEF Assumptions
<1>9. Import!Spec => []Import!TypeOK
  BY ImportTypeCorrect DEF Assumptions
<1>10. TypeOK /\ Shared!TypeOK /\ Files!TypeOK /\ Host!TypeOK /\ Work!TypeOK
         /\ Compare!TypeOK /\ Edits!TypeOK /\ List!TypeOK /\ Import!TypeOK => TypesOK
  BY DEF TypesOK
<1> QED
  BY <1>1, <1>2, <1>3, <1>4, <1>5, <1>6, <1>7, <1>8, <1>9, <1>10, PTL DEF SideBySide
=============================================================================
