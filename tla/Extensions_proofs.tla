--------------------------- MODULE Extensions_proofs ---------------------------
(***************************************************************************)
(* The theorems about extensions.                                          *)
(*                                                                         *)
(* ExtensionStore implements AtomicStore, for every set of archives: the   *)
(* one step of an operation in which what the next start finds changes is  *)
(* the rename of its file, the rename of its directory, or the removal of  *)
(* package.json; everything else, and a failure of anything, is a stutter  *)
(* or the end of the operation.                                            *)
(*                                                                         *)
(* ExtensionManager keeps its promises for every set of extensions, all    *)
(* dependencies among them and every number of runs.  ManagerInv has what  *)
(* is stored, shown and disabled; HostInv adds the sessions and the order  *)
(* in which continuations run.                                             *)
(***************************************************************************)
EXTENDS Components, TLAPS


Contents == Files!Packages \cup Files!Settings \cup {NoFile, Partial}
Places == {"start", "empty", "mkdir", "write", "filled", "rename", "publish", "ok"}

FilesInv ==
  /\ files \in [Files!Targets -> Contents] /\ pending \in [Files!Targets -> Contents]
  /\ files["package"] \in Files!Packages \cup {NoFile}

\* Every operation writes one file, a new package a whole one.
Operation ==
  /\ op \in [kind : {"install", "change", "remove", "set"}, target : Files!Targets,
             value : Contents, at : Places]
  /\ op.kind = "install" => op.target = "staged" /\ op.value \in Files!Packages
  /\ op.kind = "change" => op.target = "package" /\ op.value \in Files!Packages
  /\ op.kind = "remove" => op.target = "package" /\ op.at \in {"start", "empty", "ok"}
  /\ op.kind = "set" => op.target = "storage"
  /\ op.kind \in {"change", "set"} => op.at \in {"start", "write", "filled", "rename", "ok"}

\* What an operation found at its beginning still holds when it writes: the
\* lock keeps others out.
StillTrue ==
  /\ op.kind = "install" /\ op.at \notin {"start", "ok"} => Files!Free
  /\ op.kind \in {"change", "set"} /\ op.at \in {"write", "filled", "rename"} => Files!Installed
  /\ op.at = "rename" => pending[op.target] = op.value
  /\ op.at = "publish" => files["staged"] = op.value

OnDiskInv == FilesInv /\ (op = Files!NoOp \/ (Operation /\ StillTrue))

LEMMA OnDiskInit == Files!Init => OnDiskInv
  BY DEF Files!Init, OnDiskInv, FilesInv, Contents, Files!Targets

\* The operations that are called.
Called(k, t, v) ==
  \/ k = "install" /\ t = "staged" /\ v \in Files!Packages
  \/ k = "change" /\ t = "package" /\ v \in Files!Packages
  \/ k = "remove" /\ t = "package" /\ v = NoFile
  \/ k = "set" /\ t = "storage" /\ v \in Files!Settings

LEMMA CallsAreCalled ==
  ASSUME OnDiskInv, Files!Operations
  PROVE  \E k, t, v : Called(k, t, v) /\ Files!Call(k, t, v)
<1>1. ASSUME NEW a \in Archives, Files!Call("install", "staged", [archive |-> a, enabled |-> FALSE])
      PROVE  Called("install", "staged", [archive |-> a, enabled |-> FALSE])
  BY DEF Called, Files!Packages
<1>2. ASSUME NEW a \in Archives, files["package"] # NoFile
      PROVE  Called("change", "package", [files["package"] EXCEPT !.archive = a])
  BY <1>2 DEF Called, Files!Packages, OnDiskInv, FilesInv
<1>3. ASSUME NEW e \in BOOLEAN, files["package"] # NoFile
      PROVE  Called("change", "package", [files["package"] EXCEPT !.enabled = e])
  BY <1>3 DEF Called, Files!Packages, OnDiskInv, FilesInv
<1>4. Called("remove", "package", NoFile)
  BY DEF Called
<1>5. ASSUME NEW v \in Files!Settings PROVE Called("set", "storage", v)
  BY DEF Called
<1> QED
  BY <1>1, <1>2, <1>3, <1>4, <1>5, Zenon DEF Files!Operations

\* An operation that is called is not yet under way.
LEMMA CallStep ==
  ASSUME OnDiskInv, Files!Operations
  PROVE  OnDiskInv' /\ [Files!Store!Next]_<<Files!Stored, op.kind, Files!Effected>>
<1>1. PICK k, t, v : Called(k, t, v) /\ Files!Call(k, t, v)
  BY CallsAreCalled
<1>2. /\ op = Files!NoOp /\ op'.at = "start" /\ op'.kind \in {"install", "change", "remove", "set"}
      /\ UNCHANGED <<dirs, files, pending>> /\ Operation'
  BY <1>1 DEF Called, Files!Call, Operation, Files!Targets, Places, Contents
<1>3. OnDiskInv'
  BY <1>2 DEF OnDiskInv, FilesInv, StillTrue
<1>4. UNCHANGED Files!Stored
  BY <1>2 DEF Files!Stored, Files!Installed
<1>5. ~Files!Effected /\ ~Files!Effected' /\ op.kind = "none"
  BY <1>2 DEF Files!Effected, Files!NoOp
<1>6. Files!Effected' = Files!Effected
  BY <1>5, Zenon DEF Files!Effected
<1> QED
  BY <1>2, <1>3, <1>4, <1>5, <1>6 DEF Files!Store!Next, Files!Store!Call

-----------------------------------------------------------------------------
(* The steps of an operation. *)

LEMMA OperationUnderWay ==
  ASSUME OnDiskInv, op # Files!NoOp
  PROVE  Operation /\ StillTrue /\ op.kind # "none"
  BY DEF OnDiskInv, Operation

\* A step that neither changes what is installed nor takes effect.
LEMMA Stutters ==
  ASSUME UNCHANGED <<Files!Stored, op.kind>>, Files!Effected <=> Files!Effected'
  PROVE  [Files!Store!Next]_<<Files!Stored, op.kind, Files!Effected>>
<1>1. Files!Effected' = Files!Effected
  BY Zenon DEF Files!Effected
<1> QED
  BY <1>1

\* The step in which an operation takes effect.
LEMMA TakesEffect ==
  ASSUME ~Files!Effected, Files!Effected', UNCHANGED op.kind,
         \/ op.kind = "install" /\ Files!Stored = NoFile /\ Files!Stored' \in Files!Packages
         \/ op.kind = "change" /\ Files!Stored # NoFile /\ Files!Stored' \in Files!Packages
         \/ op.kind = "remove" /\ Files!Stored # NoFile /\ Files!Stored' = NoFile
         \/ op.kind = "set" /\ Files!Stored # NoFile /\ UNCHANGED Files!Stored
  PROVE  [Files!Store!Next]_<<Files!Stored, op.kind, Files!Effected>>
<1>1. Files!Effected' = TRUE
  BY Zenon DEF Files!Effected
<1> QED
  BY <1>1 DEF Files!Store!Next, Files!Store!Effect

LEMMA BeginStep ==
  ASSUME OnDiskInv, Files!Begin
  PROVE  OnDiskInv' /\ [Files!Store!Next]_<<Files!Stored, op.kind, Files!Effected>>
<1>1. op # Files!NoOp
  BY DEF Files!Begin, Files!NoOp
<1>2. Operation /\ StillTrue
  BY <1>1, OperationUnderWay
<1>3. op'.kind = op.kind /\ Operation' /\ op'.at \in {"empty", "mkdir", "write"}
      /\ (op.kind = "remove" <=> op'.kind = "remove") /\ UNCHANGED <<dirs, files, pending>>
      /\ op'.target = op.target /\ op'.value = op.value
      /\ (op.kind # "remove" /\ op'.at = "empty" => op.kind = "install")
  BY <1>2 DEF Files!Begin, Operation, Files!At, Places
<1>4. StillTrue'
  BY <1>2, <1>3
     DEF StillTrue, Files!Begin, Files!Permitted, Files!Free, Files!Installed, Operation
<1>5. OnDiskInv'
  BY <1>3, <1>4 DEF OnDiskInv, FilesInv
<1>6. UNCHANGED Files!Stored /\ ~Files!Effected /\ ~Files!Effected'
  BY <1>2, <1>3
     DEF Files!Stored, Files!Installed, Files!Effected, Files!Begin, Files!Permitted,
         Operation
<1> QED
  BY <1>3, <1>5, <1>6, Stutters

\* A removal takes effect when package.json goes.
LEMMA DeleteStep ==
  ASSUME OnDiskInv, Files!Delete
  PROVE  OnDiskInv' /\ [Files!Store!Next]_<<Files!Stored, op.kind, Files!Effected>>
<1>1. op # Files!NoOp
  BY DEF Files!Delete, Files!NoOp
<1>2. Operation /\ StillTrue /\ op.kind \in {"install", "remove"} /\ op.at = "empty"
  BY <1>1, OperationUnderWay DEF Operation, Files!Delete
<1>3. ASSUME NEW f \in Files!Files(Files!Emptied), files' = [files EXCEPT ![f] = NoFile],
             UNCHANGED <<dirs, op, pending>>
      PROVE  OnDiskInv' /\ [Files!Store!Next]_<<Files!Stored, op.kind, Files!Effected>>
  <2>1. f \in Files!Targets /\ (op.kind = "install" => f = "staged")
    BY <1>2 DEF Files!Files, Files!In, Files!Emptied, Files!Home, Files!Targets
  <2>2. OnDiskInv'
    BY <1>2, <1>3, <2>1
       DEF OnDiskInv, FilesInv, Operation, StillTrue, Files!Free, Files!Targets, Contents
  <2>3. CASE op.kind = "remove" /\ f = "package" /\ Files!Installed
    BY <1>2, <1>3, <2>1, <2>2, <2>3, TakesEffect
       DEF Files!Stored, Files!Installed, Files!Effected, OnDiskInv, FilesInv
  <2>4. CASE ~(op.kind = "remove" /\ f = "package" /\ Files!Installed)
    <3>1. UNCHANGED Files!Stored /\ (Files!Installed <=> Files!Installed')
      BY <1>2, <1>3, <2>1, <2>4
         DEF Files!Stored, Files!Installed, OnDiskInv, FilesInv, StillTrue, Files!Free
    <3> QED
      BY <1>3, <2>2, <3>1, Stutters DEF Files!Effected
  <2> QED
    BY <2>3, <2>4
<1>4. ASSUME NEW f \in Files!Files(Files!Emptied), pending' = [pending EXCEPT ![f] = NoFile],
             UNCHANGED <<dirs, op, files>>
      PROVE  OnDiskInv' /\ [Files!Store!Next]_<<Files!Stored, op.kind, Files!Effected>>
  <2>1. OnDiskInv'
    BY <1>2, <1>4 DEF OnDiskInv, FilesInv, Operation, StillTrue, Files!Free, Files!Targets,
       Contents
  <2> QED
    BY <1>4, <2>1, Stutters DEF Files!Stored, Files!Installed, Files!Effected
<1>5. ASSUME Files!Files(Files!Emptied) = {}, dirs' = dirs \ {Files!Emptied},
             Files!At(IF op.kind = "remove" THEN "ok" ELSE "mkdir"), UNCHANGED <<files, pending>>
      PROVE  OnDiskInv' /\ [Files!Store!Next]_<<Files!Stored, op.kind, Files!Effected>>
  <2>1. Operation' /\ UNCHANGED op.kind
        /\ op'.at = IF op.kind = "remove" THEN "ok" ELSE "mkdir"
    BY <1>2, <1>5 DEF Operation, Files!At, Places
  <2>2. OnDiskInv'
    BY <1>2, <1>5, <2>1 DEF OnDiskInv, FilesInv, StillTrue, Files!Free, Files!Emptied
  <2>3. op.kind = "remove" => files["package"] = NoFile
    BY <1>5 DEF Files!Files, Files!In, Files!Emptied, Files!Home, Files!Targets
  <2>4. UNCHANGED Files!Stored
    BY <1>2, <1>5, <2>3 DEF Files!Stored, Files!Installed, Files!Emptied
  <2> QED
    BY <1>2, <2>1, <2>2, <2>3, <2>4, Stutters DEF Files!Effected, Files!Installed
<1> QED
  BY <1>3, <1>4, <1>5 DEF Files!Delete

LEMMA MakeDirectoryStep ==
  ASSUME OnDiskInv, Files!MakeDirectory
  PROVE  OnDiskInv' /\ [Files!Store!Next]_<<Files!Stored, op.kind, Files!Effected>>
<1>1. op # Files!NoOp
  BY DEF Files!MakeDirectory, Files!NoOp
<1>2. Operation /\ StillTrue /\ op.kind = "install" /\ op.at = "mkdir"
  BY <1>1, OperationUnderWay DEF Operation, Files!MakeDirectory
<1>3. Operation' /\ UNCHANGED op.kind /\ op'.at = "write"
  BY <1>2 DEF Operation, Files!At, Places, Files!MakeDirectory
<1>4. OnDiskInv'
  BY <1>2, <1>3 DEF OnDiskInv, FilesInv, StillTrue, Files!Free, Files!MakeDirectory
<1>5. UNCHANGED Files!Stored
  BY DEF Files!Stored, Files!Installed, Files!MakeDirectory
<1> QED
  BY <1>2, <1>3, <1>4, <1>5, Stutters DEF Files!Effected

\* The .pending file is none that the next start looks at.
LEMMA CreateStep ==
  ASSUME OnDiskInv, Files!Create
  PROVE  OnDiskInv' /\ [Files!Store!Next]_<<Files!Stored, op.kind, Files!Effected>>
<1>1. op # Files!NoOp
  BY DEF Files!Create, Files!NoOp
<1>2. Operation /\ StillTrue /\ op.kind # "remove" /\ op.at = "write"
  BY <1>1, OperationUnderWay DEF Operation, Files!Create
<1>3. Operation' /\ UNCHANGED <<dirs, files>> /\ op'.kind = op.kind
      /\ op'.at \in {"write", "filled"}
  BY <1>2 DEF Operation, Files!At, Places, Files!Create, Files!Written
<1>4. pending' \in [Files!Targets -> Contents]
  BY <1>2 DEF Files!Create, Files!Written, OnDiskInv, FilesInv, Contents, Operation
<1>5. OnDiskInv'
  BY <1>2, <1>3, <1>4 DEF OnDiskInv, FilesInv, StillTrue, Files!Free, Files!Installed
<1>6. UNCHANGED Files!Stored
  BY <1>3 DEF Files!Stored, Files!Installed
<1> QED
  BY <1>2, <1>3, <1>5, <1>6, Stutters DEF Files!Effected

LEMMA FillStep ==
  ASSUME OnDiskInv, Files!Fill
  PROVE  OnDiskInv' /\ [Files!Store!Next]_<<Files!Stored, op.kind, Files!Effected>>
<1>1. op # Files!NoOp
  BY DEF Files!Fill, Files!NoOp
<1>2. Operation /\ StillTrue /\ op.kind # "remove" /\ op.at = "filled"
  BY <1>1, OperationUnderWay DEF Operation, Files!Fill
<1>3. Operation' /\ UNCHANGED <<dirs, files>> /\ op'.kind = op.kind /\ op'.at = "rename"
      /\ op'.target = op.target /\ op'.value = op.value
  BY <1>2 DEF Operation, Files!At, Places, Files!Fill
<1>4. pending' \in [Files!Targets -> Contents] /\ pending'[op.target] = op.value
  BY <1>2 DEF Files!Fill, OnDiskInv, FilesInv, Operation
<1>5. OnDiskInv'
  BY <1>2, <1>3, <1>4 DEF OnDiskInv, FilesInv, StillTrue, Files!Free, Files!Installed
<1>6. UNCHANGED Files!Stored
  BY <1>3 DEF Files!Stored, Files!Installed
<1> QED
  BY <1>2, <1>3, <1>5, <1>6, Stutters DEF Files!Effected

\* A change or a setting takes effect when its file is renamed.
LEMMA RenameStep ==
  ASSUME OnDiskInv, Files!Rename
  PROVE  OnDiskInv' /\ [Files!Store!Next]_<<Files!Stored, op.kind, Files!Effected>>
<1>1. op # Files!NoOp
  BY DEF Files!Rename, Files!NoOp
<1>2. Operation /\ StillTrue /\ op.kind # "remove" /\ op.at = "rename" /\ op.target \in Files!Targets
  BY <1>1, OperationUnderWay DEF Operation, Files!Rename
<1>3. Operation' /\ UNCHANGED dirs /\ op'.kind = op.kind
      /\ op'.at = (IF op.kind = "install" THEN "publish" ELSE "ok")
      /\ op'.target = op.target /\ op'.value = op.value
  BY <1>2 DEF Operation, Files!At, Places, Files!Rename
<1>4. /\ pending' \in [Files!Targets -> Contents] /\ files' \in [Files!Targets -> Contents]
      /\ files'[op.target] = op.value
      /\ \A f \in Files!Targets \ {op.target} : files'[f] = files[f]
  BY <1>2 DEF Files!Rename, OnDiskInv, FilesInv, Operation, Contents, StillTrue
<1>5. files'["package"] = IF op.kind = "change" THEN op.value ELSE files["package"]
  BY <1>2, <1>4 DEF Operation, Files!Targets
<1>6. OnDiskInv'
  BY <1>2, <1>3, <1>4, <1>5 DEF OnDiskInv, FilesInv, StillTrue, Files!Free, Files!Installed,
     Operation
<1>7. CASE op.kind = "install"
  BY <1>2, <1>3, <1>5, <1>6, <1>7, Stutters DEF Files!Stored, Files!Installed, Files!Effected
<1>8. CASE op.kind # "install"
  <2>1. Files!Installed /\ ~Files!Effected /\ Files!Effected' /\ Files!Stored # NoFile
    BY <1>2, <1>3, <1>8 DEF StillTrue, Operation, Files!Effected, Files!Stored, Files!Installed
  <2>2. Files!Stored' = files'["package"]
    BY <2>1, <1>3 DEF Files!Stored, Files!Installed
  <2>3. (op.kind = "change" /\ op.value \in Files!Packages) \/ op.kind = "set"
    BY <1>2, <1>8 DEF Operation
  <2>4. op.kind = "change" => Files!Stored' \in Files!Packages
    BY <1>5, <2>2, <2>3
  <2>5. op.kind = "set" => UNCHANGED Files!Stored
    BY <1>3, <1>5 DEF Files!Stored, Files!Installed
  <2> QED
    BY <1>3, <1>6, <2>1, <2>3, <2>4, <2>5, TakesEffect
<1> QED
  BY <1>7, <1>8

\* An installation takes effect when its directory is renamed.
LEMMA PublishStep ==
  ASSUME OnDiskInv, Files!Publish
  PROVE  OnDiskInv' /\ [Files!Store!Next]_<<Files!Stored, op.kind, Files!Effected>>
<1>1. op # Files!NoOp
  BY DEF Files!Publish, Files!NoOp
<1>2. Operation /\ StillTrue /\ op.kind = "install" /\ op.at = "publish"
  BY <1>1, OperationUnderWay DEF Operation, Files!Publish
<1>3. Operation' /\ op'.kind = op.kind /\ op'.at = "ok"
  BY <1>2 DEF Operation, Files!At, Places, Files!Publish
<1>4. /\ files' \in [Files!Targets -> Contents] /\ files'["package"] = op.value
      /\ op.value \in Files!Packages /\ UNCHANGED pending
  BY <1>2 DEF Files!Publish, OnDiskInv, FilesInv, Operation, Contents, StillTrue, Files!Targets
<1>5. OnDiskInv'
  BY <1>2, <1>3, <1>4 DEF OnDiskInv, FilesInv, StillTrue, Operation
<1>6. Files!Stored = NoFile /\ Files!Stored' \in Files!Packages
  BY <1>2, <1>4 DEF Files!Stored, Files!Installed, StillTrue, Files!Free, Files!Publish
<1>7. ~Files!Effected /\ Files!Effected'
  BY <1>2, <1>3 DEF Files!Effected
<1> QED
  BY <1>2, <1>3, <1>5, <1>6, <1>7, TakesEffect

\* An operation that returns took effect; one that stops before did not, but
\* for a removal.
LEMMA EndStep ==
  ASSUME OnDiskInv, Files!Return \/ Files!Stops
  PROVE  OnDiskInv' /\ [Files!Store!Next]_<<Files!Stored, op.kind, Files!Effected>>
<1>1. op # Files!NoOp
  BY DEF Files!Return, Files!Stops, Files!NoOp
<1>2. Operation /\ op.kind # "none"
  BY <1>1, OperationUnderWay
<1>3. op' = Files!NoOp /\ op'.kind = "none" /\ UNCHANGED <<dirs, files, pending>>
  BY DEF Files!Return, Files!Stops, Files!NoOp
<1>4. OnDiskInv' /\ UNCHANGED Files!Stored /\ ~Files!Effected'
  BY <1>3 DEF OnDiskInv, FilesInv, Files!Stored, Files!Installed, Files!Effected, Files!NoOp
<1>5. Files!Effected' = FALSE
  BY <1>4, Zenon DEF Files!Effected
<1>6. Files!Return => Files!Effected
  BY DEF Files!Return, Files!Effected
<1>7. Files!Stops => ~Files!Effected \/ op.kind = "remove"
  BY DEF Files!Stops, Files!Effected
<1> QED
  BY <1>2, <1>3, <1>4, <1>5, <1>6, <1>7
     DEF Files!Store!Next, Files!Store!Success, Files!Store!Error, Files!Store!Ends

-----------------------------------------------------------------------------

LEMMA StoreInit == Files!Init => Files!Store!Init
<1> SUFFICES ASSUME Files!Init PROVE Files!Store!Init
  OBVIOUS
<1>1. ~Files!Effected /\ Files!Stored = NoFile /\ op.kind = "none"
  BY DEF Files!Init, Files!Effected, Files!Stored, Files!Installed, Files!NoOp
<1>2. Files!Effected = FALSE
  BY <1>1, Zenon DEF Files!Effected
<1> QED
  BY <1>1, <1>2 DEF Files!Store!Init

LEMMA OnDiskStep ==
  OnDiskInv /\ [Files!Next]_Files!vars =>
    OnDiskInv' /\ [Files!Store!Next]_<<Files!Stored, op.kind, Files!Effected>>
<1> SUFFICES ASSUME OnDiskInv, [Files!Next]_Files!vars
             PROVE  OnDiskInv' /\ [Files!Store!Next]_<<Files!Stored, op.kind, Files!Effected>>
  OBVIOUS
<1>1. CASE UNCHANGED Files!vars
  <2>1. OnDiskInv'
    BY <1>1 DEF Files!vars, OnDiskInv, FilesInv, Operation, StillTrue, Files!Free, Files!Installed
  <2> QED
    BY <1>1, <2>1, Stutters DEF Files!vars, Files!Stored, Files!Installed, Files!Effected
<1>2. CASE Files!Next
  BY <1>2, CallStep, BeginStep, DeleteStep, MakeDirectoryStep, CreateStep, FillStep, RenameStep,
     PublishStep, EndStep DEF Files!Next
<1> QED
  BY <1>1, <1>2

\* The store of extensions is atomic (operate, write_json): wherever it fails
\* or stops, the next start finds the package as it was or as it was to be.
THEOREM Implements == Files!Spec => StoreIsAtomic
  BY OnDiskInit, StoreInit, OnDiskStep, PTL
     DEF Files!Spec, StoreIsAtomic, Files!StoreIsAtomic, Files!Store!Spec

\* The type of every file: only what a file is for is ever renamed to it.
Filed ==
  /\ dirs \subseteq {"main", "staging"}
  /\ files["staged"] \in Files!Packages \cup {NoFile}
  /\ files["storage"] \in Files!Settings \cup {NoFile}
  /\ op.kind = "set" => op.value \in Files!Settings

LEMMA FiledStep ==
  ASSUME OnDiskInv, Filed, [Files!Next]_Files!vars
  PROVE  Filed'
<1>1. CASE UNCHANGED Files!vars
  BY <1>1 DEF Files!vars, Filed
<1>2. CASE Files!Operations
  BY <1>2 DEF Files!Operations, Files!Call, Filed
<1>3. CASE Files!Return \/ Files!Stops
  <2>1. op'.kind = "none" /\ UNCHANGED <<dirs, files>>
    BY <1>3 DEF Files!Return, Files!Stops, Files!NoOp
  <2> QED
    BY <2>1 DEF Filed
<1>4. CASE Files!Begin \/ Files!Delete \/ Files!MakeDirectory \/ Files!Create \/ Files!Fill \/ Files!Rename \/ Files!Publish
  <2>1. op # Files!NoOp
    BY <1>4
       DEF Files!Begin, Files!Delete, Files!MakeDirectory, Files!Create, Files!Fill,
           Files!Rename, Files!Publish, Files!NoOp
  <2>2. Operation /\ StillTrue
    BY <2>1, OperationUnderWay
  <2>3. UNCHANGED <<op.kind, op.value>>
    BY <1>4, <2>2
       DEF Files!Begin, Files!Delete, Files!MakeDirectory, Files!Create, Files!Fill,
           Files!Rename, Files!Publish, Files!At, Operation
  <2>4. files \in [Files!Targets -> Contents]
    BY DEF OnDiskInv, FilesInv
  <2>5. CASE Files!Begin \/ Files!MakeDirectory \/ Files!Create \/ Files!Fill
    BY <2>3, <2>5
       DEF Files!Begin, Files!MakeDirectory, Files!Create, Files!Written, Files!Fill, Filed
  <2>6. CASE Files!Delete
    BY <2>3, <2>4, <2>6 DEF Files!Delete, Filed, Files!Targets
  <2>7. CASE Files!Rename
    <3>1. files' = [files EXCEPT ![op.target] = op.value] /\ UNCHANGED dirs
      BY <2>2, <2>7 DEF Files!Rename, StillTrue
    <3>2. op.target = "staged" => op.value \in Files!Packages
      BY <2>2, <2>7 DEF Operation, Files!Rename
    <3>3. op.target = "storage" => op.value \in Files!Settings
      BY <2>2, <2>7 DEF Operation, Files!Rename, Filed
    <3> QED
      BY <2>3, <2>4, <3>1, <3>2, <3>3 DEF Filed, Files!Targets
  <2>8. CASE Files!Publish
    BY <2>3, <2>4, <2>8 DEF Files!Publish, Filed, Files!Targets
  <2> QED
    BY <1>4, <2>5, <2>6, <2>7, <2>8
<1> QED
  BY <1>1, <1>2, <1>3, <1>4 DEF Files!Next

\* The files hold what an operation may write there, and an operation is at a
\* place of its own kind: no call leaves a half-written file under its final
\* name, whatever fails (operate, write_json).
THEOREM StoreTypeCorrect == Files!Spec => []Files!TypeOK
<1>1. Files!Init => Filed
  BY DEF Files!Init, Filed, Files!NoOp, Files!Targets
<1>2. OnDiskInv /\ Filed => Files!TypeOK
  BY DEF OnDiskInv, FilesInv, Contents, Places, Operation, Files!NoOp, Files!TypeOK, Filed
<1> QED
  BY OnDiskInit, OnDiskStep, FiledStep, <1>1, <1>2, PTL DEF Files!Spec

-----------------------------------------------------------------------------
(* The manager, for any extensions with any dependencies.  `job` is the     *)
(* operation at the head of the queue, and its stage is the first of todo.  *)

AllGrants == SUBSET UNION Grants
AnyRun == {Host!NoRun} \cup Host!Runs
UnderWay(r) == starts[r].at \notin {"done", "thrown"}

StoredForms == [enabled : BOOLEAN, version : 0..MaxVersion, grants : AllGrants]

Starts == [at : Host!Places, left : SUBSET Exts, await : AnyRun, chain : SUBSET Exts]

DescTypes ==
  /\ present \subseteq Exts
  /\ enabled \in [Exts -> BOOLEAN]
  /\ version \in [Exts -> 0..MaxVersion]
  /\ grants \in [Exts -> AllGrants]
  /\ stored \in [Exts -> StoredForms]

\* A run that is under way is the one of the map of activations.
RunInv ==
  /\ state \in [Exts -> Host!States]
  /\ starts \in [Host!Runs -> Starts]
  /\ activating \in [Exts -> AnyRun] /\ lease \in [Exts -> AnyRun] /\ box \in [Exts -> AnyRun]
  /\ \A x \in Exts : \A r \in {activating[x], lease[x], box[x]} : r # Host!NoRun => r[1] = x
  /\ \A r \in Host!Runs : UnderWay(r) => activating[r[1]] = r
  /\ \A x \in Exts : activating[x] # Host!NoRun => UnderWay(activating[x])

-----------------------------------------------------------------------------
(* The stages of an operation. *)

Todos(kind) ==
  CASE kind = "install" -> {<<"install">>, <<>>}
    [] kind = "enable" -> {<<"stop", "update", "activate">>, <<"update", "activate">>,
                           <<"activate">>, <<>>}
    [] kind = "disable" -> {<<"update", "stop">>, <<"stop">>, <<>>}
    [] kind = "uninstall" -> {<<"update", "stop", "remove">>, <<"stop", "remove">>,
                              <<"remove">>, <<>>}
    [] kind = "update" -> {<<"stop", "replace", "activate">>, <<"replace", "activate">>,
                           <<"activate">>, <<>>}
    [] kind = "reload" -> {<<"stop", "activate">>, <<"activate">>, <<>>}

StageOf(todo) == IF todo = <<>> THEN "end" ELSE Head(todo)

\* The stage after a stage.
After(kind, turn) ==
  CASE turn = "stop" -> IF kind = "enable" THEN "update"
                         ELSE IF kind = "uninstall" THEN "remove"
                         ELSE IF kind = "update" THEN "replace"
                         ELSE IF kind = "reload" THEN "activate" ELSE "end"
    [] turn = "update" -> IF kind = "enable" THEN "activate" ELSE "stop"
    [] turn = "replace" -> "activate"
    [] OTHER -> "end"

FramePlaces == {"dependents", "waiting", "deactivating", "unloading"}
Frames == [x : Exts, at : FramePlaces, left : SUBSET Exts, await : AnyRun]

Stages == {"install", "stop", "update", "replace", "remove", "activate"}

Job == [kind : Host!Kinds, x : Exts, todo : Seq(Stages), stack : Seq(Frames),
        await : AnyRun, grants : AllGrants, restore : AllGrants]

\* A stop is under way in the stage "stop"; only the last of the stops that are
\* begun is beyond its dependents.
IsJob(o) ==
  /\ o \in Job /\ o.todo \in Todos(o.kind)
  /\ Len(o.stack) > 0 <=> StageOf(o.todo) = "stop"
  /\ Len(o.stack) > 0 => o.stack[1].x = o.x
  /\ \A i \in 1..Len(o.stack) : i # Len(o.stack) => o.stack[i].at = "dependents"

JobInv == job = Host!Idle \/ IsJob(job)

Stage == StageOf(job.todo)

-----------------------------------------------------------------------------
(* What is disabled. *)

Off(x) == activating[x] = Host!NoRun /\ lease[x] = Host!NoRun /\ box[x] = Host!NoRun

Dead(x) == Off(x) /\ state[x] # "activated"

\* The operation that disabled x is stopping it.
Dying(x) ==
  /\ job.kind \in {"disable", "uninstall"} /\ job.x = x /\ Stage = "stop"
  /\ \/ job.stack[1].at = "dependents"
     \/ job.stack[1].at = "waiting" /\ activating[x] \in {Host!NoRun, job.stack[1].await}
     \/ job.stack[1].at = "deactivating" /\ activating[x] = Host!NoRun
     \/ job.stack[1].at = "unloading" /\ Off(x)

SilentInv == \A x \in Exts : ~enabled[x] => Dead(x) \/ Dying(x)

-----------------------------------------------------------------------------
(* What is stored. *)

Replacing(x) == job.kind = "update" /\ job.x = x /\ Stage = "replace"
Installing(x) == job.kind = "install" /\ job.x = x /\ Stage = "install"

IsShown(x) ==
  IF stored[x] = Host!NoStore
  THEN x \in present =>
         ~enabled[x] /\ (state[x] = "deactivated" \/ Replacing(x) \/ Installing(x))
  ELSE /\ x \in present /\ stored[x].version >= 1
       /\ stored[x].enabled = enabled[x]
       /\ stored[x].version = (IF Replacing(x) THEN version[x] - 1 ELSE version[x])
       /\ stored[x].grants = (IF Replacing(x) THEN job.restore ELSE grants[x])

\* What the stages of an operation rely on.
StageInv ==
  LET x == job.x IN
  /\ job.kind = "install" =>
       /\ ~enabled[x]
       /\ Stage = "install" =>
            x \in present /\ version[x] = 1 /\ stored[x] = Host!NoStore /\ grants[x] = {}
  /\ job.kind \in {"disable", "uninstall"} /\ Stage # "update" => ~enabled[x]
  /\ job.kind \in {"disable", "uninstall"} /\ Stage \in {"stop", "remove"} =>
       stored[x] # Host!NoStore
  /\ job.kind = "uninstall" /\ Stage = "remove" => state[x] = "deactivated"
  /\ job.kind = "update" /\ Stage = "stop" => version[x] < MaxVersion
  /\ job.kind = "update" /\ Stage = "replace" =>
       version[x] >= 1 /\ grants[x] = job.restore \cap job.grants

StoreInv ==
  /\ \A x \in Exts : (enabled[x] => x \in present) /\ IsShown(x)
  /\ StageInv

ManagerInv == Host!Assumptions /\ DescTypes /\ RunInv /\ JobInv /\ SilentInv /\ StoreInv

-----------------------------------------------------------------------------
(* Runs and jobs *)

LEMMA RunsOfExtensions == Host!NoRun \notin Host!Runs /\ \A r \in Host!Runs : r[1] \in Exts
  BY DEF Host!NoRun, Host!Runs

LEMMA IdleJob ==
  /\ Host!Idle.kind = "none" /\ Host!Idle.todo = <<>> /\ Host!Idle.stack = <<>>
  /\ Host!Idle.grants = {} /\ Host!Idle.restore = {} /\ Host!Idle.await = Host!NoRun
  /\ Host!Assumptions => Host!Idle.x \in Exts
  BY DEF Host!Idle, Host!Assumptions

LEMMA Tails ==
  /\ StageOf(<<>>) = "end"
  /\ StageOf(<<"install">>) = "install"
  /\ Tail(<<"install">>) = <<>> /\ <<"install">> # <<>>
  /\ StageOf(<<"stop", "update", "activate">>) = "stop"
  /\ Tail(<<"stop", "update", "activate">>) = <<"update", "activate">>
  /\ <<"stop", "update", "activate">> # <<>>
  /\ StageOf(<<"update", "activate">>) = "update"
  /\ Tail(<<"update", "activate">>) = <<"activate">> /\ <<"update", "activate">> # <<>>
  /\ StageOf(<<"activate">>) = "activate"
  /\ Tail(<<"activate">>) = <<>> /\ <<"activate">> # <<>>
  /\ StageOf(<<"update", "stop">>) = "update"
  /\ Tail(<<"update", "stop">>) = <<"stop">> /\ <<"update", "stop">> # <<>>
  /\ StageOf(<<"stop">>) = "stop" /\ Tail(<<"stop">>) = <<>> /\ <<"stop">> # <<>>
  /\ StageOf(<<"update", "stop", "remove">>) = "update"
  /\ Tail(<<"update", "stop", "remove">>) = <<"stop", "remove">>
  /\ <<"update", "stop", "remove">> # <<>>
  /\ StageOf(<<"stop", "remove">>) = "stop"
  /\ Tail(<<"stop", "remove">>) = <<"remove">> /\ <<"stop", "remove">> # <<>>
  /\ StageOf(<<"remove">>) = "remove" /\ Tail(<<"remove">>) = <<>> /\ <<"remove">> # <<>>
  /\ StageOf(<<"stop", "replace", "activate">>) = "stop"
  /\ Tail(<<"stop", "replace", "activate">>) = <<"replace", "activate">>
  /\ <<"stop", "replace", "activate">> # <<>>
  /\ StageOf(<<"replace", "activate">>) = "replace"
  /\ Tail(<<"replace", "activate">>) = <<"activate">> /\ <<"replace", "activate">> # <<>>
  /\ StageOf(<<"stop", "activate">>) = "stop"
  /\ Tail(<<"stop", "activate">>) = <<"activate">> /\ <<"stop", "activate">> # <<>>
  BY DEF StageOf

\* The stages of the operations, in their order.
LEMMA TodoSteps ==
  ASSUME NEW k \in Host!Kinds, NEW todo \in Todos(k), todo # <<>>
  PROVE  /\ Tail(todo) \in Todos(k)
         /\ StageOf(Tail(todo)) = After(k, StageOf(todo))
         /\ StageOf(todo) \in Stages
<1>1. CASE k = "install"
  BY <1>1, Tails DEF Todos, After, Stages
<1>2. CASE k = "enable"
  BY <1>2, Tails DEF Todos, After, Stages
<1>3. CASE k = "disable"
  BY <1>3, Tails DEF Todos, After, Stages
<1>4. CASE k = "uninstall"
  BY <1>4, Tails DEF Todos, After, Stages
<1>5. CASE k = "update"
  BY <1>5, Tails DEF Todos, After, Stages
<1>6. CASE k = "reload"
  BY <1>6, Tails DEF Todos, After, Stages
<1> QED BY <1>1, <1>2, <1>3, <1>4, <1>5, <1>6 DEF Host!Kinds

\* Which operations have a stage.
LEMMA StagesOfKinds ==
  ASSUME NEW k \in Host!Kinds, NEW todo \in Todos(k), todo # <<>>
  PROVE  /\ StageOf(todo) = "install" => k = "install"
         /\ k = "install" => StageOf(todo) = "install"
         /\ StageOf(todo) = "replace" => k = "update"
         /\ StageOf(todo) = "remove" => k = "uninstall"
         /\ StageOf(todo) = "update" => k \in {"enable", "disable", "uninstall"}
         /\ StageOf(todo) = "activate" => k \in {"enable", "update", "reload"}
<1>1. CASE k = "install"
  BY <1>1, Tails DEF Todos
<1>2. CASE k = "enable"
  BY <1>2, Tails DEF Todos
<1>3. CASE k = "disable"
  BY <1>3, Tails DEF Todos
<1>4. CASE k = "uninstall"
  BY <1>4, Tails DEF Todos
<1>5. CASE k = "update"
  BY <1>5, Tails DEF Todos
<1>6. CASE k = "reload"
  BY <1>6, Tails DEF Todos
<1> QED BY <1>1, <1>2, <1>3, <1>4, <1>5, <1>6 DEF Host!Kinds

LEMMA Programs ==
  ASSUME NEW k \in Host!Kinds
  PROVE  Host!Program(k) \in Todos(k) /\ Host!Program(k) \in Seq(Stages) /\ Host!Program(k) # <<>>
<1>1. Host!Program(k) \in Todos(k)
  BY DEF Host!Program, Todos, Host!Kinds
<1>2. Host!Program(k) \in Seq(Stages)
  <2>1. /\ <<"install">> \in Seq(Stages) /\ <<"stop", "update", "activate">> \in Seq(Stages)
        /\ <<"update", "stop">> \in Seq(Stages)
        /\ <<"update", "stop", "remove">> \in Seq(Stages)
        /\ <<"stop", "replace", "activate">> \in Seq(Stages)
        /\ <<"stop", "activate">> \in Seq(Stages)
    BY DEF Stages
  <2> QED BY <2>1 DEF Host!Program, Host!Kinds
<1>3. Host!Program(k) # <<>>
  BY Tails DEF Host!Program, Host!Kinds
<1> QED BY <1>1, <1>2, <1>3

LEMMA StopFrame ==
  ASSUME NEW x \in Exts
  PROVE  /\ Host!Stop(x) \in Seq(Frames) /\ Len(Host!Stop(x)) = 1
         /\ Host!Stop(x)[1].x = x /\ Host!Stop(x)[1].at = "dependents" /\ Host!Stop(x)[1] \in Frames
  BY DEF Host!Stop, Frames, AnyRun, FramePlaces

\* An operation goes on to the stage at the head of its todo.
LEMMA ToStage ==
  ASSUME NEW o \in Job, o.todo \in Todos(o.kind), o.stack = <<>>, Host!To(o)
  PROVE  /\ IsJob(job')
         /\ job'.kind = o.kind /\ job'.x = o.x /\ job'.todo = o.todo
         /\ job'.grants = o.grants /\ job'.restore = o.restore
         /\ StageOf(o.todo) = "stop" => job'.stack[1].at = "dependents"
<1>1. CASE StageOf(o.todo) = "stop"
  <2>1. job' = [o EXCEPT !.stack = Host!Stop(o.x)]
    BY <1>1 DEF Host!To, StageOf
  <2>2. o.x \in Exts
    BY DEF Job
  <2>3. /\ job' \in Job /\ job'.stack = Host!Stop(o.x)
        /\ job'.kind = o.kind /\ job'.x = o.x /\ job'.todo = o.todo
        /\ job'.grants = o.grants /\ job'.restore = o.restore
    BY <2>1, <2>2, StopFrame DEF Job
  <2> QED BY <1>1, <2>2, <2>3, StopFrame DEF IsJob
<1>2. CASE StageOf(o.todo) # "stop"
  <2>1. job' = o
    BY <1>2 DEF Host!To, StageOf
  <2> QED BY <1>2, <2>1 DEF IsJob
<1> QED BY <1>1, <1>2

\* The next stage of an operation, with the grants it is to restore.
LEMMA NextStage ==
  ASSUME IsJob(job), job.todo # <<>>, NEW g \in AllGrants,
         Host!Next_([job EXCEPT !.restore = g])
  PROVE  /\ IsJob(job')
         /\ job'.kind = job.kind /\ job'.x = job.x
         /\ job'.grants = job.grants /\ job'.restore = g
         /\ Stage' = After(job.kind, Stage)
         /\ Stage' = "stop" => job'.stack[1].at = "dependents"
<1> DEFINE o == [[job EXCEPT !.restore = g] EXCEPT !.todo = Tail(@), !.stack = <<>>]
<1>1. job \in Job /\ job.todo \in Todos(job.kind) /\ job.kind \in Host!Kinds
  BY DEF IsJob, Job
<1>2. Tail(job.todo) \in Todos(job.kind) /\ StageOf(Tail(job.todo)) = After(job.kind, Stage)
  BY <1>1, TodoSteps DEF Stage
<1>3. Tail(job.todo) \in Seq(Stages)
  BY <1>1 DEF Job
<1>a. /\ o.todo = Tail(job.todo) /\ o.stack = <<>>
      /\ o.kind = job.kind /\ o.x = job.x /\ o.grants = job.grants /\ o.restore = g
  BY <1>1 DEF Job
<1>b. <<>> \in Seq(Frames)
  OBVIOUS
<1>4. o \in Job
  BY <1>1, <1>3, <1>b DEF Job
<1>5. Host!To(o)
  BY DEF Host!Next_
<1> HIDE DEF o
<1>6. /\ IsJob(job')
      /\ job'.kind = o.kind /\ job'.x = o.x /\ job'.todo = o.todo
      /\ job'.grants = o.grants /\ job'.restore = o.restore
      /\ StageOf(o.todo) = "stop" => job'.stack[1].at = "dependents"
  BY <1>2, <1>a, <1>4, <1>5, ToStage
<1> QED BY <1>2, <1>a, <1>6 DEF Stage

LEMMA NextJob ==
  ASSUME IsJob(job), job.todo # <<>>, Host!Next_(job)
  PROVE  /\ IsJob(job')
         /\ job'.kind = job.kind /\ job'.x = job.x
         /\ job'.grants = job.grants /\ job'.restore = job.restore
         /\ Stage' = After(job.kind, Stage)
         /\ Stage' = "stop" => job'.stack[1].at = "dependents"
<1>1. PICK g \in AllGrants : g = job.restore /\ job = [job EXCEPT !.restore = g]
  BY DEF IsJob, Job
<1>2. Host!Next_([job EXCEPT !.restore = g])
  BY <1>1
<1> QED
  BY <1>1, <1>2, NextStage

-----------------------------------------------------------------------------
(* Activations, and what else happens to the sessions *)

\* Nothing starts of an extension that is disabled, and what is dead stays so.
Calm(x) ==
  /\ activating'[x] \in {activating[x], Host!NoRun}
  /\ Off(x) => Off(x)' /\ state'[x] = state[x]

\* An operation comes to its end, if it moves at all.
Finishes ==
  \/ job' = job
  \/ /\ Stage \in {"activate", "end"} /\ Stage' = "end"
     /\ job' = Host!Idle \/ (job'.kind = job.kind /\ job'.x = job.x)

LEMMA SessionStep ==
  ASSUME ManagerInv, UNCHANGED <<present, enabled, version, grants, stored>>,
         RunInv', JobInv', Finishes, \A x \in Exts : ~enabled[x] => Calm(x)
  PROVE  ManagerInv'
<1>1. DescTypes'
  BY DEF ManagerInv, DescTypes
<1>2. SilentInv'
  <2> SUFFICES ASSUME NEW x \in Exts, ~enabled[x]
               PROVE  Dead(x)' \/ Dying(x)'
    BY DEF SilentInv
  <2>1. Calm(x) /\ (Dead(x) \/ Dying(x))
    BY DEF ManagerInv, SilentInv
  <2>2. CASE Dead(x)
    BY <2>1, <2>2 DEF Calm, Dead
  <2>3. CASE Dying(x)
    <3>1. job' = job
      BY <2>3 DEF Finishes, Dying
    <3>2. Stage' = Stage
      BY <3>1 DEF Stage
    <3> QED BY <2>1, <2>3, <3>1, <3>2 DEF Calm, Dying
  <2> QED BY <2>1, <2>2, <2>3
<1>3. ASSUME NEW x \in Exts
      PROVE  ((enabled[x] => x \in present) /\ IsShown(x))'
  <2>1. (enabled[x] => x \in present) /\ IsShown(x)
    BY DEF ManagerInv, StoreInv
  <2>2. /\ Replacing(x)' = Replacing(x) /\ Installing(x)' = Installing(x)
        /\ Replacing(x) => job'.restore = job.restore
    BY DEF Finishes, Replacing, Installing, Stage
  <2>3. CASE stored[x] = Host!NoStore /\ x \in present /\ state[x] = "deactivated"
    <3>1. ~enabled[x] /\ ~Dying(x)
      BY <2>1, <2>3 DEF IsShown, Dying, ManagerInv, StoreInv, StageInv
    <3>2. Off(x) /\ Calm(x)
      BY <3>1 DEF ManagerInv, SilentInv, Dead
    <3>3. state'[x] = "deactivated"
      BY <2>3, <3>2 DEF Calm
    <3> QED BY <2>1, <2>2, <2>3, <3>3 DEF IsShown
  <2>4. CASE ~(stored[x] = Host!NoStore /\ x \in present /\ state[x] = "deactivated")
    BY <2>1, <2>2, <2>4 DEF IsShown
  <2> QED BY <2>3, <2>4
<1>4. StageInv'
  <2>1. CASE job' = job
    <3>1. Stage' = Stage /\ StageInv
      BY <2>1 DEF Stage, ManagerInv, StoreInv
    <3>2. CASE job.kind = "uninstall" /\ Stage = "remove"
      <4>1. job.x \in Exts
        BY <3>2, IdleJob DEF ManagerInv, JobInv, IsJob, Job
      <4>2. ~enabled[job.x] /\ ~Dying(job.x)
        BY <3>1, <3>2 DEF StageInv, Dying
      <4>3. Off(job.x) /\ Calm(job.x)
        BY <4>1, <4>2 DEF ManagerInv, SilentInv, Dead
      <4> QED BY <2>1, <3>1, <3>2, <4>3 DEF StageInv, Calm
    <3>3. CASE ~(job.kind = "uninstall" /\ Stage = "remove")
      BY <2>1, <3>1, <3>3 DEF StageInv
    <3> QED BY <3>2, <3>3
  <2>2. CASE Stage \in {"activate", "end"} /\ Stage' = "end" /\ job' = Host!Idle
    BY <2>2, IdleJob DEF StageInv
  <2>3. CASE /\ Stage \in {"activate", "end"} /\ Stage' = "end"
             /\ job'.kind = job.kind /\ job'.x = job.x
    BY <2>3 DEF StageInv, ManagerInv, StoreInv
  <2> QED BY <2>1, <2>2, <2>3 DEF Finishes
<1>5. StoreInv'
  BY <1>3, <1>4 DEF StoreInv
<1>6. Host!Assumptions'
  BY DEF ManagerInv, Host!Assumptions
<1> QED BY <1>1, <1>2, <1>5, <1>6 DEF ManagerInv

\* start() is given up.
LEMMA ThrowStep ==
  ASSUME RunInv, NEW r \in Host!Runs, UnderWay(r), Host!Throw(r)
  PROVE  RunInv' /\ \A x \in Exts : Calm(x)
<1> DEFINE x == r[1]
<1>1. x \in Exts /\ activating[x] = r /\ r # Host!NoRun
  BY RunsOfExtensions DEF RunInv
<1>2. /\ starts' = [starts EXCEPT ![r] = Host!NoStart]
      /\ activating' = [activating EXCEPT ![x] = Host!NoRun]
      /\ state' = [state EXCEPT ![x] = "failed"]
      /\ lease' = [lease EXCEPT ![x] = Host!NoRun] /\ box' = [box EXCEPT ![x] = Host!NoRun]
  BY DEF Host!Throw, Host!fail
<1>3. Host!NoStart \in Starts /\ Host!NoStart.at = "thrown" /\ "failed" \in Host!States
  BY DEF Host!NoStart, Starts, Host!Places, AnyRun, AllGrants, Host!States
<1> HIDE DEF x
<1>4. /\ state' \in [Exts -> Host!States] /\ starts' \in [Host!Runs -> Starts]
      /\ activating' \in [Exts -> AnyRun] /\ lease' \in [Exts -> AnyRun] /\ box' \in [Exts -> AnyRun]
  BY <1>1, <1>2, <1>3 DEF RunInv, AnyRun
<1>5. ASSUME NEW y \in Exts, NEW q \in {activating'[y], lease'[y], box'[y]}, q # Host!NoRun
      PROVE  q[1] = y
  BY <1>1, <1>2, <1>5 DEF RunInv
<1>6. ASSUME NEW q \in Host!Runs, UnderWay(q)'
      PROVE  activating'[q[1]] = q
  <2>1. q # r /\ UnderWay(q)
    BY <1>2, <1>3, <1>6 DEF UnderWay, RunInv
  <2>2. activating[q[1]] = q
    BY <2>1 DEF RunInv
  <2>3. q[1] \in Exts /\ q[1] # x
    BY <1>1, <2>1, <2>2, RunsOfExtensions
  <2> QED BY <1>2, <2>2, <2>3 DEF RunInv
<1>7. ASSUME NEW y \in Exts, activating'[y] # Host!NoRun
      PROVE  UnderWay(activating[y])' /\ activating'[y] = activating[y]
  <2>1. y # x /\ activating'[y] = activating[y]
    BY <1>1, <1>2, <1>7 DEF RunInv
  <2>2. activating[y] \in Host!Runs /\ UnderWay(activating[y]) /\ activating[y][1] = y
    BY <1>7, <2>1 DEF RunInv, AnyRun
  <2>3. activating[y] # r /\ r[1] = x
    BY <2>1, <2>2 DEF x
  <2> QED BY <1>2, <2>1, <2>2, <2>3 DEF UnderWay, RunInv
<1>8. RunInv'
  BY <1>4, <1>5, <1>6, <1>7 DEF RunInv, UnderWay
<1>9. ASSUME NEW y \in Exts
      PROVE  Calm(y)
  <2>1. CASE y = x
    BY <1>1, <1>2, <2>1 DEF Calm, Off, RunInv
  <2>2. CASE y # x
    BY <1>1, <1>2, <2>2 DEF Calm, Off, RunInv
  <2> QED BY <2>1, <2>2
<1> QED BY <1>8, <1>9

LEMMA FreeRun ==
  ASSUME RunInv, NEW x \in Exts, Host!FreeRuns(x) # {}
  PROVE  Host!Free(x) \in Host!Runs /\ Host!Free(x)[1] = x /\ ~UnderWay(Host!Free(x))
<1>1. Host!Free(x) \in Host!FreeRuns(x)
  BY DEF Host!Free
<1> QED BY <1>1 DEF Host!FreeRuns, UnderWay

LEMMA StartTypes ==
  /\ Host!NoStart \in Starts /\ Host!NoStart.at = "thrown" /\ {"failed", "validated"} \subseteq Host!States
  /\ \A x \in Exts, chain \in SUBSET Exts :
       Host!NewStart(x, chain) \in Starts /\ Host!NewStart(x, chain).at = "deps"
<1>1. Host!NoStart \in Starts /\ Host!NoStart.at = "thrown" /\ {"failed", "validated"} \subseteq Host!States
  BY DEF Host!NoStart, Starts, Host!Places, AnyRun, AllGrants, Host!States
<1>2. ASSUME NEW x \in Exts, NEW chain \in SUBSET Exts
      PROVE  Host!NewStart(x, chain) \in Starts /\ Host!NewStart(x, chain).at = "deps"
  <2>1. Host!Dependencies(x) \in SUBSET Exts /\ chain \cup {x} \in SUBSET Exts /\ "deps" \in Host!Places
    BY DEF Host!Dependencies, Host!Places
  <2> QED BY <1>1, <2>1 DEF Host!NewStart, Starts
<1> QED BY <1>1, <1>2

\* activate(x) begins only what is enabled.
LEMMA ActivateStep ==
  ASSUME RunInv, NEW x \in Exts, enabled[x], NEW chain \in SUBSET Exts,
         NEW others \in [Host!Runs -> Starts], \A r \in Host!Runs : others[r].at = starts[r].at,
         Host!Activate(x, chain, others)
  PROVE  RunInv' /\ \A y \in Exts : ~enabled[y] => Calm(y)
<1>1. CASE starts' = others /\ UNCHANGED <<activating, state, lease, box>>
  <2>1. \A r \in Host!Runs : UnderWay(r)' = UnderWay(r)
    BY <1>1 DEF UnderWay
  <2>2. \A y \in Exts : activating[y] # Host!NoRun => activating[y] \in Host!Runs
    BY DEF RunInv, AnyRun
  <2>3. RunInv'
    BY <1>1, <2>1, <2>2 DEF RunInv
  <2> QED BY <1>1, <2>3 DEF Calm, Off, RunInv, AnyRun
<1>2. ASSUME activating[x] = Host!NoRun, Host!FreeRuns(x) # {},
             Host!CheckDependencies(x),
             starts' = [others EXCEPT ![Host!Free(x)] = Host!NewStart(x, chain)],
             activating' = [activating EXCEPT ![x] = Host!Free(x)],
             UNCHANGED <<state, lease, box>>
      PROVE  RunInv' /\ \A y \in Exts : ~enabled[y] => Calm(y)
  <2>1. PICK f \in Host!Runs : f = Host!Free(x) /\ f[1] = x /\ ~UnderWay(f)
    BY <1>2, FreeRun
  <2>2. PICK s \in Starts : s = Host!NewStart(x, chain) /\ s.at = "deps"
    BY StartTypes
  <2>3. /\ starts' = [others EXCEPT ![f] = s]
        /\ activating' = [activating EXCEPT ![x] = f] /\ f # Host!NoRun
    BY <1>2, <2>1, <2>2, RunsOfExtensions
  <2>4. starts' \in [Host!Runs -> Starts] /\ activating' \in [Exts -> AnyRun]
    BY <2>3 DEF RunInv, AnyRun
  <2>5. \A r \in Host!Runs : UnderWay(r)' <=> r = f \/ UnderWay(r)
    BY <2>2, <2>3 DEF UnderWay
  <2>6. ASSUME NEW r \in Host!Runs, UnderWay(r)'
        PROVE  activating'[r[1]] = r
    <3>1. CASE r = f
      BY <2>1, <2>3, <3>1 DEF RunInv
    <3>2. CASE r # f
      <4>1. activating[r[1]] = r /\ r[1] \in Exts /\ r # Host!NoRun
        BY <2>5, <2>6, <3>2, RunsOfExtensions DEF RunInv
      <4> QED BY <1>2, <2>3, <4>1 DEF RunInv
    <3> QED BY <3>1, <3>2
  <2>7. ASSUME NEW y \in Exts, activating'[y] # Host!NoRun
        PROVE  UnderWay(activating[y])' /\ activating'[y][1] = y
    <3>1. CASE y = x
      BY <2>1, <2>3, <2>5, <3>1 DEF RunInv, UnderWay
    <3>2. CASE y # x
      <4>1. activating'[y] = activating[y] /\ activating[y] \in Host!Runs
        BY <2>3, <2>7, <3>2 DEF RunInv, AnyRun
      <4>2. UnderWay(activating[y]) /\ activating[y][1] = y
        BY <2>7, <4>1 DEF RunInv
      <4> QED BY <2>5, <4>1, <4>2 DEF UnderWay
    <3> QED BY <3>1, <3>2
  <2>8. RunInv'
    BY <1>2, <2>4, <2>6, <2>7 DEF RunInv, UnderWay
  <2> QED BY <1>2, <2>3, <2>8 DEF Calm, Off, RunInv
<1>3. ASSUME Host!FreeRuns(x) # {}, starts' = [others EXCEPT ![Host!Free(x)] = Host!NoStart],
             Host!fail(x), UNCHANGED activating
      PROVE  RunInv' /\ \A y \in Exts : ~enabled[y] => Calm(y)
  <2>1. PICK f \in Host!Runs : f = Host!Free(x) /\ f[1] = x /\ ~UnderWay(f)
    BY <1>3, FreeRun
  <2>2. PICK s \in Starts : s = Host!NoStart /\ s.at = "thrown"
    BY StartTypes
  <2>3. starts' = [others EXCEPT ![f] = s]
    BY <1>3, <2>1, <2>2
  <2>4. /\ state' = [state EXCEPT ![x] = "failed"]
        /\ lease' = [lease EXCEPT ![x] = Host!NoRun] /\ box' = [box EXCEPT ![x] = Host!NoRun]
    BY <1>3 DEF Host!fail
  <2>5. /\ starts' \in [Host!Runs -> Starts] /\ state' \in [Exts -> Host!States]
        /\ lease' \in [Exts -> AnyRun] /\ box' \in [Exts -> AnyRun]
    BY <2>3, <2>4, StartTypes DEF RunInv, AnyRun
  <2>6. \A r \in Host!Runs : UnderWay(r)' = UnderWay(r)
    BY <2>1, <2>2, <2>3 DEF UnderWay
  <2>7. \A y \in Exts : activating[y] # Host!NoRun => activating[y] \in Host!Runs
    BY DEF RunInv, AnyRun
  <2>8. \A y \in Exts : lease'[y] \in {lease[y], Host!NoRun} /\ box'[y] \in {box[y], Host!NoRun}
    BY <2>4 DEF RunInv
  <2>9. RunInv'
    BY <1>3, <2>5, <2>6, <2>7, <2>8 DEF RunInv
  <2> QED BY <1>3, <2>4, <2>9 DEF Calm, Off, RunInv
<1> QED BY <1>1, <1>2, <1>3 DEF Host!Activate, Host!Joined

LEMMA AwaitTypes ==
  ASSUME RunInv, NEW x \in Exts, Host!FreeRuns(x) # {} \/ state[x] = "activated" \/ Host!Joined(x)
  PROVE  Host!Awaited(x) \in AnyRun
  BY FreeRun DEF Host!Awaited, AnyRun, RunInv, Host!Joined

LEMMA Untouched ==
  ASSUME ManagerInv, UNCHANGED job
  PROVE  JobInv' /\ Finishes
  BY DEF ManagerInv, JobInv, Finishes

\* A run reaches another place before its end.
LEMMA PlaceStep ==
  ASSUME RunInv, NEW r \in Host!Runs, UnderWay(r),
         NEW spot \in Host!Places \ {"done", "thrown"}, Host!At(r, spot),
         UNCHANGED activating,
         state' = state \/ state' = [state EXCEPT ![r[1]] = "loaded"],
         UNCHANGED lease, box' = box \/ box' = [box EXCEPT ![r[1]] = r]
  PROVE  RunInv' /\ \A x \in Exts : Calm(x)
<1> DEFINE x == r[1]
<1>1. x \in Exts /\ activating[x] = r /\ r # Host!NoRun
  BY RunsOfExtensions DEF RunInv
<1>2. starts' = [starts EXCEPT ![r].at = spot]
  BY DEF Host!At
<1>3. starts' \in [Host!Runs -> Starts] /\ starts'[r].at = spot
  BY <1>2 DEF RunInv, Starts
<1>4. \A q \in Host!Runs : UnderWay(q)' = UnderWay(q)
  BY <1>2, <1>3 DEF UnderWay, RunInv
<1> HIDE DEF x
<1>5. r \in AnyRun /\ r[1] = x /\ "loaded" \in Host!States
  BY DEF AnyRun, x, Host!States
<1>6. state' \in [Exts -> Host!States] /\ box' \in [Exts -> AnyRun]
  BY <1>1, <1>5 DEF RunInv
<1>7. \A y \in Exts : activating[y] # Host!NoRun => activating[y] \in Host!Runs
  BY DEF RunInv, AnyRun
<1>8. \A y \in Exts : box'[y] \in {box[y], r} /\ (box'[y] = r /\ box[y] # r => y = x)
  BY <1>1, <1>5 DEF RunInv
<1>9. RunInv'
  BY <1>1, <1>3, <1>4, <1>5, <1>6, <1>7, <1>8 DEF RunInv
<1>10. \A y \in Exts : y # x => state'[y] = state[y] /\ box'[y] = box[y]
  BY <1>1, <1>5 DEF RunInv
<1> QED BY <1>1, <1>9, <1>10 DEF Calm, Off

LEMMA ContinueStep ==
  ASSUME ManagerInv, NEW r \in Host!Runs, Host!Continue(r)
  PROVE  ManagerInv'
<1> DEFINE x == r[1]
<1>1. RunInv /\ UnderWay(r) /\ x \in Exts /\ activating[x] = r /\ r # Host!NoRun
  BY RunsOfExtensions DEF ManagerInv, Host!Continue, UnderWay, RunInv
<1>2. /\ UNCHANGED <<present, enabled, version, grants, stored>> /\ UNCHANGED job
      /\ JobInv' /\ Finishes
  BY Untouched DEF Host!Continue
<1>3. CASE Host!Throw(r)
  BY <1>1, <1>2, <1>3, ThrowStep, SessionStep
<1>4. ASSUME NEW y \in starts[r].left, ~Host!Rejected(y, starts[r].chain),
             Host!Activate(y, starts[r].chain,
                        [starts EXCEPT ![r].left = @ \ {y}, ![r].await = Host!Awaited(y)])
      PROVE  ManagerInv'
  <2>1. starts[r] \in Starts
    BY <1>1 DEF RunInv
  <2>2. y \in Exts /\ enabled[y] /\ starts[r].chain \in SUBSET Exts
    BY <1>4, <2>1 DEF Starts, Host!Rejected
  <2>3. Host!Awaited(y) \in AnyRun
    BY <1>1, <1>4, <2>2, AwaitTypes DEF Host!Activate
  <2>4. PICK others : others = [starts EXCEPT ![r].left = @ \ {y}, ![r].await = Host!Awaited(y)]
    OBVIOUS
  <2>5. PICK chain : chain = starts[r].chain
    OBVIOUS
  <2>6. others \in [Host!Runs -> Starts] /\ \A q \in Host!Runs : others[q].at = starts[q].at
    BY <1>1, <2>1, <2>3, <2>4 DEF RunInv, Starts
  <2>7. Host!Activate(y, chain, others)
    BY <1>4, <2>4, <2>5
  <2>8. RunInv' /\ \A z \in Exts : ~enabled[z] => Calm(z)
    BY <1>1, <2>2, <2>5, <2>6, <2>7, ActivateStep
  <2> QED BY <1>2, <2>8, SessionStep
<1>5. ASSUME starts[r].left = {},
             starts' = [starts EXCEPT ![r].at = IF box[x] = Host!NoRun THEN "frame" ELSE "unloading",
                                      ![r].await = Host!NoRun],
             lease' = [lease EXCEPT ![x] = r],
             box' = [box EXCEPT ![x] = IF @ = Host!NoRun THEN r ELSE Host!NoRun],
             state' = [state EXCEPT ![x] = "validated"],
             UNCHANGED activating
      PROVE  ManagerInv'
  <2>1. starts' \in [Host!Runs -> Starts] /\ \A q \in Host!Runs : UnderWay(q)' = UnderWay(q)
    <3>1. PICK spot \in {"frame", "unloading"} : starts' =
             [starts EXCEPT ![r].at = spot, ![r].await = Host!NoRun]
      BY <1>5
    <3>2. spot \in Host!Places /\ Host!NoRun \in AnyRun
      BY DEF Host!Places, AnyRun
    <3>3. \A q \in Host!Runs : starts[q] \in Starts
      BY <1>1 DEF RunInv
    <3>4. starts' \in [Host!Runs -> Starts]
      <4>1. [starts[r] EXCEPT !.at = spot, !.await = Host!NoRun] \in Starts
        BY <3>2, <3>3 DEF Starts
      <4>2. starts' = [starts EXCEPT ![r] =
                         [starts[r] EXCEPT !.at = spot, !.await = Host!NoRun]]
        BY <1>1, <3>1 DEF RunInv
      <4> QED BY <1>1, <4>1, <4>2 DEF RunInv
    <3>5. \A q \in Host!Runs : starts'[q].at = (IF q = r THEN spot ELSE starts[q].at)
      BY <1>1, <3>1, <3>3 DEF RunInv, Starts
    <3> QED BY <1>1, <3>4, <3>5 DEF UnderWay
  <2> HIDE DEF x
  <2>2. r \in AnyRun /\ r[1] = x /\ Host!NoRun \in AnyRun /\ "validated" \in Host!States
    BY DEF AnyRun, x, Host!States
  <2>3. /\ state' \in [Exts -> Host!States]
        /\ lease' \in [Exts -> AnyRun] /\ box' \in [Exts -> AnyRun]
    BY <1>1, <1>5, <2>2 DEF RunInv
  <2>4. \A y \in Exts : /\ lease'[y] = (IF y = x THEN r ELSE lease[y])
                        /\ box'[y] \in {box[y], Host!NoRun} \/ (y = x /\ box'[y] = r)
    BY <1>1, <1>5 DEF RunInv
  <2>5. \A y \in Exts : activating[y] # Host!NoRun => activating[y] \in Host!Runs
    BY <1>1 DEF RunInv, AnyRun
  <2>6. RunInv'
    BY <1>1, <1>5, <2>1, <2>2, <2>3, <2>4, <2>5 DEF RunInv
  <2>7. \A y \in Exts : y # x => state'[y] = state[y] /\ box'[y] = box[y] /\ lease'[y] = lease[y]
    BY <1>1, <1>5 DEF RunInv
  <2>8. \A y \in Exts : Calm(y)
    BY <1>1, <1>5, <2>7 DEF Calm, Off
  <2> QED BY <1>2, <2>6, <2>8, SessionStep
<1> QED BY <1>3, <1>4, <1>5 DEF Host!Continue

LEMMA CallerStep ==
  ASSUME ManagerInv, NEW x \in Exts, Host!Call(x)
  PROVE  ManagerInv'
<1>1. /\ UNCHANGED <<present, enabled, version, grants, stored>> /\ UNCHANGED job
      /\ JobInv' /\ Finishes
  BY Untouched DEF Host!Call
<1>2. PICK others : others = starts
  OBVIOUS
<1>3. /\ RunInv /\ enabled[x] /\ {} \in SUBSET Exts /\ Host!Activate(x, {}, others)
      /\ others \in [Host!Runs -> Starts] /\ \A r \in Host!Runs : others[r].at = starts[r].at
  BY <1>2 DEF Host!Call, Host!Rejected, ManagerInv, RunInv
<1>4. RunInv' /\ \A y \in Exts : ~enabled[y] => Calm(y)
  BY <1>3, ActivateStep
<1> QED BY <1>1, <1>4, SessionStep

LEMMA UnloadedStep ==
  ASSUME ManagerInv, NEW r \in Host!Runs, Host!Unloaded(r)
  PROVE  ManagerInv'
<1>1. /\ UNCHANGED <<present, enabled, version, grants, stored>>
      /\ JobInv' /\ Finishes
  BY Untouched DEF Host!Unloaded, Host!desc
<1>2. RunInv /\ UnderWay(r) /\ "frame" \in Host!Places \ {"done", "thrown"}
  BY DEF ManagerInv, Host!Unloaded, UnderWay, Host!Places
<1>3. RunInv' /\ \A x \in Exts : Calm(x)
  BY <1>2, PlaceStep DEF Host!Unloaded, Host!desc
<1> QED BY <1>1, <1>3, SessionStep

LEMMA AnsweredStep ==
  ASSUME ManagerInv, NEW r \in Host!Runs, Host!Answered(r)
  PROVE  ManagerInv'
<1> DEFINE x == r[1]
<1>1. RunInv /\ UnderWay(r) /\ x \in Exts /\ activating[x] = r /\ r # Host!NoRun
  BY RunsOfExtensions DEF ManagerInv, Host!Answered, UnderWay, RunInv
<1>2. /\ UNCHANGED <<present, enabled, version, grants, stored>>
      /\ JobInv' /\ Finishes
  BY Untouched DEF Host!Answered
<1>3. {"load", "activate"} \subseteq Host!Places \ {"done", "thrown"}
  BY DEF Host!Places
<1>4. CASE starts[r].at = "frame"
  <2>1. RunInv' /\ \A y \in Exts : Calm(y)
    BY <1>1, <1>3, <1>4, PlaceStep DEF Host!Answered
  <2> QED BY <1>2, <2>1, SessionStep
<1>5. CASE starts[r].at = "load"
  <2>1. RunInv' /\ \A y \in Exts : Calm(y)
    BY <1>1, <1>3, <1>5, PlaceStep DEF Host!Answered
  <2> QED BY <1>2, <2>1, SessionStep
<1>6. CASE starts[r].at = "activate" /\ ~enabled[x]
  <2>1. Host!Throw(r)
    BY <1>6 DEF Host!Answered
  <2> QED BY <1>1, <1>2, <2>1, ThrowStep, SessionStep
<1>7. CASE starts[r].at = "activate" /\ enabled[x]
  <2>1. /\ starts' = [starts EXCEPT ![r].at = "done"]
        /\ state' = [state EXCEPT ![x] = "activated"]
        /\ activating' = [activating EXCEPT ![x] = Host!NoRun]
        /\ lease' = lease /\ box' = box
    BY <1>7 DEF Host!Answered, Host!At
  <2>2. "done" \in Host!Places /\ "activated" \in Host!States /\ Host!NoRun \in AnyRun
    BY DEF Host!Places, Host!States, AnyRun
  <2>3. /\ starts' \in [Host!Runs -> Starts]
        /\ \A q \in Host!Runs : UnderWay(q)' <=> q # r /\ UnderWay(q)
    BY <1>1, <2>1, <2>2 DEF RunInv, Starts, UnderWay
  <2>4. activating[x] = r /\ \A q \in Host!Runs : UnderWay(q)' => q[1] # x /\ q[1] \in Exts
    BY <1>1, <2>3, RunsOfExtensions DEF RunInv
  <2> HIDE DEF x
  <2>5. state' \in [Exts -> Host!States] /\ activating' \in [Exts -> AnyRun]
    BY <1>1, <2>1, <2>2 DEF RunInv
  <2>6. \A y \in Exts : activating'[y] = (IF y = x THEN Host!NoRun ELSE activating[y])
    BY <1>1, <2>1 DEF RunInv
  <2>7. \A q \in Host!Runs : UnderWay(q)' => activating'[q[1]] = q
    BY <1>1, <2>3, <2>4, <2>6 DEF RunInv
  <2>8. ASSUME NEW y \in Exts, activating'[y] # Host!NoRun
        PROVE  UnderWay(activating[y])' /\ activating'[y] = activating[y]
    <3>1. /\ y # x /\ activating'[y] = activating[y] /\ activating[y] \in Host!Runs
          /\ UnderWay(activating[y]) /\ activating[y][1] = y
      BY <1>1, <2>6, <2>8 DEF RunInv, AnyRun
    <3>2. activating[y] # r
      BY <3>1 DEF x
    <3> QED BY <2>3, <3>1, <3>2
  <2>9. RunInv'
    BY <1>1, <2>1, <2>3, <2>5, <2>6, <2>7, <2>8 DEF RunInv, UnderWay
  <2>10. ASSUME NEW y \in Exts, ~enabled[y]
         PROVE  Calm(y)
    BY <1>1, <1>7, <2>1, <2>6, <2>10 DEF Calm, Off, RunInv
  <2> QED BY <1>2, <2>9, <2>10, SessionStep
<1> QED BY <1>4, <1>5, <1>6, <1>7 DEF Host!Answered

LEMMA RefusedStep ==
  ASSUME ManagerInv, NEW r \in Host!Runs, Host!TimedOut(r)
  PROVE  ManagerInv'
<1>1. /\ UNCHANGED <<present, enabled, version, grants, stored>>
      /\ JobInv' /\ Finishes
  BY Untouched DEF Host!TimedOut, Host!Refused
<1>2. RunInv /\ UnderWay(r) /\ Host!Throw(r)
  BY DEF ManagerInv, Host!TimedOut, Host!Refused, UnderWay
<1> QED BY <1>1, <1>2, ThrowStep, SessionStep

LEMMA CrashStep ==
  ASSUME ManagerInv, NEW x \in Exts, Host!Crash(x)
  PROVE  ManagerInv'
<1>1. /\ UNCHANGED <<present, enabled, version, grants, stored>>
      /\ JobInv' /\ Finishes
  BY Untouched DEF Host!Crash
<1>2. /\ RunInv /\ box[x] # Host!NoRun /\ starts' = starts /\ activating' = activating
      /\ state' = [state EXCEPT ![x] = "failed"]
      /\ lease' = [lease EXCEPT ![x] = Host!NoRun] /\ box' = [box EXCEPT ![x] = Host!NoRun]
  BY DEF ManagerInv, Host!Crash, Host!fail
<1>3. /\ state' \in [Exts -> Host!States]
      /\ lease' \in [Exts -> AnyRun] /\ box' \in [Exts -> AnyRun]
  BY <1>2, StartTypes DEF RunInv, AnyRun
<1>4. \A y \in Exts : lease'[y] \in {lease[y], Host!NoRun} /\ box'[y] \in {box[y], Host!NoRun}
  BY <1>2 DEF RunInv
<1>5. RunInv'
  BY <1>2, <1>3, <1>4 DEF RunInv, UnderWay
<1>6. \A y \in Exts : y # x => state'[y] = state[y]
  BY <1>2 DEF RunInv
<1>7. \A y \in Exts : Calm(y)
  BY <1>2, <1>4, <1>6 DEF Calm, Off
<1> QED BY <1>1, <1>5, <1>7, SessionStep

\* The activation at the end of an operation, and that end.
LEMMA ActivateAfterStep ==
  ASSUME ManagerInv, Host!ActivateAfter
  PROVE  ManagerInv'
<1> DEFINE x == job.x
<1>1. UNCHANGED <<present, enabled, version, grants, stored>>
  BY DEF Host!ActivateAfter
<1>2. RunInv /\ job.todo = <<"activate">> /\ Stage = "activate"
  BY Tails DEF ManagerInv, Host!ActivateAfter, Stage
<1>3. IsJob(job) /\ job \in Job /\ x \in Exts /\ job.kind \in Host!Kinds /\ Len(job.stack) = 0
  <2>1. IsJob(job)
    BY <1>2, IdleJob, Tails DEF ManagerInv, JobInv
  <2>2. job \in Job
    BY <2>1 DEF IsJob
  <2>3. Len(job.stack) \in Nat
    BY <2>2 DEF Job
  <2> QED BY <1>2, <2>1, <2>2, <2>3 DEF IsJob, Job, Stage
<1>4. <<>> \in Todos(job.kind)
  BY <1>3 DEF Todos, Host!Kinds
<1>5. ASSUME NEW a \in AnyRun, job' = [job EXCEPT !.todo = <<>>, !.await = a]
      PROVE  JobInv' /\ Finishes
  <2>a. <<>> \in Seq(Stages)
    OBVIOUS
  <2>b. job'.todo = <<>> /\ job'.stack = job.stack /\ job'.kind = job.kind /\ job'.x = x
    BY <1>3, <1>5 DEF Job
  <2>c. job' \in Job
    BY <1>3, <1>5, <2>a DEF Job
  <2>1. /\ job' \in Job /\ job'.todo = <<>> /\ job'.stack = job.stack
        /\ job'.kind = job.kind /\ job'.x = x
    BY <2>b, <2>c
  <2>2. Stage' = "end" /\ StageOf(job'.todo) = "end"
    BY <2>1, Tails DEF Stage
  <2>3. IsJob(job')
    BY <1>3, <1>4, <2>1, <2>2 DEF IsJob
  <2> QED BY <1>2, <2>1, <2>2, <2>3 DEF JobInv, Finishes
<1>6. CASE /\ job' = [job EXCEPT !.todo = <<>>]
           /\ UNCHANGED <<starts, activating, state, lease, box>>
  <2>1. job.await \in AnyRun /\ job' = [job EXCEPT !.todo = <<>>, !.await = job.await]
    BY <1>3, <1>6 DEF Job
  <2>2. JobInv' /\ Finishes
    BY <1>5, <2>1
  <2>3. RunInv'
    BY <1>2, <1>6 DEF RunInv, UnderWay
  <2>4. \A y \in Exts : Calm(y)
    BY <1>6 DEF Calm, Off
  <2> QED BY <1>1, <2>2, <2>3, <2>4, SessionStep
<1>7. CASE /\ ~Host!Rejected(x, {}) /\ Host!Activate(x, {}, starts)
           /\ job' = [job EXCEPT !.todo = <<>>, !.await = Host!Awaited(x)]
  <2>1. Host!Awaited(x) \in AnyRun
    BY <1>2, <1>3, <1>7, AwaitTypes DEF Host!Activate
  <2>2. JobInv' /\ Finishes
    BY <1>5, <1>7, <2>1
  <2>3. PICK others : others = starts
    OBVIOUS
  <2>4. PICK z \in Exts : z = x
    BY <1>3
  <2>5. /\ enabled[z] /\ {} \in SUBSET Exts /\ Host!Activate(z, {}, others)
        /\ others \in [Host!Runs -> Starts] /\ \A r \in Host!Runs : others[r].at = starts[r].at
    BY <1>2, <1>7, <2>3, <2>4 DEF Host!Rejected, RunInv
  <2>6. RunInv' /\ \A y \in Exts : ~enabled[y] => Calm(y)
    BY <1>2, <2>5, ActivateStep
  <2> QED BY <1>1, <2>2, <2>6, SessionStep
<1> QED BY <1>6, <1>7 DEF Host!ActivateAfter

LEMMA OverStep ==
  ASSUME ManagerInv, Host!End
  PROVE  ManagerInv'
<1>1. /\ UNCHANGED <<present, enabled, version, grants, stored>>
      /\ UNCHANGED <<state, starts, activating, lease, box>>
      /\ job.todo = <<>> /\ job' = Host!Idle
  BY DEF Host!End, Host!desc
<1>2. Stage = "end" /\ Stage' = "end"
  BY <1>1, IdleJob, Tails DEF Stage
<1>3. JobInv' /\ Finishes
  BY <1>1, <1>2 DEF JobInv, Finishes, Host!Idle
<1>4. RunInv' /\ \A y \in Exts : Calm(y)
  BY <1>1 DEF ManagerInv, RunInv, UnderWay, Calm, Off
<1> QED BY <1>1, <1>3, <1>4, SessionStep

-----------------------------------------------------------------------------
(* Stops *)

LEMMA TopFrame ==
  ASSUME ManagerInv, job.stack # <<>>
  PROVE  /\ IsJob(job) /\ job \in Job /\ job.kind \in Host!Kinds /\ job.x \in Exts
         /\ job.stack \in Seq(Frames) /\ Len(job.stack) \in Nat \ {0} /\ job.todo # <<>>
         /\ Host!Top = job.stack[Len(job.stack)] /\ Host!Top \in Frames /\ Host!Top.x \in Exts
         /\ Stage = "stop" /\ job.stack[1].x = job.x
         /\ \A i \in 1..Len(job.stack) : i # Len(job.stack) => job.stack[i].at = "dependents"
<1>1. IsJob(job) /\ job \in Job
  BY IdleJob DEF ManagerInv, JobInv, IsJob
<1>2. job.stack \in Seq(Frames) /\ job.kind \in Host!Kinds /\ job.x \in Exts
  BY <1>1 DEF Job
<1>3. Len(job.stack) \in Nat \ {0}
  BY <1>2
<1>4. job.stack[Len(job.stack)] \in Frames
  BY <1>2, <1>3
<1>5. Host!Top \in Frames /\ Host!Top.x \in Exts
  BY <1>4 DEF Host!Top, Frames
<1>6. /\ Stage = "stop" /\ job.stack[1].x = job.x
      /\ \A i \in 1..Len(job.stack) : i # Len(job.stack) => job.stack[i].at = "dependents"
  BY <1>1, <1>3 DEF IsJob, Stage
<1>7. job.todo # <<>>
  BY <1>6, Tails DEF Stage
<1> QED BY <1>1, <1>2, <1>3, <1>5, <1>6, <1>7 DEF Host!Top

LEMMA PutJob ==
  ASSUME ManagerInv, job.stack # <<>>, NEW f \in Frames, f.x = Host!Top.x, Host!Put(f)
  PROVE  /\ IsJob(job') /\ job'.kind = job.kind /\ job'.x = job.x /\ job'.todo = job.todo
         /\ Len(job'.stack) = Len(job.stack) /\ job'.stack \in Seq(Frames)
         /\ \A i \in 1..Len(job.stack) :
              job'.stack[i] = IF i = Len(job.stack) THEN f ELSE job.stack[i]
<1>1. PICK s \in Seq(Frames) : s = job.stack /\ Len(s) \in Nat \ {0}
  BY TopFrame
<1>2. job' = [job EXCEPT !.stack = [s EXCEPT ![Len(s)] = f]]
  BY <1>1, TopFrame DEF Host!Put, Job
<1>3. PICK t : t = [s EXCEPT ![Len(s)] = f]
  OBVIOUS
<1>4. /\ t \in Seq(Frames) /\ Len(t) = Len(s)
      /\ \A i \in 1..Len(s) : t[i] = IF i = Len(s) THEN f ELSE s[i]
  BY <1>1, <1>3
<1>5. /\ job' \in Job /\ job'.stack = t
      /\ job'.kind = job.kind /\ job'.x = job.x /\ job'.todo = job.todo
  BY <1>2, <1>3, <1>4, TopFrame DEF Job
<1>6. Len(s) = 1 => f.x = job.x
  BY <1>1, TopFrame
<1>7. IsJob(job')
  <2>1. 1 \in 1..Len(s) /\ Len(t) > 0
    BY <1>1, <1>4
  <2>2. t[1].x = job'.x
    BY <1>1, <1>4, <1>5, <1>6, <2>1, TopFrame
  <2>3. \A i \in 1..Len(t) : i # Len(t) => t[i].at = "dependents"
    BY <1>1, <1>4, TopFrame
  <2> QED BY <1>5, <2>1, <2>2, <2>3, TopFrame DEF IsJob, Stage
<1> QED BY <1>1, <1>4, <1>5, <1>7

\* A stop takes sessions down and starts none.
TakesDown ==
  /\ UNCHANGED <<present, enabled, stored, starts, activating>>
  /\ state' \in [Exts -> Host!States] /\ lease' \in [Exts -> AnyRun] /\ box' \in [Exts -> AnyRun]
  /\ \A x \in Exts : lease'[x] \in {lease[x], Host!NoRun} /\ box'[x] \in {box[x], Host!NoRun}

LEMMA TakenDown ==
  ASSUME RunInv, TakesDown
  PROVE  RunInv' /\ \A x \in Exts : Off(x) => Off(x)'
<1>1. RunInv'
  BY DEF RunInv, TakesDown, UnderWay
<1> QED BY <1>1 DEF TakesDown, Off

\* A step within a stop.
LEMMA StopMove ==
  ASSUME ManagerInv, job.stack # <<>>, TakesDown, UNCHANGED <<version, grants>>,
         \A x \in Exts : state'[x] \in {state[x], "deactivated"},
         IsJob(job'), job'.kind = job.kind, job'.x = job.x, job'.todo = job.todo,
         \A x \in Exts : ~enabled[x] /\ Dying(x) => Dying(x)'
  PROVE  ManagerInv'
<1>1. RunInv' /\ \A x \in Exts : Off(x) => Off(x)'
  BY TakenDown DEF ManagerInv
<1>2. Stage' = Stage
  BY DEF Stage
<1>3. SilentInv'
  BY <1>1 DEF SilentInv, Dead, TakesDown, ManagerInv
<1>4. \A x \in Exts : ((enabled[x] => x \in present) /\ IsShown(x))'
  BY <1>2, TopFrame DEF ManagerInv, StoreInv, IsShown, Replacing, Installing, TakesDown
<1>5. StageInv'
  BY <1>2, TopFrame DEF ManagerInv, StoreInv, StageInv, TakesDown
<1>6. DescTypes' /\ Host!Assumptions' /\ JobInv'
  BY DEF ManagerInv, DescTypes, TakesDown, Host!Assumptions, JobInv
<1> QED BY <1>1, <1>3, <1>4, <1>5, <1>6 DEF ManagerInv, StoreInv

LEMMA StopDependentsStep ==
  ASSUME ManagerInv, Host!StopDependents
  PROVE  ManagerInv'
<1>1. /\ job.stack # <<>> /\ Host!Top.at = "dependents"
      /\ UNCHANGED <<present, enabled, version, grants, stored>>
      /\ UNCHANGED <<state, starts, activating, lease, box>>
  BY DEF Host!StopDependents, Host!desc
<1>2. TakesDown /\ \A x \in Exts : state'[x] \in {state[x], "deactivated"}
  BY <1>1 DEF TakesDown, ManagerInv, RunInv
<1>3. PICK n \in Nat \ {0} :
        /\ n = Len(job.stack) /\ Host!Top = job.stack[n] /\ job.stack[1].x = job.x
        /\ \A i \in 1..n : i # n => job.stack[i].at = "dependents"
  BY <1>1, TopFrame
<1>4. ASSUME NEW f \in Frames, f.x = Host!Top.x, Host!Put(f),
             f.at = "dependents" \/ (f.at = "waiting" /\ f.await = activating[f.x])
      PROVE  ManagerInv'
  <2>a. /\ IsJob(job') /\ job'.kind = job.kind /\ job'.x = job.x /\ job'.todo = job.todo
        /\ \A i \in 1..n : job'.stack[i] = IF i = n THEN f ELSE job.stack[i]
    BY <1>1, <1>3, <1>4, PutJob
  <2>b. 1 \in 1..n
    OBVIOUS
  <2>1. /\ IsJob(job') /\ job'.kind = job.kind /\ job'.x = job.x /\ job'.todo = job.todo
        /\ job'.stack[1] = IF n = 1 THEN f ELSE job.stack[1]
    BY <2>a, <2>b
  <2>2. Stage' = Stage
    BY <2>1 DEF Stage
  <2>3. n = 1 => f.x = job.x
    BY <1>1, <1>3, <1>4, TopFrame
  <2>4. n # 1 => job.stack[1].at = "dependents"
    BY <1>1, <1>3, TopFrame
  <2>5. \A x \in Exts : Dying(x) => Dying(x)'
    BY <1>1, <1>4, <2>1, <2>2, <2>3, <2>4 DEF Dying
  <2> QED BY <1>1, <1>2, <2>1, <2>5, StopMove
<1>5. ASSUME NEW y \in Host!Top.left
      PROVE  /\ y \in Exts /\ [Host!Top EXCEPT !.left = @ \ {y}] \in Frames
             /\ [Host!Top EXCEPT !.left = @ \ {y}].x = Host!Top.x
             /\ [Host!Top EXCEPT !.left = @ \ {y}].at = "dependents"
  BY <1>1, TopFrame DEF Frames
<1>6. ASSUME NEW y \in Host!Top.left, Host!Put([Host!Top EXCEPT !.left = @ \ {y}])
      PROVE  ManagerInv'
  BY <1>4, <1>5, <1>6
<1>7. ASSUME Host!Put([Host!Top EXCEPT !.at = "waiting", !.await = Host!Stopping(Host!Top.x)])
      PROVE  ManagerInv'
  <2>1. PICK f : f = [Host!Top EXCEPT !.at = "waiting", !.await = Host!Stopping(Host!Top.x)]
    OBVIOUS
  <2>2. Host!Stopping(Host!Top.x) = activating[Host!Top.x] /\ activating[Host!Top.x] \in AnyRun
    BY <1>1, TopFrame DEF Host!Stopping, ManagerInv, RunInv
  <2>3. f \in Frames /\ f.x = Host!Top.x /\ f.at = "waiting" /\ f.await = activating[f.x]
    BY <1>1, <2>1, <2>2, TopFrame DEF Frames, FramePlaces
  <2> QED BY <1>4, <1>7, <2>1, <2>3
<1>8. ASSUME NEW y \in Host!Top.left,
             job' = [job EXCEPT !.stack =
                       Append([@ EXCEPT ![Len(@)] = [Host!Top EXCEPT !.left = @ \ {y}]],
                                                 Host!Stop(y)[1])]
      PROVE  ManagerInv'
  <2>1. PICK f \in Frames : /\ f = [Host!Top EXCEPT !.left = @ \ {y}]
                            /\ f.x = Host!Top.x /\ f.at = "dependents"
    BY <1>5
  <2>2. PICK g \in Frames : g = Host!Stop(y)[1] /\ g.at = "dependents"
    BY <1>5, StopFrame
  <2>3. PICK s \in Seq(Frames) : s = job.stack /\ Len(s) = n
    BY <1>1, <1>3, TopFrame
  <2>4. PICK t : t = Append([s EXCEPT ![n] = f], g)
    OBVIOUS
  <2>5. /\ t \in Seq(Frames) /\ Len(t) = n + 1
        /\ \A i \in 1..(n + 1) : t[i] = IF i = n + 1 THEN g ELSE IF i = n THEN f ELSE s[i]
    BY <2>3, <2>4
  <2>6. job' = [job EXCEPT !.stack = t]
    BY <1>1, <1>8, <2>1, <2>2, <2>3, <2>4, TopFrame DEF Job
  <2>7. /\ job' \in Job /\ job'.stack = t
        /\ job'.kind = job.kind /\ job'.x = job.x /\ job'.todo = job.todo
    BY <1>1, <2>5, <2>6, TopFrame DEF Job
  <2>c. ASSUME NEW i \in 1..n
        PROVE  t[i] = IF i = n THEN f ELSE job.stack[i]
    <3>1. i \in 1..(n + 1) /\ i # n + 1
      OBVIOUS
    <3> QED BY <2>3, <2>5, <3>1
  <2>8. \A i \in 1..n : t[i].at = "dependents"
    BY <1>3, <2>1, <2>c
  <2>d. 1 \in 1..n
    OBVIOUS
  <2>9. t[1].x = job.x
    BY <1>3, <2>1, <2>c, <2>d
  <2>10. Stage' = "stop" /\ Stage = "stop"
    BY <1>1, <2>7, TopFrame DEF Stage
  <2>11. IsJob(job')
    <3>1. Len(t) > 0 /\ \A i \in 1..Len(t) : i # Len(t) => i \in 1..n
      BY <2>5
    <3> QED BY <1>1, <2>5, <2>7, <2>8, <2>9, <2>10, <3>1, TopFrame DEF IsJob, Stage
  <2>12. 1 \in 1..n
    OBVIOUS
  <2>13. \A x \in Exts : Dying(x) => Dying(x)'
    BY <2>7, <2>8, <2>10, <2>12 DEF Dying
  <2> QED BY <1>1, <1>2, <2>7, <2>11, <2>13, StopMove
<1> QED BY <1>6, <1>7, <1>8 DEF Host!StopDependents

\* The stop of the operation's extension is over; an update keeps the grants.
LEMMA LastStopped ==
  ASSUME ManagerInv, job.stack # <<>>, Len(job.stack) = 1, Host!Stopped(Host!Top.x)
  PROVE  /\ IsJob(job') /\ job'.kind = job.kind /\ job'.x = job.x /\ job'.grants = job.grants
         /\ job.kind = "update" => job'.restore = grants[job.x]
         /\ Stage' = After(job.kind, "stop")
         /\ Stage' = "stop" => job'.stack[1].at = "dependents"
<1>1. PICK x \in Exts : x = Host!Top.x /\ x = job.x
  BY TopFrame
<1>2. IsJob(job) /\ job.todo # <<>> /\ Stage = "stop"
  BY TopFrame
<1>3. grants[x] \in AllGrants
  BY DEF ManagerInv, DescTypes
<1>4. CASE job.kind = "update"
  <2>1. PICK g \in AllGrants : g = grants[x]
    BY <1>3
  <2>2. Host!Next_([job EXCEPT !.restore = g])
    BY <1>1, <1>4, <2>1 DEF Host!Stopped
  <2> QED BY <1>1, <1>2, <2>1, <2>2, NextStage
<1>5. CASE job.kind # "update"
  <2>1. Host!Next_(job)
    BY <1>5 DEF Host!Stopped
  <2> QED BY <1>2, <1>5, <2>1, NextJob
<1> QED BY <1>4, <1>5

\* stop(x) is over: the stop of the extension it depends on goes on, or the
\* operation does.
LEMMA StoppedStep ==
  ASSUME ManagerInv, job.stack # <<>>, Host!Stopped(Host!Top.x),
         UNCHANGED <<present, enabled, stored, starts, activating>>,
         lease' \in [Exts -> AnyRun], box' \in [Exts -> AnyRun],
         \A y \in Exts : lease'[y] \in {lease[y], Host!NoRun} /\ box'[y] \in {box[y], Host!NoRun},
         \A y \in Exts : Len(job.stack) = 1 /\ y = job.x /\ Dying(y) => Off(y)'
  PROVE  ManagerInv'
<1>1. PICK n \in Nat \ {0} :
        /\ n = Len(job.stack) /\ Host!Top = job.stack[n] /\ job.stack[1].x = job.x
        /\ \A i \in 1..n : i # n => job.stack[i].at = "dependents"
  BY TopFrame
<1>2. PICK x \in Exts : x = Host!Top.x
  BY TopFrame
<1>3. /\ job \in Job /\ job.kind \in Host!Kinds /\ Stage = "stop" /\ job.stack \in Seq(Frames)
      /\ IsJob(job)
  BY TopFrame
<1>4. {"deactivated", "validated"} \subseteq Host!States
  BY DEF Host!States
<1>5. CASE n > 1
  <2>1. /\ job' = [job EXCEPT !.stack = SubSeq(@, 1, Len(@) - 1)]
        /\ state' = [state EXCEPT ![x] = "deactivated"] /\ version' = version /\ grants' = grants
    BY <1>1, <1>2, <1>5 DEF Host!Stopped
  <2>2. PICK s \in Seq(Frames) : s = job.stack /\ Len(s) = n
    BY <1>1, <1>3
  <2>3. PICK t : t = SubSeq(s, 1, n - 1)
    OBVIOUS
  <2>4. t \in Seq(Frames) /\ Len(t) = n - 1 /\ \A i \in 1..(n - 1) : t[i] = s[i]
    BY <1>5, <2>2, <2>3
  <2>5. /\ job' \in Job /\ job'.stack = t
        /\ job'.kind = job.kind /\ job'.x = job.x /\ job'.todo = job.todo
    BY <1>3, <2>1, <2>2, <2>3, <2>4 DEF Job
  <2>6. ASSUME NEW i \in 1..Len(t)
        PROVE  t[i] = job.stack[i] /\ t[i].at = "dependents"
    BY <1>1, <2>2, <2>4, <2>6
  <2>7. 1 \in 1..Len(t) /\ Len(t) > 0
    BY <1>5, <2>4
  <2>8. Stage' = "stop" /\ t[1].at = "dependents" /\ t[1].x = job.x
    BY <1>1, <1>3, <2>5, <2>6, <2>7 DEF Stage
  <2>9. IsJob(job')
    BY <1>3, <2>5, <2>6, <2>7, <2>8 DEF IsJob, Stage
  <2>10. TakesDown /\ \A y \in Exts : state'[y] \in {state[y], "deactivated"}
    BY <1>4, <2>1 DEF TakesDown, ManagerInv, RunInv
  <2>11. \A y \in Exts : Dying(y) => Dying(y)'
    BY <2>5, <2>8 DEF Dying
  <2> QED BY <2>1, <2>5, <2>9, <2>10, <2>11, StopMove
<1>6. CASE n = 1
  <2>1. x = job.x /\ job.todo # <<>> /\ grants \in [Exts -> AllGrants]
    BY <1>1, <1>2, <1>6, TopFrame DEF ManagerInv, DescTypes
  <2>2. /\ IsJob(job') /\ job'.kind = job.kind /\ job'.x = x /\ job'.grants = job.grants
        /\ job.kind = "update" => job'.restore = grants[x]
        /\ Stage' = After(job.kind, "stop")
        /\ Stage' = "stop" => job'.stack[1].at = "dependents"
    BY <1>1, <1>6, <2>1, LastStopped
  <2>3. IF job.kind = "update"
        THEN /\ version' = [version EXCEPT ![x] = @ + 1]
             /\ grants' = [grants EXCEPT ![x] = @ \cap job.grants]
             /\ state' = [state EXCEPT ![x] = "validated"]
        ELSE /\ state' = [state EXCEPT ![x] = "deactivated"]
             /\ version' = version /\ grants' = grants
    BY <1>1, <1>2, <1>6 DEF Host!Stopped
  <2>4. TakesDown
    BY <1>4, <2>3 DEF TakesDown, ManagerInv, RunInv
  <2>5. RunInv' /\ \A y \in Exts : Off(y) => Off(y)'
    BY <2>4, TakenDown DEF ManagerInv
  <2>6. /\ DescTypes /\ StageInv /\ state \in [Exts -> Host!States]
        /\ \A y \in Exts : (enabled[y] => y \in present) /\ IsShown(y)
    BY DEF ManagerInv, StoreInv, RunInv
  <2>7. version[x] \in 0..MaxVersion /\ (job.kind = "update" => version[x] < MaxVersion)
    BY <1>3, <2>1, <2>6 DEF DescTypes, StageInv
  <2>8. MaxVersion \in Nat
    BY DEF ManagerInv, Host!Assumptions
  <2>9. /\ version' \in [Exts -> 0..MaxVersion]
        /\ job.kind = "update" => version'[x] = version[x] + 1
        /\ \A y \in Exts : y # x => version'[y] = version[y] /\ state'[y] = state[y]
        /\ state'[x] = IF job.kind = "update" THEN "validated" ELSE "deactivated"
    <3>1. version \in [Exts -> 0..MaxVersion]
      BY <2>6 DEF DescTypes
    <3>2. CASE job.kind = "update"
      <4>1. version[x] + 1 \in 0..MaxVersion
        BY <2>7, <2>8, <3>2
      <4> QED BY <2>3, <2>6, <3>1, <3>2, <4>1
    <3>3. CASE job.kind # "update"
      BY <2>3, <2>6, <3>1, <3>3
    <3> QED BY <3>2, <3>3
  <2>g. /\ grants' \in [Exts -> AllGrants]
        /\ grants'[x] = IF job.kind = "update" THEN grants[x] \cap job.grants ELSE grants[x]
        /\ \A y \in Exts : y # x => grants'[y] = grants[y]
    <3>1. grants[x] \cap job.grants \in AllGrants
      BY <2>1 DEF AllGrants
    <3> QED BY <2>1, <2>3, <3>1
  <2>10. DescTypes' /\ Host!Assumptions' /\ JobInv'
    BY <2>2, <2>6, <2>9, <2>g DEF DescTypes, ManagerInv, Host!Assumptions, JobInv
  <2>11. ASSUME NEW y \in Exts, ~enabled'[y]
         PROVE  Dead(y)'
    <3>1. ~enabled[y] /\ (Dead(y) \/ Dying(y))
      BY <2>11 DEF ManagerInv, SilentInv
    <3>2. CASE Dead(y)
      BY <2>5, <2>9, <3>2 DEF Dead
    <3>3. CASE Dying(y)
      <4>1. y = x /\ job.kind # "update"
        BY <2>1, <3>3 DEF Dying
      <4>2. Off(y)'
        BY <1>1, <1>6, <2>1, <3>1, <3>3, <4>1
      <4> QED BY <2>9, <4>1, <4>2 DEF Dead
    <3> QED BY <3>1, <3>2, <3>3
  <2>12. /\ Stage' = "replace" <=> job.kind = "update"
         /\ Stage' = "remove" => job.kind = "uninstall"
         /\ Stage' \notin {"install", "stop"}
    BY <2>2 DEF After
  <2>13. ASSUME NEW y \in Exts
         PROVE  ((enabled[y] => y \in present) /\ IsShown(y))'
    <3>1. /\ ~Replacing(y) /\ ~Installing(y) /\ ~Installing(y)'
          /\ Replacing(y)' <=> job.kind = "update" /\ y = x
      BY <1>3, <2>2, <2>12 DEF Replacing, Installing
    <3>2. (enabled[y] => y \in present) /\ IsShown(y)
      BY <2>6
    <3>3. CASE y = x
      <4>1. CASE job.kind = "update"
        <5>1. Replacing(y)' /\ version'[y] - 1 = version[y]
          BY <2>7, <2>9, <3>1, <3>3, <4>1
        <5>2. \/ stored[y] = Host!NoStore /\ (y \in present => ~enabled[y])
              \/ /\ stored[y] # Host!NoStore /\ y \in present /\ stored[y].version >= 1
                 /\ stored[y].enabled = enabled[y] /\ stored[y].grants = grants[y]
                 /\ stored[y].version = version[y]
          BY <3>1, <3>2 DEF IsShown
        <5>3. job'.restore = grants[y]
          BY <2>2, <3>3, <4>1
        <5> QED BY <3>2, <5>1, <5>2, <5>3 DEF IsShown
      <4>2. CASE job.kind # "update"
        BY <2>3, <2>9, <2>g, <3>1, <3>2, <3>3, <4>2 DEF IsShown
      <4> QED BY <4>1, <4>2
    <3>4. CASE y # x
      BY <2>9, <2>g, <3>1, <3>2, <3>4 DEF IsShown
    <3> QED BY <3>3, <3>4
  <2>14. StageInv'
    BY <1>3, <2>1, <2>2, <2>6, <2>7, <2>9, <2>12, <2>g DEF StageInv
  <2> QED BY <2>5, <2>10, <2>11, <2>13, <2>14 DEF ManagerInv, SilentInv, StoreInv
<1>7. n > 1 \/ n = 1
  OBVIOUS
<1> QED BY <1>5, <1>6, <1>7

LEMMA StopUnloadedStep ==
  ASSUME ManagerInv, Host!StopUnloaded
  PROVE  ManagerInv'
<1>1. /\ job.stack # <<>> /\ Host!Top.at = "unloading" /\ Host!Stopped(Host!Top.x)
      /\ UNCHANGED <<present, enabled, stored, starts, activating, lease, box>>
  BY DEF Host!StopUnloaded
<1>2. lease' \in [Exts -> AnyRun] /\ box' \in [Exts -> AnyRun]
  BY <1>1 DEF ManagerInv, RunInv
<1>3. \A y \in Exts : Len(job.stack) = 1 /\ y = job.x /\ Dying(y) => Off(y)'
  <2>1. Len(job.stack) = 1 => job.stack[1].at = "unloading"
    BY <1>1, TopFrame
  <2> QED BY <1>1, <2>1 DEF Dying, Off
<1> QED BY <1>1, <1>2, <1>3, StoppedStep

\* The resources and the session go once nothing of x is being activated.
LEMMA FinallyStep ==
  ASSUME ManagerInv, job.stack # <<>>, Host!Finally(Host!Top.x),
         UNCHANGED <<present, enabled, stored, starts, activating>>,
         Len(job.stack) = 1 /\ Dying(job.x) => activating[job.x] = Host!NoRun
  PROVE  ManagerInv'
<1>1. PICK x \in Exts : x = Host!Top.x
  BY TopFrame
<1>2. lease' = [lease EXCEPT ![x] = Host!NoRun] /\ (box' = box \/ box' = [box EXCEPT ![x] = Host!NoRun])
  BY <1>1 DEF Host!Finally
<1>3. /\ lease' \in [Exts -> AnyRun] /\ box' \in [Exts -> AnyRun]
      /\ \A y \in Exts : lease'[y] \in {lease[y], Host!NoRun} /\ box'[y] \in {box[y], Host!NoRun}
      /\ lease'[x] = Host!NoRun
  BY <1>2 DEF ManagerInv, RunInv, AnyRun
<1>4. Len(job.stack) = 1 => x = job.x
  BY <1>1, TopFrame
<1>5. box'[x] = Host!NoRun
  BY <1>1, <1>2 DEF Host!Finally, ManagerInv, RunInv
<1>6. \A y \in Exts : Len(job.stack) = 1 /\ y = job.x /\ Dying(y) => Off(y)'
  BY <1>3, <1>4, <1>5 DEF Off
<1>7. CASE box[x] = Host!NoRun
  <2>1. Host!Stopped(Host!Top.x)
    BY <1>1, <1>7 DEF Host!Finally
  <2> QED BY <1>3, <1>6, <2>1, StoppedStep
<1>8. CASE box[x] # Host!NoRun
  <2>1. Host!Put([Host!Top EXCEPT !.at = "unloading"]) /\ UNCHANGED <<state, version, grants>>
    BY <1>1, <1>8 DEF Host!Finally
  <2>2. PICK f : f = [Host!Top EXCEPT !.at = "unloading"]
    OBVIOUS
  <2>f. f \in Frames /\ f.x = Host!Top.x /\ f.at = "unloading"
    BY <2>2, TopFrame DEF Frames, FramePlaces
  <2>3. Host!Put(f)
    BY <2>1, <2>2
  <2>4. PICK n \in Nat \ {0} :
          n = Len(job.stack) /\ \A i \in 1..n : i # n => job.stack[i].at = "dependents"
    BY TopFrame
  <2>5. /\ IsJob(job') /\ job'.kind = job.kind /\ job'.x = job.x /\ job'.todo = job.todo
        /\ \A i \in 1..n : job'.stack[i] = IF i = n THEN f ELSE job.stack[i]
    BY <2>f, <2>3, <2>4, PutJob
  <2>6. 1 \in 1..n /\ Stage' = Stage
    BY <2>5 DEF Stage
  <2>7. TakesDown /\ \A y \in Exts : state'[y] \in {state[y], "deactivated"}
    BY <1>3, <2>1 DEF TakesDown, ManagerInv, RunInv
  <2>8. ASSUME NEW y \in Exts, Dying(y)
        PROVE  Dying(y)'
    <3>1. y = job.x
      BY <2>8 DEF Dying
    <3>2. CASE n = 1
      <4>1. job'.stack[1].at = "unloading" /\ Off(y)'
        BY <1>6, <2>f, <2>4, <2>5, <2>6, <2>8, <3>1, <3>2
      <4> QED BY <2>5, <2>6, <2>8, <4>1 DEF Dying
    <3>3. CASE n # 1
      BY <2>4, <2>5, <2>6, <2>8, <3>3 DEF Dying
    <3> QED BY <3>2, <3>3
  <2> QED BY <2>1, <2>5, <2>7, <2>8, StopMove
<1> QED BY <1>7, <1>8

LEMMA DeactivateStep ==
  ASSUME ManagerInv, Host!Deactivate
  PROVE  ManagerInv'
<1>1. /\ job.stack # <<>> /\ Host!Top.at = "waiting" /\ Host!Over(Host!Top.await)
      /\ UNCHANGED <<present, enabled, stored, starts, activating>>
  BY DEF Host!Deactivate
<1>2. Len(job.stack) = 1 /\ Dying(job.x) => activating[job.x] = Host!NoRun
  <2> SUFFICES ASSUME Len(job.stack) = 1, Dying(job.x), activating[job.x] # Host!NoRun
               PROVE  FALSE
    OBVIOUS
  <2>1. activating[job.x] = Host!Top.await
    BY <1>1, TopFrame DEF Dying
  <2>2. UnderWay(activating[job.x])
    BY <1>1, TopFrame DEF ManagerInv, RunInv
  <2> QED BY <1>1, <2>1, <2>2 DEF Host!Over, UnderWay
<1>3. CASE Host!Finally(Host!Top.x)
  BY <1>1, <1>2, <1>3, FinallyStep
<1>4. CASE /\ Host!Put([Host!Top EXCEPT !.at = "deactivating"])
           /\ UNCHANGED <<lease, box, state, version, grants>>
  <2>1. PICK f : f = [Host!Top EXCEPT !.at = "deactivating"]
    OBVIOUS
  <2>f. f \in Frames /\ f.x = Host!Top.x /\ f.at = "deactivating"
    BY <1>1, <2>1, TopFrame DEF Frames, FramePlaces
  <2>2. Host!Put(f)
    BY <1>4, <2>1
  <2>3. PICK n \in Nat \ {0} :
          n = Len(job.stack) /\ \A i \in 1..n : i # n => job.stack[i].at = "dependents"
    BY <1>1, TopFrame
  <2>4. /\ IsJob(job') /\ job'.kind = job.kind /\ job'.x = job.x /\ job'.todo = job.todo
        /\ \A i \in 1..n : job'.stack[i] = IF i = n THEN f ELSE job.stack[i]
    BY <1>1, <2>f, <2>2, <2>3, PutJob
  <2>5. 1 \in 1..n /\ Stage' = Stage
    BY <2>4 DEF Stage
  <2>6. TakesDown /\ \A y \in Exts : state'[y] \in {state[y], "deactivated"}
    BY <1>1, <1>4 DEF TakesDown, ManagerInv, RunInv
  <2>7. ASSUME NEW y \in Exts, Dying(y)
        PROVE  Dying(y)'
    <3>1. y = job.x
      BY <2>7 DEF Dying
    <3>2. CASE n = 1
      BY <1>1, <1>2, <2>f, <2>3, <2>4, <2>5, <2>7, <3>1, <3>2 DEF Dying
    <3>3. CASE n # 1
      BY <2>3, <2>4, <2>5, <2>7, <3>3 DEF Dying
    <3> QED BY <3>2, <3>3
  <2> QED BY <1>1, <1>4, <2>4, <2>6, <2>7, StopMove
<1> QED BY <1>3, <1>4 DEF Host!Deactivate

LEMMA DeactivatedStep ==
  ASSUME ManagerInv, Host!Deactivated
  PROVE  ManagerInv'
<1>1. /\ job.stack # <<>> /\ Host!Top.at = "deactivating" /\ Host!Finally(Host!Top.x)
      /\ UNCHANGED <<present, enabled, stored, starts, activating>>
  BY DEF Host!Deactivated
<1>2. Len(job.stack) = 1 /\ Dying(job.x) => activating[job.x] = Host!NoRun
  BY <1>1, TopFrame DEF Dying
<1> QED BY <1>1, <1>2, FinallyStep

-----------------------------------------------------------------------------
(* The storage, and the begin of an operation *)

\* A step that changes the descriptor and the package of x.
LEMMA PackageStep ==
  ASSUME ManagerInv, Stage # "stop", NEW x \in Exts,
         UNCHANGED <<starts, activating, lease, box>>,
         DescTypes', state' \in [Exts -> Host!States], JobInv',
         \A y \in Exts \ {x} :
           /\ y \in present' <=> y \in present
           /\ state'[y] = state[y] /\ enabled'[y] = enabled[y] /\ version'[y] = version[y]
           /\ grants'[y] = grants[y] /\ stored'[y] = stored[y]
           /\ ~Replacing(y) /\ ~Installing(y) /\ ~Replacing(y)' /\ ~Installing(y)',
         state'[x] \in {state[x], "validated", "deactivated", "absent"},
         ~enabled'[x] => ~enabled[x] \/ Dying(x)',
         (enabled'[x] => x \in present') /\ IsShown(x)', StageInv'
  PROVE  ManagerInv'
<1>1. \A y \in Exts : Off(y)' = Off(y) /\ ~Dying(y)
  BY DEF Off, Dying
<1>2. SilentInv'
  <2> SUFFICES ASSUME NEW y \in Exts, ~enabled'[y]
               PROVE  Dead(y)' \/ Dying(y)'
    BY DEF SilentInv
  <2>1. ~enabled[y] => Dead(y)
    BY <1>1 DEF ManagerInv, SilentInv
  <2>2. state'[y] = state[y] \/ state'[y] # "activated"
    OBVIOUS
  <2> QED BY <1>1, <2>1, <2>2 DEF Dead
<1>3. ASSUME NEW y \in Exts
      PROVE  ((enabled[y] => y \in present) /\ IsShown(y))'
  <2>1. CASE y = x
    BY <2>1
  <2>2. CASE y # x
    <3>1. (enabled[y] => y \in present) /\ IsShown(y)
      BY DEF ManagerInv, StoreInv
    <3> QED BY <2>2, <3>1 DEF IsShown
  <2> QED BY <2>1, <2>2
<1>4. RunInv' /\ Host!Assumptions'
  BY DEF ManagerInv, RunInv, UnderWay, Host!Assumptions
<1> QED BY <1>2, <1>3, <1>4 DEF ManagerInv, StoreInv

LEMMA StageJob ==
  ASSUME ManagerInv, NEW s, Host!Stage(s)
  PROVE  /\ IsJob(job) /\ job.kind \in Host!Kinds /\ job.x \in Exts
         /\ job.grants \in AllGrants /\ job.restore \in AllGrants
         /\ job.todo # <<>> /\ Stage = s
         /\ s = "install" => job.kind = "install"
         /\ s = "replace" => job.kind = "update"
         /\ s = "remove" => job.kind = "uninstall"
         /\ s = "update" => job.kind \in {"enable", "disable", "uninstall"}
<1>1. job.todo # <<>> /\ Stage = s
  BY DEF Host!Stage, Stage, StageOf
<1>2. IsJob(job)
  BY <1>1, IdleJob DEF ManagerInv, JobInv
<1>3. /\ job.kind \in Host!Kinds /\ job.x \in Exts
      /\ job.grants \in AllGrants /\ job.restore \in AllGrants
      /\ job.todo \in Todos(job.kind)
  BY <1>2 DEF IsJob, Job
<1> QED BY <1>1, <1>2, <1>3, StagesOfKinds DEF Stage

LEMMA ShownFacts ==
  ASSUME ManagerInv, NEW x \in Exts
  PROVE  /\ present \subseteq Exts /\ enabled \in [Exts -> BOOLEAN]
         /\ version \in [Exts -> 0..MaxVersion] /\ grants \in [Exts -> AllGrants]
         /\ stored \in [Exts -> StoredForms] /\ state \in [Exts -> Host!States]
         /\ MaxVersion \in Nat \ {0} /\ version[x] \in Nat
         /\ stored[x] \in StoredForms /\ stored[x].version \in Nat
         /\ (enabled[x] => x \in present) /\ IsShown(x) /\ StageInv
         /\ {} \in AllGrants /\ {"validated", "deactivated", "absent"} \subseteq Host!States
<1>1. DescTypes /\ state \in [Exts -> Host!States] /\ MaxVersion \in Nat \ {0}
  BY DEF ManagerInv, RunInv, Host!Assumptions
<1>2. stored[x] \in StoredForms /\ version[x] \in 0..MaxVersion
  BY <1>1 DEF DescTypes
<1>3. stored[x].version \in 0..MaxVersion
  BY <1>2 DEF StoredForms
<1> QED BY <1>1, <1>2, <1>3 DEF ManagerInv, DescTypes, StoreInv, AllGrants, Host!States

LEMMA StorageDoneStep ==
  ASSUME ManagerInv, Host!StorageDone
  PROVE  ManagerInv'
<1>1. /\ stored[job.x] # Host!NoStore \/ Host!Stage("install")
      /\ Host!Next_(job) /\ UNCHANGED <<starts, activating, lease, box>>
  BY DEF Host!StorageDone
<1>2. ASSUME NEW s \in {"install", "update", "replace", "remove"}, Host!Stage(s)
      PROVE  /\ job.x \in Exts /\ Stage = s /\ Stage # "stop"
             /\ JobInv' /\ job'.kind = job.kind /\ job'.x = job.x
             /\ Stage' = After(job.kind, s)
             /\ Stage' = "stop" => job'.stack[1].at = "dependents"
  <2>1. IsJob(job) /\ job.todo # <<>> /\ Stage = s /\ job.x \in Exts
    BY <1>2, StageJob
  <2>2. /\ IsJob(job') /\ job'.kind = job.kind /\ job'.x = job.x
        /\ Stage' = After(job.kind, Stage)
        /\ Stage' = "stop" => job'.stack[1].at = "dependents"
    BY <1>1, <2>1, NextJob
  <2> QED BY <2>1, <2>2 DEF JobInv
<1>3. ASSUME Host!Stage("install"), UNCHANGED Host!desc,
             stored' = [stored EXCEPT ![job.x] =
                          [enabled |-> FALSE, version |-> version[job.x], grants |-> {}]]
      PROVE  ManagerInv'
  <2>1. PICK x \in Exts : x = job.x /\ job'.x = x /\ job.kind = "install" /\ job'.kind = "install"
    BY <1>2, <1>3, StageJob
  <2>2. Stage = "install" /\ Stage' = "end" /\ JobInv'
    BY <1>2, <1>3, <2>1 DEF After
  <2>3. version[x] = 1 /\ enabled[x] = FALSE /\ grants[x] = {} /\ x \in present
    BY <2>1, <2>2, ShownFacts DEF StageInv
  <2>4. PICK p : p = [enabled |-> FALSE, version |-> 1, grants |-> {}]
    OBVIOUS
  <2>5. p \in StoredForms /\ p.enabled = FALSE /\ p.version = 1 /\ p.grants = {} /\ p # Host!NoStore
    BY <2>4, ShownFacts DEF StoredForms, Host!NoStore
  <2>6. stored' = [stored EXCEPT ![x] = p]
    BY <1>3, <2>1, <2>3, <2>4
  <2>7. stored' \in [Exts -> StoredForms] /\ stored'[x] = p /\ \A y \in Exts \ {x} : stored'[y] = stored[y]
    BY <2>5, <2>6, ShownFacts
  <2>8. DescTypes' /\ UNCHANGED <<present, state, enabled, version, grants>>
    BY <1>3, <2>7, ShownFacts DEF DescTypes, Host!desc
  <2>9. IsShown(x)'
    <3>1. ~Replacing(x)' /\ stored'[x] = p /\ p # Host!NoStore
      BY <2>1, <2>5, <2>7 DEF Replacing
    <3>2. x \in present' /\ enabled'[x] = FALSE /\ grants'[x] = {} /\ version'[x] = 1
      BY <2>3, <2>8
    <3>3. p.version >= 1 /\ p.version = version'[x]
      BY <2>5, <3>2
    <3>4. p.enabled = enabled'[x] /\ p.grants = grants'[x]
      BY <2>5, <3>2
    <3> QED BY <3>1, <3>2, <3>3, <3>4 DEF IsShown
  <2>10. StageInv'
    BY <2>1, <2>2, <2>3, <2>8 DEF StageInv
  <2>11. \A y \in Exts \ {x} : ~Replacing(y) /\ ~Installing(y) /\ ~Replacing(y)' /\ ~Installing(y)'
    BY <2>1 DEF Replacing, Installing
  <2> QED BY <1>1, <2>2, <2>3, <2>7, <2>8, <2>9, <2>10, <2>11, PackageStep, ShownFacts
<1>4. ASSUME Host!Stage("update"), job.kind = "enable",
             stored' = [stored EXCEPT ![job.x].enabled = TRUE, ![job.x].grants = job.grants],
             enabled' = [enabled EXCEPT ![job.x] = TRUE],
             grants' = [grants EXCEPT ![job.x] = job.grants],
             state' = [state EXCEPT ![job.x] = "validated"], UNCHANGED <<present, version>>
      PROVE  ManagerInv'
  <2>1. PICK x \in Exts : x = job.x /\ job'.x = x /\ job'.kind = "enable"
    BY <1>2, <1>4
  <2>2. Stage = "update" /\ Stage' = "activate" /\ JobInv'
    BY <1>2, <1>4 DEF After
  <2>3. stored[x] # Host!NoStore
    BY <1>1, <1>4, <2>1, <2>2, StageJob
  <2>4. x \in present /\ stored[x].version >= 1 /\ stored[x].version = version[x]
    BY <1>4, <2>3, ShownFacts DEF IsShown, Replacing
  <2>5. PICK g \in AllGrants : g = job.grants
    BY <1>4, StageJob
  <2>6. PICK p : p = [stored[x] EXCEPT !.enabled = TRUE, !.grants = g]
    OBVIOUS
  <2>7. /\ p \in StoredForms /\ p.enabled = TRUE /\ p.version = stored[x].version /\ p.grants = g
    BY <2>6, ShownFacts DEF StoredForms
  <2>8. p # Host!NoStore
    BY <2>4, <2>7, ShownFacts DEF Host!NoStore
  <2>9. /\ stored' = [stored EXCEPT ![x] = p] /\ enabled' = [enabled EXCEPT ![x] = TRUE]
        /\ grants' = [grants EXCEPT ![x] = g] /\ state' = [state EXCEPT ![x] = "validated"]
    BY <1>4, <2>1, <2>5, <2>6, ShownFacts
  <2>10. /\ stored' \in [Exts -> StoredForms] /\ stored'[x] = p
         /\ enabled' \in [Exts -> BOOLEAN] /\ enabled'[x] = TRUE
         /\ grants' \in [Exts -> AllGrants] /\ grants'[x] = g
         /\ state' \in [Exts -> Host!States] /\ state'[x] = "validated"
         /\ \A y \in Exts \ {x} : /\ stored'[y] = stored[y] /\ enabled'[y] = enabled[y]
                                  /\ grants'[y] = grants[y] /\ state'[y] = state[y]
    BY <2>7, <2>9, ShownFacts
  <2>11. DescTypes'
    BY <1>4, <2>10, ShownFacts DEF DescTypes
  <2>12. IsShown(x)'
    <3>1. ~Replacing(x)' /\ stored'[x] = p /\ x \in present' /\ version'[x] = version[x]
      BY <1>4, <2>1, <2>4, <2>10 DEF Replacing
    <3>2. p.version >= 1 /\ p.version = version'[x]
      BY <2>4, <2>7, <3>1
    <3>3. p.enabled = enabled'[x] /\ p.grants = grants'[x]
      BY <2>7, <2>10
    <3> QED BY <2>8, <3>1, <3>2, <3>3 DEF IsShown
  <2>13. StageInv'
    BY <2>1 DEF StageInv
  <2>14. \A y \in Exts \ {x} : ~Replacing(y) /\ ~Installing(y) /\ ~Replacing(y)' /\ ~Installing(y)'
    BY <1>4, <2>1 DEF Replacing, Installing
  <2> QED BY <1>1, <1>4, <2>2, <2>4, <2>10, <2>11, <2>12, <2>13, <2>14, PackageStep
<1>5. ASSUME Host!Stage("update"), job.kind # "enable",
             stored' = [stored EXCEPT ![job.x].enabled = FALSE, ![job.x].grants = grants[job.x]],
             enabled' = [enabled EXCEPT ![job.x] = FALSE],
             UNCHANGED <<present, state, version, grants>>
      PROVE  ManagerInv'
  <2>1. PICK x \in Exts : x = job.x /\ job'.x = x
    BY <1>2, <1>5
  <2>2. job.kind \in {"disable", "uninstall"} /\ job'.kind = job.kind
    BY <1>2, <1>5, StageJob
  <2>3. Stage = "update" /\ Stage' = "stop" /\ job'.stack[1].at = "dependents" /\ JobInv'
    BY <1>2, <1>5, <2>2 DEF After
  <2>4. stored[x] # Host!NoStore
    BY <1>1, <1>5, <2>1, <2>3, StageJob
  <2>5. /\ x \in present /\ stored[x].version >= 1 /\ stored[x].version = version[x]
        /\ stored[x].grants = grants[x]
    BY <2>2, <2>4, ShownFacts DEF IsShown, Replacing
  <2>6. PICK p : p = [stored[x] EXCEPT !.enabled = FALSE, !.grants = grants[x]]
    OBVIOUS
  <2>7. /\ p \in StoredForms /\ p.enabled = FALSE /\ p.version = stored[x].version
        /\ p.grants = stored[x].grants
    BY <2>5, <2>6, ShownFacts DEF StoredForms
  <2>8. p # Host!NoStore
    BY <2>5, <2>7, ShownFacts DEF Host!NoStore
  <2>9. stored' = [stored EXCEPT ![x] = p] /\ enabled' = [enabled EXCEPT ![x] = FALSE]
    BY <1>5, <2>1, <2>6, ShownFacts
  <2>10. /\ stored' \in [Exts -> StoredForms] /\ stored'[x] = p
         /\ enabled' \in [Exts -> BOOLEAN] /\ enabled'[x] = FALSE
         /\ \A y \in Exts \ {x} : stored'[y] = stored[y] /\ enabled'[y] = enabled[y]
    BY <2>7, <2>9, ShownFacts
  <2>11. DescTypes'
    BY <1>5, <2>10, ShownFacts DEF DescTypes
  <2>12. IsShown(x)'
    BY <1>5, <2>2, <2>5, <2>7, <2>8, <2>10 DEF IsShown, Replacing
  <2>13. StageInv'
    BY <2>1, <2>2, <2>3, <2>8, <2>10 DEF StageInv
  <2>14. Dying(x)'
    BY <2>1, <2>2, <2>3 DEF Dying
  <2>15. \A y \in Exts \ {x} : ~Replacing(y) /\ ~Installing(y) /\ ~Replacing(y)' /\ ~Installing(y)'
    BY <2>1 DEF Replacing, Installing
  <2>16. state' \in [Exts -> Host!States]
    BY <1>5, <2>1, ShownFacts
  <2> QED BY <1>1, <1>5, <2>3, <2>10, <2>11, <2>12, <2>13, <2>14, <2>15, <2>16, PackageStep
<1>6. ASSUME Host!Stage("replace"), UNCHANGED Host!desc,
             stored' = [stored EXCEPT ![job.x].version = version[job.x],
                                      ![job.x].grants = @ \cap job.grants]
      PROVE  ManagerInv'
  <2>1. PICK x \in Exts : x = job.x /\ job'.x = x /\ job.kind = "update" /\ job'.kind = "update"
    BY <1>2, <1>6, StageJob
  <2>2. Stage = "replace" /\ Stage' = "activate" /\ JobInv'
    BY <1>2, <1>6, <2>1 DEF After
  <2>3. stored[x] # Host!NoStore
    BY <1>1, <1>6, <2>1, <2>2, StageJob
  <2>4. /\ x \in present /\ stored[x].enabled = enabled[x] /\ version[x] >= 1
        /\ stored[x].grants = job.restore /\ grants[x] = job.restore \cap job.grants
    BY <2>1, <2>2, <2>3, ShownFacts DEF IsShown, Replacing, StageInv
  <2>5. PICK p : p = [stored[x] EXCEPT !.version = version[x], !.grants = @ \cap job.grants]
    OBVIOUS
  <2>6. /\ p \in StoredForms /\ p.version = version[x]
        /\ p.enabled = stored[x].enabled /\ p.grants = grants[x]
    BY <2>4, <2>5, ShownFacts DEF StoredForms
  <2>7. p # Host!NoStore
    BY <2>4, <2>6, ShownFacts DEF Host!NoStore
  <2>8. stored' = [stored EXCEPT ![x] = p]
    BY <1>6, <2>1, <2>5, ShownFacts
  <2>9. stored' \in [Exts -> StoredForms] /\ stored'[x] = p /\ \A y \in Exts \ {x} : stored'[y] = stored[y]
    BY <2>6, <2>8, ShownFacts
  <2>10. DescTypes' /\ UNCHANGED <<present, state, enabled, version, grants>>
    BY <1>6, <2>1, <2>9, ShownFacts DEF DescTypes, Host!desc
  <2>11. IsShown(x)'
    BY <2>2, <2>4, <2>6, <2>7, <2>9, <2>10, ShownFacts DEF IsShown, Replacing
  <2>12. StageInv'
    BY <2>1, <2>2 DEF StageInv
  <2>13. \A y \in Exts \ {x} : ~Replacing(y) /\ ~Installing(y) /\ ~Replacing(y)' /\ ~Installing(y)'
    BY <2>1 DEF Replacing, Installing
  <2>14. state' \in [Exts -> Host!States]
    BY <2>1, <2>10, ShownFacts
  <2> QED BY <1>1, <2>2, <2>4, <2>9, <2>10, <2>11, <2>12, <2>13, <2>14, PackageStep
<1>7. ASSUME Host!Stage("remove"), stored' = [stored EXCEPT ![job.x] = Host!NoStore],
             present' = present \ {job.x}, state' = [state EXCEPT ![job.x] = "absent"],
             version' = [version EXCEPT ![job.x] = 0], grants' = [grants EXCEPT ![job.x] = {}],
             UNCHANGED enabled
      PROVE  ManagerInv'
  <2>1. PICK x \in Exts :
          x = job.x /\ job'.x = x /\ job.kind = "uninstall" /\ job'.kind = "uninstall"
    BY <1>2, <1>7, StageJob
  <2>2. Stage = "remove" /\ Stage' = "end" /\ JobInv'
    BY <1>2, <1>7, <2>1 DEF After
  <2>3. ~enabled[x]
    BY <2>1, <2>2, ShownFacts DEF StageInv
  <2>4. Host!NoStore \in StoredForms /\ 0 \in 0..MaxVersion
    BY ShownFacts, <2>1 DEF Host!NoStore, StoredForms
  <2>5. /\ stored' = [stored EXCEPT ![x] = Host!NoStore] /\ present' = present \ {x}
        /\ state' = [state EXCEPT ![x] = "absent"]
        /\ version' = [version EXCEPT ![x] = 0] /\ grants' = [grants EXCEPT ![x] = {}]
        /\ enabled' = enabled
    BY <1>7, <2>1
  <2>6. /\ stored' \in [Exts -> StoredForms] /\ stored'[x] = Host!NoStore /\ x \notin present'
        /\ version' \in [Exts -> 0..MaxVersion] /\ grants' \in [Exts -> AllGrants]
        /\ state' \in [Exts -> Host!States] /\ state'[x] = "absent" /\ present' \subseteq Exts
        /\ \A y \in Exts \ {x} : /\ y \in present' <=> y \in present
                                 /\ stored'[y] = stored[y] /\ version'[y] = version[y]
                                 /\ grants'[y] = grants[y] /\ state'[y] = state[y]
    BY <2>1, <2>4, <2>5, ShownFacts
  <2>7. DescTypes'
    BY <2>1, <2>5, <2>6, ShownFacts DEF DescTypes
  <2>8. IsShown(x)'
    BY <2>6 DEF IsShown
  <2>9. StageInv'
    BY <2>1, <2>2, <2>3, <2>5 DEF StageInv
  <2>10. \A y \in Exts \ {x} : ~Replacing(y) /\ ~Installing(y) /\ ~Replacing(y)' /\ ~Installing(y)'
    BY <2>1 DEF Replacing, Installing
  <2> QED BY <1>1, <2>2, <2>3, <2>5, <2>6, <2>7, <2>8, <2>9, <2>10, PackageStep
<1> QED BY <1>3, <1>4, <1>5, <1>6, <1>7 DEF Host!StorageDone

LEMMA StorageFailedStep ==
  ASSUME ManagerInv, Host!StorageFailed
  PROVE  ManagerInv'
<1>1. /\ job' = Host!Idle
      /\ UNCHANGED <<enabled, starts, activating, lease, box>>
  BY DEF Host!StorageFailed
<1>2. Stage' = "end" /\ JobInv' /\ StageInv'
  BY <1>1, IdleJob, Tails DEF Stage, JobInv, StageInv
<1>3. \A y \in Exts : ~Replacing(y)' /\ ~Installing(y)'
  BY <1>1, IdleJob DEF Replacing, Installing
<1>4. ASSUME NEW s \in {"install", "update", "replace", "remove"}, Host!Stage(s)
      PROVE  /\ Stage = s /\ Stage # "stop"
             /\ \A y \in Exts : y # job.x => ~Replacing(y) /\ ~Installing(y)
  BY <1>4, StageJob DEF Replacing, Installing
<1>5. ASSUME Host!Stage("install"), present' = present \ {job.x},
             state' = [state EXCEPT ![job.x] = "absent"],
             version' = [version EXCEPT ![job.x] = 0], UNCHANGED <<grants, stored>>
      PROVE  ManagerInv'
  <2>1. PICK x \in Exts : x = job.x /\ job.kind = "install"
    BY <1>5, StageJob
  <2>2. stored[x] = Host!NoStore /\ ~enabled[x]
    BY <1>4, <1>5, <2>1, ShownFacts DEF StageInv
  <2>3. /\ present' = present \ {x} /\ state' = [state EXCEPT ![x] = "absent"]
        /\ version' = [version EXCEPT ![x] = 0]
    BY <1>5, <2>1
  <2>4. 0 \in 0..MaxVersion
    BY <2>1, ShownFacts
  <2>5. /\ x \notin present' /\ present' \subseteq Exts
        /\ version' \in [Exts -> 0..MaxVersion]
        /\ state' \in [Exts -> Host!States] /\ state'[x] = "absent"
        /\ \A y \in Exts \ {x} : /\ y \in present' <=> y \in present
                                 /\ version'[y] = version[y] /\ state'[y] = state[y]
    BY <2>1, <2>3, <2>4, ShownFacts
  <2>6. DescTypes'
    BY <1>1, <1>5, <2>1, <2>5, ShownFacts DEF DescTypes
  <2>7. IsShown(x)' /\ ~enabled'[x]
    BY <1>1, <1>5, <2>2, <2>5 DEF IsShown
  <2>8. stored' = stored
    BY <1>5
  <2> QED BY <1>1, <1>2, <1>3, <1>4, <1>5, <2>1, <2>2, <2>5, <2>6, <2>7, <2>8, PackageStep
<1>6. ASSUME Host!Stage("replace"), Host!TakenBack(job.x), UNCHANGED <<present, stored>>
      PROVE  ManagerInv'
  <2>1. PICK x \in Exts : x = job.x /\ job.kind = "update"
    BY <1>6, StageJob
  <2>2. Stage = "replace" /\ Replacing(x) /\ version[x] >= 1
    BY <1>4, <1>6, <2>1, ShownFacts DEF StageInv, Replacing
  <2>3. version[x] - 1 \in 0..MaxVersion /\ version \in [Exts -> 0..MaxVersion]
    BY <2>1, <2>2, ShownFacts
  <2>4. PICK g \in AllGrants : g = job.restore
    BY <1>6, StageJob
  <2>5. /\ version' \in [Exts -> 0..MaxVersion] /\ version'[x] = version[x] - 1
        /\ state' \in [Exts -> Host!States] /\ state'[x] = "deactivated"
        /\ grants' \in [Exts -> AllGrants] /\ grants'[x] = g
        /\ \A y \in Exts \ {x} : /\ version'[y] = version[y] /\ state'[y] = state[y]
                                 /\ grants'[y] = grants[y]
    BY <1>6, <2>1, <2>3, <2>4, ShownFacts DEF Host!TakenBack
  <2>6. DescTypes'
    BY <1>1, <1>6, <2>1, <2>5, ShownFacts DEF DescTypes
  <2>7. /\ IsShown(x) /\ (enabled[x] => x \in present)
        /\ stored' = stored /\ present' = present /\ enabled' = enabled
    BY <1>1, <1>6, <2>1, ShownFacts
  <2>8. ((enabled[x] => x \in present) /\ IsShown(x))'
    BY <1>3, <2>2, <2>4, <2>5, <2>7 DEF IsShown
  <2> QED BY <1>1, <1>2, <1>3, <1>4, <1>6, <2>1, <2>5, <2>6, <2>7, <2>8, PackageStep
<1>7. ASSUME Host!Stage("update"), UNCHANGED <<present, state, version, grants, stored>>
      PROVE  ManagerInv'
  <2>1. PICK x \in Exts : x = job.x
    BY <1>7, StageJob
  <2>2. Stage = "update" /\ ~Replacing(x) /\ ~Installing(x)
    BY <1>4, <1>7 DEF Replacing, Installing
  <2>3. DescTypes' /\ state' \in [Exts -> Host!States]
    BY <1>1, <1>7, <2>1, ShownFacts DEF DescTypes
  <2>4. ((enabled[x] => x \in present) /\ IsShown(x))'
    BY <1>1, <1>3, <1>7, <2>1, <2>2, ShownFacts DEF IsShown
  <2> QED BY <1>1, <1>2, <1>3, <1>4, <1>7, <2>1, <2>3, <2>4, PackageStep
<1>8. ASSUME Host!Stage("remove"), stored' \in {stored, [stored EXCEPT ![job.x] = Host!NoStore]},
             UNCHANGED <<present, state, version, grants>>
      PROVE  ManagerInv'
  <2>1. PICK x \in Exts : x = job.x /\ job.kind = "uninstall"
    BY <1>8, StageJob
  <2>2. Stage = "remove" /\ ~Replacing(x) /\ ~enabled[x] /\ state[x] = "deactivated"
    BY <1>4, <1>8, <2>1, ShownFacts DEF StageInv, Replacing
  <2>3. Host!NoStore \in StoredForms
    BY <2>1, ShownFacts DEF Host!NoStore, StoredForms
  <2>4. /\ stored' \in [Exts -> StoredForms] /\ stored'[x] \in {stored[x], Host!NoStore}
        /\ \A y \in Exts \ {x} : stored'[y] = stored[y]
    BY <1>8, <2>1, <2>3, ShownFacts
  <2>5. DescTypes' /\ state' \in [Exts -> Host!States]
    BY <1>1, <1>8, <2>1, <2>4, ShownFacts DEF DescTypes
  <2>6. ((enabled[x] => x \in present) /\ IsShown(x))'
    BY <1>1, <1>3, <1>8, <2>1, <2>2, <2>4, ShownFacts DEF IsShown
  <2> QED BY <1>1, <1>2, <1>3, <1>4, <1>8, <2>1, <2>4, <2>5, <2>6, PackageStep
<1> QED BY <1>5, <1>6, <1>7, <1>8 DEF Host!StorageFailed

LEMMA ProgramStages ==
  /\ StageOf(Host!Program("install")) = "install"
  /\ \A kind \in {"enable", "update", "reload"} : StageOf(Host!Program(kind)) = "stop"
  /\ \A kind \in {"disable", "uninstall"} : StageOf(Host!Program(kind)) = "update"
  BY Tails DEF Host!Program

LEMMA OperationStep ==
  ASSUME ManagerInv, NEW kind \in Host!Kinds, NEW x \in Exts, NEW g \in AllGrants,
         Host!Begin(kind, x, g)
  PROVE  ManagerInv'
<1>1. /\ job = Host!Idle /\ (x \in present) = (kind # "install")
      /\ Host!To([Host!Idle EXCEPT !.kind = kind, !.x = x, !.todo = Host!Program(kind), !.grants = g])
      /\ UNCHANGED <<stored, starts, activating, lease, box>>
  BY DEF Host!Begin
<1>2. Stage = "end" /\ \A y \in Exts : ~Replacing(y) /\ ~Installing(y)
  BY <1>1, IdleJob, Tails DEF Stage, Replacing, Installing
<1>3. PICK o : o = [Host!Idle EXCEPT !.kind = kind, !.x = x, !.todo = Host!Program(kind), !.grants = g]
  OBVIOUS
<1>4. /\ o \in Job /\ o.kind = kind /\ o.x = x /\ o.todo = Host!Program(kind) /\ o.stack = <<>>
  <2>1. Host!Program(kind) \in Seq(Stages) /\ <<>> \in Seq(Frames)
    BY Programs
  <2>2. {} \in AllGrants
    BY DEF AllGrants
  <2> QED BY <1>3, <2>1, <2>2 DEF Job, Host!Idle, AnyRun
<1>5. /\ IsJob(job') /\ job'.kind = kind /\ job'.x = x /\ Stage' = StageOf(Host!Program(kind))
  <2>1. Host!To(o) /\ o.todo \in Todos(o.kind)
    BY <1>1, <1>3, <1>4, Programs
  <2>2. IsJob(job') /\ job'.kind = o.kind /\ job'.x = o.x /\ job'.todo = o.todo
    BY <1>4, <2>1, ToStage
  <2> QED BY <1>4, <2>2 DEF Stage
<1>6. JobInv' /\ \A y \in Exts \ {x} : ~Replacing(y)' /\ ~Installing(y)'
  BY <1>5 DEF JobInv, Replacing, Installing
<1>7. \/ kind = "install" /\ Stage' = "install"
      \/ kind \in {"enable", "update", "reload"} /\ Stage' = "stop"
      \/ kind \in {"disable", "uninstall"} /\ Stage' = "update"
  BY <1>5, ProgramStages DEF Host!Kinds
<1>8. ~Replacing(x)' /\ (Installing(x)' <=> kind = "install")
  BY <1>5, <1>7 DEF Replacing, Installing
<1>9. ASSUME kind = "install", present' = present \cup {x},
             state' = [state EXCEPT ![x] = "validated"], version' = [version EXCEPT ![x] = 1],
             enabled' = [enabled EXCEPT ![x] = FALSE], grants' = [grants EXCEPT ![x] = {}]
      PROVE  ManagerInv'
  <2>1. ~enabled[x] /\ stored[x] = Host!NoStore
    BY <1>1, <1>9, ShownFacts DEF IsShown
  <2>2. 1 \in 0..MaxVersion
    BY ShownFacts
  <2>3. /\ version' \in [Exts -> 0..MaxVersion] /\ version'[x] = 1
        /\ enabled' \in [Exts -> BOOLEAN] /\ enabled'[x] = FALSE
        /\ grants' \in [Exts -> AllGrants] /\ grants'[x] = {}
        /\ state' \in [Exts -> Host!States] /\ state'[x] = "validated"
        /\ present' \subseteq Exts /\ x \in present'
        /\ \A y \in Exts \ {x} : /\ y \in present' <=> y \in present
                                 /\ version'[y] = version[y] /\ enabled'[y] = enabled[y]
                                 /\ grants'[y] = grants[y] /\ state'[y] = state[y]
    BY <1>9, <2>2, ShownFacts
  <2>4. DescTypes'
    BY <1>1, <2>3, ShownFacts DEF DescTypes
  <2>5. IsShown(x)'
    BY <1>1, <1>8, <1>9, <2>1, <2>3 DEF IsShown
  <2>6. StageInv'
    BY <1>1, <1>5, <1>7, <1>9, <2>1, <2>3 DEF StageInv
  <2>7. stored' = stored
    BY <1>1
  <2> QED BY <1>1, <1>2, <1>6, <2>1, <2>3, <2>4, <2>5, <2>6, <2>7, PackageStep
<1>10. ASSUME kind # "install", kind = "update" => version[x] < MaxVersion, UNCHANGED Host!desc
       PROVE  ManagerInv'
  <2>1. UNCHANGED <<present, state, enabled, version, grants>>
    BY <1>10 DEF Host!desc
  <2>2. DescTypes' /\ state' \in [Exts -> Host!States]
    BY <1>1, <2>1, ShownFacts DEF DescTypes
  <2>3. IsShown(x) /\ (enabled[x] => x \in present)
    BY ShownFacts
  <2>4. ((enabled[x] => x \in present) /\ IsShown(x))'
    BY <1>1, <1>2, <1>8, <2>1, <2>3 DEF IsShown
  <2>5. StageInv'
    BY <1>5, <1>7, <1>10, <2>1 DEF StageInv
  <2> QED BY <1>1, <1>2, <1>6, <2>1, <2>2, <2>4, <2>5, PackageStep
<1> QED BY <1>9, <1>10 DEF Host!Begin

LEMMA InitManager == Host!Assumptions /\ Host!Init => ManagerInv
<1> SUFFICES ASSUME Host!Assumptions, Host!Init
             PROVE  ManagerInv
  OBVIOUS
<1>1. /\ present \subseteq Exts /\ enabled \in [Exts -> BOOLEAN]
      /\ \A x \in Exts : enabled[x] => x \in present
      /\ state = [x \in Exts |-> IF x \in present THEN "validated" ELSE "absent"]
      /\ version = [x \in Exts |-> IF x \in present THEN 1 ELSE 0]
      /\ grants = [x \in Exts |-> {}]
      /\ stored = [x \in Exts |-> [enabled |-> enabled[x], version |-> version[x], grants |-> {}]]
      /\ starts = [r \in Host!Runs |-> Host!NoStart]
      /\ activating = [x \in Exts |-> Host!NoRun] /\ lease = activating /\ box = activating
      /\ job = Host!Idle
  BY DEF Host!Init
<1>2. MaxVersion \in Nat \ {0}
  BY DEF Host!Assumptions
<1>3. \A x \in Exts : version[x] \in 0..MaxVersion
  BY <1>1, <1>2
<1>4. ASSUME NEW x \in Exts
      PROVE  /\ stored[x] \in StoredForms /\ stored[x].enabled = enabled[x]
             /\ stored[x].version = version[x] /\ stored[x].grants = {}
  BY <1>1, <1>3 DEF StoredForms, AllGrants
<1>5. DescTypes
  BY <1>1, <1>3, <1>4 DEF DescTypes, AllGrants
<1>6. RunInv
  BY <1>1, StartTypes DEF RunInv, AnyRun, UnderWay, Host!States
<1>7. JobInv /\ Stage = "end" /\ StageInv
  BY <1>1, IdleJob, Tails DEF JobInv, Stage, StageInv
<1>8. SilentInv
  BY <1>1 DEF SilentInv, Dead, Off
<1>9. ASSUME NEW x \in Exts
      PROVE  IsShown(x)
  <2>1. ~Replacing(x)
    BY <1>7 DEF Replacing
  <2>2. CASE x \in present
    <3>1. stored[x].version = 1 /\ version[x] = 1 /\ grants[x] = {}
      BY <1>1, <1>4, <2>2
    <3>2. stored[x] # Host!NoStore
      BY <3>1 DEF Host!NoStore
    <3> QED BY <1>4, <2>1, <2>2, <3>1, <3>2 DEF IsShown
  <2>3. CASE x \notin present
    <3>1. enabled[x] = FALSE /\ version[x] = 0
      BY <1>1, <2>3
    <3>2. stored[x] = Host!NoStore
      BY <1>1, <3>1 DEF Host!NoStore
    <3> QED BY <2>3, <3>2 DEF IsShown
  <2> QED BY <2>2, <2>3
<1> QED BY <1>1, <1>5, <1>6, <1>7, <1>8, <1>9 DEF ManagerInv, StoreInv

LEMMA StutterStep ==
  ASSUME ManagerInv, UNCHANGED Host!vars
  PROVE  ManagerInv'
<1>1. /\ UNCHANGED <<present, enabled, version, grants, stored>>
      /\ UNCHANGED <<state, starts, activating, lease, box>> /\ UNCHANGED job
  BY DEF Host!vars, Host!desc
<1>2. JobInv' /\ Finishes
  BY <1>1, Untouched
<1>3. RunInv' /\ \A y \in Exts : Calm(y)
  BY <1>1 DEF ManagerInv, RunInv, UnderWay, Calm, Off
<1> QED BY <1>1, <1>2, <1>3, SessionStep

LEMMA ManagerStep ==
  ASSUME ManagerInv, [Host!Next]_(Host!vars)
  PROVE  ManagerInv'
<1>1. CASE Host!Continuations
  BY <1>1, ContinueStep, StopDependentsStep, DeactivateStep, ActivateAfterStep, OverStep
     DEF Host!Continuations
<1>2. CASE Host!Answers
  BY <1>2, StorageDoneStep, StorageFailedStep, DeactivatedStep, StopUnloadedStep DEF Host!Answers
<1>3. CASE Host!Triggers
  BY <1>3, CallerStep, CrashStep DEF Host!Triggers
<1>4. CASE Host!Operations
  <2>1. PICK kind \in Host!Kinds, x \in Exts :
          \E g \in IF kind \in {"enable", "update"} THEN Grants ELSE {{}} : Host!Begin(kind, x, g)
    BY <1>4 DEF Host!Operations
  <2>2. PICK g \in AllGrants : Host!Begin(kind, x, g)
    BY <2>1 DEF AllGrants
  <2> QED BY <2>2, OperationStep
<1>5. ASSUME NEW r \in Host!Runs, Host!Unloaded(r) \/ Host!Answered(r) \/ Host!TimedOut(r)
      PROVE  ManagerInv'
  BY <1>5, UnloadedStep, AnsweredStep, RefusedStep
<1>6. CASE UNCHANGED Host!vars
  BY <1>6, StutterStep
<1> QED BY <1>1, <1>2, <1>3, <1>4, <1>5, <1>6 DEF Host!Next

\* The invariant of the manager, of any extensions (manager.ts).
THEOREM ManagerInvariance == Host!Assumptions /\ Host!Spec => []ManagerInv
<1>1. CASE Host!Assumptions
  <2>1. Host!Init => ManagerInv
    BY <1>1, InitManager
  <2>2. ManagerInv /\ [Host!Next]_(Host!vars) => ManagerInv'
    BY ManagerStep
  <2> QED BY <2>1, <2>2, PTL DEF Host!Spec
<1> QED BY <1>1

\* The descriptors, the runs and the operation of the manager have their types,
\* and an activation that is remembered is one under way.
THEOREM ManagerTypeCorrect == Host!Assumptions /\ Host!Spec => []Host!TypeOK
<1>1. ManagerInv => Host!TypeOK
  <2> SUFFICES ASSUME ManagerInv
               PROVE  Host!TypeOK
    OBVIOUS
  <2>1. DescTypes /\ RunInv
    BY DEF ManagerInv
  <2>2. \A x \in Exts : stored[x].version \in 0..MaxVersion
    BY <2>1 DEF DescTypes, StoredForms
  <2>3. \A r \in Host!Runs : starts[r].at \in Host!Places /\ starts[r].left \subseteq Exts
    BY <2>1 DEF RunInv, Starts
  <2>4. ASSUME NEW x \in Exts
        PROVE  /\ {activating[x], lease[x], box[x]}
                     \subseteq {Host!NoRun} \cup {r \in Host!Runs : r[1] = x}
               /\ activating[x] # Host!NoRun => starts[activating[x]].at \notin {"done", "thrown"}
    BY <2>1 DEF RunInv, AnyRun, UnderWay
  <2>5. job.kind \in Host!Kinds \cup {"none"}
    BY IdleJob DEF ManagerInv, JobInv, IsJob, Job
  <2>6. present \subseteq Exts /\ state \in [Exts -> Host!States] /\ enabled \in [Exts -> BOOLEAN]
    BY <2>1 DEF DescTypes, RunInv
  <2>7. version \in [Exts -> 0..MaxVersion] /\ grants \in [Exts -> SUBSET UNION Grants]
    BY <2>1 DEF DescTypes, AllGrants
  <2> QED BY <2>2, <2>3, <2>4, <2>5, <2>6, <2>7 DEF Host!TypeOK
<1> QED BY <1>1, ManagerInvariance, PTL

\* Whatever was being activated when an extension is disabled or removed, nothing
\* of it runs once the operation is over (disableExtension, uninstallExtension).
THEOREM DisabledAreSilent == Host!Assumptions /\ Host!Spec => []DisabledIsSilent
<1>1. ManagerInv => DisabledIsSilent
  <2> SUFFICES ASSUME ManagerInv, NEW x \in Exts, ~enabled[x], job = Host!Idle \/ job.x # x
               PROVE  lease[x] = Host!NoRun /\ box[x] = Host!NoRun /\ state[x] # "activated"
    BY DEF DisabledIsSilent, Host!DisabledIsSilent
  <2>1. ~Dying(x)
    BY IdleJob DEF Dying
  <2> QED BY <2>1 DEF ManagerInv, SilentInv, Dead, Off
<1> QED BY <1>1, ManagerInvariance, PTL

\* Between operations the storage has exactly the version, the grants and the
\* switch of every extension that the manager shows, whichever of its steps failed
\* (installExtension to updateExtension).
THEOREM ShownIsStored == Host!Assumptions /\ Host!Spec => []StoredIsShown
<1>1. ManagerInv => StoredIsShown
  <2> SUFFICES ASSUME ManagerInv, job = Host!Idle, NEW x \in Exts
               PROVE  IF stored[x] = Host!NoStore
                      THEN x \in present => ~enabled[x] /\ state[x] = "deactivated"
                      ELSE /\ x \in present
                           /\ stored[x] = [enabled |-> enabled[x], version |-> version[x],
                                           grants |-> grants[x]]
    BY DEF StoredIsShown, Host!StoredIsShown
  <2>1. ~Replacing(x) /\ ~Installing(x)
    BY IdleJob DEF Replacing, Installing
  <2>2. stored[x] = [enabled |-> stored[x].enabled, version |-> stored[x].version,
                     grants |-> stored[x].grants]
    BY ShownFacts DEF StoredForms
  <2> QED BY <2>1, <2>2, ShownFacts DEF IsShown
<1> QED BY <1>1, ManagerInvariance, PTL

-----------------------------------------------------------------------------
(* Sessions.  A stop takes a session down when nothing of its extension is  *)
(* being activated any more, and until it has done so nothing may begin.    *)

\* What a run that is still at its dependencies has been told.
Knows(r) ==
  starts[r].at = "deps" =>
    /\ starts[r].left \subseteq Host!Dependencies(r[1])
    /\ starts[r].await # Host!NoRun => starts[r].await[1] \in Host!Dependencies(r[1])
    /\ \A y \in starts[r].chain : y = r[1] \/ r[1] \in Host!Visited(y)

\* The run that is beyond them has the lease, and its sandbox if that is made.
Owns(r) ==
  /\ starts[r].at = "unloading" => lease[r[1]] = r /\ box[r[1]] = Host!NoRun
  /\ starts[r].at \in {"frame", "load", "activate"} => box[r[1]] = r

Unloading(x) == job.stack # <<>> /\ Host!Top.x = x /\ Host!Top.at = "unloading"

Session(x) ==
  /\ state[x] = "activated" => activating[x] = Host!NoRun
  /\ box[x] # Host!NoRun => lease[x] = box[x]
  /\ state[x] = "activated" =>
       (box[x] # Host!NoRun /\ starts[box[x]].at = "done") \/ Unloading(x)

SessInv == (\A r \in Host!Runs : Knows(r) /\ Owns(r)) /\ \A x \in Exts : Session(x)

\* A run is ready that may go on with a dependency.
Live == \E r \in Host!Runs : Host!Ready(r) /\ ~Host!DependencyFailed(r)

\* Runs fail in a row because nothing else is ready, or because something they
\* depend on was disabled.
FailuresSpread ==
  \A r \in Host!Runs :
    Host!Ready(r) /\ Host!DependencyFailed(r) => ~Host!CheckDependencies(r[1]) \/ ~Live

\* Runs of the dependents that are being stopped began after their stop did.
FramesInv ==
  /\ \A i \in 1..Len(job.stack) :
       job.stack[i].await # Host!NoRun => job.stack[i].await[1] = job.stack[i].x
  /\ \A i \in 2..Len(job.stack) :
       activating[job.stack[i].x] # Host!NoRun => Host!CheckDependencies(job.stack[i].x)

TopInv ==
  LET x == Host!Top.x IN
  /\ Host!Top.at = "dependents" => ~Live
  /\ Host!Top.at = "waiting" /\ Host!Over(Host!Top.await) =>
       /\ activating[x] = Host!NoRun
       /\ state[x] = "activated" \/ ~Live \/ (Len(job.stack) = 1 /\ ~Host!CheckDependencies(x))
  /\ Host!Top.at = "deactivating" =>
       /\ activating[x] = Host!NoRun
       /\ (box[x] # Host!NoRun /\ state[x] = "activated") \/ (box[x] = Host!NoRun /\ ~Live)

TurnInv == job.stack # <<>> => FailuresSpread /\ FramesInv /\ TopInv

HostInv == ManagerInv /\ SessInv /\ TurnInv

-----------------------------------------------------------------------------
(* Dependencies *)

LEMMA VisitedClosed ==
  ASSUME NEW x \in Exts
  PROVE  /\ Host!Dependencies(x) \subseteq Host!Visited(x) /\ Host!Visited(x) \subseteq Exts
         /\ \A y \in Host!Visited(x) :
              Host!Dependencies(y) \subseteq Host!Visited(x) /\ Host!Visited(y) \subseteq Host!Visited(x)
<1>1. Host!Dependencies(x) \subseteq Host!Visited(x) /\ Host!Visited(x) \subseteq Exts
  BY DEF Host!Visited, Host!Dependencies
<1>2. ASSUME NEW y \in Host!Visited(x)
      PROVE  Host!Dependencies(y) \subseteq Host!Visited(x) /\ Host!Visited(y) \subseteq Host!Visited(x)
  <2>1. Host!Dependencies(y) \subseteq Host!Visited(x)
    BY DEF Host!Visited, Host!Dependencies
  <2>2. ASSUME NEW z \in Host!Visited(y), NEW S \in SUBSET Exts,
               Host!Dependencies(x) \subseteq S, \A w \in S : Host!Dependencies(w) \subseteq S
        PROVE  z \in S
    <3>1. y \in S
      BY <2>2 DEF Host!Visited
    <3> QED BY <2>2, <3>1 DEF Host!Visited
  <2>3. Host!Visited(y) \subseteq Exts
    BY DEF Host!Visited
  <2> QED BY <2>1, <2>2, <2>3 DEF Host!Visited
<1> QED BY <1>1, <1>2

LEMMA DependenciesChecked ==
  ASSUME NEW x \in Exts, NEW y \in Host!Dependencies(x), Host!CheckDependencies(x)
  PROVE  /\ Host!CheckDependencies(y)
         /\ \A chain : (\A z \in chain : z \in Exts /\ (z = x \/ x \in Host!Visited(z)))
                         => ~Host!Rejected(y, chain)
<1>1. /\ y \in Exts /\ y \in Host!Visited(x) /\ Host!Visited(y) \subseteq Host!Visited(x)
      /\ Host!Dependencies(y) \subseteq Host!Visited(x)
  BY VisitedClosed DEF Host!Dependencies
<1>2. \A z \in Host!Visited(x) \cup {x} : z \notin Host!Visited(z)
  BY DEF Host!CheckDependencies, Host!Acyclic
<1>3. Host!CheckDependencies(y)
  BY <1>1, <1>2 DEF Host!CheckDependencies, Host!Acyclic
<1>4. y \in present /\ enabled[y]
  BY <1>1 DEF Host!CheckDependencies
<1>5. ASSUME NEW chain, \A z \in chain : z \in Exts /\ (z = x \/ x \in Host!Visited(z)), y \in chain
      PROVE  FALSE
  <2>1. x \notin Host!Visited(x) /\ y \notin Host!Visited(y)
    BY <1>1, <1>2
  <2>2. y = x \/ x \in Host!Visited(y)
    BY <1>5
  <2> QED BY <1>1, <2>1, <2>2
<1> QED BY <1>3, <1>4, <1>5 DEF Host!Rejected

LEMMA SameChecks ==
  ASSUME UNCHANGED <<present, enabled>>
  PROVE  \A x : Host!CheckDependencies(x)' = Host!CheckDependencies(x)
  BY DEF Host!CheckDependencies, Host!Acyclic, Host!Visited, Host!Dependencies

LEMMA SameSession ==
  ASSUME NEW x \in Exts, Session(x), state'[x] = state[x], activating'[x] = activating[x],
         lease'[x] = lease[x], box'[x] = box[x],
         box[x] # Host!NoRun => starts'[box[x]].at = starts[box[x]].at,
         Unloading(x) => Unloading(x)'
  PROVE  Session(x)'
<1>1. PICK b : b = box[x]
  OBVIOUS
<1> QED BY <1>1 DEF Session

LEMMA SameUnloading ==
  ASSUME UNCHANGED job
  PROVE  \A x : Unloading(x)' = Unloading(x)
  BY DEF Unloading, Host!Top

LEMMA RunFacts ==
  ASSUME HostInv, NEW r \in Host!Runs
  PROVE  /\ r[1] \in Exts /\ r # Host!NoRun /\ starts[r] \in Starts /\ starts[r].await \in AnyRun
         /\ UnderWay(r) => activating[r[1]] = r
         /\ Knows(r) /\ Owns(r)
  BY RunsOfExtensions DEF HostInv, ManagerInv, RunInv, SessInv, Starts

\* A run that fails, because of a dependency or while nothing else is ready.
LEMMA ThrowSession ==
  ASSUME HostInv, NEW r \in Host!Runs, UnderWay(r), Host!Throw(r), UNCHANGED job
  PROVE  SessInv'
<1> DEFINE x == r[1]
<1>1. x \in Exts /\ activating[x] = r /\ RunInv
  BY RunFacts DEF HostInv, ManagerInv
<1>2. /\ starts' = [starts EXCEPT ![r] = Host!NoStart]
      /\ activating' = [activating EXCEPT ![x] = Host!NoRun]
      /\ state' = [state EXCEPT ![x] = "failed"]
      /\ lease' = [lease EXCEPT ![x] = Host!NoRun] /\ box' = [box EXCEPT ![x] = Host!NoRun]
  BY DEF Host!Throw, Host!fail
<1>3. starts'[r].at = "thrown" /\ \A q \in Host!Runs : q # r => starts'[q] = starts[q]
  BY <1>1, <1>2, StartTypes DEF RunInv
<1>4. /\ activating'[x] = Host!NoRun /\ state'[x] = "failed"
      /\ lease'[x] = Host!NoRun /\ box'[x] = Host!NoRun
      /\ \A y \in Exts : y # x => /\ activating'[y] = activating[y] /\ state'[y] = state[y]
                                  /\ lease'[y] = lease[y] /\ box'[y] = box[y]
  BY <1>1, <1>2 DEF RunInv
<1>5. ASSUME NEW q \in Host!Runs
      PROVE  (Knows(q) /\ Owns(q))'
  <2>1. CASE q = r
    BY <1>3, <2>1 DEF Knows, Owns
  <2>2. CASE q # r
    <3>1. starts'[q] = starts[q] /\ q[1] \in Exts /\ Knows(q) /\ Owns(q)
      BY <1>3, <2>2, RunFacts
    <3>2. UnderWay(q) => q[1] # x
      BY <1>1, <2>2, RunFacts
    <3> QED BY <1>4, <3>1, <3>2 DEF Knows, Owns, UnderWay
  <2> QED BY <2>1, <2>2
<1>6. ASSUME NEW y \in Exts
      PROVE  Session(y)'
  <2>1. CASE y = x
    BY <1>4, <2>1 DEF Session
  <2>2. CASE y # x
    <3>1. Session(y) /\ Unloading(y)' = Unloading(y)
      BY SameUnloading DEF HostInv, SessInv
    <3>2. box[y] # Host!NoRun => box[y] \in Host!Runs /\ box[y][1] = y
      BY <1>1 DEF RunInv, AnyRun
    <3>3. box[y] # Host!NoRun => starts'[box[y]].at = starts[box[y]].at
      BY <1>3, <2>2, <3>2
    <3> QED BY <1>4, <2>2, <3>1, <3>3, SameSession
  <2> QED BY <2>1, <2>2
<1> QED BY <1>5, <1>6 DEF SessInv

LEMMA TopFacts ==
  ASSUME HostInv, job.stack # <<>>
  PROVE  /\ FailuresSpread /\ FramesInv /\ TopInv
         /\ Host!Top.x \in Exts /\ Host!Top.await \in AnyRun
         /\ Host!Top.await # Host!NoRun => Host!Top.await \in Host!Runs /\ Host!Top.await[1] = Host!Top.x
         /\ Len(job.stack) \in Nat \ {0} /\ Len(job.stack) \in DOMAIN job.stack
         /\ Host!Top = job.stack[Len(job.stack)]
         /\ Len(job.stack) # 1 => Len(job.stack) \in 2..Len(job.stack)
<1>1. FailuresSpread /\ FramesInv /\ TopInv /\ ManagerInv
  BY DEF HostInv, TurnInv
<1>2. PICK s \in Seq(Frames) : s = job.stack /\ Len(s) \in Nat \ {0} /\ Host!Top = s[Len(s)]
  BY <1>1, TopFrame
<1>3. Len(s) \in DOMAIN s /\ Len(s) \in 1..Len(s) /\ (Len(s) # 1 => Len(s) \in 2..Len(s))
  <2>1. DOMAIN s = 1..Len(s)
    OBVIOUS
  <2>2. PICK n \in Nat \ {0} : n = Len(s)
    BY <1>2
  <2>3. n \in 1..n /\ (n # 1 => n \in 2..n)
    OBVIOUS
  <2> QED BY <2>1, <2>2, <2>3
<1>4. Host!Top \in Frames
  BY <1>1, TopFrame
<1>5. Host!Top.x \in Exts /\ Host!Top.await \in AnyRun
  BY <1>4 DEF Frames
<1>6. Host!Top.await # Host!NoRun => Host!Top.await[1] = Host!Top.x
  BY <1>1, <1>2, <1>3 DEF FramesInv
<1> QED BY <1>1, <1>2, <1>3, <1>5, <1>6 DEF AnyRun

LEMMA ThrowTurn ==
  ASSUME HostInv, NEW r \in Host!Runs, UnderWay(r), Host!Throw(r), UNCHANGED <<job, present, enabled>>,
         ~Host!CheckDependencies(r[1]) \/ ~Live
  PROVE  TurnInv'
<1> SUFFICES ASSUME job.stack # <<>>
             PROVE  (FailuresSpread /\ FramesInv /\ TopInv)'
  BY DEF TurnInv
<1> DEFINE x == r[1]
<1>1. x \in Exts /\ activating[x] = r /\ RunInv /\ r # Host!NoRun
  BY RunFacts DEF HostInv, ManagerInv
<1>2. /\ starts' = [starts EXCEPT ![r] = Host!NoStart]
      /\ activating' = [activating EXCEPT ![x] = Host!NoRun]
      /\ state' = [state EXCEPT ![x] = "failed"] /\ box' = [box EXCEPT ![x] = Host!NoRun]
  BY DEF Host!Throw, Host!fail
<1>3. starts'[r].at = "thrown" /\ \A q \in Host!Runs : q # r => starts'[q] = starts[q]
  BY <1>1, <1>2, StartTypes DEF RunInv
<1>4. /\ activating'[x] = Host!NoRun
      /\ \A y \in Exts : /\ activating'[y] \in {activating[y], Host!NoRun}
                         /\ y # x => /\ activating'[y] = activating[y] /\ state'[y] = state[y]
                                     /\ box'[y] = box[y]
  BY <1>1, <1>2 DEF RunInv
<1>5. \A y : Host!CheckDependencies(y)' = Host!CheckDependencies(y)
  BY SameChecks
<1>6. ASSUME NEW a \in AnyRun, a # r
      PROVE  Host!Over(a)' = Host!Over(a)
  BY <1>3, <1>6 DEF Host!Over, AnyRun
<1>7. ASSUME NEW q \in Host!Runs, q # r, starts[q].await # r
      PROVE  Host!Ready(q)' = Host!Ready(q) /\ Host!DependencyFailed(q)' = Host!DependencyFailed(q)
  <2>1. PICK a \in AnyRun : a = starts[q].await /\ a = starts'[q].await /\ a # r
    BY <1>3, <1>7, RunFacts
  <2>2. a # Host!NoRun => starts'[a] = starts[a]
    BY <1>3, <2>1 DEF AnyRun
  <2> QED BY <1>3, <1>7, <2>1, <2>2 DEF Host!Ready, Host!Over, Host!DependencyFailed
<1>8. ASSUME NEW q \in Host!Runs, Host!Ready(q)'
      PROVE  q # r /\ (starts[q].await = r => Host!DependencyFailed(q)')
  BY <1>1, <1>3, <1>8 DEF Host!Ready, Host!DependencyFailed
<1>9. Live' => Live
  BY <1>7, <1>8 DEF Live
<1>10. FailuresSpread'
  <2> SUFFICES ASSUME NEW q \in Host!Runs, Host!Ready(q)', Host!DependencyFailed(q)'
               PROVE  ~Host!CheckDependencies(q[1]) \/ ~Live'
    BY <1>5 DEF FailuresSpread
  <2>1. q # r
    BY <1>8
  <2>2. CASE starts[q].await = r
    <3>1. starts[q].at = "deps"
      BY <1>3, <2>1 DEF Host!Ready
    <3>2. x \in Host!Dependencies(q[1]) /\ q[1] \in Exts
      BY <1>1, <2>2, <3>1, RunFacts DEF Knows
    <3> QED BY <1>9, <3>2, DependenciesChecked
  <2>3. CASE starts[q].await # r
    BY <1>7, <1>9, <2>1, <2>3, TopFacts DEF FailuresSpread
  <2> QED BY <2>2, <2>3
<1>11. FramesInv'
  <2>1. PICK s \in Seq(Frames) : s = job.stack /\ s = job'.stack
    BY TopFrame DEF HostInv
  <2>2. \A i \in 2..Len(s) : s[i].x \in Exts
    <3>1. \A i \in 1..Len(s) : s[i] \in Frames
      BY <2>1
    <3> QED BY <3>1 DEF Frames
  <2>3. \A i \in 2..Len(s) : activating'[s[i].x] # Host!NoRun => activating[s[i].x] # Host!NoRun
    BY <1>4, <2>2
  <2> QED BY <1>5, <2>1, <2>3, TopFacts DEF FramesInv
<1>12. TopInv'
  <2>1. PICK f : f = Host!Top /\ f = Host!Top' /\ f.x \in Exts
    BY TopFacts DEF Host!Top
  <2>2. f.at = "dependents" => ~Live'
    BY <1>9, <2>1, TopFacts DEF TopInv
  <2>3. ASSUME f.at = "waiting", Host!Over(f.await)'
        PROVE  /\ activating'[f.x] = Host!NoRun
               /\ \/ state'[f.x] = "activated" \/ ~Live'
                  \/ Len(job.stack) = 1 /\ ~Host!CheckDependencies(f.x)
    <3>1. CASE f.await = r
      <4>1. f.x = x
        BY <1>1, <2>1, <3>1, TopFacts
      <4>2. Len(job.stack) # 1 => Host!CheckDependencies(x)
        BY <1>1, <2>1, <4>1, TopFacts DEF FramesInv
      <4> QED BY <1>4, <1>9, <4>1, <4>2
    <3>2. CASE f.await # r
      <4>1. Host!Over(f.await)
        BY <1>6, <2>1, <2>3, <3>2, TopFacts
      <4>2. activating[f.x] = Host!NoRun /\ f.x # x
        BY <1>1, <2>1, <2>3, <4>1, TopFacts DEF TopInv
      <4> QED BY <1>4, <1>9, <2>1, <2>3, <4>1, <4>2, TopFacts DEF TopInv
    <3> QED BY <3>1, <3>2
  <2>4. ASSUME f.at = "deactivating"
        PROVE  /\ activating'[f.x] = Host!NoRun
               /\ \/ box'[f.x] # Host!NoRun /\ state'[f.x] = "activated"
                  \/ box'[f.x] = Host!NoRun /\ ~Live'
    <3>1. activating[f.x] = Host!NoRun /\ f.x # x
      BY <1>1, <2>1, <2>4, TopFacts DEF TopInv
    <3> QED BY <1>4, <1>9, <2>1, <2>4, <3>1, TopFacts DEF TopInv
  <2> QED BY <1>5, <2>1, <2>2, <2>3, <2>4 DEF TopInv
<1> QED BY <1>10, <1>11, <1>12

\* What the caller of activate(y) has done before: nothing, or taken y from what
\* it has left.
CallsStart(y, chain, others) ==
  /\ others \in [Host!Runs -> Starts]
  /\ \A q \in Host!Runs :
       /\ others[q].at = starts[q].at /\ others[q].chain = starts[q].chain
       /\ others[q].left \subseteq starts[q].left
       /\ \/ others[q].await = starts[q].await
          \/ /\ Host!Ready(q) /\ ~Host!DependencyFailed(q) /\ y \in Host!Dependencies(q[1])
             /\ others[q].await = Host!Awaited(y)
  /\ \A z \in chain : z = y \/ y \in Host!Visited(z)

LEMMA FreeFacts ==
  ASSUME HostInv, NEW y \in Exts, Host!FreeRuns(y) # {}
  PROVE  /\ Host!Free(y) \in Host!Runs /\ Host!Free(y)[1] = y /\ Host!Free(y) # Host!NoRun
         /\ ~UnderWay(Host!Free(y)) /\ Host!Free(y) # box[y] /\ Host!Free(y) # lease[y]
         /\ \A q \in Host!Runs : starts[q].at = "deps" => starts[q].await # Host!Free(y)
         /\ job.stack # <<>> => Host!Top.await # Host!Free(y)
<1>1. Host!Free(y) \in Host!FreeRuns(y)
  BY DEF Host!Free
<1>2. job.stack # <<>> => Len(job.stack) \in DOMAIN job.stack /\ Host!Top = job.stack[Len(job.stack)]
  BY TopFacts
<1> QED BY <1>1, <1>2, RunsOfExtensions DEF Host!FreeRuns, UnderWay

LEMMA QuietTurn ==
  ASSUME HostInv, Host!Quiet, job.stack # <<>>
  PROVE  /\ ~Live /\ \A q \in Host!Runs : ~Host!Ready(q)
         /\ Host!Top.at # "dependents" /\ ~(Host!Top.at = "waiting" /\ Host!Over(Host!Top.await))
         /\ ~(Host!Top.at = "deactivating" /\ box[Host!Top.x] = Host!NoRun)
<1>1. job.kind # "none"
  BY IdleJob DEF HostInv, ManagerInv, JobInv, IsJob, Job, Host!Kinds
<1> QED BY <1>1 DEF Host!Quiet, Host!ReadyOp, Live

LEMMA ActivateSession ==
  ASSUME HostInv, NEW y \in Exts, NEW chain \in SUBSET Exts, NEW others,
         CallsStart(y, chain, others), Host!Activate(y, chain, others),
         \A x \in Exts : Unloading(x) => Unloading(x)'
  PROVE  SessInv'
<1>1. RunInv
  BY DEF HostInv, ManagerInv
<1>2. \A q \in Host!Runs : UnderWay(q) <=> others[q].at \notin {"done", "thrown"}
  BY DEF CallsStart, UnderWay
<1>3. ASSUME NEW q \in Host!Runs, starts'[q] = others[q],
             Host!Joined(y) => activating[y] # Host!NoRun,
             Host!Awaited(y) # Host!NoRun => Host!Awaited(y)[1] = y,
             UNCHANGED <<lease, box>> \/ (others[q].at # "deps" /\ UnderWay(q) => q[1] # y),
             \A x \in Exts : x # y => lease'[x] = lease[x] /\ box'[x] = box[x]
      PROVE  (Knows(q) /\ Owns(q))'
  <2>1. Knows(q) /\ Owns(q) /\ q[1] \in Exts
    BY RunFacts
  <2>2. /\ others[q].at = starts[q].at /\ others[q].chain = starts[q].chain
        /\ others[q].left \subseteq starts[q].left
        /\ others[q].await = starts[q].await
           \/ (others[q].await = Host!Awaited(y) /\ y \in Host!Dependencies(q[1]))
    BY DEF CallsStart
  <2>3. Knows(q)'
    BY <1>3, <2>1, <2>2 DEF Knows
  <2>4. Owns(q)'
    BY <1>3, <2>1, <2>2 DEF Owns, UnderWay
  <2> QED BY <2>3, <2>4
<1>4. ASSUME NEW x \in Exts
      PROVE  /\ Session(x)
             /\ box[x] # Host!NoRun => box[x] \in Host!Runs /\ box[x][1] = x
  BY <1>1 DEF HostInv, SessInv, RunInv, AnyRun
<1>5. CASE /\ state[y] = "activated" \/ Host!Joined(y)
           /\ starts' = others
           /\ UNCHANGED <<activating, state, lease, box>>
  <2>1. Host!Awaited(y) # Host!NoRun => Host!Awaited(y)[1] = y
    BY <1>1, <1>5 DEF Host!Awaited, Host!Joined, RunInv
  <2>2. \A q \in Host!Runs : (Knows(q) /\ Owns(q))'
    BY <1>3, <1>5, <2>1 DEF Host!Joined
  <2>3. \A x \in Exts : Session(x)'
    BY <1>4, <1>5, SameSession DEF CallsStart
  <2> QED BY <2>2, <2>3 DEF SessInv
<1>6. ASSUME state[y] # "activated", ~Host!Joined(y), Host!FreeRuns(y) # {}
      PROVE  /\ Host!Awaited(y) # Host!NoRun => Host!Awaited(y)[1] = y
             /\ Host!Free(y) \in Host!Runs /\ Host!Free(y)[1] = y
             /\ \A x \in Exts : box[x] # Host!Free(y)
             /\ activating[y] = Host!NoRun /\ \A q \in Host!Runs : UnderWay(q) => q[1] # y
  <2>1. Host!Awaited(y) = Host!Free(y) /\ activating[y] = Host!NoRun
    BY <1>6 DEF Host!Awaited, Host!Joined
  <2>2. \A x \in Exts : box[x] # Host!Free(y)
    BY <1>4, <1>6, FreeFacts
  <2>3. \A q \in Host!Runs : UnderWay(q) => q[1] # y
    BY <2>1, RunFacts
  <2> QED BY <1>6, <2>1, <2>2, <2>3, FreeFacts
<1>7. CASE /\ state[y] # "activated" /\ ~Host!Joined(y) /\ Host!FreeRuns(y) # {}
           /\ Host!CheckDependencies(y)
           /\ starts' = [others EXCEPT ![Host!Free(y)] = Host!NewStart(y, chain)]
           /\ activating' = [activating EXCEPT ![y] = Host!Free(y)]
           /\ UNCHANGED <<state, lease, box>>
  <2>1. PICK f \in Host!Runs : f = Host!Free(y) /\ f[1] = y
    BY <1>6, <1>7
  <2>2. PICK s : s = Host!NewStart(y, chain)
    OBVIOUS
  <2>3. /\ s.at = "deps" /\ s.left = Host!Dependencies(y) /\ s.await = Host!NoRun
        /\ s.chain = chain \cup {y}
    BY <2>2 DEF Host!NewStart, Host!NoStart
  <2>4. /\ starts'[f] = s /\ \A q \in Host!Runs : q # f => starts'[q] = others[q]
        /\ \A x \in Exts : x # y => activating'[x] = activating[x]
    BY <1>1, <1>7, <2>1, <2>2 DEF CallsStart, RunInv
  <2>5. ASSUME NEW q \in Host!Runs
        PROVE  (Knows(q) /\ Owns(q))'
    <3>1. CASE q = f
      BY <2>1, <2>3, <2>4, <3>1 DEF Knows, Owns, CallsStart
    <3>2. CASE q # f
      BY <1>3, <1>6, <1>7, <2>4, <3>2
    <3> QED BY <3>1, <3>2
  <2>6. ASSUME NEW x \in Exts
        PROVE  Session(x)'
    <3>1. box[x] # Host!NoRun => starts'[box[x]].at = starts[box[x]].at
      BY <1>4, <1>6, <1>7, <2>1, <2>4 DEF CallsStart
    <3>2. CASE x = y
      <4>1. PICK b : b = box[x]
        OBVIOUS
      <4> QED BY <1>4, <1>7, <3>1, <3>2, <4>1 DEF Session
    <3>3. CASE x # y
      BY <1>4, <1>7, <2>4, <3>1, <3>3, SameSession
    <3> QED BY <3>2, <3>3
  <2> QED BY <2>5, <2>6 DEF SessInv
<1>8. CASE /\ state[y] # "activated" /\ ~Host!Joined(y) /\ Host!FreeRuns(y) # {}
           /\ starts' = [others EXCEPT ![Host!Free(y)] = Host!NoStart]
           /\ Host!fail(y) /\ UNCHANGED activating
  <2>1. PICK f \in Host!Runs : f = Host!Free(y) /\ f[1] = y
    BY <1>6, <1>8
  <2>2. /\ starts'[f].at = "thrown" /\ \A q \in Host!Runs : q # f => starts'[q] = others[q]
    BY <1>8, <2>1, StartTypes DEF CallsStart
  <2>3. /\ state'[y] = "failed" /\ lease'[y] = Host!NoRun /\ box'[y] = Host!NoRun
        /\ \A x \in Exts : x # y => /\ state'[x] = state[x] /\ lease'[x] = lease[x]
                                    /\ box'[x] = box[x]
    BY <1>1, <1>8 DEF Host!fail, RunInv
  <2>4. ASSUME NEW q \in Host!Runs
        PROVE  (Knows(q) /\ Owns(q))'
    <3>1. CASE q = f
      BY <2>2, <3>1 DEF Knows, Owns
    <3>2. CASE q # f
      BY <1>3, <1>6, <1>8, <2>2, <2>3, <3>2
    <3> QED BY <3>1, <3>2
  <2>5. ASSUME NEW x \in Exts
        PROVE  Session(x)'
    <3>1. CASE x = y
      BY <2>3, <3>1 DEF Session
    <3>2. CASE x # y
      <4>1. box[x] # Host!NoRun => starts'[box[x]].at = starts[box[x]].at
        BY <1>4, <1>6, <1>8, <2>1, <2>2 DEF CallsStart
      <4> QED BY <1>4, <1>8, <2>3, <3>2, <4>1, SameSession
    <3> QED BY <3>1, <3>2
  <2> QED BY <2>4, <2>5 DEF SessInv
<1> QED BY <1>5, <1>7, <1>8 DEF Host!Activate


\* A turn in which activate is called is one in which the stop at the end of the
\* stack has something left to wait for.
LEMMA CallTurn ==
  ASSUME HostInv, job.stack # <<>>, Host!Quiet \/ Live
  PROVE  /\ Host!Top.at # "dependents"
         /\ Host!Top.at = "waiting" /\ Host!Over(Host!Top.await) =>
              /\ activating[Host!Top.x] = Host!NoRun
              /\ \/ state[Host!Top.x] = "activated"
                 \/ Len(job.stack) = 1 /\ ~Host!CheckDependencies(Host!Top.x)
         /\ Host!Top.at = "deactivating" =>
              /\ activating[Host!Top.x] = Host!NoRun
              /\ box[Host!Top.x] # Host!NoRun /\ state[Host!Top.x] = "activated"
         /\ \A q \in Host!Runs : Host!Ready(q) /\ Host!DependencyFailed(q) => ~Host!CheckDependencies(q[1])
<1>1. CASE Host!Quiet
  BY <1>1, QuietTurn, TopFacts DEF TopInv
<1>2. CASE Live
  BY <1>2, TopFacts DEF TopInv, FailuresSpread
<1> QED BY <1>1, <1>2

\* What a run is told of y when activate(y) has returned at once or failed.
LEMMA Told ==
  ASSUME HostInv, NEW y \in Exts, NEW chain, NEW others, CallsStart(y, chain, others),
         NEW q \in Host!Runs, starts'[q] = others[q],
         \A a \in Host!Runs : starts[q].at = "deps" /\ starts[q].await = a
                            => starts'[a].at = starts[a].at,
         Host!Ready(q)', Host!DependencyFailed(q)'
  PROVE  \/ Host!Ready(q) /\ Host!DependencyFailed(q)
         \/ y \in Host!Dependencies(q[1]) /\ q[1] \in Exts /\ starts'[q].await = Host!Awaited(y)
<1>1. PICK a : a = starts'[q].await
  OBVIOUS
<1>2. starts[q].await \in AnyRun /\ q[1] \in Exts
  BY RunFacts
<1>3. CASE a # starts[q].await
  BY <1>1, <1>2, <1>3 DEF CallsStart
<1>4. CASE a = starts[q].await
  <2>1. starts[q].at = "deps" /\ a # Host!NoRun /\ starts'[a].at = "thrown"
    BY <1>1 DEF Host!Ready, Host!DependencyFailed, CallsStart
  <2>2. starts[a].at = "thrown"
    BY <1>2, <1>4, <2>1 DEF AnyRun
  <2> QED BY <1>4, <2>1, <2>2 DEF Host!Ready, Host!DependencyFailed, Host!Over
<1> QED BY <1>3, <1>4

LEMMA ActivateTurn ==
  ASSUME HostInv, NEW y \in Exts, NEW chain \in SUBSET Exts, NEW others,
         CallsStart(y, chain, others), Host!Activate(y, chain, others), Host!Quiet \/ Live,
         UNCHANGED <<job, present, enabled>>
  PROVE  TurnInv'
<1> SUFFICES ASSUME job.stack # <<>>
             PROVE  (FailuresSpread /\ FramesInv /\ TopInv)'
  BY DEF TurnInv
<1>1. RunInv /\ (Host!Quiet \/ Live)
  BY DEF HostInv, ManagerInv
<1>2. \A x : Host!CheckDependencies(x)' = Host!CheckDependencies(x)
  BY SameChecks
<1>3. PICK t : t = Host!Top /\ t = Host!Top' /\ t.x \in Exts /\ t.await \in AnyRun
  BY TopFacts DEF Host!Top
<1>4. /\ t.at # "dependents"
      /\ t.at = "waiting" /\ Host!Over(t.await) =>
           /\ activating[t.x] = Host!NoRun
           /\ \/ state[t.x] = "activated"
              \/ Len(job.stack) = 1 /\ ~Host!CheckDependencies(t.x)
      /\ t.at = "deactivating" => /\ activating[t.x] = Host!NoRun
                                  /\ box[t.x] # Host!NoRun /\ state[t.x] = "activated"
      /\ \A q \in Host!Runs : Host!Ready(q) /\ Host!DependencyFailed(q) => ~Host!CheckDependencies(q[1])
  BY <1>1, <1>3, CallTurn
<1>5. \A q \in Host!Runs : others[q].at = starts[q].at
  BY DEF CallsStart
<1>6. PICK s \in Seq(Frames) : s = job.stack /\ s = job'.stack
  BY TopFrame DEF HostInv
<1>7. ASSUME \A x \in Exts : x # y => activating'[x] = activating[x],
             activating'[y] = activating[y] \/ Host!CheckDependencies(y)
      PROVE  FramesInv'
  <2>1. \A i \in 1..Len(s) : s[i].x \in Exts
    <3>1. \A i \in 1..Len(s) : s[i] \in Frames
      OBVIOUS
    <3> QED BY <3>1 DEF Frames
  <2>2. PICK n \in Nat : n = Len(s)
    OBVIOUS
  <2>3. \A i \in 2..n : i \in 1..n
    OBVIOUS
  <2>4. \A i \in 2..n : activating'[s[i].x] # Host!NoRun => Host!CheckDependencies(s[i].x)
    BY <1>6, <1>7, <2>1, <2>2, <2>3, TopFacts DEF FramesInv
  <2> QED BY <1>2, <1>6, <2>2, <2>4, TopFacts DEF FramesInv
<1>8. ASSUME Host!Over(t.await)' => Host!Over(t.await),
             t.at = "waiting" /\ Host!Over(t.await) =>
               /\ activating'[t.x] = Host!NoRun
               /\ state[t.x] = "activated" => state'[t.x] = "activated",
             t.at = "deactivating" => /\ activating'[t.x] = activating[t.x]
                                      /\ box'[t.x] = box[t.x] /\ state'[t.x] = state[t.x]
      PROVE  TopInv'
  <2>1. t.at = "waiting" /\ Host!Over(t.await)' =>
          /\ activating'[t.x] = Host!NoRun
          /\ state'[t.x] = "activated" \/ (Len(job.stack) = 1 /\ ~Host!CheckDependencies(t.x))
    BY <1>4, <1>8
  <2>2. t.at = "deactivating" => /\ activating'[t.x] = Host!NoRun
                                 /\ box'[t.x] # Host!NoRun /\ state'[t.x] = "activated"
    BY <1>4, <1>8
  <2> QED BY <1>2, <1>3, <1>4, <2>1, <2>2 DEF TopInv
<1>9. CASE /\ state[y] = "activated" \/ Host!Joined(y)
           /\ starts' = others
           /\ UNCHANGED <<activating, state, lease, box>>
  <2>1. Host!Awaited(y) # Host!NoRun => Host!Awaited(y) \in Host!Runs /\ UnderWay(Host!Awaited(y))
    BY <1>1, <1>9 DEF Host!Awaited, Host!Joined, RunInv, AnyRun
  <2>2. Host!Over(t.await)' = Host!Over(t.await)
    BY <1>3, <1>5, <1>9 DEF Host!Over, AnyRun
  <2>3. ASSUME NEW q \in Host!Runs, Host!Ready(q)', Host!DependencyFailed(q)'
        PROVE  ~Host!CheckDependencies(q[1])
    <3>1. \/ Host!Ready(q) /\ Host!DependencyFailed(q)
          \/ starts'[q].await = Host!Awaited(y)
      BY <1>5, <1>9, <2>3, Told
    <3>2. PICK a : a = Host!Awaited(y)
      OBVIOUS
    <3>3. starts'[q].await # a
      BY <1>5, <1>9, <2>1, <2>3, <3>2 DEF Host!DependencyFailed, UnderWay
    <3> QED BY <1>4, <3>1, <3>2, <3>3
  <2> QED BY <1>2, <1>4, <1>7, <1>8, <1>9, <2>2, <2>3 DEF FailuresSpread
<1>10. CASE /\ state[y] # "activated" /\ ~Host!Joined(y) /\ Host!FreeRuns(y) # {}
            /\ Host!CheckDependencies(y)
            /\ starts' = [others EXCEPT ![Host!Free(y)] = Host!NewStart(y, chain)]
            /\ activating' = [activating EXCEPT ![y] = Host!Free(y)]
            /\ UNCHANGED <<state, lease, box>>
  <2>1. PICK f \in Host!Runs : /\ f = Host!Free(y) /\ t.await # f /\ f = Host!Awaited(y)
                            /\ \A q \in Host!Runs : starts[q].at = "deps" => starts[q].await # f
    BY <1>3, <1>10, FreeFacts DEF Host!Awaited
  <2>2. /\ starts'[f].at = "deps" /\ starts'[f].await = Host!NoRun
        /\ \A q \in Host!Runs : q # f => starts'[q] = others[q]
    <3>1. PICK n : n = Host!NewStart(y, chain)
      OBVIOUS
    <3>2. n.at = "deps" /\ n.await = Host!NoRun
      BY <3>1 DEF Host!NewStart, Host!NoStart
    <3> QED BY <1>10, <2>1, <3>1, <3>2 DEF CallsStart
  <2>3. \A x \in Exts : x # y => activating'[x] = activating[x]
    BY <1>1, <1>10 DEF RunInv
  <2>4. Host!Over(t.await)' = Host!Over(t.await)
    BY <1>3, <1>5, <2>1, <2>2 DEF Host!Over, AnyRun
  <2>5. ASSUME NEW q \in Host!Runs, Host!Ready(q)', Host!DependencyFailed(q)'
        PROVE  ~Host!CheckDependencies(q[1])
    <3>1. q # f /\ starts'[q].await # f
      BY <2>2, <2>5 DEF Host!DependencyFailed
    <3>2. \/ Host!Ready(q) /\ Host!DependencyFailed(q)
          \/ starts'[q].await = f
      BY <1>5, <2>1, <2>2, <2>5, <3>1, Told
    <3> QED BY <1>4, <3>1, <3>2
  <2>6. t.at = "waiting" /\ Host!Over(t.await) => t.x # y
    BY <1>4, <1>10
  <2>7. t.at = "deactivating" => t.x # y
    BY <1>4, <1>10
  <2>8. TopInv'
    BY <1>3, <1>4, <1>8, <1>10, <2>3, <2>4, <2>6, <2>7
  <2>9. FramesInv'
    BY <1>7, <1>10, <2>3
  <2> QED BY <1>2, <2>5, <2>8, <2>9 DEF FailuresSpread
<1>11. CASE /\ state[y] # "activated" /\ ~Host!Joined(y) /\ Host!FreeRuns(y) # {}
            /\ ~Host!CheckDependencies(y)
            /\ starts' = [others EXCEPT ![Host!Free(y)] = Host!NoStart]
            /\ Host!fail(y) /\ UNCHANGED activating
  <2>1. PICK f \in Host!Runs : /\ f = Host!Free(y) /\ t.await # f /\ f = Host!Awaited(y)
                            /\ \A q \in Host!Runs : starts[q].at = "deps" => starts[q].await # f
    BY <1>3, <1>11, FreeFacts DEF Host!Awaited
  <2>2. /\ starts'[f].at = "thrown" /\ \A q \in Host!Runs : q # f => starts'[q] = others[q]
    BY <1>11, <2>1, StartTypes DEF CallsStart
  <2>3. \A x \in Exts : x # y => state'[x] = state[x] /\ box'[x] = box[x]
    BY <1>1, <1>11 DEF RunInv, Host!fail
  <2>4. Host!Over(t.await)' = Host!Over(t.await)
    BY <1>3, <1>5, <2>1, <2>2 DEF Host!Over, AnyRun
  <2>5. ASSUME NEW q \in Host!Runs, Host!Ready(q)', Host!DependencyFailed(q)'
        PROVE  ~Host!CheckDependencies(q[1])
    <3>1. q # f
      BY <2>2, <2>5 DEF Host!Ready
    <3>2. \/ Host!Ready(q) /\ Host!DependencyFailed(q)
          \/ y \in Host!Dependencies(q[1]) /\ q[1] \in Exts
      BY <1>5, <2>1, <2>2, <2>5, <3>1, Told
    <3> QED BY <1>4, <1>11, <3>2, DependenciesChecked
  <2>6. t.at = "deactivating" => t.x # y
    BY <1>4, <1>11
  <2>7. TopInv'
    BY <1>3, <1>4, <1>8, <1>11, <2>3, <2>4, <2>6
  <2> QED BY <1>2, <1>7, <1>11, <2>5, <2>7 DEF FailuresSpread
<1> QED BY <1>9, <1>10, <1>11 DEF Host!Activate


\* A run goes on without ending.
LEMMA MoveSession ==
  ASSUME HostInv, NEW r \in Host!Runs, UnderWay(r), UNCHANGED <<job, activating>>,
         \A q \in Host!Runs : q # r => starts'[q] = starts[q], starts'[r].at # "deps",
         \A y \in Exts : y # r[1] => /\ state'[y] = state[y]
                                     /\ lease'[y] = lease[y] /\ box'[y] = box[y],
         Owns(r)', Session(r[1])'
  PROVE  SessInv'
<1>1. RunInv /\ r[1] \in Exts /\ activating[r[1]] = r
  BY RunFacts DEF HostInv, ManagerInv
<1>2. ASSUME NEW q \in Host!Runs, q # r
      PROVE  (Knows(q) /\ Owns(q))'
  <2>1. starts'[q] = starts[q] /\ q[1] \in Exts /\ Knows(q) /\ Owns(q)
    BY <1>2, RunFacts
  <2>2. UnderWay(q) => q[1] # r[1]
    BY <1>1, <1>2, RunFacts
  <2> QED BY <2>1, <2>2 DEF Knows, Owns, UnderWay
<1>3. ASSUME NEW y \in Exts, y # r[1]
      PROVE  Session(y)'
  <2>1. Session(y) /\ Unloading(y)' = Unloading(y)
    BY SameUnloading DEF HostInv, SessInv
  <2>2. box[y] # Host!NoRun => box[y] \in Host!Runs /\ box[y][1] = y
    BY <1>1 DEF RunInv, AnyRun
  <2>3. box[y] # Host!NoRun => starts'[box[y]].at = starts[box[y]].at
    BY <1>3, <2>2
  <2> QED BY <1>3, <2>1, <2>3, SameSession
<1> QED BY <1>2, <1>3 DEF SessInv, Knows

LEMMA MoveTurn ==
  ASSUME HostInv, NEW r \in Host!Runs, UnderWay(r),
         UNCHANGED <<job, present, enabled, activating>>,
         \A q \in Host!Runs : q # r => starts'[q] = starts[q],
         starts'[r].at \notin {"deps", "done", "thrown"},
         \A y \in Exts : y # r[1] => state'[y] = state[y] /\ box'[y] = box[y]
  PROVE  TurnInv'
<1> SUFFICES ASSUME job.stack # <<>>
             PROVE  (FailuresSpread /\ FramesInv /\ TopInv)'
  BY DEF TurnInv
<1>1. RunInv /\ activating[r[1]] = r /\ r # Host!NoRun
  BY RunFacts DEF HostInv, ManagerInv
<1>2. \A x : Host!CheckDependencies(x)' = Host!CheckDependencies(x)
  BY SameChecks
<1>3. PICK t : t = Host!Top /\ t = Host!Top' /\ t.x \in Exts /\ t.await \in AnyRun
  BY TopFacts DEF Host!Top
<1>4. ASSUME NEW a \in Host!Runs
      PROVE  /\ starts'[a].at \in {"done", "thrown"} <=> starts[a].at \in {"done", "thrown"}
             /\ starts'[a].at = "thrown" <=> starts[a].at = "thrown"
  BY DEF UnderWay
<1>5. ASSUME NEW q \in Host!Runs, Host!Ready(q)'
      PROVE  Host!Ready(q) /\ Host!DependencyFailed(q)' = Host!DependencyFailed(q)
  <2>1. PICK a \in AnyRun : a = starts[q].await /\ a = starts'[q].await
    BY <1>5, RunFacts DEF Host!Ready
  <2> QED BY <1>4, <1>5, <2>1 DEF Host!Ready, Host!Over, Host!DependencyFailed, AnyRun
<1>6. Live' => Live
  BY <1>5 DEF Live
<1>7. FailuresSpread'
  BY <1>2, <1>5, <1>6, TopFacts DEF FailuresSpread
<1>8. FramesInv'
  BY <1>2, TopFacts DEF FramesInv
<1>9. Host!Over(t.await)' = Host!Over(t.await)
  BY <1>3, <1>4 DEF Host!Over, AnyRun
<1>10. TopInv'
  <2>1. t.at = "waiting" /\ Host!Over(t.await) => t.x # r[1]
    BY <1>1, <1>3, TopFacts DEF TopInv
  <2>2. t.at = "deactivating" => t.x # r[1]
    BY <1>1, <1>3, TopFacts DEF TopInv
  <2> QED BY <1>2, <1>3, <1>6, <1>9, <2>1, <2>2, TopFacts DEF TopInv
<1> QED BY <1>7, <1>8, <1>10

\* A run that fails: the dependencies that fail in a row, or nothing else is ready.
LEMMA ThrowHost ==
  ASSUME HostInv, NEW r \in Host!Runs, UnderWay(r), Host!Throw(r),
         UNCHANGED <<present, enabled, job>>,
         job.stack # <<>> => ~Host!CheckDependencies(r[1]) \/ ~Live
  PROVE  (SessInv /\ TurnInv)'
<1>1. job.stack = <<>> => TurnInv'
  BY DEF TurnInv
<1> QED BY <1>1, ThrowSession, ThrowTurn

LEMMA ContinueHost ==
  ASSUME HostInv, NEW r \in Host!Runs, Host!Continue(r)
  PROVE  (SessInv /\ TurnInv)'
<1>1. /\ UNCHANGED <<present, enabled, job>> /\ starts[r].at = "deps" /\ UnderWay(r)
      /\ Host!Ready(r)
  BY DEF Host!Continue, Host!Ready, UnderWay
<1>2. /\ RunInv /\ r[1] \in Exts /\ activating[r[1]] = r /\ r # Host!NoRun
      /\ starts[r] \in Starts /\ Knows(r) /\ Owns(r)
  BY <1>1, RunFacts DEF HostInv, ManagerInv
<1>3. /\ starts[r].chain \in SUBSET Exts /\ starts[r].left \subseteq Host!Dependencies(r[1])
      /\ \A z \in starts[r].chain : z \in Exts /\ (z = r[1] \/ r[1] \in Host!Visited(z))
  BY <1>1, <1>2 DEF Knows, Starts
<1>4. CASE Host!DependencyFailed(r) /\ Host!Throw(r)
  <2>1. job.stack # <<>> => ~Host!CheckDependencies(r[1]) \/ ~Live
    BY <1>1, <1>4, TopFacts DEF FailuresSpread
  <2> QED BY <1>1, <1>4, <2>1, ThrowHost
<1>5. ASSUME NEW y \in starts[r].left, Host!Rejected(y, starts[r].chain), Host!Throw(r)
      PROVE  (SessInv /\ TurnInv)'
  <2>1. ~Host!CheckDependencies(r[1])
    BY <1>2, <1>3, <1>5, DependenciesChecked
  <2> QED BY <1>1, <1>5, <2>1, ThrowHost
<1>6. ASSUME ~Host!DependencyFailed(r), NEW y \in starts[r].left, ~Host!Rejected(y, starts[r].chain),
             Host!Activate(y, starts[r].chain,
                        [starts EXCEPT ![r].left = @ \ {y}, ![r].await = Host!Awaited(y)])
      PROVE  (SessInv /\ TurnInv)'
  <2>1. y \in Exts /\ y \in Host!Dependencies(r[1])
    BY <1>3, <1>6 DEF Host!Dependencies
  <2>2. Host!Awaited(y) \in AnyRun
    BY <1>2, <1>6, <2>1, AwaitTypes DEF Host!Activate
  <2>3. PICK others : others = [starts EXCEPT ![r].left = @ \ {y}, ![r].await = Host!Awaited(y)]
    OBVIOUS
  <2>4. PICK s : s = [starts[r] EXCEPT !.left = @ \ {y}, !.await = Host!Awaited(y)]
    OBVIOUS
  <2>5. /\ s \in Starts /\ s.at = starts[r].at /\ s.chain = starts[r].chain
        /\ s.left \subseteq starts[r].left /\ s.await = Host!Awaited(y)
    <3>1. PICK a \in AnyRun : a = Host!Awaited(y)
      BY <2>2
    <3> QED BY <1>2, <2>4, <3>1 DEF Starts
  <2>6. others = [starts EXCEPT ![r] = s]
    BY <1>2, <2>3, <2>4 DEF RunInv
  <2>7. others \in [Host!Runs -> Starts] /\ others[r] = s
        /\ \A q \in Host!Runs : q # r => others[q] = starts[q]
    BY <1>2, <2>5, <2>6 DEF RunInv
  <2>8. \A z \in starts[r].chain : z = y \/ y \in Host!Visited(z)
    BY <1>2, <1>3, <2>1, VisitedClosed
  <2>9. Live
    BY <1>1, <1>6 DEF Live
  <2>10. CallsStart(y, starts[r].chain, others)
    <3>1. ASSUME NEW q \in Host!Runs
          PROVE  /\ others[q].at = starts[q].at /\ others[q].chain = starts[q].chain
                 /\ others[q].left \subseteq starts[q].left
                 /\ \/ others[q].await = starts[q].await
                    \/ /\ Host!Ready(q) /\ ~Host!DependencyFailed(q)
                       /\ y \in Host!Dependencies(q[1]) /\ others[q].await = Host!Awaited(y)
      BY <1>1, <1>6, <2>1, <2>5, <2>7
    <3> QED BY <2>7, <2>8, <3>1 DEF CallsStart
  <2>11. \A x \in Exts : Unloading(x) => Unloading(x)'
    BY <1>1, SameUnloading
  <2> QED BY <1>1, <1>3, <1>6, <2>1, <2>3, <2>9, <2>10, <2>11, ActivateSession, ActivateTurn
<1>7. ASSUME starts' = [starts EXCEPT ![r].at = IF box[r[1]] = Host!NoRun
                                                THEN "frame" ELSE "unloading",
                                      ![r].await = Host!NoRun],
             lease' = [lease EXCEPT ![r[1]] = r],
             box' = [box EXCEPT ![r[1]] = IF @ = Host!NoRun THEN r ELSE Host!NoRun],
             state' = [state EXCEPT ![r[1]] = "validated"],
             UNCHANGED activating
      PROVE  (SessInv /\ TurnInv)'
  <2>1. /\ starts'[r].at = IF box[r[1]] = Host!NoRun THEN "frame" ELSE "unloading"
        /\ starts'[r].at \notin {"deps", "done", "thrown"}
        /\ \A q \in Host!Runs : q # r => starts'[q] = starts[q]
    BY <1>2, <1>7 DEF RunInv, Starts
  <2>2. /\ lease'[r[1]] = r /\ state'[r[1]] = "validated"
        /\ box'[r[1]] = IF box[r[1]] = Host!NoRun THEN r ELSE Host!NoRun
        /\ \A y \in Exts : y # r[1] => /\ state'[y] = state[y]
                                       /\ lease'[y] = lease[y] /\ box'[y] = box[y]
    BY <1>2, <1>7 DEF RunInv
  <2>3. Owns(r)' /\ Session(r[1])'
    BY <2>1, <2>2 DEF Owns, Session
  <2>4. SessInv'
    BY <1>1, <1>7, <2>1, <2>2, <2>3, MoveSession
  <2> QED BY <1>1, <1>7, <2>1, <2>2, <2>4, MoveTurn
<1> QED BY <1>4, <1>5, <1>6, <1>7 DEF Host!Continue

LEMMA CallHost ==
  ASSUME HostInv, NEW x \in Exts, Host!Call(x)
  PROVE  (SessInv /\ TurnInv)'
<1>1. /\ Host!Quiet /\ Host!Activate(x, {}, starts) /\ UNCHANGED <<present, enabled, job>>
      /\ starts \in [Host!Runs -> Starts]
  BY DEF Host!Call, HostInv, ManagerInv, RunInv
<1>2. CallsStart(x, {}, starts)
  BY <1>1 DEF CallsStart
<1>3. \A y \in Exts : Unloading(y) => Unloading(y)'
  BY <1>1, SameUnloading
<1> QED BY <1>1, <1>2, <1>3, ActivateSession, ActivateTurn

LEMMA UnloadedHost ==
  ASSUME HostInv, NEW r \in Host!Runs, Host!Unloaded(r)
  PROVE  (SessInv /\ TurnInv)'
<1>1. /\ starts[r].at = "unloading" /\ UnderWay(r)
      /\ UNCHANGED <<present, enabled, state, activating, lease, job>>
      /\ starts' = [starts EXCEPT ![r].at = "frame"] /\ box' = [box EXCEPT ![r[1]] = r]
  BY DEF Host!Unloaded, UnderWay, Host!At, Host!desc
<1>2. /\ RunInv /\ r[1] \in Exts /\ activating[r[1]] = r /\ r # Host!NoRun
      /\ starts[r] \in Starts /\ Owns(r) /\ Session(r[1])
  BY <1>1, RunFacts DEF HostInv, ManagerInv, SessInv
<1>3. starts'[r].at = "frame" /\ \A q \in Host!Runs : q # r => starts'[q] = starts[q]
  BY <1>1, <1>2 DEF RunInv, Starts
<1>4. box'[r[1]] = r /\ \A y \in Exts : y # r[1] => box'[y] = box[y]
  BY <1>1, <1>2 DEF RunInv
<1>5. Owns(r)'
  BY <1>3, <1>4 DEF Owns
<1>6. Session(r[1])'
  BY <1>1, <1>2, <1>4 DEF Session, Owns
<1>7. SessInv'
  BY <1>1, <1>3, <1>4, <1>5, <1>6, MoveSession
<1> QED BY <1>1, <1>3, <1>4, <1>7, MoveTurn


LEMMA RefusedHost ==
  ASSUME HostInv, NEW r \in Host!Runs, Host!TimedOut(r)
  PROVE  (SessInv /\ TurnInv)'
<1>1. /\ Host!Quiet /\ UnderWay(r) /\ Host!Throw(r) /\ UNCHANGED <<present, enabled, job>>
  BY DEF Host!TimedOut, Host!Refused, UnderWay
<1>2. job.stack # <<>> => ~Live
  BY <1>1, QuietTurn
<1> QED BY <1>1, <1>2, ThrowHost

\* The extension's activate has returned: what waits for it may go on.
LEMMA ActivatedHost ==
  ASSUME HostInv, NEW r \in Host!Runs, Host!Quiet, starts[r].at = "activate",
         Host!At(r, "done"), state' = [state EXCEPT ![r[1]] = "activated"],
         activating' = [activating EXCEPT ![r[1]] = Host!NoRun],
         UNCHANGED <<lease, box, job, present, enabled>>
  PROVE  (SessInv /\ TurnInv)'
<1>1. UnderWay(r)
  BY DEF UnderWay
<1>2. /\ RunInv /\ r[1] \in Exts /\ activating[r[1]] = r /\ r # Host!NoRun
      /\ starts[r] \in Starts /\ box[r[1]] = r /\ lease[r[1]] = r
  BY <1>1, RunFacts DEF HostInv, ManagerInv, SessInv, Owns, Session
<1>3. starts'[r].at = "done" /\ \A q \in Host!Runs : q # r => starts'[q] = starts[q]
  BY <1>2 DEF Host!At, RunInv, Starts
<1>4. /\ state'[r[1]] = "activated" /\ activating'[r[1]] = Host!NoRun
      /\ \A y \in Exts : y # r[1] => state'[y] = state[y] /\ activating'[y] = activating[y]
  BY <1>2 DEF RunInv
<1>5. ASSUME NEW q \in Host!Runs
      PROVE  (Knows(q) /\ Owns(q))'
  <2>1. CASE q = r
    BY <1>3, <2>1 DEF Knows, Owns
  <2>2. CASE q # r
    BY <1>3, <2>2, RunFacts DEF Knows, Owns
  <2> QED BY <2>1, <2>2
<1>6. ASSUME NEW y \in Exts
      PROVE  Session(y)'
  <2>1. CASE y = r[1]
    BY <1>2, <1>3, <1>4, <2>1 DEF Session
  <2>2. CASE y # r[1]
    <3>1. Session(y) /\ Unloading(y)' = Unloading(y)
      BY SameUnloading DEF HostInv, SessInv
    <3>2. box[y] # Host!NoRun => box[y] \in Host!Runs /\ box[y][1] = y
      BY <1>2 DEF RunInv, AnyRun
    <3>3. box[y] # Host!NoRun => starts'[box[y]].at = starts[box[y]].at
      BY <1>3, <2>2, <3>2
    <3> QED BY <1>4, <2>2, <3>1, <3>3, SameSession
  <2> QED BY <2>1, <2>2
<1>7. ASSUME job.stack # <<>>
      PROVE  (FailuresSpread /\ FramesInv /\ TopInv)'
  <2>1. PICK t : t = Host!Top /\ t = Host!Top' /\ t.x \in Exts /\ t.await \in AnyRun
    BY <1>7, TopFacts DEF Host!Top
  <2>2. /\ ~Live /\ \A q \in Host!Runs : ~Host!Ready(q)
        /\ t.at # "dependents" /\ ~(t.at = "waiting" /\ Host!Over(t.await))
        /\ ~(t.at = "deactivating" /\ box[t.x] = Host!NoRun)
    BY <1>7, <2>1, QuietTurn
  <2>3. FailuresSpread'
    <3> SUFFICES ASSUME NEW q \in Host!Runs, Host!Ready(q)', Host!DependencyFailed(q)'
                 PROVE  FALSE
      BY DEF FailuresSpread
    <3>1. q # r
      BY <1>3 DEF Host!Ready
    <3>2. PICK a \in AnyRun : a = starts[q].await /\ a = starts'[q].await
      BY <1>3, <3>1, RunFacts
    <3>3. a # r /\ a # Host!NoRun
      BY <1>3, <3>2 DEF Host!DependencyFailed
    <3>4. Host!Ready(q)
      BY <1>3, <3>1, <3>2, <3>3 DEF Host!Ready, Host!Over, AnyRun
    <3> QED BY <2>2, <3>4
  <2>4. FramesInv'
    <3>1. PICK s \in Seq(Frames) : s = job.stack /\ s = job'.stack
      BY <1>7, TopFrame DEF HostInv
    <3>2. PICK n \in Nat : n = Len(s)
      OBVIOUS
    <3>3. \A i \in 1..n : s[i].x \in Exts
      <4>1. \A i \in 1..n : s[i] \in Frames
        BY <3>2
      <4> QED BY <4>1 DEF Frames
    <3>4. \A i \in 2..n : i \in 1..n
      OBVIOUS
    <3>5. \A i \in 2..n : activating'[s[i].x] # Host!NoRun => activating[s[i].x] # Host!NoRun
      BY <1>4, <3>3, <3>4
    <3>6. \A y : Host!CheckDependencies(y)' = Host!CheckDependencies(y)
      BY SameChecks
    <3> QED BY <1>7, <3>1, <3>2, <3>5, <3>6, TopFacts DEF FramesInv
  <2>5. TopInv'
    <3>1. t.at = "waiting" /\ Host!Over(t.await)' => t.await = r
      BY <1>3, <2>1, <2>2 DEF Host!Over, AnyRun
    <3>2. t.await = r => t.x = r[1]
      BY <1>2, <1>7, <2>1, TopFacts
    <3>3. t.at = "deactivating" => /\ activating[t.x] = Host!NoRun /\ t.x # r[1]
                                   /\ box[t.x] # Host!NoRun /\ state[t.x] = "activated"
      BY <1>2, <1>7, <2>1, <2>2, TopFacts DEF TopInv
    <3> QED BY <1>4, <2>1, <2>2, <3>1, <3>2, <3>3 DEF TopInv
  <2> QED BY <2>3, <2>4, <2>5
<1> QED BY <1>5, <1>6, <1>7 DEF SessInv, TurnInv

LEMMA AnsweredHost ==
  ASSUME HostInv, NEW r \in Host!Runs, Host!Answered(r)
  PROVE  (SessInv /\ TurnInv)'
<1>1. /\ starts[r].at \in {"frame", "load", "activate"} /\ Host!Quiet /\ UnderWay(r)
      /\ UNCHANGED <<present, enabled, job>>
  BY DEF Host!Answered, UnderWay
<1>2. /\ RunInv /\ r[1] \in Exts /\ activating[r[1]] = r /\ r # Host!NoRun
      /\ starts[r] \in Starts /\ Owns(r) /\ Session(r[1])
  BY <1>1, RunFacts DEF HostInv, ManagerInv, SessInv
<1>3. ASSUME NEW spot \in {"load", "activate"}, Host!At(r, spot),
             UNCHANGED <<activating, lease, box>>,
             state' = state \/ state' = [state EXCEPT ![r[1]] = "loaded"]
      PROVE  (SessInv /\ TurnInv)'
  <2>1. starts'[r].at = spot /\ \A q \in Host!Runs : q # r => starts'[q] = starts[q]
    BY <1>2, <1>3 DEF Host!At, RunInv, Starts
  <2>2. /\ state'[r[1]] \in {state[r[1]], "loaded"}
        /\ \A y \in Exts : y # r[1] => state'[y] = state[y]
    BY <1>2, <1>3 DEF RunInv
  <2>3. Owns(r)'
    BY <1>1, <1>2, <1>3, <2>1 DEF Owns
  <2>4. Session(r[1])'
    BY <1>1, <1>2, <1>3, <2>2 DEF Session, Owns
  <2>5. SessInv'
    BY <1>1, <1>3, <2>1, <2>2, <2>3, <2>4, MoveSession
  <2> QED BY <1>1, <1>3, <2>1, <2>2, <2>5, MoveTurn
<1>4. CASE Host!Throw(r)
  <2>1. job.stack # <<>> => ~Live
    BY <1>1, QuietTurn
  <2> QED BY <1>1, <1>4, <2>1, ThrowHost
<1>5. ASSUME starts[r].at = "activate", Host!At(r, "done"),
             state' = [state EXCEPT ![r[1]] = "activated"],
             activating' = [activating EXCEPT ![r[1]] = Host!NoRun], UNCHANGED <<lease, box>>
      PROVE  (SessInv /\ TurnInv)'
  BY <1>1, <1>5, ActivatedHost
<1> QED BY <1>3, <1>4, <1>5 DEF Host!Answered

LEMMA CrashHost ==
  ASSUME HostInv, NEW x \in Exts, Host!Crash(x)
  PROVE  (SessInv /\ TurnInv)'
<1>1. /\ Host!Quiet /\ box[x] # Host!NoRun /\ starts[box[x]].at = "done" /\ Host!fail(x)
      /\ UNCHANGED <<present, enabled, starts, activating, job>>
  BY DEF Host!Crash
<1>2. RunInv
  BY DEF HostInv, ManagerInv
<1>3. /\ state'[x] = "failed" /\ lease'[x] = Host!NoRun /\ box'[x] = Host!NoRun
      /\ \A y \in Exts : y # x => /\ state'[y] = state[y]
                                  /\ lease'[y] = lease[y] /\ box'[y] = box[y]
  BY <1>1, <1>2 DEF Host!fail, RunInv
<1>4. ASSUME NEW q \in Host!Runs
      PROVE  (Knows(q) /\ Owns(q))'
  BY <1>1, <1>3, RunFacts DEF Knows, Owns
<1>5. ASSUME NEW y \in Exts
      PROVE  Session(y)'
  <2>1. CASE y = x
    BY <1>3, <2>1 DEF Session
  <2>2. CASE y # x
    <3>1. Session(y) /\ Unloading(y)' = Unloading(y)
      BY <1>1, SameUnloading DEF HostInv, SessInv
    <3> QED BY <1>1, <1>3, <2>2, <3>1, SameSession
  <2> QED BY <2>1, <2>2
<1>6. ASSUME job.stack # <<>>
      PROVE  (FailuresSpread /\ FramesInv /\ TopInv)'
  <2>1. PICK t : t = Host!Top /\ t = Host!Top' /\ t.x \in Exts /\ t.await \in AnyRun
    BY <1>1, <1>6, TopFacts DEF Host!Top
  <2>2. /\ ~Live /\ \A q \in Host!Runs : ~Host!Ready(q)
        /\ t.at # "dependents" /\ ~(t.at = "waiting" /\ Host!Over(t.await))
        /\ ~(t.at = "deactivating" /\ box[t.x] = Host!NoRun)
    BY <1>1, <1>6, <2>1, QuietTurn
  <2>3. /\ Live' = Live /\ Host!Over(t.await)' = Host!Over(t.await)
        /\ \A q \in Host!Runs : Host!Ready(q)' = Host!Ready(q)
    BY <1>1 DEF Live, Host!Ready, Host!Over, Host!DependencyFailed
  <2>4. \A y : Host!CheckDependencies(y)' = Host!CheckDependencies(y)
    BY <1>1, SameChecks
  <2>5. FramesInv'
    BY <1>1, <1>6, <2>4, TopFacts DEF FramesInv
  <2>6. TopInv'
    <3>1. t.at = "deactivating" => /\ activating[t.x] = Host!NoRun
                                   /\ box[t.x] # Host!NoRun /\ state[t.x] = "activated"
      BY <1>6, <2>1, <2>2, TopFacts DEF TopInv
    <3>2. t.at = "deactivating" =>
            /\ activating'[t.x] = Host!NoRun
            /\ \/ box'[t.x] # Host!NoRun /\ state'[t.x] = "activated"
               \/ box'[t.x] = Host!NoRun /\ ~Live'
      BY <1>1, <1>3, <2>1, <2>2, <2>3, <3>1
    <3> QED BY <2>1, <2>2, <2>3, <3>2 DEF TopInv
  <2> QED BY <2>2, <2>3, <2>5, <2>6 DEF FailuresSpread
<1> QED BY <1>1, <1>4, <1>5, <1>6 DEF SessInv, TurnInv


\* While the stop at the end of the stack is not at the sandbox, the sessions of
\* what is shown as activated are there.
LEMMA Standing ==
  ASSUME HostInv, job.stack # <<>>, Host!Top.at # "unloading", NEW x \in Exts
  PROVE  /\ Session(x) /\ ~Unloading(x)
         /\ state[x] = "activated" => box[x] # Host!NoRun /\ activating[x] = Host!NoRun
  BY DEF Unloading, HostInv, SessInv, Session

\* The turn does not change with the operation.
LEMMA SameTurn ==
  ASSUME UNCHANGED <<present, enabled, starts>>
  PROVE  /\ Live' = Live /\ FailuresSpread' = FailuresSpread
         /\ \A a : Host!Over(a)' = Host!Over(a)
         /\ \A y : Host!CheckDependencies(y)' = Host!CheckDependencies(y)
<1>1. \A y : Host!CheckDependencies(y)' = Host!CheckDependencies(y)
  BY SameChecks
<1>2. /\ Live' = Live /\ \A a : Host!Over(a)' = Host!Over(a)
      /\ \A q \in Host!Runs : Host!Ready(q)' = Host!Ready(q)
                           /\ Host!DependencyFailed(q)' = Host!DependencyFailed(q)
  BY DEF Live, Host!Ready, Host!Over, Host!DependencyFailed
<1> QED BY <1>1, <1>2 DEF FailuresSpread

\* The frame at the end of the stack goes on.
LEMMA PutFrame ==
  ASSUME HostInv, job.stack # <<>>, NEW f \in Frames, f.x = Host!Top.x, Host!Put(f),
         f.await # Host!NoRun => f.await[1] = f.x,
         UNCHANGED <<present, enabled, starts, activating>>
  PROVE  FailuresSpread' /\ FramesInv' /\ job'.stack # <<>> /\ Host!Top' = f
<1>1. PICK s \in Seq(Frames), n \in Nat \ {0} :
        /\ s = job.stack /\ n = Len(s) /\ Host!Top = s[n]
        /\ \A i \in 1..n : s[i].await # Host!NoRun => s[i].await[1] = s[i].x
        /\ \A i \in 2..n : activating[s[i].x] # Host!NoRun => Host!CheckDependencies(s[i].x)
  BY TopFrame, TopFacts DEF FramesInv, HostInv
<1>2. PICK t \in Seq(Frames) : t = job'.stack /\ Len(t) = n
                               /\ \A i \in 1..n : t[i] = IF i = n THEN f ELSE s[i]
  BY <1>1, PutJob DEF HostInv
<1>3. t # <<>> /\ t[n] = f /\ \A i \in 2..n : i \in 1..n
  BY <1>2
<1>4. \A i \in 1..n : t[i].x = s[i].x
  BY <1>1, <1>2
<1>5. \A i \in 1..n : t[i].await # Host!NoRun => t[i].await[1] = t[i].x
  BY <1>1, <1>2
<1>6. \A i \in 2..n : activating'[t[i].x] # Host!NoRun => Host!CheckDependencies(t[i].x)
  BY <1>1, <1>3, <1>4
<1>7. FramesInv'
  BY <1>2, <1>5, <1>6, SameTurn DEF FramesInv
<1> QED BY <1>2, <1>3, <1>7, SameTurn, TopFacts DEF Host!Top

\* A dependent is to be stopped first.
LEMMA PushFrame ==
  ASSUME HostInv, job.stack # <<>>, NEW f \in Frames, f.x = Host!Top.x, f.await = Host!Top.await,
         NEW y \in Exts, activating[y] = Host!NoRun,
         job' = [job EXCEPT !.stack = Append([@ EXCEPT ![Len(@)] = f], Host!Stop(y)[1])],
         UNCHANGED <<present, enabled, starts, activating>>
  PROVE  FailuresSpread' /\ FramesInv' /\ Host!Top'.at = "dependents"
<1>1. PICK s \in Seq(Frames), n \in Nat \ {0} :
        /\ s = job.stack /\ n = Len(s) /\ Host!Top = s[n]
        /\ \A i \in 1..n : s[i].await # Host!NoRun => s[i].await[1] = s[i].x
        /\ \A i \in 2..n : activating[s[i].x] # Host!NoRun => Host!CheckDependencies(s[i].x)
  BY TopFrame, TopFacts DEF FramesInv, HostInv
<1>2. PICK g \in Frames : /\ g = Host!Stop(y)[1] /\ g.x = y /\ g.at = "dependents"
                          /\ g.await = Host!NoRun
  BY StopFrame DEF Host!Stop
<1>3. PICK t : t = Append([s EXCEPT ![n] = f], g)
  OBVIOUS
<1>4. /\ Len(t) = n + 1 /\ t[n + 1] = g
      /\ \A i \in 1..n : t[i] = IF i = n THEN f ELSE s[i]
  <2>1. PICK u : u = [s EXCEPT ![n] = f]
    OBVIOUS
  <2>2. u \in Seq(Frames) /\ Len(u) = n /\ \A i \in 1..n : u[i] = IF i = n THEN f ELSE s[i]
    BY <1>1, <2>1
  <2>3. t = Append(u, g)
    BY <1>3, <2>1
  <2> QED BY <2>2, <2>3
<1>5. job'.stack = t
  BY <1>1, <1>2, <1>3, TopFrame DEF Job, HostInv
<1>6. \A i \in 1..(n + 1) : i \in 1..n \/ i = n + 1
  OBVIOUS
<1>7. \A i \in 2..(n + 1) : i \in 2..n \/ i = n + 1
  OBVIOUS
<1>8. \A i \in 2..n : i \in 1..n
  OBVIOUS
<1>9. \A i \in 1..n : t[i].x = s[i].x /\ t[i].await = s[i].await
  BY <1>1, <1>4
<1>10. \A i \in 1..(n + 1) : t[i].await # Host!NoRun => t[i].await[1] = t[i].x
  BY <1>1, <1>2, <1>4, <1>6, <1>9
<1>11. \A i \in 2..(n + 1) : activating'[t[i].x] # Host!NoRun => Host!CheckDependencies(t[i].x)
  BY <1>1, <1>2, <1>4, <1>7, <1>8, <1>9
<1>12. FramesInv'
  <2>1. \A z : Host!CheckDependencies(z)' = Host!CheckDependencies(z)
    BY SameTurn
  <2>2. \A i \in 2..(n + 1) :
          activating'[t[i].x] # Host!NoRun => Host!CheckDependencies(t[i].x)'
    BY <1>11, <2>1
  <2>3. Len(job'.stack) = n + 1
    BY <1>4, <1>5
  <2> QED BY <1>5, <1>10, <2>2, <2>3 DEF FramesInv
<1> QED BY <1>2, <1>4, <1>5, <1>12, SameTurn, TopFacts DEF Host!Top

LEMMA StopDependentsHost ==
  ASSUME HostInv, Host!StopDependents
  PROVE  (SessInv /\ TurnInv)'
<1>1. /\ job.stack # <<>> /\ Host!Top.at = "dependents"
      /\ UNCHANGED <<present, state, enabled, version, grants, stored, starts,
                     activating, lease, box>>
  BY DEF Host!StopDependents, Host!desc
<1>2. Host!Top \in Frames /\ ~Live
  BY <1>1, TopFrame, TopFacts DEF HostInv, TopInv
<1>3. SessInv'
  <2>1. \A r \in Host!Runs : (Knows(r) /\ Owns(r))'
    BY <1>1 DEF HostInv, SessInv, Knows, Owns
  <2>2. \A x \in Exts : Session(x)'
    BY <1>1, Standing DEF Session
  <2> QED BY <2>1, <2>2 DEF SessInv
<1>4. ASSUME NEW f \in Frames, f.x = Host!Top.x, Host!Put(f), f.await # Host!NoRun => f.await[1] = f.x,
             \/ f.at = "dependents"
             \/ f.at = "waiting" /\ f.await = activating[f.x] /\ f.x \in Exts
      PROVE  TurnInv'
  <2>1. FailuresSpread' /\ FramesInv' /\ Host!Top' = f /\ ~Live'
    BY <1>1, <1>2, <1>4, PutFrame, SameTurn
  <2>2. f.at = "waiting" /\ Host!Over(f.await)' => activating'[f.x] = Host!NoRun
    BY <1>1, <1>4, SameTurn DEF Host!Over, HostInv, ManagerInv, RunInv, UnderWay
  <2>3. TopInv'
    BY <1>4, <2>1, <2>2 DEF TopInv
  <2> QED BY <2>1, <2>3 DEF TurnInv
<1>5. ASSUME NEW y \in Host!Top.left
      PROVE  /\ y \in Exts
             /\ [Host!Top EXCEPT !.left = @ \ {y}] \in Frames
             /\ [Host!Top EXCEPT !.left = @ \ {y}].x = Host!Top.x
             /\ [Host!Top EXCEPT !.left = @ \ {y}].at = "dependents"
             /\ [Host!Top EXCEPT !.left = @ \ {y}].await = Host!Top.await
  BY <1>1, <1>2 DEF Frames
<1>6. ASSUME NEW y \in Host!Top.left, Host!Put([Host!Top EXCEPT !.left = @ \ {y}])
      PROVE  TurnInv'
  <2>1. PICK f : f = [Host!Top EXCEPT !.left = @ \ {y}]
    OBVIOUS
  <2> QED BY <1>1, <1>4, <1>5, <1>6, <2>1, TopFacts
<1>7. ASSUME NEW y \in Host!Top.left, state[y] = "activated",
             job' = [job EXCEPT !.stack =
                       Append([@ EXCEPT ![Len(@)] = [Host!Top EXCEPT !.left = @ \ {y}]], Host!Stop(y)[1])]
      PROVE  TurnInv'
  <2>1. PICK f : f = [Host!Top EXCEPT !.left = @ \ {y}]
    OBVIOUS
  <2>2. activating[y] = Host!NoRun
    BY <1>1, <1>5, <1>7, Standing
  <2>3. FailuresSpread' /\ FramesInv' /\ Host!Top'.at = "dependents" /\ ~Live'
    <3>1. f \in Frames /\ f.x = Host!Top.x /\ f.await = Host!Top.await /\ y \in Exts
      BY <1>5, <2>1
    <3>2. job' = [job EXCEPT !.stack = Append([@ EXCEPT ![Len(@)] = f], Host!Stop(y)[1])]
      BY <1>7, <2>1
    <3> QED BY <1>1, <1>2, <2>2, <3>1, <3>2, PushFrame, SameTurn
  <2>4. TopInv'
    BY <2>3 DEF TopInv
  <2> QED BY <2>3, <2>4 DEF TurnInv
<1>8. CASE Host!Put([Host!Top EXCEPT !.at = "waiting", !.await = Host!Stopping(Host!Top.x)])
  <2>1. PICK a \in AnyRun : a = activating[Host!Top.x] /\ (a # Host!NoRun => a[1] = Host!Top.x)
    BY <1>2 DEF Frames, HostInv, ManagerInv, RunInv
  <2>2. PICK f : f = [Host!Top EXCEPT !.at = "waiting", !.await = a]
    OBVIOUS
  <2>3. f \in Frames /\ f.x = Host!Top.x /\ f.x \in Exts /\ f.at = "waiting" /\ f.await = a
    BY <1>2, <2>2 DEF Frames, FramePlaces
  <2>4. Host!Put(f)
    BY <1>8, <2>1, <2>2 DEF Host!Stopping
  <2> QED BY <1>3, <1>4, <2>1, <2>3, <2>4
<1> QED BY <1>3, <1>6, <1>7, <1>8 DEF Host!StopDependents


\* The stop at the end of the stack is over: the one that waits for it goes on,
\* or nothing is being stopped any more.
LEMMA StoppedTurn ==
  ASSUME HostInv, job.stack # <<>>, Host!Stopped(Host!Top.x), Len(job.stack) > 1 => ~Live,
         UNCHANGED <<present, enabled, starts, activating>>
  PROVE  TurnInv'
<1>1. PICK s \in Seq(Frames), n \in Nat \ {0} :
        /\ s = job.stack /\ n = Len(s)
        /\ \A i \in 1..n : i # n => s[i].at = "dependents"
        /\ \A i \in 1..n : s[i].await # Host!NoRun => s[i].await[1] = s[i].x
        /\ \A i \in 2..n : activating[s[i].x] # Host!NoRun => Host!CheckDependencies(s[i].x)
  BY TopFrame, TopFacts DEF FramesInv, HostInv
<1>2. CASE n = 1
  <2>1. ManagerInv /\ Len(job.stack) = 1
    BY <1>1, <1>2 DEF HostInv
  <2>2. IsJob(job') /\ Stage' # "stop"
    BY <2>1, LastStopped DEF After
  <2>3. PICK u \in Seq(Frames) : u = job'.stack /\ ~(Len(u) > 0)
    BY <2>2 DEF IsJob, Job, Stage
  <2>4. u = <<>>
    BY <2>3
  <2> QED BY <2>3, <2>4 DEF TurnInv
<1>3. CASE n > 1
  <2>1. job' = [job EXCEPT !.stack = SubSeq(@, 1, Len(@) - 1)] /\ job \in Job
    BY <1>1, <1>3, TopFrame DEF Host!Stopped, HostInv
  <2>2. PICK m \in Nat \ {0} : n = m + 1 /\ m = n - 1
    BY <1>3
  <2>3. PICK t : t = SubSeq(s, 1, m)
    OBVIOUS
  <2>4. Len(t) = m /\ \A i \in 1..m : t[i] = s[i]
    BY <1>1, <2>2, <2>3
  <2>5. job'.stack = t
    BY <1>1, <2>1, <2>2, <2>3 DEF Job
  <2>6. m \in 1..m /\ m # n /\ \A i \in 1..m : i \in 1..n
    BY <2>2
  <2>7. \A i \in 2..m : i \in 2..n /\ i \in 1..m
    BY <2>2
  <2>8. Host!Top'.at = "dependents"
    BY <1>1, <2>4, <2>5, <2>6 DEF Host!Top
  <2>9. TopInv'
    BY <1>1, <1>3, <2>8, SameTurn DEF TopInv
  <2>10. \A i \in 1..m : t[i].await # Host!NoRun => t[i].await[1] = t[i].x
    BY <1>1, <2>4, <2>6
  <2>11. \A i \in 2..m : activating'[t[i].x] # Host!NoRun => Host!CheckDependencies(t[i].x)
    BY <1>1, <2>4, <2>7
  <2>12. FramesInv'
    BY <2>4, <2>5, <2>10, <2>11, SameTurn DEF FramesInv
  <2> QED BY <2>9, <2>12, SameTurn, TopFacts DEF TurnInv
<1>4. n = 1 \/ n > 1
  OBVIOUS
<1> QED BY <1>2, <1>3, <1>4

LEMMA StoppedHost ==
  ASSUME HostInv, job.stack # <<>>, Host!Stopped(Host!Top.x), Len(job.stack) > 1 => ~Live,
         UNCHANGED <<present, enabled, starts, activating, box>>,
         \/ UNCHANGED lease
         \/ /\ activating[Host!Top.x] = Host!NoRun /\ box[Host!Top.x] = Host!NoRun
            /\ lease' = [lease EXCEPT ![Host!Top.x] = Host!NoRun]
  PROVE  (SessInv /\ TurnInv)'
<1>1. PICK x \in Exts : x = Host!Top.x
  BY TopFacts
<1>2. RunInv
  BY DEF HostInv, ManagerInv
<1>3. /\ state'[x] # "activated"
      /\ \A y \in Exts : y # x => state'[y] = state[y] /\ lease'[y] = lease[y]
  BY <1>1, <1>2 DEF Host!Stopped, RunInv
<1>4. lease'[x] = lease[x] \/ (activating[x] = Host!NoRun /\ box[x] = Host!NoRun)
  BY <1>1
<1>5. ASSUME NEW r \in Host!Runs
      PROVE  (Knows(r) /\ Owns(r))'
  <2>1. UnderWay(r) => lease'[r[1]] = lease[r[1]]
    BY <1>3, <1>4, RunFacts
  <2> QED BY <2>1, RunFacts DEF Knows, Owns, UnderWay
<1>6. ASSUME NEW y \in Exts
      PROVE  Session(y)'
  <2>1. Session(y)
    BY DEF HostInv, SessInv
  <2>2. CASE y = x
    BY <1>3, <1>4, <2>1, <2>2 DEF Session
  <2>3. CASE y # x
    <3>1. ~Unloading(y)
      BY <1>1, <2>3 DEF Unloading
    <3> QED BY <1>3, <2>1, <2>3, <3>1 DEF Session
  <2> QED BY <2>2, <2>3
<1> QED BY <1>5, <1>6, StoppedTurn DEF SessInv

LEMMA StopUnloadedHost ==
  ASSUME HostInv, Host!StopUnloaded
  PROVE  (SessInv /\ TurnInv)'
<1>1. /\ job.stack # <<>> /\ Host!Quiet /\ Host!Stopped(Host!Top.x)
      /\ UNCHANGED <<present, enabled, starts, activating, box, lease>>
  BY DEF Host!StopUnloaded
<1> QED BY <1>1, QuietTurn, StoppedHost

\* The resources go, then the session.
LEMMA FinallyHost ==
  ASSUME HostInv, job.stack # <<>>, Host!Top.at # "unloading", Host!Finally(Host!Top.x),
         UNCHANGED <<present, enabled, stored, starts, activating>>,
         activating[Host!Top.x] = Host!NoRun,
         box[Host!Top.x] = Host!NoRun /\ Len(job.stack) > 1 => ~Live
  PROVE  (SessInv /\ TurnInv)'
<1>1. PICK x \in Exts : x = Host!Top.x
  BY TopFacts
<1>2. RunInv /\ Host!Top \in Frames
  BY TopFrame DEF HostInv, ManagerInv
<1>3. CASE box[x] = Host!NoRun
  BY <1>1, <1>3, StoppedHost DEF Host!Finally
<1>4. CASE box[x] # Host!NoRun
  <2>1. /\ lease' = [lease EXCEPT ![x] = Host!NoRun] /\ box' = [box EXCEPT ![x] = Host!NoRun]
        /\ Host!Put([Host!Top EXCEPT !.at = "unloading"]) /\ UNCHANGED state
    BY <1>1, <1>4 DEF Host!Finally
  <2>2. PICK f : f = [Host!Top EXCEPT !.at = "unloading"]
    OBVIOUS
  <2>3. f \in Frames /\ f.x = x /\ f.at = "unloading" /\ f.await = Host!Top.await
    BY <1>1, <1>2, <2>2 DEF Frames, FramePlaces
  <2>4. FailuresSpread' /\ FramesInv' /\ job'.stack # <<>> /\ Host!Top' = f
    BY <1>1, <2>1, <2>2, <2>3, PutFrame, TopFacts
  <2>5. /\ lease'[x] = Host!NoRun /\ box'[x] = Host!NoRun
        /\ \A y \in Exts : y # x => lease'[y] = lease[y] /\ box'[y] = box[y]
    BY <1>2, <2>1 DEF RunInv
  <2>6. ASSUME NEW r \in Host!Runs
        PROVE  (Knows(r) /\ Owns(r))'
    <3>1. UnderWay(r) => r[1] # x
      BY <1>1, RunFacts
    <3> QED BY <2>5, <3>1, RunFacts DEF Knows, Owns, UnderWay
  <2>7. ASSUME NEW y \in Exts
        PROVE  Session(y)'
    <3>1. Session(y) /\ ~Unloading(y)
      BY Standing
    <3>2. CASE y = x
      <4>1. Unloading(y)'
        BY <2>3, <2>4, <3>2 DEF Unloading
      <4> QED BY <1>1, <2>5, <3>2, <4>1 DEF Session
    <3>3. CASE y # x
      BY <2>1, <2>5, <3>1, <3>3 DEF Session
    <3> QED BY <3>2, <3>3
  <2>8. TopInv'
    BY <2>3, <2>4 DEF TopInv
  <2> QED BY <2>4, <2>6, <2>7, <2>8 DEF SessInv, TurnInv
<1> QED BY <1>3, <1>4

LEMMA DeactivateHost ==
  ASSUME HostInv, Host!Deactivate
  PROVE  (SessInv /\ TurnInv)'
<1>1. /\ job.stack # <<>> /\ Host!Top.at = "waiting" /\ Host!Over(Host!Top.await)
      /\ UNCHANGED <<present, enabled, stored, starts, activating>>
  BY DEF Host!Deactivate
<1>2. PICK x \in Exts : x = Host!Top.x
  BY <1>1, TopFacts
<1>3. /\ activating[x] = Host!NoRun
      /\ state[x] = "activated" \/ ~Live \/ Len(job.stack) = 1
  BY <1>1, <1>2, TopFacts DEF TopInv
<1>4. ASSUME state[x] = "activated", box[x] # Host!NoRun,
             Host!Put([Host!Top EXCEPT !.at = "deactivating"]), UNCHANGED <<lease, box, state>>
      PROVE  (SessInv /\ TurnInv)'
  <2>1. PICK f : f = [Host!Top EXCEPT !.at = "deactivating"]
    OBVIOUS
  <2>2. f \in Frames /\ f.x = x /\ f.at = "deactivating" /\ f.await = Host!Top.await
    BY <1>1, <1>2, <2>1, TopFrame DEF Frames, FramePlaces, HostInv
  <2>3. FailuresSpread' /\ FramesInv' /\ job'.stack # <<>> /\ Host!Top' = f
    BY <1>1, <1>2, <1>4, <2>1, <2>2, PutFrame, TopFacts
  <2>4. \A r \in Host!Runs : (Knows(r) /\ Owns(r))'
    BY <1>1, <1>4 DEF HostInv, SessInv, Knows, Owns
  <2>5. \A y \in Exts : Session(y)'
    BY <1>1, <1>4, Standing DEF Session
  <2>6. TopInv'
    BY <1>1, <1>3, <1>4, <2>2, <2>3 DEF TopInv
  <2> QED BY <2>3, <2>4, <2>5, <2>6 DEF SessInv, TurnInv
<1>5. ASSUME Host!Finally(Host!Top.x), ~(state[x] = "activated" /\ box[x] # Host!NoRun)
      PROVE  (SessInv /\ TurnInv)'
  <2>1. box[Host!Top.x] = Host!NoRun /\ Len(job.stack) > 1 => ~Live
    <3>1. box[x] = Host!NoRun => state[x] # "activated"
      BY <1>1, Standing
    <3>2. PICK n \in Nat : n = Len(job.stack)
      BY <1>1, TopFacts
    <3>3. n = 1 => ~(n > 1)
      OBVIOUS
    <3> QED BY <1>2, <1>3, <3>1, <3>2, <3>3
  <2> QED BY <1>1, <1>2, <1>3, <1>5, <2>1, FinallyHost
<1> QED BY <1>2, <1>4, <1>5 DEF Host!Deactivate

LEMMA DeactivatedHost ==
  ASSUME HostInv, Host!Deactivated
  PROVE  (SessInv /\ TurnInv)'
<1>1. /\ job.stack # <<>> /\ Host!Top.at = "deactivating" /\ Host!Finally(Host!Top.x)
      /\ UNCHANGED <<present, enabled, stored, starts, activating>>
  BY DEF Host!Deactivated
<1>2. /\ activating[Host!Top.x] = Host!NoRun
      /\ box[Host!Top.x] = Host!NoRun /\ Len(job.stack) > 1 => ~Live
  BY <1>1, TopFacts DEF TopInv
<1> QED BY <1>1, <1>2, FinallyHost


\* Outside of a stop, what is stored and shown changes when no run is ready.
LEMMA StoreSession ==
  ASSUME HostInv, job.stack = <<>>,
         UNCHANGED <<starts, activating, lease, box>>,
         \A x \in Exts : state'[x] = "activated" => state[x] = "activated"
  PROVE  SessInv'
<1>1. \A r \in Host!Runs : (Knows(r) /\ Owns(r))'
  BY DEF HostInv, SessInv, Knows, Owns
<1>2. \A x \in Exts : Session(x)'
  BY DEF HostInv, SessInv, Session, Unloading
<1> QED BY <1>1, <1>2 DEF SessInv

\* An operation between two stages has no stop under way.
LEMMA NoStop ==
  ASSUME JobInv, Stage # "stop"
  PROVE  job.stack = <<>>
<1>1. CASE job = Host!Idle
  BY <1>1, IdleJob
<1>2. CASE IsJob(job)
  <2>1. PICK s \in Seq(Frames) : s = job.stack /\ ~(Len(s) > 0)
    BY <1>2 DEF IsJob, Job, Stage
  <2> QED BY <2>1
<1> QED BY <1>1, <1>2 DEF JobInv

\* It begins with a frame that looks at its dependents.
LEMMA StopTurn ==
  ASSUME HostInv, ~Live, \A q \in Host!Runs : ~Host!Ready(q), UNCHANGED starts,
         job'.stack = <<>> \/ \E x \in Exts : job'.stack = Host!Stop(x)
  PROVE  TurnInv'
<1>1. CASE job'.stack = <<>>
  BY <1>1 DEF TurnInv
<1>2. ASSUME NEW x \in Exts, job'.stack = Host!Stop(x)
      PROVE  TurnInv'
  <2>1. PICK f : f = [x |-> x, at |-> "dependents", left |-> Exts \ {x}, await |-> Host!NoRun]
    OBVIOUS
  <2>2. f.at = "dependents" /\ f.await = Host!NoRun
    BY <2>1
  <2>3. PICK s : s = Host!Stop(x) /\ s = <<f>>
    BY <2>1 DEF Host!Stop
  <2>4. Len(s) = 1 /\ s[1] = f
    BY <2>3
  <2>5. Live' = Live /\ \A q \in Host!Runs : Host!Ready(q)' = Host!Ready(q)
    BY DEF Live, Host!Ready, Host!Over, Host!DependencyFailed
  <2>6. FailuresSpread'
    BY <2>5 DEF FailuresSpread
  <2>7. \A i \in 1..1 : i = 1
    OBVIOUS
  <2>8. \A i \in 2..1 : FALSE
    OBVIOUS
  <2>9. FramesInv'
    BY <1>2, <2>2, <2>3, <2>4, <2>7, <2>8 DEF FramesInv
  <2>10. TopInv'
    BY <1>2, <2>2, <2>3, <2>4, <2>5 DEF TopInv, Host!Top
  <2> QED BY <2>6, <2>9, <2>10 DEF TurnInv
<1> QED BY <1>1, <1>2

LEMMA QuietRuns ==
  ASSUME Host!Quiet
  PROVE  ~Live /\ \A q \in Host!Runs : ~Host!Ready(q)
  BY DEF Host!Quiet, Live

LEMMA StorageDoneHost ==
  ASSUME HostInv, Host!StorageDone
  PROVE  (SessInv /\ TurnInv)'
<1>1. /\ \E s : Host!Stage(s)
      /\ Host!Next_(job) /\ UNCHANGED <<starts, activating, lease, box>>
  BY DEF Host!StorageDone
<1>2. Host!Quiet /\ job.todo # <<>>
  BY <1>1 DEF Host!Stage
<1>3. RunInv /\ JobInv
  BY DEF HostInv, ManagerInv
<1>4. Stage # "stop" /\ job.stack = <<>> /\ job.x \in Exts
  <2>1. Stage \in {"install", "update", "replace", "remove"} /\ job.x \in Exts
    BY StageJob DEF Host!StorageDone, HostInv
  <2> QED BY <1>3, <2>1, NoStop
<1>5. \A x \in Exts : state'[x] = "activated" => state[x] = "activated"
  BY <1>3 DEF Host!StorageDone, RunInv, Host!desc
<1>6. job'.stack = <<>> \/ \E x \in Exts : job'.stack = Host!Stop(x)
  <2>1. PICK o : o = [job EXCEPT !.todo = Tail(@), !.stack = <<>>]
    OBVIOUS
  <2>2. IsJob(job)
    BY <1>1, StageJob DEF HostInv
  <2>3. o.x = job.x /\ o.stack = <<>> /\ [o EXCEPT !.stack = Host!Stop(o.x)].stack = Host!Stop(o.x)
    BY <2>1, <2>2 DEF IsJob, Job
  <2>4. job' = [o EXCEPT !.stack = Host!Stop(o.x)] \/ job' = o
    BY <1>1, <2>1 DEF Host!Next_, Host!To
  <2> QED BY <1>4, <2>3, <2>4
<1> QED BY <1>1, <1>2, <1>4, <1>5, <1>6, QuietRuns, StoreSession, StopTurn

LEMMA StorageFailedHost ==
  ASSUME HostInv, Host!StorageFailed
  PROVE  (SessInv /\ TurnInv)'
<1>1. job' = Host!Idle /\ UNCHANGED <<starts, activating, lease, box>>
  BY DEF Host!StorageFailed
<1>2. RunInv /\ JobInv
  BY DEF HostInv, ManagerInv
<1>3. job.stack = <<>>
  <2>1. Stage \in {"install", "update", "replace", "remove"}
    BY StageJob DEF Host!StorageFailed, HostInv
  <2> QED BY <1>2, <2>1, NoStop
<1>4. \A x \in Exts : state'[x] = "activated" => state[x] = "activated"
  BY <1>2 DEF Host!StorageFailed, Host!TakenBack, RunInv
<1>5. job'.stack = <<>>
  BY <1>1, IdleJob
<1> QED BY <1>1, <1>3, <1>4, <1>5, StoreSession DEF TurnInv

LEMMA BeginHost ==
  ASSUME HostInv, NEW kind \in Host!Kinds, NEW x \in Exts, NEW g \in AllGrants,
         Host!Begin(kind, x, g)
  PROVE  (SessInv /\ TurnInv)'
<1>1. /\ job = Host!Idle /\ Host!Quiet /\ UNCHANGED <<starts, activating, lease, box>>
      /\ Host!To([Host!Idle EXCEPT !.kind = kind, !.x = x, !.todo = Host!Program(kind), !.grants = g])
  BY DEF Host!Begin
<1>2. RunInv
  BY DEF HostInv, ManagerInv
<1>3. job.stack = <<>>
  BY <1>1, IdleJob
<1>4. \A y \in Exts : state'[y] = "activated" => state[y] = "activated"
  BY <1>2 DEF Host!Begin, RunInv, Host!desc
<1>5. job'.stack = <<>> \/ \E y \in Exts : job'.stack = Host!Stop(y)
  <2>1. PICK o : o = [Host!Idle EXCEPT !.kind = kind, !.x = x, !.todo = Host!Program(kind), !.grants = g]
    OBVIOUS
  <2>2. o.x = x /\ o.stack = <<>> /\ [o EXCEPT !.stack = Host!Stop(x)].stack = Host!Stop(x)
    BY <2>1 DEF Host!Idle
  <2>3. job' = [o EXCEPT !.stack = Host!Stop(x)] \/ job' = o
    BY <1>1, <2>1, <2>2 DEF Host!To
  <2> QED BY <2>2, <2>3
<1> QED BY <1>1, <1>3, <1>4, <1>5, QuietRuns, StoreSession, StopTurn


LEMMA ActivateAfterHost ==
  ASSUME HostInv, Host!ActivateAfter
  PROVE  (SessInv /\ TurnInv)'
<1>1. /\ UNCHANGED <<present, enabled>> /\ job.todo = <<"activate">> /\ Stage = "activate"
      /\ JobInv /\ RunInv
  BY Tails DEF Host!ActivateAfter, Stage, HostInv, ManagerInv
<1>2. job.stack = <<>>
  BY <1>1, NoStop
<1>3. job # Host!Idle
  BY <1>1, IdleJob, Tails
<1>4. job \in Job /\ job.x \in Exts
  BY <1>1, <1>3 DEF JobInv, IsJob, Job
<1>5. job'.stack = <<>>
  BY <1>2, <1>4 DEF Host!ActivateAfter, Job
<1>6. CASE Host!Activate(job.x, {}, starts)
  <2>1. PICK x \in Exts : x = job.x
    BY <1>4
  <2>2. CallsStart(x, {}, starts)
    BY <1>1 DEF CallsStart, RunInv
  <2>3. \A y \in Exts : Unloading(y) => Unloading(y)'
    BY <1>2 DEF Unloading
  <2> QED BY <1>5, <1>6, <2>1, <2>2, <2>3, ActivateSession DEF TurnInv
<1>7. CASE UNCHANGED <<starts, activating, state, lease, box>>
  <2>1. SessInv'
    BY <1>2, <1>7, StoreSession
  <2> QED BY <1>5, <2>1 DEF TurnInv
<1> QED BY <1>6, <1>7 DEF Host!ActivateAfter

LEMMA EndHost ==
  ASSUME HostInv, Host!End
  PROVE  (SessInv /\ TurnInv)'
<1>1. /\ job.todo = <<>> /\ job' = Host!Idle
      /\ UNCHANGED <<present, state, enabled, starts, activating, lease, box>>
  BY DEF Host!End, Host!desc
<1>2. Stage # "stop"
  BY <1>1, Tails DEF Stage
<1>3. job.stack = <<>> /\ job'.stack = <<>>
  BY <1>1, <1>2, NoStop, IdleJob DEF HostInv, ManagerInv
<1> QED BY <1>1, <1>3, StoreSession DEF TurnInv

LEMMA StutterHost ==
  ASSUME HostInv, UNCHANGED Host!vars
  PROVE  (SessInv /\ TurnInv)'
<1>1. UNCHANGED <<present, state, enabled, starts, activating, lease, box, job>>
  BY DEF Host!vars, Host!desc
<1>2. \A r \in Host!Runs : (Knows(r) /\ Owns(r))'
  BY <1>1 DEF HostInv, SessInv, Knows, Owns
<1>3. \A x \in Exts : Session(x)'
  BY <1>1 DEF HostInv, SessInv, Session, Unloading, Host!Top
<1>4. TurnInv'
  BY <1>1, SameTurn DEF HostInv, TurnInv, FramesInv, TopInv, Host!Top
<1> QED BY <1>2, <1>3, <1>4 DEF SessInv

LEMMA InitHost == Host!Assumptions /\ Host!Init => HostInv
<1> SUFFICES ASSUME Host!Assumptions, Host!Init
             PROVE  HostInv
  OBVIOUS
<1>1. ManagerInv
  BY InitManager
<1>2. /\ \A x \in Exts : state[x] # "activated" /\ box[x] = Host!NoRun
      /\ \A r \in Host!Runs : starts[r].at = "thrown"
  BY StartTypes DEF Host!Init
<1>3. SessInv
  BY <1>2 DEF SessInv, Knows, Owns, Session
<1>4. TurnInv
  BY IdleJob DEF Host!Init, TurnInv
<1> QED BY <1>1, <1>3, <1>4 DEF HostInv

LEMMA HostStep ==
  ASSUME HostInv, [Host!Next]_(Host!vars)
  PROVE  HostInv'
<1> SUFFICES (SessInv /\ TurnInv)'
  BY ManagerStep DEF HostInv
<1>1. CASE Host!Continuations
  BY <1>1, ContinueHost, StopDependentsHost, DeactivateHost, ActivateAfterHost, EndHost
     DEF Host!Continuations
<1>2. CASE Host!Answers
  BY <1>2, StorageDoneHost, StorageFailedHost, DeactivatedHost, StopUnloadedHost DEF Host!Answers
<1>3. CASE Host!Triggers
  BY <1>3, CallHost, CrashHost DEF Host!Triggers
<1>4. CASE Host!Operations
  <2>1. PICK kind \in Host!Kinds, x \in Exts :
          \E g \in IF kind \in {"enable", "update"} THEN Grants ELSE {{}} : Host!Begin(kind, x, g)
    BY <1>4 DEF Host!Operations
  <2>2. PICK g \in AllGrants : Host!Begin(kind, x, g)
    BY <2>1 DEF AllGrants
  <2> QED BY <2>2, BeginHost
<1>5. ASSUME NEW r \in Host!Runs, Host!Unloaded(r) \/ Host!Answered(r) \/ Host!TimedOut(r)
      PROVE  (SessInv /\ TurnInv)'
  BY <1>5, UnloadedHost, AnsweredHost, RefusedHost
<1>6. CASE UNCHANGED Host!vars
  BY <1>6, StutterHost
<1> QED BY <1>1, <1>2, <1>3, <1>4, <1>5, <1>6 DEF Host!Next

\* No sandbox outlives its lease, and what shows as activated has its session, or
\* stop is taking it down, whatever is activated between its steps (manager.ts
\* start, fail and stop).
THEOREM ActivatedHaveSessions ==
  Host!Assumptions /\ Host!Spec => []ActivatedHasSession
<1>1. Host!Assumptions /\ Host!Init => HostInv
  BY InitHost
<1>2. HostInv /\ [Host!Next]_(Host!vars) => HostInv'
  BY HostStep
<1>3. HostInv => ActivatedHasSession
  <2> SUFFICES ASSUME HostInv, NEW x \in Exts
               PROVE  /\ box[x] # Host!NoRun => lease[x] = box[x]
                      /\ state[x] = "activated" =>
                           \/ box[x] # Host!NoRun /\ starts[box[x]].at = "done"
                           \/ \E i \in DOMAIN job.stack :
                                job.stack[i].x = x /\ job.stack[i].at = "unloading"
    BY DEF ActivatedHasSession, Host!ActivatedHasSession
  <2>1. Session(x)
    BY DEF HostInv, SessInv
  <2>2. Unloading(x) => \E i \in DOMAIN job.stack :
                          job.stack[i].x = x /\ job.stack[i].at = "unloading"
    BY TopFacts DEF Unloading
  <2> QED BY <2>1, <2>2 DEF Session
<1>4. CASE Host!Assumptions
  BY <1>1, <1>2, <1>3, <1>4, PTL DEF Host!Spec
<1> QED BY <1>4
================================================================================
