--------------------------- MODULE ExtensionStore ---------------------------
(***************************************************************************)
(* operate of src-tauri/src/community_extensions.rs for one extension: its *)
(* directory with package.json and storage.json, the staging directory of  *)
(* an installation, and write_json, which fills a .pending file and renames*)
(* it.  Operations hold a lock; each call of the file system may fail, and *)
(* the program may stop after any of them.                                 *)
(***************************************************************************)
CONSTANTS Archives, NoFile, Partial

Packages == [archive : Archives, enabled : BOOLEAN]
Settings == {"old", "new"}

VARIABLES
  dirs,      \* the directories that exist
  files,     \* package and storage of the extension, staged of the staging directory
  pending,   \* their .pending files
  op         \* the operation: [kind, target, value, at]

vars == <<dirs, files, pending, op>>

Targets == {"package", "storage", "staged"}
Home(f) == IF f = "staged" THEN "staging" ELSE "main"
NoOp == [kind |-> "none", target |-> "package", value |-> NoFile, at |-> "out"]

TypeOK ==
  /\ dirs \subseteq {"main", "staging"}
  /\ files["package"] \in Packages \cup {NoFile} /\ files["staged"] \in Packages \cup {NoFile}
  /\ files["storage"] \in Settings \cup {NoFile}
  /\ DOMAIN files = Targets /\ DOMAIN pending = Targets
  /\ op.kind \in {"none", "install", "change", "remove", "set"}
  /\ op.at \in {"out", "start", "empty", "mkdir", "write", "filled", "rename", "publish", "ok"}

Init ==
  /\ dirs = {}
  /\ files = [f \in Targets |-> NoFile] /\ pending = [f \in Targets |-> NoFile]
  /\ op = NoOp

At(place) == op' = [op EXCEPT !.at = place]
In(dir) == {f \in Targets : Home(f) = dir}
Files(dir) == {f \in In(dir) : files[f] # NoFile \/ pending[f] # NoFile}

Call(kind, target, value) ==
  /\ op = NoOp
  /\ op' = [kind |-> kind, target |-> target, value |-> value, at |-> "start"]
  /\ UNCHANGED <<dirs, files, pending>>

\* install, replace and update (which keep the rest of the package), remove, set.
Operations ==
  \/ \E a \in Archives : Call("install", "staged", [archive |-> a, enabled |-> FALSE])
  \/ files["package"] # NoFile /\
       \/ \E a \in Archives : Call("change", "package", [files["package"] EXCEPT !.archive = a])
       \/ \E e \in BOOLEAN : Call("change", "package", [files["package"] EXCEPT !.enabled = e])
  \/ Call("remove", "package", NoFile)
  \/ \E v \in Settings : Call("set", "storage", v)

Installed == "main" \in dirs /\ files["package"] # NoFile

Free == "main" \notin dirs

\* The checks at the beginning of an operation.
Permitted ==
  CASE op.kind = "install" -> Free
    [] op.kind = "set" -> Installed /\ files["package"].enabled
    [] OTHER -> Installed

\* What was left of an earlier installation is removed first.
Begin ==
  /\ op.at = "start" /\ Permitted
  /\ CASE op.kind = "remove" -> At("empty")
       [] op.kind = "install" -> At(IF "staging" \in dirs THEN "empty" ELSE "mkdir")
       [] OTHER -> At("write")
  /\ UNCHANGED <<dirs, files, pending>>

\* remove_dir_all: the files in any order, then the directory.
Emptied == IF op.kind = "remove" THEN "main" ELSE "staging"
Delete ==
  /\ op.at = "empty"
  /\ \/ \E f \in Files(Emptied) :
          /\ \/ files' = [files EXCEPT ![f] = NoFile] /\ UNCHANGED pending
             \/ pending' = [pending EXCEPT ![f] = NoFile] /\ UNCHANGED files
          /\ UNCHANGED <<dirs, op>>
     \/ /\ Files(Emptied) = {}
        /\ dirs' = dirs \ {Emptied}
        /\ At(IF op.kind = "remove" THEN "ok" ELSE "mkdir")
        /\ UNCHANGED <<files, pending>>

MakeDirectory ==
  /\ op.at = "mkdir"
  /\ dirs' = dirs \cup {"staging"}
  /\ At("write")
  /\ UNCHANGED <<files, pending>>

\* Mutant of Written: the file itself is written, without a .pending file.
WrittenInPlace == files' = [files EXCEPT ![op.target] = Partial] /\ UNCHANGED pending

Written == pending' = [pending EXCEPT ![op.target] = Partial] /\ UNCHANGED files

\* write_json: an old .pending file goes, a new one is made, filled and synced,
\* and renamed.
Create ==
  /\ op.at = "write"
  /\ IF pending[op.target] # NoFile
     THEN pending' = [pending EXCEPT ![op.target] = NoFile] /\ UNCHANGED <<files, op>>
     ELSE Written /\ At("filled")
  /\ UNCHANGED dirs

Fill ==
  /\ op.at = "filled"
  /\ pending' = [pending EXCEPT ![op.target] = op.value]
  /\ At("rename")
  /\ UNCHANGED <<dirs, files>>

Rename ==
  /\ op.at = "rename"
  /\ files' = [files EXCEPT ![op.target] = pending[op.target]]
  /\ pending' = [pending EXCEPT ![op.target] = NoFile]
  /\ At(IF op.kind = "install" THEN "publish" ELSE "ok")
  /\ UNCHANGED dirs

\* The staging directory becomes the extension's.
Publish ==
  /\ op.at = "publish"
  /\ dirs' = (dirs \ {"staging"}) \cup {"main"}
  /\ files' = [files EXCEPT !["package"] = files["staged"], !["staged"] = NoFile]
  /\ At("ok")
  /\ UNCHANGED pending

\* The operation returns; an error of any call ends it, and so does a crash.
Return == op.at = "ok" /\ op' = NoOp /\ UNCHANGED <<dirs, files, pending>>
Stops == op.kind # "none" /\ op.at # "ok" /\ op' = NoOp /\ UNCHANGED <<dirs, files, pending>>

Next ==
  \/ Operations \/ Begin \/ Delete \/ MakeDirectory \/ Create \/ Fill \/ Rename \/ Publish
  \/ Return \/ Stops

Spec == Init /\ [][Next]_vars

-----------------------------------------------------------------------------
(* Properties *)

Stored == IF Installed THEN files["package"] ELSE NoFile
Effected ==
  \/ op.at = "ok"
  \/ op.kind = "remove" /\ op.at = "empty" /\ ~Installed
Store == INSTANCE AtomicStore WITH
           Packages <- Packages, NoPackage <- NoFile,
           stored <- Stored, call <- op.kind, done <- Effected

\* The store keeps its promise (operate, write_json): whatever fails, the next
\* start finds the package as it was or as it was to be, and nothing else.
StoreIsAtomic == Store!Spec
=============================================================================
