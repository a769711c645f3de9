-------------------------- MODULE ExtensionManager --------------------------
(***************************************************************************)
(* ExtensionManager of src/lib/extensions/manager.ts with its loader and   *)
(* its sandboxes (sandbox-runtime.ts).  Installing, enabling, disabling,   *)
(* updating, reloading and removing go through one queue (serial);         *)
(* activations do not: a command, a view or an event starts one between    *)
(* any two steps of an operation.  The program is single-threaded: a       *)
(* continuation that is ready runs before the next message, answer or      *)
(* timer (Quiet).  Versions and grants are small sets, what a manifest     *)
(* declares is chosen when it matters; the version range of a dependency,  *)
(* new dependencies of an update and configurations are left out.          *)
(***************************************************************************)
EXTENDS Naturals, Sequences, FiniteSets

CONSTANTS Exts,
          Deps,          \* <<x, y>>: the manifest of x names y as a dependency
          Eager,         \* the extensions with an activation event that holds
          Grants,        \* the sets of permissions a user may grant and a manifest declare
          MaxVersion,    \* bound of the versions of an extension
          MaxRuns,       \* bound of the runs of an extension that are referred to
          StorageFails   \* whether a call of the storage may fail

\* What an instance has to provide.
Assumptions == Exts # {} /\ MaxVersion \in Nat \ {0} /\ MaxRuns \in Nat

VARIABLES
  present,   \* the extensions of the registry
  state, enabled, version, grants,            \* their descriptors
  stored,    \* what the storage has of them
  starts,    \* the runs of start() that something still refers to
  activating,\* the run under way of an extension, or NoRun
  lease,     \* the run that owns the resources of an extension
  box,       \* the run whose sandbox is alive
  op         \* the operation at the head of the queue

desc == <<present, state, enabled, version, grants>>
vars == <<desc, stored, starts, activating, lease, box, op>>

States == {"absent", "validated", "loaded", "activated", "failed", "deactivated"}
Kinds == {"install", "enable", "disable", "uninstall", "update", "reload"}
NoRun == <<>>
Runs == Exts \X (1..MaxRuns)
Places == {"deps", "unloading", "frame", "load", "activate", "done", "thrown"}
NoStore == [enabled |-> FALSE, version |-> 0, grants |-> {}]
Idle == [kind |-> "none", x |-> CHOOSE x \in Exts : TRUE, todo |-> <<>>,
         stack |-> <<>>, await |-> NoRun, grants |-> {}, restore |-> {}]

NoStart == [at |-> "thrown", left |-> {}, await |-> NoRun, chain |-> {}]

TypeOK ==
  /\ present \subseteq Exts
  /\ state \in [Exts -> States]
  /\ enabled \in [Exts -> BOOLEAN]
  /\ version \in [Exts -> 0..MaxVersion]
  /\ grants \in [Exts -> SUBSET UNION Grants]
  /\ \A x \in Exts : stored[x].version \in 0..MaxVersion
  /\ \A r \in Runs : starts[r].at \in Places /\ starts[r].left \subseteq Exts
  /\ \A x \in Exts : {activating[x], lease[x], box[x]} \subseteq {NoRun} \cup {r \in Runs : r[1] = x}
  /\ \A x \in Exts : activating[x] # NoRun => starts[activating[x]].at \notin {"done", "thrown"}
  /\ op.kind \in Kinds \cup {"none"}

\* discover: some extensions were stored, enabled or not.
Init ==
  /\ present \in SUBSET Exts
  /\ enabled \in [Exts -> BOOLEAN] /\ \A x \in Exts : enabled[x] => x \in present
  /\ state = [x \in Exts |-> IF x \in present THEN "validated" ELSE "absent"]
  /\ version = [x \in Exts |-> IF x \in present THEN 1 ELSE 0]
  /\ grants = [x \in Exts |-> {}]
  /\ stored = [x \in Exts |-> [enabled |-> enabled[x], version |-> version[x], grants |-> {}]]
  /\ starts = [r \in Runs |-> NoStart]
  /\ activating = [x \in Exts |-> NoRun] /\ lease = activating /\ box = activating
  /\ op = Idle

-----------------------------------------------------------------------------
(* Activation *)

Dependencies(x) == {y \in Exts : <<x, y>> \in Deps}
Over(r) == r # NoRun => starts[r].at \in {"done", "thrown"}

\* All that checkDependencies visits from x before it ends or repeats itself:
\* the dependencies of x and theirs.
Visited(x) ==
  {y \in Exts : \A S \in SUBSET Exts :
     Dependencies(x) \subseteq S /\ (\A z \in S : Dependencies(z) \subseteq S) => y \in S}

Acyclic(x) == \A y \in Visited(x) \cup {x} : y \notin Visited(y)

CheckDependencies(x) == Acyclic(x) /\ Visited(x) \subseteq {y \in present : enabled[y]}

fail(x) ==
  /\ state' = [state EXCEPT ![x] = "failed"]
  /\ lease' = [lease EXCEPT ![x] = NoRun]
  /\ box' = [box EXCEPT ![x] = NoRun]

NewStart(x, chain) ==
  [NoStart EXCEPT !.at = "deps", !.left = Dependencies(x), !.chain = chain \cup {x}]

\* The places for a run that nothing refers to any more, and the one taken.
FreeRuns(x) ==
  {r \in Runs :
    /\ r[1] = x /\ starts[r].at \in {"done", "thrown"} /\ r \notin {lease[x], box[x]}
    /\ op.await # r /\ \A i \in DOMAIN op.stack : op.stack[i].await # r
    /\ \A s \in Runs : starts[s].at = "deps" => starts[s].await # r}

Free(x) == CHOOSE r \in FreeRuns(x) : TRUE

Rejected(x, chain) == x \in chain \/ x \notin present \/ ~enabled[x]

\* Mutant of Joined: the map of activations under way is not looked at.
JoinedNever(x) == FALSE

Joined(x) == activating[x] # NoRun

\* The run a caller of activate(x) waits for, when it is not rejected.
Awaited(x) ==
  IF state[x] = "activated" THEN NoRun ELSE IF Joined(x) THEN activating[x] ELSE Free(x)

\* The synchronous part of activate(x): it is active already, its activation is
\* joined, or one is started.  `others` are the runs as the caller leaves them.
Activate(x, chain, others) ==
  \/ /\ state[x] = "activated" \/ Joined(x)
     /\ starts' = others
     /\ UNCHANGED <<activating, state, lease, box>>
  \/ /\ state[x] # "activated" /\ ~Joined(x)
     /\ FreeRuns(x) # {}
     /\ IF CheckDependencies(x)
        THEN /\ starts' = [others EXCEPT ![Free(x)] = NewStart(x, chain)]
             /\ activating' = [activating EXCEPT ![x] = Free(x)]
             /\ UNCHANGED <<state, lease, box>>
        ELSE /\ starts' = [others EXCEPT ![Free(x)] = NoStart]
             /\ fail(x)
             /\ UNCHANGED activating

At(r, place) == starts' = [starts EXCEPT ![r].at = place]

\* start() has thrown: whatever the extension has is taken down.
Throw(r) ==
  /\ starts' = [starts EXCEPT ![r] = NoStart]
  /\ fail(r[1])
  /\ activating' = [activating EXCEPT ![r[1]] = NoRun]

DependencyFailed(r) == starts[r].await # NoRun /\ starts[starts[r].await].at = "thrown"

\* The loop over the dependencies, then the lease and load up to its await: a
\* sandbox that is still there is taken down first.
Continue(r) ==
  LET s == starts[r] x == r[1] IN
  /\ s.at = "deps" /\ Over(s.await)
  /\ \/ DependencyFailed(r) /\ Throw(r)
     \/ /\ ~DependencyFailed(r)
        /\ \E y \in s.left :
             \/ Rejected(y, s.chain) /\ Throw(r)
             \/ /\ ~Rejected(y, s.chain)
                /\ Activate(y, s.chain,
                            [starts EXCEPT ![r].left = @ \ {y}, ![r].await = Awaited(y)])
     \/ /\ ~DependencyFailed(r) /\ s.left = {}
        /\ starts' = [starts EXCEPT ![r].at = IF box[x] = NoRun THEN "frame" ELSE "unloading",
                                    ![r].await = NoRun]
        /\ lease' = [lease EXCEPT ![x] = r]
        /\ box' = [box EXCEPT ![x] = IF @ = NoRun THEN r ELSE NoRun]
        /\ state' = [state EXCEPT ![x] = "validated"]
        /\ UNCHANGED activating
  /\ UNCHANGED <<present, enabled, version, grants, stored, op>>

\* The continuations that are ready.
Ready(r) == starts[r].at = "deps" /\ Over(starts[r].await)
Top == op.stack[Len(op.stack)]
ReadyOp ==
  /\ op.kind # "none"
  /\ \/ op.todo = <<>> /\ Over(op.await)
     \/ /\ op.todo # <<>> /\ Head(op.todo) = "activate"
     \/ /\ op.stack # <<>>
        /\ \/ Top.at = "dependents"
           \/ Top.at = "waiting" /\ Over(Top.await)
           \/ Top.at = "deactivating" /\ box[Top.x] = NoRun
Quiet == ~ReadyOp /\ \A r \in Runs : ~Ready(r)

\* executeCommand, revealView, trigger and the extensions' own views.reveal.
Call(x) ==
  /\ ~Rejected(x, {}) /\ state[x] # "activated" /\ ~Joined(x)
  /\ Quiet
  /\ Activate(x, {}, starts)
  /\ UNCHANGED <<present, enabled, version, grants, stored, op>>

\* The old sandbox is gone, the frame of the new one is made.
Unloaded(r) ==
  /\ starts[r].at = "unloading" /\ Quiet
  /\ At(r, "frame")
  /\ box' = [box EXCEPT ![r[1]] = r]
  /\ UNCHANGED <<desc, stored, activating, lease, op>>

\* The frame is there, the code is loaded, the extension's activate returns.
Answered(r) ==
  LET x == r[1] IN
  /\ starts[r].at \in {"frame", "load", "activate"} /\ Quiet
  /\ \/ /\ starts[r].at = "frame"
        /\ At(r, "load")
        /\ UNCHANGED <<state, activating, lease, box>>
     \/ /\ starts[r].at = "load"
        /\ At(r, "activate")
        /\ state' = [state EXCEPT ![x] = "loaded"]
        /\ UNCHANGED <<activating, lease, box>>
     \/ /\ starts[r].at = "activate"
        /\ IF enabled[x]
           THEN /\ At(r, "done")
                /\ state' = [state EXCEPT ![x] = "activated"]
                /\ activating' = [activating EXCEPT ![x] = NoRun]
                /\ UNCHANGED <<lease, box>>
           ELSE Throw(r)
  /\ UNCHANGED <<present, enabled, version, grants, stored, op>>

\* A startup or a request fails or times out while start() waits for it.
Refused(r) ==
  /\ starts[r].at \in {"frame", "load", "activate"} /\ Quiet
  /\ Throw(r)
  /\ UNCHANGED <<present, enabled, version, grants, stored, op>>

\* A session crashes, or a request to it times out, after its start.
Crash(x) ==
  /\ box[x] # NoRun /\ starts[box[x]].at = "done" /\ lease[x] = box[x]
  /\ Quiet
  /\ fail(x)
  /\ UNCHANGED <<present, enabled, version, grants, stored, starts, activating, op>>

-----------------------------------------------------------------------------
(* The operations of the queue *)

Program(kind) ==
  CASE kind = "install" -> <<"install">>
    [] kind = "enable" -> <<"stop", "update", "activate">>
    [] kind = "disable" -> <<"update", "stop">>
    [] kind = "uninstall" -> <<"update", "stop", "remove">>
    [] kind = "update" -> <<"stop", "replace", "activate">>
    [] kind = "reload" -> <<"stop", "activate">>

\* Mutant of Stopping: stop does not wait for an activation under way.
StoppingAtOnce(x) == NoRun

Stopping(x) == activating[x]

Stop(x) == <<[x |-> x, at |-> "dependents", left |-> Exts \ {x}, await |-> NoRun]>>

\* The operation o goes on to its next stage; a stop begins at once.
To(o) ==
  op' = IF o.todo # <<>> /\ Head(o.todo) = "stop" THEN [o EXCEPT !.stack = Stop(o.x)] ELSE o

Next_(o) == To([o EXCEPT !.todo = Tail(@), !.stack = <<>>])

\* An operation starts; g is what an enable grants and what the manifest of an
\* update declares.  An install registers the extension before it is stored.  The
\* new code of a reload has the manifest of the old and is not stored.
Begin(kind, x, g) ==
  /\ op = Idle /\ Quiet
  /\ (x \in present) = (kind # "install")
  /\ To([Idle EXCEPT !.kind = kind, !.x = x, !.todo = Program(kind), !.grants = g])
  /\ \/ /\ kind = "install"
        /\ present' = present \cup {x}
        /\ state' = [state EXCEPT ![x] = "validated"]
        /\ version' = [version EXCEPT ![x] = 1]
        /\ enabled' = [enabled EXCEPT ![x] = FALSE]
        /\ grants' = [grants EXCEPT ![x] = {}]
     \/ /\ kind # "install" /\ (kind = "update" => version[x] < MaxVersion)
        /\ UNCHANGED desc
  /\ UNCHANGED <<stored, starts, activating, lease, box>>

\* One step of stop: the dependents that are active are stopped first, then the
\* activation under way is waited for, then the session is deactivated.
Put(frame) == op' = [op EXCEPT !.stack[Len(op.stack)] = frame]

StopDependents ==
  /\ op.stack # <<>> /\ Top.at = "dependents"
  /\ \/ \E y \in Top.left :
          LET rest == [Top EXCEPT !.left = @ \ {y}] IN
          IF state[y] = "activated" /\ <<y, Top.x>> \in Deps
          THEN op' = [op EXCEPT !.stack = Append([@ EXCEPT ![Len(@)] = rest], Stop(y)[1])]
          ELSE Put(rest)
     \/ /\ Top.left = {}
        /\ Put([Top EXCEPT !.at = "waiting", !.await = Stopping(Top.x)])
  /\ UNCHANGED <<desc, stored, starts, activating, lease, box>>

\* The end of stop(x): its caller, a stop or the operation, goes on.  After the
\* stop of an update the descriptor has the new version already, and of the
\* grants those its manifest declares.
Stopped(x) ==
  IF Len(op.stack) = 1 /\ op.kind = "update"
  THEN /\ Next_([op EXCEPT !.restore = grants[x]])
       /\ version' = [version EXCEPT ![x] = @ + 1]
       /\ grants' = [grants EXCEPT ![x] = @ \cap op.grants]
       /\ state' = [state EXCEPT ![x] = "validated"]
  ELSE /\ IF Len(op.stack) > 1
          THEN op' = [op EXCEPT !.stack = SubSeq(@, 1, Len(@) - 1)]
          ELSE Next_(op)
       /\ state' = [state EXCEPT ![x] = "deactivated"]
       /\ UNCHANGED <<version, grants>>

\* The finally of stop: the resources go, then the sandbox if there is one.
Finally(x) ==
  /\ lease' = [lease EXCEPT ![x] = NoRun]
  /\ IF box[x] = NoRun
     THEN Stopped(x) /\ UNCHANGED box
     ELSE /\ box' = [box EXCEPT ![x] = NoRun]
          /\ Put([Top EXCEPT !.at = "unloading"])
          /\ UNCHANGED <<state, version, grants>>

Deactivate ==
  /\ op.stack # <<>> /\ Top.at = "waiting" /\ Over(Top.await)
  /\ IF state[Top.x] = "activated" /\ box[Top.x] # NoRun
     THEN /\ Put([Top EXCEPT !.at = "deactivating"])
          /\ UNCHANGED <<lease, box, state, version, grants>>
     ELSE Finally(Top.x)
  /\ UNCHANGED <<present, enabled, stored, starts, activating>>

Deactivated ==
  /\ op.stack # <<>> /\ Top.at = "deactivating"
  /\ box[Top.x] # NoRun => Quiet
  /\ Finally(Top.x)
  /\ UNCHANGED <<present, enabled, stored, starts, activating>>

StopUnloaded ==
  /\ op.stack # <<>> /\ Top.at = "unloading" /\ Quiet
  /\ Stopped(Top.x)
  /\ UNCHANGED <<present, enabled, stored, starts, activating, lease, box>>

Stage(name) == op.todo # <<>> /\ Head(op.todo) = name /\ Quiet

\* storage.install, update, replace and remove succeed.
StorageDone ==
  LET x == op.x IN
  /\ stored[x] # NoStore \/ Stage("install")
  /\ \/ /\ Stage("install")
        /\ stored' = [stored EXCEPT ![x] = [enabled |-> FALSE, version |-> version[x], grants |-> {}]]
        /\ UNCHANGED desc
     \/ /\ Stage("update") /\ op.kind = "enable"
        /\ stored' = [stored EXCEPT ![x].enabled = TRUE, ![x].grants = op.grants]
        /\ enabled' = [enabled EXCEPT ![x] = TRUE]
        /\ grants' = [grants EXCEPT ![x] = op.grants]
        /\ state' = [state EXCEPT ![x] = "validated"]
        /\ UNCHANGED <<present, version>>
     \/ /\ Stage("update") /\ op.kind # "enable"
        /\ stored' = [stored EXCEPT ![x].enabled = FALSE, ![x].grants = grants[x]]
        /\ enabled' = [enabled EXCEPT ![x] = FALSE]
        /\ UNCHANGED <<present, state, version, grants>>
     \/ /\ Stage("replace")
        /\ stored' = [stored EXCEPT ![x].version = version[x], ![x].grants = @ \cap op.grants]
        /\ UNCHANGED desc
     \/ /\ Stage("remove")
        /\ stored' = [stored EXCEPT ![x] = NoStore]
        /\ present' = present \ {x}
        /\ state' = [state EXCEPT ![x] = "absent"]
        /\ version' = [version EXCEPT ![x] = 0]
        /\ grants' = [grants EXCEPT ![x] = {}]
        /\ UNCHANGED enabled
  /\ Next_(op)
  /\ UNCHANGED <<starts, activating, lease, box>>

\* Mutant of TakenBack: the descriptor keeps the new version and its grants.
TakenBackNot(x) == state' = [state EXCEPT ![x] = "deactivated"] /\ UNCHANGED <<version, grants>>

\* An update that could not be stored: the descriptor is as it was after the stop.
TakenBack(x) ==
  /\ state' = [state EXCEPT ![x] = "deactivated"]
  /\ version' = [version EXCEPT ![x] = @ - 1]
  /\ grants' = [grants EXCEPT ![x] = op.restore]

\* They fail: the operation ends, an install and an update are taken back.  A
\* removal that fails may have removed the package already.
StorageFailed ==
  LET x == op.x IN
  /\ StorageFails
  /\ \/ /\ Stage("install")
        /\ present' = present \ {x}
        /\ state' = [state EXCEPT ![x] = "absent"]
        /\ version' = [version EXCEPT ![x] = 0]
        /\ UNCHANGED <<grants, stored>>
     \/ Stage("replace") /\ TakenBack(x) /\ UNCHANGED <<present, stored>>
     \/ Stage("update") /\ UNCHANGED <<present, state, version, grants, stored>>
     \/ /\ Stage("remove")
        /\ stored' \in {stored, [stored EXCEPT ![x] = NoStore]}
        /\ UNCHANGED <<present, state, version, grants>>
  /\ op' = Idle
  /\ UNCHANGED <<enabled, starts, activating, lease, box>>

\* The activation at the end of enable, update and reload.
ActivateAfter ==
  LET x == op.x IN
  /\ op.todo = <<"activate">>
  /\ IF ~Rejected(x, {}) /\ (op.kind = "reload" \/ x \in Eager)
     THEN Activate(x, {}, starts) /\ op' = [op EXCEPT !.todo = <<>>, !.await = Awaited(x)]
     ELSE /\ op' = [op EXCEPT !.todo = <<>>]
          /\ UNCHANGED <<starts, activating, state, lease, box>>
  /\ UNCHANGED <<present, enabled, version, grants, stored>>

End ==
  /\ op.kind # "none" /\ op.todo = <<>> /\ Over(op.await)
  /\ op' = Idle
  /\ UNCHANGED <<desc, stored, starts, activating, lease, box>>

-----------------------------------------------------------------------------

Continuations == StopDependents \/ Deactivate \/ ActivateAfter \/ End
  \/ \E r \in Runs : Continue(r)

\* Mutant of TimedOut: the requests to a sandbox have no timeout.
TimedOutNever(r) == FALSE

TimedOut(r) == Refused(r)

\* The runs of an extension are unloaded or given up.
Settles(x) == \E r \in Runs : r[1] = x /\ (Unloaded(r) \/ TimedOut(r))

Answers == StorageDone \/ StorageFailed \/ Deactivated \/ StopUnloaded

Triggers == \E x \in Exts : Call(x) \/ Crash(x)
Operations == \E kind \in Kinds, x \in Exts :
                \E g \in IF kind \in {"enable", "update"} THEN Grants ELSE {{}} : Begin(kind, x, g)

Next ==
  \/ Continuations \/ Answers \/ Triggers \/ Operations
  \/ \E r \in Runs : Unloaded(r) \/ Answered(r) \/ TimedOut(r)

Spec == Init /\ [][Next]_vars

\* Continuations run, storage answers, a deactivation is answered or times out,
\* and so does every wait of a start for its sandbox; a timer is not starved by
\* the other tasks of the event loop.  Nothing is assumed of the extensions.
Fairness ==
  /\ WF_vars(Continuations) /\ SF_vars(Answers)
  /\ \A x \in Exts : SF_vars(Settles(x))

-----------------------------------------------------------------------------
(* Properties *)

\* A session that runs may speak: no sandbox outlives its lease, and an
\* extension that shows as activated has a session, but for the moment in which
\* stop takes it down (manager.ts start, fail and stop, whose awaits let other
\* activations in between).
ActivatedHasSession ==
  \A x \in Exts :
    /\ box[x] # NoRun => lease[x] = box[x]
    /\ state[x] = "activated" =>
         \/ box[x] # NoRun /\ starts[box[x]].at = "done"
         \/ \E i \in DOMAIN op.stack : op.stack[i].x = x /\ op.stack[i].at = "unloading"

\* An extension that is disabled or removed has no session left once its
\* operation is over, whatever was being activated when it began
\* (disableExtension, uninstallExtension).
DisabledIsSilent ==
  \A x \in Exts : ~enabled[x] /\ (op = Idle \/ op.x # x) =>
                     lease[x] = NoRun /\ box[x] = NoRun /\ state[x] # "activated"

\* Between operations the storage has of every extension the version, the grants
\* and the switch that the manager shows, also when one of the storage's steps
\* failed (installExtension to updateExtension); only an extension whose removal
\* failed may be shown and stored no more, and it is off.
StoredIsShown ==
  op = Idle =>
    \A x \in Exts :
      IF stored[x] = NoStore
      THEN x \in present => ~enabled[x] /\ state[x] = "deactivated"
      ELSE /\ x \in present
           /\ stored[x] = [enabled |-> enabled[x], version |-> version[x], grants |-> grants[x]]

\* An operation of the queue ends, although it waits for activations that wait
\* for each other, for code of extensions and for the storage (serial).
EveryOperationEnds == op.kind # "none" ~> op = Idle

\* What the test "disabling a dependency stops its active dependents" states:
\* no extension is active whose dependency was disabled.
DependentsAreStopped ==
  op = Idle => \A x, y \in Exts : <<x, y>> \in Deps /\ state[x] = "activated" => enabled[y]
=============================================================================
