----------------------------- MODULE AppUpgrade -----------------------------
(***************************************************************************)
(* The replacement of the installed personal application                   *)
(* (scripts/upgrade_personal.py): an upgrade looks at the application, the *)
(* build and the live data, stages the build beside the target, moves the  *)
(* old application away and the new one in, and undoes that when a later   *)
(* step fails.  Upgrades exclude each other with a file lock; the owner's  *)
(* other tools and the running application know nothing of it.             *)
(***************************************************************************)
EXTENDS Integers, FiniteSets

CONSTANTS Upgrades,    \* runs of the script
          Builds,      \* contents of an application
          NoApp,       \* nothing at that path
          MaxMeddling  \* bound: changes by others, failures of a step, kills

ASSUME UpgradeAssumption == NoApp \notin Builds \cup Upgrades /\ MaxMeddling \in Nat

Contents == Builds \cup {NoApp}

VARIABLES
  target, source, data,  \* the installed application, the build, the live data
  staged, previous,      \* of each upgrade: its copy of the build, what it moved away
  seen,                  \* what its manifests were taken of: [target, source, data]
  step,                  \* where it is
  record,               \* what its upgrade.json, or else its report, says
  movedOld, installedNew, \* its two flags
  flock, removed,        \* who holds the lock; others took the application away
  meddling               \* how much of the bound is used

auvars == <<target, source, data, staged, previous, seen, step, record, movedOld,
            installedNew, flock, removed, meddling>>

AUInit ==
  /\ target \in Builds /\ source \in Builds /\ data = 0
  /\ staged = [g \in Upgrades |-> NoApp] /\ previous = [g \in Upgrades |-> NoApp]
  /\ seen = [g \in Upgrades |-> [target |-> NoApp, source |-> NoApp, data |-> 0]]
  /\ step = [g \in Upgrades |-> "plan"] /\ record = [g \in Upgrades |-> "none"]
  /\ movedOld = [g \in Upgrades |-> FALSE] /\ installedNew = [g \in Upgrades |-> FALSE]
  /\ flock = NoApp /\ removed = FALSE /\ meddling = 0

world == <<target, source, data, removed>>
flags == <<movedOld, installedNew>>
To(g, s) == step' = [step EXCEPT ![g] = s]
Says(g, r) == record' = [record EXCEPT ![g] = r]
Mishap == meddling < MaxMeddling /\ meddling' = meddling + 1
Leaves(g) == To(g, "over") /\ flock' = IF flock = g THEN NoApp ELSE flock
Unchanged(g) == seen[g] = [target |-> target, source |-> source, data |-> data]

-----------------------------------------------------------------------------
\* The plan is made without the lock, and refuses a target that is not there.
PlanUpgrade(g) ==
  /\ step[g] = "plan"
  /\ IF target = NoApp THEN Leaves(g) ELSE To(g, "lock") /\ UNCHANGED flock
  /\ UNCHANGED <<world, staged, previous, seen, record, flags, meddling>>

\* Mutant: the lock is taken without looking who has it.
TakeUpgradeLockAnyway(g) ==
  /\ step[g] = "lock"
  /\ flock' = g /\ To(g, "look")
  /\ UNCHANGED <<world, staged, previous, seen, record, flags, meddling>>

TakeUpgradeLock(g) ==
  /\ step[g] = "lock"
  /\ IF flock = NoApp THEN flock' = g /\ To(g, "look") ELSE Leaves(g)
  /\ UNCHANGED <<world, staged, previous, seen, record, flags, meddling>>

\* All inputs are read again; the same application is only validated.
LookAgain(g) ==
  /\ step[g] = "look"
  /\ seen' = [seen EXCEPT ![g] = [target |-> target, source |-> source, data |-> data]]
  /\ IF target = NoApp THEN Leaves(g) /\ UNCHANGED record
     ELSE IF target = source THEN To(g, "same") /\ UNCHANGED <<record, flock>>
     ELSE To(g, "stage") /\ Says(g, "preparing") /\ UNCHANGED flock
  /\ UNCHANGED <<world, staged, previous, flags, meddling>>

\* The validator may refuse it; either way nothing is touched.
ValidateSame(g) ==
  /\ step[g] = "same" /\ Leaves(g)
  /\ Says(g, IF Unchanged(g) THEN "already" ELSE "none")
  /\ UNCHANGED <<world, staged, previous, seen, flags, meddling>>

\* Data and build are copied, compared and validated.
StageBuild(g) ==
  /\ step[g] = "stage"
  /\ staged' = [staged EXCEPT ![g] = source]
  /\ To(g, IF source = seen[g].source /\ data = seen[g].data THEN "recheck" ELSE "undo")
  /\ UNCHANGED <<world, previous, seen, record, flags, flock, meddling>>

RecheckInputs(g) ==
  /\ step[g] = "recheck"
  /\ To(g, IF Unchanged(g) THEN "moveOld" ELSE "undo")
  /\ UNCHANGED <<world, staged, previous, seen, record, flags, flock, meddling>>

\* target.rename(previous): whatever is there by now.
MoveOldAway(g) ==
  /\ step[g] = "moveOld"
  /\ IF target = NoApp THEN To(g, "undo") /\ UNCHANGED <<target, previous, movedOld>>
     ELSE /\ previous' = [previous EXCEPT ![g] = target] /\ target' = NoApp
          /\ movedOld' = [movedOld EXCEPT ![g] = TRUE] /\ To(g, "note")
  /\ UNCHANGED <<source, data, removed, staged, seen, record, installedNew, flock, meddling>>

NoteMove(g) ==
  /\ step[g] = "note" /\ Says(g, "backedUp") /\ To(g, "moveNew")
  /\ UNCHANGED <<world, staged, previous, seen, flags, flock, meddling>>

\* A directory cannot be renamed over one that has contents.
MoveNewIn(g) ==
  /\ step[g] = "moveNew"
  /\ IF target # NoApp THEN To(g, "undo") /\ UNCHANGED <<target, staged, installedNew>>
     ELSE /\ target' = staged[g] /\ staged' = [staged EXCEPT ![g] = NoApp]
          /\ installedNew' = [installedNew EXCEPT ![g] = TRUE] /\ To(g, "verify")
  /\ UNCHANGED <<source, data, removed, previous, seen, record, movedOld, flock, meddling>>

VerifyInstalled(g) ==
  /\ step[g] = "verify"
  /\ To(g, IF target = seen[g].source /\ data = seen[g].data THEN "finish" ELSE "undo")
  /\ UNCHANGED <<world, staged, previous, seen, record, flags, flock, meddling>>

FinishUpgrade(g) ==
  /\ step[g] = "finish" /\ Says(g, "installed") /\ Leaves(g)
  /\ UNCHANGED <<world, staged, previous, seen, flags, meddling>>

-----------------------------------------------------------------------------
(* The exception handler.                                                  *)

\* A candidate that is still its own is moved out of the way.
UndoNew(g) ==
  /\ step[g] = "undo"
  /\ IF installedNew[g] /\ target = seen[g].source
       THEN target' = NoApp /\ installedNew' = [installedNew EXCEPT ![g] = FALSE]
       ELSE UNCHANGED <<target, installedNew>>
  /\ To(g, "restore")
  /\ UNCHANGED <<source, data, removed, staged, previous, seen, record, movedOld, flock, meddling>>

\* Mutant: the receipt calls every failure rolled back.
RestoreOldClaims(g) ==
  /\ step[g] = "restore"
  /\ IF movedOld[g] /\ target = NoApp
       THEN target' = previous[g] /\ previous' = [previous EXCEPT ![g] = NoApp]
       ELSE UNCHANGED <<target, previous>>
  /\ To(g, "rolledBack")
  /\ UNCHANGED <<source, data, removed, staged, seen, record, flags, flock, meddling>>

\* The old application goes back when nothing took its place.
RestoreOld(g) ==
  /\ step[g] = "restore"
  /\ IF movedOld[g] /\ target = NoApp
       THEN target' = previous[g] /\ previous' = [previous EXCEPT ![g] = NoApp]
       ELSE UNCHANGED <<target, previous>>
  /\ To(g, IF movedOld[g] /\ target # NoApp THEN "notRolledBack" ELSE "rolledBack")
  /\ UNCHANGED <<source, data, removed, staged, seen, record, flags, flock, meddling>>

NoteFailure(g) ==
  /\ step[g] \in {"rolledBack", "notRolledBack"}
  /\ Says(g, step[g]) /\ Leaves(g)
  /\ UNCHANGED <<world, staged, previous, seen, flags, meddling>>

-----------------------------------------------------------------------------
(* What goes wrong.                                                        *)

\* A copy, a comparison, a validation, a rename or a receipt raises.
StepFails(g) ==
  /\ Mishap /\ step[g] \in {"stage", "recheck", "moveOld", "note", "moveNew", "verify", "finish"}
  /\ To(g, "undo")
  /\ UNCHANGED <<world, staged, previous, seen, record, flags, flock>>

\* One of the handler's own steps raises, or the process is killed: nothing
\* more is written, and the lock is gone.
UpgradeDies(g) ==
  /\ Mishap /\ step[g] \notin {"plan", "over"}
  /\ Leaves(g)
  /\ UNCHANGED <<world, staged, previous, seen, record, flags>>

\* Another installer, the build and the running application.
OthersWrite ==
  /\ Mishap
  /\ \/ target' \in Contents \ {target} /\ removed' = (target' = NoApp)
        /\ UNCHANGED <<source, data>>
     \/ source' \in Builds \ {source} /\ UNCHANGED <<target, data, removed>>
     \/ data' = data + 1 /\ UNCHANGED <<target, source, removed>>
  /\ UNCHANGED <<staged, previous, seen, step, record, flags, flock>>

UpgradeStep(g) ==
  \/ PlanUpgrade(g) \/ TakeUpgradeLock(g) \/ LookAgain(g) \/ ValidateSame(g)
  \/ StageBuild(g) \/ RecheckInputs(g) \/ MoveOldAway(g) \/ NoteMove(g) \/ MoveNewIn(g)
  \/ VerifyInstalled(g) \/ FinishUpgrade(g)
  \/ UndoNew(g) \/ RestoreOld(g) \/ NoteFailure(g)

AUNext == (\E g \in Upgrades : UpgradeStep(g) \/ StepFails(g) \/ UpgradeDies(g)) \/ OthersWrite

AUSpec == AUInit /\ [][AUNext]_auvars

-----------------------------------------------------------------------------
AUTypeOK ==
  /\ target \in Contents /\ source \in Builds /\ data \in Nat
  /\ staged \in [Upgrades -> Contents] /\ previous \in [Upgrades -> Contents]
  /\ seen \in [Upgrades -> [target : Contents, source : Contents, data : Nat]]
  /\ record \in [Upgrades -> {"none", "preparing", "already", "backedUp", "installed",
                               "rolledBack", "notRolledBack"}]
  /\ movedOld \in [Upgrades -> BOOLEAN] /\ installedNew \in [Upgrades -> BOOLEAN]
  /\ flock \in Upgrades \cup {NoApp} /\ removed \in BOOLEAN /\ meddling \in Nat

\* A receipt that claims the rollback is right: the application moved away is
\* not still in the backup.  One that has been moved away for good is there.
RollbackTrue == \A g \in Upgrades :
  /\ record[g] = "rolledBack" => previous[g] = NoApp
  /\ record[g] \in {"installed", "notRolledBack"} => previous[g] # NoApp

\* An installation that stopped half way, with no application in place, can be
\* put right from the backup of the upgrade that did it, whose receipt claims
\* no success, unless somebody else removed the application.
MissingIsRecoverable ==
  target = NoApp /\ ~removed =>
    \E g \in Upgrades : previous[g] # NoApp /\ record[g] \in {"preparing", "backedUp"}

\* Two upgrades never have the target in their hands at once.
OneReplaces == Cardinality({g \in Upgrades : step[g] \in
  {"stage", "recheck", "moveOld", "note", "moveNew", "verify", "finish", "undo", "restore"}}) <= 1

UpgradeInv == AUTypeOK /\ RollbackTrue /\ MissingIsRecoverable /\ OneReplaces
=============================================================================
