-------------------------- MODULE AppUpgradeProofs --------------------------
(***************************************************************************)
(* Theorems about the scripts of the installed application: AppUpgrade,    *)
(* for any number of upgrades, any builds and any number of mishaps, and   *)
(* ServiceActivation.  That a missing application can be put right from a  *)
(* backup rests on what every upgrade knows of itself where it is, and     *)
(* that only one is past the lock.                                         *)
(***************************************************************************)
EXTENDS AppUpgrade, ServiceActivation, FiniteSetTheorems, TLAPS

-----------------------------------------------------------------------------
(* The inductive invariant.                                                *)

\* After the lock, and where the script has touched something.
Touching == {"stage", "recheck", "moveOld", "note", "moveNew", "verify", "finish", "undo",
             "restore", "rolledBack", "notRolledBack"}
Inside == Touching \cup {"look", "same"}
AllSteps == Inside \cup {"plan", "lock", "over"}

Exclusive == \A g \in Upgrades : step[g] \in Inside => flock = g

\* What an upgrade's flags, backup and receipt have to do with where it is.
FlagsRight(g) ==
  /\ previous[g] # NoApp => movedOld[g]
  /\ movedOld[g] /\ previous[g] = NoApp => step[g] \in {"rolledBack", "over"}
  /\ installedNew[g] => movedOld[g]
  /\ movedOld[g] => step[g] \notin {"plan", "lock", "look", "same", "stage", "recheck", "moveOld"}
  /\ step[g] \in {"note", "moveNew", "verify", "finish"} => movedOld[g]
  /\ step[g] = "rolledBack" => previous[g] = NoApp
  /\ step[g] = "notRolledBack" => previous[g] # NoApp

RecordRight(g) ==
  /\ step[g] \in {"plan", "lock", "look", "same"} => record[g] = "none"
  /\ step[g] \in Touching => record[g] \in {"preparing", "backedUp"} /\ seen[g].source \in Builds

\* An upgrade that is about to report the end of its work left an application there.
LeftSomething(g) == step[g] \in {"finish", "notRolledBack"} => target # NoApp \/ removed

AUStrong ==
  /\ AUTypeOK /\ step \in [Upgrades -> AllSteps]
  /\ RollbackTrue /\ MissingIsRecoverable
  /\ Exclusive
  /\ \A g \in Upgrades : FlagsRight(g) /\ RecordRight(g) /\ LeftSomething(g)

\* One holder of the lock means one upgrade with the target in its hands.
LEMMA OneHolder ==
  ASSUME Exclusive
  PROVE  OneReplaces
PROOF
  <1> DEFINE Handling == {g \in Upgrades : step[g] \in
        {"stage", "recheck", "moveOld", "note", "moveNew", "verify", "finish", "undo", "restore"}}
  <1>1. Handling \subseteq {flock}
    BY DEF Exclusive, Inside, Touching
  <1>2. Handling = {} \/ Handling = {flock}
    BY <1>1
  <1>3. Cardinality(Handling) \in {0, 1}
    BY <1>2, FS_EmptySet, FS_Singleton
  <1> QED
    BY <1>3 DEF OneReplaces

-----------------------------------------------------------------------------
(* Steps.                                                                  *)

\* The lock says that no other upgrade is where it could be disturbed.
LEMMA OthersOutside ==
  ASSUME AUStrong, NEW g \in Upgrades, step[g] \in Inside, NEW h \in Upgrades \ {g}
  PROVE  step[h] \notin Inside
  BY DEF AUStrong, Exclusive

\* What a step of an upgrade may do to the others: nothing of their own.
Alone(g) ==
  \A h \in Upgrades \ {g} :
    /\ staged'[h] = staged[h] /\ previous'[h] = previous[h] /\ seen'[h] = seen[h]
    /\ step'[h] = step[h] /\ record'[h] = record[h]
    /\ movedOld'[h] = movedOld[h] /\ installedNew'[h] = installedNew[h]

\* A step keeps the types, and its own upgrade only moves.
LEMMA StepTyped ==
  ASSUME AUStrong, NEW g \in Upgrades, UpgradeStep(g) \/ StepFails(g) \/ UpgradeDies(g)
  PROVE  AUTypeOK' /\ step' \in [Upgrades -> AllSteps] /\ Alone(g)
PROOF
  <1> USE DEF AUStrong, AUTypeOK, AllSteps, Inside, Touching, Alone, To, Says, Leaves, Contents,
              world, flags
  <1>1. CASE PlanUpgrade(g)
    BY <1>1 DEF PlanUpgrade
  <1>2. CASE TakeUpgradeLock(g)
    BY <1>2 DEF TakeUpgradeLock
  <1>3. CASE LookAgain(g)
    BY <1>3 DEF LookAgain
  <1>4. CASE ValidateSame(g)
    BY <1>4 DEF ValidateSame
  <1>5. CASE StageBuild(g)
    BY <1>5 DEF StageBuild
  <1>6. CASE RecheckInputs(g)
    BY <1>6 DEF RecheckInputs
  <1>7. CASE MoveOldAway(g)
    BY <1>7 DEF MoveOldAway
  <1>8. CASE NoteMove(g)
    BY <1>8 DEF NoteMove
  <1>9. CASE MoveNewIn(g)
    <2>1. staged[g] \in Contents
      OBVIOUS
    <2>2. CASE target # NoApp
      BY <1>9, <2>2 DEF MoveNewIn
    <2>3. CASE target = NoApp
      BY <1>9, <2>1, <2>3 DEF MoveNewIn
    <2> QED
      BY <2>2, <2>3
  <1>10. CASE VerifyInstalled(g)
    BY <1>10 DEF VerifyInstalled
  <1>11. CASE FinishUpgrade(g)
    BY <1>11 DEF FinishUpgrade
  <1>12. CASE UndoNew(g)
    BY <1>12 DEF UndoNew
  <1>13. CASE RestoreOld(g)
    BY <1>13 DEF RestoreOld
  <1>14. CASE NoteFailure(g)
    BY <1>14 DEF NoteFailure
  <1>15. CASE StepFails(g)
    BY <1>15 DEF StepFails, Mishap
  <1>16. CASE UpgradeDies(g)
    BY <1>16 DEF UpgradeDies, Mishap
  <1> QED
    BY <1>1, <1>2, <1>3, <1>4, <1>5, <1>6, <1>7, <1>8, <1>9, <1>10, <1>11, <1>12, <1>13, <1>14,
       <1>15, <1>16 DEF UpgradeStep

\* The upgrade that moves keeps its own flags and receipt right,
LEMMA StepOwn ==
  ASSUME AUStrong, NEW g \in Upgrades, UpgradeStep(g) \/ StepFails(g) \/ UpgradeDies(g)
  PROVE  FlagsRight(g)' /\ RecordRight(g)' /\ LeftSomething(g)'
PROOF
  <1> USE DEF AUStrong, AUTypeOK, AllSteps, Inside, Touching, FlagsRight, RecordRight, LeftSomething,
              To, Says, Leaves, Contents, world, flags
  <1>0. FlagsRight(g) /\ RecordRight(g) /\ LeftSomething(g) /\ NoApp \notin Builds
    BY UpgradeAssumption
  <1>1. CASE PlanUpgrade(g)
    BY <1>0, <1>1 DEF PlanUpgrade
  <1>2. CASE TakeUpgradeLock(g)
    BY <1>0, <1>2 DEF TakeUpgradeLock
  <1>3. CASE LookAgain(g)
    BY <1>0, <1>3 DEF LookAgain
  <1>4. CASE ValidateSame(g)
    BY <1>0, <1>4 DEF ValidateSame
  <1>5. CASE StageBuild(g)
    BY <1>0, <1>5 DEF StageBuild
  <1>6. CASE RecheckInputs(g)
    BY <1>0, <1>6 DEF RecheckInputs
  <1>7. CASE MoveOldAway(g)
    BY <1>0, <1>7 DEF MoveOldAway
  <1>8. CASE NoteMove(g)
    BY <1>0, <1>8 DEF NoteMove
  <1>9. CASE MoveNewIn(g)
    BY <1>0, <1>9 DEF MoveNewIn
  <1>10. CASE VerifyInstalled(g)
    BY <1>0, <1>10 DEF VerifyInstalled
  <1>11. CASE FinishUpgrade(g)
    BY <1>0, <1>11 DEF FinishUpgrade
  <1>12. CASE UndoNew(g)
    BY <1>0, <1>12 DEF UndoNew
  <1>13. CASE RestoreOld(g)
    BY <1>0, <1>13 DEF RestoreOld
  <1>14. CASE NoteFailure(g)
    BY <1>0, <1>14 DEF NoteFailure
  <1>15. CASE StepFails(g)
    BY <1>0, <1>15 DEF StepFails, Mishap
  <1>16. CASE UpgradeDies(g)
    BY <1>0, <1>16 DEF UpgradeDies, Mishap
  <1> QED
    BY <1>1, <1>2, <1>3, <1>4, <1>5, <1>6, <1>7, <1>8, <1>9, <1>10, <1>11, <1>12, <1>13, <1>14,
       <1>15, <1>16 DEF UpgradeStep

\* and only a step past the lock touches the target, and then it is right to do so:
\* what it moved away is in its backup, under a receipt that claims nothing.
LEMMA StepTarget ==
  ASSUME AUStrong, NEW g \in Upgrades, UpgradeStep(g) \/ StepFails(g) \/ UpgradeDies(g)
  PROVE  /\ removed' = removed
         /\ target' # target => step[g] \in Inside
         /\ target' = NoApp /\ target # NoApp =>
              previous'[g] # NoApp /\ record'[g] \in {"preparing", "backedUp"}
         /\ target' = NoApp /\ ~removed /\ previous[g] # NoApp /\ record[g] \in {"preparing", "backedUp"} =>
              previous'[g] # NoApp /\ record'[g] \in {"preparing", "backedUp"}
PROOF
  <1> USE DEF AUStrong, AUTypeOK, AllSteps, Inside, Touching, FlagsRight, RecordRight, LeftSomething,
              To, Says, Leaves, Contents, world, flags
  <1>0. FlagsRight(g) /\ RecordRight(g) /\ LeftSomething(g) /\ NoApp \notin Builds
    BY UpgradeAssumption
  <1>1. CASE PlanUpgrade(g)
    BY <1>0, <1>1 DEF PlanUpgrade
  <1>2. CASE TakeUpgradeLock(g)
    BY <1>0, <1>2 DEF TakeUpgradeLock
  <1>3. CASE LookAgain(g)
    BY <1>0, <1>3 DEF LookAgain
  <1>4. CASE ValidateSame(g)
    BY <1>0, <1>4 DEF ValidateSame
  <1>5. CASE StageBuild(g)
    BY <1>0, <1>5 DEF StageBuild
  <1>6. CASE RecheckInputs(g)
    BY <1>0, <1>6 DEF RecheckInputs
  <1>7. CASE MoveOldAway(g)
    BY <1>0, <1>7 DEF MoveOldAway
  <1>8. CASE NoteMove(g)
    BY <1>0, <1>8 DEF NoteMove
  <1>9. CASE MoveNewIn(g)
    BY <1>0, <1>9 DEF MoveNewIn
  <1>10. CASE VerifyInstalled(g)
    BY <1>0, <1>10 DEF VerifyInstalled
  <1>11. CASE FinishUpgrade(g)
    BY <1>0, <1>11 DEF FinishUpgrade
  <1>12. CASE UndoNew(g)
    BY <1>0, <1>12 DEF UndoNew
  <1>13. CASE RestoreOld(g)
    BY <1>0, <1>13 DEF RestoreOld
  <1>14. CASE NoteFailure(g)
    BY <1>0, <1>14 DEF NoteFailure
  <1>15. CASE StepFails(g)
    BY <1>0, <1>15 DEF StepFails, Mishap
  <1>16. CASE UpgradeDies(g)
    BY <1>0, <1>16 DEF UpgradeDies, Mishap
  <1> QED
    BY <1>1, <1>2, <1>3, <1>4, <1>5, <1>6, <1>7, <1>8, <1>9, <1>10, <1>11, <1>12, <1>13, <1>14,
       <1>15, <1>16 DEF UpgradeStep

\* A missing application can still be put right after the step of an upgrade.
LEMMA StepRecoverable ==
  ASSUME AUStrong, NEW g \in Upgrades, UpgradeStep(g) \/ StepFails(g) \/ UpgradeDies(g)
  PROVE  MissingIsRecoverable'
PROOF
  <1> SUFFICES ASSUME target' = NoApp, ~removed'
               PROVE  \E h \in Upgrades : previous'[h] # NoApp /\ record'[h] \in {"preparing", "backedUp"}
    BY DEF MissingIsRecoverable
  <1>1. CASE target # NoApp
    BY <1>1, StepTarget
  <1>2. CASE target = NoApp
    <2>1. PICK h \in Upgrades : previous[h] # NoApp /\ record[h] \in {"preparing", "backedUp"}
      BY <1>2, StepTarget DEF AUStrong, MissingIsRecoverable
    <2>2. CASE h = g
      BY <2>1, <2>2, StepTarget
    <2>3. CASE h # g
      BY <2>1, <2>3, StepTyped DEF Alone
    <2> QED
      BY <2>2, <2>3
  <1> QED
    BY <1>1, <1>2

\* Who comes in has taken the lock, who has it keeps it until it leaves.
LEMMA StepLock ==
  ASSUME AUStrong, NEW g \in Upgrades, UpgradeStep(g) \/ StepFails(g) \/ UpgradeDies(g)
  PROVE  Exclusive'
PROOF
  <1>1. /\ step'[g] \in Inside => flock' = g
        /\ flock' # flock => flock \in {g, NoApp}
    <2> USE DEF AUStrong, Exclusive, AllSteps, Inside, Touching, To, Leaves
    <2>1. CASE PlanUpgrade(g) \/ TakeUpgradeLock(g)
      BY <2>1 DEF PlanUpgrade, TakeUpgradeLock
    <2>5. CASE LookAgain(g) \/ ValidateSame(g)
      BY <2>5 DEF LookAgain, ValidateSame
    <2>2. CASE StageBuild(g) \/ RecheckInputs(g) \/ MoveOldAway(g) \/ NoteMove(g) \/ MoveNewIn(g)
      BY <2>2 DEF StageBuild, RecheckInputs, MoveOldAway, NoteMove, MoveNewIn
    <2>3. CASE VerifyInstalled(g) \/ FinishUpgrade(g) \/ UndoNew(g) \/ RestoreOld(g) \/ NoteFailure(g)
      BY <2>3 DEF VerifyInstalled, FinishUpgrade, UndoNew, RestoreOld, NoteFailure
    <2>4. CASE StepFails(g) \/ UpgradeDies(g)
      BY <2>4 DEF StepFails, UpgradeDies
    <2> QED
      BY <2>1, <2>2, <2>3, <2>4, <2>5 DEF UpgradeStep
  <1>2. ASSUME NEW h \in Upgrades \ {g}, step'[h] \in Inside
        PROVE  flock' = h
    <2>1. step[h] \in Inside /\ flock = h /\ h # NoApp
      BY <1>2, StepTyped, UpgradeAssumption DEF Alone, AUStrong, Exclusive
    <2>2. step[g] \notin Inside
      BY <2>1 DEF AUStrong, Exclusive
    <2> QED
      BY <1>1, <2>1, <2>2
  <1> QED
    BY <1>1, <1>2 DEF Exclusive

LEMMA UpgradeKeeps ==
  ASSUME AUStrong, NEW g \in Upgrades, UpgradeStep(g) \/ StepFails(g) \/ UpgradeDies(g)
  PROVE  AUStrong'
PROOF
  <1>1. AUTypeOK' /\ step' \in [Upgrades -> AllSteps] /\ Alone(g)
    BY StepTyped
  <1>2. ASSUME NEW h \in Upgrades
        PROVE  FlagsRight(h)' /\ RecordRight(h)' /\ LeftSomething(h)'
    <2>1. CASE h = g
      BY <2>1, StepOwn
    <2>2. CASE h # g
      <3>1. FlagsRight(h)' /\ RecordRight(h)'
        BY <1>1, <2>2 DEF Alone, AUStrong, FlagsRight, RecordRight
      <3>2. LeftSomething(h)'
        BY <1>1, <2>2, StepTarget, OthersOutside DEF Alone, AUStrong, LeftSomething, Inside, Touching
      <3> QED
        BY <3>1, <3>2
    <2> QED
      BY <2>1, <2>2
  <1>3. RollbackTrue'
    <2>1. /\ record'[g] = "rolledBack" => previous'[g] = NoApp
          /\ record'[g] \in {"installed", "notRolledBack"} => previous'[g] # NoApp
      <3> USE DEF AUStrong, AUTypeOK, RollbackTrue, FlagsRight, RecordRight, To, Says, Leaves, Touching
      <3>1. CASE PlanUpgrade(g) \/ TakeUpgradeLock(g) \/ LookAgain(g) \/ ValidateSame(g)
        BY <3>1 DEF PlanUpgrade, TakeUpgradeLock, LookAgain, ValidateSame
      <3>2. CASE StageBuild(g) \/ RecheckInputs(g) \/ MoveOldAway(g) \/ NoteMove(g) \/ MoveNewIn(g)
        BY <3>2 DEF StageBuild, RecheckInputs, MoveOldAway, NoteMove, MoveNewIn
      <3>3. CASE VerifyInstalled(g) \/ FinishUpgrade(g) \/ UndoNew(g) \/ RestoreOld(g) \/ NoteFailure(g)
        BY <3>3 DEF VerifyInstalled, FinishUpgrade, UndoNew, RestoreOld, NoteFailure
      <3>4. CASE StepFails(g) \/ UpgradeDies(g)
        BY <3>4 DEF StepFails, UpgradeDies
      <3> QED
        BY <3>1, <3>2, <3>3, <3>4 DEF UpgradeStep
    <2> QED
      BY <1>1, <2>1 DEF Alone, AUStrong, RollbackTrue
  <1> QED
    BY <1>1, <1>2, <1>3, StepLock, StepRecoverable DEF AUStrong

\* The others do not touch what an upgrade keeps, and who removes the application is
\* known to have done it.
LEMMA OthersKeep ==
  ASSUME AUStrong, OthersWrite
  PROVE  AUStrong'
PROOF
  <1>1. /\ UNCHANGED <<staged, previous, seen, step, record, movedOld, installedNew, flock>>
        /\ \/ target' # NoApp \/ removed'
           \/ target' = target /\ removed' = removed
    BY DEF OthersWrite, flags
  <1>2. AUTypeOK'
    <2>1. removed' \in BOOLEAN
      BY DEF AUStrong, AUTypeOK, OthersWrite
    <2>2. target' \in Contents /\ source' \in Builds /\ data' \in Nat /\ meddling' \in Nat
      BY DEF AUStrong, AUTypeOK, OthersWrite, Mishap
    <2> QED
      BY <1>1, <2>1, <2>2 DEF AUStrong, AUTypeOK
  <1>3. RollbackTrue' /\ MissingIsRecoverable' /\ Exclusive'
    BY <1>1 DEF AUStrong, RollbackTrue, MissingIsRecoverable, Exclusive
  <1>4. \A g \in Upgrades : FlagsRight(g)' /\ RecordRight(g)' /\ LeftSomething(g)'
    BY <1>1 DEF AUStrong, FlagsRight, RecordRight, LeftSomething
  <1> QED
    BY <1>1, <1>2, <1>3, <1>4 DEF AUStrong

LEMMA UpgradeStutter ==
  ASSUME AUStrong, UNCHANGED auvars
  PROVE  AUStrong'
  BY DEF AUStrong, AUTypeOK, RollbackTrue, MissingIsRecoverable, Exclusive, FlagsRight, RecordRight,
         LeftSomething, auvars

LEMMA UpgradeBegins == AUInit => AUStrong
PROOF
  <1> SUFFICES ASSUME AUInit PROVE AUStrong
    OBVIOUS
  <1>1. AUTypeOK
    BY DEF AUInit, AUTypeOK, Contents
  <1>2. step \in [Upgrades -> AllSteps] /\ Exclusive
    BY DEF AUInit, AllSteps, Exclusive, Inside, Touching
  <1>3. RollbackTrue /\ MissingIsRecoverable
    BY UpgradeAssumption DEF AUInit, RollbackTrue, MissingIsRecoverable
  <1>4. \A g \in Upgrades : FlagsRight(g) /\ RecordRight(g) /\ LeftSomething(g)
    BY DEF AUInit, FlagsRight, RecordRight, LeftSomething, Touching
  <1> QED
    BY <1>1, <1>2, <1>3, <1>4 DEF AUStrong

\* In every reachable state a receipt tells the truth about the rollback, a missing
\* application can be put right from a backup whose receipt claims no success, and one
\* upgrade at most works on the target (scripts/upgrade_personal.py).
THEOREM UpgradeSafe == AUSpec => []UpgradeInv
PROOF
  <1>1. AUInit => AUStrong
    BY UpgradeBegins
  <1>2. AUStrong /\ [AUNext]_auvars => AUStrong'
    BY UpgradeKeeps, OthersKeep, UpgradeStutter DEF AUNext
  <1>3. AUStrong => UpgradeInv
    BY OneHolder DEF AUStrong, UpgradeInv
  <1> QED
    BY <1>1, <1>2, <1>3, PTL DEF AUSpec

-----------------------------------------------------------------------------
(* Activation and restart (ServiceActivation).                             *)

Processes == [kind : {"none", "gui", "agent", "fallback"}, pid : Nat, fresh : BOOLEAN]
Activating == script.name = "activate"

SATyped ==
  /\ script \in Scripts /\ listener \in Processes /\ found \in Processes
  /\ verdict \in [status : {"none", "blocked", "already_running", "not_verified", "running",
                            "running_fallback", "activation_failed"},
                  stopped : BOOLEAN, unchanged : BOOLEAN, pid : Nat]
  /\ idleLooks \in Nat /\ started \in Nat /\ falls \in Nat
  /\ cut \in {"none", "late", "known"} /\ proven \in BOOLEAN
  /\ busy \in BOOLEAN /\ dying \in BOOLEAN /\ cameLate \in BOOLEAN

\* Which script takes a step, what it has seen before it, and that it stopped
\* nobody yet.
StepRight ==
  /\ at \in {"jobs", "sample", "compare", "define", "last", "release", "bootstrap",
             "drifted", "recover", "fallback", "verify"} => Activating
  /\ at \in {"settle", "guard"} => ~Activating
  /\ at = "look" => found = None
  /\ Activating /\ at \notin {"look", "done", "dead"} => found = None \/ ~found.fresh
  /\ at \notin {"look", "prove", "done", "dead"} => proven
  /\ at \in {"look", "prove", "jobs", "settle"} => idleLooks = 0
  /\ at \in {"compare", "define"} /\ found # None => idleLooks >= 2
  /\ at \in {"last", "stop"} => idleLooks >= 2
  /\ at \in {"look", "prove", "jobs", "sample", "compare", "define", "last", "stop",
             "settle", "guard"} => ~verdict.stopped

\* A request that is served when the stop is due came after the last look.
Idle == at = "stop" /\ busy => cameLate

Unstopped ==
  ~verdict.stopped =>
    /\ cut = "none" /\ ~dying
    /\ falls = 0 /\ found # None => listener = found

Final ==
  /\ verdict.status # "none" => at = "done"
  /\ verdict.status \in {"blocked", "already_running"} => ~verdict.stopped
  /\ verdict.status \in {"running", "running_fallback"} /\ falls = 0 => ~dying

SAStrong ==
  SATyped /\ StepRight /\ Idle /\ Unstopped /\ Final /\ OnlyLateWorkCut /\ SuccessTrue

\* What goes on around the script.
LEMMA SAAround ==
  ASSUME SAStrong,
         ForeignJob \/ Request \/ RequestEnds \/ EditConfiguration \/ AgentStarts
         \/ ListenerCrashes \/ ListenerEnds \/ Die
  PROVE  SAStrong'
<1> USE DEF SAStrong
<1>1. CASE ForeignJob
  <2>1. SATyped'
    BY <1>1 DEF ForeignJob, Running, SATyped
  <2>2. StepRight' /\ Idle'
    BY <1>1 DEF ForeignJob, Running, SATyped, StepRight, Idle, Activating
  <2>3. Unstopped' /\ Final'
    BY <1>1 DEF ForeignJob, Running, SATyped, StepRight, Unstopped, Final
  <2>4. OnlyLateWorkCut' /\ SuccessTrue'
    BY <1>1 DEF ForeignJob, Running, SATyped, StepRight, Idle, Final, Activating,
              OnlyLateWorkCut, SuccessTrue
  <2> QED BY <2>1, <2>2, <2>3, <2>4
<1>2. CASE Request
  <2>1. SATyped'
    BY <1>2 DEF Request, Running, SATyped
  <2>2. StepRight' /\ Idle'
    BY <1>2 DEF Request, Running, SATyped, StepRight, Idle, Activating
  <2>3. Unstopped' /\ Final'
    BY <1>2 DEF Request, Running, SATyped, StepRight, Unstopped, Final
  <2>4. OnlyLateWorkCut' /\ SuccessTrue'
    BY <1>2 DEF Request, Running, SATyped, StepRight, Idle, Final, Activating,
              OnlyLateWorkCut, SuccessTrue
  <2> QED BY <2>1, <2>2, <2>3, <2>4
<1>3. CASE RequestEnds
  <2>1. SATyped'
    BY <1>3 DEF RequestEnds, SATyped
  <2>2. StepRight' /\ Idle'
    BY <1>3 DEF RequestEnds, SATyped, StepRight, Idle, Activating
  <2>3. Unstopped' /\ Final'
    BY <1>3 DEF RequestEnds, SATyped, StepRight, Unstopped, Final
  <2>4. OnlyLateWorkCut' /\ SuccessTrue'
    BY <1>3 DEF RequestEnds, SATyped, StepRight, Idle, Final, Activating, OnlyLateWorkCut,
              SuccessTrue
  <2> QED BY <2>1, <2>2, <2>3, <2>4
<1>4. CASE EditConfiguration
  <2>1. SATyped'
    BY <1>4 DEF EditConfiguration, Running, SATyped
  <2>2. StepRight' /\ Idle'
    BY <1>4 DEF EditConfiguration, Running, SATyped, StepRight, Idle, Activating
  <2>3. Unstopped' /\ Final'
    BY <1>4 DEF EditConfiguration, Running, SATyped, StepRight, Unstopped, Final
  <2>4. OnlyLateWorkCut' /\ SuccessTrue'
    BY <1>4 DEF EditConfiguration, Running, SATyped, StepRight, Idle, Final, Activating,
              OnlyLateWorkCut, SuccessTrue
  <2> QED BY <2>1, <2>2, <2>3, <2>4
<1>5. CASE AgentStarts
  <2>1. SATyped'
    BY <1>5 DEF AgentStarts, SATyped, Processes, None
  <2>2. StepRight' /\ Idle'
    BY <1>5 DEF AgentStarts, SATyped, StepRight, Idle, Activating
  <2>3. Unstopped' /\ Final'
    BY <1>5 DEF AgentStarts, SATyped, StepRight, Unstopped, Final
  <2>4. OnlyLateWorkCut' /\ SuccessTrue'
    BY <1>5 DEF AgentStarts, SATyped, StepRight, Idle, Final, Activating, OnlyLateWorkCut,
              SuccessTrue, None
  <2> QED BY <2>1, <2>2, <2>3, <2>4
<1>6. CASE ListenerCrashes
  <2>1. SATyped'
    <3>1. listener' \in Processes /\ falls' \in Nat
      BY <1>6 DEF ListenerCrashes, Gone, SATyped, Processes, None
    <3> QED BY <1>6, <3>1 DEF ListenerCrashes, Gone, SATyped
  <2>2. StepRight' /\ Idle'
    BY <1>6 DEF ListenerCrashes, Running, Gone, SATyped, StepRight, Idle, Activating
  <2>3. Unstopped' /\ Final'
    BY <1>6 DEF ListenerCrashes, Running, Gone, SATyped, StepRight, Unstopped, Final
  <2>4. OnlyLateWorkCut' /\ SuccessTrue'
    BY <1>6 DEF ListenerCrashes, Running, Gone, SATyped, StepRight, Idle, Final, Activating,
              OnlyLateWorkCut, SuccessTrue
  <2> QED BY <2>1, <2>2, <2>3, <2>4
<1>7. CASE ListenerEnds
  <2>1. SATyped'
    BY <1>7 DEF ListenerEnds, Gone, SATyped, Processes, None
  <2>2. StepRight' /\ Idle'
    BY <1>7 DEF ListenerEnds, Gone, SATyped, StepRight, Idle, Activating
  <2>3. Unstopped' /\ Final'
    BY <1>7 DEF ListenerEnds, Gone, SATyped, StepRight, Unstopped, Final
  <2>4. OnlyLateWorkCut' /\ SuccessTrue'
    BY <1>7 DEF ListenerEnds, Gone, SATyped, StepRight, Idle, Final, Activating,
              OnlyLateWorkCut, SuccessTrue
  <2> QED BY <2>1, <2>2, <2>3, <2>4
<1>8. CASE Die
  <2>1. SATyped'
    BY <1>8 DEF Die, Running, Quiet, around, notes, SATyped
  <2>2. StepRight' /\ Idle'
    BY <1>8 DEF Die, Running, Quiet, around, notes, SATyped, StepRight, Idle, Activating
  <2>3. Unstopped' /\ Final'
    BY <1>8 DEF Die, Running, Quiet, around, notes, SATyped, StepRight, Unstopped, Final
  <2>4. OnlyLateWorkCut' /\ SuccessTrue'
    BY <1>8 DEF Die, Running, Quiet, around, notes, SATyped, StepRight, Idle, Final,
              Activating, OnlyLateWorkCut, SuccessTrue
  <2> QED BY <2>1, <2>2, <2>3, <2>4
<1> QED BY <1>1, <1>2, <1>3, <1>4, <1>5, <1>6, <1>7, <1>8

\* activate.
LEMMA SAActivate ==
  ASSUME SAStrong,
         Prove \/ Look \/ LookForJobs \/ Sample \/ Compare \/ Define \/ LastLook \/ Stop
         \/ StopNobody \/ Released \/ Bootstrap \/ Served \/ Refuse \/ Recover
         \/ Fallback \/ Verify
  PROVE  SAStrong'
<1> USE DEF SAStrong
<1>1. CASE Prove
  <2>1. SATyped'
    BY <1>1 DEF Prove, Step, Quiet, around, SATyped
  <2>2. StepRight' /\ Idle'
    BY <1>1 DEF Prove, Step, Quiet, around, SATyped, StepRight, Idle, Activating
  <2>3. Unstopped' /\ Final'
    BY <1>1 DEF Prove, Step, Quiet, around, SATyped, StepRight, Unstopped, Final
  <2>4. OnlyLateWorkCut' /\ SuccessTrue'
    BY <1>1 DEF Prove, Step, Quiet, around, SATyped, StepRight, Idle, Final, Activating,
              OnlyLateWorkCut, SuccessTrue
  <2> QED BY <2>1, <2>2, <2>3, <2>4
<1>2. CASE Look
  <2>1. SATyped'
    BY <1>2 DEF Look, Quiet, around, SATyped, Processes, None
  <2>2. StepRight' /\ Idle'
    BY <1>2 DEF Look, Quiet, around, SATyped, StepRight, Idle, Activating
  <2>3. Unstopped' /\ Final'
    BY <1>2 DEF Look, Quiet, around, SATyped, StepRight, Unstopped, Final
  <2>4. OnlyLateWorkCut' /\ SuccessTrue'
    BY <1>2 DEF Look, Quiet, around, AgentPid, SATyped, StepRight, Idle, Final, Activating,
              OnlyLateWorkCut, SuccessTrue
  <2> QED BY <2>1, <2>2, <2>3, <2>4
<1>3. CASE LookForJobs
  <2>1. SATyped'
    BY <1>3 DEF LookForJobs, Step, Quiet, around, notes, SATyped
  <2>2. StepRight' /\ Idle'
    BY <1>3 DEF LookForJobs, Step, Quiet, around, notes, SATyped, StepRight, Idle, Activating
  <2>3. Unstopped' /\ Final'
    BY <1>3 DEF LookForJobs, Step, Quiet, around, notes, SATyped, StepRight, Unstopped, Final
  <2>4. OnlyLateWorkCut' /\ SuccessTrue'
    BY <1>3 DEF LookForJobs, Step, Quiet, around, notes, SATyped, StepRight, Idle, Final,
              Activating, OnlyLateWorkCut, SuccessTrue
  <2> QED BY <2>1, <2>2, <2>3, <2>4
<1>4. CASE Sample
  <2>1. SATyped'
    BY <1>4 DEF Sample, Quiet, around, SATyped
  <2>2. StepRight' /\ Idle'
    BY <1>4 DEF Sample, Quiet, around, SATyped, StepRight, Idle, Activating
  <2>3. Unstopped' /\ Final'
    BY <1>4 DEF Sample, Quiet, around, SATyped, StepRight, Unstopped, Final
  <2>4. OnlyLateWorkCut' /\ SuccessTrue'
    BY <1>4 DEF Sample, Quiet, around, SATyped, StepRight, Idle, Final, Activating,
              OnlyLateWorkCut, SuccessTrue
  <2> QED BY <2>1, <2>2, <2>3, <2>4
<1>5. CASE Compare
  <2>1. SATyped'
    BY <1>5 DEF Compare, Step, Quiet, around, notes, SATyped
  <2>2. StepRight' /\ Idle'
    BY <1>5 DEF Compare, Step, Quiet, around, notes, SATyped, StepRight, Idle, Activating
  <2>3. Unstopped' /\ Final'
    BY <1>5 DEF Compare, Step, Quiet, around, notes, SATyped, StepRight, Unstopped, Final
  <2>4. OnlyLateWorkCut' /\ SuccessTrue'
    BY <1>5 DEF Compare, Step, Quiet, around, notes, SATyped, StepRight, Idle, Final,
              Activating, OnlyLateWorkCut, SuccessTrue
  <2> QED BY <2>1, <2>2, <2>3, <2>4
<1>6. CASE Define
  <2>1. SATyped'
    BY <1>6 DEF Define, Step, notes, SATyped
  <2>2. StepRight' /\ Idle'
    BY <1>6 DEF Define, Step, notes, SATyped, StepRight, Idle, Activating
  <2>3. Unstopped' /\ Final'
    BY <1>6 DEF Define, Step, notes, SATyped, StepRight, Unstopped, Final
  <2>4. OnlyLateWorkCut' /\ SuccessTrue'
    BY <1>6 DEF Define, Step, notes, SATyped, StepRight, Idle, Final, Activating,
              OnlyLateWorkCut, SuccessTrue
  <2> QED BY <2>1, <2>2, <2>3, <2>4
<1>7. CASE LastLook
  <2>1. SATyped'
    BY <1>7 DEF LastLook, NoWork, Step, Quiet, around, notes, SATyped
  <2>2. StepRight' /\ Idle'
    BY <1>7 DEF LastLook, NoWork, Step, Quiet, around, notes, SATyped, StepRight, Idle,
              Activating
  <2>3. Unstopped' /\ Final'
    BY <1>7 DEF LastLook, NoWork, Step, Quiet, around, notes, SATyped, StepRight, Unstopped,
              Final
  <2>4. OnlyLateWorkCut' /\ SuccessTrue'
    BY <1>7 DEF LastLook, NoWork, Step, Quiet, around, notes, AgentPid, SATyped, StepRight,
              Idle, Final, Activating, OnlyLateWorkCut, SuccessTrue
  <2> QED BY <2>1, <2>2, <2>3, <2>4
<1>8. CASE Stop
  <2>1. SATyped'
    BY <1>8 DEF Stop, Step, Told, notes, SATyped
  <2>2. StepRight' /\ Idle'
    BY <1>8 DEF Stop, Step, Told, notes, SATyped, StepRight, Idle, Activating
  <2>3. Unstopped' /\ Final'
    BY <1>8 DEF Stop, Step, Told, notes, SATyped, StepRight, Unstopped, Final
  <2>4. OnlyLateWorkCut' /\ SuccessTrue'
    BY <1>8 DEF Stop, Step, Told, notes, SATyped, StepRight, Idle, Final, Activating,
              OnlyLateWorkCut, SuccessTrue
  <2> QED BY <2>1, <2>2, <2>3, <2>4
<1>9. CASE StopNobody
  <2>1. SATyped'
    BY <1>9 DEF StopNobody, FailAt, Fail, Quiet, around, notes, SATyped
  <2>2. StepRight' /\ Idle'
    BY <1>9 DEF StopNobody, FailAt, Fail, Quiet, around, notes, SATyped, StepRight, Idle,
              Activating
  <2>3. Unstopped' /\ Final'
    BY <1>9 DEF StopNobody, FailAt, Fail, Quiet, around, notes, SATyped, StepRight,
              Unstopped, Final
  <2>4. OnlyLateWorkCut' /\ SuccessTrue'
    BY <1>9 DEF StopNobody, FailAt, Fail, Quiet, around, notes, SATyped, StepRight, Idle,
              Final, Activating, OnlyLateWorkCut, SuccessTrue
  <2> QED BY <2>1, <2>2, <2>3, <2>4
<1>10. CASE Released
  <2>1. SATyped'
    BY <1>10 DEF Released, Step, Quiet, around, notes, SATyped
  <2>2. StepRight' /\ Idle'
    BY <1>10 DEF Released, Step, Quiet, around, notes, SATyped, StepRight, Idle, Activating
  <2>3. Unstopped' /\ Final'
    BY <1>10 DEF Released, Step, Quiet, around, notes, SATyped, StepRight, Unstopped, Final
  <2>4. OnlyLateWorkCut' /\ SuccessTrue'
    BY <1>10 DEF Released, Step, Quiet, around, notes, SATyped, StepRight, Idle, Final,
              Activating, OnlyLateWorkCut, SuccessTrue
  <2> QED BY <2>1, <2>2, <2>3, <2>4
<1>11. CASE Bootstrap
  <2>1. SATyped'
    BY <1>11 DEF Bootstrap, Step, notes, SATyped
  <2>2. StepRight' /\ Idle'
    BY <1>11 DEF Bootstrap, Step, notes, SATyped, StepRight, Idle, Activating
  <2>3. Unstopped' /\ Final'
    BY <1>11 DEF Bootstrap, Step, notes, SATyped, StepRight, Unstopped, Final
  <2>4. OnlyLateWorkCut' /\ SuccessTrue'
    BY <1>11 DEF Bootstrap, Step, notes, SATyped, StepRight, Idle, Final, Activating,
              OnlyLateWorkCut, SuccessTrue
  <2> QED BY <2>1, <2>2, <2>3, <2>4
<1>12. CASE Served
  <2>1. SATyped'
    BY <1>12 DEF Served, Healthy, Quiet, around, notes, SATyped, Processes
  <2>2. StepRight' /\ Idle'
    BY <1>12 DEF Served, Healthy, Quiet, around, notes, SATyped, StepRight, Idle, Activating
  <2>3. Unstopped' /\ Final'
    BY <1>12 DEF Served, Healthy, Quiet, around, notes, SATyped, StepRight, Unstopped, Final
  <2>4. OnlyLateWorkCut' /\ SuccessTrue'
    BY <1>12 DEF Served, Healthy, Quiet, around, notes, SATyped, StepRight, Idle, Final,
              Activating, OnlyLateWorkCut, SuccessTrue
  <2> QED BY <2>1, <2>2, <2>3, <2>4
<1>13. CASE Refuse
  <2>1. SATyped'
    BY <1>13 DEF Refuse, FailAt, Fail, Quiet, around, notes, NoWork, SATyped
  <2>2. StepRight' /\ Idle'
    BY <1>13 DEF Refuse, FailAt, Fail, Quiet, around, notes, NoWork, SATyped, StepRight,
              Idle, Activating
  <2>3. Unstopped' /\ Final'
    BY <1>13 DEF Refuse, FailAt, Fail, Quiet, around, notes, NoWork, SATyped, StepRight,
              Unstopped, Final
  <2>4. OnlyLateWorkCut' /\ SuccessTrue'
    BY <1>13 DEF Refuse, FailAt, Fail, Quiet, around, notes, NoWork, SATyped, StepRight,
              Idle, Final, Activating, OnlyLateWorkCut, SuccessTrue
  <2> QED BY <2>1, <2>2, <2>3, <2>4
<1>14. CASE Recover
  <2>1. SATyped'
    BY <1>14 DEF Recover, Step, Quiet, around, notes, SATyped
  <2>2. StepRight' /\ Idle'
    BY <1>14 DEF Recover, Step, Quiet, around, notes, SATyped, StepRight, Idle, Activating
  <2>3. Unstopped' /\ Final'
    BY <1>14 DEF Recover, Step, Quiet, around, notes, SATyped, StepRight, Unstopped, Final
  <2>4. OnlyLateWorkCut' /\ SuccessTrue'
    BY <1>14 DEF Recover, Step, Quiet, around, notes, SATyped, StepRight, Idle, Final,
              Activating, OnlyLateWorkCut, SuccessTrue
  <2> QED BY <2>1, <2>2, <2>3, <2>4
<1>15. CASE Fallback
  <2>1. SATyped'
    <3>1. listener' \in Processes /\ started' \in Nat
      <4>1. listener \in Processes /\ started \in Nat
        BY DEF SATyped
      <4>2. CASE UNCHANGED <<listener, started>>
        BY <4>1, <4>2
      <4>3. CASE /\ listener' = [kind |-> "fallback", pid |-> started + 1, fresh |-> TRUE]
                 /\ started' = started + 1
        BY <4>1, <4>3 DEF Processes
      <4> QED BY <1>15, <4>2, <4>3 DEF Fallback
    <3> QED BY <1>15, <3>1 DEF Fallback, Step, notes, SATyped
  <2>2. StepRight' /\ Idle'
    BY <1>15 DEF Fallback, Step, notes, SATyped, StepRight, Idle, Activating
  <2>3. Unstopped' /\ Final'
    BY <1>15 DEF Fallback, Step, notes, SATyped, StepRight, Unstopped, Final
  <2>4. OnlyLateWorkCut' /\ SuccessTrue'
    BY <1>15 DEF Fallback, Step, notes, SATyped, StepRight, Idle, Final, Activating,
              OnlyLateWorkCut, SuccessTrue
  <2> QED BY <2>1, <2>2, <2>3, <2>4
<1>16. CASE Verify
  <2>1. SATyped'
    <3>1. listener.pid \in Nat
      BY DEF SATyped, Processes
    <3>2. verdict' \in [status : {"none", "blocked", "already_running", "not_verified",
                                  "running", "running_fallback", "activation_failed"},
                        stopped : BOOLEAN, unchanged : BOOLEAN, pid : Nat]
      <4>1. CASE verdict' = [verdict EXCEPT !.status = "activation_failed"]
        BY <4>1 DEF SATyped
      <4>2. CASE verdict' = [verdict EXCEPT !.status = "running_fallback",
                               !.pid = listener.pid, !.unchanged = (config = 0)]
        BY <3>1, <4>2 DEF SATyped
      <4> QED BY <1>16, <4>1, <4>2 DEF Verify
    <3> QED BY <1>16, <3>2 DEF Verify, Step, Quiet, around, notes, SATyped
  <2>2. StepRight' /\ Idle'
    BY <1>16 DEF Verify, Step, Healthy, Quiet, around, notes, SATyped, StepRight, Idle,
              Activating
  <2>3. Unstopped' /\ Final'
    BY <1>16 DEF Verify, Step, Healthy, Quiet, around, notes, SATyped, StepRight, Unstopped,
              Final
  <2>4. OnlyLateWorkCut' /\ SuccessTrue'
    BY <1>16 DEF Verify, Step, Healthy, Quiet, around, notes, SATyped, StepRight, Idle,
              Final, Activating, OnlyLateWorkCut, SuccessTrue
  <2> QED BY <2>1, <2>2, <2>3, <2>4
<1> QED BY <1>1, <1>2, <1>3, <1>4, <1>5, <1>6, <1>7, <1>8, <1>9, <1>10, <1>11, <1>12,
           <1>13, <1>14, <1>15, <1>16

\* restart_personal.
LEMMA SARestart ==
  ASSUME SAStrong,
         Identify \/ Settle \/ Guard \/ Kickstart \/ Readback \/ RefuseRestart
  PROVE  SAStrong'
<1> USE DEF SAStrong
<1>1. CASE Identify
  <2>1. SATyped'
    BY <1>1 DEF Identify, Fail, Quiet, around, SATyped, Processes, None
  <2>2. StepRight' /\ Idle'
    BY <1>1 DEF Identify, Fail, Quiet, around, SATyped, StepRight, Idle, Activating
  <2>3. Unstopped' /\ Final'
    BY <1>1 DEF Identify, Fail, Quiet, around, SATyped, StepRight, Unstopped, Final
  <2>4. OnlyLateWorkCut' /\ SuccessTrue'
    BY <1>1 DEF Identify, Fail, Quiet, around, AgentPid, SATyped, StepRight, Idle, Final,
              Activating, OnlyLateWorkCut, SuccessTrue
  <2> QED BY <2>1, <2>2, <2>3, <2>4
<1>2. CASE Settle
  <2>1. SATyped'
    BY <1>2 DEF Settle, Step, Quiet, around, notes, SATyped
  <2>2. StepRight' /\ Idle'
    BY <1>2 DEF Settle, Step, Quiet, around, notes, SATyped, StepRight, Idle, Activating
  <2>3. Unstopped' /\ Final'
    BY <1>2 DEF Settle, Step, Quiet, around, notes, SATyped, StepRight, Unstopped, Final
  <2>4. OnlyLateWorkCut' /\ SuccessTrue'
    BY <1>2 DEF Settle, Step, Quiet, around, notes, SATyped, StepRight, Idle, Final,
              Activating, OnlyLateWorkCut, SuccessTrue
  <2> QED BY <2>1, <2>2, <2>3, <2>4
<1>3. CASE Guard
  <2>1. SATyped'
    BY <1>3 DEF Guard, NoWork, Quiet, around, SATyped
  <2>2. StepRight' /\ Idle'
    BY <1>3 DEF Guard, NoWork, Quiet, around, SATyped, StepRight, Idle, Activating
  <2>3. Unstopped' /\ Final'
    BY <1>3 DEF Guard, NoWork, Quiet, around, SATyped, StepRight, Unstopped, Final
  <2>4. OnlyLateWorkCut' /\ SuccessTrue'
    BY <1>3 DEF Guard, NoWork, Quiet, around, AgentPid, SATyped, StepRight, Idle, Final,
              Activating, OnlyLateWorkCut, SuccessTrue
  <2> QED BY <2>1, <2>2, <2>3, <2>4
<1>4. CASE Kickstart
  <2>1. SATyped'
    BY <1>4 DEF Kickstart, Step, Told, Quiet, around, notes, SATyped
  <2>2. StepRight' /\ Idle'
    BY <1>4 DEF Kickstart, Step, Told, Quiet, around, notes, SATyped, StepRight, Idle,
              Activating
  <2>3. Unstopped' /\ Final'
    BY <1>4 DEF Kickstart, Step, Told, Quiet, around, notes, SATyped, StepRight, Unstopped,
              Final
  <2>4. OnlyLateWorkCut' /\ SuccessTrue'
    BY <1>4 DEF Kickstart, Step, Told, Quiet, around, notes, SATyped, StepRight, Idle, Final,
              Activating, OnlyLateWorkCut, SuccessTrue
  <2> QED BY <2>1, <2>2, <2>3, <2>4
<1>5. CASE Readback
  <2>1. SATyped'
    BY <1>5 DEF Readback, Healthy, Fail, Quiet, around, notes, SATyped, Processes
  <2>2. StepRight' /\ Idle'
    BY <1>5 DEF Readback, Healthy, Fail, Quiet, around, notes, SATyped, StepRight, Idle,
              Activating
  <2>3. Unstopped' /\ Final'
    BY <1>5 DEF Readback, Healthy, Fail, Quiet, around, notes, SATyped, StepRight, Unstopped,
              Final
  <2>4. OnlyLateWorkCut' /\ SuccessTrue'
    BY <1>5 DEF Readback, Healthy, Fail, Quiet, around, notes, AgentPid, SATyped, StepRight,
              Idle, Final, Activating, OnlyLateWorkCut, SuccessTrue
  <2> QED BY <2>1, <2>2, <2>3, <2>4
<1>6. CASE RefuseRestart
  <2>1. SATyped'
    BY <1>6 DEF RefuseRestart, FailAt, Fail, Quiet, around, notes, NoWork, SATyped
  <2>2. StepRight' /\ Idle'
    BY <1>6 DEF RefuseRestart, FailAt, Fail, Quiet, around, notes, NoWork, SATyped,
              StepRight, Idle, Activating
  <2>3. Unstopped' /\ Final'
    BY <1>6 DEF RefuseRestart, FailAt, Fail, Quiet, around, notes, NoWork, SATyped,
              StepRight, Unstopped, Final
  <2>4. OnlyLateWorkCut' /\ SuccessTrue'
    BY <1>6 DEF RefuseRestart, FailAt, Fail, Quiet, around, notes, NoWork, AgentPid, SATyped,
              StepRight, Idle, Final, Activating, OnlyLateWorkCut, SuccessTrue
  <2> QED BY <2>1, <2>2, <2>3, <2>4
<1> QED BY <1>1, <1>2, <1>3, <1>4, <1>5, <1>6

LEMMA SAStart ==
  ASSUME SAInit
  PROVE  SAStrong
<1> USE DEF SAInit
<1>1. listener \in Processes /\ found \in Processes
  <2>1. None \in Processes
    BY DEF Processes, None
  <2>2. [kind : {"gui", "agent"}, pid : {1}, fresh : BOOLEAN] \subseteq Processes
    BY DEF Processes
  <2> QED BY <2>1, <2>2
<1>2. verdict \in [status : {"none", "blocked", "already_running", "not_verified", "running",
                             "running_fallback", "activation_failed"},
                   stopped : BOOLEAN, unchanged : BOOLEAN, pid : Nat]
  BY DEF NoReport
<1>3. SATyped
  BY <1>1, <1>2 DEF SATyped
<1>4. /\ verdict.status = "none" /\ verdict.stopped = FALSE
      /\ idleLooks = 0 /\ dying = FALSE /\ at = "look" /\ found = None
  BY DEF NoReport
<1>5. StepRight
  BY <1>4 DEF StepRight
<1>6. Idle /\ Unstopped /\ Final /\ OnlyLateWorkCut /\ SuccessTrue
  BY <1>4 DEF Idle, Unstopped, Final, OnlyLateWorkCut, SuccessTrue
<1> QED BY <1>3, <1>5, <1>6 DEF SAStrong

\* A listener is told to end only after the installed application has answered
\* and the scripts have looked, so only what came since is cut off; a refusal
\* leaves everything as it was; and a success is a new process of the installed
\* version (scripts/service_personal.py, scripts/restart_personal.py), whatever
\* requests, jobs, edits, crashes and launchd do in between, any number of times.
THEOREM ActivationSafe == SASpec => []ActivationInv
<1>1. SAInit => SAStrong
  BY SAStart
<1>2. SAStrong /\ [SANext]_savars => SAStrong'
  <2> SUFFICES ASSUME SAStrong, [SANext]_savars PROVE SAStrong'
    OBVIOUS
  <2>1. CASE UNCHANGED savars
    <3>1. SATyped' /\ StepRight' /\ Idle'
      BY <2>1 DEF savars, SAStrong, SATyped, StepRight, Idle, Activating
    <3>2. Unstopped' /\ Final' /\ OnlyLateWorkCut' /\ SuccessTrue'
      BY <2>1 DEF savars, SAStrong, Unstopped, Final, OnlyLateWorkCut, SuccessTrue
    <3> QED BY <3>1, <3>2 DEF SAStrong
  <2> QED BY <2>1, SAAround, SAActivate, SARestart DEF SANext
<1>3. SAStrong => ActivationInv
  BY DEF SAStrong, ActivationInv, RefusalsHarmless, Unstopped, Final
<1> QED BY <1>1, <1>2, <1>3, PTL DEF SASpec
=============================================================================
