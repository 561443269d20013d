------------------------- MODULE ManagedPatchProofs -------------------------
(***************************************************************************)
(* Theorems about ManagedPatch, for any requests, callers, files, commands *)
(* and gates. First what a step of a caller does to the variables of all   *)
(* callers, then one lemma per conjunct of PatchInv; Written says how a    *)
(* file can change at all, and the step properties follow from it.  Last,  *)
(* the refinement of EditPromise, one lemma per kind of step.              *)
(***************************************************************************)
EXTENDS ManagedPatch, TLAPS

-----------------------------------------------------------------------------
(* Moves of one caller *)

Places == {"idle", "peek", "root"} \cup InRoot

\* The part of TypeOK about the variables of a call.
CallersTyped ==
  /\ pc \in [Callers -> Places]
  /\ req \in [Callers -> Requests \cup {NoRequest}]
  /\ saw \in [Callers \cup Jobs -> [Files -> SUBSET Edits]]
  /\ todo \in [Callers -> SUBSET Files]

\* The sets of places, written out.
LEMMA PlacesAre ==
  /\ InRoot = {"local", "look", "begin", "check", "stage", "write", "restore", "after", "accept", "reject"}
  /\ InLocal = {"look", "begin", "check", "stage", "write", "restore", "after", "accept", "reject"}
  /\ Critical = {"check", "stage", "write", "restore", "after", "accept", "reject"}
  BY DEF InRoot, InLocal, Critical

\* Going to a place moves one caller.
LEMMA GotoDoes ==
  ASSUME CallersTyped, NEW c \in Callers, NEW place \in Places, Goto(c, place)
  PROVE  /\ CallersTyped'
         /\ pc'[c] = place
         /\ \A d \in Callers \ {c} : pc'[d] = pc[d]
  BY DEF CallersTyped, Goto

\* Returning clears one caller.
LEMMA ReturnDoes ==
  ASSUME CallersTyped, NEW c \in Callers, Return(c)
  PROVE  /\ CallersTyped'
         /\ pc'[c] = "idle"
         /\ \A d \in Callers \ {c} : pc'[d] = pc[d] /\ req'[d] = req[d] /\ todo'[d] = todo[d]
         /\ \A a \in (Callers \cup Jobs) \ {c} : saw'[a] = saw[a]
  <1>1. Nothing \in [Files -> SUBSET Edits]
    BY DEF Nothing
  <1>2. pc' \in [Callers -> Places] /\ pc'[c] = "idle" /\ \A d \in Callers \ {c} : pc'[d] = pc[d]
    BY DEF CallersTyped, Return, Places
  <1>3. req' \in [Callers -> Requests \cup {NoRequest}] /\ \A d \in Callers \ {c} : req'[d] = req[d]
    BY DEF CallersTyped, Return
  <1>4. todo' \in [Callers -> SUBSET Files] /\ \A d \in Callers \ {c} : todo'[d] = todo[d]
    BY DEF CallersTyped, Return
  <1>5. saw' \in [Callers \cup Jobs -> [Files -> SUBSET Edits]] /\ \A a \in (Callers \cup Jobs) \ {c} : saw'[a] = saw[a]
    BY <1>1 DEF CallersTyped, Return
  <1> QED
    BY <1>2, <1>3, <1>4, <1>5 DEF CallersTyped

\* Reading the files changes what one caller or command saw.
LEMMA LookDoes ==
  ASSUME CallersTyped, TypeOK, NEW a \in Callers \cup Jobs, saw' = [saw EXCEPT ![a] = content]
  PROVE  /\ saw' \in [Callers \cup Jobs -> [Files -> SUBSET Edits]]
         /\ saw'[a] = content
         /\ \A b \in (Callers \cup Jobs) \ {a} : saw'[b] = saw[b]
  BY DEF CallersTyped, TypeOK

\* A step that leaves a caller alone; one that is the step of one caller.
Untouched(d) ==
  /\ pc'[d] = pc[d] /\ req'[d] = req[d] /\ todo'[d] = todo[d] /\ saw'[d] = saw[d]

CallerMoves(c) ==
  /\ CallersTyped'
  /\ \A d \in Callers \ {c} : Untouched(d)
  /\ \A j \in Jobs : saw'[j] = saw[j]

\* Going to a place is a move of one caller,
LEMMA MoveByGoto ==
  ASSUME CallersTyped, PatchAssumption, NEW c \in Callers, NEW place \in Places, Goto(c, place)
  PROVE  CallerMoves(c)
  BY GotoDoes DEF CallerMoves, Untouched, Goto

\* as is returning,
LEMMA MoveByReturn ==
  ASSUME CallersTyped, PatchAssumption, NEW c \in Callers, Return(c)
  PROVE  CallerMoves(c)
  <1>1. \A j \in Jobs : j \in (Callers \cup Jobs) \ {c}
    BY DEF PatchAssumption
  <1> QED
  BY <1>1, ReturnDoes DEF CallerMoves, Untouched

\* and going on after a look at the files.
LEMMA MoveByLook ==
  ASSUME CallersTyped, TypeOK, PatchAssumption, NEW c \in Callers, NEW place \in Places, NEW T \in SUBSET Files,
         saw' = [saw EXCEPT ![c] = content], pc' = [pc EXCEPT ![c] = place], req' = req, todo' = [todo EXCEPT ![c] = T]
  PROVE  CallerMoves(c)
  <1>1. \A j \in Jobs : j \in (Callers \cup Jobs) \ {c}
    BY DEF PatchAssumption
  <1>2. pc' \in [Callers -> Places] /\ \A d \in Callers \ {c} : pc'[d] = pc[d]
    BY DEF CallersTyped
  <1>3. todo' \in [Callers -> SUBSET Files] /\ \A d \in Callers \ {c} : todo'[d] = todo[d]
    BY DEF CallersTyped
  <1>4. c \in Callers \cup Jobs
    OBVIOUS
  <1> QED
    BY <1>1, <1>2, <1>3, <1>4, LookDoes DEF CallersTyped, CallerMoves, Untouched

\* Every action of a caller is a move of that caller.
LEMMA CallerStepMoves ==
  ASSUME TypeOK, CallersKnow, PatchAssumption, NEW c \in Callers, CallerStep(c)
  PROVE  CallerMoves(c)
  <1>0. CallersTyped
    BY DEF TypeOK, CallersTyped, Places
  <1>00. {"idle", "peek", "root", "local", "look", "begin", "check", "stage", "write",
          "restore", "after", "accept", "reject"} \subseteq Places
    BY PlacesAre DEF Places
  <1>1. ASSUME NEW r \in Requests, Submit(c, r) PROVE CallerMoves(c)
    <2>1. pc' \in [Callers -> Places] /\ \A d \in Callers \ {c} : pc'[d] = pc[d]
      BY <1>0, <1>00, <1>1 DEF CallersTyped, Submit
    <2>2. req' \in [Callers -> Requests \cup {NoRequest}] /\ \A d \in Callers \ {c} : req'[d] = req[d]
      BY <1>0, <1>1 DEF CallersTyped, Submit
    <2> QED
      BY <1>0, <1>1, <2>1, <2>2 DEF CallersTyped, CallerMoves, Untouched, Submit
  <1>2. ASSUME PeekReceipt(c) PROVE CallerMoves(c)
    BY <1>0, <1>00, <1>2, MoveByGoto, MoveByReturn DEF PeekReceipt
  <1>3. ASSUME TakeRoot(c) \/ TakeLocal(c) PROVE CallerMoves(c)
    BY <1>0, <1>00, <1>3, MoveByGoto DEF TakeRoot, TakeLocal
  <1>4. ASSUME GateTimeout(c) PROVE CallerMoves(c)
    BY <1>0, <1>4, MoveByReturn DEF GateTimeout
  <1>5. ASSUME Fingerprint(c) PROVE CallerMoves(c)
    <2>1. CASE Return(c)
      BY <1>0, <2>1, MoveByReturn
    <2>2. CASE saw' = [saw EXCEPT ![c] = content] /\ pc' = [pc EXCEPT ![c] = "begin"] /\ UNCHANGED <<req, todo>>
      <3>1. todo' = [todo EXCEPT ![c] = todo[c]] /\ todo[c] \in SUBSET Files
        BY <1>0, <2>2 DEF CallersTyped
      <3> QED
        BY <1>0, <1>00, <2>2, <3>1, MoveByLook
    <2> QED
      BY <1>5, <2>1, <2>2 DEF Fingerprint
  <1>6. ASSUME BeginReceipt(c) PROVE CallerMoves(c)
    BY <1>0, <1>00, <1>6, MoveByGoto, MoveByReturn DEF BeginReceipt
  <1>7. ASSUME CheckTask(c) PROVE CallerMoves(c)
    <2>1. CASE Goto(c, "reject")
      BY <1>0, <1>00, <2>1, MoveByGoto
    <2>2. CASE Goto(c, "stage")
      BY <1>0, <1>00, <2>2, MoveByGoto
    <2> QED
      BY <1>7, <2>1, <2>2 DEF CheckTask
  <1>8. ASSUME Stage(c) PROVE CallerMoves(c)
    <2>1. CASE Goto(c, "reject")
      BY <1>0, <1>00, <2>1, MoveByGoto
    <2>2. CASE /\ saw' = [saw EXCEPT ![c] = content]
               /\ pc' = [pc EXCEPT ![c] = "write"]
               /\ todo' = [todo EXCEPT ![c] = Touches[req[c]]]
               /\ UNCHANGED req
      <3>1. pc[c] = "stage" /\ req[c] \in Requests
        BY <1>8 DEF Stage, CallersKnow, CallerKnows
      <3>2. Touches[req[c]] \in SUBSET Files
        BY <3>1 DEF PatchAssumption
      <3> QED
        BY <1>0, <1>00, <2>2, <3>2, MoveByLook
    <2> QED
      BY <1>8, <2>1, <2>2 DEF Stage
  <1>9. ASSUME NEW f \in Files, Replace(c, f) PROVE CallerMoves(c)
    <2>1. pc' \in [Callers -> Places] /\ \A d \in Callers \ {c} : pc'[d] = pc[d]
      BY <1>0, <1>00, <1>9 DEF CallersTyped, Replace
    <2>2. todo' \in [Callers -> SUBSET Files] /\ \A d \in Callers \ {c} : todo'[d] = todo[d]
      BY <1>0, <1>9 DEF CallersTyped, Replace
    <2> QED
      BY <1>0, <1>9, <2>1, <2>2 DEF CallersTyped, CallerMoves, Untouched, Replace
  <1>10. ASSUME NEW f \in Files, Restore(c, f) PROVE CallerMoves(c)
    <2>1. pc' \in [Callers -> Places] /\ \A d \in Callers \ {c} : pc'[d] = pc[d]
      BY <1>0, <1>00, <1>10 DEF CallersTyped, Restore
    <2>2. todo' \in [Callers -> SUBSET Files] /\ \A d \in Callers \ {c} : todo'[d] = todo[d]
      BY <1>0, <1>10 DEF CallersTyped, Restore
    <2> QED
      BY <1>0, <1>10, <2>1, <2>2 DEF CallersTyped, CallerMoves, Untouched, Restore
  <1>11. ASSUME ReplaceFails(c) PROVE CallerMoves(c)
    <2>1. CASE Goto(c, "reject")
      BY <1>0, <1>00, <2>1, MoveByGoto
    <2>2. CASE /\ pc' = [pc EXCEPT ![c] = "restore"]
               /\ todo' = [todo EXCEPT ![c] = Touches[req[c]]]
               /\ UNCHANGED <<req, saw>>
      <3>1. pc[c] = "write" /\ req[c] \in Requests
        BY <1>11 DEF ReplaceFails, CallersKnow, CallerKnows
      <3>2. Touches[req[c]] \in SUBSET Files
        BY <3>1 DEF PatchAssumption
      <3>3. pc' \in [Callers -> Places] /\ \A d \in Callers \ {c} : pc'[d] = pc[d]
        BY <1>0, <1>00, <2>2 DEF CallersTyped
      <3>4. todo' \in [Callers -> SUBSET Files] /\ \A d \in Callers \ {c} : todo'[d] = todo[d]
        BY <1>0, <2>2, <3>2 DEF CallersTyped
      <3> QED
        BY <1>0, <2>2, <3>3, <3>4 DEF CallersTyped, CallerMoves, Untouched
    <2> QED
      BY <1>11, <2>1, <2>2 DEF ReplaceFails
  <1>12. ASSUME FingerprintAfter(c) PROVE CallerMoves(c)
    BY <1>0, <1>00, <1>12, MoveByGoto DEF FingerprintAfter
  <1>13. ASSUME FinishReceipt(c) PROVE CallerMoves(c)
    BY <1>0, <1>13, MoveByReturn DEF FinishReceipt
  <1> QED
    BY <1>1, <1>2, <1>3, <1>4, <1>5, <1>6, <1>7, <1>8, <1>9, <1>10, <1>11, <1>12, <1>13
       DEF CallerStep

-----------------------------------------------------------------------------
(* The conjuncts of the invariant *)

\* Every step keeps the type of every variable.
LEMMA TypeStep ==
  ASSUME TypeOK, CallersKnow, PatchAssumption, [Next]_vars
  PROVE  TypeOK'
  <1> DEFINE OthersTyped ==
        /\ content \in [Files -> SUBSET Edits]
        /\ receipt \in [Requests -> {"none", "started", "ok", "error"}]
        /\ commits \in [Requests -> Nat]
  <1>1. ASSUME NEW r \in Requests, NEW f \in Files, ReadFile(r, f) PROVE TypeOK'
    <2>1. read' \in [Requests -> SUBSET Files]
      BY <1>1 DEF TypeOK, ReadFile
    <2>2. basis' \in [Requests -> [Files -> SUBSET Edits]]
      <3>1. content[f] \in SUBSET Edits /\ basis[r] \in [Files -> SUBSET Edits]
        BY DEF TypeOK
      <3>2. [basis[r] EXCEPT ![f] = content[f]] \in [Files -> SUBSET Edits]
        BY <3>1
      <3>3. basis' = [basis EXCEPT ![r] = [basis[r] EXCEPT ![f] = content[f]]]
        BY <1>1 DEF ReadFile, TypeOK
      <3> QED
        BY <3>2, <3>3 DEF TypeOK
    <2> QED
      BY <1>1, <2>1, <2>2 DEF TypeOK, ReadFile, callers, rest
  <1>2. ASSUME NEW c \in Callers, CallerStep(c) PROVE TypeOK'
    <2>1. CallersTyped'
      BY <1>2, CallerStepMoves DEF CallerMoves
    <2>2. OthersTyped
      BY DEF TypeOK
    <2>3. /\ pc[c] # "idle" => req[c] \in Requests
          /\ saw[c] \in [Files -> SUBSET Edits]
      BY DEF TypeOK, CallersKnow, CallerKnows
    <2>4. pc[c] # "idle" => {req[c]} \subseteq Edits
      BY <2>3 DEF Edits
    <2>5. OthersTyped' /\ UNCHANGED <<authors, rest>>
      <3>1. ASSUME NEW r \in Requests, Submit(c, r) PROVE OthersTyped' /\ UNCHANGED <<authors, rest>>
        BY <2>2, <3>1 DEF Submit
      <3>2. ASSUME PeekReceipt(c) \/ TakeRoot(c) \/ TakeLocal(c) \/ GateTimeout(c) \/ Fingerprint(c)
                   \/ CheckTask(c) \/ ReplaceFails(c) \/ FingerprintAfter(c)
            PROVE  OthersTyped' /\ UNCHANGED <<authors, rest>>
        BY <2>2, <3>2
           DEF PeekReceipt, TakeRoot, TakeLocal, GateTimeout, Fingerprint, CheckTask, ReplaceFails, FingerprintAfter
      <3>3. ASSUME BeginReceipt(c) PROVE OthersTyped' /\ UNCHANGED <<authors, rest>>
        BY <2>2, <3>3 DEF BeginReceipt
      <3>4. ASSUME Stage(c) PROVE OthersTyped' /\ UNCHANGED <<authors, rest>>
        <4>1. pc[c] # "idle"
          BY <3>4 DEF Stage
        <4>2. commits' \in [Requests -> Nat]
          BY <2>2, <2>3, <3>4, <4>1 DEF Stage
        <4> QED
          BY <2>2, <3>4, <4>2 DEF Stage
      <3>5. ASSUME NEW f \in Files, Replace(c, f) PROVE OthersTyped' /\ UNCHANGED <<authors, rest>>
        <4>1. saw[c][f] \cup {req[c]} \in SUBSET Edits
          BY <2>3, <2>4, <3>5 DEF Replace
        <4>2. content' \in [Files -> SUBSET Edits]
          BY <2>2, <3>5, <4>1 DEF Replace
        <4> QED
          BY <2>2, <3>5, <4>2 DEF Replace
      <3>6. ASSUME NEW f \in Files, Restore(c, f) PROVE OthersTyped' /\ UNCHANGED <<authors, rest>>
        <4>1. saw[c][f] \in SUBSET Edits
          BY <2>3
        <4>2. content' \in [Files -> SUBSET Edits]
          BY <2>2, <3>6, <4>1 DEF Restore
        <4> QED
          BY <2>2, <3>6, <4>2 DEF Restore
      <3>7. ASSUME FinishReceipt(c) PROVE OthersTyped' /\ UNCHANGED <<authors, rest>>
        BY <2>2, <3>7 DEF FinishReceipt
      <3> QED
        BY <1>2, <3>1, <3>2, <3>3, <3>4, <3>5, <3>6, <3>7 DEF CallerStep
    <2> QED
      BY <2>1, <2>5 DEF TypeOK, CallersTyped, Places, authors, rest
  <1>3. ASSUME NEW j \in Jobs, JobStep(j) PROVE TypeOK'
    <2>1. ASSUME JobTakesSource(j) PROVE TypeOK'
      BY <2>1 DEF TypeOK, JobTakesSource, authors, callers
    <2>2. ASSUME JobReads(j) PROVE TypeOK'
      <3>1. saw' \in [Callers \cup Jobs -> [Files -> SUBSET Edits]]
        BY <2>2 DEF TypeOK, JobReads
      <3> QED
        BY <2>2, <3>1 DEF TypeOK, JobReads, authors
    <2>3. ASSUME JobEnds(j) PROVE TypeOK'
      <3>1. saw' \in [Callers \cup Jobs -> [Files -> SUBSET Edits]]
        BY <2>3 DEF TypeOK, JobEnds, Nothing
      <3> QED
        BY <2>3, <3>1 DEF TypeOK, JobEnds, authors
    <2>4. ASSUME NEW f \in Files, JobWrites(j, f) PROVE TypeOK'
      <3>1. saw[j][f] \cup {j} \in SUBSET Edits
        BY DEF TypeOK, Edits
      <3>2. content' \in [Files -> SUBSET Edits]
        BY <2>4, <3>1 DEF TypeOK, JobWrites
      <3> QED
        BY <2>4, <3>2 DEF TypeOK, JobWrites, authors, callers, rest
    <2> QED
      BY <1>3, <2>1, <2>2, <2>3, <2>4 DEF JobStep
  <1>4. ASSUME NEW t \in Tasks, CompleteTask(t) PROVE TypeOK'
    BY <1>4 DEF TypeOK, CompleteTask, authors, callers
  <1>5. ASSUME NEW S \in SUBSET Callers, ServerCrash(S) PROVE TypeOK'
    <2>1. pc' \in [Callers -> Places] /\ todo' \in [Callers -> SUBSET Files]
      BY <1>5 DEF TypeOK, ServerCrash, Places
    <2>2. req' \in [Callers -> Requests \cup {NoRequest}]
      BY <1>5 DEF TypeOK, ServerCrash
    <2>3. saw' \in [Callers \cup Jobs -> [Files -> SUBSET Edits]]
      <3>1. Nothing \in [Files -> SUBSET Edits]
        BY DEF Nothing
      <3>2. \A a \in Callers \cup Jobs : saw[a] \in [Files -> SUBSET Edits]
        BY DEF TypeOK
      <3> QED
        BY <1>5, <3>1, <3>2 DEF ServerCrash
    <2>4. crashes' \in Nat
      BY <1>5 DEF TypeOK, ServerCrash
    <2> QED
      BY <1>5, <2>1, <2>2, <2>3, <2>4 DEF TypeOK, ServerCrash, Places, authors
  <1>6. ASSUME UNCHANGED vars PROVE TypeOK'
    BY <1>6 DEF TypeOK, vars, authors, callers, rest
  <1> QED
    BY <1>1, <1>2, <1>3, <1>4, <1>5, <1>6 DEF Next

\* A caller comes under a gate only when nobody else holds it.
LEMMA Entering ==
  ASSUME TypeOK, NEW c \in Callers, CallerStep(c)
  PROVE  /\ pc'[c] \in InRoot => pc[c] \in InRoot \/ RootFree
         /\ pc'[c] \in InLocal => pc[c] \in InLocal \/ (pc[c] = "local" /\ LocalFree(Local[req[c]]))
         /\ UNCHANGED job
  <1> USE PlacesAre DEF TypeOK
  <1>1. ASSUME NEW r \in Requests, Submit(c, r)
        PROVE  pc'[c] = "peek" /\ UNCHANGED job
    BY <1>1 DEF Submit, rest
  <1>2. ASSUME PeekReceipt(c)
        PROVE  pc'[c] \in {"root", "idle"} /\ UNCHANGED job
    BY <1>2 DEF PeekReceipt, Goto, Return, rest
  <1>3. ASSUME TakeRoot(c)
        PROVE  pc'[c] = "local" /\ RootFree /\ UNCHANGED job
    BY <1>3 DEF TakeRoot, Goto, rest
  <1>4. ASSUME TakeLocal(c)
        PROVE  pc[c] = "local" /\ LocalFree(Local[req[c]]) /\ UNCHANGED job
    BY <1>4 DEF TakeLocal, rest
  <1>5. ASSUME GateTimeout(c) \/ FinishReceipt(c)
        PROVE  pc'[c] = "idle" /\ UNCHANGED job
    BY <1>5 DEF GateTimeout, FinishReceipt, Return, rest
  <1>6. ASSUME Fingerprint(c) \/ BeginReceipt(c) \/ CheckTask(c) \/ Stage(c) \/ ReplaceFails(c)
               \/ FingerprintAfter(c)
        PROVE  pc[c] \in InLocal /\ UNCHANGED job
    BY <1>6 DEF Fingerprint, BeginReceipt, CheckTask, Stage, ReplaceFails, FingerprintAfter, rest
  <1>7. ASSUME NEW f \in Files, Replace(c, f) \/ Restore(c, f)
        PROVE  pc[c] \in InLocal /\ UNCHANGED job
    BY <1>7 DEF Replace, Restore, rest
  <1> QED
    BY <1>1, <1>2, <1>3, <1>4, <1>5, <1>6, <1>7 DEF CallerStep

\* A gate is taken only when it is free, or shared by builds.
LEMMA ExcludeStep ==
  ASSUME TypeOK, GatesExclude, CallersKnow, PatchAssumption, OneWorkspaceAssumption, [Next]_vars
  PROVE  GatesExclude'
  <1>1. ASSUME UNCHANGED <<pc, job>> PROVE GatesExclude'
    BY <1>1 DEF GatesExclude
  <1>2. ASSUME NEW c \in Callers, CallerStep(c) PROVE GatesExclude'
    <2>1. \A d \in Callers \ {c} : pc'[d] = pc[d]
      BY <1>2, CallerStepMoves DEF CallerMoves, Untouched
    <2>2. /\ pc'[c] \in InRoot => pc[c] \in InRoot \/ RootFree
          /\ pc'[c] \in InLocal => pc[c] \in InLocal \/ (pc[c] = "local" /\ LocalFree(Local[req[c]]))
          /\ UNCHANGED job
      BY <1>2, Entering
    <2>3. ASSUME NEW d \in Callers, NEW e \in Callers, pc'[d] \in InRoot, pc'[e] \in InRoot
          PROVE  d = e
      BY <2>1, <2>2, <2>3 DEF GatesExclude, RootFree
    <2>4. ASSUME NEW d \in Callers, NEW j \in Jobs, pc'[d] \in InLocal, job'[j] \in {"hold", "edit"}
          PROVE  FALSE
      <3>1. pc[d] \notin InLocal
        BY <2>2, <2>4 DEF GatesExclude
      <3>2. d = c /\ pc[c] = "local" /\ LocalFree(Local[req[c]])
        BY <2>1, <2>2, <2>4, <3>1
      <3>3. Local[req[c]] = Source
        BY <3>2 DEF CallersKnow, CallerKnows, OneWorkspaceAssumption
      <3> QED
        BY <2>2, <2>4, <3>2, <3>3 DEF LocalFree
    <2> QED
      BY <2>2, <2>3, <2>4 DEF GatesExclude
  <1>3. ASSUME NEW j \in Jobs, JobStep(j) PROVE GatesExclude'
    <2>1. ASSUME JobTakesSource(j) PROVE GatesExclude'
      <3>1. \A c \in Callers : pc[c] \notin InLocal
        <4>1. SUFFICES ASSUME NEW c \in Callers, pc[c] \in InLocal PROVE FALSE
          OBVIOUS
        <4>2. Local[req[c]] = Source
          BY <4>1, PlacesAre DEF CallersKnow, CallerKnows, OneWorkspaceAssumption
        <4> QED
          BY <2>1, <4>1, <4>2 DEF JobTakesSource
      <3>2. UNCHANGED pc /\ job' = [job EXCEPT ![j] = "hold"] /\ job[j] = "queued"
        BY <2>1 DEF JobTakesSource, callers
      <3>3. \A k \in Jobs : job[k] \in {"hold", "edit"} => JobMode[j] = "build" /\ JobMode[k] = "build"
        BY <2>1 DEF JobTakesSource
      <3> QED
        BY <3>1, <3>2, <3>3 DEF GatesExclude, TypeOK
    <2>2. ASSUME JobReads(j) PROVE GatesExclude'
      BY <2>2 DEF JobReads, GatesExclude, TypeOK
    <2>3. ASSUME JobEnds(j) PROVE GatesExclude'
      BY <2>3 DEF JobEnds, GatesExclude, TypeOK
    <2>4. ASSUME NEW f \in Files, JobWrites(j, f) PROVE GatesExclude'
      BY <1>1, <2>4 DEF JobWrites, callers, rest
    <2> QED
      BY <1>3, <2>1, <2>2, <2>3, <2>4 DEF JobStep
  <1>4. ASSUME NEW S \in SUBSET Callers, ServerCrash(S) PROVE GatesExclude'
    BY <1>4, PlacesAre DEF ServerCrash, GatesExclude
  <1>5. ASSUME NEW r \in Requests, NEW f \in Files, ReadFile(r, f) PROVE GatesExclude'
    BY <1>1, <1>5 DEF ReadFile, callers, rest
  <1>6. ASSUME NEW t \in Tasks, CompleteTask(t) PROVE GatesExclude'
    BY <1>1, <1>6 DEF CompleteTask, callers
  <1>7. ASSUME UNCHANGED vars PROVE GatesExclude'
    BY <1>1, <1>7 DEF vars, callers, rest
  <1> QED
    BY <1>2, <1>3, <1>4, <1>5, <1>6, <1>7 DEF Next

\* What a caller knows holds on while he and what he looks at stay the same,
LEMMA Frame ==
  ASSUME NEW d \in Callers, Untouched(d), UNCHANGED <<content, authors>>, CallerKnows(d)
  PROVE  CallerKnows(d)'
  BY DEF Untouched, CallerKnows, authors

\* and a caller outside the gates only knows his request.
LEMMA Outside ==
  ASSUME NEW d \in Callers, Untouched(d), pc[d] \notin InRoot, CallerKnows(d), UNCHANGED authors
  PROVE  CallerKnows(d)'
  BY PlacesAre DEF Untouched, CallerKnows, authors

\* A caller at these places knows no more than his request.
LEMMA Early ==
  ASSUME NEW d \in Callers, pc'[d] \in {"idle", "peek", "root", "local", "look", "reject"},
         pc'[d] # "idle" => req'[d] \in Requests /\ read'[req'[d]] = Touches[req'[d]]
  PROVE  CallerKnows(d)'
  BY DEF CallerKnows

\* A move that leaves files and authors alone is a move of one caller only.
LEMMA Quiet ==
  ASSUME CallersKnow, NEW c \in Callers, CallerMoves(c), UNCHANGED <<content, authors>>, CallerKnows(c)'
  PROVE  CallersKnow'
  BY Frame DEF CallersKnow, CallerMoves

\* So is one under the gates.
LEMMA UnderGate ==
  ASSUME CallersKnow, GatesExclude, NEW c \in Callers, pc[c] \in InRoot, CallerMoves(c), UNCHANGED authors,
         CallerKnows(c)'
  PROVE  CallersKnow'
  BY Outside DEF CallersKnow, CallerMoves, GatesExclude

\* What all callers know survives every action of one of them.
LEMMA CallersByCaller ==
  ASSUME TypeOK, CallersKnow, GatesExclude, PatchAssumption, NEW c \in Callers, CallerStep(c)
  PROVE  CallersKnow'
  <1>0. /\ CallerMoves(c)
        /\ pc \in [Callers -> {"idle", "peek", "root"} \cup InRoot]
        /\ pc' \in [Callers -> Places]
        /\ todo \in [Callers -> SUBSET Files]
        /\ saw \in [Callers \cup Jobs -> [Files -> SUBSET Edits]]
        /\ content \in [Files -> SUBSET Edits]
        /\ req \in [Callers -> Requests \cup {NoRequest}]
    BY CallerStepMoves DEF TypeOK, CallerMoves, CallersTyped
  <1>00. CallerKnows(c)
    BY DEF CallersKnow
  <1>000. pc[c] # "idle" => req[c] \in Requests /\ read[req[c]] = Touches[req[c]] /\ Touches[req[c]] \subseteq Files
    BY <1>00 DEF CallerKnows, PatchAssumption
  <1>1. ASSUME NEW r \in Requests, Submit(c, r) PROVE CallersKnow'
    <2>1. pc'[c] = "peek" /\ req'[c] = r /\ read'[r] = Touches[r] /\ UNCHANGED <<content, authors>>
      BY <1>0, <1>1 DEF Submit, authors
    <2> QED
      BY <1>0, <2>1, Early, Quiet
  <1>2. ASSUME PeekReceipt(c) \/ TakeRoot(c) \/ TakeLocal(c) \/ GateTimeout(c) \/ FinishReceipt(c)
        PROVE  CallersKnow'
    <2>1. pc[c] # "idle" /\ UNCHANGED <<content, authors>>
      BY <1>2 DEF PeekReceipt, TakeRoot, TakeLocal, GateTimeout, FinishReceipt
    <2>2. \/ pc'[c] = "idle"
          \/ pc'[c] \in {"root", "local", "look"} /\ req'[c] = req[c]
      BY <1>0, <1>2 DEF PeekReceipt, TakeRoot, TakeLocal, GateTimeout, FinishReceipt, Goto, Return
    <2>3. CallerKnows(c)'
      BY <1>000, <2>1, <2>2, Early DEF authors
    <2> QED
      BY <1>0, <2>1, <2>3, Quiet
  <1>3. ASSUME Fingerprint(c) PROVE CallersKnow'
    <2>1. UNCHANGED <<content, authors>> /\ pc[c] = "look"
      BY <1>3 DEF Fingerprint
    <2>2. CASE Return(c)
      <3>1. pc'[c] = "idle"
        BY <1>0, <2>2 DEF Return
      <3> QED
        BY <1>0, <2>1, <3>1, Early, Quiet
    <2>3. CASE saw' = [saw EXCEPT ![c] = content] /\ pc' = [pc EXCEPT ![c] = "begin"] /\ UNCHANGED <<req, todo>>
      <3>1. saw'[c] = content /\ pc'[c] = "begin" /\ req'[c] = req[c]
        BY <1>0, <2>3
      <3>2. CallerKnows(c)'
        BY <1>000, <2>1, <3>1 DEF CallerKnows, authors
      <3> QED
        BY <1>0, <2>1, <3>2, Quiet
    <2> QED
      BY <1>3, <2>2, <2>3 DEF Fingerprint
  <1>4. ASSUME BeginReceipt(c) \/ CheckTask(c) PROVE CallersKnow'
    <2>1. UNCHANGED <<content, authors>> /\ pc[c] \in {"begin", "check"}
      BY <1>4 DEF BeginReceipt, CheckTask
    <2>2. CASE Return(c)
      <3>1. pc'[c] = "idle"
        BY <1>0, <2>2 DEF Return
      <3> QED
        BY <1>0, <2>1, <3>1, Early, Quiet
    <2>3. CASE pc'[c] \in {"check", "stage", "reject"} /\ UNCHANGED <<req, todo, saw>>
      <3>1. CallerKnows(c)'
        BY <1>00, <1>000, <2>1, <2>3 DEF CallerKnows, authors
      <3> QED
        BY <1>0, <2>1, <3>1, Quiet
    <2> QED
      BY <1>0, <1>4, <2>2, <2>3 DEF BeginReceipt, CheckTask, Goto
  <1>5. ASSUME Stage(c) PROVE CallersKnow'
    <2>1. UNCHANGED <<content, authors>> /\ pc[c] = "stage"
      BY <1>5 DEF Stage
    <2>2. CASE Goto(c, "reject")
      <3>1. pc'[c] = "reject" /\ req'[c] = req[c]
        BY <1>0, <2>2 DEF Goto
      <3>2. CallerKnows(c)'
        BY <1>000, <2>1, <3>1, Early DEF authors
      <3> QED
        BY <1>0, <2>1, <3>2, Quiet
    <2>3. CASE /\ Expected(c)
               /\ saw' = [saw EXCEPT ![c] = content]
               /\ pc' = [pc EXCEPT ![c] = "write"]
               /\ todo' = [todo EXCEPT ![c] = Touches[req[c]]]
               /\ UNCHANGED req
      <3>1. saw'[c] = content /\ pc'[c] = "write" /\ req'[c] = req[c] /\ todo'[c] = Touches[req[c]]
        BY <1>0, <2>3
      <3>2. \A f \in Touches[req[c]] : content[f] = basis[req[c]][f]
        BY <1>00, <1>000, <2>1, <2>3 DEF Expected, CallerKnows
      <3>3. CallerKnows(c)'
        BY <1>000, <2>1, <3>1, <3>2 DEF CallerKnows, authors
      <3> QED
        BY <1>0, <2>1, <3>3, Quiet
    <2> QED
      BY <1>5, <2>2, <2>3 DEF Stage
  <1>6. ASSUME NEW f \in Files, Replace(c, f) PROVE CallersKnow'
    <2>1. /\ pc[c] = "write" /\ f \in todo[c]
          /\ UNCHANGED authors /\ req'[c] = req[c] /\ saw'[c] = saw[c]
          /\ todo'[c] = todo[c] \ {f}
          /\ pc'[c] = IF todo'[c] = {} THEN "after" ELSE "write"
          /\ content'[f] = saw[c][f] \cup {req[c]}
          /\ \A g \in Files \ {f} : content'[g] = content[g]
      BY <1>0, <1>6 DEF Replace
    <2>2. /\ todo[c] \subseteq Touches[req[c]]
          /\ \A g \in Touches[req[c]] :
               /\ saw[c][g] = basis[req[c]][g]
               /\ content[g] = IF g \in todo[c] THEN saw[c][g] ELSE saw[c][g] \cup {req[c]}
      BY <1>00, <2>1 DEF CallerKnows
    <2>3. \A g \in Touches[req[c]] :
            content'[g] = IF g \in todo'[c] THEN saw[c][g] ELSE saw[c][g] \cup {req[c]}
      BY <1>000, <2>1, <2>2
    <2>4. CallerKnows(c)'
      BY <1>000, <2>1, <2>2, <2>3 DEF CallerKnows, authors
    <2>5. pc[c] \in InRoot
      BY <2>1, PlacesAre
    <2> QED
      BY <1>0, <2>1, <2>4, <2>5, UnderGate
  <1>7. ASSUME ReplaceFails(c) PROVE CallersKnow'
    <2>1. UNCHANGED <<content, authors>> /\ pc[c] = "write"
      BY <1>7 DEF ReplaceFails
    <2>2. CASE Goto(c, "reject")
      <3>1. pc'[c] = "reject" /\ req'[c] = req[c]
        BY <1>0, <2>2 DEF Goto
      <3>2. CallerKnows(c)'
        BY <1>000, <2>1, <3>1, Early DEF authors
      <3> QED
        BY <1>0, <2>1, <3>2, Quiet
    <2>3. CASE /\ pc' = [pc EXCEPT ![c] = "restore"]
               /\ todo' = [todo EXCEPT ![c] = Touches[req[c]]]
               /\ UNCHANGED <<req, saw>>
      <3>1. pc'[c] = "restore" /\ todo'[c] = Touches[req[c]]
        BY <1>0, <2>3
      <3>2. CallerKnows(c)'
        BY <1>00, <1>000, <2>1, <2>3, <3>1 DEF CallerKnows, authors
      <3> QED
        BY <1>0, <2>1, <3>2, Quiet
    <2> QED
      BY <1>7, <2>2, <2>3 DEF ReplaceFails
  <1>8. ASSUME NEW f \in Files, Restore(c, f) PROVE CallersKnow'
    <2>1. /\ pc[c] = "restore" /\ f \in todo[c]
          /\ UNCHANGED authors /\ req'[c] = req[c] /\ saw'[c] = saw[c]
          /\ todo'[c] = todo[c] \ {f}
          /\ pc'[c] = IF todo'[c] = {} THEN "reject" ELSE "restore"
          /\ content'[f] \in {saw[c][f], content[f]}
          /\ \A g \in Files \ {f} : content'[g] = content[g]
      BY <1>0, <1>8 DEF Restore
    <2>2. /\ todo[c] \subseteq Touches[req[c]]
          /\ \A g \in Touches[req[c]] :
               saw[c][g] = basis[req[c]][g] /\ content[g] \in {saw[c][g], saw[c][g] \cup {req[c]}}
      BY <1>00, <2>1 DEF CallerKnows
    <2>3. \A g \in Touches[req[c]] : content'[g] \in {saw[c][g], saw[c][g] \cup {req[c]}}
      BY <1>000, <2>1, <2>2
    <2>4. CallerKnows(c)'
      BY <1>000, <2>1, <2>2, <2>3 DEF CallerKnows, authors
    <2>5. pc[c] \in InRoot
      BY <2>1, PlacesAre
    <2> QED
      BY <1>0, <2>1, <2>4, <2>5, UnderGate
  <1>9. ASSUME FingerprintAfter(c) PROVE CallersKnow'
    <2>1. /\ pc[c] = "after" /\ UNCHANGED <<content, authors>> /\ UNCHANGED <<req, todo, saw>>
          /\ pc'[c] \in {"accept", "reject"}
      BY <1>0, <1>9 DEF FingerprintAfter, Goto
    <2>2. CallerKnows(c)'
      BY <1>00, <1>000, <2>1 DEF CallerKnows, authors
    <2> QED
      BY <1>0, <2>1, <2>2, Quiet
  <1> QED
    BY <1>1, <1>2, <1>3, <1>4, <1>5, <1>6, <1>7, <1>8, <1>9 DEF CallerStep

\* Under the gates, a file is what its caller read until he replaces it.
LEMMA CallersStep ==
  ASSUME TypeOK, CallersKnow, GatesExclude, PatchAssumption, [Next]_vars
  PROVE  CallersKnow'
  <1>1. ASSUME NEW r \in Requests, NEW f \in Files, ReadFile(r, f) PROVE CallersKnow'
    <2>1. /\ f \in Touches[r] \ read[r]
          /\ UNCHANGED <<content, pc, req, todo, saw>>
          /\ \A q \in Requests \ {r} : read'[q] = read[q] /\ basis'[q] = basis[q]
      BY <1>1 DEF ReadFile, TypeOK, callers
    <2>2. ASSUME NEW d \in Callers PROVE CallerKnows(d)'
      <3>1. CallerKnows(d)
        BY DEF CallersKnow
      <3>2. pc[d] # "idle" => req[d] \in Requests \ {r}
        BY <2>1, <3>1 DEF CallerKnows
      <3>3. pc[d] # "idle" => read'[req[d]] = read[req[d]] /\ basis'[req[d]] = basis[req[d]]
        BY <2>1, <3>2
      <3> QED
        BY <2>1, <3>1, <3>3 DEF CallerKnows
    <2> QED
      BY <2>2 DEF CallersKnow
  <1>2. ASSUME NEW c \in Callers, CallerStep(c) PROVE CallersKnow'
    BY <1>2, CallersByCaller
  <1>3. ASSUME NEW j \in Jobs, JobStep(j) PROVE CallersKnow'
    <2>1. /\ UNCHANGED <<pc, req, todo, authors>>
          /\ \A d \in Callers : saw'[d] = saw[d]
      <3>1. \A d \in Callers : d # j
        BY DEF PatchAssumption
      <3> QED
        BY <1>3, <3>1 DEF JobStep, JobTakesSource, JobReads, JobEnds, JobWrites, callers, TypeOK
    <2>2. CASE UNCHANGED content
      <3>1. \A d \in Callers : CallerKnows(d)'
        BY <2>1, <2>2, Frame DEF CallersKnow, Untouched
      <3> QED
        BY <3>1 DEF CallersKnow
    <2>3. CASE job[j] = "edit"
      <3>1. \A d \in Callers : CallerKnows(d)'
        <4>1. SUFFICES ASSUME NEW d \in Callers PROVE CallerKnows(d)'
          OBVIOUS
        <4>2. pc[d] \notin InLocal /\ CallerKnows(d)
          BY <2>3 DEF GatesExclude, CallersKnow
        <4> QED
          BY <2>1, <4>2, PlacesAre DEF CallerKnows, authors
      <3> QED
        BY <3>1 DEF CallersKnow
    <2> QED
      BY <1>3, <2>2, <2>3 DEF JobStep, JobTakesSource, JobReads, JobEnds, JobWrites
  <1>4. ASSUME NEW S \in SUBSET Callers, ServerCrash(S) PROVE CallersKnow'
    <2>1. ASSUME NEW d \in Callers PROVE CallerKnows(d)'
      <3>1. CASE d \in S
        <4>1. pc'[d] = "idle"
          BY <1>4, <3>1 DEF ServerCrash
        <4> QED
          BY <4>1, Early
      <3>2. CASE d \notin S
        <4>1. Untouched(d) /\ UNCHANGED <<content, authors>>
          BY <1>4, <3>2 DEF ServerCrash, Untouched
        <4> QED
          BY <4>1, Frame DEF CallersKnow
      <3> QED
        BY <3>1, <3>2
    <2> QED
      BY <2>1 DEF CallersKnow
  <1>5. ASSUME UNCHANGED <<content, authors, callers>> PROVE CallersKnow'
    BY <1>5, Frame DEF callers, CallersKnow, Untouched
  <1> QED
    BY <1>1, <1>2, <1>3, <1>4, <1>5 DEF Next, CompleteTask, vars

\* A writing command is alone with the files it has read.
LEMMA JobsStep ==
  ASSUME TypeOK, JobsKnow, CallersKnow, GatesExclude, PatchAssumption, [Next]_vars
  PROVE  JobsKnow'
  <1>1. ASSUME UNCHANGED <<content, job>>, \A j \in Jobs : saw'[j] = saw[j] PROVE JobsKnow'
    BY <1>1 DEF JobsKnow
  <1>2. ASSUME NEW c \in Callers, CallerStep(c) PROVE JobsKnow'
    <2>1. UNCHANGED job /\ \A j \in Jobs : saw'[j] = saw[j]
      BY <1>2, Entering, CallerStepMoves DEF CallerMoves
    <2>2. CASE UNCHANGED content
      BY <1>1, <2>1, <2>2
    <2>3. CASE pc[c] \in {"write", "restore"}
      <3>1. \A j \in Jobs : job[j] # "edit"
        BY <2>3, PlacesAre DEF GatesExclude
      <3> QED
        BY <2>1, <3>1 DEF JobsKnow
    <2> QED
      BY <1>2, <2>2, <2>3
         DEF CallerStep, Submit, PeekReceipt, TakeRoot, TakeLocal, GateTimeout, Fingerprint, BeginReceipt,
             CheckTask, Stage, Replace, ReplaceFails, Restore, FingerprintAfter, FinishReceipt
  <1>3. ASSUME NEW j \in Jobs, JobStep(j) PROVE JobsKnow'
    <2>1. ASSUME JobTakesSource(j) PROVE JobsKnow'
      BY <2>1 DEF JobTakesSource, JobsKnow, TypeOK, callers
    <2>2. ASSUME JobReads(j) PROVE JobsKnow'
      <3>1. /\ saw'[j] = content /\ UNCHANGED content
            /\ \A k \in Jobs \ {j} : saw'[k] = saw[k] /\ job'[k] = job[k]
        BY <2>2 DEF JobReads, TypeOK
      <3> QED
        BY <3>1 DEF JobsKnow
    <2>3. ASSUME JobEnds(j) PROVE JobsKnow'
      <3>1. /\ job'[j] = "done" /\ UNCHANGED content
            /\ \A k \in Jobs \ {j} : saw'[k] = saw[k] /\ job'[k] = job[k]
        BY <2>3 DEF JobEnds, TypeOK
      <3> QED
        BY <3>1 DEF JobsKnow
    <2>4. ASSUME NEW f \in Files, JobWrites(j, f) PROVE JobsKnow'
      <3>1. \A k \in Jobs : job[k] = "edit" => k = j
        BY <2>4 DEF JobWrites, GatesExclude
      <3>2. /\ UNCHANGED <<job, saw>>
            /\ content'[f] = saw[j][f] \cup {j}
            /\ \A g \in Files \ {f} : content'[g] = content[g]
        BY <2>4 DEF JobWrites, TypeOK, callers, rest
      <3> QED
        BY <3>1, <3>2 DEF JobsKnow
    <2> QED
      BY <1>3, <2>1, <2>2, <2>3, <2>4 DEF JobStep
  <1>4. ASSUME NEW S \in SUBSET Callers, ServerCrash(S) PROVE JobsKnow'
    <2>1. \A j \in Jobs : j \notin S
      BY DEF PatchAssumption
    <2> QED
      BY <1>1, <1>4, <2>1 DEF ServerCrash
  <1>5. ASSUME NEW r \in Requests, NEW f \in Files, ReadFile(r, f) PROVE JobsKnow'
    BY <1>1, <1>5 DEF ReadFile, callers, rest
  <1>6. ASSUME NEW t \in Tasks, CompleteTask(t) PROVE JobsKnow'
    BY <1>1, <1>6 DEF CompleteTask, callers
  <1>7. ASSUME UNCHANGED vars PROVE JobsKnow'
    BY <1>1, <1>7 DEF vars, callers, rest
  <1> QED
    BY <1>2, <1>3, <1>4, <1>5, <1>6, <1>7 DEF Next

\* Only the caller that began a receipt replaces files for it, and once.
LEMMA ReceiptsStep ==
  ASSUME TypeOK, CallersKnow, GatesExclude, ReceiptsMatch, AppliedOnce, PatchAssumption, [Next]_vars
  PROVE  ReceiptsMatch' /\ AppliedOnce'
  <1> DEFINE Goal == ReceiptsMatch' /\ AppliedOnce'
  <1>1. ASSUME UNCHANGED <<receipt, commits>>,
               \A d \in Callers : pc'[d] \in Critical =>
                 pc[d] \in Critical /\ req'[d] = req[d] /\ (pc'[d] \in {"check", "stage"} => pc[d] \in {"check", "stage"})
        PROVE  Goal
    BY <1>1 DEF ReceiptsMatch, AppliedOnce
  <1>2. ASSUME NEW c \in Callers, CallerStep(c) PROVE Goal
    <2>1. /\ \A d \in Callers \ {c} : Untouched(d)
          /\ pc \in [Callers -> {"idle", "peek", "root"} \cup InRoot]
          /\ receipt \in [Requests -> {"none", "started", "ok", "error"}]
          /\ commits \in [Requests -> Nat]
      BY <1>2, CallerStepMoves DEF CallerMoves, TypeOK
    <2>2. pc[c] # "idle" => req[c] \in Requests
      BY DEF CallersKnow, CallerKnows
    <2>3. pc[c] \in InRoot => \A d \in Callers \ {c} : pc'[d] \notin Critical
      BY <2>1, PlacesAre DEF GatesExclude, Untouched
    <2>4. ASSUME UNCHANGED <<receipt, commits>>, pc'[c] \notin Critical PROVE Goal
      BY <1>1, <2>1, <2>4 DEF Untouched
    <2>5. ASSUME BeginReceipt(c) PROVE Goal
      <3>1. CASE receipt[req[c]] = "none"
        <4>1. /\ pc[c] = "begin" /\ pc'[c] = "check" /\ req'[c] = req[c] /\ UNCHANGED commits
              /\ receipt' = [receipt EXCEPT ![req[c]] = "started"]
          BY <2>1, <2>5, <3>1 DEF BeginReceipt, Goto
        <4>2. pc[c] \in InRoot
          BY <4>1, PlacesAre
        <4> QED
          BY <2>1, <2>2, <2>3, <3>1, <4>1, <4>2 DEF ReceiptsMatch, AppliedOnce
      <3>2. CASE receipt[req[c]] # "none"
        <4>1. pc'[c] = "idle" /\ UNCHANGED <<receipt, commits>>
          BY <2>1, <2>5, <3>2 DEF BeginReceipt, Return
        <4> QED
          BY <2>4, <4>1, PlacesAre
      <3> QED
        BY <3>1, <3>2
    <2>6. ASSUME Stage(c) PROVE Goal
      <3>0. pc[c] = "stage" /\ UNCHANGED receipt
        BY <2>6 DEF Stage
      <3>1. receipt[req[c]] = "started" /\ commits[req[c]] = 0 /\ pc[c] \in InRoot
        BY <3>0, PlacesAre DEF ReceiptsMatch
      <3>2. pc'[c] \in {"write", "reject"} /\ req'[c] = req[c]
        BY <2>1, <2>6 DEF Stage, Goto
      <3>3. commits' = commits \/ commits' = [commits EXCEPT ![req[c]] = 1]
        BY <2>1, <2>2, <2>6, <3>0, <3>1 DEF Stage
      <3>4. \A r \in Requests : commits'[r] = commits[r] \/ (r = req[c] /\ commits'[r] = 1)
        BY <2>1, <3>3
      <3>5. AppliedOnce'
        BY <3>4 DEF AppliedOnce
      <3>6. ReceiptsMatch'
        BY <2>3, <3>0, <3>1, <3>2, <3>4 DEF ReceiptsMatch
      <3> QED
        BY <3>5, <3>6
    <2>7. ASSUME FinishReceipt(c) PROVE Goal
      <3>1. pc[c] \in InRoot /\ pc'[c] \notin Critical /\ UNCHANGED commits
        BY <2>1, <2>7, PlacesAre DEF FinishReceipt, Return
      <3>2. receipt[req[c]] = "started"
        BY <2>7, PlacesAre DEF FinishReceipt, ReceiptsMatch
      <3>3. \A r \in Requests : receipt'[r] = "none" => receipt[r] = "none"
        BY <2>1, <2>7 DEF FinishReceipt
      <3> QED
        BY <2>3, <3>1, <3>3 DEF ReceiptsMatch, AppliedOnce
    <2>8. ASSUME UNCHANGED <<receipt, commits>>, pc[c] \in Critical, pc'[c] \in Critical \ {"check"}, req'[c] = req[c],
                 pc'[c] = "stage" => pc[c] = "check"
          PROVE  Goal
      BY <1>1, <2>1, <2>8 DEF Untouched
    <2>9. ASSUME NEW r \in Requests, Submit(c, r) PROVE Goal
      <3>1. pc'[c] = "peek" /\ UNCHANGED <<receipt, commits>>
        BY <2>1, <2>9 DEF Submit
      <3> QED
        BY <2>4, <3>1, PlacesAre
    <2>10. ASSUME PeekReceipt(c) \/ TakeRoot(c) \/ TakeLocal(c) \/ GateTimeout(c) \/ Fingerprint(c) PROVE Goal
      <3>1. pc'[c] \in {"idle", "root", "local", "look", "begin"} /\ UNCHANGED <<receipt, commits>>
        BY <2>1, <2>10 DEF PeekReceipt, TakeRoot, TakeLocal, GateTimeout, Fingerprint, Goto, Return
      <3> QED
        BY <2>4, <3>1, PlacesAre
    <2>11. ASSUME CheckTask(c) \/ ReplaceFails(c) \/ FingerprintAfter(c) PROVE Goal
      BY <2>1, <2>8, <2>11, PlacesAre DEF CheckTask, ReplaceFails, FingerprintAfter, Goto
    <2>12. ASSUME NEW f \in Files, Replace(c, f) \/ Restore(c, f) PROVE Goal
      BY <2>1, <2>8, <2>12, PlacesAre DEF Replace, Restore
    <2> QED
      BY <1>2, <2>5, <2>6, <2>7, <2>9, <2>10, <2>11, <2>12 DEF CallerStep
  <1>3. ASSUME UNCHANGED <<receipt, commits, pc, req>> PROVE Goal
    BY <1>1, <1>3
  <1>4. ASSUME NEW j \in Jobs, JobStep(j) PROVE Goal
    BY <1>3, <1>4 DEF JobStep, JobTakesSource, JobReads, JobEnds, JobWrites, callers
  <1>5. ASSUME NEW S \in SUBSET Callers, ServerCrash(S) PROVE Goal
    BY <1>1, <1>5, PlacesAre DEF ServerCrash
  <1>6. ASSUME NEW r \in Requests, NEW f \in Files, ReadFile(r, f) PROVE Goal
    BY <1>3, <1>6 DEF ReadFile, callers
  <1>7. ASSUME NEW t \in Tasks, CompleteTask(t) PROVE Goal
    BY <1>3, <1>7 DEF CompleteTask, callers
  <1>8. ASSUME UNCHANGED vars PROVE Goal
    BY <1>3, <1>8 DEF vars, callers
  <1> QED
    BY <1>2, <1>4, <1>5, <1>6, <1>7, <1>8 DEF Next

\* The three ways in which a file changes.
Extended(f, e) == content' = [content EXCEPT ![f] = content[f] \cup {e}]

ByPatch(c, f) ==
  /\ pc[c] = "write" /\ f \in Touches[req[c]] /\ req[c] \in Requests
  /\ content[f] = basis[req[c]][f]
  /\ Extended(f, req[c])

ByRestore(c, f) ==
  /\ pc[c] = "restore" /\ req[c] \in Requests
  /\ content' = [content EXCEPT ![f] = saw[c][f]]
  /\ content[f] \in {saw[c][f], saw[c][f] \cup {req[c]}}

ByJob(j, f) == job[j] = "edit" /\ Extended(f, j)

\* Nothing else changes a file; what is written is what the file says now,
\* with one edit more, or without the edit of the request that is undone.
LEMMA Written ==
  ASSUME TypeOK, CallersKnow, JobsKnow, PatchAssumption, [Next]_vars
  PROVE  \/ UNCHANGED content
         \/ UNCHANGED receipt /\ \E c \in Callers, f \in Files : ByPatch(c, f) \/ ByRestore(c, f)
         \/ UNCHANGED receipt /\ \E j \in Jobs, f \in Files : ByJob(j, f)
  <1> DEFINE Goal == \/ UNCHANGED content
                     \/ UNCHANGED receipt /\ \E c \in Callers, f \in Files : ByPatch(c, f) \/ ByRestore(c, f)
                     \/ UNCHANGED receipt /\ \E j \in Jobs, f \in Files : ByJob(j, f)
  <1>1. ASSUME NEW c \in Callers, CallerStep(c) PROVE Goal
    <2>1. ASSUME NEW f \in Files, Replace(c, f) PROVE Goal
      <3>1. pc[c] = "write" /\ f \in todo[c] /\ content' = [content EXCEPT ![f] = saw[c][f] \cup {req[c]}]
        BY <2>1 DEF Replace
      <3>2. /\ f \in Touches[req[c]] /\ req[c] \in Requests
            /\ saw[c][f] = basis[req[c]][f] /\ content[f] = saw[c][f]
        BY <3>1 DEF CallersKnow, CallerKnows
      <3>3. ByPatch(c, f) /\ UNCHANGED receipt
        BY <2>1, <3>1, <3>2 DEF ByPatch, Extended, Replace
      <3> QED
        BY <3>3
    <2>2. ASSUME NEW f \in Files, Restore(c, f) PROVE Goal
      <3>1. pc[c] = "restore" /\ f \in todo[c] /\ UNCHANGED receipt
        BY <2>2 DEF Restore
      <3>2. req[c] \in Requests /\ content[f] \in {saw[c][f], saw[c][f] \cup {req[c]}}
        BY <3>1 DEF CallersKnow, CallerKnows
      <3>3. UNCHANGED content \/ ByRestore(c, f)
        BY <2>2, <3>1, <3>2 DEF ByRestore, Restore
      <3> QED
        BY <3>1, <3>3
    <2>3. ASSUME NEW r \in Requests, Submit(c, r) PROVE Goal
      BY <2>3 DEF Submit
    <2> QED
      BY <1>1, <2>1, <2>2, <2>3
         DEF CallerStep, PeekReceipt, TakeRoot, TakeLocal, GateTimeout, Fingerprint, BeginReceipt,
             CheckTask, Stage, ReplaceFails, FingerprintAfter, FinishReceipt
  <1>2. ASSUME NEW j \in Jobs, JobStep(j) PROVE Goal
    <2>1. ASSUME NEW f \in Files, JobWrites(j, f) PROVE Goal
      <3>1. job[j] = "edit" /\ UNCHANGED receipt /\ content' = [content EXCEPT ![f] = saw[j][f] \cup {j}]
        BY <2>1 DEF JobWrites
      <3>2. content[f] \in {saw[j][f], saw[j][f] \cup {j}}
        BY <3>1 DEF JobsKnow
      <3>3. saw[j][f] \cup {j} = content[f] \cup {j}
        BY <3>2
      <3>4. ByJob(j, f)
        BY <3>1, <3>3 DEF ByJob, Extended
      <3> QED
        BY <3>1, <3>4
    <2> QED
      BY <1>2, <2>1 DEF JobStep, JobTakesSource, JobReads, JobEnds
  <1> QED
    BY <1>1, <1>2 DEF Next, ReadFile, CompleteTask, ServerCrash, vars

\* A receipt is never taken back, and says ok only of files that are.
LEMMA ReceiptMoves ==
  ASSUME TypeOK, CallersKnow, [Next]_vars, NEW r \in Requests
  PROVE  /\ receipt'[r] = "none" => receipt[r] = "none"
         /\ receipt'[r] = "ok" => receipt[r] = "ok" \/ (UNCHANGED content /\ \A f \in Touches[r] : r \in content[f])
  <1> DEFINE Goal == /\ receipt'[r] = "none" => receipt[r] = "none"
                     /\ receipt'[r] = "ok" =>
                          receipt[r] = "ok" \/ (UNCHANGED content /\ \A f \in Touches[r] : r \in content[f])
  <1>1. ASSUME NEW c \in Callers, BeginReceipt(c) PROVE Goal
    BY <1>1 DEF BeginReceipt, TypeOK
  <1>2. ASSUME NEW c \in Callers, FinishReceipt(c) PROVE Goal
    <2>1. pc[c] = "accept" => \A f \in Touches[req[c]] : req[c] \in content[f]
      BY DEF CallersKnow, CallerKnows
    <2>2. UNCHANGED content
      BY <1>2 DEF FinishReceipt
    <2>3. \/ UNCHANGED receipt
          \/ receipt' = [receipt EXCEPT ![req[c]] = IF pc[c] = "accept" THEN "ok" ELSE "error"]
      BY <1>2 DEF FinishReceipt
    <2> QED
      BY <2>1, <2>2, <2>3 DEF TypeOK
  <1>3. ASSUME UNCHANGED receipt PROVE Goal
    BY <1>3
  <1>4. ASSUME NEW c \in Callers, CallerStep(c) PROVE Goal
    <2>1. ASSUME NEW q \in Requests, Submit(c, q) PROVE Goal
      BY <1>3, <2>1 DEF Submit
    <2>2. ASSUME NEW f \in Files, Replace(c, f) \/ Restore(c, f) PROVE Goal
      BY <1>3, <2>2 DEF Replace, Restore
    <2>3. ASSUME PeekReceipt(c) \/ TakeRoot(c) \/ TakeLocal(c) \/ GateTimeout(c) \/ Fingerprint(c)
                 \/ CheckTask(c) \/ Stage(c) \/ ReplaceFails(c) \/ FingerprintAfter(c)
          PROVE  Goal
      BY <1>3, <2>3
         DEF PeekReceipt, TakeRoot, TakeLocal, GateTimeout, Fingerprint, CheckTask, Stage, ReplaceFails, FingerprintAfter
    <2> QED
      BY <1>1, <1>2, <1>4, <2>1, <2>2, <2>3 DEF CallerStep
  <1>5. ASSUME NEW j \in Jobs, JobStep(j) PROVE Goal
    BY <1>3, <1>5 DEF JobStep, JobTakesSource, JobReads, JobEnds, JobWrites
  <1> QED
    BY <1>3, <1>4, <1>5 DEF Next, ReadFile, CompleteTask, ServerCrash, vars

\* No step belies a receipt.
LEMMA TruthStep ==
  ASSUME TypeOK, CallersKnow, JobsKnow, ReceiptsMatch, ReceiptTruthful, PatchAssumption, [Next]_vars
  PROVE  ReceiptTruthful'
  <1> SUFFICES ASSUME NEW r \in Requests
               PROVE  /\ receipt'[r] = "none" => \A f \in Files : r \notin content'[f]
                      /\ receipt'[r] = "ok" => \A f \in Touches[r] : r \in content'[f]
    BY DEF ReceiptTruthful
  <1>0. /\ receipt[r] = "none" => \A f \in Files : r \notin content[f]
        /\ receipt[r] = "ok" => \A f \in Touches[r] : r \in content[f]
        /\ Touches[r] \subseteq Files
        /\ content \in [Files -> SUBSET Edits]
    BY DEF ReceiptTruthful, PatchAssumption, TypeOK
  <1>1. CASE UNCHANGED content
    BY <1>0, <1>1, ReceiptMoves
  <1>2. ASSUME NEW c \in Callers, NEW f \in Files, ByPatch(c, f) \/ ByRestore(c, f), UNCHANGED receipt
        PROVE  /\ receipt'[r] = "none" => \A g \in Files : r \notin content'[g]
               /\ receipt'[r] = "ok" => \A g \in Touches[r] : r \in content'[g]
    <2>1. receipt[req[c]] = "started"
      BY <1>2, PlacesAre DEF ByPatch, ByRestore, ReceiptsMatch
    <2>2. CASE r = req[c]
      BY <1>2, <2>1, <2>2
    <2>3. CASE r # req[c]
      <3>1. \A g \in Files : r \in content'[g] <=> r \in content[g]
        BY <1>0, <1>2, <2>3 DEF ByPatch, ByRestore, Extended
      <3> QED
        BY <1>0, <1>2, <3>1
    <2> QED
      BY <2>2, <2>3
  <1>3. ASSUME NEW j \in Jobs, NEW f \in Files, ByJob(j, f), UNCHANGED receipt
        PROVE  /\ receipt'[r] = "none" => \A g \in Files : r \notin content'[g]
               /\ receipt'[r] = "ok" => \A g \in Touches[r] : r \in content'[g]
    <2>1. r # j
      BY DEF PatchAssumption
    <2>2. \A g \in Files : r \in content'[g] <=> r \in content[g]
      BY <1>0, <1>3, <2>1 DEF ByJob, Extended
    <2> QED
      BY <1>0, <1>3, <2>2
  <1> QED
    BY <1>1, <1>2, <1>3, Written

-----------------------------------------------------------------------------
(* Theorems *)

\* The invariant holds of an empty receipt table.
LEMMA InvInit == Init /\ PatchAssumption => PatchInv
  <1> SUFFICES ASSUME Init, PatchAssumption PROVE PatchInv
    OBVIOUS
  <1>1. TypeOK
    BY DEF Init, TypeOK, Nothing
  <1>2. GatesExclude
    BY PlacesAre DEF Init, GatesExclude
  <1>3. CallersKnow
    BY DEF Init, CallersKnow, CallerKnows
  <1>4. JobsKnow /\ ReceiptsMatch
    BY PlacesAre DEF Init, JobsKnow, ReceiptsMatch
  <1>5. ReceiptTruthful /\ AppliedOnce
    BY DEF Init, ReceiptTruthful, AppliedOnce
  <1> QED
    BY <1>1, <1>2, <1>3, <1>4, <1>5 DEF PatchInv

\* The gates exclude, callers and commands know the files they hold, receipts
\* match: in every reachable state, for any number of callers, files, requests
\* and commands.
THEOREM Invariance == Spec => []PatchInv
  <1>1. Init => PatchInv
    BY InvInit, PatchAssumption
  <1>2. PatchInv /\ [Next]_vars => PatchInv'
    <2> SUFFICES ASSUME PatchInv, [Next]_vars PROVE PatchInv'
      OBVIOUS
    <2> USE PatchAssumption, OneWorkspaceAssumption
    <2>1. TypeOK /\ GatesExclude /\ CallersKnow /\ JobsKnow /\ ReceiptsMatch /\ ReceiptTruthful /\ AppliedOnce
      BY DEF PatchInv
    <2>2. TypeOK'
      BY <2>1, TypeStep
    <2>3. GatesExclude'
      BY <2>1, ExcludeStep
    <2>4. CallersKnow'
      BY <2>1, CallersStep
    <2>5. JobsKnow'
      BY <2>1, JobsStep
    <2>6. ReceiptsMatch' /\ AppliedOnce'
      BY <2>1, ReceiptsStep
    <2>7. ReceiptTruthful'
      BY <2>1, TruthStep
    <2> QED
      BY <2>2, <2>3, <2>4, <2>5, <2>6, <2>7 DEF PatchInv
  <1> QED
    BY <1>1, <1>2, PTL DEF Spec

\* What a receipt says of the files is true.
THEOREM ReceiptsTrue == Spec => []ReceiptTruthful
  <1>1. PatchInv => ReceiptTruthful
    BY DEF PatchInv
  <1> QED
    BY <1>1, Invariance, PTL

\* The files of a request are replaced at most once.
THEOREM Once == Spec => []AppliedOnce
  <1>1. PatchInv => AppliedOnce
    BY DEF PatchInv
  <1> QED
    BY <1>1, Invariance, PTL

\* No patch and no command takes away an edit it has not seen.
THEOREM NothingLost == Spec => EditsKept
  <1>1. PatchInv /\ [Next]_vars => [OnlyOwnEditsUndone]_vars
    <2> SUFFICES ASSUME PatchInv, [Next]_vars PROVE OnlyOwnEditsUndone
      OBVIOUS
    <2>1. TypeOK /\ CallersKnow /\ JobsKnow
      BY DEF PatchInv
    <2>2. SUFFICES ASSUME NEW f \in Files, NEW e \in content[f] \ content'[f]
                   PROVE  \E c \in Callers : pc[c] = "restore" /\ req[c] = e
      BY DEF OnlyOwnEditsUndone
    <2>3. ASSUME NEW c \in Callers, NEW g \in Files, ByPatch(c, g) \/ ByRestore(c, g)
          PROVE  pc[c] = "restore" /\ req[c] = e
      BY <2>1, <2>2, <2>3 DEF ByPatch, ByRestore, Extended, TypeOK
    <2>4. ASSUME NEW j \in Jobs, NEW g \in Files, ByJob(j, g)
          PROVE  FALSE
      BY <2>1, <2>2, <2>4 DEF ByJob, Extended, TypeOK
    <2> QED
      BY <2>1, <2>2, <2>3, <2>4, Written, PatchAssumption
  <1> QED
    BY <1>1, Invariance, PTL DEF Spec, EditsKept

\* A patch changes a file only as its author saw it.
THEOREM SeenFirst == Spec => OnlySeenVersions
  <1>1. PatchInv /\ [Next]_vars => [AppliedToSeen]_vars
    <2> SUFFICES ASSUME PatchInv, [Next]_vars PROVE AppliedToSeen
      OBVIOUS
    <2>1. TypeOK /\ CallersKnow /\ JobsKnow
      BY DEF PatchInv
    <2>2. SUFFICES ASSUME NEW r \in Requests, NEW f \in Files, r \in content'[f] \ content[f]
                   PROVE  f \in Touches[r] /\ content[f] = basis[r][f]
      BY DEF AppliedToSeen
    <2>3. ASSUME NEW c \in Callers, NEW g \in Files, ByPatch(c, g)
          PROVE  f \in Touches[r] /\ content[f] = basis[r][f]
      <3>1. f = g /\ r = req[c]
        BY <2>1, <2>2, <2>3 DEF ByPatch, Extended, TypeOK
      <3> QED
        BY <2>3, <3>1 DEF ByPatch
    <2>4. ASSUME NEW c \in Callers, NEW g \in Files, ByRestore(c, g)
          PROVE  FALSE
      BY <2>1, <2>2, <2>4 DEF ByRestore, TypeOK
    <2>5. ASSUME NEW j \in Jobs, NEW g \in Files, ByJob(j, g)
          PROVE  FALSE
      <3>1. r # j
        BY PatchAssumption DEF PatchAssumption
      <3> QED
        BY <2>1, <2>2, <2>5, <3>1 DEF ByJob, Extended, TypeOK
    <2> QED
      BY <2>1, <2>2, <2>3, <2>4, <2>5, Written, PatchAssumption
  <1> QED
    BY <1>1, Invariance, PTL DEF Spec, OnlySeenVersions

\* The source stays as it is while a build holds its gate.
THEOREM StableSource == Spec => BuildStable
  <1>1. PatchInv /\ [Next]_vars => [UnchangedUnderBuild]_vars
    <2> SUFFICES ASSUME PatchInv, [Next]_vars, NEW b \in Jobs, job[b] = "hold", JobMode[b] = "build"
                 PROVE  content' = content
      BY DEF UnchangedUnderBuild
    <2>1. TypeOK /\ GatesExclude /\ CallersKnow /\ JobsKnow
      BY DEF PatchInv
    <2>2. ASSUME NEW c \in Callers, NEW f \in Files, ByPatch(c, f) \/ ByRestore(c, f)
          PROVE  FALSE
      BY <2>1, <2>2, PlacesAre DEF ByPatch, ByRestore, GatesExclude
    <2>3. ASSUME NEW j \in Jobs, NEW f \in Files, ByJob(j, f)
          PROVE  FALSE
      BY <2>1, <2>3 DEF ByJob, GatesExclude
    <2> QED
      BY <2>1, <2>2, <2>3, Written, PatchAssumption
  <1> QED
    BY <1>1, Invariance, PTL DEF Spec, BuildStable

\* A request that came too late: its task is completed, no file has its edit
\* and no caller is past the look at the task for it, except to reject it.
TooLate(r) ==
  /\ TaskClosed(r)
  /\ \A f \in Files : r \notin content[f]
  /\ \A c \in Callers : pc[c] \in Critical /\ req[c] = r => pc[c] \in {"check", "reject"}

\* Once too late, always too late.
LEMMA TooLateStep ==
  ASSUME PatchInv, PatchAssumption, NEW r \in Requests, TooLate(r), [Next]_vars
  PROVE  TooLate(r)'
  <1>0. /\ TypeOK /\ CallersKnow /\ JobsKnow
        /\ pc \in [Callers -> {"idle", "peek", "root"} \cup InRoot]
        /\ content \in [Files -> SUBSET Edits]
    BY DEF PatchInv, TypeOK
  <1>1. TaskClosed(r)'
    <2>1. CASE UNCHANGED task
      BY <2>1 DEF TooLate, TaskClosed
    <2>2. ASSUME NEW t \in Tasks, CompleteTask(t) PROVE TaskClosed(r)'
      BY <1>0, <2>2 DEF TooLate, TaskClosed, CompleteTask, TypeOK
    <2>3. ASSUME NEW c \in Callers, CallerStep(c) PROVE UNCHANGED task
      BY <2>3 DEF CallerStep, Submit, PeekReceipt, TakeRoot, TakeLocal, GateTimeout, Fingerprint, BeginReceipt,
           CheckTask, Stage, Replace, ReplaceFails, Restore, FingerprintAfter, FinishReceipt, rest
    <2>4. ASSUME NEW j \in Jobs, JobStep(j) PROVE UNCHANGED task
      BY <2>4 DEF JobStep, JobTakesSource, JobReads, JobWrites, JobEnds, rest
    <2> QED
      BY <2>1, <2>2, <2>3, <2>4 DEF Next, ReadFile, ServerCrash, vars, rest
  <1>2. ASSUME NEW f \in Files PROVE r \notin content'[f]
    <2>1. r \notin content[f]
      BY DEF TooLate
    <2>2. ASSUME NEW c \in Callers, NEW g \in Files, ByPatch(c, g) PROVE r \notin content'[f]
      <3>1. req[c] # r
        BY <2>2, PlacesAre DEF TooLate, ByPatch
      <3> QED
        BY <1>0, <2>1, <2>2, <3>1 DEF ByPatch, Extended
    <2>3. ASSUME NEW c \in Callers, NEW g \in Files, ByRestore(c, g) PROVE r \notin content'[f]
      BY <1>0, <2>1, <2>3 DEF ByRestore
    <2>4. ASSUME NEW j \in Jobs, NEW g \in Files, ByJob(j, g) PROVE r \notin content'[f]
      <3>1. r # j
        BY DEF PatchAssumption
      <3> QED
        BY <1>0, <2>1, <2>4, <3>1 DEF ByJob, Extended
    <2> QED
      BY <1>0, <2>1, <2>2, <2>3, <2>4, Written
  <1> DEFINE Rejecting(d) == pc[d] \in Critical /\ req[d] = r => pc[d] \in {"check", "reject"}
  <1>3. \A d \in Callers : Rejecting(d)
    BY DEF TooLate
  <1>4. ASSUME NEW d \in Callers PROVE Rejecting(d)'
    <2>1. CASE UNCHANGED <<pc, req>>
      BY <1>3, <2>1
    <2>2. ASSUME CallerStep(d) PROVE Rejecting(d)'
      <3>1. ASSUME NEW q \in Requests, Submit(d, q) PROVE Rejecting(d)'
        BY <1>0, <3>1, PlacesAre DEF Submit
      <3>2. ASSUME PeekReceipt(d) \/ TakeRoot(d) \/ TakeLocal(d) \/ GateTimeout(d) \/ Fingerprint(d)
                   \/ BeginReceipt(d) \/ FinishReceipt(d)
            PROVE  pc'[d] \in {"idle", "root", "local", "look", "begin", "check"}
        BY <1>0, <3>2 DEF PeekReceipt, TakeRoot, TakeLocal, GateTimeout, Fingerprint, BeginReceipt, FinishReceipt,
             Goto, Return
      <3>3. ASSUME CheckTask(d) PROVE Rejecting(d)'
        BY <1>0, <3>3 DEF CheckTask, Goto, TooLate
      <3>4. ASSUME Stage(d) \/ ReplaceFails(d) \/ FingerprintAfter(d) PROVE Rejecting(d)'
        <4>1. pc[d] \in Critical \ {"check", "reject"} /\ req' = req
          BY <3>4, PlacesAre DEF Stage, ReplaceFails, FingerprintAfter, Goto
        <4> QED
          BY <1>3, <4>1
      <3>5. ASSUME NEW f \in Files, Replace(d, f) \/ Restore(d, f) PROVE Rejecting(d)'
        <4>1. pc[d] \in Critical \ {"check", "reject"} /\ req' = req
          BY <3>5, PlacesAre DEF Replace, Restore
        <4> QED
          BY <1>3, <4>1
      <3> QED
        BY <2>2, <3>1, <3>2, <3>3, <3>4, <3>5, PlacesAre DEF CallerStep
    <2>3. ASSUME NEW c \in Callers, CallerStep(c), c # d PROVE Rejecting(d)'
      BY <1>0, <1>3, <2>3, CallerStepMoves DEF CallerMoves, Untouched
    <2>4. ASSUME NEW j \in Jobs, JobStep(j) PROVE UNCHANGED <<pc, req>>
      BY <2>4 DEF JobStep, JobTakesSource, JobReads, JobWrites, JobEnds, callers
    <2>5. ASSUME NEW S \in SUBSET Callers, ServerCrash(S) PROVE Rejecting(d)'
      BY <1>3, <2>5, PlacesAre DEF ServerCrash
    <2> QED
      BY <2>1, <2>2, <2>3, <2>4, <2>5 DEF Next, ReadFile, CompleteTask, vars, callers
  <1> QED
    BY <1>1, <1>2, <1>4 DEF TooLate

\* A request without a receipt when its task is completed never has an effect.
THEOREM LateRefused == Spec => LateRequestsRefused
  <1>1. SUFFICES ASSUME NEW r \in Requests
                 PROVE  Spec => [](TaskClosed(r) /\ receipt[r] = "none"
                                     => [](\A f \in Files : r \notin content[f]))
    BY DEF LateRequestsRefused
  <1>2. PatchInv /\ TaskClosed(r) /\ receipt[r] = "none" => TooLate(r)
    BY DEF PatchInv, ReceiptsMatch, ReceiptTruthful, TooLate
  <1>3. PatchInv /\ TooLate(r) /\ [Next]_vars => TooLate(r)'
    BY TooLateStep, PatchAssumption
  <1>4. TooLate(r) => \A f \in Files : r \notin content[f]
    BY DEF TooLate
  <1> QED
    BY <1>2, <1>3, <1>4, Invariance, PTL DEF Spec

-----------------------------------------------------------------------------
(* The refinement of EditPromise *)

Changers == RequestsAt(Critical \ Undoing)
Undoers == RequestsAt(Undoing)

\* Who is past the durable intent has the files alone,
LEMMA HasAlone ==
  ASSUME GatesExclude, NEW c \in Callers, pc[c] \in InRoot
  PROVE  /\ Changers = IF pc[c] \in Critical \ Undoing THEN {req[c]} ELSE {}
         /\ Undoers = IF pc[c] \in Undoing THEN {req[c]} ELSE {}
<1>1. \A d \in Callers : pc[d] \in InRoot => d = c
  BY DEF GatesExclude
<1>2. Critical \subseteq InRoot /\ Undoing \subseteq InRoot
  BY PlacesAre DEF Undoing
<1> QED BY <1>1, <1>2 DEF Changers, Undoers, RequestsAt

\* and so afterwards; a caller who never gets there leaves the files to others.
LEMMA HandsMove ==
  ASSUME GatesExclude, GatesExclude', NEW c \in Callers, CallerMoves(c)
  PROVE  /\ pc[c] \notin Critical /\ pc'[c] \notin Critical => UNCHANGED <<Changers, Undoers>>
         /\ pc[c] \in InRoot /\ pc'[c] \notin Critical => Changers' = {} /\ Undoers' = {}
         /\ pc'[c] \in Critical =>
              /\ Changers' = IF pc'[c] \in Undoing THEN {} ELSE {req'[c]}
              /\ Undoers' = IF pc'[c] \in Undoing THEN {req'[c]} ELSE {}
<1>1. /\ Critical \subseteq InRoot /\ Undoing \subseteq Critical
  BY PlacesAre DEF Undoing
<1>2. \A d \in Callers \ {c} : pc'[d] = pc[d] /\ req'[d] = req[d]
  BY DEF CallerMoves, Untouched
<1>3. ASSUME pc[c] \notin Critical, pc'[c] \notin Critical
      PROVE  UNCHANGED <<Changers, Undoers>>
  <2>1. \A d \in Callers : pc[d] \in Critical \/ pc'[d] \in Critical =>
          pc'[d] = pc[d] /\ req'[d] = req[d]
    BY <1>2, <1>3
  <2>2. \A d \in Callers : pc[d] \in Undoing \/ pc'[d] \in Undoing =>
          pc'[d] = pc[d] /\ req'[d] = req[d]
    BY <2>1, <1>1
  <2> QED BY <2>1, <2>2 DEF Changers, Undoers, RequestsAt
<1>4. ASSUME pc[c] \in InRoot, pc'[c] \notin Critical PROVE Changers' = {} /\ Undoers' = {}
  <2>1. \A d \in Callers : pc'[d] \notin Critical
    BY <1>1, <1>2, <1>4 DEF GatesExclude
  <2> QED BY <1>1, <2>1 DEF Changers, Undoers, RequestsAt
<1>5. ASSUME pc'[c] \in Critical
      PROVE  /\ Changers' = IF pc'[c] \in Undoing THEN {} ELSE {req'[c]}
             /\ Undoers' = IF pc'[c] \in Undoing THEN {req'[c]} ELSE {}
  <2>1. \A d \in Callers : pc'[d] \in Critical => d = c
    BY <1>1, <1>5 DEF GatesExclude
  <2> QED BY <1>1, <1>5, <2>1 DEF Changers, Undoers, RequestsAt
<1> QED BY <1>3, <1>4, <1>5

\* A step that leaves files, authors, receipts and hands alone is none of the promise.
LEMMA NotPromised ==
  ASSUME UNCHANGED <<content, authors, receipt, Changers, Undoers>>
  PROVE  UNCHANGED Promised!vars
  BY DEF authors, Changers, Undoers, Promised!vars

\* What the author of each request saw stays while the authors' variables do.
Seen == [r \in Requests |-> [f \in read[r] |-> basis[r][f]]]

LEMMA SeenStays == ASSUME UNCHANGED authors PROVE UNCHANGED Seen
  BY DEF authors, Seen

\* The steps of a caller, by where he is: up to the durable intent,
LEMMA BeginKeeps ==
  ASSUME PatchInv, PatchInv', PatchAssumption, NEW c \in Callers, CallerMoves(c), BeginReceipt(c)
  PROVE  [Promised!Next]_(Promised!vars)
<1>1. /\ pc[c] = "begin" /\ UNCHANGED <<content, authors>>
      /\ GatesExclude /\ GatesExclude' /\ TypeOK /\ CallerKnows(c)
  BY DEF BeginReceipt, PatchInv, CallersKnow
<1>2. /\ pc[c] \in InRoot /\ pc[c] \notin Critical /\ "idle" \notin Critical /\ "check" \in Critical \ Undoing
      /\ pc[c] \notin Undoing
  BY <1>1, PlacesAre DEF Undoing
<1>3. CASE receipt[req[c]] = "none"
  <2> DEFINE r == req[c]
  <2>1. receipt' = [receipt EXCEPT ![r] = "started"] /\ pc'[c] = "check" /\ req'[c] = r
    BY <1>1, <1>3 DEF BeginReceipt, Goto, TypeOK
  <2>2. Changers = {} /\ Undoers = {} /\ Changers' = {r} /\ Undoers' = {}
    BY <1>1, <1>2, <2>1, HasAlone, HandsMove
  <2>3. r \in Requests /\ DOMAIN Seen[r] = Touches[r]
    BY <1>1 DEF CallerKnows, Seen
  <2>4. Promised!Begin(r)
    BY <1>1, <1>3, <2>1, <2>2, <2>3, SeenStays
       DEF Promised!Begin, Promised!NobodyHas, Seen, Changers, Undoers
  <2> QED BY <2>3, <2>4 DEF Promised!Next
<1>4. CASE receipt[req[c]] # "none"
  <2>1. pc'[c] = "idle" /\ UNCHANGED receipt
    BY <1>1, <1>4 DEF BeginReceipt, Return, TypeOK
  <2>2. UNCHANGED <<Changers, Undoers>>
    BY <1>1, <1>2, <2>1, HandsMove
  <2> QED BY <1>1, <2>1, <2>2, NotPromised
<1> QED BY <1>3, <1>4

\* from one place of the critical section to another,
LEMMA GoingKeeps ==
  ASSUME PatchInv, PatchInv', NEW c \in Callers, CallerMoves(c), UNCHANGED <<content, authors, receipt>>,
         req'[c] = req[c], pc[c] \in Critical, pc'[c] \in Critical, pc[c] \in Undoing => pc'[c] \in Undoing
  PROVE  [Promised!Next]_(Promised!vars)
<1>1. /\ GatesExclude /\ GatesExclude' /\ CallerKnows(c)
      /\ pc[c] \in InRoot /\ pc[c] # "idle"
  BY PlacesAre DEF PatchInv, CallersKnow
<1>2. /\ Changers = IF pc[c] \in Undoing THEN {} ELSE {req[c]}
      /\ Undoers = IF pc[c] \in Undoing THEN {req[c]} ELSE {}
      /\ Changers' = IF pc'[c] \in Undoing THEN {} ELSE {req[c]}
      /\ Undoers' = IF pc'[c] \in Undoing THEN {req[c]} ELSE {}
  BY <1>1, HasAlone, HandsMove
<1>3. CASE pc[c] \in Undoing <=> pc'[c] \in Undoing
  BY <1>2, <1>3, NotPromised
<1>4. CASE pc[c] \notin Undoing /\ pc'[c] \in Undoing
  <2>1. req[c] \in Requests
    BY <1>1 DEF CallerKnows
  <2>2. Promised!TurnBack(req[c])
    BY <1>2, <1>4, SeenStays DEF Promised!TurnBack, Seen, Changers, Undoers
  <2> QED BY <2>1, <2>2 DEF Promised!Next
<1> QED BY <1>3, <1>4

\* a file that is replaced,
LEMMA ReplaceKeeps ==
  ASSUME PatchInv, PatchInv', PatchAssumption, NEW c \in Callers, CallerMoves(c), NEW f \in Files, Replace(c, f)
  PROVE  [Promised!Next]_(Promised!vars)
<1> DEFINE r == req[c]
<1>1. /\ pc[c] = "write" /\ f \in todo[c] /\ UNCHANGED <<authors, receipt, req>>
      /\ content' = [content EXCEPT ![f] = saw[c][f] \cup {r}]
      /\ GatesExclude /\ GatesExclude' /\ CallerKnows(c) /\ TypeOK
  BY DEF Replace, PatchInv, CallersKnow
<1>2. /\ r \in Requests /\ f \in Touches[r] /\ read[r] = Touches[r]
      /\ saw[c][f] = basis[r][f] /\ content[f] = saw[c][f]
  BY <1>1 DEF CallerKnows
<1>3. pc'[c] \in {"write", "after"}
  BY <1>1 DEF Replace, TypeOK
<1>4. Changers = {r} /\ Undoers = {} /\ Changers' = {r} /\ Undoers' = {}
  BY <1>1, <1>3, HasAlone, HandsMove, PlacesAre DEF Undoing
<1>5. Seen[r][f] = content[f] /\ UNCHANGED Seen
  BY <1>1, <1>2, SeenStays DEF Seen
<1>6. Promised!Change(r, f)
  BY <1>1, <1>2, <1>4, <1>5 DEF Promised!Change, Promised!Becomes, Seen, Changers, Undoers
<1> QED BY <1>2, <1>6 DEF Promised!Next

\* and one that is put back,
LEMMA RestoreKeeps ==
  ASSUME PatchInv, PatchInv', PatchAssumption, NEW c \in Callers, CallerMoves(c), NEW f \in Files, Restore(c, f)
  PROVE  [Promised!Next]_(Promised!vars)
<1> DEFINE r == req[c]
<1>1. /\ pc[c] = "restore" /\ f \in todo[c] /\ UNCHANGED <<authors, receipt, req>>
      /\ UNCHANGED content \/ content' = [content EXCEPT ![f] = saw[c][f]]
      /\ GatesExclude /\ GatesExclude' /\ CallerKnows(c) /\ TypeOK
  BY DEF Restore, PatchInv, CallersKnow
<1>2. /\ r \in Requests /\ f \in Touches[r] /\ read[r] = Touches[r]
      /\ saw[c][f] = basis[r][f] /\ content[f] \in {saw[c][f], saw[c][f] \cup {r}}
  BY <1>1 DEF CallerKnows
<1>3. pc'[c] \in {"restore", "reject"}
  BY <1>1 DEF Restore, TypeOK
<1>4. Changers = {} /\ Undoers = {r} /\ Changers' = {} /\ Undoers' = {r}
  BY <1>1, <1>3, HasAlone, HandsMove, PlacesAre DEF Undoing
<1>5. CASE UNCHANGED content
  BY <1>1, <1>4, <1>5, NotPromised
<1>6. CASE content' = [content EXCEPT ![f] = saw[c][f]] /\ content' # content
  <2>1. content[f] = saw[c][f] \cup {r}
    BY <1>1, <1>2, <1>6 DEF TypeOK
  <2>2. Seen[r][f] = saw[c][f] /\ UNCHANGED Seen
    BY <1>1, <1>2, SeenStays DEF Seen
  <2>3. Promised!Undo(r, f)
    BY <1>1, <1>2, <1>4, <1>6, <2>1, <2>2 DEF Promised!Undo, Promised!Becomes, Seen, Changers, Undoers
  <2> QED BY <1>2, <2>3 DEF Promised!Next
<1> QED BY <1>1, <1>5, <1>6

\* to the recorded result, if it can be recorded.
LEMMA FinishKeeps ==
  ASSUME PatchInv, PatchInv', PatchAssumption, NEW c \in Callers, CallerMoves(c), FinishReceipt(c)
  PROVE  [Promised!Next]_(Promised!vars)
<1> DEFINE r == req[c]
<1>1. /\ pc[c] \in {"accept", "reject"} /\ UNCHANGED <<content, authors>> /\ pc'[c] = "idle"
      /\ \/ receipt' = [receipt EXCEPT ![r] = IF pc[c] = "accept" THEN "ok" ELSE "error"]
         \/ UNCHANGED receipt
      /\ GatesExclude /\ GatesExclude' /\ CallerKnows(c) /\ TypeOK
  BY DEF FinishReceipt, Return, PatchInv, CallersKnow, TypeOK
<1>2. r \in Requests /\ (pc[c] = "accept" => \A f \in Touches[r] : r \in content[f])
  BY <1>1 DEF CallerKnows
<1>3. /\ Changers = IF pc[c] = "accept" THEN {r} ELSE {}
      /\ Undoers = IF pc[c] = "accept" THEN {} ELSE {r}
      /\ Changers' = {} /\ Undoers' = {}
  BY <1>1, HasAlone, HandsMove, PlacesAre DEF Undoing
<1>4. Promised!Leave
  BY <1>1, <1>3, SeenStays DEF Promised!Leave, Seen, Changers, Undoers
<1>5. CASE UNCHANGED receipt
  BY <1>3, <1>4, <1>5 DEF Promised!Next, Promised!Lose, Promised!NobodyHas, Changers, Undoers
<1>6. CASE pc[c] = "accept" /\ receipt' = [receipt EXCEPT ![r] = "ok"]
  BY <1>2, <1>3, <1>4, <1>6 DEF Promised!Next, Promised!Accept, Changers
<1>7. CASE pc[c] = "reject" /\ receipt' = [receipt EXCEPT ![r] = "error"]
  BY <1>2, <1>3, <1>4, <1>7 DEF Promised!Next, Promised!Refuse, Undoers
<1> QED BY <1>1, <1>5, <1>6, <1>7

LEMMA CallerKeeps ==
  ASSUME PatchInv, PatchInv', PatchAssumption, NEW c \in Callers, CallerStep(c)
  PROVE  [Promised!Next]_(Promised!vars)
<1>1. /\ TypeOK /\ CallersKnow /\ GatesExclude /\ GatesExclude'
  BY DEF PatchInv
<1>2. CallerMoves(c)
  BY <1>1, CallerStepMoves
<1>3. ASSUME \/ \E r \in Requests : Submit(c, r)
             \/ PeekReceipt(c) \/ TakeRoot(c) \/ TakeLocal(c) \/ GateTimeout(c) \/ Fingerprint(c)
      PROVE  UNCHANGED Promised!vars
  <2>1. pc[c] \notin Critical /\ UNCHANGED <<content, authors, receipt>>
    BY <1>3, PlacesAre DEF Submit, PeekReceipt, TakeRoot, TakeLocal, GateTimeout, Fingerprint
  <2>2. pc'[c] \in {"idle", "peek", "root", "local", "look", "begin"}
    BY <1>1, <1>3 DEF Submit, PeekReceipt, TakeRoot, TakeLocal, GateTimeout, Fingerprint,
       Goto, Return, TypeOK
  <2>3. UNCHANGED <<Changers, Undoers>>
    BY <1>1, <1>2, <2>1, <2>2, HandsMove, PlacesAre
  <2> QED BY <2>1, <2>3, NotPromised
<1>4. ASSUME CheckTask(c) \/ Stage(c) \/ ReplaceFails(c) \/ FingerprintAfter(c)
      PROVE  [Promised!Next]_(Promised!vars)
  <2>1. /\ pc[c] \in {"check", "stage", "write", "after"} /\ req'[c] = req[c]
        /\ UNCHANGED <<content, authors, receipt>>
    BY <1>4 DEF CheckTask, Stage, ReplaceFails, FingerprintAfter, Goto
  <2>2. pc'[c] \in {"stage", "write", "restore", "accept", "reject"}
    BY <1>1, <1>4 DEF CheckTask, Stage, ReplaceFails, FingerprintAfter, Goto, TypeOK
  <2> QED BY <1>2, <2>1, <2>2, GoingKeeps, PlacesAre DEF Undoing
<1> QED BY <1>2, <1>3, <1>4, BeginKeeps, ReplaceKeeps, RestoreKeeps, FinishKeeps DEF CallerStep

\* The author's look is the promise's.
LEMMA ReadKeeps ==
  ASSUME PatchInv, NEW r \in Requests, NEW f \in Files, ReadFile(r, f)
  PROVE  [Promised!Next]_(Promised!vars)
<1>1. /\ f \in Touches[r] \ read[r]
      /\ read' = [read EXCEPT ![r] = @ \cup {f}]
      /\ basis' = [basis EXCEPT ![r][f] = content[f]]
      /\ UNCHANGED <<content, receipt, pc, req>>
      /\ TypeOK
  BY DEF ReadFile, PatchInv, callers
<1>2. Seen' = [Seen EXCEPT ![r] = [g \in DOMAIN Seen[r] \cup {f} |->
                                     IF g = f THEN content[f] ELSE Seen[r][g]]]
  <2>1. read'[r] = read[r] \cup {f} /\ \A q \in Requests \ {r} : read'[q] = read[q]
    BY <1>1 DEF TypeOK
  <2>2. /\ \A q \in Requests \ {r} : basis'[q] = basis[q]
        /\ \A g \in Files : basis'[r][g] = IF g = f THEN content[f] ELSE basis[r][g]
    BY <1>1 DEF TypeOK
  <2>3. read[r] \subseteq Files
    BY <1>1 DEF TypeOK
  <2>4. [g \in read'[r] |-> basis'[r][g]]
          = [g \in DOMAIN Seen[r] \cup {f} |-> IF g = f THEN content[f] ELSE Seen[r][g]]
    BY <2>1, <2>2, <2>3 DEF Seen
  <2>5. \A q \in Requests \ {r} : [g \in read'[q] |-> basis'[q][g]] = Seen[q]
    BY <2>1, <2>2 DEF Seen
  <2> QED BY <2>4, <2>5 DEF Seen
<1>3. UNCHANGED <<Changers, Undoers>>
  BY <1>1 DEF Changers, Undoers, RequestsAt
<1>4. f \in Touches[r] \ DOMAIN Seen[r]
  BY <1>1 DEF Seen
<1>5. Promised!See(r, f)
  BY <1>1, <1>2, <1>3, <1>4 DEF Promised!See, Seen, Changers, Undoers
<1> QED BY <1>1, <1>5 DEF Promised!Next

\* A command works on the files when nobody has them,
LEMMA JobKeeps ==
  ASSUME PatchInv, NEW j \in Jobs, JobStep(j)
  PROVE  [Promised!Next]_(Promised!vars)
<1>1. CASE JobTakesSource(j) \/ JobReads(j) \/ JobEnds(j)
  <2>1. UNCHANGED <<content, authors, receipt, pc, req>>
    BY <1>1 DEF JobTakesSource, JobReads, JobEnds, callers
  <2>2. UNCHANGED <<Changers, Undoers>>
    BY <2>1 DEF Changers, Undoers, RequestsAt
  <2> QED BY <2>1, <2>2, NotPromised
<1>2. ASSUME NEW f \in Files, JobWrites(j, f) PROVE Promised!Work(j, f)
  <2>1. /\ job[j] = "edit" /\ UNCHANGED <<authors, receipt, pc, req>>
        /\ content' = [content EXCEPT ![f] = saw[j][f] \cup {j}]
        /\ GatesExclude /\ JobsKnow
    BY <1>2 DEF JobWrites, PatchInv, callers
  <2>2. saw[j][f] \cup {j} = content[f] \cup {j}
    BY <2>1 DEF JobsKnow
  <2>3. \A c \in Callers : pc[c] \notin Critical /\ pc[c] \notin Undoing
    BY <2>1, PlacesAre DEF GatesExclude, Undoing
  <2>4. Changers = {} /\ Undoers = {} /\ UNCHANGED <<Changers, Undoers>>
    BY <2>1, <2>3 DEF Changers, Undoers, RequestsAt
  <2> QED BY <2>1, <2>2, <2>4, SeenStays
          DEF Promised!Work, Promised!NobodyHas, Promised!Becomes, Seen, Changers, Undoers
<1> QED BY <1>1, <1>2 DEF JobStep, Promised!Next

\* and who had them when his server ended has lost them.
LEMMA CrashKeeps ==
  ASSUME PatchInv, NEW S \in SUBSET Callers, ServerCrash(S)
  PROVE  [Promised!Next]_(Promised!vars)
<1>1. /\ pc' = [c \in Callers |-> IF c \in S THEN "idle" ELSE pc[c]]
      /\ req' = [c \in Callers |-> IF c \in S THEN NoRequest ELSE req[c]]
      /\ UNCHANGED <<content, authors, receipt>>
      /\ GatesExclude
  BY DEF ServerCrash, PatchInv
<1>2. "idle" \notin Critical /\ Undoing \subseteq Critical /\ Critical \subseteq InRoot
  BY PlacesAre DEF Undoing
<1>3. CASE \E c \in S : pc[c] \in Critical
  <2>1. PICK c \in S : pc[c] \in Critical
    BY <1>3
  <2>2. \A d \in Callers : pc'[d] \notin Critical
    BY <1>1, <1>2, <2>1 DEF GatesExclude
  <2>3. Changers' = {} /\ Undoers' = {}
    BY <1>2, <2>2 DEF Changers, Undoers, RequestsAt
  <2>4. ~(Changers = {} /\ Undoers = {})
    BY <2>1 DEF Changers, Undoers, RequestsAt
  <2> QED BY <1>1, <2>3, <2>4, SeenStays
          DEF Promised!Next, Promised!Lose, Promised!Leave, Promised!NobodyHas, Seen, Changers, Undoers
<1>4. CASE \A c \in S : pc[c] \notin Critical
  <2>1. \A d \in Callers : pc[d] \in Critical \/ pc'[d] \in Critical =>
          pc'[d] = pc[d] /\ req'[d] = req[d]
    BY <1>1, <1>2, <1>4
  <2>2. UNCHANGED <<Changers, Undoers>>
    BY <1>2, <2>1 DEF Changers, Undoers, RequestsAt
  <2> QED BY <1>1, <2>2, NotPromised
<1> QED BY <1>3, <1>4

\* Every behaviour keeps the promise of EditPromise, for any requests, callers, files
\* and commands: one request at a time has the files, once and alone, adds its edit to
\* what its author saw and is accepted when it is everywhere (personal_patch.rs,
\* patch.rs).
THEOREM EditsPromised == Spec => KeepsEdits
<1>1. Init => Promised!Init
  <2> SUFFICES ASSUME Init PROVE Promised!Init
    OBVIOUS
  <2>1. Changers = {} /\ Undoers = {}
    BY PlacesAre DEF Init, Changers, Undoers, RequestsAt, Undoing
  <2>2. Seen = [r \in Requests |-> <<>>]
    BY DEF Init, Seen
  <2> QED BY <2>1, <2>2 DEF Init, Promised!Init, Seen, Changers, Undoers
<1>2. PatchInv /\ PatchInv' /\ [Next]_vars => [Promised!Next]_(Promised!vars)
  <2> SUFFICES ASSUME PatchInv, PatchInv', [Next]_vars PROVE [Promised!Next]_(Promised!vars)
    OBVIOUS
  <2>1. ASSUME (\E t \in Tasks : CompleteTask(t)) \/ UNCHANGED vars
        PROVE  UNCHANGED Promised!vars
    <3>1. UNCHANGED <<content, authors, receipt, pc, req>>
      BY <2>1 DEF CompleteTask, vars, callers
    <3>2. UNCHANGED <<Changers, Undoers>>
      BY <3>1 DEF Changers, Undoers, RequestsAt
    <3> QED BY <3>1, <3>2, NotPromised
  <2> QED BY <2>1, CallerKeeps, ReadKeeps, JobKeeps, CrashKeeps, PatchAssumption DEF Next
<1> QED BY <1>1, <1>2, Invariance, PTL DEF Spec, KeepsEdits, Promised!Spec
=============================================================================
