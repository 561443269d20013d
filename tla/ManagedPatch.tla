---------------------------- MODULE ManagedPatch ----------------------------
(***************************************************************************)
(* Managed file patches on one real directory: personal_patch.rs (the      *)
(* critical section), patch.rs (staging, replacement, restoration) and the *)
(* receipts of store.rs, beside the commands that hold the source gate.    *)
(*                                                                         *)
(* What a file says is abstracted to the set of edits its text takes into  *)
(* account. An addition and a deletion are edits too: whoever makes one    *)
(* has the earlier text before him. Equal texts have equal hashes.         *)
(*                                                                         *)
(* A dry run, which returns hashes and changes nothing, is one more way to *)
(* read the files (ReadFile). Requests refused before any effect (invalid  *)
(* arguments, the same id with another input) need no action.              *)
(***************************************************************************)
EXTENDS Naturals

CONSTANTS
  Requests,    \* receipt keys (scope, request_id)
  NoRequest,   \* no request: outside Requests
  Callers,     \* threads of the servers that apply patches
  Files,
  Touches,     \* [Requests -> SUBSET Files]: the files of each patch
  Local,       \* [Requests -> gates]: the gate of the caller's own state directory
  Source,      \* the gate that commands hold, one of those
  Jobs,        \* commands that hold the source gate
  JobMode,     \* [Jobs -> {"build", "write"}]
  Tasks,
  TaskOf,      \* [Requests -> Tasks \cup {NoTask}]
  NoTask,      \* the request belongs to the workspace, not to a task
  MaxCrashes   \* bound: server crashes of one behaviour

Edits == Requests \cup Jobs

ASSUME PatchAssumption ==
  /\ NoRequest \notin Requests
  /\ Touches \in [Requests -> (SUBSET Files) \ {{}}]
  /\ JobMode \in [Jobs -> {"build", "write"}]
  /\ Requests \cap Jobs = {}
  /\ NoTask \notin Tasks
  /\ TaskOf \in [Requests -> Tasks \cup {NoTask}]
  /\ MaxCrashes \in Nat
  /\ Callers \cap Jobs = {}

\* A command works in the workspace whose source gate it holds; patches that
\* come to its directory through another gate are not coordinated with it.
ASSUME OneWorkspaceAssumption == Jobs = {} \/ \A r \in Requests : Local[r] = Source

VARIABLES
  content,   \* the edits each file's text takes into account
  read,      \* the files the author of each request has read
  basis,     \* what he read: the expected hashes
  receipt,   \* the receipt's state: "none", "started", "ok" or "error"
  pc,        \* what each caller is doing
  req,       \* the request it does it for
  saw,       \* what a caller or a writing command last read
  todo,      \* the files a caller has still to replace or restore
  job,       \* where each command is
  task,      \* the state column of each task, "open" or "completed"
  commits,   \* how often the files of each request were replaced
  crashes    \* server crashes so far

authors == <<read, basis>>
callers == <<pc, req, todo, saw>>
rest == <<job, task, crashes>>
vars == <<content, authors, receipt, callers, commits, rest>>

-----------------------------------------------------------------------------
(* Gates, held by who is at such a place *)

Critical == {"check", "stage", "write", "restore", "after", "accept", "reject"}
InLocal == {"look", "begin"} \cup Critical
InRoot == {"local"} \cup InLocal

\* Mutant: patches through different gates do not meet.
RootFreeAnyway == TRUE

RootFree == \A c \in Callers : pc[c] \notin InRoot

\* Mutants: a build does not exclude a patch; the source gate is not looked at.
LocalFreeForBuild(g) ==
  /\ \A c \in Callers : pc[c] \in InLocal => Local[req[c]] # g
  /\ g = Source => \A j \in Jobs : job[j] \in {"hold", "edit"} => JobMode[j] = "build"

LocalFreeAnyway(g) == \A c \in Callers : pc[c] \in InLocal => Local[req[c]] # g

LocalFree(g) ==
  /\ \A c \in Callers : pc[c] \in InLocal => Local[req[c]] # g
  /\ g = Source => \A j \in Jobs : job[j] \notin {"hold", "edit"}

-----------------------------------------------------------------------------
(* A call: each step ends at a place, or returns and frees the gates *)

Goto(c, place) ==
  /\ pc' = [pc EXCEPT ![c] = place]
  /\ UNCHANGED <<req, todo, saw>>

Nothing == [f \in Files |-> {}]

Return(c) ==
  /\ pc' = [pc EXCEPT ![c] = "idle"]
  /\ req' = [req EXCEPT ![c] = NoRequest]
  /\ todo' = [todo EXCEPT ![c] = {}]
  /\ saw' = [saw EXCEPT ![c] = Nothing]

\* The author reads a file whose hash he will pass.
ReadFile(r, f) ==
  /\ f \in Touches[r] \ read[r]
  /\ read' = [read EXCEPT ![r] = @ \cup {f}]
  /\ basis' = [basis EXCEPT ![r][f] = content[f]]
  /\ UNCHANGED <<content, receipt, callers, commits, rest>>

\* A call, also one that repeats an earlier one. One that lacks a hash ends as
\* one whose hash is stale.
Submit(c, r) ==
  /\ pc[c] = "idle" /\ read[r] = Touches[r]
  /\ pc' = [pc EXCEPT ![c] = "peek"]
  /\ req' = [req EXCEPT ![c] = r]
  /\ UNCHANGED <<content, authors, receipt, todo, saw, commits, rest>>

\* Without a gate: a finished request is answered, an unfinished one is
\* reported as indeterminate.
PeekReceipt(c) ==
  /\ pc[c] = "peek"
  /\ IF receipt[req[c]] = "none" THEN Goto(c, "root") ELSE Return(c)
  /\ UNCHANGED <<content, authors, receipt, commits, rest>>

TakeRoot(c) ==
  /\ pc[c] = "root" /\ RootFree
  /\ Goto(c, "local")
  /\ UNCHANGED <<content, authors, receipt, commits, rest>>

TakeLocal(c) ==
  /\ pc[c] = "local" /\ LocalFree(Local[req[c]])
  /\ Goto(c, "look")
  /\ UNCHANGED <<content, authors, receipt, commits, rest>>

\* The last try within the five seconds found the gate busy.
GateTimeout(c) ==
  /\ \/ pc[c] = "root" /\ ~RootFree
     \/ pc[c] = "local" /\ ~LocalFree(Local[req[c]])
  /\ Return(c)
  /\ UNCHANGED <<content, authors, receipt, commits, rest>>

\* Fingerprint the files, or fail on one of them.
Fingerprint(c) ==
  /\ pc[c] = "look"
  /\ \/ /\ saw' = [saw EXCEPT ![c] = content]
        /\ pc' = [pc EXCEPT ![c] = "begin"]
        /\ UNCHANGED <<req, todo>>
     \/ Return(c)
  /\ UNCHANGED <<content, authors, receipt, commits, rest>>

\* The intent is durable before the first file is touched.
BeginReceipt(c) ==
  /\ pc[c] = "begin"
  /\ IF receipt[req[c]] = "none"
     THEN receipt' = [receipt EXCEPT ![req[c]] = "started"] /\ Goto(c, "check")
     ELSE Return(c) /\ UNCHANGED receipt
  /\ UNCHANGED <<content, authors, commits, rest>>

TaskClosed(r) == TaskOf[r] \in Tasks /\ task[TaskOf[r]] = "completed"

\* Mutant: only the request's existence counts, not its task.
CheckTaskNot(c) ==
  /\ pc[c] = "check"
  /\ Goto(c, "stage")
  /\ UNCHANGED <<content, authors, receipt, commits, rest>>

CheckTask(c) ==
  /\ pc[c] = "check"
  /\ Goto(c, IF TaskClosed(req[c]) THEN "reject" ELSE "stage")
  /\ UNCHANGED <<content, authors, receipt, commits, rest>>

Expected(c) == \A f \in Touches[req[c]] : saw[c][f] = basis[req[c]][f]

\* Mutant: the expected hashes are not compared.
StageUnchecked(c) ==
  /\ pc[c] = "stage"
  /\ \/ /\ saw' = [saw EXCEPT ![c] = content]
        /\ pc' = [pc EXCEPT ![c] = "write"]
        /\ todo' = [todo EXCEPT ![c] = Touches[req[c]]]
        /\ commits' = [commits EXCEPT ![req[c]] = @ + 1]
        /\ UNCHANGED req
     \/ Goto(c, "reject") /\ UNCHANGED commits
  /\ UNCHANGED <<content, authors, receipt, rest>>

\* Compare the hashes, then read the files again, apply the hunks and write
\* temporary files and backups; hunks that do not fit end it, as a stale hash.
Stage(c) ==
  /\ pc[c] = "stage"
  /\ \/ /\ Expected(c)
        /\ saw' = [saw EXCEPT ![c] = content]
        /\ pc' = [pc EXCEPT ![c] = "write"]
        /\ todo' = [todo EXCEPT ![c] = Touches[req[c]]]
        /\ commits' = [commits EXCEPT ![req[c]] = @ + 1]
        /\ UNCHANGED req
     \/ Goto(c, "reject") /\ UNCHANGED commits
  /\ UNCHANGED <<content, authors, receipt, rest>>

\* Mutant: the first file is taken for the last.
ReplaceFirst(c, f) ==
  /\ pc[c] = "write" /\ f \in todo[c]
  /\ content' = [content EXCEPT ![f] = saw[c][f] \cup {req[c]}]
  /\ todo' = [todo EXCEPT ![c] = {}]
  /\ pc' = [pc EXCEPT ![c] = "after"]
  /\ UNCHANGED <<authors, receipt, req, saw, commits, rest>>

\* Rename the staged text over one file.
Replace(c, f) ==
  /\ pc[c] = "write" /\ f \in todo[c]
  /\ content' = [content EXCEPT ![f] = saw[c][f] \cup {req[c]}]
  /\ todo' = [todo EXCEPT ![c] = @ \ {f}]
  /\ pc' = [pc EXCEPT ![c] = IF todo'[c] = {} THEN "after" ELSE @]
  /\ UNCHANGED <<authors, receipt, req, saw, commits, rest>>

\* A file cannot be replaced: restore all of them. A path that cannot be
\* resolved any more ends the call without restoring.
ReplaceFails(c) ==
  /\ pc[c] = "write"
  /\ \/ /\ pc' = [pc EXCEPT ![c] = "restore"]
        /\ todo' = [todo EXCEPT ![c] = Touches[req[c]]]
        /\ UNCHANGED <<req, saw>>
     \/ Goto(c, "reject")
  /\ UNCHANGED <<content, authors, receipt, commits, rest>>

\* Write one backup back; that this may fail is ignored.
Restore(c, f) ==
  /\ pc[c] = "restore" /\ f \in todo[c]
  /\ \/ content' = [content EXCEPT ![f] = saw[c][f]]
     \/ UNCHANGED content
  /\ todo' = [todo EXCEPT ![c] = @ \ {f}]
  /\ pc' = [pc EXCEPT ![c] = IF todo'[c] = {} THEN "reject" ELSE @]
  /\ UNCHANGED <<authors, receipt, req, saw, commits, rest>>

\* Fingerprint the new files; failing on one makes the result an error.
FingerprintAfter(c) ==
  /\ pc[c] = "after"
  /\ Goto(c, "accept") \/ Goto(c, "reject")
  /\ UNCHANGED <<content, authors, receipt, commits, rest>>

\* Record the result; if that fails the receipt stays started.
FinishReceipt(c) ==
  /\ pc[c] \in {"accept", "reject"}
  /\ \/ receipt' = [receipt EXCEPT ![req[c]] = IF pc[c] = "accept" THEN "ok" ELSE "error"]
     \/ UNCHANGED receipt
  /\ Return(c)
  /\ UNCHANGED <<content, authors, commits, rest>>

-----------------------------------------------------------------------------
(* Commands under the source gate, task completion, crashes *)

JobTakesSource(j) ==
  /\ job[j] = "queued"
  /\ \A c \in Callers : pc[c] \in InLocal => Local[req[c]] # Source
  /\ \A k \in Jobs : job[k] \in {"hold", "edit"} => JobMode[j] = "build" /\ JobMode[k] = "build"
  /\ job' = [job EXCEPT ![j] = "hold"]
  /\ UNCHANGED <<content, authors, receipt, callers, commits, task, crashes>>

JobReads(j) ==
  /\ job[j] = "hold" /\ JobMode[j] = "write"
  /\ job' = [job EXCEPT ![j] = "edit"]
  /\ saw' = [saw EXCEPT ![j] = content]
  /\ UNCHANGED <<content, authors, receipt, pc, req, todo, commits, task, crashes>>

JobWrites(j, f) ==
  /\ job[j] = "edit"
  /\ content' = [content EXCEPT ![f] = saw[j][f] \cup {j}]
  /\ UNCHANGED <<authors, receipt, callers, commits, rest>>

\* The command's processes are gone and with them the gate.
JobEnds(j) ==
  /\ job[j] \in {"hold", "edit"}
  /\ job' = [job EXCEPT ![j] = "done"]
  /\ saw' = [saw EXCEPT ![j] = Nothing]
  /\ UNCHANGED <<content, authors, receipt, pc, req, todo, commits, task, crashes>>

CompleteTask(t) ==
  /\ task[t] = "open"
  /\ task' = [task EXCEPT ![t] = "completed"]
  /\ UNCHANGED <<content, authors, receipt, callers, commits, job, crashes>>

\* A server ends: its calls are gone, the files and receipts stay as they are.
ServerCrash(S) ==
  /\ crashes < MaxCrashes
  /\ \E c \in S : pc[c] # "idle"
  /\ pc' = [c \in Callers |-> IF c \in S THEN "idle" ELSE pc[c]]
  /\ req' = [c \in Callers |-> IF c \in S THEN NoRequest ELSE req[c]]
  /\ todo' = [c \in Callers |-> IF c \in S THEN {} ELSE todo[c]]
  /\ saw' = [a \in Callers \cup Jobs |-> IF a \in S THEN Nothing ELSE saw[a]]
  /\ crashes' = crashes + 1
  /\ UNCHANGED <<content, authors, receipt, commits, job, task>>

-----------------------------------------------------------------------------

Init ==
  /\ content = [f \in Files |-> {}]
  /\ read = [r \in Requests |-> {}]
  /\ basis = [r \in Requests |-> [f \in Files |-> {}]]
  /\ receipt = [r \in Requests |-> "none"]
  /\ pc = [c \in Callers |-> "idle"]
  /\ req = [c \in Callers |-> NoRequest]
  /\ saw = [a \in Callers \cup Jobs |-> Nothing]
  /\ todo = [c \in Callers |-> {}]
  /\ job = [j \in Jobs |-> "queued"]
  /\ task = [t \in Tasks |-> "open"]
  /\ commits = [r \in Requests |-> 0]
  /\ crashes = 0

CallerStep(c) ==
  \/ \E r \in Requests : Submit(c, r)
  \/ PeekReceipt(c) \/ TakeRoot(c) \/ TakeLocal(c) \/ GateTimeout(c)
  \/ Fingerprint(c) \/ BeginReceipt(c) \/ CheckTask(c) \/ Stage(c)
  \/ \E f \in Files : Replace(c, f) \/ Restore(c, f)
  \/ ReplaceFails(c) \/ FingerprintAfter(c) \/ FinishReceipt(c)

JobStep(j) ==
  \/ JobTakesSource(j) \/ JobReads(j) \/ JobEnds(j)
  \/ \E f \in Files : JobWrites(j, f)

Next ==
  \/ \E r \in Requests, f \in Files : ReadFile(r, f)
  \/ \E c \in Callers : CallerStep(c)
  \/ \E j \in Jobs : JobStep(j)
  \/ \E t \in Tasks : CompleteTask(t)
  \/ \E S \in SUBSET Callers : ServerCrash(S)

Spec == Init /\ [][Next]_vars

-----------------------------------------------------------------------------
(* Properties *)

\* What a receipt says is true: without one nothing was applied (RESOURCE_BUSY
\* says patch_applied=false), and an edit that was acknowledged is in every
\* file of its patch, whatever other patches and commands do later.
ReceiptTruthful ==
  \A r \in Requests :
    /\ receipt[r] = "none" => \A f \in Files : r \notin content[f]
    /\ receipt[r] = "ok" => \A f \in Touches[r] : r \in content[f]

\* The files of a request are replaced at most once, however often it is
\* repeated and wherever a server crashed.
AppliedOnce == \A r \in Requests : commits[r] <= 1

\* An edit disappears from a file only when its own unfinished request is
\* undone, never because another patch or command wrote what it had read before.
OnlyOwnEditsUndone ==
  \A f \in Files : \A e \in content[f] \ content'[f] :
    \E c \in Callers : pc[c] = "restore" /\ req[c] = e
EditsKept == [][OnlyOwnEditsUndone]_vars

\* Every behaviour keeps the promise of EditPromise: who is past the durable intent
\* has the files, until the call returns.
Undoing == {"restore", "reject"}
RequestsAt(places) == {req[c] : c \in {d \in Callers : pc[d] \in places}}

Promised == INSTANCE EditPromise WITH
  Commands <- Jobs,
  files <- content,
  seen <- [r \in Requests |-> [f \in read[r] |-> basis[r][f]]],
  outcome <- receipt,
  changing <- RequestsAt(Critical \ Undoing),
  undoing <- RequestsAt(Undoing)
KeepsEdits == Promised!Spec

\* A patch changes a file only as its author saw it.
AppliedToSeen ==
  \A r \in Requests, f \in Files :
    r \in content'[f] \ content[f] => f \in Touches[r] /\ content[f] = basis[r][f]
OnlySeenVersions == [][AppliedToSeen]_vars

\* While a build holds the source gate the source stays as it is.
UnchangedUnderBuild ==
  (\E j \in Jobs : job[j] = "hold" /\ JobMode[j] = "build") => content' = content
BuildStable == [][UnchangedUnderBuild]_vars

\* A request without a receipt when its task is completed never has an effect.
LateRequestsRefused ==
  \A r \in Requests :
    [](TaskClosed(r) /\ receipt[r] = "none" => [](\A f \in Files : r \notin content[f]))

\* tools/registry.rs:215 promises a patch that is applied "transactionally": a
\* request that ended with an error has left nothing of itself behind.
Transactional ==
  \A r \in Requests : receipt[r] = "error" => \A f \in Files : r \notin content[f]

-----------------------------------------------------------------------------
(* The inductive invariant behind them *)

TypeOK ==
  /\ content \in [Files -> SUBSET Edits]
  /\ read \in [Requests -> SUBSET Files]
  /\ basis \in [Requests -> [Files -> SUBSET Edits]]
  /\ receipt \in [Requests -> {"none", "started", "ok", "error"}]
  /\ pc \in [Callers -> {"idle", "peek", "root"} \cup InRoot]
  /\ req \in [Callers -> Requests \cup {NoRequest}]
  /\ saw \in [Callers \cup Jobs -> [Files -> SUBSET Edits]]
  /\ todo \in [Callers -> SUBSET Files]
  /\ job \in [Jobs -> {"queued", "hold", "edit", "done"}]
  /\ task \in [Tasks -> {"open", "completed"}]
  /\ commits \in [Requests -> Nat]
  /\ crashes \in Nat

\* One caller under the root gate; commands exclude callers and each other.
GatesExclude ==
  /\ \A c, d \in Callers : pc[c] \in InRoot /\ pc[d] \in InRoot => c = d
  /\ \A c \in Callers, j \in Jobs : ~(pc[c] \in InLocal /\ job[j] \in {"hold", "edit"})
  /\ \A j, k \in Jobs : job[j] \in {"hold", "edit"} /\ job[k] \in {"hold", "edit"} =>
       j = k \/ (JobMode[j] = "build" /\ JobMode[k] = "build")
  /\ \A j \in Jobs : job[j] = "edit" => JobMode[j] = "write"

\* What a caller in the critical section knows of the files.
CallerKnows(c) ==
  LET r == req[c] IN
  /\ pc[c] # "idle" => r \in Requests /\ read[r] = Touches[r]
  /\ pc[c] \in {"write", "restore"} =>
       todo[c] \subseteq Touches[r] /\ \A f \in Touches[r] : saw[c][f] = basis[r][f]
  /\ pc[c] \in {"begin", "check", "stage"} => \A f \in Files : saw[c][f] = content[f]
  /\ pc[c] = "write" => \A f \in Touches[r] :
       content[f] = IF f \in todo[c] THEN saw[c][f] ELSE saw[c][f] \cup {r}
  /\ pc[c] = "restore" => \A f \in Touches[r] : content[f] \in {saw[c][f], saw[c][f] \cup {r}}
  /\ pc[c] \in {"after", "accept"} => \A f \in Touches[r] : r \in content[f]

CallersKnow == \A c \in Callers : CallerKnows(c)

JobsKnow ==
  \A j \in Jobs : job[j] = "edit" =>
    \A f \in Files : content[f] \in {saw[j][f], saw[j][f] \cup {j}}

\* Who may have changed a file for a request, and how often.
ReceiptsMatch ==
  /\ \A c \in Callers : pc[c] \in Critical =>
       /\ receipt[req[c]] = "started"
       /\ pc[c] \in {"check", "stage"} => commits[req[c]] = 0
  /\ \A r \in Requests : receipt[r] = "none" => commits[r] = 0

PatchInv ==
  /\ TypeOK
  /\ GatesExclude
  /\ CallersKnow
  /\ JobsKnow
  /\ ReceiptsMatch
  /\ ReceiptTruthful
  /\ AppliedOnce
=============================================================================
