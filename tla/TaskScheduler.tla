--------------------------- MODULE TaskScheduler ---------------------------
(***************************************************************************)
(* The queue of ChatGPT tasks: scripts/chatgpt-tasks/scheduler.py (the     *)
(* scheduler process and its desktop adapter), submit_queue.py (the agent  *)
(* that publishes and supersedes batches) and the owner's controls in      *)
(* src-tauri/src/commands/chatgpt_scheduler.rs.                            *)
(*                                                                         *)
(* A request is a pair <<batch, task>>: the scheduler draws one nonce for  *)
(* a row and keeps it, so the pair is the request id.  A row is the entry  *)
(* of a task in the state file; everything but the variables of the        *)
(* scheduler process survives its end.                                     *)
(***************************************************************************)
EXTENDS Integers, Sequences, FiniteSets, SequencesExt

CONSTANTS
  BatchSeq,         \* the batches, in the order of their file names
  TaskSeq,          \* [batch -> its tasks, in the order of its file]
  Deps,             \* [task -> the tasks it depends on]
  Old, New,         \* the batch an agent may supersede, and its replacement
  WebFallback,      \* the owner allows the web client after a blocked desktop
  ForegroundLimit,  \* FOREGROUND_RETRY_LIMIT
  MaxOwner,         \* bound: pauses, stops and live resumes of the owner
  MaxCrashes        \* bound: crashes of the scheduler or of the agent

Batches == Range(BatchSeq)
TasksOf(b) == Range(TaskSeq[b])
Tasks == UNION {TasksOf(b) : b \in Batches}
Requests == {q \in Batches \X Tasks : q[2] \in TasksOf(q[1])}
Clients == {"desktop", "web"}

\* validate_batch: no task twice, every dependency is a task of the batch, and
\* there is no cycle.
ValidBatch(b) ==
  /\ \A i, k \in DOMAIN TaskSeq[b] : TaskSeq[b][i] = TaskSeq[b][k] => i = k
  /\ \A t \in TasksOf(b) : Deps[t] \subseteq TasksOf(b)
  /\ \A S \in SUBSET TasksOf(b) \ {{}} : \E t \in S : Deps[t] \cap S = {}

ASSUME SchedulerAssumption ==
  /\ BatchSeq \in Seq(Batches) /\ TaskSeq \in [Batches -> Seq(Tasks)]
  /\ \A b \in Batches : ValidBatch(b)
  /\ Old \in Batches /\ New \in Batches /\ Old # New
  /\ WebFallback \in BOOLEAN
  /\ ForegroundLimit \in Nat \ {0} /\ MaxOwner \in Nat /\ MaxCrashes \in Nat

VARIABLES
  inbox, archived,    \* the published batches; those under superseded/
  batch, row,         \* states/<batch>.json: its status and its rows
  audit, tried,       \* attempts/: answers of stage; requests with a send file
  posted, receipt,    \* prompts the client sent; the result files of ChatGPT
  pause, stop, retry, \* the owner's marker files (retry: "no", or confirmations)
  marker, beat,       \* auto-enabled; the status in the heartbeat
  lock,               \* who holds owner.lock
  pc, todo, at, ans,  \* the scheduler: where it is, its scan, the last answer
  agent,              \* the superseding agent: "none" or "archived"
  asked, crashes      \* how much of the bounds is used

files == <<inbox, archived, batch, row, audit, tried>>
world == <<posted, receipt>>
owner == <<pause, stop, retry, marker, asked>>
proc  == <<pc, todo, at, ans>>
tsvars == <<files, world, owner, beat, lock, proc, agent, crashes>>

NoRow == [status |-> "none", client |-> "desktop", window |-> FALSE,
          failures |-> 0, expired |-> FALSE]
Row == [status : {"none", "preparing", "prepared", "unknown", "sent",
                  "waiting_client", "blocked", "completed"},
        client : Clients, window : BOOLEAN,
        failures : 0..ForegroundLimit, expired : BOOLEAN]
InFlight == {"preparing", "unknown", "sent"}

\* What a result file is worth: verify_receipt raises on a bad one.
Verdicts == {"bad", "completed", "failed"}

TSInit ==
  /\ inbox = {} /\ archived = {}
  /\ batch = [b \in Batches |-> "queued"]
  /\ row = [q \in Requests |-> NoRow]
  /\ audit = [q \in Requests |-> [c \in Clients |-> "none"]]
  /\ tried = {}
  /\ posted = [q \in Requests |-> 0]
  /\ receipt = [q \in Requests |-> "none"]
  /\ pause = FALSE /\ stop = FALSE /\ retry = "no"
  /\ marker = "none" /\ beat = "not_started" /\ lock = "none"
  /\ pc = "down" /\ todo = {} /\ at = 0 /\ ans = "none"
  /\ agent = "none" /\ asked = 0 /\ crashes = 0

-----------------------------------------------------------------------------
(* The scheduler: one tick.                                                *)

\* The batches of a scan are visited in the order of their names.
FirstOf(S) == BatchSeq[Min({i \in DOMAIN BatchSeq : BatchSeq[i] \in S})]
Current == FirstOf(todo)
Request == <<Current, TaskSeq[Current][at]>>
AtTask == pc = "scan" /\ todo # {} /\ at \in 1..Len(TaskSeq[Current])
DepsDone(q) == \A d \in Deps[q[2]] : row[<<q[1], d>>].status = "completed"

\* A tick returns `status`, and main writes it to the heartbeat.
Return(status) ==
  /\ pc' = IF status = "stopped" THEN "closing" ELSE "idle"
  /\ todo' = {} /\ at' = 0 /\ ans' = "none"
  /\ beat' = status

SetRow(q, status) == row' = [row EXCEPT ![q].status = status]
\* A row that is sent or settled: the fields nobody reads again are dropped.
Only(status, expired) == [NoRow EXCEPT !.status = status, !.expired = expired]
SetBatch(b, status) == batch' = [batch EXCEPT ![b] = status]

\* A tick begins: stop, pause, then the one-shot retry marker is consumed.
TickBegin ==
  /\ pc = "idle"
  /\ IF stop \/ pause
       THEN Return(IF stop THEN "stopped" ELSE "paused") /\ UNCHANGED retry
       ELSE /\ pc' = "scan" /\ at' = 0 /\ ans' = retry /\ retry' = "no"
            /\ todo' = inbox
            /\ UNCHANGED beat
  /\ UNCHANGED <<files, world, pause, stop, marker, asked, lock, agent, crashes>>

\* Mutant: the audits are read, send markers and receipts are not.
ProvenUnsentByAudit(q, confirmed) ==
  /\ row[q].status = "blocked"
  /\ \E c \in Clients : audit[q][c] # "none"
  /\ \A c \in Clients : audit[q][c] # "busy"

\* Every attempt on record proves that nothing was sent; `confirmed` stands
\* for an owner's confirmation of an unknown desktop answer and the adapter's
\* read-only look at the original window that agrees with it.
ProvenUnsent(q, confirmed) ==
  /\ row[q].status = "blocked"
  /\ q \notin tried /\ receipt[q] = "none"
  /\ \E c \in Clients : audit[q][c] # "none"
  /\ \A c \in Clients :
       \/ audit[q][c] \in {"none", "blocked", "foreground"}
       \/ audit[q][c] = "unknown" /\ c = "desktop" /\ confirmed

\* The next batch of the inbox: retry_unsent_preparation when the owner asked.
EnterBatch ==
  /\ pc = "scan" /\ todo # {} /\ at = 0
  /\ LET b == Current
         Mine == {q \in Requests : q[1] = b /\ batch[b] = "blocked"}
     IN \E seen \in BOOLEAN :
          LET back == {q \in Mine : ans # "no" /\
                          ProvenUnsent(q, ans = "confirmed" /\ seen)}
              now == IF back = {} THEN batch[b] ELSE "queued"
          IN /\ row' = [q \in Requests |->
                  IF q \notin back THEN row[q]
                  ELSE [NoRow EXCEPT !.status = "waiting_client",
                          !.window = row[q].window
                                     \/ audit[q]["desktop"] = "unknown"]]
             /\ SetBatch(b, now)
             /\ IF now \in {"completed", "blocked"}
                  THEN todo' = todo \ {Current} /\ at' = 0
                  ELSE at' = 1 /\ UNCHANGED todo
  /\ UNCHANGED <<inbox, archived, audit, tried, world, owner, beat, lock, pc, ans,
                 agent, crashes>>

\* Settled rows, and rows whose dependencies are not all completed.
SkipTask ==
  /\ AtTask
  /\ \/ row[Request].status \in {"completed", "blocked"}
     \/ row[Request].status \in {"none", "waiting_client"} /\ ~DepsDone(Request)
  /\ at' = at + 1
  /\ UNCHANGED <<files, world, owner, beat, lock, pc, todo, ans, agent, crashes>>

\* A request in flight: its receipt settles it, a receipt that cannot be
\* verified raises (and changes nothing), no receipt is waited for.
TakeReceipt ==
  /\ AtTask /\ row[Request].status \in InFlight
  /\ receipt[Request] \in {"completed", "failed"}
  /\ row' = [row EXCEPT ![Request] = Only(IF receipt[Request] = "failed"
                                          THEN "blocked" ELSE "completed", FALSE)]
  /\ SetBatch(Current, "running")
  /\ at' = at + 1
  /\ UNCHANGED <<inbox, archived, audit, tried, world, owner, beat, lock, pc, todo,
                 ans, agent, crashes>>

\* Mutant: no timeout.
AwaitReceiptForever ==
  /\ AtTask /\ row[Request].status \in InFlight
  /\ receipt[Request] \in {"none", "bad"}
  /\ Return(IF receipt[Request] = "bad" THEN "attention" ELSE "waiting_receipt")
  /\ UNCHANGED <<files, world, owner, lock, agent, crashes>>

AwaitReceipt ==
  /\ AtTask /\ row[Request].status \in InFlight
  /\ receipt[Request] \in {"none", "bad"}
  /\ LET late == receipt[Request] = "none" /\ row[Request].expired
     IN /\ IF late THEN SetBatch(Current, "attention") ELSE UNCHANGED batch
        /\ Return(IF late \/ receipt[Request] = "bad" THEN "attention"
                                                      ELSE "waiting_receipt")
  /\ UNCHANGED <<inbox, archived, row, audit, tried, world, owner, lock, agent,
                 crashes>>

\* A row that waits for its client: too long, or still backing off.
AwaitClient ==
  /\ AtTask /\ row[Request].status = "waiting_client" /\ DepsDone(Request)
  /\ row[Request].expired \/ row[Request].failures > 0
  /\ LET late == row[Request].expired
     IN /\ IF late THEN SetBatch(Current, "attention") ELSE UNCHANGED batch
        /\ Return(IF late THEN "attention" ELSE "waiting_client")
  /\ UNCHANGED <<inbox, archived, row, audit, tried, world, owner, lock, agent,
                 crashes>>

\* The row is durable before the client is touched.
Prepare ==
  /\ AtTask /\ row[Request].status \in {"none", "waiting_client"}
  /\ DepsDone(Request) /\ ~row[Request].expired
  /\ row' = [row EXCEPT ![Request].status = "preparing", ![Request].client = "desktop"]
  /\ SetBatch(Current, "running")
  /\ pc' = "stage"
  /\ UNCHANGED <<inbox, archived, audit, tried, world, owner, beat, lock, todo, at,
                 ans, agent, crashes>>

\* The adapter stages the prompt; its attempt file says unknown until the
\* answer is in.  Errors and timeouts answer unknown.
StageCall ==
  /\ pc = "stage"
  /\ \E a \in {"prepared", "blocked", "busy", "foreground", "unknown"} :
       /\ audit' = [audit EXCEPT ![Request][row[Request].client] = a]
       /\ ans' = a
  /\ pc' = "staged"
  /\ UNCHANGED <<inbox, archived, batch, row, tried, world, owner, beat, lock, todo,
                 at, agent, crashes>>

\* Only known-unsent preparation may fall back to the web.
FallBack == /\ ans = "blocked" /\ row[Request].client = "desktop"
            /\ WebFallback /\ ~row[Request].window

StageAnswered ==
  /\ pc = "staged"
  /\ LET n == row[Request].failures + 1
         out == ans = "foreground" /\ n >= ForegroundLimit
     IN \/ /\ FallBack
           /\ row' = [row EXCEPT ![Request].client = "web"]
           /\ pc' = "stage"
           /\ UNCHANGED <<batch, beat, todo, at, ans>>
        \/ /\ ans = "busy" \/ (ans = "foreground" /\ ~out)
           /\ row' = [row EXCEPT ![Request].status = "waiting_client",
                        ![Request].failures = IF ans = "busy" THEN @ ELSE n]
           /\ Return("waiting_client") /\ UNCHANGED batch
        \/ /\ (ans \in {"blocked", "unknown"} /\ ~FallBack) \/ out
           /\ row' = [row EXCEPT ![Request].status = "blocked",
                        ![Request].failures = IF out THEN n ELSE @]
           /\ SetBatch(Current, "blocked") /\ Return("blocked")
        \/ /\ ans = "prepared"
           /\ SetRow(Request, "prepared")
           /\ pc' = "prepared"
           /\ UNCHANGED <<batch, beat, todo, at, ans>>
  /\ UNCHANGED <<inbox, archived, audit, tried, world, owner, lock, agent, crashes>>

\* The owner may still pause between the filled draft and the send.
PausedBeforeSend ==
  /\ pc = "prepared" /\ (stop \/ pause)
  /\ Return("paused_before_send")
  /\ UNCHANGED <<files, world, owner, lock, agent, crashes>>

\* Mutant: the durable mark comes only with the answer.
MarkSendLater ==
  /\ \/ pc = "prepared" /\ ~stop /\ ~pause
     \/ AtTask /\ row[Request].status = "prepared"
  /\ pc' = "send"
  /\ UNCHANGED <<files, world, owner, beat, lock, todo, at, ans, agent, crashes>>

\* send_prepared, at once or in a later tick: unknown is durable before the
\* one send.
MarkSend ==
  /\ \/ pc = "prepared" /\ ~stop /\ ~pause
     \/ AtTask /\ row[Request].status = "prepared"
  /\ row' = [row EXCEPT ![Request] = Only("unknown", @.expired)]
  /\ pc' = "send"
  /\ UNCHANGED <<inbox, archived, batch, audit, tried, world, owner, beat, lock, todo,
                 at, ans, agent, crashes>>

\* The adapter sends, unless an attempt is on record.  The client may have
\* sent the prompt although the answer is lost.
SendCall ==
  /\ pc = "send"
  /\ tried' = tried \cup {Request}
  /\ \E a \in {"sent", "unknown"}, n \in {0, 1} :
       /\ IF Request \in tried THEN a = "unknown" /\ n = 0 ELSE a = "sent" => n = 1
       /\ ans' = a
       /\ posted' = [posted EXCEPT ![Request] = @ + n]
  /\ pc' = "answered"
  /\ UNCHANGED <<inbox, archived, batch, row, audit, receipt, owner, beat, lock, todo,
                 at, agent, crashes>>

SendAnswered ==
  /\ pc = "answered"
  /\ SetRow(Request, ans)
  /\ Return(ans)
  /\ UNCHANGED <<inbox, archived, batch, audit, tried, world, owner, lock, agent,
                 crashes>>

\* The tasks of the batch are done with: it completes, it blocks, or the
\* next batch is looked at.
LeaveBatch ==
  /\ pc = "scan" /\ todo # {} /\ at = Len(TaskSeq[Current]) + 1
  /\ LET Mine == {row[<<Current, t>>].status : t \in TasksOf(Current)}
     IN \/ /\ Mine = {"completed"}
           /\ SetBatch(Current, "completed") /\ Return("completed")
        \/ /\ Mine # {"completed"} /\ "blocked" \in Mine
           /\ SetBatch(Current, "blocked") /\ Return("blocked")
        \/ /\ Mine # {"completed"} /\ "blocked" \notin Mine
           /\ todo' = todo \ {Current} /\ at' = 0
           /\ UNCHANGED <<batch, pc, ans, beat>>
  /\ UNCHANGED <<inbox, archived, row, audit, tried, world, owner, lock, agent,
                 crashes>>

TickEnd ==
  /\ pc = "scan" /\ todo = {}
  /\ Return(IF \E b \in inbox : batch[b] = "blocked" THEN "blocked" ELSE "idle")
  /\ UNCHANGED <<files, world, owner, lock, agent, crashes>>

-----------------------------------------------------------------------------
(* The process: main, its owner lock and its end.                          *)

TakeOwnerLock ==
  /\ pc = "launched"
  /\ IF lock = "none"
       THEN lock' = "scheduler" /\ marker' = "pid" /\ pc' = "idle"
       ELSE pc' = "down" /\ UNCHANGED <<lock, marker>>
  /\ UNCHANGED <<files, world, pause, stop, retry, asked, beat, todo, at, ans, agent,
                 crashes>>

\* finally: the marker goes, the heartbeat says stopped, the lock is free.
Close ==
  /\ pc = "closing"
  /\ marker' = "none" /\ beat' = "stopped" /\ lock' = "none" /\ pc' = "down"
  /\ UNCHANGED <<files, world, pause, stop, retry, asked, todo, at, ans, agent,
                 crashes>>

SchedulerCrash ==
  /\ pc # "down" /\ crashes < MaxCrashes
  /\ crashes' = crashes + 1
  /\ pc' = "down" /\ todo' = {} /\ at' = 0 /\ ans' = "none"
  /\ lock' = IF lock = "scheduler" THEN "none" ELSE lock
  /\ UNCHANGED <<files, world, owner, beat, agent>>

-----------------------------------------------------------------------------
(* The owner's controls (windows_control).                                 *)

Ask == asked < MaxOwner /\ asked' = asked + 1

AskPauseOrStop ==
  /\ Ask
  /\ \/ pause' = TRUE /\ UNCHANGED stop
     \/ stop' = TRUE /\ UNCHANGED pause
  /\ UNCHANGED <<files, world, retry, marker, beat, lock, proc, agent, crashes>>

\* owner_retry_request: the owner confirms, or does not, that the original
\* window of an unknown desktop answer holds an unsent draft.
RetryRequests == {"plain", "confirmed"}

\* resume_requires_start: a living scheduler, or none at all.
HeartbeatLive == marker = "pid" /\ ~stop /\ beat \notin {"not_started", "stopped"}

\* Resume with a live scheduler: unpause, and retry what provably sent nothing.
ResumeLive ==
  /\ Ask
  /\ HeartbeatLive
  /\ pause' = FALSE /\ retry' \in RetryRequests
  /\ UNCHANGED <<files, world, stop, marker, beat, lock, proc, agent, crashes>>

\* Start, or resume of a stopped scheduler: the marker is created new, and
\* taken back (so nothing changes) when the connection or the process fails.
StartScheduler ==
  /\ marker = "none" /\ pc = "down"
  /\ marker' = "starting" /\ pc' = "launched"
  /\ pause' = FALSE /\ stop' = FALSE
  /\ \/ UNCHANGED retry
     \/ beat \in {"not_started", "stopped"} /\ retry' \in RetryRequests
  /\ UNCHANGED <<files, world, asked, beat, lock, todo, at, ans, agent, crashes>>

\* After a crash the marker stays; the owner looks at the logs and removes it.
RemoveStaleMarker ==
  /\ marker # "none" /\ pc = "down"
  /\ marker' = "none"
  /\ UNCHANGED <<files, world, asked, pause, stop, retry, beat, lock, proc, agent, crashes>>

-----------------------------------------------------------------------------
(* The agent: submit_queue.py.                                             *)

\* A fresh batch; the same contents again is answered duplicate.
PublishBatch ==
  /\ \E b \in Batches \ (inbox \cup archived \cup {New}) : inbox' = inbox \cup {b}
  /\ UNCHANGED <<archived, batch, row, audit, tried, world, owner, beat, lock, proc,
                 agent, crashes>>

\* No scheduler, and every request of the batch on record provably unsent.
QueueStopped == lock = "none" /\ beat = "stopped" /\ marker = "none"
Replaceable(b) ==
  \A t \in TasksOf(b) : LET q == <<b, t>> IN row[q].status # "none" =>
    /\ row[q].status \in {"waiting_client", "blocked"}
    /\ q \notin tried /\ receipt[q] = "none"
    /\ \E c \in Clients : audit[q][c] # "none"
    /\ \A c \in Clients : audit[q][c] \in {"none", "blocked", "busy", "foreground"}

\* supersede_unsent archives the input before the replacement is published.
SupersedeUnsent ==
  /\ agent = "none" /\ QueueStopped
  /\ Old \in inbox \cup archived /\ New \notin inbox
  /\ \E t \in TasksOf(Old) : row[<<Old, t>>].status # "none"
  /\ Replaceable(Old)
  /\ lock' = "agent" /\ agent' = "archived"
  /\ archived' = archived \cup {Old} /\ inbox' = inbox \ {Old}
  /\ UNCHANGED <<batch, row, audit, tried, world, owner, beat, proc, crashes>>

\* The replacement is published; or it is not, and the input goes back; or
\* the agent dies with neither exposed, to be run again.
SupersedeEnds ==
  /\ agent = "archived"
  /\ \/ inbox' = inbox \cup {New} /\ UNCHANGED crashes
     \/ inbox' = inbox \cup {Old} /\ UNCHANGED crashes
     \/ crashes < MaxCrashes /\ crashes' = crashes + 1 /\ UNCHANGED inbox
  /\ agent' = "none" /\ lock' = "none"
  /\ UNCHANGED <<archived, batch, row, audit, tried, world, owner, beat, proc>>

-----------------------------------------------------------------------------
(* ChatGPT and time.                                                       *)

\* The chat writes its result file, perhaps in pieces or for another nonce.
WriteReceipt ==
  /\ \E q \in Requests :
       /\ posted[q] > 0 /\ receipt[q] \in {"none", "bad"}
       /\ \E r \in Verdicts \ {receipt[q]} :
            receipt' = [receipt EXCEPT ![q] = r]
  /\ UNCHANGED <<files, posted, owner, beat, lock, proc, agent, crashes>>

\* timeoutSeconds have passed since startedAt.
Elapse ==
  /\ \E q \in Requests :
       /\ row[q].status \in InFlight \cup {"waiting_client"} /\ ~row[q].expired
       /\ row' = [row EXCEPT ![q].expired = TRUE]
  /\ UNCHANGED <<inbox, archived, batch, audit, tried, world, owner, beat, lock, proc,
                 agent, crashes>>

-----------------------------------------------------------------------------
Scan == EnterBatch \/ SkipTask \/ TakeReceipt \/ AwaitReceipt \/ AwaitClient
        \/ Prepare \/ LeaveBatch \/ TickEnd
Dispatch == StageCall \/ StageAnswered \/ PausedBeforeSend \/ MarkSend \/ SendCall
            \/ SendAnswered
SchedulerStep == TickBegin \/ Scan \/ Dispatch \/ TakeOwnerLock \/ Close
Environment == SchedulerCrash \/ AskPauseOrStop \/ ResumeLive \/ StartScheduler
               \/ RemoveStaleMarker \/ PublishBatch \/ SupersedeUnsent
               \/ SupersedeEnds \/ WriteReceipt \/ Elapse

TSNext == SchedulerStep \/ Environment

\* The process takes its steps (it sleeps two seconds between ticks), and
\* time passes.  Nothing is assumed of the owner, the agent or ChatGPT.
TSSpec == TSInit /\ [][TSNext]_tsvars
               /\ WF_tsvars(SchedulerStep) /\ WF_tsvars(Elapse)

-----------------------------------------------------------------------------
TSTypeOK ==
  /\ inbox \subseteq Batches /\ archived \subseteq {Old}
  /\ batch \in [Batches -> {"queued", "running", "attention", "blocked", "completed"}]
  /\ row \in [Requests -> Row]
  /\ audit \in [Requests -> [Clients ->
        {"none", "prepared", "blocked", "busy", "foreground", "unknown"}]]
  /\ tried \subseteq Requests /\ posted \in [Requests -> 0..1]
  /\ receipt \in [Requests -> {"none", "bad", "completed", "failed"}]
  /\ lock \in {"none", "scheduler", "agent"} /\ agent \in {"none", "archived"}
  /\ pause \in BOOLEAN /\ stop \in BOOLEAN /\ retry \in {"no", "plain", "confirmed"}
  /\ todo \subseteq Batches /\ at \in Nat

\* A prompt that may have been sent is never prepared, kept for sending or
\* given back to the client again, whatever crashes, retries and lost answers
\* come in between (send_prepared, retry_unsent_preparation).
SentStaysSent ==
  \A q \in Requests : q \in tried \/ posted[q] > 0 =>
    row[q].status \in {"unknown", "sent", "completed", "blocked"}
SentOnce == \A q \in Requests : posted[q] <= 1

\* The batch lists every task after its dependencies.
InOrder(b) ==
  \A i \in DOMAIN TaskSeq[b] : \A d \in Deps[TaskSeq[b][i]] :
    \E k \in DOMAIN TaskSeq[b] : k < i /\ TaskSeq[b][k] = d

\* Within a batch that lists dependencies first one request at a time is open.
\* In another batch two may be: a dependency is found completed, a later task is
\* sent in the same scan, and the next scan sends the task that waited for it.
\* A task is started only when each of its dependencies has a verified receipt.
Open(q) == row[q].status \in InFlight \cup {"prepared"}
OneOpenPerBatch ==
  \A q, r \in Requests :
    q[1] = r[1] /\ InOrder(q[1]) /\ Open(q) /\ Open(r) => q = r
DependenciesVerified ==
  \A q \in Requests : row[q].status # "none" =>
    \A d \in Deps[q[2]] : receipt[<<q[1], d>>] = "completed"

\* A superseded batch that is out of the inbox never reaches ChatGPT, and the
\* agent and the scheduler never hold the queue together.
SupersededUnsent ==
  /\ Old \in archived \ inbox => \A t \in TasksOf(Old) : posted[<<Old, t>>] = 0
                                             /\ ~Open(<<Old, t>>)
  /\ agent = "archived" => pc \in {"down", "launched"}

QueueInv == TSTypeOK /\ SentStaysSent /\ SentOnce /\ OneOpenPerBatch
            /\ DependenciesVerified /\ SupersededUnsent

\* A task that ended stays ended, except that the owner's resume takes back a
\* blocked one that was never sent.
SettledStays == [][\A q \in Requests :
     row[q].status \in {"completed", "blocked"} /\ row'[q].status # row[q].status
       => row[q].status = "blocked" /\ posted[q] = 0 /\ ans # "no"]_tsvars

\* Every behaviour keeps the promise of QueuePromise to each request.
OrderOf(status) ==
  CASE status \in {"none", "waiting_client"} -> "waiting"
    [] status \in {"preparing", "prepared"} -> "drafted"
    [] status \in {"unknown", "sent"} -> "given"
    [] status = "completed" -> "done"
    [] OTHER -> "stuck"

Orders == INSTANCE QueuePromise WITH
  Needs <- [q \in Requests |-> {<<q[1], d>> : d \in Deps[q[2]]}],
  order <- [q \in Requests |-> OrderOf(row[q].status)],
  answer <- receipt,
  withdrawn <- {q \in Requests : q[1] \in archived \ inbox}

\* The refinement, and that what ended is resumed by the owner only, for a cfg.
KeepsOrders == Orders!Spec /\ SettledStays

\* The scan blocks a batch only when no task of it could go on: "only
\* dependent tasks wait; independent ready tasks may proceed".
BlocksOnlyWhenNothingReady == [][\A b \in Batches :
     pc = "scan" /\ batch[b] # "blocked" /\ batch'[b] = "blocked"
       => \A t \in TasksOf(b) : row[<<b, t>>].status \in {"none", "waiting_client"}
                              => ~DepsDone(<<b, t>>)]_tsvars

\* The queue does not wait silently for ever: in the end its process is gone,
\* or the heartbeat shows a state that asks for the owner or has nothing to do.
NeverWaitsSilently ==
  <>[](pc = "down" \/ beat \in {"idle", "blocked", "attention", "paused", "stopped",
                                 "completed", "not_started"})
=============================================================================
