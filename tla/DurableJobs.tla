---------------------------- MODULE DurableJobs ----------------------------
(***************************************************************************)
(* The durable command jobs of one workspace: personal-runtime's jobs.rs   *)
(* (admission, status, cancellation), worker.rs (the detached supervisor   *)
(* of one command) and locks.rs (advisory locks shared by processes).      *)
(*                                                                         *)
(* A job is named by its receipt key (scope, request_id), which the jobs   *)
(* table makes unique, so there is at most one row and one worker per key. *)
(* Requests that are refused without any effect (invalid arguments, the    *)
(* same key with another command, an unknown task, changed limits) leave   *)
(* every variable alone and need no action.                                *)
(***************************************************************************)
EXTENDS Naturals, FiniteSets

CONSTANTS
  Jobs,          \* receipt keys
  Clients,       \* threads of the server that call the store
  NoJob,         \* no job: outside Jobs
  Tasks,         \* tasks a job may belong to
  TaskOf,        \* [Jobs -> Tasks \cup {NoTask}]
  NoTask,        \* the job belongs to the workspace, not to a task
  Mode,          \* [Jobs -> {"read", "build", "write"}]
  Uses,          \* [Jobs -> SUBSET (1..NumResources)]: the resources a command declares
  NumResources,  \* named resources are 1..NumResources, in their sorted order
  Unix,          \* FALSE on Windows
  WslJobs,       \* jobs whose command runs through WSL, on Windows only
  QueueLimit,    \* limits.queued_and_running
  RunningLimit,  \* limits.running: the "commands" slots
  HeavyLimit,    \* limits.heavy: the "heavy" slots
  MayCancel,     \* bound: the jobs some client may cancel
  MaxCrashes     \* bound: server crashes and reboots of one behaviour

ASSUME ConstantsAssumption ==
  /\ NoJob \notin Jobs
  /\ NoTask \notin Tasks
  /\ TaskOf \in [Jobs -> Tasks \cup {NoTask}]
  /\ Mode \in [Jobs -> {"read", "build", "write"}]
  /\ NumResources \in Nat
  /\ Uses \in [Jobs -> SUBSET (1..NumResources)]
  /\ Unix \in BOOLEAN
  /\ WslJobs \subseteq Jobs
  /\ Unix => WslJobs = {}
  /\ MayCancel \subseteq Jobs
  /\ QueueLimit \in Nat \ {0}
  /\ RunningLimit \in Nat \ {0}
  /\ HeavyLimit \in Nat \ {0}
  /\ MaxCrashes \in Nat

ASSUME FiniteAssumption == IsFiniteSet(Jobs) /\ IsFiniteSet(Clients)

VARIABLES
  state,    \* the state column of each job's row, "absent" before the insert
  cancel,   \* the cancel column
  old,      \* a queued row's last write is more than the startup grace ago
  worker,   \* where the worker process of each job is
  hold,     \* the gates each job's processes hold
  child,    \* the command's process group
  starts,   \* how often the command was started
  verdict,  \* the outcome the worker is about to publish
  late,     \* the worker's current deadline (queue or command) has passed
  task,     \* the state column of each task, "open" or "completed"
  cpc,      \* what each client is doing
  creq,     \* the job a client is launching
  todo,     \* the jobs a client has still to report on
  probe,    \* the job whose lost worker a client is looking for
  gated,    \* the client holds that job's alive gate
  same,     \* the row still has the timestamp the client read
  crashes   \* server crashes and reboots so far

rowVars == <<state, old, same>>
workerVars == <<worker, hold, child, starts, verdict, late>>
clientVars == <<cpc, creq, todo, probe, gated>>
vars == <<state, cancel, old, worker, hold, child, starts, verdict, late,
          task, cpc, creq, todo, probe, gated, same, crashes>>

-----------------------------------------------------------------------------
(* Rows of the jobs table *)

Active == {"queued", "running"}
Finished == {"exited", "cancelled", "timeout", "queue_timeout", "spawn_failed"}
Terminal == Finished \cup {"unknown"}

ActiveJobs == {j \in Jobs : state[j] \in Active}

\* A write of j's row that sets its timestamp. Another observer's compare-and-
\* swap on the old timestamp then fails: two writes of one row are further
\* apart than the millisecond the column resolves, unless the clock is set back.
WriteRow(j, s) ==
  /\ state' = [state EXCEPT ![j] = s]
  /\ old' = [old EXCEPT ![j] = FALSE]
  /\ same' = [c \in Clients |-> same[c] /\ probe[c] # j]

\* Mutant: a result is recorded over whatever the row says.
FinishJobAnyway(j, s) == WriteRow(j, s)

\* A result is recorded only over an active row.
FinishJob(j, s) ==
  IF state[j] \in Active THEN WriteRow(j, s) ELSE UNCHANGED rowVars

-----------------------------------------------------------------------------
(* Gates: the source lock, the resources in their sorted order, the slots *)

Source == 0
Heavy == NumResources + 1
Commands == NumResources + 2
Gates == Source..Commands

Needs(j) ==
  (IF Mode[j] = "read" THEN {} ELSE {Source}) \cup Uses[j]
    \cup (IF Mode[j] = "build" THEN {Heavy} ELSE {}) \cup {Commands}

Holders(g) == {j \in Jobs : g \in hold[j]}

\* Mutants: a slot pool admits one too many; a resource is not exclusive.
CanTakeOneMore(j, g) ==
  CASE g = Source -> \A k \in Holders(g) : Mode[j] = "build" /\ Mode[k] = "build"
    [] g = Heavy -> Cardinality(Holders(g)) <= HeavyLimit
    [] g = Commands -> Cardinality(Holders(g)) <= RunningLimit
    [] OTHER -> Holders(g) = {}

CanTakeShared(j, g) ==
  CASE g = Heavy -> Cardinality(Holders(g)) < HeavyLimit
    [] g = Commands -> Cardinality(Holders(g)) < RunningLimit
    [] OTHER -> \A k \in Holders(g) : Mode[j] # "write" /\ Mode[k] # "write"

\* What a non-blocking attempt to take gate g for job j finds: the source gate
\* is shared between builds, a resource is exclusive, a slot pool is counted.
CanTake(j, g) ==
  CASE g = Source -> \A k \in Holders(g) : Mode[j] = "build" /\ Mode[k] = "build"
    [] g = Heavy -> Cardinality(Holders(g)) < HeavyLimit
    [] g = Commands -> Cardinality(Holders(g)) < RunningLimit
    [] OTHER -> Holders(g) = {}

\* A worker holds its alive gate from its start until its process ends.
Supervised(j) ==
  worker[j] \in {"loop", "try", "ready", "claimed", "monitor", "stop", "stopped", "publish"}

\* Mutant: the gate is taken although a worker holds it.
AliveFreeAnyway(j) == \A c \in Clients : ~(gated[c] /\ probe[c] = j)

AliveFree(j) ==
  /\ ~Supervised(j)
  /\ \A c \in Clients : ~(gated[c] /\ probe[c] = j)

\* The command or a descendant in its process group may still be executing.
Executing(j) == child[j] \in {"live", "exited"}

-----------------------------------------------------------------------------
(* Launching a job *)

\* launch_job: the call; its arguments are valid.
LaunchJob(c, j) ==
  /\ cpc[c] = "idle"
  /\ cpc' = [cpc EXCEPT ![c] = "admit"]
  /\ creq' = [creq EXCEPT ![c] = j]
  /\ UNCHANGED <<state, cancel, old, same, workerVars, task, todo, probe, gated, crashes>>

TaskClosed(j) == TaskOf[j] \in Tasks /\ task[TaskOf[j]] = "completed"

\* The receipt exists: return the original job's status, never a second run.
AdmitKnown(c) ==
  /\ cpc[c] \in {"admit", "readmit"}
  /\ state[creq[c]] # "absent"
  /\ cpc' = [cpc EXCEPT ![c] = "report"]
  /\ todo' = [todo EXCEPT ![c] = {creq[c]}]
  /\ creq' = [creq EXCEPT ![c] = NoJob]
  /\ UNCHANGED <<state, cancel, old, same, workerVars, task, probe, gated, crashes>>

\* New work for a completed task, or a queue that is full even after the sweep.
AdmitRefused(c) ==
  /\ cpc[c] \in {"admit", "readmit"} /\ state[creq[c]] = "absent"
  /\ \/ TaskClosed(creq[c])
     \/ cpc[c] = "readmit" /\ Cardinality(ActiveJobs) >= QueueLimit
  /\ cpc' = [cpc EXCEPT ![c] = "idle"]
  /\ creq' = [creq EXCEPT ![c] = NoJob]
  /\ UNCHANGED <<state, cancel, old, same, workerVars, task, todo, probe, gated, crashes>>

\* The queue is full the first time: reconcile the active jobs, then retry once.
AdmitSweep(c) ==
  /\ cpc[c] = "admit"
  /\ state[creq[c]] = "absent" /\ ~TaskClosed(creq[c])
  /\ Cardinality(ActiveJobs) >= QueueLimit
  /\ cpc' = [cpc EXCEPT ![c] = "sweep"]
  /\ todo' = [todo EXCEPT ![c] = ActiveJobs]
  /\ UNCHANGED <<state, cancel, old, same, workerVars, task, creq, probe, gated, crashes>>

\* Mutant: the receipt is not looked up in the inserting transaction.
AdmitInsertAgain(c) ==
  /\ cpc[c] \in {"admit", "readmit"} /\ ~TaskClosed(creq[c])
  /\ Cardinality(ActiveJobs) < QueueLimit
  /\ WriteRow(creq[c], "queued")
  /\ cpc' = [cpc EXCEPT ![c] = "spawn"]
  /\ UNCHANGED <<cancel, workerVars, task, creq, todo, probe, gated, crashes>>

\* The row is inserted in the transaction that checked the task and the queue.
AdmitInsert(c) ==
  /\ cpc[c] \in {"admit", "readmit"}
  /\ state[creq[c]] = "absent" /\ ~TaskClosed(creq[c])
  /\ Cardinality(ActiveJobs) < QueueLimit
  /\ WriteRow(creq[c], "queued")
  /\ cpc' = [cpc EXCEPT ![c] = "spawn"]
  /\ UNCHANGED <<cancel, workerVars, task, creq, todo, probe, gated, crashes>>

\* After the commit: start the detached worker, or record that it did not start.
SpawnWorker(c) ==
  LET j == creq[c] IN
  /\ cpc[c] = "spawn"
  /\ \/ worker' = [worker EXCEPT ![j] = "boot"] /\ UNCHANGED rowVars
     \/ FinishJob(j, "spawn_failed") /\ UNCHANGED worker
  /\ cpc' = [cpc EXCEPT ![c] = "report"]
  /\ todo' = [todo EXCEPT ![c] = {j}]
  /\ creq' = [creq EXCEPT ![c] = NoJob]
  /\ UNCHANGED <<cancel, hold, child, starts, verdict, late, task, probe, gated, crashes>>

-----------------------------------------------------------------------------
(* Observing and cancelling jobs *)

\* job_status, or one poll of wait_job; job_list, job_output and
\* uncertain_writes do the same for one row after the other.
JobStatus(c, j) ==
  /\ cpc[c] = "idle" /\ state[j] # "absent"
  /\ cpc' = [cpc EXCEPT ![c] = "report"]
  /\ todo' = [todo EXCEPT ![c] = {j}]
  /\ UNCHANGED <<state, cancel, old, same, workerVars, task, creq, probe, gated, crashes>>

\* cancel_job: only an active row takes the mark; then its status is reported.
CancelJob(c, j) ==
  /\ cpc[c] = "idle" /\ state[j] # "absent" /\ j \in MayCancel
  /\ cancel' = [cancel EXCEPT ![j] = @ \/ state[j] \in Active]
  /\ cpc' = [cpc EXCEPT ![c] = "report"]
  /\ todo' = [todo EXCEPT ![c] = {j}]
  /\ UNCHANGED <<state, old, same, workerVars, task, creq, probe, gated, crashes>>

\* Mutant: a queued row is never suspected.
ReadRowRunning(c, j) ==
  /\ cpc[c] \in {"report", "sweep"}
  /\ probe[c] = NoJob /\ j \in todo[c]
  /\ todo' = [todo EXCEPT ![c] = @ \ {j}]
  /\ IF state[j] = "running"
     THEN probe' = [probe EXCEPT ![c] = j] /\ same' = [same EXCEPT ![c] = TRUE]
     ELSE UNCHANGED <<probe, same>>
  /\ UNCHANGED <<state, cancel, old, workerVars, task, cpc, creq, gated, crashes>>

\* Read one row. A running row, or a queued one past the startup grace, is
\* suspected of having lost its worker.
ReadRow(c, j) ==
  /\ cpc[c] \in {"report", "sweep"}
  /\ probe[c] = NoJob /\ j \in todo[c]
  /\ todo' = [todo EXCEPT ![c] = @ \ {j}]
  /\ IF state[j] = "running" \/ (state[j] = "queued" /\ old[j])
     THEN /\ probe' = [probe EXCEPT ![c] = j]
          /\ same' = [same EXCEPT ![c] = TRUE]
     ELSE UNCHANGED <<probe, same>>
  /\ UNCHANGED <<state, cancel, old, workerVars, task, cpc, creq, gated, crashes>>

\* Try the alive gate of the suspect; a living worker holds it.
TryAlive(c) ==
  /\ probe[c] # NoJob /\ ~gated[c]
  /\ IF AliveFree(probe[c])
     THEN gated' = [gated EXCEPT ![c] = TRUE] /\ UNCHANGED <<probe, same>>
     ELSE /\ probe' = [probe EXCEPT ![c] = NoJob]
          /\ same' = [same EXCEPT ![c] = FALSE]
          /\ UNCHANGED gated
  /\ UNCHANGED <<state, cancel, old, workerVars, task, cpc, creq, todo, crashes>>

\* Under the gate: declare the worker lost if the row is the one that was read.
DeclareLost(c) ==
  /\ gated[c]
  /\ IF same[c] THEN FinishJob(probe[c], "unknown") ELSE UNCHANGED rowVars
  /\ probe' = [probe EXCEPT ![c] = NoJob]
  /\ gated' = [gated EXCEPT ![c] = FALSE]
  /\ UNCHANGED <<cancel, workerVars, task, cpc, creq, todo, crashes>>

\* All rows are read: a report is returned, a sweep goes on to the second try.
Reported(c) ==
  /\ cpc[c] \in {"report", "sweep"}
  /\ todo[c] = {} /\ probe[c] = NoJob
  /\ cpc' = [cpc EXCEPT ![c] = IF @ = "sweep" THEN "readmit" ELSE "idle"]
  /\ UNCHANGED <<state, cancel, old, same, workerVars, task, creq, todo, probe, gated, crashes>>

\* Mutant: an uncertain job does not keep its task open.
CompleteTaskUncertain(c, t) ==
  /\ cpc[c] = "idle" /\ task[t] = "open"
  /\ \A j \in Jobs : TaskOf[j] = t => state[j] \notin Active
  /\ task' = [task EXCEPT ![t] = "completed"]
  /\ UNCHANGED <<state, cancel, old, same, workerVars, clientVars, crashes>>

\* The job-related part of task_checkpoint with state=completed: one transaction.
CompleteTask(c, t) ==
  /\ cpc[c] = "idle" /\ task[t] = "open"
  /\ \A j \in Jobs : TaskOf[j] = t => state[j] \notin Active \cup {"unknown"}
  /\ task' = [task EXCEPT ![t] = "completed"]
  /\ UNCHANGED <<state, cancel, old, same, workerVars, clientVars, crashes>>

-----------------------------------------------------------------------------
(* The worker of a job *)

Uninvolved == <<cancel, task, clientVars, crashes>>

\* The process ends, and with it what only its memory held.
WorkerEnds(j, how) ==
  /\ worker' = [worker EXCEPT ![j] = how]
  /\ verdict' = [verdict EXCEPT ![j] = "none"]
  /\ late' = [late EXCEPT ![j] = FALSE]

\* The worker takes its alive gate and goes on only with a queued row.
WorkerStart(j) ==
  /\ worker[j] = "boot"
  /\ worker' = [worker EXCEPT ![j] =
                  IF AliveFree(j) /\ state[j] = "queued" THEN "loop" ELSE "done"]
  /\ UNCHANGED <<state, old, same, hold, child, starts, verdict, late, Uninvolved>>

\* Top of the queue loop: a cancellation is honoured first, then the deadline.
LeaveQueue(j) ==
  /\ worker[j] = "loop" /\ (cancel[j] \/ late[j])
  /\ FinishJob(j, IF cancel[j] THEN "cancelled" ELSE "queue_timeout")
  /\ WorkerEnds(j, "done")
  /\ UNCHANGED <<hold, child, starts, Uninvolved>>

BeginTry(j) ==
  /\ worker[j] = "loop" /\ ~cancel[j] /\ ~late[j]
  /\ worker' = [worker EXCEPT ![j] = "try"]
  /\ UNCHANGED <<state, old, same, hold, child, starts, verdict, late, Uninvolved>>

NextGate(j, g) == g \in Needs(j) \ hold[j] /\ \A h \in Needs(j) \ hold[j] : g <= h

\* acquire: one gate after the other, none of them waited for.
TakeGate(j, g) ==
  /\ worker[j] = "try" /\ NextGate(j, g) /\ CanTake(j, g)
  /\ hold' = [hold EXCEPT ![j] = @ \cup {g}]
  /\ worker' = [worker EXCEPT ![j] = IF hold'[j] = Needs(j) THEN "ready" ELSE @]
  /\ UNCHANGED <<state, old, same, child, starts, verdict, late, Uninvolved>>

\* Mutant: the gates taken so far are kept while the worker waits.
GateBusyKeeps(j, g) ==
  /\ worker[j] = "try" /\ NextGate(j, g) /\ ~CanTake(j, g)
  /\ worker' = [worker EXCEPT ![j] = "loop"]
  /\ UNCHANGED <<state, old, same, hold, child, starts, verdict, late, Uninvolved>>

\* A busy gate drops every partial reservation; the wait is written to the row
\* the first time and then once a second.
GateBusy(j, g) ==
  /\ worker[j] = "try" /\ NextGate(j, g) /\ ~CanTake(j, g)
  /\ hold' = [hold EXCEPT ![j] = {}]
  /\ worker' = [worker EXCEPT ![j] = "loop"]
  /\ IF state[j] = "queued" THEN WriteRow(j, "queued") \/ UNCHANGED rowVars
                            ELSE UNCHANGED rowVars
  /\ UNCHANGED <<child, starts, verdict, late, Uninvolved>>

\* The compare-and-swap from queued to running; without it nothing is executed.
ClaimJob(j) ==
  /\ worker[j] = "ready"
  /\ IF state[j] = "queued"
     THEN /\ WriteRow(j, "running")
          /\ worker' = [worker EXCEPT ![j] = "claimed"]
          /\ late' = [late EXCEPT ![j] = FALSE]
          /\ UNCHANGED <<hold, verdict>>
     ELSE /\ WorkerEnds(j, "done")
          /\ hold' = [hold EXCEPT ![j] = {}]
          /\ UNCHANGED rowVars
  /\ UNCHANGED <<child, starts, Uninvolved>>

StartCommand(j) ==
  /\ worker[j] = "claimed"
  /\ child' = [child EXCEPT ![j] = "live"]
  /\ starts' = [starts EXCEPT ![j] = @ + 1]
  /\ worker' = [worker EXCEPT ![j] = "monitor"]
  /\ UNCHANGED <<state, old, same, hold, verdict, late, Uninvolved>>

\* The command could not be started: free the gates, then publish that.
CommandNotStarted(j) ==
  /\ worker[j] = "claimed"
  /\ verdict' = [verdict EXCEPT ![j] = "spawn_failed"]
  /\ hold' = [hold EXCEPT ![j] = {}]
  /\ worker' = [worker EXCEPT ![j] = "publish"]
  /\ UNCHANGED <<state, old, same, child, starts, late, Uninvolved>>

\* monitor: the exit is looked at first, then the cancellation, then the time.
Observed(j) ==
  IF child[j] = "exited" THEN "exited"
  ELSE IF cancel[j] THEN "cancelled"
  ELSE IF late[j] THEN "timeout" ELSE "none"

\* Mutant: one look at the command is taken for its end.
ConcludeEarly(j) ==
  /\ worker[j] = "monitor"
  /\ verdict' = [verdict EXCEPT ![j] = Observed(j)]
  /\ worker' = [worker EXCEPT ![j] = "stop"]
  /\ UNCHANGED <<state, old, same, hold, child, starts, late, Uninvolved>>

Conclude(j) ==
  /\ worker[j] = "monitor" /\ Observed(j) # "none"
  /\ verdict' = [verdict EXCEPT ![j] = Observed(j)]
  /\ worker' = [worker EXCEPT ![j] = "stop"]
  /\ UNCHANGED <<state, old, same, hold, child, starts, late, Uninvolved>>

\* An error of the supervision itself (state database, log files), also one of
\* writing the result: what is written then is unknown.
SupervisionFails(j) ==
  /\ \/ worker[j] = "monitor" /\ worker' = [worker EXCEPT ![j] = "stop"]
     \/ worker[j] = "publish" /\ UNCHANGED worker
  /\ verdict' = [verdict EXCEPT ![j] = "unknown"]
  /\ UNCHANGED <<state, old, same, hold, child, starts, late, Uninvolved>>

Heartbeat(j) ==
  /\ worker[j] = "monitor" /\ state[j] = "running"
  /\ WriteRow(j, "running")
  /\ UNCHANGED <<workerVars, Uninvolved>>

\* Mutant: only the command itself is waited for, its group is not killed.
StopGroupNot(j) ==
  /\ worker[j] = "stop"
  /\ worker' = [worker EXCEPT ![j] = "stopped"]
  /\ UNCHANGED <<state, old, same, hold, child, starts, verdict, late, Uninvolved>>

\* Whether stopping a command reaches all its processes or reports that it did
\* not: unix kills the process group, WSL looks for the processes of the launch,
\* Windows itself kills the command's first process only.
Contained(j) == Unix \/ j \in WslJobs

\* Stop the processes, wait for them and make the output durable. A failure of
\* the WSL cleanup or of writing the output makes the job unknown.
StopGroup(j) ==
  /\ worker[j] = "stop"
  /\ \/ child' = [child EXCEPT ![j] = "gone"] /\ UNCHANGED verdict
     \/ child' = [child EXCEPT ![j] = "gone"] /\ verdict' = [verdict EXCEPT ![j] = "unknown"]
     \/ /\ ~Unix
        /\ child' = [child EXCEPT ![j] = "stray"]
        /\ verdict' = [verdict EXCEPT ![j] = IF Contained(j) THEN "unknown" ELSE @]
  /\ worker' = [worker EXCEPT ![j] = "stopped"]
  /\ UNCHANGED <<state, old, same, hold, starts, late, Uninvolved>>

\* Mutant: the gates are not dropped before the result is published.
ReleaseGatesNot(j) ==
  /\ worker[j] = "stopped"
  /\ worker' = [worker EXCEPT ![j] = "publish"]
  /\ UNCHANGED <<state, old, same, hold, child, starts, verdict, late, Uninvolved>>

ReleaseGates(j) ==
  /\ worker[j] = "stopped"
  /\ hold' = [hold EXCEPT ![j] = {}]
  /\ worker' = [worker EXCEPT ![j] = "publish"]
  /\ UNCHANGED <<state, old, same, child, starts, verdict, late, Uninvolved>>

PublishResult(j) ==
  /\ worker[j] = "publish"
  /\ FinishJob(j, verdict[j])
  /\ WorkerEnds(j, "done")
  /\ UNCHANGED <<hold, child, starts, Uninvolved>>

-----------------------------------------------------------------------------
(* Time, the command itself, crashes *)

\* The startup grace of a queued row passes (5 s since its last write).
GraceOver(j) ==
  /\ state[j] = "queued" /\ ~old[j]
  /\ old' = [old EXCEPT ![j] = TRUE]
  /\ UNCHANGED <<state, same, cancel, workerVars, task, clientVars, crashes>>

\* The 30 minutes in the queue, or the command's own time limit, have passed.
DeadlinePasses(j) ==
  /\ worker[j] \in {"loop", "try", "monitor"} /\ ~late[j]
  /\ late' = [late EXCEPT ![j] = TRUE]
  /\ UNCHANGED <<state, old, same, worker, hold, child, starts, verdict, Uninvolved>>

\* The command ends by itself. Descendants may outlive it until they are
\* killed with the group, or, without a worker, until they end too.
CommandExits(j) ==
  /\ child[j] = "live"
  /\ child' = [child EXCEPT ![j] = "exited"]
  /\ UNCHANGED <<state, old, same, worker, hold, starts, verdict, late, Uninvolved>>

\* The last process of an orphaned group ends and its inherited locks with it.
OrphanEnds(j) ==
  /\ worker[j] = "dead" /\ child[j] \in {"exited", "stray"}
  /\ child' = [child EXCEPT ![j] = "gone"]
  /\ hold' = [hold EXCEPT ![j] = {}]
  /\ UNCHANGED <<state, old, same, worker, starts, verdict, late, Uninvolved>>

\* Descendants that were not reached end at some time of their own.
StrayEnds(j) ==
  /\ worker[j] # "dead" /\ child[j] = "stray"
  /\ child' = [child EXCEPT ![j] = "gone"]
  /\ UNCHANGED <<state, old, same, worker, hold, starts, verdict, late, Uninvolved>>

\* Mutant: the command does not keep its worker's gates.
WorkerCrashFrees(j) ==
  /\ worker[j] = "boot" \/ Supervised(j)
  /\ WorkerEnds(j, "dead")
  /\ hold' = [hold EXCEPT ![j] = {}]
  /\ UNCHANGED <<state, old, same, child, starts, Uninvolved>>

\* The worker process is killed or gives up on an error before the command ran.
\* The command inherits the gates on unix; every other lock ends with the worker.
WorkerCrash(j) ==
  /\ worker[j] = "boot" \/ Supervised(j)
  /\ WorkerEnds(j, "dead")
  /\ hold' = [hold EXCEPT ![j] = IF Executing(j) /\ Unix THEN @ ELSE {}]
  /\ UNCHANGED <<state, old, same, child, starts, Uninvolved>>

ClientsIdle(S) ==
  /\ cpc' = [c \in Clients |-> IF c \in S THEN "idle" ELSE cpc[c]]
  /\ creq' = [c \in Clients |-> IF c \in S THEN NoJob ELSE creq[c]]
  /\ todo' = [c \in Clients |-> IF c \in S THEN {} ELSE todo[c]]
  /\ probe' = [c \in Clients |-> IF c \in S THEN NoJob ELSE probe[c]]
  /\ gated' = [c \in Clients |-> gated[c] /\ c \notin S]
  /\ same' = [c \in Clients |-> same[c] /\ c \notin S]

\* A server process ends: its calls are forgotten, its workers go on. Several
\* servers (desktop, stdio) may share the state directory. A call that an error
\* of the database ends between two of its steps has the same effect.
ServerCrash(S) ==
  /\ crashes < MaxCrashes
  /\ \E c \in S : cpc[c] # "idle"
  /\ ClientsIdle(S)
  /\ crashes' = crashes + 1
  /\ UNCHANGED <<state, cancel, old, workerVars, task>>

\* The machine restarts: every process ends, the database stays.
Reboot ==
  /\ crashes < MaxCrashes
  /\ \E j \in Jobs : worker[j] = "boot" \/ Supervised(j) \/ Executing(j)
  /\ ClientsIdle(Clients)
  /\ worker' = [j \in Jobs |-> IF worker[j] = "boot" \/ Supervised(j) THEN "dead" ELSE worker[j]]
  /\ verdict' = [j \in Jobs |-> "none"]
  /\ late' = [j \in Jobs |-> FALSE]
  /\ hold' = [j \in Jobs |-> {}]
  /\ child' = [j \in Jobs |-> IF child[j] = "none" THEN "none" ELSE "gone"]
  /\ crashes' = crashes + 1
  /\ UNCHANGED <<state, cancel, old, starts, task>>

-----------------------------------------------------------------------------

Init ==
  /\ state = [j \in Jobs |-> "absent"]
  /\ cancel = [j \in Jobs |-> FALSE]
  /\ old = [j \in Jobs |-> FALSE]
  /\ worker = [j \in Jobs |-> "none"]
  /\ hold = [j \in Jobs |-> {}]
  /\ child = [j \in Jobs |-> "none"]
  /\ starts = [j \in Jobs |-> 0]
  /\ verdict = [j \in Jobs |-> "none"]
  /\ late = [j \in Jobs |-> FALSE]
  /\ task = [t \in Tasks |-> "open"]
  /\ cpc = [c \in Clients |-> "idle"]
  /\ creq = [c \in Clients |-> NoJob]
  /\ todo = [c \in Clients |-> {}]
  /\ probe = [c \in Clients |-> NoJob]
  /\ gated = [c \in Clients |-> FALSE]
  /\ same = [c \in Clients |-> FALSE]
  /\ crashes = 0

\* The steps of a call in progress.
ClientStep(c) ==
  \/ AdmitKnown(c) \/ AdmitRefused(c) \/ AdmitSweep(c) \/ AdmitInsert(c)
  \/ SpawnWorker(c)
  \/ \E j \in Jobs : ReadRow(c, j)
  \/ TryAlive(c) \/ DeclareLost(c) \/ Reported(c)

\* The calls a client may make.
ClientCall(c) ==
  \/ \E j \in Jobs : LaunchJob(c, j) \/ CancelJob(c, j) \/ JobStatus(c, j)
  \/ \E t \in Tasks : CompleteTask(c, t)

WorkerStep(j) ==
  \/ WorkerStart(j) \/ LeaveQueue(j) \/ BeginTry(j)
  \/ \E g \in Gates : TakeGate(j, g) \/ GateBusy(j, g)
  \/ ClaimJob(j) \/ StartCommand(j) \/ CommandNotStarted(j)
  \/ Conclude(j) \/ StopGroup(j) \/ ReleaseGates(j) \/ PublishResult(j)

Environment(j) ==
  \/ SupervisionFails(j) \/ Heartbeat(j) \/ GraceOver(j) \/ DeadlinePasses(j)
  \/ CommandExits(j) \/ OrphanEnds(j) \/ StrayEnds(j) \/ WorkerCrash(j)

Next ==
  \/ \E c \in Clients : ClientStep(c) \/ ClientCall(c)
  \/ \E j \in Jobs : WorkerStep(j) \/ Environment(j)
  \/ \E S \in SUBSET Clients : ServerCrash(S)
  \/ Reboot

Spec == Init /\ [][Next]_vars

\* Calls in progress and living workers go on and timers fire. Nothing is
\* assumed of commands (they may run for ever) or of crashes.
Progress ==
  /\ \A c \in Clients : WF_vars(ClientStep(c))
  /\ \A j \in Jobs : WF_vars(WorkerStep(j)) /\ WF_vars(GraceOver(j)) /\ WF_vars(DeadlinePasses(j))

FairSpec == Spec /\ Progress

\* A client that waits for a job polls it until it has a final answer.
Polled == \A j \in Jobs : SF_vars(\E c \in Clients : JobStatus(c, j))

\* A client whose request was refused submits it again.
Resubmitted ==
  \A j \in Jobs : SF_vars(\E c \in Clients : state[j] = "absent" /\ LaunchJob(c, j))

-----------------------------------------------------------------------------
(* Properties *)

TypeOK ==
  /\ state \in [Jobs -> Active \cup Terminal \cup {"absent"}]
  /\ cancel \in [Jobs -> BOOLEAN]
  /\ old \in [Jobs -> BOOLEAN]
  /\ worker \in [Jobs -> {"none", "boot", "loop", "try", "ready", "claimed", "monitor",
                         "stop", "stopped", "publish", "done", "dead"}]
  /\ hold \in [Jobs -> SUBSET Gates]
  /\ child \in [Jobs -> {"none", "live", "exited", "gone", "stray"}]
  /\ starts \in [Jobs -> Nat]
  /\ verdict \in [Jobs -> Terminal \cup {"none"}]
  /\ late \in [Jobs -> BOOLEAN]
  /\ task \in [Tasks -> {"open", "completed"}]
  /\ cpc \in [Clients -> {"idle", "admit", "readmit", "sweep", "spawn", "report"}]
  /\ creq \in [Clients -> Jobs \cup {NoJob}]
  /\ todo \in [Clients -> SUBSET Jobs]
  /\ probe \in [Clients -> Jobs \cup {NoJob}]
  /\ gated \in [Clients -> BOOLEAN]
  /\ same \in [Clients -> BOOLEAN]
  /\ crashes \in Nat

\* A request's command is started at most once, whatever is resubmitted,
\* cancelled or killed: "an uncertain command is never replayed".
NeverReplayed == \A j \in Jobs : starts[j] <= 1

Conflict(j, k) ==
  \/ Mode[j] = "write" /\ Mode[k] # "read"
  \/ Mode[k] = "write" /\ Mode[j] # "read"
  \/ Uses[j] \cap Uses[k] # {}

\* Two commands that write the source, a writer and a build, or two users of a
\* resource never execute at once, also when a worker was killed and its job
\* is long recorded as unknown.
CommandsExclusive ==
  \A j, k \in Jobs : j # k /\ Executing(j) /\ Executing(k) => ~Conflict(j, k)

\* No more commands, and no more builds, execute than the limits allow, counting
\* orphans that no row of the table counts as running any more.
CapacityRespected ==
  /\ Cardinality({j \in Jobs : Executing(j)}) <= RunningLimit
  /\ Cardinality({j \in Jobs : Executing(j) /\ Mode[j] = "build"}) <= HeavyLimit

\* A published result means that the command's processes are gone and its
\* source, resource and slot locks are free: the next step can start at once.
ResultAfterRelease ==
  \A j \in Jobs : state[j] \in Finished => hold[j] = {} /\ child[j] \in {"none", "gone"}

\* A completed task has no command that runs, may run or may still be started.
CompletedTaskQuiet ==
  \A j \in Jobs : TaskClosed(j) =>
    /\ child[j] \in {"none", "gone"}
    /\ ~Supervised(j)

\* A result once recorded, unknown included, is never overwritten.
ResultKept == \A j \in Jobs : state[j] \in Terminal => state'[j] = state[j]
ResultIsFinal == [][ResultKept]_vars

\* An observer never declares lost a job whose worker is alive: only the worker
\* itself, having failed, records unknown then.
OnlyLostDeclared ==
  \A j \in Jobs : Supervised(j) /\ state[j] # "unknown" /\ state'[j] = "unknown"
    => worker[j] = "publish" /\ verdict[j] = "unknown"
SupervisedNotLost == [][OnlyLostDeclared]_vars

\* Every behaviour keeps the promise of JobPromise to each request.
Receipt(j) ==
  CASE state[j] = "absent" -> "none"
    [] state[j] \in Active -> "open"
    [] state[j] \in Finished -> "result"
    [] OTHER -> "uncertain"

\* A descendant that was not stopped still counts as the command running.
Command(j) ==
  CASE child[j] = "none" -> "never"
    [] child[j] = "gone" -> "over"
    [] OTHER -> "running"

Promise == INSTANCE JobPromise WITH
  receipt <- [j \in Jobs |-> Receipt(j)],
  command <- [j \in Jobs |-> Command(j)]

\* The refinement, for a cfg.
KeepsPromise == Promise!Spec

\* Every admitted job that is polled gets a final answer, also when its worker
\* was never started, was killed or the machine restarted, and its command
\* never ends.
JobsSettle == Polled => \A j \in Jobs : state[j] \in Active ~> state[j] \in Terminal

\* Dead workers do not fill the queue for good, even if nobody polls: a request
\* that is submitted again and again is admitted, unless its task is completed.
RequestsAdmitted ==
  Resubmitted => \A j \in Jobs : <>(state[j] # "absent" \/ TaskClosed(j))

-----------------------------------------------------------------------------
(* The inductive invariant behind the safety properties *)

\* Where the worker is determines what its row can say.
RowMatchesWorker(j) ==
  /\ worker[j] = "none" => state[j] \in {"absent", "queued", "spawn_failed", "unknown"}
  /\ worker[j] = "boot" => state[j] \in {"queued", "unknown"}
  /\ worker[j] \in {"loop", "try", "ready"} => state[j] = "queued"
  /\ worker[j] \in {"claimed", "monitor", "stop", "stopped", "publish"} => state[j] = "running"
  /\ state[j] = "absent" => worker[j] = "none"
  /\ worker[j] \in {"stop", "stopped", "publish"} => verdict[j] \in Terminal

\* The command exists only between its start and the end of its group, and a
\* command that may still run has a row that does not claim a result.
CommandMatchesWorker(j) ==
  /\ starts[j] = IF child[j] = "none" THEN 0 ELSE 1
  /\ worker[j] \in {"none", "boot", "loop", "try", "ready", "claimed"} => child[j] = "none"
  /\ worker[j] \in {"monitor", "stop"} => Executing(j)
  /\ Executing(j) => worker[j] \in {"monitor", "stop", "dead"}
  /\ child[j] \notin {"none", "gone"} /\ Contained(j) => state[j] \in {"running", "unknown"}
  /\ child[j] = "stray" => ~Unix
  /\ child[j] = "stray" /\ worker[j] \in {"stopped", "publish"} /\ Contained(j)
       => verdict[j] = "unknown"

\* Gates are held exactly from their acquisition to the end of the group.
GatesMatchWorker(j) ==
  /\ worker[j] \in {"none", "boot", "loop", "publish", "done"} => hold[j] = {}
  /\ worker[j] \in {"ready", "claimed", "monitor", "stop", "stopped"} => hold[j] = Needs(j)
  /\ worker[j] = "dead" /\ ~Executing(j) => hold[j] = {}
  /\ worker[j] = "dead" /\ Executing(j) /\ Unix => hold[j] = Needs(j)

RowsMatch == \A j \in Jobs : RowMatchesWorker(j)
CommandsMatch == \A j \in Jobs : CommandMatchesWorker(j)
GatesMatch == \A j \in Jobs : GatesMatchWorker(j)

\* The exclusive gates have one holder; builds share the source.
GatesCompatible ==
  \A j, k \in Jobs : \A g \in hold[j] \cap hold[k] : j # k =>
    /\ g = Source => Mode[j] = "build" /\ Mode[k] = "build"
    /\ g \notin 1..NumResources

\* Who holds an alive gate as an observer excludes a living worker.
ObserverExcludesWorker ==
  \A c \in Clients : gated[c] => probe[c] \in Jobs /\ ~Supervised(probe[c])

\* A job is inserted by one client, which alone will start its worker.
OneSpawner ==
  /\ \A c \in Clients : cpc[c] \in {"admit", "readmit", "sweep", "spawn"} => creq[c] \in Jobs
  /\ \A c \in Clients : cpc[c] = "spawn" =>
       worker[creq[c]] = "none" /\ state[creq[c]] \in {"queued", "unknown"}
  /\ \A c, d \in Clients : cpc[c] = "spawn" /\ cpc[d] = "spawn" /\ creq[c] = creq[d] => c = d

ClosedTaskSettled ==
  \A j \in Jobs : TaskClosed(j) => state[j] \notin Active \cup {"unknown"}

\* The conjunction that every step preserves; the safety properties follow.
JobsInv ==
  /\ TypeOK
  /\ RowsMatch
  /\ CommandsMatch
  /\ GatesMatch
  /\ GatesCompatible
  /\ ObserverExcludesWorker
  /\ OneSpawner
  /\ ClosedTaskSettled
=============================================================================
