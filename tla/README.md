# GPTBridge, verified

GPTBridge is a local MCP server: it lets a chat client read and edit a
workspace, run commands and keep long tasks going. Several clients, several
server processes (the desktop application, the stdio variant), detached worker
processes, scripts and a browser share one state directory and one source
tree. What makes it hard is not any single function but who may do what while
others crash, retry and observe. These modules model that part, check it with
TLC and prove the central results with TLAPS.

Paths are relative to `src/`; `A/` stands for `src-tauri/src/`.

## 1. Inventory

| Component | State | What is hard | What makes it correct | Module |
|---|---|---|---|---|
| **Durable jobs** `personal-runtime/src/{jobs,worker,locks}.rs` | the `jobs` table, lock files, one worker and one process group per job | observers race with workers; servers, workers, the machine crash; locks outlive processes | at most one run per request, final and truthful results, exclusion, limits, every job settles | `DurableJobs`, `JobPromise` |
| **Tasks, checkpoints, receipts** `personal-runtime/src/{tasks,task_open,store}.rs` | `tasks`, `bindings`, `events`, `receipts` | concurrent checkpoints, repeated requests, conversations that share a goal | no lost update, one effect per request, completed is final | `TaskStore` |
| **Managed patches** `A/tools/{personal_patch,patch}.rs` | source files, receipts, source locks | a crash between files, a stale base, two ways to one directory | nothing unseen is overwritten, applied at most once, truthful receipts; the text means one thing | `ManagedPatch`, `EditPromise`, `PatchText` |
| **File tools** `A/tools/file.rs` | none between calls | chunk boundaries, limits, files that vanish | a streamed answer is the answer in memory, a list that says it is whole is | `FileReading`, `FileSearch` |
| **Task scheduler** `scripts/chatgpt-tasks/*.py` | queue files, a database of rows | the answer of a send may be lost; ticks, owner and agent race | a prompt is sent at most once, nothing waits silently | `TaskScheduler` |
| **Services and tunnels** `A/runtime/`, `A/tunnel/{supervisor,access}.rs`, `A/commands/{runtime,tunnel}.rs` | records of services, routes, one frpc per workspace | commands, health loop and failures interleave around several locks | what is served is routed, a live route stays, a lost line returns | `ServiceTunnels` |
| **Public access** `A/auth/`, `A/tunnel/cloudflare.rs`, `A/commands/secrets.rs` | codes, tokens, secrets, the tunnel process and its address | renewed secrets under a running listener; late addresses | a token is earned in time and once; old secrets end with the restart | `PublicAccess` |
| **Admission** `A/mcp/{listener,flow_control}.rs`, `A/desktop_cli.rs` | three semaphores; two queues | slow calls hold every permit | control calls get through | `RequestLanes` |
| **Listeners** `A/{mcp,actions}/listener.rs`, `A/mcp/{server,gateway}.rs` | a listener, its children, its write lock, blocking workers | workers outlive clients and listeners | nothing is taken from a call at work; writes exclude | `Listeners` |
| **Upstream clients** `A/mcp/upstream.rs` | child processes, pipes, ids | late answers, torn lines, close beside calls | everybody gets his own answer, no child is left | `UpstreamClient` |
| **Interactive sessions** `A/tools/{session,exec}.rs` | one child, its status, a store | kill, timeout, first round and eviction race | a recorded exit is real; every session ends | `ExecSession` |
| **Output** `personal-runtime/src/{worker,jobs}.rs`, `A/tools/session.rs` | a log with a cap, its tail and totals; a buffer | pages and previews while it is written; cuts inside characters | whole characters, nothing left out untold | `OutputPages` |
| **Command gate** `A/tools/{dispatch,policy,exec_paths,context}.rs` | the default folder | folders and programs change between judgement and run | a forecast holds, a record is true, an error ran nothing but what it names | `CommandGate` |
| **History archive** `A/tools/history/` | Markdown files, three derived files, a directory lock | crash between files, two bootstraps | what was answered is archived once; derived files never lie | `HistoryArchive` |
| **Audit, access log** `A/audit/`, `A/access_log.rs` | records; daily files | days, retentions and settings change under calls | only what expired goes; outcomes and dates are right | `AuditStore`, `AccessLog` |
| **Harness** `A/harness/` | JSON per task, logs | no lock at all | what is promised without overlap; logs without gaps | `Harness` |
| **Desktop data** `A/data/`, `A/commands/{workspace,secrets,frp_profiles}.rs` | one JSON file, its copy in memory | commands in steps, failing saves, restarts in between | memory and file agree; distinct resources; entries serve what is saved | `DesktopData` |
| **Receipt pages** `A/commands/taskdock_receipts*.rs` | a cursor | rows grow while pages are turned | nothing is skipped or shown as more than it was | `ReceiptPages` |
| **List of tasks** `A/commands/taskdock.rs`, `personal-runtime/src/workbench.rs` | a cursor over several stores | tasks and jobs move while pages are merged | no task that is left alone is skipped or shown twice | `Workbench` |
| **Git tools** `A/tools/git.rs` | none between calls | several processes per call, others edit and stage between them | nothing is called clean, complete or missing that is not | `GitReading` |
| **Skill library** `A/tools/skill*.rs`, `personal-runtime/src/skill_preferences.rs` | a cache per repository, preferences | files edited between stamp and reading | answers are current, pages and parts are of one whole | `SkillLibrary` |
| **Activation, upgrade** `scripts/{service,restart,upgrade}_personal.py` | launchd definition, listener; application and backup | look-then-act, death between two renames | nothing known is cut off; a missing application can be restored | `ServiceActivation`, `AppUpgrade` |

How they interact: an MCP call passes admission (`RequestLanes`), a listener
(`Listeners`) and a tool handler. A durable command becomes a row and a
detached worker; a managed patch and the workers meet at the same lock files;
tasks and jobs meet in the database (completion looks at a task's jobs in one
transaction, admission at the task's state in another). The scheduler drives a
browser that in turn calls the server. Services and tunnels are what those
calls arrive through; the desktop's data says which of them there are.
Modules name the module that has the other side of what they abstract, and
where two components meet in one lock or one table they are modelled together:
workers, observers and admission in `DurableJobs`; patches, commands and
completion in `ManagedPatch`; both services and the tunnel client in
`ServiceTunnels`; the entry and its members in `DesktopData` and `Listeners`.

Left aside: `old/` (the former Python server), the Svelte interface, documents,
generated contracts; and, listed in `PROJECT.json` with the reason: the
desktop's update check, diagnostics, the tables of tools and schemas, image
tools, the windows of the desktop. They keep no state of their own.

## 2. The core: durable jobs

`DurableJobs.tla` models `jobs.rs`, `worker.rs` and `locks.rs` together,
because every interesting behaviour is an interleaving of the three.

**State.** A job is named by its receipt key (scope, request id), which the
table makes unique. `state` and `cancel` are columns of its row. The timestamp
column `updated` matters twice, and is kept as just these two facts: `old` (the
5 s startup grace of a queued row is over) and `same` (per observer: the row
still has the timestamp it read, so its compare-and-swap will succeed).
`worker` is the program counter of the worker process, `hold` the lock files
its processes hold open, `child` its command's process group (`live`; `exited`,
the first process ended but descendants may run; `gone`; `stray`, descendants
that were not reached), `verdict` the outcome the worker is about to publish.
`cpc`, `creq`, `todo`, `probe`, `gated` are the local state of the server
threads that call the store. `starts` counts executions; `crashes` is only a
bound.

**Actions.** One per step that another process can observe:

| Code | Actions |
|---|---|
| `launch_job`: one immediate transaction (receipt, task, queue length, insert), a sweep and a second try when the queue is full, then the spawn after the commit | `LaunchJob`, `AdmitKnown`, `AdmitRefused`, `AdmitSweep`, `AdmitInsert`, `SpawnWorker` |
| `job_status_on`: read the row, try the alive gate, compare-and-swap to unknown; `wait_job`, `job_list`, `uncertain_writes` and the sweep repeat it | `JobStatus`, `ReadRow`, `TryAlive`, `DeclareLost`, `Reported` |
| `cancel_job` | `CancelJob` |
| `task_checkpoint` with `state=completed` | `CompleteTask` |
| `run`: alive gate and state check, queue loop, claim | `WorkerStart`, `LeaveQueue`, `BeginTry`, `TakeGate`, `GateBusy`, `ClaimJob` |
| `execute`, `monitor` | `StartCommand`, `CommandNotStarted`, `Heartbeat`, `Conclude`, `SupervisionFails`, `StopGroup`, `ReleaseGates`, `PublishResult` |
| the world | `GraceOver`, `DeadlinePasses`, `CommandExits`, `OrphanEnds`, `StrayEnds`, `WorkerCrash`, `ServerCrash`, `Reboot` |

Points where the code is subtle and the model follows it:

* `WorkerStart` takes the alive gate and then reads the row. The two are one
  step because an observer needs the same gate before it writes.
* A lock taken with `flock` belongs to the open file, which the command
  inherits on unix only (`worker.rs:129-146`). So `WorkerCrash` keeps `hold` when a
  command executes on unix, and frees it otherwise. The alive gate is never
  inherited.
* `GateBusy` drops every partial reservation; gates are tried in one order
  (source, sorted resources, heavy slot, command slot) and never waited for.
* A slot pool of n lock files is modelled by the number of its holders. The
  code tries the files one after the other, so it can miss one freed behind its
  back and report busy; it then comes round again, so nothing a property says
  depends on it.
* Stopping: unix kills the process group; WSL looks for the processes of the
  launch and reports when it cannot confirm that they ended (`unknown`); Windows
  itself kills the first process only, so descendants may be `stray`.

Refused requests (invalid arguments, same id with another command, unknown
task, changed limits) change nothing and have no action. Output is the subject of
`OutputPages` (section 5); details and the pressure report are left out: no
property is about them.

`JobPromise.tla` is what the service promises of a request, in four states of a
receipt and three of its command. `DurableJobs` implements it under the mapping
`Receipt`/`Command` (property `KeepsPromise`).

`MCDurableJobs.tla` gives the instances, `DurableJobsProofs.tla` the proofs.

The worker reloads the limits file at its start, so limits changed between launch
and start give pools of different sizes; a clock that is set back; a descendant
that leaves the process group and keeps the pipes open: not modelled, each a
hazard in `PROJECT.json` or outside the code.

## 3. Managed patches

`ManagedPatch.tla` models `personal_patch.rs` (the critical section),
`patch.rs` (staging, replacement, restoration) and the receipts of `store.rs`,
for several servers that patch one real directory.

**State.** `content` abstracts the text of a file to the set of edits it takes
into account: a patch that was computed from a text extends that text's set by
its own request, a command that read the file and writes it back extends what it
read. Additions and deletions are edits as well, and equal sets are equal
hashes. `read` and `basis` are what the author of each request has seen and
passes as `expected_hashes`; a dry run is one way to see it. `pc`, `req`,
`saw`, `todo` are the local state of a caller, `receipt` the state and outcome
of the receipt, `job` the place of a command with respect to the source gate
(`hold`; `edit`, it has read what it will write back), `task` a column of the
tasks, `commits` counts how often the files of a request were replaced.

| Code | Actions |
|---|---|
| `apply_to` up to the receipt lookup | `Submit`, `PeekReceipt` |
| the canonical-root gate, the gate of the state directory, 5 s each | `TakeRoot`, `TakeLocal`, `GateTimeout` |
| fingerprints, `begin_receipt`, the task's state, `expected_hashes` | `Fingerprint`, `BeginReceipt`, `CheckTask`, `Stage` |
| `commit_staged_bytes`, `restore_backups` | `Stage`, `Replace`, `ReplaceFails`, `Restore` |
| new fingerprints, `finish_receipt` | `FingerprintAfter`, `FinishReceipt` |
| commands under the source gate (a worker's view of it is `DurableJobs`) | `JobTakesSource`, `JobReads`, `JobWrites`, `JobEnds` |
| the rest | `ReadFile`, `CompleteTask`, `ServerCrash` |

The gates are not variables: who holds one follows from where he is
(`RootFree`, `LocalFree`). `ServerCrash(S)` ends the calls of any set of
callers, which is also what an error that ends a call looks like.

`EditPromise.tla` is what patches promise of the files, without callers and gates:
one request at a time has them in its hands, once, and no command works on them
meanwhile. `ManagedPatch` implements it (property `KeepsEdits`): a request is
`changing` from the durable intent to the last new fingerprint and `undoing` while it is
restored or rejected, and a call that ends in between loses the files for good. That a
refused request took all of its edit back is not promised: it is not so (section 9).

`OneWorkspaceAssumption`: where there are commands, all patches come through the
state directory whose source gate the commands hold. A patch that comes through
a Skill root's own state directory is kept apart from other patches by the
canonical-root gate, but not from commands: the code does not claim that.

Not modelled: a write that is cut off in the middle of a file when a backup is
written back (a failed restoration leaves the file as it was), a second fault within
a restoration (a backup that cannot be read back is taken for an empty one,
patch.rs:455, so that what is restored is empty; `Restore` assumes that a backup just
written can be read), Windows' removal of the old file before the rename, the
harness's own use of `patch.rs`.

## 4. The text of a patch, and the file tools

`PatchText.tla` models how a patch is read and applied (`patch.rs`): a parser
that goes through the lines one step at a time, in the unified and in the
envelope form (`OldName`, `NewName`, `FileName`, `HunkBegins`, `HunkLine`,
`ParseEnds`), the checks before (`Inadmissible`), the search of a hunk's place
(`Places`: exactly one), and the staged texts with line ends and last newline
(`HunksApplied`, `StageSection`, `Commit`). Lines are values, with those among
them that look like a header. `AsMeant` compares with what a reader takes the
patch to mean (`MeantPatch`, written without the parser): applied as meant or
nothing changed, refused only without one meaning. What the code does
differently is said in the property and not hidden: an empty line between
sections is taken for context and refuses the patch, a line that imitates a
header makes the parser take it for one, and a last empty line may be lost.

`FileReading.tla` reads a file in chunks that fall anywhere (`ReadChunk`,
`Consume`, `FlushLine`, `ReadEof`) and compares with the answer of the path that
holds the file (`InMemory`). `FileSearch.tla` walks a tree for `list_dir`,
`list_files` and `search_text` with its limits, excluded subtrees, context and
broken files while files vanish; `AnswersRight` and `WholeOrSaid` compare with
what the tree has.

## 5. What serves calls

`ExecSession.tla`: one command with its callers; `child` is the mutex around
the process handle, `stage` where the first call ("run"), the monitor ("mon")
and each user is. `RunRound` is one round of the loop in `run_command`;
`MonitorWakes`, `MarkTimeout`, `KillChild`, `ReapChild`, `RetainSession`,
`EvictSession` the two timeouts; `BeginKill` to `RemoveKilled` is
`kill_session`. Output is the next module's.

`OutputPages.tla`: one stream of a command, as a sequence of bytes that know their
place in a character, or in a sequence that decoding replaces as a whole.
`Collect` is the collector, `StreamEnds`, `WriteTail`, `WriteTotals` and
`FinishRow` what it leaves in the order in which it does; `SeeStatus` and
`ReadPage` are `job_output`, which reads the status before the log, `CloneBuffer`
and `ReadBuffer` are `read_output`, which reads the total after the buffer;
`PreviewTotals`, `PreviewTail` and `PreviewLength` are the three looks of
`attach_output`. A job that ends before there is a command has no log and is not
in it. The properties are of a reader that follows the offsets it is given. What
they leave open is what the code does: jobs.rs:357-366 compares the total with the
length of the decoded text, so characters that decoding replaces, of three bytes
each, can make up for bytes that were cut (`PreviewsHonest` is about text in which
nothing was replaced); offsets of a session are places in its buffer, so that once
it was trimmed no page of it is the last (`NoGapUntold`); and a snapshot that asks
for as much as the buffer holds does not say that the buffer was trimmed.

`UpstreamClient.tla`: the manager (`SpawnUpstream`, `Discover`,
`RefuseUpstream`, `BeginClose`, `AwaitClientMutex`, `ShutOne`, `CloseEnds`), a
call (`AskTool`, `SendRequest`, `ReadLine`, `ReadEnd`, `ReadTimeout`) and the
child, which may answer late, never or out of order, say what nobody asked, and
end. Pipes are sequences of lines `[id, to]`, where `to` is only for the
property: a line names the call it answers. A write or a read that is cut off
tears a line (`halfIn`, `halfOut`).

`RequestLanes.tla`: the permits of `mcp_post` in the order they are taken, and
the two queues and the workers of the stdio server. `Listeners.tla`: a listener
from `OpenListener` to `Abort` or `ConnectionsEnd`, the calls it let in
(`ArriveAt`, `Dispatch`, `TakeWriteLock`, `TakeUpstream`, `WorkerEnds`,
`Replied`), clients that leave, and who waits for its end (`BeginShutdown`,
`ForgetHandle`, `Delete`). A blocking worker is stopped by nothing. The write
lock is the listener's own (actions/listener.rs:420), so that `WritesExclude`
is claimed between open listeners only.

`CommandGate.tla`: an `exec_command` from its arguments to a process; the
default folder is read once for the record (`RecordCall`) and once for the
execution (`CompleteArguments`), the folder and the program are located again
after the policy judged them, and files change in between. A built-in of exec.rs runs
or, for `ls` and `which`, fails where the folder is located (`LocateFolder`). An error
does not always mean that nothing runs: `Overtaken` names the three that come when
something has begun, a job whose row cannot be read, a child whose input cannot be
written and that keeps running, unwatched (exec.rs:378), and one killed for its time.

## 6. Services and access

`TaskScheduler.tla`: a tick of `scheduler.py` as a walk over the batches (`at`,
`todo`) with every durable write on its own: `MarkSend` is the mark that
precedes a send, `SendCall` what the client does with it, `SendAnswered` what
the scheduler hears. A scheduler or agent may die between any two. The clients
("desktop", then "web") may answer late, inexactly or not at all.

`QueuePromise.tla` is what the queue promises of a request, in five states of its
order, whether it was posted and what was answered. `TaskScheduler` implements it
under the mapping `OrderOf` of a row's status, where a request is withdrawn while
its batch is archived and not in the inbox (property `KeepsOrders`, which also asks
that what is completed, or blocked after a post, stays so: `SettledStays`).

`ServiceTunnels.tla`: a command is a thread with a program counter (`pc`,
`on`), its steps are the critical sections of the runtime's gate, the runtime's
table and the tunnel supervisor's mutex; a synchronization reads the services and
then the profiles (`Snapshot`, `ReadProfiles`) before it waits for that mutex
(`SyncRoutes`). A restart of the client that fails
tries to restore the routes it had (`EnsureOrRestore`, `Outcome`). `ImageKills`
says whether the platform may end a process by its image (Windows and macOS do,
Linux does not). `HealthTick`, `Visit` and `CoolDown` are the health loop.

`PublicAccess.tla`: codes (`Authorize`, `TakeCode`, `JudgeCode` - the code is
taken out under a lock and judged after it), tokens and what accepts them
(`Accepts`), the Cloudflare process whose address may come in time, too late or
never, and secrets that are replaced: `Regenerate` with the restart that is scheduled,
`SetSecret` without one. `set_workspace_secret` (secrets.rs:50) and a profile that
changes between its own and the shared secrets (workspace.rs:43) save another secret
and leave the listener running, which goes on accepting tokens of the old one until
it is started again by somebody. `OldSecretsEnd` excepts that (`silent`): it claims
the end of old tokens for what schedules a restart.

`ServiceActivation.tla`: the three scripts that replace, hand over and restart
the service of the launch agent: look, look again, prove the candidate, stop,
start, verify, fall back. Jobs and requests of others come in between.
`AppUpgrade.tla`: every step of an upgrade, its undo and its receipt file, with
others who write the application meanwhile.

## 7. Stores

`TaskStore.tla`: the three transactions of tasks (`OpenTask`, `Checkpoint`,
`AdmitJob`/`ResolveJob` for completion), each atomic as in the code; the
receipts remember the argument and the answer. The four states of a task other
than completed are alike to it. `HistoryArchive.tla`: callers take the directory
lock, scan, write the archive, then the three derived files; a crash or a
failing write may come between any two. `AuditStore.tla`: a call takes one look
at the settings (`Snapshot`), may win the daily cleanup (`Swap`), classifies and
inserts; the owner's change of settings is saved, published and enforced in three
steps. `AccessLog.tla`: a request takes its settings when it comes and its date
when it is answered; its line may be lost, before the file is open (`WriteFails`) or
in it (`WriteLine`). `Harness.tla`: each client's call is a sequence of file
operations without any lock, through one temporary file; what holds with
overlapping calls and what only without is told apart by `overlapped`.
`DesktopData.tla`: commands in steps around the mutex of the application; `unsaved`,
`aside`, `undone`, `raced` say which exception of a property applies.
`ReceiptPages.tla` and `SkillLibrary.tla`: pages over what changes while they are
turned. A cursor of the skill list carries a hash of ids, texts and whether a skill
is for use by hand, be it by its source or because it is turned off (`Mark`);
turning off one whose source says so already changes no hash, and the desktop may
show that one from an earlier page. `ListWhole` speaks of lists as that hash tells
them apart. An audit row's status is shown as it was recorded (`StatusOf`).
`Workbench.tla`: the list of tasks, whose page asks one store after the other
(`Gather`) for its first rows past the cursor and keeps the first of all (`Show`),
while tasks are written, jobs move (`JobMoves`, `JobOver`) and directories go and
come back. A row's place is the time of its last write, so a running job's heartbeat
takes its task ahead of the cursor: the property is about tasks that are left alone.

`GitReading.tla`: the calls of the Git tools as the processes they run (`Check`,
`ReadStatus` and `ReadHead`, `ReadFirst` and `ReadSecond`, ...), beside others who
edit, stage, commit and break the repository. `moments` is what was true while the call
ran, `steady` the paths whose change lasted; a diff's text is a set of lines in an
order, cut anywhere. A limit may cut a path's name (`stub`), and a line of a file's
body may look like a name (`LooksLike`): the properties say so. Git finds renames
(`MovedFrom`: the same text, or one `Alike`), since the code runs it without
--no-renames, and its settings are the default ones. What the properties do not
claim, because the code does not: `files` (git.rs:616) is read from the pairs of lines
that name, so changes of binary files or of the mode only, pure renames and empty files
that come or go, which have no such pair (`Textual`), and names that Git quotes
(`ReadAs`) are not in it, and a name with a space is in it with the tab that
follows it; `NothingHidden` claims what a half would have named (`NamedBy`). A blame
without an end is not marked when the file goes on, a log is not paged beyond 10000 commits, and a status may pair its lines with the
commit of a later moment.

`MCServices`, `MCStores` and `MCToolCalls` put components side by side that share no state: a
behaviour is about one of them, chosen by `part` in its first state, the others
stand still. In `MCStores` a `VIEW` leaves the idle variables out of the
fingerprint. The product is not explored and need not be.

## 8. Runs

| Run | Instance | Checks |
|---|---|---|
| `jobs_races` | a writer and a build of one task, 2 server threads, queue of 1, unix, 1 crash | `NeverReplayed`, `CommandsExclusive`, `ResultAfterRelease`, `CompletedTaskQuiet`, `KeepsPromise` |
| `jobs_wsl` | the same with 1 thread, on Windows with WSL commands | `JobsProgress` (`JobsSettle` and `RequestsAdmitted`) |
| `jobs_capacity` | two builds and a reader, one resource, 1 heavy and 2 command slots | `CapacityRespected`, `JobsInv` |
| `tool_calls` | a patch of two files, one of one of them, 2 callers, a writing command, a build, a task, 1 crash; four commands of three programs while a directory, a link and an entry change | `PatchInv`, `KeepsEdits`, `BuildStable`, `GateInv` |
| `services` | session with 2 users and 3 calls; 2 upstreams and 2 calls of one of them; 3 permits and 6 calls, 2 stdio workers and 4 frames; files of 4 bytes in chunks of up to 2; trees and searches listed in `MCServices`; patches of 1 hunk on every text of up to 3 lines and of 2 sections of every kind; two outputs of 5 bytes with characters of 1 to 3, valid and broken off, kept with caps that cut them and read and previewed with limits below and at the caps | `SessionInv`, `UpstreamInv`, `FilesInv` (reading, search, patch text), `OutputInv`, `CallsEnd` (`SessionsEnd`, `UpstreamEnds` and `ControlServed`) |
| `stores` | one small instance of each of fifteen components, see `MCStores` | `ReceiptTruthful`, `ArchiveInv`, `UpgradeInv`, `TaskInv`, `ActivationInv`, `AuditInv`, `AccessInv`, `HarnessInv`, `PublicInv`, `DesktopInv`, `ReceiptsInv`, `SkillsInv`, `ListenersInv`, `GitInv`, `WorkbenchInv`, `AnswersCurrent` |
| `scheduler_queue` | two dependent tasks, a batch that replaces them, 1 crash, 1 owner command of each kind | `QueueInv`, `KeepsOrders`, `NeverWaitsSilently` |
| `tunnel_lines` | three services of two workspaces, 2 concurrent commands, 1 failure, processes that resist ended by their image | `TunnelInv`, `LiveRouteKept`, `OthersUntouched`, `LinesComeBack` |
| `windows_locks`, `patch_partial`, `scheduler_blocked`, `tunnel_deleted` | small instances of the same modules | the four disagreements of section 9 |

Why the bounds are enough to be worth it. Two jobs suffice for exclusion,
deduplication and the queue limit (with a queue of 1 the second meets the full
queue and the sweep), two threads for every race of observers, since an
observer's state is one suspected row. In `jobs_capacity` a third job, of the
resource of one and the heavy slot of another, waits while they run and takes their
place: it is the heavy limit that is at stake there, since three commands can never
be up at once; that no limit is ever exceeded, of commands or of heavy ones, the theorem
`Capacity` says for every instance. Two files make a half-done patch, two patches that share a file and
two callers every race of a request with its repetition. Two upstream calls of
one server, with ids that go on, make a late answer meet the next call. Two
archivists, two upgrades, two threads of the audit, two clients of the harness,
two windows of the desktop, two workspaces of the list of tasks: every hazard in `PROJECT.json` is between two
actors, or one actor and a crash or failure, and each run allows at least one of
those. One crash is enough where what it leaves is permanent (a started receipt,
a half-done patch, a backup): everything after it runs against those remains.
That a bound does not hide the interesting case is what the mutants are for:
each property is violated in its own run by a plausible mistake in the code it
is about. Symmetry (`AnyClient`, `AnyCaller`) is used in two safety runs, of
identical threads only; `JobsInv`, `PatchInv`, and the invariants of section 10 are
proved for every instance.

Deadlock is not checked where the system may stop: the scheduler exits, calls
are bounded, and a component that has done what it was asked stands still.

### Fairness

* `DurableJobs.Progress`: weak fairness of the steps of a call in progress (its
  thread is running), of a living worker, and of timers. Nothing is assumed of
  commands, which may run for ever, of crashes, or of a worker's ever being
  started. `JobsSettle` has the premise that a client that waits polls again
  (`Polled`, strong, because between two polls the thread may do something
  else), `RequestsAdmitted` that a refused request is submitted again
  (`Resubmitted`): docs/dot-compatibility.md:72 tells clients to query the same
  session again, and without a poll nobody looks for a lost worker.
* `ExecSession.ESFairness`: the tasks run, time passes, and a process that was
  sent SIGKILL ends. Nothing of a command that was not, nor of new calls.
* `UpstreamClient.UCFairness`: deadlines pass and threads run; nothing of a
  child but that it does not survive SIGKILL.
* `RequestLanes.RLFairness`: stdio workers take frames, control requests (which
  wait for nothing) are answered; ordinary requests may hang.
* `TaskScheduler`: the scheduler's own steps and the clock, while its process lives;
  nothing of the browser, the owner or ChatGPT.
* `ServiceTunnels.SVFairness`: the health loop ticks, visits, and cools down.
  Nothing of commands.

## 9. Disagreements with the text

* `windows_locks`: worker.rs:91-94 says that active commands retain the source
  and resource locks. On Windows handles are not inherited (`let _ = guards;`,
  worker.rs:149): when the worker is killed its locks are free while the command
  runs, and a conflicting one starts. (On Windows a command whose descendants
  were not reached, worker.rs:117, is why `ResultAfterRelease` and
  `CompletedTaskQuiet` are proved for contained commands only.)
* `patch_partial`: registry.rs:215 says that a patch is applied transactionally.
  A request of two files can end as an error with one of them changed: the
  commit loop returns through `?` without restoring when a path can no longer be
  resolved (patch.rs:479-483), restoring ignores its own errors (patch.rs:519),
  and a fingerprint that fails after the last file turns a complete application
  into an error (personal_patch.rs:110-114).
* `scheduler_blocked`: the comment at scheduler.py:286 says that independent
  ready tasks may proceed. A batch is declared blocked (scheduler.py:369) with a
  ready task in it when its dependency stands later in the file and is found
  completed in the same scan.
* `tunnel_deleted`: docs/specs/frp-subdomain-lifecycle says that a deletion
  removes the workspace's lines. It drops them first (commands/workspace.rs:122) and
  stops the services and removes the profile afterwards; a start of the same
  workspace that overlaps it has read its profile by then, and registers the route
  after the drop (tunnel/access.rs:107-109), where it stays.

Met while modelling and not run, because nothing in the model shows more than
reading does: docs/specs/harness-foundation/design.md:97 allows one writable task
per workspace, harness/state.rs:58 looks for one and saves another without a lock,
so that two overlapping starts give two (`OneTask` claims it without `overlapped`;
the run has room for one task only, so that `HarnessSafe` shows it and not the run);
commands/workspace.rs:123 says that the end of the
listener is waited for before logs are deleted, which is so for the handle the
deletion could take, not for a stop that is already waiting, an aborted run or a
handle that a failed start forgot (`NobodyWaits` says exactly this).

## 10. Proofs

What TLAPS proves, for every value of the constants:

`DurableJobsProofs.tla` proves, for every set of jobs and clients, every mode,
resource and limit, on both platforms:

* `Invariance`: `Spec => []JobsInv`. None of the safety properties is inductive
  alone. `JobsInv` adds to types: where the worker is determines what the row can
  say (`RowsMatch`), whether the command exists (`CommandsMatch`) and exactly
  which gates are held (`GatesMatch`); two holders of a gate are compatible
  (`GatesCompatible`); an observer with the alive gate excludes a living worker
  (`ObserverExcludesWorker`), which is what makes `worker in loop => row queued`
  hold; a job has one spawner (`OneSpawner`); a completed task's rows are settled
  (`ClosedTaskSettled`). One lemma per conjunct, one step per action.
* `TypeCorrect`, `StartedOnce` (`NeverReplayed`) follow from it directly.
* `Exclusion` (`CommandsExclusive`) assumes `Unix`; `ReleasedFirst`
  (`ResultAfterRelease`) and `CompletionSafe` (`CompletedTaskQuiet`) assume that every command
  is contained, i.e. unix or WSL. The violation runs show that the assumptions are needed.
* `Capacity` (`CapacityRespected`) also assumes `Unix`. Under it an executing
  command holds its slot until it is over, so the executing jobs are among the
  slot's holders; and `PoolsBounded`, at most as many holders as slots, is kept
  because only `TakeGate` makes a pool's holders grow, by one and below the limit.
* `PromiseKept` (`KeepsPromise`) is the refinement of `JobPromise`, for contained
  commands. `ReceiptMoves` turns the step of one row and one process group into a
  step of the promise or a stutter; the other lemmas say that an action moves no
  other row. `CommandsMatch` gives what the promise asks of a result: it is only
  recorded when the command is over.
* `ResultStays` (`ResultIsFinal`) and `NotLostAlive` (`SupervisedNotLost`) are step
  properties: the step lemma under `JobsInv`, then PTL.

The constants' assumptions are `ConstantsAssumption` and `FiniteAssumption`;
TLC evaluates them in every run.

`ManagedPatchProofs.tla` proves, for every number of callers, requests, files,
gates and commands, under `PatchAssumption` and `OneWorkspaceAssumption`:

* `Invariance`: `Spec => []PatchInv`. `ReceiptTruthful` (`ReceiptsTrue`) and
  `AppliedOnce` (`Once`) are conjuncts of it, but not inductive alone: that an
  acknowledged edit stays needs that whoever writes a file writes what the file
  says now plus his own edit. `CallersKnow` says so for callers (what a caller saw
  is what the files say, up to what he has replaced himself), `JobsKnow` for
  commands, `GatesExclude` is why nobody comes in between, `ReceiptsMatch` why a
  receipt's files are replaced once.
* `EditsPromised` (`KeepsEdits`), the refinement of `EditPromise`: who is past the durable
  intent has the files alone (`HasAlone`), so a caller's step moves them as his place
  moves (`HandsMove`), and one lemma per kind of step names the step of the promise
  (`BeginKeeps`, `GoingKeeps`, `ReplaceKeeps`, `RestoreKeeps`, `FinishKeeps`, `ReadKeeps`,
  `JobKeeps`, `CrashKeeps`). That a file is put back to what the author saw, and not
  only to what the caller did, had to be added to `CallerKnows` for it;
* `NothingLost` (`EditsKept`), `SeenFirst` (`OnlySeenVersions`), `StableSource`
  (`BuildStable`): step properties. Lemma `Written` lists the three ways in which
  a file changes under the invariant; each theorem looks at these three.
* `LateRefused` (`LateRequestsRefused`): once a task is completed, `TooLate` holds of
  its requests without a receipt, and every step preserves it.

`ServiceTunnelsProofs.tla` proves `ListenersSafe` (`ListenersInv`) for any runs and calls,
any setups and requests. That nothing is taken from a call at work, and that two
writes of open listeners exclude each other, both rest on what the checked
invariant does not say: a call's listener and place fit together (`CallsBelong`),
only an MCP listener has children (`ChildrenOfMcp`), at most one listener of a
service is open (`OneOpen`), a deleted one is over (`DeletedIsOver`), and who is
late has his listener's end behind him (`LateAreDone`). Steps of a run leave calls
alone, steps of a call touch one call: the lemmas follow that split.

`AppUpgradeProofs.tla` proves `UpgradeSafe` (`UpgradeInv`) for any number of upgrades,
failures and other writers; assumed is that an absent application is not the
name of a build or of an upgrade. `OneReplaces` is not inductive: it follows from
`Exclusive` (who is inside holds the lock). That a missing application can be put
right follows upgrade by upgrade from what its flags promise about the
directories (`FlagsRight`), what its receipt may say (`RecordRight`) and what it
leaves behind when it dies (`LeftSomething`).

`ServicesProofs.tla` proves

* `SessionSafe` (`SessionInv`), for any callers: besides the invariant it needs that
  nothing has happened before there is a process (`BeforeProcess`), that the
  monitor starts only afterwards (`MonitorAfter`) and does not leave before the end
  (`MonitorGoesOn`), and that an end that was waited for is seen (`EndSeen`);
* `UpstreamSafe` (`UpstreamInv`), for any upstreams, calls and notices: that a call gets
  the answer to its own request follows from ids that are used once
  (`IdsOnce`) and lines that name who asked under that id (`LinesRight`), through
  torn and unsolicited lines; that no child is left, from a table that has every
  child (`TableRight`) but one that is still being started (`OneYoung`,
  `StartsQuietly`). The lemmas on `Range` say what appending to, taking from and
  losing from a pipe does to the lines in it;
* `OutputSafe` (`OutputInv`), for any outputs, caps and limits: the invariant needs the
  order in which a collector leaves things (`StreamOrder`), where a reader may be
  while it reads (`ReaderPlace`), that a page replaced nothing but what was malformed or
  broken off by the end of a log that is over (`LossyWhy`), and what a preview has seen
  between its three looks (`PreviewSteps`). What a page consumes is a lemma of its own
  (`PageConsumes`), from what is known of the bytes around one (`BackThere`,
  `AheadThere`, `NoneStraddles`): within three bytes past the limit some character ends;
* `GitSafe` (`GitInv`), for any trees, histories and calls: what is seen now is among what
  was seen (`MomentSeen`), what one of the halves would name has been named by one at
  every moment (`SteadyLasts`), and of these paths what the first half does not name
  its diff would not name now either (`DiffLeft`), which is why the halves are read in
  this order. What a limit delivers is proved once for both tools that deliver
  (`Delivered`);
* `TaskListSafe` (`WorkbenchInv`), for any workspaces, directories and rows: each task
  left alone was shown or is past the cursor, and the page at work has it, has at least
  as many rows before it as it shows and knows of more, or has still to look at its
  directory (`Accounted`). That the first rows of several first rows are the first of
  all, and that there is a last one, are lemmas on finite sets of keys (`MoreBefore`,
  `TopFull`, `LastRow`).

`TaskSchedulerProofs.tla` proves, for any valid batches, limits and crashes,

* `QueueSafe` (`QueueInv`): two lemmas say once which action writes what
  (`WhoWrites`) and where the scheduler may go (`WhereTo`), and `RowsMove` reduces a
  step to the ways in which a row's status moves. Sending is safe because where the
  scheduler is determines its row (`RowAtPc`) and a posted prompt has its send file
  (`PostedTried`). A batch that was superseded stays unsent because a scan only
  visits published batches (`Walk`) and the lock keeps agent and scheduler apart
  (`Locked`). That one request at a time is open needs that everything listed before an
  open request is passed by (`OpenFirst`), also in the scan under way
  (`ScanRight`), and that a blocked batch has none (`BlockedShut`);
* `SettledForGood` (`SettledStays`), from the same moves;
* `OrdersKept` (`KeepsOrders`): every step is one of `QueuePromise` or a stutter.
  A step of a row is one of the promise's moves by where the scheduler is
  (`RequestMoves`), with the invariant that only what was posted is answered
  (`AnswerPosted`); a step of a batch changes no order, unless the
  owner resumes it, and then takes back what was never posted (`RowsTakenBack`). A
  request is done in the promise when its row is `completed`, so that a draft's needs
  are receipts that were verified, not rows that were settled otherwise.

The proof also corrected the model's claim: one open request at a time is only
true of batches that list dependencies first (`InOrder`). In another one, say
`a` after `d`, `d`, `k`, a scan can find `d` completed, send `k` and, at the next tick, send
`a` while `k` is in flight. No document promises otherwise.

`ServiceTunnelsProofs.tla` also proves, for any workspaces and services, any number of
commands and any failures,

* `TunnelSafe` (`TunnelInv`), on every platform. The methods of the tunnel supervisor
  are operators, so what they promise is a lemma about each: a restart, a spawn
  or an ensured configuration leaves no process, or one that serves the lines of the
  routes, or on failure the one that was there with its file (`Handled`); a start or
  a stop with its restoration touches the route of its service only and keeps
  what is served routed (`Promise`). `SVStrong` adds to the invariant
  that a configuration file has lines of its own workspace's services only
  (`OwnLines`), without which a restored file could serve another workspace,
  and where a command may be with what it holds (`CommandsRight`). `TunnelMoves` then says that
  a step is one of seven kinds for the tunnels, and only three of them use a
  promise: a command's, a cleanup task's and the health loop's;
* `RouteKept` (`LiveRouteKept`), from the same kinds of steps: a cleanup task takes a
  route only while nothing listens on the service's port;
* `OthersSpared` (`OthersUntouched`), on every platform: Windows and macOS may end a
  process by its image, which all workspaces share, and only do so while one of this
  workspace lives that resists (`ImageKills`, `Spared`). A restart in between
  cannot widen that, because a stop and a start follow each other only when the
  process ran (`PromiseTwice`).

`AppUpgradeProofs.tla` also proves `ActivationSafe` (`ActivationInv`), for any number of
starts and crashes. What may be stopped is decided by the step: `StepRight` says
which script takes it, what it has looked at before it, and that nobody was stopped
yet; a request that is served when the stop is due came after the last look
(`Idle`); as long as nobody was stopped nothing is dying and the listener is the
one that was found (`Unstopped`), and nothing moves after a verdict (`Final`).

`StoresProofs.tla` proves

* `TasksSafe` (`TaskInv`), for any tasks, requests and clients: every receipt repeats
  an answer that was given (`ReceiptsAnswered`), so a repetition changes nothing at
  all (`ReplaysAreIdle`); tasks and inputs belong to a request that has its receipt
  (`TasksAsked`), so a new one cannot meet its own; the chain of checkpoints is
  inductive as it is stated, because a receipt's revision never exceeds its task's
  (`SavesKnown`);
* `ArchiveSafe` (`ArchiveInv`) and `AnswersStayCurrent` (`AnswersCurrent`), for any
  archivists, crashes and repetitions: one works at a time (`OneWorks`), what it read
  is still so (`ScanFresh`), its record is in the archive before the derived files
  are written (`RecordIn`), and these describe the archives as they are or as they
  were (`DerivedFresh`);
* `PublicSafe` (`PublicInv`), for any visitors: a code is taken by one call (`CodesOnce`),
  and the listener's secret is the saved one, is due for a restart or was replaced
  without one (`SecretSaved`);
* `GateSafe` (`GateInv`), for any runners, commands, built-ins and policies: where a call is tells
  what it has judged and in which surroundings (`ServedAll`), and calls are told
  apart by their numbers (`NumbersOnce`), so that a forecast can be compared with
  what happened later;
* `AuditSafe` (`AuditInv`), for any threads, settings and days: what a thread has
  looked up is not newer than it says (`CallsTimed`), settings in force were saved
  (`SettingsSaved`) and a day is marked after its cleanup only (`Marked`);
* `AccessSafe` (`AccessInv`), for any requests, retentions and days: the open handle is
  that of its date's file or of one that was deleted for its age, and then of no
  other's (`Handle`), and a line that a query was to see is seen, cleared, deleted or
  ahead of it (`ReadingRight`).

Two statements changed with these proofs. A query need not fail when a file that it
was to read goes: a third request, answered on that day and written late, puts a
new file in its place, so `ReadingComplete` excepts the days that were deleted
for their age; the two requests of the run cannot show that. And whether a record
was deleted under settings that were saved was true by the shape of `Snapshot`,
until the settings it looked up were kept apart from those it used.

`RecordsProofs.tla` proves, each for any instance of its component,

* `ReceiptsSafe` (`ReceiptsInv`). What the pages showed says nothing of what is to
  come, so the invariant follows the cursor: what was shown is behind it
  (`Behind`), and a call or patch that there was at the start is shown or ahead of
  it (`CallsAhead`, `PatchesAhead`). Where a page stops is the least of finitely
  many places (`FirstFound`);
* `HarnessSafe` (`HarnessInv`). That an answered call's event is in its log holds however
  calls overlap (`EventsIn`). The rest is about one call at a time (`OneAtATime`):
  the temporary file is its own (`FilesRight`), what it may still do to the tasks
  that are not finished (`TasksRight`), and, if none was cut off, that files
  (`LastSaved`) and logs (`LogsWhole`) lag behind the answers by this call only;
* `DesktopSafe` (`DesktopInv`), where the application begins with what it could have
  saved (`BeginningsAssumption`). The file may be older than what is held and may
  be held again, so both are asked for the same (`HeldSound`, `DiskSound`); that an
  entry serves what is saved rests on starts that are under way (`StartsTrue`) and
  on both sides having the same profiles (`ProfilesFollow`). A lemma about each
  change of what is saved says that it leaves it sound, and `SavingKeeps` that
  saving several such contents, failing or dying anywhere, does;
* `SkillsSafe` (`SkillsInv`), for finitely many files with numbers for their order:
  what is cached or being read is right while the stamp stays (`CachesRight`,
  `TextRight`), what a walk found was there since its call began (`CallsRight`), and a
  page adds to those before it what is next in the order (`ViewsRight`).

The desktop's proof found a slip in the model: in `RemoveWorkspace` a disjunct of
`raced` was within a quantifier over other commands, so with a single command a
deletion beside an entry would not have counted as one; the run has two
commands and could not show it.

### Model-checked only

* Liveness: `JobsProgress` and `CallsEnd` with their parts, `NeverWaitsSilently`,
  `LinesComeBack`. Fairness is an `ENABLED`, which
  the prover does not handle.
* `FilesInv`: `FileSearch` walks trees recursively, reading and patch text are
  folds over data. What they compute for every input would need an induction
  over data; TLC enumerates the inputs up to the bounds.

## 11. Not modelled

Each with its reason in `PROJECT.json`: the desktop's update check, diagnostics, the
tables of tools and schemas, image tools, the desktop's windows. Inside
modelled components: the text of pages and answers, counts and details of the list
of tasks, path mapping for WSL, downloads of the tunnel client and launch agents
of macOS, HTTP upstreams, the managed process of the personal mode, lists of
directories, the import of older data formats, Windows' replacement of a file in
two steps.

One hazard has no property: a limits file changed between launch and start of a
worker (limits.rs:45; the limits are constants).

## 12. Plan

Every safety invariant and step property that a run checks is proved, but for `FilesInv`
(section 10). The jobs, the patches and the task queue implement an abstract specification each
(`JobPromise`, `EditPromise`, `QueuePromise`). Still worth having: the exceptions of `DesktopInv` as
step properties, so that each names the one step that makes it.
