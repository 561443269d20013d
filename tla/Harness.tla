------------------------------ MODULE Harness ------------------------------
(***************************************************************************)
(* The harness's tasks and their event logs (harness/state.rs, store.rs,   *)
(* tools.rs): calls of clients that run at the same time, each a sequence  *)
(* of reads and writes of files without any lock.  A task is a JSON file   *)
(* that is replaced by renaming one temporary file of a fixed name onto    *)
(* it; a log is a file of lines, and a line is written in two pieces.      *)
(*                                                                         *)
(* The harness keeps nothing in memory.  state.json, which is written and  *)
(* never read, is left out, and so are the operation log's lines, which    *)
(* are appended and listed as events are.                                  *)
(***************************************************************************)
EXTENDS Integers, Sequences, FiniteSets

CONSTANTS Clients,
          MaxHarnessTasks,       \* bound: tasks
          MaxRequests,    \* bound: calls
          MaxEnds         \* bound: ends of the process in the middle of calls

ASSUME HarnessAssumption == {MaxHarnessTasks, MaxRequests, MaxEnds} \subseteq Nat

TaskIds == 1..MaxHarnessTasks
Statuses == {"active", "paused", "verifying", "failed", "completed",
             "completed_unverified", "rolled_back"}
IsWritable == {"active", "paused", "verifying", "failed"}
CanTransition ==
  {<<"active", "paused">>, <<"active", "verifying">>, <<"active", "failed">>,
   <<"active", "completed_unverified">>, <<"paused", "active">>,
   <<"verifying", "completed">>, <<"verifying", "completed_unverified">>,
   <<"verifying", "failed">>, <<"failed", "active">>, <<"failed", "rolled_back">>}
\* What pause_task, resume_task and finish_task ask for.
NextAsked == {"paused", "active", "verifying", "completed_unverified"}

Torn == [status |-> "torn", steps |-> 0]   \* a file that is no JSON
Absent == [status |-> "absent", steps |-> 0]
NewLine == 0

VARIABLES
  disk,      \* of a task: the file and the temporary file beside it
  logs,      \* of a task: what was written, events (numbered by request) and NewLine
  active,     \* of a client: [at, task, new, fd, request]
  requests,  \* calls begun
  ends,      \* ends of the process
  overlapped,\* a call began while another was under way
  told       \* the answers of calls that succeeded: [request, task, saved]

hnvars == <<disk, logs, active, requests, ends, overlapped, told>>

Free == [at |-> "idle", task |-> 0, new |-> Absent, fd |-> "none", request |-> 0]

HNInit ==
  /\ disk = [t \in TaskIds |-> [file |-> Absent, temp |-> Absent]]
  /\ logs = [t \in TaskIds |-> <<>>]
  /\ active = [c \in Clients |-> Free]
  /\ requests = 0 /\ ends = 0 /\ overlapped = FALSE /\ told = {}

Put(call, at, fd) ==
  [at |-> at, task |-> call.task, new |-> call.new, fd |-> fd, request |-> call.request]
GoTo(c, at) == active' = [active EXCEPT ![c].at = at]
At(c, at) == active[c].at = at
Release(c) == active' = [active EXCEPT ![c] = Free]

Readable(t) == disk[t].file \notin {Absent, Torn}
\* What current_task looks for: a file that cannot be read is passed over.
WritableTasks == {t \in TaskIds : Readable(t) /\ disk[t].file.status \in IsWritable}

-----------------------------------------------------------------------------
(* The calls.                                                              *)

Enter(c, t, new) ==
  /\ At(c, "idle") /\ requests < MaxRequests
  /\ requests' = requests + 1
  /\ active' = [active EXCEPT ![c] = [at |-> "open", task |-> t, new |-> new, fd |-> "none",
                                     request |-> requests + 1]]
  /\ overlapped' = (overlapped \/ \E o \in Clients : ~At(o, "idle"))
  /\ UNCHANGED <<disk, logs, ends, told>>

\* start_task: refused with a task that is not finished; the new task, with a
\* fresh id, is saved later.
StartTask(c) ==
  \E t \in TaskIds :
    /\ disk[t] = [file |-> Absent, temp |-> Absent]
    /\ \A o \in Clients : active[o].task # t
    /\ WritableTasks = {}
    /\ Enter(c, t, [status |-> "active", steps |-> 0])

\* transition: from the status that is read now.
Transition(c) ==
  \E t \in TaskIds, next \in NextAsked :
    /\ Readable(t) /\ <<disk[t].file.status, next>> \in CanTransition
    /\ Enter(c, t, [disk[t].file EXCEPT !.status = next])

\* update_steps: the steps of this request with all else that is read now.
UpdateSteps(c) ==
  \E t \in TaskIds : Readable(t) /\ Enter(c, t, [disk[t].file EXCEPT !.steps = requests + 1])

-----------------------------------------------------------------------------
(* atomic_write_json: the temporary file is opened and emptied, filled and *)
(* renamed.  Clients that have one task's file open at once share it.      *)

\* Mutant: the file itself is opened and emptied.
OpenFile(c) ==
  LET t == active[c].task
  IN /\ At(c, "open")
     /\ disk' = [disk EXCEPT ![t].file = Torn]
     /\ active' = [active EXCEPT ![c] = Put(@, "fill", "file")]
     /\ UNCHANGED <<logs, requests, ends, overlapped, told>>

OpenTemp(c) ==
  LET t == active[c].task
  IN /\ At(c, "open")
     /\ disk' = [disk EXCEPT ![t].temp = Torn]
     /\ active' = [active EXCEPT ![c] = Put(@, "fill", "temp")]
     /\ UNCHANGED <<logs, requests, ends, overlapped, told>>

\* Over what another client wrote, whose tail may be left.
Filled(old, new) == IF old \in {Torn, new} THEN {new} ELSE {new, Torn}

FillTemp(c) ==
  LET t == active[c].task
  IN /\ At(c, "fill") /\ GoTo(c, "rename")
     /\ CASE active[c].fd = "temp" ->
               \E now \in Filled(disk[t].temp, active[c].new) :
                 disk' = [disk EXCEPT ![t].temp = now]
          [] active[c].fd = "file" ->
               \E now \in Filled(disk[t].file, active[c].new) :
                 disk' = [disk EXCEPT ![t].file = now]
          [] OTHER -> UNCHANGED disk
     /\ UNCHANGED <<logs, requests, ends, overlapped, told>>

\* Where a client's open file is once the temporary one has been renamed.
Moved(call, t) ==
  IF call.task # t THEN call
  ELSE Put(call, call.at, CASE call.fd = "temp" -> "file"
                            [] call.fd = "file" -> "gone"
                            [] OTHER -> call.fd)

RenameTemp(c) ==
  LET t == active[c].task
  IN /\ At(c, "rename")
     /\ IF disk[t].temp # Absent
        THEN /\ disk' = [disk EXCEPT ![t] = [file |-> disk[t].temp, temp |-> Absent]]
             /\ active' = [o \in Clients |->
                            IF o = c THEN Put(active[c], "event", "none")
                            ELSE Moved(active[o], t)]
        ELSE Release(c) /\ UNCHANGED disk
     /\ UNCHANGED <<logs, requests, ends, overlapped, told>>

-----------------------------------------------------------------------------
(* record_event, the answer, and the listing of a log.                     *)

WriteEvent(c) ==
  /\ At(c, "event") /\ GoTo(c, "newline")
  /\ logs' = [logs EXCEPT ![active[c].task] = Append(@, active[c].request)]
  /\ UNCHANGED <<disk, requests, ends, overlapped, told>>

EndLine(c) ==
  /\ At(c, "newline") /\ GoTo(c, "answer")
  /\ logs' = [logs EXCEPT ![active[c].task] = Append(@, NewLine)]
  /\ UNCHANGED <<disk, requests, ends, overlapped, told>>

AnswerTool(c) ==
  /\ At(c, "answer") /\ Release(c)
  /\ told' = told \cup {[request |-> active[c].request, task |-> active[c].task,
                         saved |-> active[c].new]}
  /\ UNCHANGED <<disk, logs, requests, ends, overlapped>>

\* list_events from its start: the lines up to the first that is not one event, each by the
\* place of its first piece.
LogLines(log) == {i \in 1..Len(log) : i = 1 \/ log[i - 1] = NewLine}
IsEvent(log, i) == log[i] # NewLine /\ (i = Len(log) \/ log[i + 1] = NewLine)
ListEvents(log) ==
  {i \in LogLines(log) : \A j \in LogLines(log) : j <= i => IsEvent(log, j)}

-----------------------------------------------------------------------------
(* The end of the process, in the middle of calls.                         *)

ProcessEnds ==
  /\ ends < MaxEnds /\ \E c \in Clients : ~At(c, "idle")
  /\ ends' = ends + 1
  /\ active' = [c \in Clients |-> Free]
  /\ UNCHANGED <<disk, logs, requests, overlapped, told>>

HNNext ==
  \/ \E c \in Clients : StartTask(c) \/ Transition(c) \/ UpdateSteps(c)
  \/ \E c \in Clients : OpenTemp(c) \/ FillTemp(c) \/ RenameTemp(c)
  \/ \E c \in Clients : WriteEvent(c) \/ EndLine(c) \/ AnswerTool(c)
  \/ ProcessEnds

HNSpec == HNInit /\ [][HNNext]_hnvars

-----------------------------------------------------------------------------
(* Properties.  Nothing keeps two calls apart, so most of them are about   *)
(* calls that do not overlap, interrupted or not.                          *)

\* At most one task is not finished, and what a finished task says is final,
\* even after the process ended in the middle of calls.
OneTask ==
  overlapped \/
  /\ Cardinality(WritableTasks) <= 1
  /\ \A a \in told : a.saved.status \notin IsWritable => disk[a.task].file.status = a.saved.status

\* No file is ever half written, and what was last answered of a task is what
\* its file says, or a call that was cut off came after it.
TasksWhole ==
  overlapped \/ \A t \in TaskIds :
    /\ disk[t].file # Torn
    /\ (ends = 0 /\ \A c \in Clients : At(c, "idle")) =>
         \A a \in told : (a.task = t /\ \A n \in told : n.task = t => n.request <= a.request)
                           => disk[t].file = a.saved

\* Whatever overlaps or is cut off, the event of every call that was answered is in
\* its log, and a listing leaves nothing out before what it shows; with calls one after
\* the other and none of them cut off, it shows every call that was answered.
LogsTrue ==
  \A t \in TaskIds :
    /\ \A i \in ListEvents(logs[t]) : \A j \in 1..i : logs[t][j] # NewLine => j \in ListEvents(logs[t])
    /\ \A a \in told : a.task = t =>
         /\ \E i \in 1..Len(logs[t]) : logs[t][i] = a.request
         /\ ~overlapped /\ ends = 0 => \E i \in ListEvents(logs[t]) : logs[t][i] = a.request

\* Types, and the three above: harness/state.rs:54-205 under calls that are cut
\* off at any point, and what of it is left when they overlap.
HarnessInv ==
  /\ disk \in [TaskIds -> [file : [status : Statuses \cup {"absent", "torn"}, steps : Nat],
                           temp : [status : Statuses \cup {"absent", "torn"}, steps : Nat]]]
  /\ \A c \in Clients : active[c].at \in {"idle", "open", "fill", "rename", "event",
                                           "newline", "answer"}
  /\ OneTask /\ TasksWhole /\ LogsTrue
=============================================================================
