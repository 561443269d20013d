---------------------------- MODULE CommandGate ----------------------------
(***************************************************************************)
(* The way of an exec_command call through the only dispatcher             *)
(* (tools/dispatch.rs) to a process: the audit wrapper and the dispatcher  *)
(* complete the arguments with the default directory, each for itself; the *)
(* policy judges them (tools/policy.rs); the directory and the program are *)
(* resolved again (tools/exec.rs, exec_paths.rs, workspace.rs) and a job,  *)
(* a child or a built-in runs.  Beside the calls, other calls move the     *)
(* default directory, preflights predict an outcome, and the workspace's   *)
(* files change.                                                           *)
(*                                                                         *)
(* What a command's text may break is one value, its flaw.  A directory,   *)
(* and a program in one, is what resolving it finds.  A built-in is of no, *)
(* of a sure (pwd, echo) or of a fallible kind (ls, which); what has input *)
(* is given it before the first wait, unless it is durable.  What becomes  *)
(* of a durable job is DurableJobs, of a child ExecSession.  (Unix.)       *)
(***************************************************************************)
EXTENDS Integers, FiniteSets

CONSTANTS Runners,      \* threads that serve exec_command
          Folders,      \* directories of the workspace, or links in it
          Root,         \* the workspace's own
          Programs,
          Allowed,      \* programs of the allow list
          OnPath,       \* programs installed on the PATH
          LocalEntries, \* workspace_local_entries
          Mode,         \* permission_mode
          Wanted,       \* the commands that are asked for
          NoFolder,
          MaxChanges, MaxMoves, MaxRuns \* bounds

NoWant == [program |-> "none"]

ASSUME GateAssumption ==
  /\ Root \in Folders /\ NoFolder \notin Folders
  /\ Allowed \subseteq Programs /\ OnPath \subseteq Programs
  /\ LocalEntries \in BOOLEAN /\ Mode \in {"safe", "trusted", "dangerous"}
  /\ NoWant \notin Wanted /\ \A w \in Wanted : w.dir \in Folders \cup {NoFolder}
  /\ \A w \in Wanted : w.builtin \in {"no", "sure", "fallible"}
  /\ {MaxChanges, MaxMoves, MaxRuns} \subseteq Nat

\* What the rules on a command's text refuse: for good, without confirm, or in
\* the safe mode.
ForGood == {"empty", "scope", "syntax", "protected", "external"}
Flaws == {"none", "danger", "network", "env"} \cup ForGood

VARIABLES
  folder,    \* of a directory: "inside", "outside", "file" or "gone"
  entry,     \* of a directory and a program: "inside", "outside", "installed" or "none"
  cwd,       \* the default directory
  run,       \* of a runner: its call
  moving,    \* the directory that a set_default_cwd has resolved, or NoFolder
  changes, moves, runs, \* how many there were
  done,      \* the calls that were answered
  launched,  \* the processes and built-ins that began
  forecast   \* the last preflight's answer: [want, ok, grant, changes, moves]

cgvars == <<folder, entry, cwd, run, moving, changes, moves, runs, done, launched, forecast>>
surroundings == <<folder, entry, changes>>

Unasked == [at |-> "idle", want |-> NoWant, nth |-> 0, audited |-> NoFolder, dir |-> NoFolder,
            found |-> "none", started |-> FALSE, outcome |-> "none", changes |-> 0, moves |-> 0]

CGInit ==
  /\ folder = [f \in Folders |-> "inside"]
  /\ entry = [f \in Folders |->
                 [p \in Programs |-> IF p \in Allowed THEN "none" ELSE "inside"]]
  /\ cwd = Root /\ moving = NoFolder
  /\ run = [c \in Runners |-> Unasked]
  /\ changes = 0 /\ moves = 0 /\ runs = 0
  /\ done = {} /\ launched = {} /\ forecast = [want |-> NoWant]

-----------------------------------------------------------------------------
(* Resolution, as the files are now.                                       *)

\* resolve_workdir: what exists and lies inside, be it a file.
Resolves(f) == folder[f] \in {"inside", "file"}
\* A program beside the working directory.
Beside(f, p) == IF folder[f] = "inside" THEN entry[f][p] ELSE "none"

\* apply_default_cwd: not for a command of a task, which is run in the root.
Completed(want, default) ==
  IF want.dir # NoFolder THEN want.dir ELSE IF want.task THEN Root ELSE default

\* The rules on the text, in the mode; the default directory is completed first.
TextAccepted(want) ==
  /\ want.flaw \notin ForGood \cup {"env"}
  /\ want.flaw = "danger" => want.confirm
  /\ want.flaw = "network" => Mode # "safe"

\* validate_command_for_workspace: a directory that was not named is not looked at.
PolicyAccepts(want, f, named) ==
  /\ TextAccepted(want)
  /\ named => Resolves(f)
  /\ \/ want.program \in Allowed
     \/ LocalEntries /\ (Beside(f, want.program) \in {"inside"} \/ want.path)

\* resolve_program: the entry beside comes first, and only where there is none,
\* and no path was given, the PATH.
ProgramFound(want, f) ==
  LET beside == Beside(f, want.program)
  IN CASE beside = "inside" /\ LocalEntries -> "inside"
       [] beside = "installed" /\ want.program \in Allowed -> "installed"
       [] beside = "none" /\ ~want.path /\ want.program \in OnPath -> "path"
       [] OTHER -> "none"

-----------------------------------------------------------------------------
(* set_default_cwd, preflights and other writers.                          *)

ResolveDefault(f) ==
  /\ moving = NoFolder /\ moves < MaxMoves /\ folder[f] = "inside"
  /\ moving' = f
  /\ UNCHANGED <<surroundings, cwd, run, moves, runs, done, launched, forecast>>

StoreDefault ==
  /\ moving # NoFolder
  /\ cwd' = moving /\ moving' = NoFolder /\ moves' = moves + 1
  /\ UNCHANGED <<surroundings, run, runs, done, launched, forecast>>

\* What request_permissions answers for a command.
Permission(ok) ==
  IF Mode # "dangerous" THEN "unsupported" ELSE IF ok THEN "granted" ELSE "denied"

\* command_preflight, for check_command and request_permissions: policy,
\* directory, program and a task's demands; nothing runs.
Preflight(want) ==
  LET f == Completed(want, cwd)
      ok == /\ PolicyAccepts(want, f, want.dir # NoFolder \/ f # Root)
            /\ folder[f] = "inside"
            /\ ProgramFound(want, f) # "none"
            /\ want.task => want.durable /\ want.request
  IN /\ forecast' = [want |-> want, ok |-> ok, grant |-> Permission(ok), changes |-> changes,
                      moves |-> moves]
     /\ UNCHANGED <<surroundings, cwd, run, moving, moves, runs, done, launched>>

FolderChanges ==
  /\ changes < MaxChanges /\ changes' = changes + 1
  /\ \/ \E f \in Folders \ {Root}, k \in {"inside", "outside", "file", "gone"} :
          folder[f] # k /\ folder' = [folder EXCEPT ![f] = k] /\ UNCHANGED entry
     \/ \E f \in Folders, p \in Programs, k \in {"inside", "outside", "installed", "none"} :
          /\ k = "installed" => p \in OnPath
          /\ entry[f][p] # k /\ entry' = [entry EXCEPT ![f][p] = k] /\ UNCHANGED folder
  /\ UNCHANGED <<cwd, run, moving, moves, runs, done, launched, forecast>>

-----------------------------------------------------------------------------
(* A call.                                                                 *)

Stand(c, at) == run[c].at = at
Become(c, r) == run' = [run EXCEPT ![c] = r]
RestOfGate == <<surroundings, cwd, moving, moves, runs, forecast>>

\* call_tool_with_audit: the arguments for the record, with the default directory.
TakeArguments(c, want) ==
  /\ Stand(c, "idle") /\ runs < MaxRuns /\ runs' = runs + 1
  /\ Become(c, [Unasked EXCEPT !.at = "complete", !.want = want, !.nth = runs',
                               !.audited = Completed(want, cwd), !.changes = changes,
                               !.moves = moves])
  /\ UNCHANGED <<surroundings, cwd, moving, moves, done, launched, forecast>>

\* call_tool: the arguments that are used, with the default directory again.
CompleteArguments(c) ==
  /\ Stand(c, "complete")
  /\ Become(c, [run[c] EXCEPT !.at = "policy", !.dir = Completed(run[c].want, cwd)])
  /\ UNCHANGED <<RestOfGate, done, launched>>

\* The call ends with an error: no process of its own, unless one had begun.
DenyCall(c, at) == Become(c, [run[c] EXCEPT !.at = "record", !.outcome = at])

JudgeCommand(c) ==
  LET r == run[c]
  IN /\ Stand(c, "policy")
     /\ IF PolicyAccepts(r.want, r.dir, r.want.dir # NoFolder \/ r.dir # Root)
        THEN Become(c, [r EXCEPT !.at = "locate"])
        ELSE DenyCall(c, "policy")
     /\ UNCHANGED <<RestOfGate, done, launched>>

\* Mutant: the directory that the policy saw is taken as it was.
LocateFolderOnce(c) ==
  LET r == run[c]
  IN /\ Stand(c, "locate") /\ UNCHANGED launched
     /\ Become(c, [r EXCEPT !.at = "resolve"])
     /\ UNCHANGED <<RestOfGate, done>>

\* exec_command: the directory once more, which must be one; then a built-in is
\* done at once, if it can be, and a task's command must be durable.
LocateFolder(c) ==
  LET r == run[c]
  IN /\ Stand(c, "locate")
     /\ IF folder[r.dir] # "inside" THEN DenyCall(c, "folder") /\ UNCHANGED launched
        ELSE IF r.want.builtin # "no"
        THEN \/ /\ launched' = launched \cup {[nth |-> r.nth, dir |-> r.dir, found |-> "builtin"]}
                /\ Become(c, [r EXCEPT !.at = "record", !.started = TRUE, !.outcome = "ran"])
             \/ r.want.builtin = "fallible" /\ DenyCall(c, "builtin") /\ UNCHANGED launched
        ELSE /\ UNCHANGED launched
             /\ IF r.want.task /\ ~r.want.durable THEN DenyCall(c, "task")
                ELSE Become(c, [r EXCEPT !.at = "resolve"])
     /\ UNCHANGED <<RestOfGate, done>>

\* parse_and_resolve; then a durable command of a task needs a request id.
ResolveProgram(c) ==
  LET r == run[c]
      found == ProgramFound(r.want, r.dir)
  IN /\ Stand(c, "resolve")
     /\ IF found = "none" THEN DenyCall(c, "program")
        ELSE IF r.want.task /\ ~r.want.request THEN DenyCall(c, "task")
        ELSE Become(c, [r EXCEPT !.at = "launch", !.found = found])
     /\ UNCHANGED <<RestOfGate, done, launched>>

\* A durable command becomes a job, which the worker starts later, or is not
\* admitted; any other is a child now, unless its directory went.
LaunchProgram(c) ==
  LET r == run[c]
      mark == [nth |-> r.nth, dir |-> r.dir, found |-> r.found]
  IN /\ Stand(c, "launch")
     /\ \/ /\ r.want.durable \/ folder[r.dir] # "gone"
           /\ launched' = launched \cup {mark}
           /\ Become(c, [r EXCEPT !.at = "wait", !.started = TRUE])
        \/ DenyCall(c, "launch") /\ UNCHANGED launched
     /\ UNCHANGED <<RestOfGate, done>>

\* Errors that come when something has begun: a job's row cannot be read, the
\* input of a child cannot be written (nobody watches that child's time, then),
\* and a child is killed for its time.
Overtaken(want, end) ==
  \/ end = "wait" /\ want.durable
  \/ end = "stdin" /\ ~want.durable /\ want.input
  \/ end = "timeout" /\ ~want.durable

\* What the first wait shows.
FirstWait(c) ==
  /\ Stand(c, "wait")
  /\ \/ Become(c, [run[c] EXCEPT !.at = "record", !.outcome = "ran"])
     \/ \E end \in {"wait", "stdin", "timeout"} :
          Overtaken(run[c].want, end) /\ DenyCall(c, end)
  /\ UNCHANGED <<RestOfGate, done, launched>>

\* The record of the audit, and the answer.
RecordCall(c) ==
  /\ Stand(c, "record")
  /\ done' = done \cup {[run[c] EXCEPT !.at = "record"]}
  /\ Become(c, Unasked)
  /\ UNCHANGED <<RestOfGate, launched>>

CGNext ==
  \/ \E f \in Folders : ResolveDefault(f)
  \/ StoreDefault \/ FolderChanges
  \/ \E w \in Wanted : Preflight(w)
  \/ \E c \in Runners, w \in Wanted : TakeArguments(c, w)
  \/ \E c \in Runners :
       \/ CompleteArguments(c) \/ JudgeCommand(c) \/ LocateFolder(c) \/ ResolveProgram(c)
       \/ LaunchProgram(c) \/ FirstWait(c) \/ RecordCall(c)

CGSpec == CGInit /\ [][CGNext]_cgvars

-----------------------------------------------------------------------------
(* Properties.                                                             *)

\* The outcomes that a preflight is about.
Refusals == {"policy", "folder", "program", "task"}

\* A call whose files and default directory stayed as a preflight saw them ends
\* as it said: allowed or granted, it is refused by nothing that a preflight looks
\* at; denied, it is refused, but for a built-in.
ForecastsHold ==
  \A d \in done :
    LET p == forecast IN
    p.want = d.want /\ p.changes = d.changes /\ p.moves = d.moves /\ d.changes = changes
      /\ d.moves = moves =>
      /\ p.ok \/ p.grant = "granted" => d.outcome \notin Refusals
      /\ ~p.ok /\ d.want.builtin = "no" => d.outcome \in Refusals

\* The record names the directory that was used, unless the default directory
\* moved during the call.
RecordsTrue ==
  \A d \in done :
    d.dir = d.audited \/ (d.want.dir = NoFolder /\ ~d.want.task /\ moves > d.moves)

\* An answer of an error means that nothing of the call began, but for a job whose
\* row could not be read, a child that was given no input and one out of time.
ErrorsHarmless ==
  \A d \in done :
    /\ d.started <=> \E l \in launched : l.nth = d.nth
    /\ d.started /\ d.outcome # "ran" => Overtaken(d.want, d.outcome)

\* Types, and the three above: dispatch.rs:109-127, 346-389 and 424-476, with
\* policy.rs:173-313 and exec.rs:19-207, beside callers that move the default
\* directory and writers that change the files.
GateInv ==
  /\ cwd \in Folders /\ moving \in Folders \cup {NoFolder}
  /\ \A c \in Runners : run[c].audited \in Folders \cup {NoFolder}
  /\ ForecastsHold /\ RecordsTrue /\ ErrorsHarmless
=============================================================================
