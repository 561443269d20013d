------------------------- MODULE ServiceActivation -------------------------
(***************************************************************************)
(* The two scripts that put an installed application into service without  *)
(* losing work: scripts/service_personal.py replaces whatever listens on   *)
(* the profile's port by the LaunchAgent's process, and                    *)
(* scripts/restart_personal.py reloads the agent.  Requests, jobs, edits   *)
(* of the configuration and crashes go on meanwhile, launchd starts the    *)
(* agent again whenever it is loaded and the port is free, and either      *)
(* script may die after any step.                                          *)
(***************************************************************************)
EXTENDS Integers, TLC

CONSTANTS MaxStarts,  \* bound: processes that listen on the port
          MaxFalls  \* bound: listeners that crash by themselves

ASSUME ActivationAssumption == {MaxStarts, MaxFalls} \subseteq Nat

None == [kind |-> "none", pid |-> 0, fresh |-> FALSE]

VARIABLES
  script,   \* which script, with its arguments: [name, handover, restart]
  listener, \* who has the port: [kind, pid, fresh], fresh if of the installed version
  loaded,   \* launchd knows the agent
  plist,    \* the agent's definition: "absent", "ours" or "other"
  config,   \* 0 as at the start, 1 edited
  foreign, busy,  \* a job of another task is open, or one is unknown; a request is served
  dying,    \* the listener was told to end and has not ended yet
  started, falls,
  at,       \* the script's next step
  found,    \* the listener the script found
  idleLooks, \* consecutive idle samples
  proven,   \* the candidate answered on a port of its own
  verdict,  \* [status, stopped, unchanged, pid]
  cameLate, \* (history) the request that is served came after the last look
  cut       \* (history) what was stopped with the listener: "none", "late" or "known"

savars == <<script, listener, loaded, plist, config, foreign, busy, dying, started, falls,
            at, found, idleLooks, proven, verdict, cameLate, cut>>
around == <<listener, loaded, plist, config, foreign, busy, dying, started, falls, cameLate, cut>>
notes == <<script, found, idleLooks, proven>>

Scripts == [name : {"activate", "restart"}, handover : BOOLEAN, restart : BOOLEAN]
NoReport == [status |-> "none", stopped |-> FALSE, unchanged |-> FALSE, pid |-> 0]

SAInit ==
  /\ script \in Scripts
  /\ listener \in {None} \cup [kind : {"gui", "agent"}, pid : {1}, fresh : BOOLEAN]
  /\ loaded \in (IF listener.kind = "agent" THEN {TRUE}
                 ELSE IF listener.kind = "gui" THEN {FALSE} ELSE BOOLEAN)
  /\ plist \in (IF listener.kind = "agent" THEN {"ours"} ELSE {"absent", "ours", "other"})
  /\ config = 0 /\ foreign = FALSE /\ busy \in BOOLEAN /\ (busy => listener # None)
  /\ dying = FALSE /\ started = 1 /\ falls = 0
  /\ at = "look" /\ found = None /\ idleLooks = 0 /\ proven = FALSE /\ verdict = NoReport
  /\ cameLate = FALSE /\ cut = "none"

-----------------------------------------------------------------------------
(* What goes on around the script.                                         *)

Running == at \notin {"done", "dead"}

\* A job of another task is admitted, or settles.
ForeignJob ==
  /\ Running /\ foreign' = ~foreign
  /\ UNCHANGED <<script, listener, loaded, plist, config, busy, dying, started, falls,
                 at, found, idleLooks, proven, verdict, cameLate, cut>>

Request ==
  /\ Running /\ listener # None /\ ~busy
  /\ busy' = TRUE /\ cameLate' = (at = "stop")
  /\ UNCHANGED <<script, listener, loaded, plist, config, foreign, dying, started, falls,
                 at, found, idleLooks, proven, verdict, cut>>

RequestEnds ==
  /\ busy /\ busy' = FALSE /\ cameLate' = FALSE
  /\ UNCHANGED <<script, listener, loaded, plist, config, foreign, dying, started, falls,
                 at, found, idleLooks, proven, verdict, cut>>

EditConfiguration ==
  /\ Running /\ config' = 1
  /\ UNCHANGED <<script, listener, loaded, plist, foreign, busy, dying, started, falls,
                 at, found, idleLooks, proven, verdict, cameLate, cut>>

\* KeepAlive.
AgentStarts ==
  /\ loaded /\ listener = None /\ started < MaxStarts
  /\ listener' = [kind |-> "agent", pid |-> started + 1, fresh |-> TRUE]
  /\ started' = started + 1
  /\ UNCHANGED <<script, loaded, plist, config, foreign, busy, dying, falls,
                 at, found, idleLooks, proven, verdict, cameLate, cut>>

Gone == /\ listener' = None /\ busy' = FALSE /\ cameLate' = FALSE /\ dying' = FALSE

ListenerCrashes ==
  /\ Running /\ listener # None /\ ~dying /\ falls < MaxFalls
  /\ Gone /\ falls' = falls + 1
  /\ UNCHANGED <<script, loaded, plist, config, foreign, started,
                 at, found, idleLooks, proven, verdict, cut>>

\* The process that was told to end closes the port, now or too late.
ListenerEnds ==
  /\ dying /\ Gone
  /\ UNCHANGED <<script, loaded, plist, config, foreign, started, falls,
                 at, found, idleLooks, proven, verdict, cut>>

-----------------------------------------------------------------------------
(* What the scripts share.                                                 *)

Step(from, to) == at = from /\ at' = to
Quiet == UNCHANGED around

\* An error: the report says whether the old listener was stopped, and a stop
\* is followed by the recovery of the port.
Fail ==
  IF script.name = "restart"
    THEN at' = "done" /\ verdict' = [verdict EXCEPT !.status = "not_verified"]
  ELSE IF verdict.stopped THEN at' = "recover" /\ UNCHANGED verdict
  ELSE at' = "done" /\ verdict' = [verdict EXCEPT !.status = "blocked"]
FailAt(step) == at = step /\ Fail /\ Quiet /\ UNCHANGED notes

\* The process that launchd has as the agent's.
AgentPid == IF loaded /\ listener.kind = "agent" THEN listener.pid ELSE 0
Healthy == listener # None /\ listener.fresh /\ ~dying
\* Requests are found in the log, jobs in the store, each time with what was
\* committed last.
NoForeignJob == ~foreign
NoWork == NoForeignJob /\ ~busy
\* The agent as it is registered runs that process.
Managed(p) == plist = "ours" /\ AgentPid = p.pid

\* The installed application is started on a port of its own, and stopped.
Prove ==
  /\ Step("prove", IF script.name = "activate" THEN "jobs" ELSE "settle")
  /\ proven' = TRUE /\ Quiet /\ UNCHANGED <<script, found, idleLooks, verdict>>

\* Listeners are told to end; what they serve at that moment is cut off.
Told ==
  /\ cut' = IF ~busy THEN cut ELSE IF cameLate THEN "late" ELSE "known"
  /\ dying' = TRUE
  /\ UNCHANGED <<listener, loaded, plist, config, foreign, busy, started, falls, cameLate>>

-----------------------------------------------------------------------------
(* activate.                                                               *)

\* Only the listener that the caller named is replaced: the application's
\* window process, or the agent when its restart was asked for.
MayReplace ==
  /\ script.handover
  /\ IF listener.kind = "gui" THEN ~script.restart
     ELSE script.restart /\ Managed(listener)

Look ==
  /\ script.name = "activate" /\ at = "look"
  /\ found' = listener /\ Quiet /\ UNCHANGED <<script, idleLooks, proven>>
  /\ IF listener = None \/ (~listener.fresh /\ MayReplace)
       THEN at' = "prove" /\ UNCHANGED verdict
     ELSE IF listener.fresh
       THEN at' = "done" /\ verdict' = [verdict EXCEPT !.status = "already_running"]
     ELSE at' = "done" /\ verdict' = [verdict EXCEPT !.status = "blocked"]

LookForJobs ==
  /\ NoForeignJob /\ Step("jobs", IF found = None THEN "compare" ELSE "sample")
  /\ Quiet /\ UNCHANGED <<notes, verdict>>

Sample ==
  /\ NoForeignJob /\ at = "sample"
  /\ idleLooks' = IF busy THEN 0 ELSE idleLooks + 1
  /\ at' = IF idleLooks' = 2 THEN "compare" ELSE "sample"
  /\ Quiet /\ UNCHANGED <<script, found, proven, verdict>>

Compare ==
  /\ config = 0 /\ listener = found /\ Step("compare", "define")
  /\ Quiet /\ UNCHANGED <<notes, verdict>>

Define ==
  /\ plist # "other"
  /\ Step("define", IF found = None THEN "bootstrap" ELSE "last")
  /\ plist' = "ours"
  /\ UNCHANGED <<listener, loaded, config, foreign, busy, dying, started, falls, cameLate, cut,
                 notes, verdict>>

\* Mutant: the requests are not looked at again.
LastLookAtJobs ==
  /\ NoForeignJob
  /\ (script.restart => listener = found /\ Managed(found))
  /\ Step("last", "stop") /\ Quiet /\ UNCHANGED <<notes, verdict>>

LastLook ==
  /\ NoWork
  /\ (script.restart => listener = found /\ Managed(found))
  /\ Step("last", "stop") /\ Quiet /\ UNCHANGED <<notes, verdict>>

\* SIGTERM, to that process and no other.
Stop ==
  /\ listener = found /\ script.name = "activate"
  /\ Step("stop", IF script.restart THEN "health" ELSE "release")
  /\ verdict' = [verdict EXCEPT !.stopped = TRUE]
  /\ Told /\ UNCHANGED notes

\* The process is gone, which is an error like any other.
StopNobody == listener # found /\ script.name = "activate" /\ FailAt("stop")

Released ==
  /\ listener = None /\ Step("release", "bootstrap") /\ Quiet /\ UNCHANGED <<notes, verdict>>

\* Its exit code is reported and nothing more: the agent may be loaded already.
Bootstrap ==
  /\ Step("bootstrap", "health")
  /\ loaded' \in {loaded, TRUE}
  /\ UNCHANGED <<listener, plist, config, foreign, busy, dying, started, falls, cameLate, cut,
                 notes, verdict>>

Served ==
  /\ Healthy /\ script.name = "activate" /\ at = "health"
  /\ verdict' = [verdict EXCEPT !.status = IF config = 0 THEN "running" ELSE @,
                              !.unchanged = (config = 0), !.pid = listener.pid]
  /\ at' = IF config = 0 THEN "done" ELSE IF verdict.stopped THEN "recover" ELSE "drifted"
  /\ Quiet /\ UNCHANGED notes

\* Any look may find what it must not find, and any wait may run out.
Refuse ==
  /\ script.name = "activate"
  /\ \/ FailAt("prove")
     \/ foreign /\ FailAt("jobs")
     \/ FailAt("sample")
     \/ (config = 1 \/ listener # found) /\ FailAt("compare")
     \/ plist = "other" /\ FailAt("define")
     \/ (~NoWork \/ (script.restart /\ listener # found)) /\ FailAt("last")
     \/ listener # None /\ FailAt("release")
     \/ FailAt("health")
     \/ FailAt("drifted")

\* The port must not stay without a listener once the old one was told to end.
Recover ==
  /\ Step("recover", IF listener = None THEN "fallback" ELSE "verify")
  /\ Quiet /\ UNCHANGED <<notes, verdict>>

\* A second look is not taken: the process that finds the port taken ends.
Fallback ==
  /\ Step("fallback", "verify")
  /\ IF listener = None /\ started < MaxStarts
       THEN /\ listener' = [kind |-> "fallback", pid |-> started + 1, fresh |-> TRUE]
            /\ started' = started + 1
       ELSE UNCHANGED <<listener, started>>
  /\ UNCHANGED <<loaded, plist, config, foreign, busy, dying, falls, cameLate, cut, notes, verdict>>

Verify ==
  /\ Step("verify", "done")
  /\ \/ /\ Healthy
        /\ verdict' = [verdict EXCEPT !.status = "running_fallback", !.pid = listener.pid,
                                    !.unchanged = (config = 0)]
     \/ verdict' = [verdict EXCEPT !.status = "activation_failed"]
  /\ Quiet /\ UNCHANGED notes

-----------------------------------------------------------------------------
(* restart_personal.                                                       *)

Identify ==
  /\ script.name = "restart" /\ at = "look"
  /\ found' = listener
  /\ IF plist = "ours" /\ AgentPid # 0 THEN at' = "prove" /\ UNCHANGED verdict ELSE Fail
  /\ Quiet /\ UNCHANGED <<script, idleLooks, proven>>

\* Until it is idle or ten seconds are over, and then three looks in a row.
Settle ==
  /\ Step("settle", "guard") /\ Quiet /\ UNCHANGED <<notes, verdict>>

Guard ==
  /\ at = "guard" /\ NoWork /\ config = 0 /\ AgentPid = found.pid
  /\ idleLooks' = idleLooks + 1 /\ at' = IF idleLooks' = 3 THEN "stop" ELSE "guard"
  /\ Quiet /\ UNCHANGED <<script, found, proven, verdict>>

\* launchctl kickstart -k: whatever process the agent has now.
Kickstart ==
  /\ script.name = "restart" /\ Step("stop", "health")
  /\ verdict' = [verdict EXCEPT !.stopped = TRUE]
  /\ IF listener.kind = "agent" THEN Told ELSE Quiet
  /\ UNCHANGED notes

Readback ==
  /\ script.name = "restart" /\ Healthy /\ at = "health"
  /\ IF config = 0 /\ AgentPid # 0 /\ AgentPid # found.pid
       THEN /\ verdict' = [verdict EXCEPT !.status = "running", !.unchanged = TRUE,
                                        !.pid = listener.pid]
            /\ at' = "done"
       ELSE Fail
  /\ Quiet /\ UNCHANGED notes

RefuseRestart ==
  /\ script.name = "restart"
  /\ \/ FailAt("prove")
     \/ ~(NoWork /\ config = 0 /\ AgentPid = found.pid) /\ FailAt("guard")
     \/ FailAt("stop")
     \/ FailAt("health")

Die == Running /\ at' = "dead" /\ Quiet /\ UNCHANGED <<notes, verdict>>

SANext ==
  \/ ForeignJob \/ Request \/ RequestEnds \/ EditConfiguration \/ AgentStarts
  \/ ListenerCrashes \/ ListenerEnds
  \/ Prove \/ Die
  \/ Look \/ LookForJobs \/ Sample \/ Compare \/ Define \/ LastLook \/ Stop \/ StopNobody
  \/ Released \/ Bootstrap \/ Served \/ Refuse \/ Recover \/ Fallback \/ Verify
  \/ Identify \/ Settle \/ Guard \/ Kickstart \/ Readback \/ RefuseRestart

SASpec == SAInit /\ [][SANext]_savars

-----------------------------------------------------------------------------
\* What was being served at the last look is never cut off: a listener is told
\* to end only after the installed application has answered and after two idle
\* samples and another look, and only what came later can be hit.
OnlyLateWorkCut ==
  /\ cut # "known"
  /\ verdict.stopped => proven /\ idleLooks >= 2

\* A refusal has left everything as it was: nobody was stopped, unless the
\* listener crashed by itself, and no other definition was overwritten.
RefusalsHarmless ==
  verdict.status \in {"blocked", "already_running"} /\ falls = 0 =>
    /\ ~verdict.stopped /\ cut = "none"
    /\ found # None => listener = found /\ ~dying

\* A success is one: the port is served by a new process of the installed
\* version, the one that is reported, unless it crashed since.
SuccessTrue ==
  verdict.status \in {"running", "running_fallback"} /\ falls = 0 =>
    listener.fresh /\ listener.pid = verdict.pid /\ listener # found

ActivationInv == OnlyLateWorkCut /\ RefusalsHarmless /\ SuccessTrue
=============================================================================
