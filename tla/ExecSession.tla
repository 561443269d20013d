---------------------------- MODULE ExecSession ----------------------------
(***************************************************************************)
(* One interactive session: a command started by exec_command              *)
(* (tools/exec.rs run_command, its timeout monitor and its eviction) and   *)
(* the calls that observe, feed and kill it through the session store      *)
(* (tools/session.rs).  Sessions share nothing but the map, so one session *)
(* with any number of callers is the whole of it.                          *)
(*                                                                         *)
(* `child` is the async mutex around the process handle: whoever waits for *)
(* the process holds it, and every look at the status needs it.            *)
(***************************************************************************)
EXTENDS Integers, FiniteSets

CONSTANTS Users,   \* callers of write_stdin, read_output and kill_session
          MaxUses  \* bound: their calls

ASSUME SessionAssumption == {"run", "mon"} \cap Users = {} /\ MaxUses \in Nat

Agents == {"run", "mon"} \cup Users

VARIABLES
  stored,        \* the session is in the map
  proc, killed,  \* the process: "none", "running", "ended"; SIGKILL was sent
  exited, cause, \* the status on record, and termination_reason
  tty, late,     \* the caller asked for a terminal; the deadline has passed
  child,         \* who holds the handle
  stage,         \* where the call, the monitor and the users are
  evict,         \* eviction timers that run
  replied,       \* what exec_command answered
  uses           \* how much of the bound is used

esvars == <<stored, proc, killed, exited, cause, tty, late, child, stage, evict, replied,
            uses>>

ESInit ==
  /\ stored = FALSE /\ proc = "none" /\ killed = FALSE
  /\ exited = FALSE /\ cause = "none"
  /\ tty \in BOOLEAN /\ late = FALSE
  /\ child = "free" /\ stage = [a \in Agents |-> IF a = "run" THEN "start" ELSE "none"]
  /\ evict = {} /\ replied = "nothing" /\ uses = 0

-----------------------------------------------------------------------------
Moves(a, s) == stage' = [stage EXCEPT ![a] = s]

\* record_exit_status keeps a reason that was marked before.
RecordExit == exited' = TRUE /\ cause' = IF cause = "none" THEN "exited" ELSE cause
\* refresh_status: try_wait under the handle's mutex.
Looks == /\ child = "free"
         /\ IF proc = "ended" /\ ~exited THEN RecordExit ELSE UNCHANGED <<exited, cause>>
ExitSeen == exited \/ proc = "ended"

-----------------------------------------------------------------------------
(* exec_command.                                                           *)

\* A yield time of zero answers at once; standard input is written first.
SpawnSession ==
  /\ stage["run"] = "start"
  /\ stored' = TRUE /\ proc' = "running"
  /\ \/ /\ replied' = "kept" /\ stage' = [stage EXCEPT !["run"] = "done", !["mon"] = "sleep"]
     \/ Moves("run", "loop") /\ UNCHANGED replied
     \/ ~tty /\ Moves("run", "stdin") /\ UNCHANGED replied
  /\ UNCHANGED <<killed, exited, cause, tty, late, child, evict, uses>>

\* The command may never read it; it may have closed it, which is an error
\* that leaves the session to nobody.
FeedStdin ==
  /\ stage["run"] = "stdin"
  /\ \/ Moves("run", "loop") /\ UNCHANGED replied
     \/ Moves("run", "done") /\ replied' = "error"
  /\ UNCHANGED <<stored, proc, killed, exited, cause, tty, late, child, evict, uses>>

\* One round of the loop: ended, timed out, yielded, or 20 ms more.
RunRound ==
  /\ stage["run"] = "loop" /\ Looks
  /\ \/ ExitSeen /\ Moves("run", "collect") /\ UNCHANGED replied
     \/ ~ExitSeen /\ ~tty /\ late /\ Moves("run", "mark") /\ UNCHANGED replied
     \/ /\ ~ExitSeen /\ (tty \/ ~late) /\ replied' = "kept"
        /\ stage' = [stage EXCEPT !["run"] = "done", !["mon"] = "sleep"]
     \/ ~ExitSeen /\ ~tty /\ ~late /\ UNCHANGED <<stage, replied>>
  /\ UNCHANGED <<stored, proc, killed, tty, late, child, evict, uses>>

\* The readers are waited for, the session is removed with its output.
CollectResult ==
  /\ stage["run"] = "collect"
  /\ stored' = FALSE /\ replied' = "result" /\ Moves("run", "done")
  /\ UNCHANGED <<proc, killed, exited, cause, tty, late, child, evict, uses>>

\* spawn_timeout_monitor sleeps to the deadline.
MonitorWakes ==
  /\ stage["mon"] = "sleep" /\ late /\ Looks
  /\ Moves("mon", IF ExitSeen THEN "retain" ELSE "mark")
  /\ UNCHANGED <<stored, proc, killed, tty, late, child, evict, replied, uses>>

\* A timeout, of the call or of the monitor: the reason, the kill, the end.
MarkTimeout(a) ==
  /\ stage[a] = "mark" /\ a \notin Users
  /\ cause' = "timeout" /\ Moves(a, "kill")
  /\ UNCHANGED <<stored, proc, killed, exited, tty, late, child, evict, replied, uses>>

KillChild(a) ==
  /\ stage[a] = "kill" /\ child = "free"
  /\ child' = a /\ killed' = TRUE /\ Moves(a, "reap")
  /\ UNCHANGED <<stored, proc, exited, cause, tty, late, evict, replied, uses>>

ReapChild(a) ==
  /\ stage[a] = "reap" /\ proc = "ended"
  /\ child' = "free" /\ RecordExit /\ Moves(a, "retain")
  /\ UNCHANGED <<stored, proc, killed, tty, late, evict, replied, uses>>

\* The session stays readable for 30 seconds.
RetainSession(a) ==
  /\ stage[a] = "retain"
  /\ evict' = evict \cup {a} /\ Moves(a, "done")
  /\ replied' = IF a = "run" THEN "timeout" ELSE replied
  /\ UNCHANGED <<stored, proc, killed, exited, cause, tty, late, child, uses>>

EvictSession(a) ==
  /\ a \in evict /\ evict' = evict \ {a} /\ stored' = FALSE
  /\ UNCHANGED <<proc, killed, exited, cause, tty, late, child, stage, replied, uses>>

-----------------------------------------------------------------------------
(* The calls on a session.                                                 *)

Uses(u) == stage[u] = "none" /\ stored /\ uses < MaxUses /\ uses' = uses + 1

\* write_stdin and read_output look at the status; output is not modelled.
ObserveSession(u) ==
  /\ Uses(u) /\ Looks
  /\ UNCHANGED <<stored, proc, killed, tty, late, child, stage, evict, replied>>

\* kill_session.
BeginKill(u) ==
  /\ Uses(u) /\ Looks
  /\ Moves(u, IF ExitSeen THEN "remove" ELSE "sign")
  /\ UNCHANGED <<stored, proc, killed, tty, late, child, evict, replied>>

MarkKilled(u) ==
  /\ stage[u] = "sign"
  /\ cause' = "killed" /\ Moves(u, "signal")
  /\ UNCHANGED <<stored, proc, killed, exited, tty, late, child, evict, replied, uses>>

\* TERM and INT are asked of the command, KILL is not.
SignalChild(u) ==
  /\ stage[u] = "signal" /\ child = "free"
  /\ killed' \in {killed, TRUE} /\ Moves(u, "attend")
  /\ UNCHANGED <<stored, proc, exited, cause, tty, late, child, evict, replied, uses>>

\* At most wait_ms, for the handle and for the end.
AttendChild(u) ==
  /\ stage[u] = "attend"
  /\ \/ child = "free" /\ child' = u /\ Moves(u, "attending")
     \/ Moves(u, "verify") /\ UNCHANGED child
  /\ UNCHANGED <<stored, proc, killed, exited, cause, tty, late, evict, replied, uses>>

AttendEnds(u) ==
  /\ stage[u] = "attending"
  /\ child' = "free" /\ Moves(u, "verify")
  /\ UNCHANGED <<stored, proc, killed, exited, cause, tty, late, evict, replied, uses>>

\* Mutant: a killed session is removed whether it ended or not.
VerifyKillAnyway(u) ==
  /\ stage[u] = "verify" /\ Looks
  /\ Moves(u, "remove")
  /\ UNCHANGED <<stored, proc, killed, tty, late, child, evict, replied, uses>>

\* "terminating": the process did not exit, the session is kept for a retry.
VerifyKill(u) ==
  /\ stage[u] = "verify" /\ Looks
  /\ Moves(u, IF ExitSeen THEN "remove" ELSE "none")
  /\ UNCHANGED <<stored, proc, killed, tty, late, child, evict, replied, uses>>

RemoveKilled(u) ==
  /\ stage[u] = "remove"
  /\ stored' = FALSE /\ Moves(u, "none")
  /\ UNCHANGED <<proc, killed, exited, cause, tty, late, child, evict, replied, uses>>

-----------------------------------------------------------------------------
ProcessEnds ==
  /\ proc = "running" /\ proc' = "ended"
  /\ UNCHANGED <<stored, killed, exited, cause, tty, late, child, stage, evict, replied, uses>>

DeadlineComes ==
  /\ proc # "none" /\ ~late /\ late' = TRUE
  /\ UNCHANGED <<stored, proc, killed, exited, cause, tty, child, stage, evict, replied, uses>>

Ending(a) == MarkTimeout(a) \/ KillChild(a) \/ ReapChild(a) \/ RetainSession(a)
             \/ EvictSession(a)
UserStep(u) == MarkKilled(u) \/ SignalChild(u) \/ AttendChild(u) \/ AttendEnds(u)
               \/ VerifyKill(u) \/ RemoveKilled(u)

ESNext ==
  \/ SpawnSession \/ FeedStdin
  \/ RunRound \/ CollectResult \/ MonitorWakes
  \/ \E a \in {"run", "mon"} : Ending(a)
  \/ \E u \in Users : ObserveSession(u) \/ BeginKill(u) \/ UserStep(u)
  \/ ProcessEnds \/ DeadlineComes

\* The tasks run, time passes, and a process that was sent SIGKILL ends.
\* Nothing is assumed of a command that was not, nor of new calls.
ESFairness ==
  /\ WF_esvars(RunRound) /\ WF_esvars(CollectResult) /\ WF_esvars(MonitorWakes)
  /\ \A a \in {"run", "mon"} :
       /\ WF_esvars(MarkTimeout(a)) /\ WF_esvars(KillChild(a)) /\ WF_esvars(ReapChild(a))
       /\ WF_esvars(RetainSession(a)) /\ WF_esvars(EvictSession(a))
  /\ \A u \in Users : WF_esvars(UserStep(u))
  /\ WF_esvars(killed /\ ProcessEnds) /\ WF_esvars(DeadlineComes)

ESSpec == ESInit /\ [][ESNext]_esvars /\ ESFairness

-----------------------------------------------------------------------------
SessionStages == {"none", "start", "stdin", "loop", "collect", "mark", "kill", "reap",
                  "retain", "sleep", "done", "sign", "signal", "attend", "attending",
                  "verify", "remove"}

ESTypeOK ==
  /\ stored \in BOOLEAN /\ proc \in {"none", "running", "ended"} /\ killed \in BOOLEAN
  /\ exited \in BOOLEAN /\ cause \in {"none", "exited", "timeout", "killed"}
  /\ tty \in BOOLEAN /\ late \in BOOLEAN /\ child \in Agents \cup {"free"}
  /\ stage \in [Agents -> SessionStages]
  /\ evict \subseteq {"run", "mon"}
  /\ replied \in {"nothing", "kept", "error", "result", "timeout"} /\ uses \in Nat

\* The status never says exited of a process that runs, and a session is out
\* of the store only when its process has ended, whoever kills, waits and
\* evicts at the same time.
ExitIsReal == exited => proc = "ended"
GoneIsOver == proc # "none" /\ ~stored => proc = "ended" /\ exited

\* A running session that was handed to the caller has a monitor, and one that
\* timed out stays readable until a timer or a kill removes it.
Watched ==
  /\ replied = "kept" /\ ~exited
       => stage["mon"] \in {"sleep", "mark", "kill", "reap", "retain"}
  /\ replied = "timeout" /\ stored => "run" \in evict

\* Who holds the handle is waiting for the process, so nobody waits for ever.
HandleHeld == child # "free" => stage[child] \in {"reap", "attending"}

SessionInv == ESTypeOK /\ ExitIsReal /\ GoneIsOver /\ Watched /\ HandleHeld

\* A session that was handed out, or that timed out, ends and is evicted: no
\* process and no output is kept for ever.
SessionsEnd == replied \in {"kept", "timeout"} ~> ~stored /\ proc = "ended"
=============================================================================
