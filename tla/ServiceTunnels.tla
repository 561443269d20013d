--------------------------- MODULE ServiceTunnels ---------------------------
(***************************************************************************)
(* The services of the workspaces and their FRP tunnels in the desktop     *)
(* application: commands/runtime.rs, commands/tunnel.rs and                *)
(* commands/workspace.rs (the commands), runtime/supervisor.rs (the        *)
(* record of each local service), tunnel/supervisor.rs and                 *)
(* tunnel/frp/client.rs (routes, and one frpc process per workspace) and   *)
(* tunnel/access.rs (the health loop and the cleanup task).                *)
(*                                                                         *)
(* The runtime supervisor is behind a mutex, and so is the tunnel          *)
(* supervisor: a method of either is one step, and the commands interleave *)
(* between them.  A session of the tunnel supervisor stands for a route    *)
(* (sync_frp_sessions_for_workspace), so there is no variable for it.      *)
(***************************************************************************)
EXTENDS Integers, FiniteSets

CONSTANTS
  Services,       \* the MCP and Actions services of the workspaces
  Of,             \* [service -> its workspace]
  Mcp,            \* the services that are MCP services
  Configs,        \* the tunnel settings an owner may save
  Procs,          \* commands that may run at the same time
  Ops,            \* the commands in use
  ImageKills,     \* terminate_processes_by_image_path does something: not on Linux
  MaxCommands, MaxEvents  \* bounds: commands; failures, edits and outages

Workspaces == {Of[s] : s \in Services}
Mine(w) == {s \in Services : Of[s] = w}

ASSUME TunnelAssumption ==
  /\ Mcp \subseteq Services
  /\ Configs \subseteq {"one", "two", "bad", "off"} /\ Configs # {}
  /\ Ops \subseteq {"start", "stop", "restart", "delete", "open", "close", "reopen", "test"}
  /\ ImageKills \in BOOLEAN /\ MaxCommands \in Nat /\ MaxEvents \in Nat

VARIABLES
  cfg, deleted,          \* the saved tunnel settings; the deleted workspaces
  phase, lis, miss,      \* the runtime records; the listeners; missing_port_checks
  route, frpc, conf,     \* frp_routes; the frpc processes; their configuration files
  fails, cool,           \* public_probe_failures; restarted less than 60 s ago
  online, outage,        \* the network; HOST_NETWORK_OFFLINE_STREAK (marked at 2)
  tick, recovered,       \* the health loop: what it has yet to visit, and why
  cleanup,               \* spawned cleanup tasks, with the settings they carry
  op, on, pc, keys, prof, \* the commands: where they are, and what they hold
  gate,                  \* RESTART_GATE
  commands, events       \* how much of the bounds is used

saved  == <<cfg, deleted>>
local  == <<phase, lis, miss>>
tunnel == <<route, frpc, conf>>
health == <<fails, cool, online, outage, tick, recovered>>
cmd    == <<op, on, pc, keys, prof, gate, commands>>
svvars == <<saved, local, tunnel, health, cleanup, cmd, events>>

SVInit ==
  /\ cfg \in [Services -> Configs \ {"bad"}] /\ deleted = {}
  /\ phase = [s \in Services |-> "stopped"] /\ lis = [s \in Services |-> "none"]
  /\ miss = [s \in Services |-> 0]
  /\ route = [s \in Services |-> "none"]
  /\ frpc = [w \in Workspaces |-> "none"] /\ conf = [w \in Workspaces |-> {}]
  /\ fails = [w \in Workspaces |-> 0] /\ cool = [w \in Workspaces |-> FALSE]
  /\ online = TRUE /\ outage = 0 /\ tick = {} /\ recovered = FALSE
  /\ cleanup = {}
  /\ op = [p \in Procs |-> "start"] /\ on = [p \in Procs |-> CHOOSE s \in Services : TRUE]
  /\ pc = [p \in Procs |-> "idle"] /\ keys = [p \in Procs |-> {}]
  /\ prof = [p \in Procs |-> "off"] /\ gate = "free"
  /\ commands = 0 /\ events = 0

Trouble == events < MaxEvents /\ events' = events + 1

-----------------------------------------------------------------------------
(* The tunnel supervisor.  A method that may fail answers a set of         *)
(* outcomes: the processes, the files and the routes after it, whether it  *)
(* succeeded, and whether something out of its hands went wrong.           *)

Lines(w, r) == {<<s, r[s]>> : s \in {x \in Mine(w) : r[x] # "none"}}
Held == {"alive", "stuck"}    \* the process lives and the supervisor has its handle
Live == Held \cup {"orphan"}  \* it lives, and perhaps only the PID file knows it

Outcome(r, f, c, ok, bad) == [route |-> r, frpc |-> f, conf |-> c, ok |-> ok, bad |-> bad]

\* stop_recorded_frpc_instance: only an orphan is found through the PID file,
\* and one that resists is on Windows and macOS ended by its image, which all
\* share.
ByImage(f, w) == [v \in Workspaces |-> CASE v = w -> "none"
                                         [] v # w /\ f[v] \in Held -> "dead"
                                         [] v # w /\ f[v] = "orphan" -> "none"
                                         [] OTHER -> f[v]]
\* Mutant: processes are stopped by image on every platform.
StoppedByImage(w, f) == {ByImage(f, w)}
Stopped(w, f) == {[f EXCEPT ![w] = "none"]} \cup
  (IF ImageKills /\ f[w] = "orphan" THEN {ByImage(f, w)} ELSE {})

\* acquire_frpc_operation_lock gives up.
LockBusy(r, f, c) == {Outcome(r, f, c, FALSE, TRUE)}

\* The old process does not stop: only its PID file is left.
Resists(w, r, f, c) ==
  IF f[w] \in Live THEN {Outcome(r, [f EXCEPT ![w] = "orphan"], c, FALSE, TRUE)} ELSE {}

\* validate_frp_config
Refused(lines) == \E l \in lines : l[2] = "bad"

\* spawn_frpc: the configuration is written, the process may not get ready.
Spawn(w, r, f, c) ==
  LET want == Lines(w, r)
      written == [c EXCEPT ![w] = want]
  IN IF Refused(want) THEN {Outcome(r, f, c, FALSE, FALSE)}
     ELSE {Outcome(r, f, written, FALSE, TRUE),
           Outcome(r, [f EXCEPT ![w] = "alive"], written, TRUE, FALSE)}

\* restart_workspace_frpc: the operation lock, the old process, the new one.
Restart(w, r, f, c) ==
  LockBusy(r, f, c) \cup Resists(w, r, f, c)
  \cup UNION {IF Lines(w, r) = {} THEN {Outcome(r, g, c, TRUE, FALSE)}
              ELSE Spawn(w, r, g, c) : g \in Stopped(w, f)}

\* ensure_frpc_matches_routes: a live process with this configuration is kept
\* unless its health check fails.
Ensure(w, r, f, c) ==
  IF Lines(w, r) # {} /\ f[w] \in Held /\ c[w] = Lines(w, r)
    THEN {Outcome(r, f, c, TRUE, FALSE)}
         \cup (IF f[w] = "stuck" THEN Restart(w, r, f, c) ELSE {})
    ELSE Restart(w, r, f, c)

\* ... and on failure the old routes are put back and ensured again.
EnsureOrRestore(w, r, old, f, c) ==
  UNION {IF o.ok THEN {o}
         ELSE {[u EXCEPT !.ok = FALSE, !.bad = o.bad \/ u.bad] :
                 u \in Ensure(w, old, o.frpc, o.conf)} : o \in Ensure(w, r, f, c)}

\* start: settings it refuses leave the routes as they were.
TunnelStart(s, p, r, f, c) ==
  IF p \in {"bad", "off"}
    THEN {Outcome(r, f, c, FALSE, FALSE)}
    ELSE EnsureOrRestore(Of[s], [r EXCEPT ![s] = p], r, f, c)

\* Mutant: the route is gone although its process could not be replaced.
TunnelStopForgets(S, w, r, f, c) ==
  LET left == [s \in Services |-> IF s \in S THEN "none" ELSE r[s]]
  IN IF left = r THEN {Outcome(r, f, c, TRUE, FALSE)} ELSE Ensure(w, left, f, c)
\* stop_internal of one service, drop_workspace of all of them.
TunnelStop(S, w, r, f, c) ==
  LET left == [s \in Services |-> IF s \in S THEN "none" ELSE r[s]]
  IN IF left = r THEN {Outcome(r, f, c, TRUE, FALSE)}
     ELSE EnsureOrRestore(w, left, r, f, c)

\* The mutex is free between the visits of two rounds of the health loop.
MutexFree == tick = {}

\* The state after an outcome; what went wrong is counted.
Become(o) ==
  /\ route' = o.route /\ frpc' = o.frpc /\ conf' = o.conf
  /\ IF o.bad THEN Trouble ELSE UNCHANGED events

\* restore_active_frp_routes with the settings read of the active services.
Restored(active) ==
  [s \in Services |-> LET read == {c \in Configs : <<s, c>> \in active}
                      IN IF read # {} THEN CHOOSE c \in read : TRUE ELSE route[s]]

-----------------------------------------------------------------------------
(* The commands.                                                           *)

Goto(p, l) == pc' = [pc EXCEPT ![p] = l]
Done(p) == /\ Goto(p, "idle") /\ keys' = [keys EXCEPT ![p] = {}]
           /\ gate' = IF gate = p THEN "free" ELSE gate
At(p, l) == pc[p] = l
Its(p) == on[p]
Keep(p) == UNCHANGED <<keys, gate>>

First(o) == CASE o = "start" -> "check" [] o = "stop" -> "begin"
              [] o = "restart" -> "gate" [] o = "delete" -> "drop"
              [] o = "close" -> "untunnel" [] OTHER -> "sync"

Launch(p) ==
  /\ At(p, "idle") /\ commands < MaxCommands /\ commands' = commands + 1
  /\ \E o \in Ops, s \in Services :
       /\ Of[s] \notin deleted
       /\ op' = [op EXCEPT ![p] = o] /\ on' = [on EXCEPT ![p] = s]
       /\ prof' = [prof EXCEPT ![p] = cfg[s]]
       /\ Goto(p, First(o))
  /\ UNCHANGED <<saved, local, tunnel, health, cleanup, keys, gate, events>>

\* restart_*_by_id: the gate, then a stop when it runs, then a start.
TakeGate(p) ==
  /\ At(p, "gate") /\ gate = "free"
  /\ gate' = p
  /\ Goto(p, IF phase[Its(p)] = "running" THEN "begin" ELSE "check")
  /\ UNCHANGED <<saved, local, tunnel, health, cleanup, op, on, keys, prof, commands,
                 events>>

\* start_*_service: already running, or on to the port.
CheckRunning(p) ==
  /\ At(p, "check")
  /\ IF phase[Its(p)] = "running" \/ Of[Its(p)] \in deleted
       THEN Done(p) /\ UNCHANGED prof
       ELSE Goto(p, "port") /\ prof' = [prof EXCEPT ![p] = cfg[Its(p)]] /\ Keep(p)
  /\ UNCHANGED <<saved, local, tunnel, health, cleanup, op, on, commands, events>>

\* set_mcp_error replaces the record; a listener whose record goes shuts down.
Fail(s) ==
  IF s \in Mcp
    THEN /\ phase' = [phase EXCEPT ![s] = "error"] /\ miss' = [miss EXCEPT ![s] = 0]
         /\ lis' = [lis EXCEPT ![s] = IF @ = "up" THEN "closing" ELSE @]
    ELSE UNCHANGED local

\* ensure_port_available (waits at most 3 s), then the upstream of an MCP.
CheckPort(p) ==
  /\ At(p, "port")
  /\ \/ lis[Its(p)] = "none" /\ Goto(p, "prepare") /\ Keep(p) /\ UNCHANGED <<local, events>>
     \/ lis[Its(p)] # "none" /\ Fail(Its(p)) /\ Done(p) /\ UNCHANGED events
     \/ lis[Its(p)] = "none" /\ Its(p) \in Mcp /\ Trouble /\ Fail(Its(p)) /\ Done(p)
  /\ UNCHANGED <<saved, tunnel, health, cleanup, op, on, prof, commands>>

\* RuntimeSupervisor::start.
StartRecord(p) ==
  LET s == Its(p) IN
  /\ At(p, "prepare")
  /\ \/ /\ phase[s] \in {"running", "starting"}
        /\ IF s \in Mcp /\ phase[s] = "starting" THEN Done(p) ELSE Goto(p, "sync") /\ Keep(p)
        /\ UNCHANGED <<local, events>>
     \/ phase[s] = "stopping" /\ Fail(s) /\ Done(p) /\ UNCHANGED events
     \/ /\ phase[s] \in {"stopped", "error"} /\ lis[s] = "none"
        /\ phase' = [phase EXCEPT ![s] = "running"] /\ lis' = [lis EXCEPT ![s] = "up"]
        /\ miss' = [miss EXCEPT ![s] = 0]
        /\ Goto(p, "sync") /\ Keep(p) /\ UNCHANGED events
     \/ /\ phase[s] \in {"stopped", "error"} /\ lis[s] # "none"   \* the port is busy
        /\ IF s \in Mcp THEN Fail(s)
           ELSE phase' = [phase EXCEPT ![s] = "stopped"] /\ UNCHANGED <<lis, miss>>
        /\ Done(p) /\ UNCHANGED events
     \/ /\ phase[s] \in {"stopped", "error"} /\ Trouble           \* it cannot bind
        /\ phase' = [phase EXCEPT ![s] = "error"] /\ UNCHANGED <<lis, miss>>
        /\ IF s \in Mcp THEN Done(p) ELSE Goto(p, "sync") /\ Keep(p)
     \/ /\ phase[s] \in {"stopped", "error"} /\ Trouble           \* a `?` on the way
        /\ IF s \in Mcp THEN Fail(s)
           ELSE phase' = [phase EXCEPT ![s] = "starting"] /\ UNCHANGED <<lis, miss>>
        /\ Done(p)
  /\ UNCHANGED <<saved, tunnel, health, cleanup, op, on, prof, commands>>

\* sync_tunnel_routes_from_runtime: the active services, then their profiles, and
\* the routes from both when the mutex is free.
Snapshot(p) ==
  /\ At(p, "sync")
  /\ keys' = [keys EXCEPT ![p] = {s \in Services : phase[s] \in {"running", "starting"}} \X {"unread"}]
  /\ Goto(p, "profiles")
  /\ UNCHANGED <<saved, local, tunnel, health, cleanup, op, on, prof, gate, commands,
                 events>>

ReadProfiles(p) ==
  /\ At(p, "profiles")
  /\ keys' = [keys EXCEPT ![p] = {<<s, cfg[s]>> : s \in {x \in Services :
                 <<x, "unread">> \in keys[p] /\ Of[x] \notin deleted /\ cfg[x] # "off"}}]
  /\ Goto(p, "apply")
  /\ UNCHANGED <<saved, local, tunnel, health, cleanup, op, on, prof, gate, commands,
                 events>>

After(p) == IF op[p] = "stop" THEN "idle"
            ELSE IF op[p] = "restart" /\ prof[p] = "again" THEN "check" ELSE "tunnel"

SyncRoutes(p) ==
  /\ At(p, "apply") /\ MutexFree
  /\ route' = Restored(keys[p])
  /\ IF After(p) = "idle" THEN Done(p)
     ELSE Goto(p, After(p)) /\ keys' = [keys EXCEPT ![p] = {}] /\ UNCHANGED gate
  /\ UNCHANGED <<saved, local, frpc, conf, health, cleanup, op, on, prof, commands, events>>

\* maybe_start_for_runtime, start_tunnel, restart_tunnel and test_tunnel; the
\* last two save the settings of a route that could be kept.
UseTunnel(p) ==
  LET s == Its(p)
      running == route[s] # "none" /\ frpc[Of[s]] \in Held
      again == UNION {IF ~o.ok THEN {o}
                      ELSE {[u EXCEPT !.bad = @ \/ o.bad] :
                              u \in TunnelStart(s, prof[p], o.route, o.frpc, o.conf)} :
                        o \in TunnelStop({s}, Of[s], route, frpc, conf)}
  IN
  /\ At(p, "tunnel") /\ MutexFree
  /\ \E o \in IF op[p] # "reopen" THEN TunnelStart(s, prof[p], route, frpc, conf)
              ELSE IF running THEN again ELSE {Outcome(route, frpc, conf, TRUE, FALSE)} :
       /\ Become(o)
       /\ cfg' = IF /\ ~o.ok /\ running /\ op[p] \in {"reopen", "test"}
                    /\ o.route[s] # "none" /\ cfg[s] = prof[p]
                   THEN [cfg EXCEPT ![s] = o.route[s]] ELSE cfg
       /\ CASE op[p] = "test" /\ o.ok /\ lis[s] # "up" -> Goto(p, "untunnel") /\ Keep(p)
            [] op[p] \in {"start", "restart"} -> Goto(p, "refresh") /\ Keep(p)
            [] OTHER -> Done(p)
  /\ UNCHANGED <<deleted, local, health, cleanup, op, on, prof, commands>>

\* begin_stop: the shutdown signal is sent.
BeginStop(p) ==
  LET s == Its(p) IN
  /\ At(p, "begin")
  /\ IF phase[s] = "stopped" THEN UNCHANGED <<phase, lis>>
     ELSE /\ phase' = [phase EXCEPT ![s] = "stopping"]
          /\ lis' = [lis EXCEPT ![s] = IF @ = "up" THEN "closing" ELSE @]
  /\ Goto(p, "finish") /\ Keep(p)
  /\ UNCHANGED <<saved, miss, tunnel, health, cleanup, op, on, prof, commands, events>>

\* await_listener_shutdown gives up after some seconds, the one of a deletion
\* does not; finish_stop drops the record that is there by then.
FinishStop(p) ==
  LET s == Its(p)
      rest == {x \in Mine(Of[s]) : x # s /\ phase[x] # "stopped"}
  IN
  /\ At(p, "finish") /\ (op[p] = "delete" => lis[s] # "closing")
  /\ phase' = [phase EXCEPT ![s] = "stopped"] /\ miss' = [miss EXCEPT ![s] = 0]
  /\ lis' = [lis EXCEPT ![s] = IF @ = "up" THEN "closing" ELSE @]
  /\ IF op[p] # "delete" THEN Goto(p, "untunnel") /\ UNCHANGED on
     ELSE IF rest = {} THEN Goto(p, "remove") /\ UNCHANGED on
     ELSE Goto(p, "begin") /\ on' = [on EXCEPT ![p] = CHOOSE x \in rest : TRUE]
  /\ Keep(p)
  /\ UNCHANGED <<saved, tunnel, health, cleanup, op, prof, commands, events>>

\* stop_for_runtime, stop_tunnel and the end of test_tunnel.
StopTunnel(p) ==
  LET s == Its(p) IN
  /\ At(p, "untunnel") /\ MutexFree
  /\ \E o \in TunnelStop({s}, Of[s], route, frpc, conf) :
       /\ Become(o)
       /\ IF o.ok /\ op[p] \in {"stop", "restart"}
            THEN /\ Goto(p, "sync") /\ Keep(p)
                 /\ prof' = [prof EXCEPT ![p] = IF op[p] = "restart" THEN "again" ELSE @]
            ELSE Done(p) /\ UNCHANGED prof
  /\ UNCHANGED <<saved, local, health, cleanup, op, on, commands>>

\* delete_workspace: first the tunnels, then the services, then the profile.
DropTunnels(p) ==
  LET w == Of[Its(p)] IN
  /\ At(p, "drop") /\ MutexFree
  /\ \E o \in TunnelStop(Mine(w), w, route, frpc, conf) :
       Become(o) /\ IF o.ok THEN Goto(p, "begin") /\ Keep(p) ELSE Done(p)
  /\ UNCHANGED <<saved, local, health, cleanup, op, on, prof, commands>>

RemoveWorkspace(p) ==
  /\ At(p, "remove")
  /\ deleted' = deleted \cup {Of[Its(p)]}
  /\ Done(p)
  /\ UNCHANGED <<cfg, local, tunnel, health, cleanup, op, on, prof, commands, events>>

-----------------------------------------------------------------------------
(* Status polls, the listeners, and the cleanup of an orphaned tunnel.     *)

\* refresh: the third miss in a row is an error; its tunnel is cleaned up.
Refresh(s, p) ==
  IF phase[s] # "running" THEN UNCHANGED <<local, cleanup>>
  ELSE IF lis[s] = "up" THEN miss' = [miss EXCEPT ![s] = 0] /\ UNCHANGED <<phase, lis, cleanup>>
  ELSE IF miss[s] < 2 THEN miss' = [miss EXCEPT ![s] = @ + 1] /\ UNCHANGED <<phase, lis, cleanup>>
  ELSE /\ phase' = [phase EXCEPT ![s] = "error"] /\ miss' = [miss EXCEPT ![s] = 0]
       /\ cleanup' = cleanup \cup {<<s, p>>} /\ UNCHANGED lis

RefreshAfter(p) ==
  /\ At(p, "refresh")
  /\ Refresh(Its(p), cfg[Its(p)])
  /\ Done(p)
  /\ UNCHANGED <<saved, tunnel, health, op, on, prof, commands, events>>

Poll(s) ==
  /\ phase[s] = "running" /\ Of[s] \notin deleted
  /\ Refresh(s, cfg[s])
  /\ UNCHANGED <<saved, tunnel, health, cmd, events>>

ListenerCloses(s) ==
  /\ lis[s] = "closing" /\ lis' = [lis EXCEPT ![s] = "none"]
  /\ UNCHANGED <<saved, phase, miss, tunnel, health, cleanup, cmd, events>>

ListenerDies(s) ==
  /\ lis[s] = "up" /\ Trouble /\ lis' = [lis EXCEPT ![s] = "none"]
  /\ UNCHANGED <<saved, phase, miss, tunnel, health, cleanup, cmd>>

\* Mutant: the port is looked at before the mutex is taken, not after.
CleanOrphanUnchecked(s, p) ==
  /\ <<s, p>> \in cleanup /\ MutexFree
  /\ cleanup' = cleanup \ {<<s, p>>}
  /\ \E o \in TunnelStop({s}, Of[s], route, frpc, conf) : Become(o)
  /\ UNCHANGED <<saved, local, health, cmd>>

\* cleanup_orphan_for_runtime: not when the port is in use again, nor when
\* the route has other settings by now.
CleanOrphan(s, p) ==
  /\ <<s, p>> \in cleanup /\ MutexFree
  /\ cleanup' = cleanup \ {<<s, p>>}
  /\ IF lis[s] # "none" \/ route[s] \notin {"none", p}
       THEN UNCHANGED <<tunnel, events>>
       ELSE \E o \in TunnelStop({s}, Of[s], route, frpc, conf) : Become(o)
  /\ UNCHANGED <<saved, local, health, cmd>>

-----------------------------------------------------------------------------
(* The health loop.                                                        *)

\* A round begins: the network is probed, and the mutex is held to its end.
HealthTick ==
  /\ tick = {}
  /\ tick' = {w \in Workspaces : frpc[w] # "none" \/ Lines(w, route) # {}}
  /\ tick' # {} \/ outage # (IF online THEN 0 ELSE 2)
  /\ recovered' = (online /\ outage = 2)
  /\ outage' = IF online THEN 0 ELSE IF outage < 2 THEN outage + 1 ELSE 2
  /\ UNCHANGED <<saved, local, tunnel, fails, cool, online, cleanup, cmd, events>>

Missing(w) == frpc[w] \notin Held /\ Lines(w, route) # {}
\* Only services that answer locally are probed from the outside.
Probed(w) == {s \in Mine(w) : route[s] # "none" /\ lis[s] = "up"}
Unrouted(w) == frpc[w] \in Held /\ Probed(w) # {} /\
  (frpc[w] = "stuck" \/ \E s \in Probed(w) : <<s, route[s]>> \notin conf[w])

\* Mutant: a missing process is not a reason to restart.
HealOnlyStuck(w) ==
  IF online /\ Unrouted(w) THEN {"probe", "sick"} ELSE {"well"}
\* evaluate_frpc_health; "probe" is a failed probe that may not count yet.
Verdicts(w) ==
  IF online /\ Missing(w) THEN {"sick"}
  ELSE IF online /\ Unrouted(w) THEN {"probe", "sick"} ELSE {"well"}

Visit(w) ==
  /\ w \in tick
  /\ tick' = tick \ {w}
  /\ \E v \in Verdicts(w) :
       LET n == IF v = "probe" THEN fails[w] + 1 ELSE IF v = "sick" THEN fails[w] ELSE 0
           sick == v = "sick" \/ n >= 3
       IN IF sick /\ (recovered \/ ~cool[w])
            THEN \E o \in Restart(w, route, frpc, conf) :
                   /\ Become(o)
                   /\ fails' = [fails EXCEPT ![w] = IF o.ok THEN 0 ELSE IF n > 2 THEN 2 ELSE n]
                   /\ cool' = [cool EXCEPT ![w] = o.ok \/ @]
            ELSE /\ fails' = [fails EXCEPT ![w] = IF n > 2 THEN 2 ELSE n]
                 /\ UNCHANGED <<tunnel, cool, events>>
  /\ UNCHANGED <<saved, local, online, outage, recovered, cleanup, cmd>>

CoolDown(w) ==
  /\ cool[w] /\ cool' = [cool EXCEPT ![w] = FALSE]
  /\ UNCHANGED <<saved, local, tunnel, fails, online, outage, tick, recovered, cleanup,
                 cmd, events>>

-----------------------------------------------------------------------------
(* What happens to it from outside.                                        *)

FrpcFails ==
  /\ Trouble
  /\ \E w \in Workspaces, f \in {"dead", "stuck"} :
       frpc[w] = "alive" /\ frpc' = [frpc EXCEPT ![w] = f]
  /\ UNCHANGED <<saved, local, route, conf, health, cleanup, cmd>>

NetworkChanges ==
  /\ \/ online /\ Trouble /\ online' = FALSE
     \/ ~online /\ online' = TRUE /\ UNCHANGED events
  /\ UNCHANGED <<saved, local, tunnel, fails, cool, outage, tick, recovered, cleanup, cmd>>

\* update_workspace saves the owner's settings.
EditProfile ==
  /\ Trouble
  /\ \E s \in Services, c \in Configs :
       Of[s] \notin deleted /\ c # cfg[s] /\ cfg' = [cfg EXCEPT ![s] = c]
  /\ UNCHANGED <<deleted, local, tunnel, health, cleanup, cmd>>

\* The application dies and is started again: frpc survives it.
AppCrash ==
  /\ Trouble
  /\ phase' = [s \in Services |-> "stopped"] /\ lis' = [s \in Services |-> "none"]
  /\ miss' = [s \in Services |-> 0] /\ route' = [s \in Services |-> "none"]
  /\ frpc' = [w \in Workspaces |-> IF frpc[w] \in Live THEN "orphan" ELSE "none"]
  /\ fails' = [w \in Workspaces |-> 0] /\ cool' = [w \in Workspaces |-> FALSE]
  /\ outage' = 0 /\ tick' = {} /\ recovered' = FALSE /\ cleanup' = {}
  /\ pc' = [p \in Procs |-> "idle"] /\ keys' = [p \in Procs |-> {}] /\ gate' = "free"
  /\ UNCHANGED <<saved, conf, online, op, on, prof, commands>>

-----------------------------------------------------------------------------
Step(p) == TakeGate(p) \/ CheckRunning(p) \/ CheckPort(p) \/ StartRecord(p) \/ Snapshot(p)
           \/ ReadProfiles(p) \/ SyncRoutes(p) \/ UseTunnel(p) \/ BeginStop(p) \/ FinishStop(p)
           \/ StopTunnel(p) \/ DropTunnels(p) \/ RemoveWorkspace(p) \/ RefreshAfter(p)

SVNext ==
  \/ \E p \in Procs : Launch(p) \/ Step(p)
  \/ \E s \in Services : Poll(s) \/ ListenerCloses(s) \/ ListenerDies(s)
  \/ \E t \in cleanup : CleanOrphan(t[1], t[2])
  \/ HealthTick \/ \E w \in Workspaces : Visit(w) \/ CoolDown(w)
  \/ FrpcFails \/ NetworkChanges \/ EditProfile \/ AppCrash

\* The health loop runs every 15 seconds, and time passes.  Nothing is assumed
\* of the commands and of the listeners.
SVFairness ==
  /\ WF_svvars(HealthTick)
  /\ \A w \in Workspaces : WF_svvars(Visit(w)) /\ WF_svvars(CoolDown(w))

SVSpec == SVInit /\ [][SVNext]_svvars /\ SVFairness

-----------------------------------------------------------------------------
SVTypeOK ==
  /\ cfg \in [Services -> Configs] /\ deleted \subseteq Workspaces
  /\ phase \in [Services -> {"stopped", "starting", "running", "stopping", "error"}]
  /\ lis \in [Services -> {"none", "up", "closing"}] /\ miss \in [Services -> 0..2]
  /\ route \in [Services -> Configs \cup {"none"}]
  /\ frpc \in [Workspaces -> {"none", "alive", "stuck", "dead", "orphan"}]
  /\ conf \in [Workspaces -> SUBSET (Services \X Configs)]
  /\ fails \in [Workspaces -> 0..2] /\ cool \in [Workspaces -> BOOLEAN]
  /\ online \in BOOLEAN /\ outage \in 0..2 /\ tick \subseteq Workspaces
  /\ cleanup \subseteq Services \X Configs
  /\ gate \in Procs \cup {"free"} /\ commands \in Nat /\ events \in Nat

\* A service whose tunnel was stopped is not reachable any more: a process
\* under the supervisor serves no service without a route, whichever lock,
\* stop, spawn or rollback failed on the way (stop_internal, drop_workspace).
ServedIsRouted ==
  \A w \in Workspaces : frpc[w] \in Held => \A l \in conf[w] : route[l[1]] # "none"

\* No listener outlives its record: once the record is gone, replaced or being
\* stopped, the listener shuts down, whatever commands overlap.
ListenerOwned == \A s \in Services : lis[s] = "up" => phase[s] = "running"

TunnelInv == SVTypeOK /\ ServedIsRouted /\ ListenerOwned

\* What is not a command on it leaves the route of a service that answers:
\* not a status poll, not a late cleanup task, not the health loop.
LiveRouteKept == [][\A s \in Services :
    lis[s] = "up" /\ route[s] # "none" /\ route'[s] = "none"
      => \/ \E p \in Procs : Of[on[p]] = Of[s] /\ pc[p] \in {"tunnel", "untunnel", "drop"}
                            /\ pc'[p] # pc[p]
         \/ lis'[s] = "none"]_svvars

\* What is done for one workspace leaves the frpc of the others alone, unless
\* a process of it that lives has to be ended by its image.
OthersUntouched == [][\A w \in Workspaces :
    frpc[w] \in Held /\ frpc'[w] = "dead"
      => FrpcFails \/ (ImageKills /\ \E v \in Workspaces \ {w} : frpc[v] \in Live)]_svvars

\* The line of a service that answers locally comes back after its process
\* died or hung, after an outage and after the application was restarted.
Served(s) == frpc[Of[s]] = "alive" /\ <<s, route[s]>> \in conf[Of[s]]
LinesComeBack == \A s \in Services :
  []<>(Served(s) \/ route[s] = "none" \/ lis[s] # "up" \/ ~online
       \/ \E x \in Mine(Of[s]) : route[x] = "bad")

\* A deleted workspace has no tunnel: "after the deletion its MCP and Actions
\* lines are cleaned up".
DeletedHasNoTunnel == \A s \in Services : Of[s] \in deleted => route[s] = "none"
=============================================================================
