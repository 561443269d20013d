------------------------ MODULE ServiceTunnelsProofs ------------------------
(***************************************************************************)
(* Theorems about the runtime supervisor: its services and their tunnels,  *)
(* for any workspaces and services, any number of commands and any         *)
(* failures of processes, locks and the network; and the listeners of one  *)
(* service, for any number of starts and of calls.                         *)
(***************************************************************************)
EXTENDS ServiceTunnels, Listeners, TLAPS

-----------------------------------------------------------------------------
(* What a method of the tunnel supervisor makes of routes, processes and   *)
(* configuration files.                                                    *)

Routes == [Services -> Configs \cup {"none"}]
Processes == [Workspaces -> {"none", "alive", "stuck", "dead", "orphan"}]
Files == [Workspaces -> SUBSET (Services \X Configs)]
Outcomes == [route : Routes, frpc : Processes, conf : Files, ok : BOOLEAN, bad : BOOLEAN]

\* The file of a workspace only has lines of its own services.
OwnLines(c) == \A w \in Workspaces : \A l \in c[w] : Of[l[1]] = w
\* A process under the supervisor serves routes only.
Routed(r, f, c) == \A w \in Workspaces : f[w] \in Held => \A l \in c[w] : r[l[1]] # "none"

\* What may happen to the other workspaces: nothing, or their processes are
\* ended by the image of one that lived here.
Spared(w, f, c, o) ==
  /\ \A v \in Workspaces \ {w} :
       /\ o.conf[v] = c[v]
       /\ o.frpc[v] = f[v] \/ (ImageKills /\ f[w] \in Live /\ o.frpc[v] \notin Held)
  /\ o.frpc[w] = "dead" => f[w] = "dead"
  /\ o.frpc[w] = "orphan" => f[w] \in Live

\* A success leaves no process, or one that serves the lines of the routes; a
\* failure leaves no process, or the one that was there with its file.
Handled(w, r, f, c, o) ==
  /\ o \in Outcomes /\ o.route = r /\ OwnLines(o.conf) /\ Spared(w, f, c, o)
  /\ \/ o.frpc[w] \notin Held
     \/ o.ok /\ o.conf[w] = Lines(w, r)
     \/ ~o.ok /\ o.frpc[w] = f[w] /\ o.conf[w] = c[w]

LEMMA LinesRight ==
  ASSUME NEW w \in Workspaces, NEW r \in Routes
  PROVE  /\ Lines(w, r) \subseteq Services \X Configs
         /\ \A l \in Lines(w, r) : Of[l[1]] = w /\ r[l[1]] # "none"
BY DEF Lines, Routes, Mine

\* Stopping the recorded process: it is gone, and by its image perhaps others.
LEMMA StoppedRight ==
  ASSUME NEW w \in Workspaces, NEW f \in Processes, NEW g \in Stopped(w, f)
  PROVE  /\ g \in Processes /\ g[w] = "none"
         /\ \A v \in Workspaces \ {w} :
              g[v] = f[v] \/ (ImageKills /\ f[w] \in Live /\ g[v] \notin Held)
<1>1. CASE g = [f EXCEPT ![w] = "none"]
  BY <1>1 DEF Processes
<1>2. CASE ImageKills /\ f[w] = "orphan" /\ g = ByImage(f, w)
  <2>1. \A v \in Workspaces : g[v] \in {"none", "alive", "stuck", "dead", "orphan"}
    BY <1>2 DEF ByImage, Processes, Held
  <2>2. \A v \in Workspaces : g[v] \notin Held
    BY <1>2 DEF ByImage, Processes, Held
  <2>3. g[w] = "none"
    BY <1>2 DEF ByImage
  <2> QED BY <1>2, <2>1, <2>2, <2>3 DEF Processes, ByImage, Live
<1> QED BY <1>1, <1>2 DEF Stopped

LEMMA SpawnRight ==
  ASSUME NEW w \in Workspaces, NEW r \in Routes, NEW f \in Processes, NEW c \in Files,
         OwnLines(c), f[w] = "none", NEW o \in Spawn(w, r, f, c)
  PROVE  Handled(w, r, f, c, o)
<1> DEFINE written == [c EXCEPT ![w] = Lines(w, r)]
           g == [f EXCEPT ![w] = "alive"]
<1>1. written \in Files /\ OwnLines(written) /\ written[w] = Lines(w, r)
  BY LinesRight DEF Files, OwnLines
<1>2. g \in Processes /\ g[w] = "alive"
  BY DEF Processes
<1>3. \A v \in Workspaces \ {w} : written[v] = c[v] /\ g[v] = f[v]
  BY DEF Processes, Files
<1> HIDE DEF written, g
<1>4. CASE o = Outcome(r, f, c, FALSE, FALSE)
  BY <1>4 DEF Outcome, Outcomes, Handled, Spared, Held
<1>5. CASE o = Outcome(r, f, written, FALSE, TRUE)
  BY <1>1, <1>3, <1>5 DEF Outcome, Outcomes, Handled, Spared, Held
<1>6. CASE o = Outcome(r, g, written, TRUE, FALSE)
  BY <1>1, <1>2, <1>3, <1>6 DEF Outcome, Outcomes, Handled, Spared, Held
<1> QED BY <1>4, <1>5, <1>6 DEF Spawn, written, g

LEMMA RestartRight ==
  ASSUME NEW w \in Workspaces, NEW r \in Routes, NEW f \in Processes, NEW c \in Files,
         OwnLines(c), NEW o \in Restart(w, r, f, c)
  PROVE  Handled(w, r, f, c, o)
<1>1. CASE o \in LockBusy(r, f, c)
  <2>1. o = [route |-> r, frpc |-> f, conf |-> c, ok |-> FALSE, bad |-> TRUE]
    BY <1>1 DEF LockBusy, Outcome
  <2>2. o \in Outcomes
    BY <2>1 DEF Outcomes
  <2>3. o.route = r /\ o.frpc = f /\ o.conf = c /\ ~o.ok
    BY <2>1
  <2> QED BY <2>2, <2>3 DEF Handled, Spared, Live, Held
<1>2. CASE o \in Resists(w, r, f, c)
  <2> DEFINE g == [f EXCEPT ![w] = "orphan"]
  <2>1. g \in Processes /\ g[w] = "orphan" /\ \A v \in Workspaces \ {w} : g[v] = f[v]
    BY DEF Processes
  <2>2. f[w] \in Live /\ o = Outcome(r, g, c, FALSE, TRUE)
    BY <1>2 DEF Resists
  <2> HIDE DEF g
  <2> QED BY <2>1, <2>2 DEF Outcome, Outcomes, Handled, Spared, Live, Held
<1>3. ASSUME NEW g \in Stopped(w, f),
             o \in (IF Lines(w, r) = {} THEN {Outcome(r, g, c, TRUE, FALSE)}
                                        ELSE Spawn(w, r, g, c))
      PROVE  Handled(w, r, f, c, o)
  <2>1. /\ g \in Processes /\ g[w] = "none"
        /\ \A v \in Workspaces \ {w} :
             g[v] = f[v] \/ (ImageKills /\ f[w] \in Live /\ g[v] \notin Held)
    BY StoppedRight
  <2>2. CASE o = Outcome(r, g, c, TRUE, FALSE)
    BY <2>1, <2>2 DEF Outcome, Outcomes, Handled, Spared, Held
  <2>3. CASE o \in Spawn(w, r, g, c)
    <3>1. Handled(w, r, g, c, o)
      BY <2>1, <2>3, SpawnRight
    <3> QED BY <2>1, <3>1 DEF Handled, Spared, Live, Held
  <2> QED BY <1>3, <2>2, <2>3
<1> QED BY <1>1, <1>2, <1>3 DEF Restart

LEMMA EnsureRight ==
  ASSUME NEW w \in Workspaces, NEW r \in Routes, NEW f \in Processes, NEW c \in Files,
         OwnLines(c), NEW o \in Ensure(w, r, f, c)
  PROVE  Handled(w, r, f, c, o)
<1>1. CASE o \in Restart(w, r, f, c)
  BY <1>1, RestartRight
<1>2. CASE o = Outcome(r, f, c, TRUE, FALSE) /\ c[w] = Lines(w, r)
  BY <1>2 DEF Outcome, Outcomes, Handled, Spared, Live, Held
<1> QED BY <1>1, <1>2 DEF Ensure

-----------------------------------------------------------------------------
(* What the methods promise their callers: the routes of other services    *)
(* stay, what is served stays routed, and the process of another workspace *)
(* ends only by the image of one that lived here.                          *)

Promise(w, S, r, f, c, o) ==
  /\ o \in Outcomes /\ OwnLines(o.conf)
  /\ \A x \in Services \ S : o.route[x] = r[x]
  /\ Routed(r, f, c) => Routed(o.route, o.frpc, o.conf)
  /\ \A v \in Workspaces : o.frpc[v] = "dead" =>
       f[v] = "dead" \/ (v # w /\ ImageKills /\ f[w] \in Live)

\* The routes of w are as handled, those of others as they were.
LEMMA HandledKeeps ==
  ASSUME NEW w \in Workspaces, NEW r \in Routes, NEW old \in Routes,
         NEW f \in Processes, NEW c \in Files, OwnLines(c), NEW o,
         \A x \in Services : Of[x] # w => r[x] = old[x],
         Handled(w, r, f, c, o), Routed(old, f, c), o.ok \/ r = old
  PROVE  Routed(r, o.frpc, o.conf)
<1> SUFFICES ASSUME NEW v \in Workspaces, o.frpc[v] \in Held, NEW l \in o.conf[v]
             PROVE  r[l[1]] # "none"
  BY DEF Routed
<1>1. l[1] \in Services /\ Of[l[1]] = v
  BY DEF Handled, Outcomes, Files, OwnLines
<1>2. CASE v = w
  BY <1>2, LinesRight DEF Handled, Routed
<1>3. CASE v # w
  BY <1>1, <1>3 DEF Handled, Spared, Routed
<1> QED BY <1>2, <1>3

LEMMA RestoreRight ==
  ASSUME NEW w \in Workspaces, NEW S \in SUBSET Mine(w), NEW r \in Routes,
         NEW old \in Routes, \A x \in Services \ S : r[x] = old[x],
         NEW f \in Processes, NEW c \in Files, OwnLines(c),
         NEW o \in EnsureOrRestore(w, r, old, f, c)
  PROVE  Promise(w, S, old, f, c, o)
<1>1. PICK e \in Ensure(w, r, f, c) :
        o \in (IF e.ok THEN {e}
               ELSE {[u EXCEPT !.ok = FALSE, !.bad = e.bad \/ u.bad] :
                       u \in Ensure(w, old, e.frpc, e.conf)})
  BY DEF EnsureOrRestore
<1>2. Handled(w, r, f, c, e)
  BY EnsureRight
<1>3. \A x \in Services : Of[x] # w => r[x] = old[x]
  BY DEF Mine
<1>4. CASE e.ok /\ o = e
  <2>1. Routed(old, f, c) => Routed(r, o.frpc, o.conf)
    BY <1>2, <1>3, <1>4, HandledKeeps
  <2> QED BY <1>2, <1>4, <2>1 DEF Promise, Handled, Spared
<1>5. ASSUME ~e.ok, NEW u \in Ensure(w, old, e.frpc, e.conf),
             o = [u EXCEPT !.ok = FALSE, !.bad = e.bad \/ u.bad]
      PROVE  Promise(w, S, old, f, c, o)
  <2>1. e.frpc \in Processes /\ e.conf \in Files /\ OwnLines(e.conf)
    BY <1>2 DEF Handled, Outcomes
  <2>2. Handled(w, old, e.frpc, e.conf, u)
    BY <2>1, EnsureRight
  <2>3. o \in Outcomes /\ o.route = u.route /\ o.frpc = u.frpc /\ o.conf = u.conf
    <3>1. u \in Outcomes /\ e \in Outcomes
      BY <1>2, <2>2 DEF Handled
    <3>2. (e.bad \/ u.bad) \in BOOLEAN
      OBVIOUS
    <3> QED BY <1>5, <3>1, <3>2 DEF Outcomes
  <2>4. ASSUME Routed(old, f, c) PROVE Routed(old, e.frpc, e.conf)
    <3> SUFFICES ASSUME NEW v \in Workspaces, e.frpc[v] \in Held, NEW l \in e.conf[v]
                 PROVE  old[l[1]] # "none"
      BY DEF Routed
    <3> QED BY <1>2, <1>5, <2>4 DEF Handled, Spared, Routed
  <2>5. Routed(old, f, c) => Routed(old, u.frpc, u.conf)
    BY <2>1, <2>2, <2>4, HandledKeeps
  <2>6. e.frpc[w] \in Live => f[w] \in Live
    BY <1>2, <1>5 DEF Handled, Spared, Live
  <2>7. \A v \in Workspaces : o.frpc[v] = "dead" =>
          f[v] = "dead" \/ (v # w /\ ImageKills /\ f[w] \in Live)
    BY <1>2, <2>2, <2>3, <2>6 DEF Handled, Spared
  <2>8. \A x \in Services \ S : o.route[x] = old[x]
    BY <2>2, <2>3 DEF Handled
  <2> QED BY <2>2, <2>3, <2>5, <2>7, <2>8 DEF Promise, Handled
<1> QED BY <1>1, <1>4, <1>5

LEMMA UnchangedPromise ==
  ASSUME NEW w, NEW S, NEW r \in Routes, NEW f \in Processes, NEW c \in Files, OwnLines(c),
         NEW ok \in BOOLEAN
  PROVE  Promise(w, S, r, f, c, Outcome(r, f, c, ok, FALSE))
BY DEF Outcome, Outcomes, Promise

LEMMA StopRight ==
  ASSUME NEW w \in Workspaces, NEW S \in SUBSET Mine(w), NEW r \in Routes,
         NEW f \in Processes, NEW c \in Files, OwnLines(c),
         NEW o \in TunnelStop(S, w, r, f, c)
  PROVE  Promise(w, S, r, f, c, o)
<1> DEFINE left == [s \in Services |-> IF s \in S THEN "none" ELSE r[s]]
<1>1. left \in Routes /\ \A x \in Services \ S : left[x] = r[x]
  BY DEF Routes
<1>2. o = Outcome(r, f, c, TRUE, FALSE) \/ o \in EnsureOrRestore(w, left, r, f, c)
  BY DEF TunnelStop
<1> HIDE DEF left
<1> QED BY <1>1, <1>2, UnchangedPromise, RestoreRight

LEMMA StartRight ==
  ASSUME NEW s \in Services, NEW p \in Configs \cup {"off"}, NEW r \in Routes,
         NEW f \in Processes, NEW c \in Files, OwnLines(c),
         NEW o \in TunnelStart(s, p, r, f, c)
  PROVE  Promise(Of[s], {s}, r, f, c, o)
<1> DEFINE new == [r EXCEPT ![s] = p]
<1>1. CASE p \in {"bad", "off"}
  BY <1>1, UnchangedPromise DEF TunnelStart
<1>2. CASE p \notin {"bad", "off"}
  <2>1. new \in Routes /\ \A x \in Services \ {s} : new[x] = r[x]
    BY <1>2 DEF Routes
  <2>2. Of[s] \in Workspaces /\ {s} \in SUBSET Mine(Of[s])
    BY DEF Workspaces, Mine
  <2>3. o \in EnsureOrRestore(Of[s], new, r, f, c)
    BY <1>2 DEF TunnelStart
  <2> HIDE DEF new
  <2> QED BY <2>1, <2>2, <2>3, RestoreRight
<1> QED BY <1>1, <1>2

-----------------------------------------------------------------------------
(* The inductive invariant.                                                *)

\* A command has a service; its settings are saved ones, or the mark of a restart
\* that is on the way from its stop to its start.
Homes == Services \cup {CHOOSE s \in Services : TRUE}
Places == {"idle", "gate", "check", "port", "prepare", "sync", "profiles", "apply", "tunnel", "refresh",
           "begin", "finish", "untunnel", "drop", "remove"}
CommandsRight ==
  /\ on \in [Procs -> Homes] /\ pc \in [Procs -> Places] /\ op \in [Procs -> Ops \cup {"start"}]
  /\ keys \in [Procs -> SUBSET (Services \X (Configs \cup {"unread"}))]
  /\ prof \in [Procs -> Configs \cup {"off", "again"}]
  /\ \A p \in Procs : pc[p] # "idle" => on[p] \in Services
  /\ \A p \in Procs : prof[p] = "again" =>
       op[p] = "restart" /\ pc[p] \in {"sync", "profiles", "apply", "check", "idle"}

SVStrong == TunnelInv /\ OwnLines(conf) /\ CommandsRight

\* A saved setting is not "none", and not the mark.
LEMMA NoSuchConfig == "none" \notin Configs /\ "again" \notin Configs
BY TunnelAssumption

LEMMA PromiseTwice ==
  ASSUME NEW w, NEW S, NEW r, NEW f, NEW c, NEW o, NEW u, Promise(w, S, r, f, c, o),
         Promise(w, S, o.route, o.frpc, o.conf, u), f[w] \in Live, NEW b \in BOOLEAN
  PROVE  Promise(w, S, r, f, c, [u EXCEPT !.bad = b])
<1> DEFINE n == [u EXCEPT !.bad = b]
<1>1. n \in Outcomes /\ n.route = u.route /\ n.frpc = u.frpc /\ n.conf = u.conf
  BY DEF Promise, Outcomes
<1>2. \A x \in Services \ S : n.route[x] = r[x]
  BY <1>1 DEF Promise
<1>3. Routed(r, f, c) => Routed(n.route, n.frpc, n.conf)
  BY <1>1 DEF Promise
<1>4. \A v \in Workspaces : n.frpc[v] = "dead" =>
        f[v] = "dead" \/ (v # w /\ ImageKills /\ f[w] \in Live)
  BY <1>1 DEF Promise
<1>5. OwnLines(n.conf)
  BY <1>1 DEF Promise
<1> QED BY <1>1, <1>2, <1>3, <1>4, <1>5 DEF Promise

\* The three ways in which a method's promise is used: by a command, by a
\* cleanup task whose service does not answer, by the health loop.
ByCommand(p, o) ==
  /\ pc[p] \in {"tunnel", "untunnel", "drop"} /\ pc'[p] # pc[p]
  /\ Become(o)
  /\ \E S \in SUBSET Mine(Of[on[p]]) : Promise(Of[on[p]], S, route, frpc, conf, o)
ByTask(o) ==
  /\ Become(o)
  /\ \E s \in Services : lis[s] = "none" /\ Promise(Of[s], {s}, route, frpc, conf, o)
ByHealth(o) == Become(o) /\ \E w \in Workspaces : Promise(w, {}, route, frpc, conf, o)

LEMMA UseTunnelMoves ==
  ASSUME SVStrong, NEW p \in Procs, UseTunnel(p)
  PROVE  /\ \E o : ByCommand(p, o)
         /\ cfg' \in [Services -> Configs]
<1> DEFINE s == Its(p)
           running == route[s] # "none" /\ frpc[Of[s]] \in Held
           again == UNION {IF ~o.ok THEN {o}
                      ELSE {[u EXCEPT !.bad = @ \/ o.bad] :
                              u \in TunnelStart(s, prof[p], o.route, o.frpc, o.conf)} :
                        o \in TunnelStop({s}, Of[s], route, frpc, conf)}
<1>1. /\ s \in Services /\ s = on[p] /\ Of[s] \in Workspaces /\ {s} \in SUBSET Mine(Of[s])
      /\ prof[p] \in Configs \cup {"off"} /\ pc[p] = "tunnel"
  BY DEF UseTunnel, At, Its, SVStrong, CommandsRight, Workspaces, Mine
<1>2. route \in Routes /\ frpc \in Processes /\ conf \in Files /\ OwnLines(conf)
  BY DEF SVStrong, TunnelInv, SVTypeOK, Routes, Processes, Files
<1>3. PICK o \in (IF op[p] # "reopen" THEN TunnelStart(s, prof[p], route, frpc, conf)
              ELSE IF running THEN again ELSE {Outcome(route, frpc, conf, TRUE, FALSE)}) :
       /\ Become(o)
       /\ cfg' = IF /\ ~o.ok /\ running /\ op[p] \in {"reopen", "test"}
                    /\ o.route[s] # "none" /\ cfg[s] = prof[p]
                   THEN [cfg EXCEPT ![s] = o.route[s]] ELSE cfg
       /\ CASE op[p] = "test" /\ o.ok /\ lis[s] # "up" -> Goto(p, "untunnel") /\ Keep(p)
            [] op[p] \in {"start", "restart"} -> Goto(p, "refresh") /\ Keep(p)
            [] OTHER -> Done(p)
  BY DEF UseTunnel
<1>4. pc'[p] # pc[p]
  BY <1>1, <1>3 DEF Goto, Done, SVStrong, CommandsRight
<1>5. ASSUME o \in again, running PROVE Promise(Of[s], {s}, route, frpc, conf, o)
  <2>1. PICK e \in TunnelStop({s}, Of[s], route, frpc, conf) :
          o \in (IF ~e.ok THEN {e}
                 ELSE {[u EXCEPT !.bad = @ \/ e.bad] :
                         u \in TunnelStart(s, prof[p], e.route, e.frpc, e.conf)})
    BY <1>5
  <2>2. Promise(Of[s], {s}, route, frpc, conf, e)
    BY <1>1, <1>2, StopRight
  <2>3. ASSUME NEW u \in TunnelStart(s, prof[p], e.route, e.frpc, e.conf),
               o = [u EXCEPT !.bad = u.bad \/ e.bad]
        PROVE  Promise(Of[s], {s}, route, frpc, conf, o)
    <3>1. e.route \in Routes /\ e.frpc \in Processes /\ e.conf \in Files /\ OwnLines(e.conf)
      BY <2>2 DEF Promise, Outcomes
    <3>2. Promise(Of[s], {s}, e.route, e.frpc, e.conf, u)
      BY <1>1, <3>1, StartRight
    <3>3. (u.bad \/ e.bad) \in BOOLEAN
      OBVIOUS
    <3>4. frpc[Of[s]] \in Live
      BY <1>5 DEF Live
    <3> QED BY <2>2, <2>3, <3>2, <3>3, <3>4, PromiseTwice
  <2> QED BY <2>1, <2>2, <2>3
<1>6. Promise(Of[s], {s}, route, frpc, conf, o)
  <2>1. CASE o \in TunnelStart(s, prof[p], route, frpc, conf)
    BY <1>1, <1>2, <2>1, StartRight
  <2>2. CASE o = Outcome(route, frpc, conf, TRUE, FALSE)
    BY <1>2, <2>2, UnchangedPromise
  <2> HIDE DEF again, running
  <2> QED BY <1>3, <1>5, <2>1, <2>2
<1>7. cfg' \in [Services -> Configs]
  <2>1. o.route \in Routes /\ cfg \in [Services -> Configs]
    BY <1>6 DEF Promise, Outcomes, SVStrong, TunnelInv, SVTypeOK
  <2>2. o.route[s] # "none" => o.route[s] \in Configs
    BY <1>1, <2>1 DEF Routes
  <2>3. cfg' = cfg \/ (o.route[s] # "none" /\ cfg' = [cfg EXCEPT ![s] = o.route[s]])
    BY <1>3
  <2> QED BY <2>1, <2>2, <2>3
<1> QED BY <1>1, <1>3, <1>4, <1>6, <1>7 DEF ByCommand

LEMMA StopTunnelMoves ==
  ASSUME SVStrong, NEW p \in Procs, StopTunnel(p) \/ DropTunnels(p)
  PROVE  \E o : ByCommand(p, o)
<1>1. /\ on[p] \in Services /\ Of[on[p]] \in Workspaces /\ {on[p]} \in SUBSET Mine(Of[on[p]])
      /\ pc[p] \in {"untunnel", "drop"}
  BY DEF StopTunnel, DropTunnels, At, SVStrong, CommandsRight, Workspaces, Mine
<1>2. route \in Routes /\ frpc \in Processes /\ conf \in Files /\ OwnLines(conf)
  BY DEF SVStrong, TunnelInv, SVTypeOK, Routes, Processes, Files
<1>3. PICK S \in SUBSET Mine(Of[on[p]]) :
        \E o \in TunnelStop(S, Of[on[p]], route, frpc, conf) : Become(o) /\ pc'[p] # pc[p]
  <2>1. CASE StopTunnel(p)
    <3>1. PICK o \in TunnelStop({on[p]}, Of[on[p]], route, frpc, conf) :
            Become(o) /\ pc'[p] # pc[p]
      BY <2>1 DEF StopTunnel, Its, At, Goto, Done, SVStrong, CommandsRight
    <3> QED BY <1>1, <3>1
  <2>2. CASE DropTunnels(p)
    <3>1. PICK o \in TunnelStop(Mine(Of[on[p]]), Of[on[p]], route, frpc, conf) :
            Become(o) /\ pc'[p] # pc[p]
      BY <2>2 DEF DropTunnels, Its, At, Goto, Done, SVStrong, CommandsRight
    <3> QED BY <1>1, <3>1
  <2> QED BY <2>1, <2>2
<1>4. PICK o \in TunnelStop(S, Of[on[p]], route, frpc, conf) : Become(o) /\ pc'[p] # pc[p]
  BY <1>3
<1>5. Promise(Of[on[p]], S, route, frpc, conf, o)
  BY <1>1, <1>2, StopRight
<1> QED BY <1>1, <1>4, <1>5 DEF ByCommand

LEMMA CleanOrphanMoves ==
  ASSUME SVStrong, NEW s \in Services, NEW c, CleanOrphan(s, c)
  PROVE  UNCHANGED tunnel \/ \E o : ByTask(o)
<1>1. Of[s] \in Workspaces /\ {s} \in SUBSET Mine(Of[s])
  BY DEF Workspaces, Mine
<1>2. route \in Routes /\ frpc \in Processes /\ conf \in Files /\ OwnLines(conf)
  BY DEF SVStrong, TunnelInv, SVTypeOK, Routes, Processes, Files
<1>3. ASSUME NEW o \in TunnelStop({s}, Of[s], route, frpc, conf), Become(o), lis[s] = "none"
      PROVE  ByTask(o)
  BY <1>1, <1>2, <1>3, StopRight DEF ByTask
<1> QED BY <1>3 DEF CleanOrphan, tunnel

LEMMA VisitMoves ==
  ASSUME SVStrong, NEW w \in Workspaces, Visit(w)
  PROVE  UNCHANGED tunnel \/ \E o : ByHealth(o)
<1>1. route \in Routes /\ frpc \in Processes /\ conf \in Files /\ OwnLines(conf)
  BY DEF SVStrong, TunnelInv, SVTypeOK, Routes, Processes, Files
<1>2. ASSUME NEW o \in Restart(w, route, frpc, conf), Become(o)
      PROVE  ByHealth(o)
  <2>1. Handled(w, route, frpc, conf, o)
    BY <1>1, RestartRight
  <2>2. Routed(route, frpc, conf) => Routed(route, o.frpc, o.conf)
    BY <1>1, <2>1, HandledKeeps
  <2> QED BY <1>2, <2>1, <2>2 DEF ByHealth, Promise, Handled, Spared
<1> QED BY <1>2 DEF Visit, tunnel

\* Every step that touches the tunnels.
LEMMA TunnelMoves ==
  ASSUME SVStrong, SVNext
  PROVE  \/ UNCHANGED tunnel
         \/ \E p \in Procs : \E o : ByCommand(p, o)
         \/ \E o : ByTask(o) \/ ByHealth(o)
         \/ \E p \in Procs : SyncRoutes(p)
         \/ FrpcFails \/ AppCrash
<1>1. ASSUME NEW t \in cleanup, CleanOrphan(t[1], t[2])
      PROVE  UNCHANGED tunnel \/ \E o : ByTask(o)
  <2>1. t[1] \in Services
    BY DEF SVStrong, TunnelInv, SVTypeOK
  <2> QED BY <1>1, <2>1, CleanOrphanMoves
<1>2. ASSUME NEW p \in Procs, Launch(p) \/ Step(p)
      PROVE  UNCHANGED tunnel \/ (\E o : ByCommand(p, o)) \/ SyncRoutes(p)
  <2>1. CASE UseTunnel(p)
    BY <2>1, UseTunnelMoves
  <2>2. CASE StopTunnel(p) \/ DropTunnels(p)
    BY <2>2, StopTunnelMoves
  <2>3. CASE Launch(p) \/ TakeGate(p) \/ CheckRunning(p) \/ CheckPort(p) \/ StartRecord(p)
    BY <2>3 DEF Launch, TakeGate, CheckRunning, CheckPort, StartRecord
  <2>4. CASE \/ Snapshot(p) \/ ReadProfiles(p) \/ BeginStop(p) \/ FinishStop(p) \/ RemoveWorkspace(p)
             \/ RefreshAfter(p)
    BY <2>4 DEF Snapshot, ReadProfiles, BeginStop, FinishStop, RemoveWorkspace, RefreshAfter
  <2> QED BY <1>2, <2>1, <2>2, <2>3, <2>4 DEF Step
<1>3. ASSUME NEW s \in Services, Poll(s) \/ ListenerCloses(s) \/ ListenerDies(s)
      PROVE  UNCHANGED tunnel
  BY <1>3 DEF Poll, ListenerCloses, ListenerDies
<1>4. CASE HealthTick \/ NetworkChanges \/ EditProfile
  BY <1>4 DEF HealthTick, NetworkChanges, EditProfile
<1>5. ASSUME NEW w \in Workspaces, Visit(w) \/ CoolDown(w)
      PROVE  UNCHANGED tunnel \/ \E o : ByHealth(o)
  BY <1>5, VisitMoves DEF CoolDown
<1> QED BY <1>1, <1>2, <1>3, <1>4, <1>5 DEF SVNext

LEMMA TunnelStep ==
  ASSUME SVStrong, SVNext
  PROVE  /\ route' \in Routes /\ frpc' \in Processes /\ conf' \in Files
         /\ OwnLines(conf') /\ Routed(route', frpc', conf')
<1>1. /\ route \in Routes /\ frpc \in Processes /\ conf \in Files
      /\ OwnLines(conf) /\ Routed(route, frpc, conf)
  BY DEF SVStrong, TunnelInv, SVTypeOK, ServedIsRouted, Routes, Processes, Files, Routed
<1>2. ASSUME NEW w, NEW S, NEW o, Promise(w, S, route, frpc, conf, o), Become(o)
      PROVE  /\ route' \in Routes /\ frpc' \in Processes /\ conf' \in Files
             /\ OwnLines(conf') /\ Routed(route', frpc', conf')
  BY <1>1, <1>2 DEF Promise, Become, Outcomes
<1>3. ASSUME NEW p \in Procs, SyncRoutes(p)
      PROVE  /\ route' \in Routes /\ frpc' = frpc /\ conf' = conf
             /\ \A s \in Services : route[s] # "none" => route'[s] # "none"
  BY <1>1, <1>3, NoSuchConfig DEF SyncRoutes, Restored, Routes, SVStrong, TunnelInv, SVTypeOK
<1>4. ASSUME NEW p \in Procs, SyncRoutes(p) PROVE Routed(route', frpc', conf')
  <2> SUFFICES ASSUME NEW v \in Workspaces, frpc[v] \in Held, NEW l \in conf[v]
               PROVE  route'[l[1]] # "none"
    BY <1>3, <1>4 DEF Routed
  <2>1. l[1] \in Services
    BY <1>1 DEF Files
  <2> QED BY <1>1, <1>3, <1>4, <2>1 DEF Routed
<1>5. CASE FrpcFails
  <2>1. frpc' \in Processes /\ \A v \in Workspaces : frpc'[v] \in Held => frpc[v] \in Held
    BY <1>1, <1>5 DEF FrpcFails, Processes, Held
  <2> QED BY <1>1, <1>5, <2>1 DEF FrpcFails, Routed
<1>6. CASE AppCrash
  <2>1. frpc' \in Processes /\ \A v \in Workspaces : frpc'[v] \notin Held
    BY <1>6 DEF AppCrash, Processes, Held
  <2> QED BY <1>1, <1>6, <2>1 DEF AppCrash, Routes, Routed
<1>7. CASE UNCHANGED tunnel
  BY <1>1, <1>7 DEF tunnel
<1> QED BY <1>1, <1>2, <1>3, <1>4, <1>5, <1>6, <1>7, TunnelMoves
        DEF ByCommand, ByTask, ByHealth

-----------------------------------------------------------------------------
(* Records and listeners.                                                  *)

LocalRight ==
  /\ phase \in [Services -> {"stopped", "starting", "running", "stopping", "error"}]
  /\ lis \in [Services -> {"none", "up", "closing"}] /\ miss \in [Services -> 0..2]
  /\ ListenerOwned

LEMMA FailRight ==
  ASSUME LocalRight, NEW s \in Services, Fail(s)
  PROVE  LocalRight'
BY DEF LocalRight, ListenerOwned, Fail, local

LEMMA RefreshRight ==
  ASSUME LocalRight, NEW s \in Services, NEW c \in Configs, Refresh(s, c),
         cleanup \subseteq Services \X Configs
  PROVE  LocalRight' /\ cleanup' \subseteq Services \X Configs
<1> USE DEF LocalRight, ListenerOwned
<1>1. CASE phase[s] # "running"
  BY <1>1 DEF Refresh, local
<1>2. CASE phase[s] = "running" /\ lis[s] = "up"
  BY <1>2 DEF Refresh
<1>3. CASE phase[s] = "running" /\ lis[s] # "up" /\ miss[s] < 2
  <2>1. miss[s] + 1 \in 0..2
    BY <1>3
  <2> QED BY <1>3, <2>1 DEF Refresh
<1>4. CASE phase[s] = "running" /\ lis[s] # "up" /\ ~(miss[s] < 2)
  BY <1>4 DEF Refresh
<1> QED BY <1>1, <1>2, <1>3, <1>4

LEMMA LocalStep ==
  ASSUME SVStrong, SVNext
  PROVE  LocalRight' /\ cleanup' \subseteq Services \X Configs
<1>1. /\ LocalRight /\ cleanup \subseteq Services \X Configs
      /\ cfg \in [Services -> Configs]
      /\ \A p \in Procs : pc[p] # "idle" => Its(p) \in Services
  BY DEF SVStrong, TunnelInv, SVTypeOK, LocalRight, CommandsRight, Its
<1>2. ASSUME NEW p \in Procs, CheckPort(p) \/ StartRecord(p) \/ BeginStop(p) \/ FinishStop(p)
      PROVE  LocalRight' /\ cleanup' \subseteq Services \X Configs
  <2>1. Its(p) \in Services
    BY <1>1, <1>2 DEF CheckPort, StartRecord, BeginStop, FinishStop, At
  <2>2. CASE CheckPort(p)
    BY <1>1, <2>1, <2>2, FailRight DEF CheckPort, local, LocalRight, ListenerOwned
  <2>3. CASE StartRecord(p)
    BY <1>1, <2>1, <2>3, FailRight DEF StartRecord, local, LocalRight, ListenerOwned
  <2>4. CASE BeginStop(p)
    BY <1>1, <2>1, <2>4 DEF BeginStop, LocalRight, ListenerOwned
  <2>5. CASE FinishStop(p)
    BY <1>1, <2>1, <2>5 DEF FinishStop, LocalRight, ListenerOwned
  <2> QED BY <1>2, <2>2, <2>3, <2>4, <2>5
<1>3. ASSUME NEW p \in Procs, RefreshAfter(p)
      PROVE  LocalRight' /\ cleanup' \subseteq Services \X Configs
  <2>1. Its(p) \in Services
    BY <1>1, <1>3 DEF RefreshAfter, At
  <2> QED BY <1>1, <1>3, <2>1, RefreshRight DEF RefreshAfter
<1>4. ASSUME NEW s \in Services, Poll(s) \/ ListenerCloses(s) \/ ListenerDies(s)
      PROVE  LocalRight' /\ cleanup' \subseteq Services \X Configs
  <2>1. CASE Poll(s)
    BY <1>1, <2>1, RefreshRight DEF Poll
  <2>2. CASE ListenerCloses(s) \/ ListenerDies(s)
    BY <1>1, <2>2 DEF ListenerCloses, ListenerDies, LocalRight, ListenerOwned
  <2> QED BY <1>4, <2>1, <2>2
<1>5. CASE AppCrash
  BY <1>5 DEF AppCrash, LocalRight, ListenerOwned
<1>6. ASSUME UNCHANGED local, cleanup' \subseteq cleanup
      PROVE  LocalRight' /\ cleanup' \subseteq Services \X Configs
  BY <1>1, <1>6 DEF LocalRight, ListenerOwned, local
<1>7. ASSUME NEW p \in Procs, Launch(p) \/ Step(p)
      PROVE  LocalRight' /\ cleanup' \subseteq Services \X Configs
  BY <1>2, <1>3, <1>6, <1>7
     DEF Step, Launch, TakeGate, CheckRunning, Snapshot, ReadProfiles, SyncRoutes, UseTunnel, StopTunnel,
         DropTunnels, RemoveWorkspace
<1>8. ASSUME NEW t \in cleanup, CleanOrphan(t[1], t[2])
      PROVE  LocalRight' /\ cleanup' \subseteq Services \X Configs
  BY <1>6, <1>8 DEF CleanOrphan
<1>9. ASSUME NEW w \in Workspaces, Visit(w) \/ CoolDown(w)
      PROVE  LocalRight' /\ cleanup' \subseteq Services \X Configs
  BY <1>6, <1>9 DEF Visit, CoolDown
<1> QED BY <1>4, <1>5, <1>6, <1>7, <1>8, <1>9
        DEF SVNext, HealthTick, FrpcFails, NetworkChanges, EditProfile

-----------------------------------------------------------------------------
(* The commands, what is saved and the health loop.                        *)

LEMMA CommandMoves ==
  ASSUME SVStrong, NEW p \in Procs, Launch(p) \/ Step(p)
  PROVE  CommandsRight' /\ gate' \in Procs \cup {"free"}
<1>1. /\ CommandsRight /\ gate \in Procs \cup {"free"} /\ cfg \in [Services -> Configs]
  BY DEF SVStrong, TunnelInv, SVTypeOK
<1>2. /\ pc[p] # "idle" => Its(p) \in Services /\ Its(p) = on[p]
      /\ \/ prof[p] # "again"
         \/ op[p] = "restart" /\ pc[p] \in {"sync", "profiles", "apply", "check", "idle"}
  BY <1>1 DEF CommandsRight, Its
<1> USE NoSuchConfig DEF CommandsRight, At, Goto, Done, Keep, Places
<1>3. CASE Launch(p)
  BY <1>1, <1>3, TunnelAssumption DEF Launch, First, Homes
<1>4. CASE TakeGate(p)
  BY <1>1, <1>2, <1>4 DEF TakeGate
<1>5. CASE CheckRunning(p)
  BY <1>1, <1>2, <1>5 DEF CheckRunning
<1>6. CASE CheckPort(p)
  BY <1>1, <1>2, <1>6 DEF CheckPort
<1>7. CASE StartRecord(p)
  BY <1>1, <1>2, <1>7 DEF StartRecord
<1>8. CASE Snapshot(p)
  BY <1>1, <1>2, <1>8 DEF Snapshot
<1>17. CASE ReadProfiles(p)
  <2> DEFINE read == {<<s, cfg[s]>> : s \in {x \in Services :
                        <<x, "unread">> \in keys[p] /\ Of[x] \notin deleted /\ cfg[x] # "off"}}
  <2>1. read \in SUBSET (Services \X (Configs \cup {"unread"}))
    <3> DEFINE those == {x \in Services : <<x, "unread">> \in keys[p] /\ Of[x] \notin deleted /\ cfg[x] # "off"}
    <3>1. \A s \in those : s \in Services /\ cfg[s] \in Configs
      BY <1>1
    <3>2. read = {<<s, cfg[s]>> : s \in those}
      OBVIOUS
    <3> HIDE DEF those, read
    <3> QED BY <3>1, <3>2
  <2>2. pc' = [pc EXCEPT ![p] = "apply"] /\ keys' = [keys EXCEPT ![p] = read] /\ pc[p] = "profiles"
        /\ UNCHANGED <<op, on, prof, gate>>
    BY <1>17 DEF ReadProfiles
  <2> HIDE DEF read
  <2> QED BY <1>1, <1>2, <2>1, <2>2
<1>9. CASE SyncRoutes(p)
  BY <1>1, <1>2, <1>9 DEF SyncRoutes, After
<1>10. CASE UseTunnel(p)
  BY <1>1, <1>2, <1>10 DEF UseTunnel
<1>11. CASE BeginStop(p)
  BY <1>1, <1>2, <1>11 DEF BeginStop
<1>12. CASE FinishStop(p)
  BY <1>1, <1>2, <1>12 DEF FinishStop, Homes, Mine
<1>13. CASE StopTunnel(p)
  BY <1>1, <1>2, <1>13 DEF StopTunnel
<1>14. CASE DropTunnels(p)
  BY <1>1, <1>2, <1>14 DEF DropTunnels
<1>15. CASE RemoveWorkspace(p)
  BY <1>1, <1>2, <1>15 DEF RemoveWorkspace
<1>16. CASE RefreshAfter(p)
  BY <1>1, <1>2, <1>16 DEF RefreshAfter
<1> QED BY <1>3, <1>4, <1>5, <1>6, <1>7, <1>8, <1>9, <1>10, <1>11, <1>12, <1>13, <1>14,
           <1>15, <1>16, <1>17 DEF Step

LEMMA CommandsStep ==
  ASSUME SVStrong, SVNext
  PROVE  CommandsRight' /\ gate' \in Procs \cup {"free"}
<1>1. CommandsRight /\ gate \in Procs \cup {"free"}
  BY DEF SVStrong, TunnelInv, SVTypeOK
<1>2. ASSUME NEW p \in Procs, Launch(p) \/ Step(p)
      PROVE  CommandsRight' /\ gate' \in Procs \cup {"free"}
  BY <1>2, CommandMoves
<1>3. CASE AppCrash
  BY <1>1, <1>3 DEF AppCrash, CommandsRight, Places
<1>4. CASE UNCHANGED cmd
  BY <1>1, <1>4 DEF cmd, CommandsRight
<1>5. ASSUME NEW t \in cleanup, CleanOrphan(t[1], t[2]) PROVE UNCHANGED cmd
  BY <1>5 DEF CleanOrphan
<1>6. ASSUME NEW w \in Workspaces, Visit(w) \/ CoolDown(w) PROVE UNCHANGED cmd
  BY <1>6 DEF Visit, CoolDown
<1>7. ASSUME NEW s \in Services, Poll(s) \/ ListenerCloses(s) \/ ListenerDies(s)
      PROVE  UNCHANGED cmd
  BY <1>7 DEF Poll, ListenerCloses, ListenerDies
<1> QED BY <1>2, <1>3, <1>4, <1>5, <1>6, <1>7
        DEF SVNext, HealthTick, FrpcFails, NetworkChanges, EditProfile

\* Steps of commands leave the health loop alone, and only some save settings.
LEMMA CommandFrame ==
  ASSUME SVStrong, NEW p \in Procs, Launch(p) \/ Step(p)
  PROVE  /\ UNCHANGED health
         /\ cfg' \in [Services -> Configs] /\ deleted' \subseteq Workspaces
         /\ commands' \in Nat /\ events' \in Nat
<1>1. /\ cfg \in [Services -> Configs] /\ deleted \subseteq Workspaces
      /\ commands \in Nat /\ events \in Nat
  BY DEF SVStrong, TunnelInv, SVTypeOK
<1>2. CASE UseTunnel(p)
  <2>1. cfg' \in [Services -> Configs] /\ \E o : Become(o)
    BY <1>2, UseTunnelMoves DEF ByCommand
  <2>2. events' = events \/ events' = events + 1
    BY <2>1 DEF Become, Trouble
  <2>3. deleted' = deleted /\ commands' = commands /\ UNCHANGED health
    BY <1>2 DEF UseTunnel
  <2> QED BY <1>1, <2>1, <2>2, <2>3
<1>3. CASE StopTunnel(p) \/ DropTunnels(p)
  BY <1>1, <1>3 DEF StopTunnel, DropTunnels, Become, Trouble, saved
<1>4. CASE RemoveWorkspace(p)
  <2>1. Of[Its(p)] \in Workspaces
    BY <1>4 DEF RemoveWorkspace, At, Its, SVStrong, CommandsRight, Workspaces
  <2> QED BY <1>1, <1>4, <2>1 DEF RemoveWorkspace
<1>5. CASE Launch(p)
  BY <1>1, <1>5 DEF Launch, saved
<1>6. CASE TakeGate(p) \/ CheckRunning(p) \/ CheckPort(p) \/ StartRecord(p)
  BY <1>1, <1>6 DEF TakeGate, CheckRunning, CheckPort, StartRecord, Trouble, saved
<1>7. CASE \/ Snapshot(p) \/ ReadProfiles(p) \/ SyncRoutes(p) \/ BeginStop(p) \/ FinishStop(p)
           \/ RefreshAfter(p)
  BY <1>1, <1>7 DEF Snapshot, ReadProfiles, SyncRoutes, BeginStop, FinishStop, RefreshAfter, saved
<1> QED BY <1>2, <1>3, <1>4, <1>5, <1>6, <1>7 DEF Step

LEMMA RestStep ==
  ASSUME SVStrong, SVNext
  PROVE  /\ cfg' \in [Services -> Configs] /\ deleted' \subseteq Workspaces
         /\ fails' \in [Workspaces -> 0..2] /\ cool' \in [Workspaces -> BOOLEAN]
         /\ online' \in BOOLEAN /\ outage' \in 0..2 /\ tick' \subseteq Workspaces
         /\ commands' \in Nat /\ events' \in Nat
<1> DEFINE Goal == /\ cfg' \in [Services -> Configs] /\ deleted' \subseteq Workspaces
                   /\ fails' \in [Workspaces -> 0..2] /\ cool' \in [Workspaces -> BOOLEAN]
                   /\ online' \in BOOLEAN /\ outage' \in 0..2 /\ tick' \subseteq Workspaces
                   /\ commands' \in Nat /\ events' \in Nat
<1>1. /\ cfg \in [Services -> Configs] /\ deleted \subseteq Workspaces
      /\ fails \in [Workspaces -> 0..2] /\ cool \in [Workspaces -> BOOLEAN]
      /\ online \in BOOLEAN /\ outage \in 0..2 /\ tick \subseteq Workspaces
      /\ commands \in Nat /\ events \in Nat
  BY DEF SVStrong, TunnelInv, SVTypeOK
<1>2. ASSUME NEW p \in Procs, Launch(p) \/ Step(p) PROVE Goal
  BY <1>1, <1>2, CommandFrame DEF health
<1>3. ASSUME NEW s \in Services, Poll(s) \/ ListenerCloses(s) \/ ListenerDies(s)
      PROVE  Goal
  BY <1>1, <1>3 DEF Poll, ListenerCloses, ListenerDies, Trouble, saved, health, cmd
<1>4. ASSUME NEW t \in cleanup, CleanOrphan(t[1], t[2]) PROVE Goal
  BY <1>1, <1>4 DEF CleanOrphan, Become, Trouble, saved, health, cmd
<1>5. CASE HealthTick
  BY <1>1, <1>5 DEF HealthTick, saved, cmd
<1>6. ASSUME NEW w \in Workspaces, Visit(w) PROVE Goal
  <2>1. PICK v \in Verdicts(w) :
       LET n == IF v = "probe" THEN fails[w] + 1 ELSE IF v = "sick" THEN fails[w] ELSE 0
           sick == v = "sick" \/ n >= 3
       IN IF sick /\ (recovered \/ ~cool[w])
            THEN \E o \in Restart(w, route, frpc, conf) :
                   /\ Become(o)
                   /\ fails' = [fails EXCEPT ![w] = IF o.ok THEN 0 ELSE IF n > 2 THEN 2 ELSE n]
                   /\ cool' = [cool EXCEPT ![w] = o.ok \/ @]
            ELSE /\ fails' = [fails EXCEPT ![w] = IF n > 2 THEN 2 ELSE n]
                 /\ UNCHANGED <<tunnel, cool, events>>
    BY <1>6 DEF Visit
  <2> DEFINE n == IF v = "probe" THEN fails[w] + 1 ELSE IF v = "sick" THEN fails[w] ELSE 0
  <2>2. (IF n > 2 THEN 2 ELSE n) \in 0..2
    BY <1>1
  <2>3. fails' \in [Workspaces -> 0..2] /\ events' \in Nat
    <3> HIDE DEF n
    <3>1. \/ \E o : /\ Become(o)
                    /\ fails' = [fails EXCEPT ![w] = IF o.ok THEN 0 ELSE IF n > 2 THEN 2 ELSE n]
          \/ fails' = [fails EXCEPT ![w] = IF n > 2 THEN 2 ELSE n] /\ events' = events
      BY <2>1 DEF n
    <3> QED BY <1>1, <2>2, <3>1 DEF Become, Trouble
  <2>4. cool' \in [Workspaces -> BOOLEAN]
    <3>1. cool' = cool \/ \E b \in BOOLEAN : cool' = [cool EXCEPT ![w] = b]
      BY <2>1
    <3> QED BY <1>1, <3>1
  <2> QED BY <1>1, <1>6, <2>3, <2>4 DEF Visit, saved, cmd
<1>7. ASSUME NEW w \in Workspaces, CoolDown(w) PROVE Goal
  BY <1>1, <1>7 DEF CoolDown, saved, cmd
<1>8. CASE FrpcFails
  BY <1>1, <1>8 DEF FrpcFails, Trouble, saved, health, cmd
<1>9. CASE NetworkChanges
  <2>1. online' \in BOOLEAN
    BY <1>9, Zenon DEF NetworkChanges
  <2> QED BY <1>1, <1>9, <2>1 DEF NetworkChanges, Trouble, saved, cmd
<1>10. CASE EditProfile
  BY <1>1, <1>10 DEF EditProfile, Trouble, health, cmd
<1>11. CASE AppCrash
  BY <1>1, <1>11 DEF AppCrash, Trouble, saved
<1> QED BY <1>2, <1>3, <1>4, <1>5, <1>6, <1>7, <1>8, <1>9, <1>10, <1>11 DEF SVNext

-----------------------------------------------------------------------------
(* The theorems.                                                           *)

LEMMA SVBegins == SVInit => SVStrong
<1> SUFFICES ASSUME SVInit PROVE SVStrong
  OBVIOUS
<1>1. SVTypeOK
  <2>1. cfg \in [Services -> Configs] /\ route \in [Services -> Configs \cup {"none"}]
    BY DEF SVInit
  <2>2. \A w \in Workspaces : {} \in SUBSET (Services \X Configs)
    OBVIOUS
  <2> QED BY <2>1, <2>2 DEF SVInit, SVTypeOK
<1>2. ServedIsRouted /\ ListenerOwned /\ OwnLines(conf)
  BY DEF SVInit, ServedIsRouted, ListenerOwned, OwnLines, Held
<1>3. CommandsRight
  BY NoSuchConfig DEF SVInit, CommandsRight, Homes, Places
<1> QED BY <1>1, <1>2, <1>3 DEF SVStrong, TunnelInv

LEMMA SVPreserved == SVStrong /\ [SVNext]_svvars => SVStrong'
<1> SUFFICES ASSUME SVStrong, [SVNext]_svvars PROVE SVStrong'
  OBVIOUS
<1>1. CASE SVNext
  <2>1. SVTypeOK'
    BY <1>1, TunnelStep, LocalStep, CommandsStep, RestStep
       DEF SVTypeOK, LocalRight, Routes, Processes, Files
  <2>2. ServedIsRouted' /\ OwnLines(conf)'
    BY <1>1, TunnelStep DEF ServedIsRouted, Routed, OwnLines
  <2>3. ListenerOwned' /\ CommandsRight'
    BY <1>1, LocalStep, CommandsStep DEF LocalRight
  <2> QED BY <2>1, <2>2, <2>3 DEF SVStrong, TunnelInv
<1>2. CASE UNCHANGED svvars
  BY <1>2 DEF SVStrong, TunnelInv, SVTypeOK, ServedIsRouted, ListenerOwned, OwnLines,
     CommandsRight, svvars, saved, local, tunnel, health, cmd
<1> QED BY <1>1, <1>2

LEMMA SVAlways == SVSpec => []SVStrong
BY SVBegins, SVPreserved, PTL DEF SVSpec

\* A process under the supervisor serves no service without a route, and no
\* listener outlives its record, whichever lock, stop, spawn or rollback fails
\* and whatever commands overlap (tunnel/supervisor.rs, runtime/supervisor.rs).
THEOREM TunnelSafe == SVSpec => []TunnelInv
BY SVAlways, PTL DEF SVStrong

\* The route of a service that answers is only taken away by a command on its
\* workspace (cleanup_orphan_for_runtime, sync_tunnel_routes_from_runtime).
THEOREM RouteKept == SVSpec => LiveRouteKept
<1>1. SVStrong /\ [SVNext]_svvars =>
        [\A s \in Services :
            lis[s] = "up" /\ route[s] # "none" /\ route'[s] = "none"
              => \/ \E p \in Procs :
                      Of[on[p]] = Of[s] /\ pc[p] \in {"tunnel", "untunnel", "drop"}
                      /\ pc'[p] # pc[p]
                 \/ lis'[s] = "none"]_svvars
  <2> SUFFICES ASSUME SVStrong, SVNext, NEW s \in Services,
                      lis[s] = "up", route[s] # "none", route'[s] = "none"
               PROVE  \/ \E p \in Procs : /\ Of[on[p]] = Of[s]
                                          /\ pc[p] \in {"tunnel", "untunnel", "drop"}
                                          /\ pc'[p] # pc[p]
                      \/ lis'[s] = "none"
    OBVIOUS
  <2>1. ASSUME NEW p \in Procs, NEW o, ByCommand(p, o)
        PROVE  /\ Of[on[p]] = Of[s] /\ pc[p] \in {"tunnel", "untunnel", "drop"}
               /\ pc'[p] # pc[p]
    BY <2>1 DEF ByCommand, Promise, Become, Mine
  <2>2. ASSUME NEW o, ByTask(o) \/ ByHealth(o) PROVE FALSE
    BY <2>2 DEF ByTask, ByHealth, Promise, Become
  <2>3. ASSUME NEW p \in Procs, SyncRoutes(p) PROVE FALSE
    BY <2>3, NoSuchConfig DEF SyncRoutes, Restored, SVStrong, TunnelInv, SVTypeOK
  <2>4. CASE AppCrash
    BY <2>4 DEF AppCrash
  <2>5. CASE FrpcFails \/ UNCHANGED tunnel
    BY <2>5 DEF FrpcFails, tunnel
  <2> QED BY <2>1, <2>2, <2>3, <2>4, <2>5, TunnelMoves
<1> QED BY <1>1, SVAlways, PTL DEF SVSpec, LiveRouteKept

\* A step for one workspace ends no process of another, unless a process of it
\* that lives has to be ended by its image (stop_recorded_frpc_instance).
THEOREM OthersSpared == SVSpec => OthersUntouched
<1>1. SVStrong /\ [SVNext]_svvars =>
        [\A w \in Workspaces :
            frpc[w] \in Held /\ frpc'[w] = "dead"
            => FrpcFails \/ (ImageKills /\ \E v \in Workspaces \ {w} : frpc[v] \in Live)]_svvars
  <2> SUFFICES ASSUME SVStrong, SVNext, NEW w \in Workspaces,
                      frpc[w] \in Held, frpc'[w] = "dead"
               PROVE  FrpcFails \/ (ImageKills /\ \E v \in Workspaces \ {w} : frpc[v] \in Live)
    OBVIOUS
  <2>1. ASSUME NEW v \in Workspaces, NEW S, NEW o, Become(o),
               Promise(v, S, route, frpc, conf, o)
        PROVE  ImageKills /\ \E x \in Workspaces \ {w} : frpc[x] \in Live
    BY <2>1 DEF Promise, Become, Held
  <2>2. ASSUME NEW p \in Procs, NEW o, ByCommand(p, o)
        PROVE  ImageKills /\ \E x \in Workspaces \ {w} : frpc[x] \in Live
    <3>1. Of[on[p]] \in Workspaces
      BY <2>2 DEF ByCommand, SVStrong, CommandsRight, Workspaces
    <3> QED BY <2>1, <2>2, <3>1 DEF ByCommand
  <2>3. ASSUME NEW o, ByTask(o) \/ ByHealth(o)
        PROVE  ImageKills /\ \E x \in Workspaces \ {w} : frpc[x] \in Live
    BY <2>1, <2>3 DEF ByTask, ByHealth, Workspaces
  <2>4. ASSUME NEW p \in Procs, SyncRoutes(p) PROVE FALSE
    BY <2>4 DEF SyncRoutes, Held
  <2>5. CASE AppCrash
    BY <2>5 DEF AppCrash
  <2>6. CASE UNCHANGED tunnel
    BY <2>6 DEF tunnel, Held
  <2> QED BY <2>2, <2>3, <2>4, <2>5, <2>6, TunnelMoves
<1> QED BY <1>1, SVAlways, PTL DEF SVSpec, OthersUntouched

-----------------------------------------------------------------------------
(* Listeners, for any setups and any requests.  ListenersInv is not        *)
(* inductive: that a server is not taken from a call rests on which runs   *)
(* can have calls at all, and that a deletion is waited for on what can    *)
(* still happen after it.                                                  *)

\* A call that arrived belongs to a run that was opened.
CallsBelong ==
  \A c \in WebCalls : webcall[c].at # "new" =>
    webcall[c].of \in Runs /\ serve[webcall[c].of] \notin {"none", "prepared"}

\* Only the MCP service has local servers.
ChildrenOfMcp == \A l \in Runs : kids[l] = "alive" => setup.service = "mcp"

\* The port is one run's.
OneOpen == \A k, l \in Runs : serve[k] = "open" /\ serve[l] = "open" => k = l

\* What a deletion waited for stays over.
DeletedIsOver == gone => \A l \in Runs : awaited[l] = "delete" => serve[l] = "ended"

\* A log line is late if it is written after the deletion, at the end of a call.
LateAreDone == \A c \in late : webcall[c].at = "done" /\ gone

LSStrong ==
  /\ ListenersInv
  /\ CallsBelong /\ ChildrenOfMcp /\ OneOpen /\ DeletedIsOver /\ LateAreDone

-----------------------------------------------------------------------------
(* Steps of a run: they leave the calls alone.                             *)

\* Run l goes on to a stage; what its servers become.
Moves(l, stage, children) ==
  /\ serve' = [serve EXCEPT ![l] = stage] /\ kids' = [kids EXCEPT ![l] = children]
  /\ UNCHANGED <<setup, webcall, late>>

\* The constants' sets.
LEMMA RunsAre == NoRun \notin Runs /\ Runs \subseteq Int
  BY ListenersAssumption DEF Runs, NoRun

\* Types are kept by a step of a run.
LEMMA MovesTyped ==
  ASSUME LSTypeOK, NEW l \in Runs,
         NEW stage \in {"none", "prepared", "open", "draining", "closing", "ended", "aborted"},
         NEW children \in {"none", "alive", "dead"}, Moves(l, stage, children),
         handle' \in Runs \cup {NoRun}, awaited' \in [Runs -> {"nobody", "stop", "delete"}],
         gone' = gone
  PROVE  /\ LSTypeOK' /\ serve'[l] = stage /\ kids'[l] = children
         /\ \A k \in Runs \ {l} : serve'[k] = serve[k] /\ kids'[k] = kids[k]
  BY DEF LSTypeOK, Moves

\* A step of a run keeps the invariant if the stage is one that it may reach.
LEMMA MovesKeep ==
  ASSUME LSStrong, NEW l \in Runs,
         NEW stage \in {"none", "prepared", "open", "draining", "closing", "ended", "aborted"},
         NEW children \in {"none", "alive", "dead"}, Moves(l, stage, children),
         handle' \in Runs \cup {NoRun}, awaited' \in [Runs -> {"nobody", "stop", "delete"}],
         gone' = gone,
         \A k \in Runs \ {l} : awaited'[k] = awaited[k],
         awaited'[l] = awaited[l] \/ ~gone,
         \* servers:
         children = "alive" => /\ stage \in {"prepared", "open", "draining", "closing", "aborted"}
                               /\ setup.service = "mcp",
         kids[l] = "alive" /\ children # "alive" => Busy(l, "upstream") = {},
         \* stages:
         stage \in {"none", "prepared"} => serve[l] \in {"none", "prepared"},
         stage = "open" => /\ \A k \in Runs \ {l} : serve[k] # "open"
                           /\ serve[l] \in {"open", "prepared"},
         stage \in {"closing", "ended"} => \A c \in Works(l) : ~webcall[c].there,
         serve[l] = "ended" => stage = "ended"
  PROVE  LSStrong'
PROOF
  <1> DEFINE Others == Runs \ {l}
  <1>1. /\ LSTypeOK /\ LSTypeOK' /\ serve'[l] = stage /\ kids'[l] = children
        /\ \A k \in Others : serve'[k] = serve[k] /\ kids'[k] = kids[k]
        /\ UNCHANGED <<setup, webcall, late>>
    BY MovesTyped DEF LSStrong, ListenersInv, Moves
  <1>2. CallsBelong'
    BY <1>1 DEF LSStrong, CallsBelong
  <1>3. ChildrenOfMcp'
    BY <1>1 DEF LSStrong, ChildrenOfMcp
  <1>4. OneOpen'
    BY <1>1 DEF LSStrong, OneOpen
  <1>5. DeletedIsOver'
    BY <1>1 DEF LSStrong, DeletedIsOver
  <1>6. LateAreDone'
    BY <1>1 DEF LSStrong, LateAreDone
  <1>7. ServersKept'
    <2>1. ASSUME NEW c \in WebCalls, webcall[c].at = "upstream"
          PROVE  kids'[webcall[c].of] = "alive"
      <3>1. webcall[c].of \in Runs /\ kids[webcall[c].of] = "alive"
        BY <2>1 DEF LSStrong, CallsBelong, ListenersInv, ServersKept
      <3>2. CASE webcall[c].of = l
        BY <1>1, <2>1, <3>1, <3>2 DEF Busy
      <3>3. CASE webcall[c].of # l
        BY <1>1, <3>1, <3>3
      <3> QED
        BY <3>2, <3>3
    <2>2. ASSUME NEW k \in Runs, kids'[k] = "alive"
          PROVE  serve'[k] \in {"prepared", "open", "draining", "closing", "aborted"}
      BY <1>1, <2>2 DEF LSStrong, ListenersInv, ServersKept
    <2> QED
      BY <1>1, <2>1, <2>2 DEF ServersKept
  <1>8. WritesExclude'
    <2>1. ASSUME NEW c \in WebCalls, NEW d \in WebCalls, c # d,
                 webcall[c].at = "writing", webcall[d].at = "writing"
          PROVE  /\ webcall[c].of # webcall[d].of
                 /\ serve'[webcall[c].of] # "open" \/ serve'[webcall[d].of] # "open"
      BY <1>1, <1>2, <1>4, <2>1 DEF LSStrong, ListenersInv, WritesExclude, CallsBelong, OneOpen
    <2> QED
      BY <1>1, <2>1 DEF WritesExclude
  <1>9. NobodyWaits'
    <2>1. ASSUME NEW k \in Runs, serve'[k] \in {"closing", "ended"}
          PROVE  \A c \in Works(k)' : ~webcall'[c].there
      <3>1. Works(k)' = Works(k)
        BY <1>1 DEF Works, Working
      <3>2. CASE k = l
        BY <1>1, <2>1, <3>1, <3>2
      <3>3. CASE k # l
        BY <1>1, <2>1, <3>1, <3>3 DEF LSStrong, ListenersInv, NobodyWaits
      <3> QED
        BY <3>2, <3>3
    <2>2. ASSUME NEW c \in late
          PROVE  awaited'[webcall[c].of] # "delete"
      <3>1. c \in WebCalls /\ webcall[c].of \in Runs /\ awaited[webcall[c].of] # "delete" /\ gone
        BY <1>1, <2>2 DEF LSTypeOK, LSStrong, ListenersInv, NobodyWaits, LateAreDone, CallsBelong
      <3> QED
        BY <2>2, <3>1
    <2> QED
      BY <1>1, <2>1, <2>2 DEF NobodyWaits
  <1> QED
    BY <1>1, <1>2, <1>3, <1>4, <1>5, <1>6, <1>7, <1>8, <1>9 DEF LSStrong, ListenersInv

\* Every action of a run keeps the invariant.
LEMMA RunStep ==
  ASSUME LSStrong, NEW l \in Runs,
         \/ StartChildren(l) \/ OpenListener(l)
         \/ ForgetHandle(l) \/ BeginShutdown(l, "stop") \/ BeginShutdown(l, "delete")
         \/ ConnectionsEnd(l) \/ ChildrenShut(l) \/ Abort(l) \/ DropChildren(l)
  PROVE  LSStrong'
PROOF
  <1>1. LSTypeOK /\ ServersKept /\ NobodyWaits /\ CallsBelong /\ OneOpen /\ ChildrenOfMcp
    BY DEF LSStrong, ListenersInv
  <1>2. /\ kids[l] \in {"none", "alive", "dead"}
        /\ serve[l] \in {"none", "prepared", "open", "draining", "closing", "ended", "aborted"}
        /\ awaited \in [Runs -> {"nobody", "stop", "delete"}] /\ handle \in Runs \cup {NoRun}
        /\ serve = [serve EXCEPT ![l] = serve[l]] /\ kids = [kids EXCEPT ![l] = kids[l]]
    BY <1>1 DEF LSTypeOK
  \* A run that was not opened has no calls, and one without calls none that talk to
  \* a server.
  <1>3. ASSUME serve[l] \in {"none", "prepared"}
        PROVE  Works(l) = {}
    BY <1>1, <1>3 DEF CallsBelong, Works, Working
  <1>4. ASSUME Works(l) = {}
        PROVE  Busy(l, "upstream") = {}
    BY <1>4 DEF Works, Working, Busy
  <1>a. CASE StartChildren(l)
    <2>1. Moves(l, "prepared", IF setup.service = "mcp" /\ setup.children THEN "alive" ELSE "none")
      BY <1>a DEF StartChildren, Moves
    <2> QED
      BY <1>1, <1>2, <1>3, <1>4, <1>a, <2>1, MovesKeep DEF StartChildren
  <1>b. CASE OpenListener(l)
    <2>1. CASE handle # NoRun \/ Refusable \/ \E k \in Runs : serve[k] = "open"
      <3>1. Moves(l, "ended", IF kids[l] = "alive" THEN "dead" ELSE kids[l])
        BY <1>b, <2>1 DEF OpenListener, Moves
      <3> QED
        BY <1>1, <1>2, <1>3, <1>4, <1>b, <2>1, <3>1, MovesKeep DEF OpenListener
    <2>2. CASE ~(handle # NoRun \/ Refusable \/ \E k \in Runs : serve[k] = "open")
      <3>1. Moves(l, IF setup.folder THEN "open" ELSE "ended", kids[l])
        BY <1>2, <1>b, <2>2 DEF OpenListener, Moves
      <3>2. kids[l] = "alive" => setup.folder
        BY <1>1, <2>2 DEF ChildrenOfMcp, Refusable
      <3> QED
        BY <1>1, <1>2, <1>3, <1>4, <1>b, <2>2, <3>1, <3>2, MovesKeep DEF OpenListener, ChildrenOfMcp
    <2> QED
      BY <2>1, <2>2
  <1>c. CASE ForgetHandle(l)
    <2>1. Moves(l, "draining", kids[l])
      BY <1>2, <1>c DEF ForgetHandle, Moves
    <2> QED
      BY <1>1, <1>2, <1>c, <2>1, MovesKeep DEF ForgetHandle
  <1>d. ASSUME NEW command \in {"stop", "delete"}, BeginShutdown(l, command)
        PROVE  LSStrong'
    <2>1. Moves(l, IF serve[l] = "open" THEN "draining" ELSE serve[l], kids[l])
      BY <1>2, <1>d DEF BeginShutdown, Moves
    <2> QED
      BY <1>1, <1>2, <1>d, <2>1, MovesKeep DEF BeginShutdown, ServersKept, ChildrenOfMcp, NobodyWaits
  <1>e. CASE ConnectionsEnd(l)
    <2>1. Moves(l, "closing", kids[l])
      BY <1>2, <1>e DEF ConnectionsEnd, Moves
    <2> QED
      BY <1>1, <1>2, <1>e, <2>1, MovesKeep DEF ConnectionsEnd, ChildrenOfMcp
  <1>f. CASE ChildrenShut(l)
    <2>1. Moves(l, "ended", IF kids[l] = "alive" THEN "dead" ELSE kids[l])
      BY <1>f DEF ChildrenShut, Moves
    <2> QED
      BY <1>1, <1>2, <1>f, <2>1, MovesKeep DEF ChildrenShut, NobodyWaits
  <1>g. CASE Abort(l)
    <2>1. Moves(l, "aborted", kids[l])
      BY <1>2, <1>g DEF Abort, Moves
    <2> QED
      BY <1>1, <1>2, <1>g, <2>1, MovesKeep DEF Abort, ChildrenOfMcp
  <1>h. CASE DropChildren(l)
    <2>1. Moves(l, "aborted", "dead")
      BY <1>2, <1>h DEF DropChildren, Moves
    <2> QED
      BY <1>1, <1>2, <1>4, <1>h, <2>1, MovesKeep DEF DropChildren
  <1> QED
    BY <1>a, <1>b, <1>c, <1>d, <1>e, <1>f, <1>g, <1>h

-----------------------------------------------------------------------------
(* Steps of a call: they leave the runs alone.                             *)

\* A call that was not done goes on, and may leave a line in the log at its end.
LEMMA CallKeeps ==
  ASSUME LSStrong, NEW c \in WebCalls, Steady,
         webcall' \in [WebCalls -> [of : Runs \cup {NoRun}, ask : Asks, at : Stages, there : BOOLEAN]],
         \A d \in WebCalls \ {c} : webcall'[d] = webcall[d],
         webcall[c].at # "done",
         \* it belongs to a run,
         webcall'[c].at # "new", webcall'[c].of \in Runs,
         serve[webcall'[c].of] \notin {"none", "prepared"},
         \* has the server or the lock that it uses,
         webcall'[c].at = "upstream" => kids[webcall'[c].of] = "alive",
         webcall'[c].at = "writing" =>
           \A d \in WebCalls \ {c} : webcall[d].at = "writing" => webcall[d].of # webcall'[c].of,
         \* and has no client at a run that ended by itself.
         webcall'[c].at # "done" /\ webcall'[c].there => serve[webcall'[c].of] \notin {"closing", "ended"},
         \/ late' = late
         \/ /\ late' = late \cup {c} /\ gone /\ webcall'[c].at = "done"
            /\ serve[webcall'[c].of] # "ended"
  PROVE  LSStrong'
PROOF
  <1>1. /\ LSTypeOK /\ ServersKept /\ WritesExclude /\ NobodyWaits
        /\ CallsBelong /\ OneOpen /\ DeletedIsOver /\ LateAreDone /\ ChildrenOfMcp
        /\ UNCHANGED <<setup, handle, awaited, serve, kids, gone>>
    BY DEF LSStrong, ListenersInv, Steady
  <1>2. LSTypeOK'
    BY <1>1 DEF LSTypeOK
  <1>3. CallsBelong'
    BY <1>1 DEF CallsBelong
  <1>4. ChildrenOfMcp' /\ OneOpen' /\ DeletedIsOver'
    BY <1>1 DEF ChildrenOfMcp, OneOpen, DeletedIsOver
  <1>5. LateAreDone'
    BY <1>1 DEF LateAreDone, LSTypeOK
  <1>6. ServersKept'
    BY <1>1 DEF ServersKept
  <1>7. WritesExclude'
    BY <1>1, <1>3, <1>4 DEF WritesExclude, CallsBelong, OneOpen
  <1>8. NobodyWaits'
    <2>1. ASSUME NEW l \in Runs, serve[l] \in {"closing", "ended"}, NEW d \in Works(l)'
          PROVE  ~webcall'[d].there
      <3>1. d \in WebCalls /\ webcall'[d].of = l /\ webcall'[d].at \notin {"new", "done"}
        BY <2>1 DEF Works, Working
      <3>2. CASE d = c
        BY <1>2, <2>1, <3>1, <3>2 DEF LSTypeOK
      <3>3. CASE d # c
        BY <1>1, <2>1, <3>1, <3>3 DEF NobodyWaits, Works, Working
      <3> QED
        BY <3>2, <3>3
    <2>2. ASSUME NEW d \in late'
          PROVE  awaited[webcall'[d].of] # "delete"
      BY <1>1, <2>2 DEF NobodyWaits, LateAreDone, DeletedIsOver, LSTypeOK
    <2> QED
      BY <1>1, <2>1, <2>2 DEF NobodyWaits
  <1> QED
    BY <1>2, <1>3, <1>4, <1>5, <1>6, <1>7, <1>8 DEF LSStrong, ListenersInv

\* A working call of a run that can have some, and where its stage lies.
LEMMA WorkingCalls ==
  ASSUME LSStrong, NEW c \in WebCalls, Working(c)
  PROVE  /\ webcall[c].of \in Runs /\ serve[webcall[c].of] \notin {"none", "prepared"}
         /\ webcall[c].there => serve[webcall[c].of] \notin {"closing", "ended"}
         /\ webcall[c].at \notin {"new", "done"}
  BY DEF LSStrong, ListenersInv, CallsBelong, NobodyWaits, Works, Working

\* It goes on, or its end is written down.
LEMMA ReachesKeeps ==
  ASSUME LSStrong, NEW c \in WebCalls, Working(c), Steady,
         NEW at \in Stages \ {"new"}, Reaches(c, at),
         at = "upstream" => kids[webcall[c].of] = "alive",
         at = "writing" => Busy(webcall[c].of, "writing") = {}
  PROVE  LSStrong'
PROOF
  <1>1. LSTypeOK
    BY DEF LSStrong, ListenersInv
  <1>2. /\ webcall' \in [WebCalls -> [of : Runs \cup {NoRun}, ask : Asks, at : Stages, there : BOOLEAN]]
        /\ \A d \in WebCalls \ {c} : webcall'[d] = webcall[d]
        /\ webcall'[c].at = at /\ webcall'[c].of = webcall[c].of /\ webcall'[c].there = webcall[c].there
        /\ late' = late
    BY <1>1 DEF LSTypeOK, Reaches
  <1> QED
    BY <1>2, WorkingCalls, CallKeeps DEF Busy

LEMMA RepliedKeeps ==
  ASSUME LSStrong, NEW c \in WebCalls, Working(c), Steady, Replied(c)
  PROVE  LSStrong'
PROOF
  <1>1. LSTypeOK
    BY DEF LSStrong, ListenersInv
  <1>2. /\ webcall' \in [WebCalls -> [of : Runs \cup {NoRun}, ask : Asks, at : Stages, there : BOOLEAN]]
        /\ \A d \in WebCalls \ {c} : webcall'[d] = webcall[d]
        /\ webcall'[c].at = "done" /\ webcall'[c].of = webcall[c].of /\ webcall'[c].there = webcall[c].there
        /\ late' = late \/ (late' = late \cup {c} /\ gone /\ webcall[c].there)
    BY <1>1 DEF LSTypeOK, Replied, Stages
  <1> QED
    BY <1>2, WorkingCalls, CallKeeps

LEMMA CallStep ==
  ASSUME LSStrong, NEW c \in WebCalls,
         \/ \E l \in Runs : ArriveAt(c, l)
         \/ Disconnect(c) \/ Dispatch(c) \/ TakeWriteLock(c) \/ TakeUpstream(c)
         \/ WorkerEnds(c)
  PROVE  LSStrong'
PROOF
  <1>1. LSTypeOK
    BY DEF LSStrong, ListenersInv
  <1>a. ASSUME NEW l \in Runs, ArriveAt(c, l)
        PROVE  LSStrong'
    <2>1. /\ webcall' \in [WebCalls -> [of : Runs \cup {NoRun}, ask : Asks, at : Stages, there : BOOLEAN]]
          /\ \A d \in WebCalls \ {c} : webcall'[d] = webcall[d]
          /\ webcall'[c].at \in {"work", "done"} /\ webcall'[c].of = l
          /\ late' = late /\ Steady /\ serve[l] = "open" /\ webcall[c].at = "new"
      <3> DEFINE at == IF Admitted(webcall[c].ask) /\ Exposed(webcall[c].ask)
                       THEN "work" ELSE "done"
      <3>1. /\ webcall' = [webcall EXCEPT ![c].of = l, ![c].at = at]
            /\ late' = late /\ Steady /\ serve[l] = "open" /\ webcall[c].at = "new"
        BY <1>a DEF ArriveAt
      <3>2. at \in {"work", "done"} /\ at \in Stages
        BY DEF Stages
      <3> HIDE DEF at
      <3>3. webcall \in [WebCalls -> [of : Runs \cup {NoRun}, ask : Asks, at : Stages,
                                     there : BOOLEAN]]
        BY <1>1 DEF LSTypeOK
      <3> QED BY <3>1, <3>2, <3>3
    <2> QED
      BY <2>1, CallKeeps
  <1>b. CASE Disconnect(c)
    <2>1. /\ webcall' \in [WebCalls -> [of : Runs \cup {NoRun}, ask : Asks, at : Stages, there : BOOLEAN]]
          /\ \A d \in WebCalls \ {c} : webcall'[d] = webcall[d]
          /\ webcall'[c].at = webcall[c].at /\ webcall'[c].of = webcall[c].of /\ ~webcall'[c].there
          /\ late' = late /\ Steady /\ Working(c)
      BY <1>1, <1>b DEF LSTypeOK, Disconnect
    <2>2. /\ webcall[c].at = "upstream" => kids[webcall[c].of] = "alive"
          /\ webcall[c].at = "writing" =>
               \A d \in WebCalls \ {c} : webcall[d].at = "writing" => webcall[d].of # webcall[c].of
      BY DEF LSStrong, ListenersInv, ServersKept, WritesExclude
    <2> QED
      BY <2>1, <2>2, WorkingCalls, CallKeeps
  <1>c. CASE Dispatch(c)
    <2>1. Working(c) /\ Steady
      BY <1>c DEF Dispatch, Working
    <2>2. Replied(c) \/ Reaches(c, "queued") \/ Reaches(c, "locking") \/ Reaches(c, "running")
      BY <1>c DEF Dispatch
    <2> QED
      BY <2>1, <2>2, RepliedKeeps, ReachesKeeps DEF Stages
  <1>d. CASE TakeWriteLock(c)
    BY <1>d, ReachesKeeps DEF TakeWriteLock, Working, Stages
  <1>e. CASE TakeUpstream(c)
    BY <1>e, ReachesKeeps, RepliedKeeps DEF TakeUpstream, Working, Stages
  <1>f. CASE WorkerEnds(c)
    BY <1>f, RepliedKeeps DEF WorkerEnds, Working
  <1> QED
    BY <1>a, <1>b, <1>c, <1>d, <1>e, <1>f

-----------------------------------------------------------------------------
(* The theorems.                                                           *)

LEMMA Beginning == LSInit => LSStrong
PROOF
  <1> SUFFICES ASSUME LSInit PROVE LSStrong
    OBVIOUS
  <1>1. \A c \in WebCalls : \E ask \in Asks :
          webcall[c] = [of |-> NoRun, ask |-> ask, at |-> "new", there |-> TRUE]
    <2>1. \A c \in WebCalls : webcall[c] \in {Unsent(ask) : ask \in Asks}
      BY DEF LSInit
    <2> QED
      BY <2>1 DEF Unsent
  <1>2. LSTypeOK
    <2>1. webcall \in [WebCalls -> [of : Runs \cup {NoRun}, ask : Asks, at : Stages, there : BOOLEAN]]
      <3>1. webcall = [c \in WebCalls |-> webcall[c]]
        BY DEF LSInit
      <3>2. ASSUME NEW c \in WebCalls
            PROVE  webcall[c] \in [of : Runs \cup {NoRun}, ask : Asks, at : Stages, there : BOOLEAN]
        <4>1. PICK ask \in Asks : webcall[c] = [of |-> NoRun, ask |-> ask, at |-> "new", there |-> TRUE]
          BY <1>1
        <4>2. NoRun \in Runs \cup {NoRun} /\ "new" \in Stages
          BY DEF Stages
        <4> QED
          BY <4>1, <4>2
      <3> QED
        BY <3>1, <3>2
    <2> QED
      BY <2>1 DEF LSInit, LSTypeOK
  <1>3. ServersKept /\ WritesExclude
    BY <1>1 DEF LSInit, ServersKept, WritesExclude
  <1>4. NobodyWaits
    BY <1>1 DEF LSInit, NobodyWaits, Works, Working
  <1>5. CallsBelong /\ ChildrenOfMcp /\ OneOpen /\ DeletedIsOver /\ LateAreDone
    BY <1>1 DEF LSInit, CallsBelong, ChildrenOfMcp, OneOpen, DeletedIsOver, LateAreDone
  <1> QED
    BY <1>2, <1>3, <1>4, <1>5 DEF LSStrong, ListenersInv

\* A deletion comes when everything it awaits has ended.
LEMMA DeleteStep ==
  ASSUME LSStrong, Delete
  PROVE  LSStrong'
PROOF
  <1>1. UNCHANGED <<setup, handle, awaited, serve, kids, webcall, late>> /\ gone'
    BY DEF Delete
  <1>2. LSTypeOK'
    BY <1>1 DEF LSStrong, ListenersInv, LSTypeOK
  <1>3. ServersKept' /\ WritesExclude'
    BY <1>1 DEF LSStrong, ListenersInv, ServersKept, WritesExclude
  <1>4. NobodyWaits'
    BY <1>1 DEF LSStrong, ListenersInv, NobodyWaits, Works, Working
  <1>5. CallsBelong' /\ ChildrenOfMcp' /\ OneOpen' /\ LateAreDone'
    BY <1>1 DEF LSStrong, CallsBelong, ChildrenOfMcp, OneOpen, LateAreDone
  <1>6. DeletedIsOver'
    BY <1>1 DEF Delete, DeletedIsOver
  <1> QED
    BY <1>2, <1>3, <1>4, <1>5, <1>6 DEF LSStrong, ListenersInv

\* Standing still changes nothing.
LEMMA Stutter ==
  ASSUME LSStrong, UNCHANGED lsvars
  PROVE  LSStrong'
PROOF
  <1>1. UNCHANGED <<setup, handle, awaited, serve, kids, webcall, gone, late>>
    BY DEF lsvars
  <1>2. LSTypeOK' /\ ServersKept' /\ WritesExclude'
    BY <1>1 DEF LSStrong, ListenersInv, LSTypeOK, ServersKept, WritesExclude
  <1>3. NobodyWaits'
    BY <1>1 DEF LSStrong, ListenersInv, NobodyWaits, Works, Working
  <1>4. CallsBelong' /\ ChildrenOfMcp' /\ OneOpen' /\ DeletedIsOver' /\ LateAreDone'
    BY <1>1 DEF LSStrong, CallsBelong, ChildrenOfMcp, OneOpen, DeletedIsOver, LateAreDone
  <1> QED
    BY <1>2, <1>3, <1>4 DEF LSStrong, ListenersInv

\* In every reachable state no local server is taken away from a call, the writes of
\* a listener exclude each other, and who waits for a listener's end waits for its
\* calls (mcp/listener.rs, actions/listener.rs, runtime/port.rs).
THEOREM ListenersSafe == LSSpec => []ListenersInv
PROOF
  <1>1. LSInit => LSStrong
    BY Beginning
  <1>2. LSStrong /\ [LSNext]_lsvars => LSStrong'
    BY RunStep, CallStep, DeleteStep, Stutter DEF LSNext
  <1>3. LSStrong => ListenersInv
    BY DEF LSStrong
  <1> QED
    BY <1>1, <1>2, <1>3, PTL DEF LSSpec
=============================================================================
