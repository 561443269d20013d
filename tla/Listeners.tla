------------------------------ MODULE Listeners ------------------------------
(***************************************************************************)
(* The listener of a workspace's service, MCP or Actions, from its start   *)
(* to its end (mcp/listener.rs, actions/listener.rs, runtime/port.rs), and *)
(* what becomes of the calls it took: a call is served by a blocking       *)
(* worker, which neither the end of its client nor the end of its listener *)
(* stops, so a listener that was told to stop can be followed by another   *)
(* one while calls of the first are still at work.                         *)
(*                                                                         *)
(* How many calls are let in is the subject of RequestLanes, what a start  *)
(* and a stop do to the table of services and to the tunnels that of       *)
(* ServiceTunnels, and the pipes to the local MCP servers that of          *)
(* UpstreamClient.                                                         *)
(***************************************************************************)
EXTENDS Integers, FiniteSets

CONSTANTS
  Setups,  \* what may be saved: [service, auth, secret, folder, readonly, children,
           \* members, approved]
  Asks,    \* what clients send: [token, tool, repo]
  Repos, Host,  \* the repositories behind one entry, and the entry's own
  NoRepo,       \* no repository is named
  MaxListenerRuns, MaxWebCalls  \* bounds: starts, and calls that arrive

Tools == {"read", "write", "upstream", "list", "hidden", "notice"}

\* Starts and calls are numbered as they come.
Runs == 1..MaxListenerRuns
WebCalls == 1..MaxWebCalls
NoRun == 0

ASSUME ListenersAssumption ==
  /\ MaxListenerRuns \in Nat /\ MaxWebCalls \in Nat /\ Host \in Repos /\ NoRepo \notin Repos
  /\ Setups \subseteq [service : {"mcp", "actions"}, auth : {"none", "token"}, secret : BOOLEAN,
                       folder : BOOLEAN, readonly : BOOLEAN, children : BOOLEAN,
                       members : SUBSET (Repos \ {Host}), approved : BOOLEAN]
  /\ Asks \subseteq [token : BOOLEAN, tool : Tools, repo : Repos \cup {NoRepo}]

VARIABLES
  setup,
  handle,   \* the run whose task the table of services can wait for
  awaited,  \* of a run, who waits for its end: "nobody", "stop" or "delete"
  serve,    \* "none", "prepared", "open", "draining", "closing", "ended", "aborted"
  kids,     \* its local MCP servers: "none", "alive", "dead"
  webcall,     \* of a request, [of, ask, at, there]: its run, whether its client is there
  gone,  \* the workspace is deleted
  late      \* the requests that wrote to its logs after that

lsvars == <<setup, handle, awaited, serve, kids, webcall, gone, late>>

\* A request nobody sent yet.
Unsent(ask) == [of |-> NoRun, ask |-> ask, at |-> "new", there |-> TRUE]

LSInit ==
  /\ setup \in Setups /\ handle = NoRun /\ awaited = [l \in Runs |-> "nobody"]
  /\ serve = [l \in Runs |-> "none"] /\ kids = [l \in Runs |-> "none"]
  /\ webcall \in [WebCalls -> {Unsent(ask) : ask \in Asks}]
  /\ gone = FALSE /\ late = {}

Working(c) == webcall[c].at \notin {"new", "done"}
Works(l) == {c \in WebCalls : webcall[c].of = l /\ Working(c)}
Busy(l, at) == {c \in WebCalls : webcall[c].of = l /\ webcall[c].at = at}

-----------------------------------------------------------------------------
(* Starts.                                                                 *)

\* The local MCP servers are started before the listener.
StartChildren(l) ==
  /\ serve[l] = "none" /\ \A k \in 1..(l - 1) : serve[k] # "none"
  /\ handle = NoRun /\ ~gone
  /\ serve' = [serve EXCEPT ![l] = "prepared"]
  /\ kids' = [kids EXCEPT ![l] = IF setup.service = "mcp" /\ setup.children THEN "alive" ELSE "none"]
  /\ UNCHANGED <<setup, handle, awaited, webcall, gone, late>>

\* What spawn_listener refuses, for either service.
Refusable ==
  IF setup.service = "mcp"
  THEN ~setup.folder \/ (setup.readonly /\ setup.children) \/ (setup.members # {} /\ ~setup.approved)
  ELSE setup.auth # "none" /\ ~setup.secret

\* A refused start, or one that finds another run in the table, shuts its servers
\* down.  The Actions listener looks for the folder only in its own task: it was said
\* to run, and ends at once.
OpenListener(l) ==
  /\ serve[l] = "prepared"
  /\ IF handle # NoRun \/ Refusable \/ \E k \in Runs : serve[k] = "open"
     THEN /\ serve' = [serve EXCEPT ![l] = "ended"]
          /\ kids' = [kids EXCEPT ![l] = IF @ = "alive" THEN "dead" ELSE @]
          /\ UNCHANGED handle
     ELSE /\ handle' = l /\ UNCHANGED kids
          /\ serve' = [serve EXCEPT ![l] = IF setup.folder THEN "open" ELSE "ended"]
  /\ UNCHANGED <<setup, awaited, webcall, gone, late>>

-----------------------------------------------------------------------------
(* Calls.                                                                  *)

Steady == UNCHANGED <<setup, handle, awaited, serve, kids, gone>>
Reaches(c, at) == webcall' = [webcall EXCEPT ![c].at = at] /\ UNCHANGED late
\* The client that is still there is answered, and the log says so.
Replied(c) ==
  /\ webcall' = [webcall EXCEPT ![c].at = "done"]
  /\ late' = IF gone /\ webcall[c].there THEN late \cup {c} ELSE late

Admitted(ask) == setup.auth = "none" \/ ask.token
\* The Actions listener offers no other tools than its own.
Exposed(ask) == setup.service = "mcp" \/ ask.tool \in {"read", "write"}

ArriveAt(c, l) ==
  /\ serve[l] = "open" /\ webcall[c].at = "new" /\ \A d \in 1..(c - 1) : webcall[d].at # "new"
  /\ webcall' = [webcall EXCEPT ![c].of = l,
                          ![c].at = IF Admitted(webcall[c].ask) /\ Exposed(webcall[c].ask) THEN "work" ELSE "done"]
  /\ Steady /\ UNCHANGED late

\* A client goes away: its connection ends, its worker does not.
Disconnect(c) ==
  /\ Working(c) /\ webcall[c].there
  /\ webcall' = [webcall EXCEPT ![c].there = FALSE]
  /\ Steady /\ UNCHANGED late

\* The repository a call is for: the only one, or the one of the entry's that it names.
Target(ask) ==
  IF setup.members = {} THEN Host
  ELSE IF ask.repo \in setup.members \cup {Host} THEN ask.repo ELSE NoRepo

\* handle_request_with_context, WorkspaceHub::handle and call, execute_action: a notice
\* is dropped, the list of repositories is the hub's own, and what is not exposed, or
\* names no repository of the entry, is refused.
Dispatch(c) ==
  /\ webcall[c].at = "work" /\ Steady
  /\ LET ask == webcall[c].ask IN
     IF \/ ask.tool \in {"notice", "list", "hidden"} \/ Target(ask) = NoRepo
        \/ ask.tool = "upstream" /\ ~setup.children
     THEN Replied(c)
     ELSE Reaches(c, IF ask.tool = "upstream" THEN "queued"
                     ELSE IF ask.tool = "write" /\ setup.service = "actions" THEN "locking" ELSE "running")

\* The lock of a listener lets one of the old workspace-wide writes in at a time.
TakeWriteLock(c) ==
  /\ webcall[c].at = "locking" /\ Busy(webcall[c].of, "writing") = {}
  /\ Reaches(c, "writing") /\ Steady

\* A server's mutex: one call at a time, and none when it is gone.
TakeUpstream(c) ==
  /\ webcall[c].at = "queued" /\ Busy(webcall[c].of, "upstream") = {} /\ Steady
  /\ IF kids[webcall[c].of] = "alive" THEN Reaches(c, "upstream") ELSE Replied(c)

\* A worker ends, well or in a panic, and its permits and locks with it.
WorkerEnds(c) ==
  /\ webcall[c].at \in {"running", "writing", "upstream"}
  /\ Replied(c) /\ Steady

-----------------------------------------------------------------------------
(* Stops.                                                                  *)

\* A start that finds the port taken by the run that was opened meanwhile enters an
\* error in its place: its task is told to stop, and nobody can wait for it any more.
ForgetHandle(l) ==
  /\ setup.service = "mcp" /\ handle = l /\ serve[l] = "open" /\ \E k \in Runs : serve[k] = "none"
  /\ handle' = NoRun /\ serve' = [serve EXCEPT ![l] = "draining"]
  /\ UNCHANGED <<setup, awaited, kids, webcall, gone, late>>

\* The task is told to stop and the command that did so takes its handle to wait for
\* it.  The port is free as soon as the listener drains.
BeginShutdown(l, command) ==
  /\ handle = l /\ ~gone
  /\ handle' = NoRun /\ awaited' = [awaited EXCEPT ![l] = command]
  /\ serve' = [serve EXCEPT ![l] = IF @ = "open" THEN "draining" ELSE @]
  /\ UNCHANGED <<setup, kids, webcall, gone, late>>

\* It ends when no connection is left; a worker without a client has none.
ConnectionsEnd(l) ==
  /\ serve[l] = "draining" /\ \A c \in Works(l) : ~webcall[c].there
  /\ serve' = [serve EXCEPT ![l] = "closing"]
  /\ UNCHANGED <<setup, handle, awaited, kids, webcall, gone, late>>

\* Mutant: the servers are killed under a call.
ChildrenShutAtOnce(l) ==
  /\ serve[l] = "closing"
  /\ serve' = [serve EXCEPT ![l] = "ended"]
  /\ kids' = [kids EXCEPT ![l] = IF @ = "alive" THEN "dead" ELSE @]
  /\ UNCHANGED <<setup, handle, awaited, webcall, gone, late>>

\* shutdown waits for the mutex of each server.
ChildrenShut(l) ==
  /\ serve[l] = "closing" /\ Busy(l, "upstream") = {}
  /\ serve' = [serve EXCEPT ![l] = "ended"]
  /\ kids' = [kids EXCEPT ![l] = IF @ = "alive" THEN "dead" ELSE @]
  /\ UNCHANGED <<setup, handle, awaited, webcall, gone, late>>

\* After three seconds a stop aborts the task, a delete waits.  The calls go on.
Abort(l) ==
  /\ awaited[l] = "stop" /\ serve[l] \in {"draining", "closing"}
  /\ serve' = [serve EXCEPT ![l] = "aborted"]
  /\ UNCHANGED <<setup, handle, awaited, kids, webcall, gone, late>>

\* The servers of an aborted run end with the last call that refers to them.
DropChildren(l) ==
  /\ serve[l] = "aborted" /\ kids[l] = "alive" /\ Works(l) = {}
  /\ kids' = [kids EXCEPT ![l] = "dead"]
  /\ UNCHANGED <<setup, handle, awaited, serve, webcall, gone, late>>

\* A workspace is deleted when the task whose handle the command took has ended, or
\* there was none to take; its logs go with it.
Delete ==
  /\ ~gone /\ handle = NoRun
  /\ \A l \in Runs : awaited[l] = "delete" => serve[l] = "ended"
  /\ gone' = TRUE
  /\ UNCHANGED <<setup, handle, awaited, serve, kids, webcall, late>>

LSNext ==
  \/ \E l \in Runs :
       \/ StartChildren(l) \/ OpenListener(l)
       \/ ForgetHandle(l) \/ BeginShutdown(l, "stop") \/ BeginShutdown(l, "delete")
       \/ ConnectionsEnd(l) \/ ChildrenShut(l) \/ Abort(l) \/ DropChildren(l)
  \/ \E c \in WebCalls :
       \/ \E l \in Runs : ArriveAt(c, l)
       \/ Disconnect(c) \/ Dispatch(c) \/ TakeWriteLock(c) \/ TakeUpstream(c)
       \/ WorkerEnds(c)
  \/ Delete

LSSpec == LSInit /\ [][LSNext]_lsvars

-----------------------------------------------------------------------------
(* Properties.                                                             *)

Stages == {"new", "work", "locking", "writing", "queued", "upstream", "running", "done"}

LSTypeOK ==
  /\ setup \in Setups /\ handle \in Runs \cup {NoRun}
  /\ awaited \in [Runs -> {"nobody", "stop", "delete"}]
  /\ serve \in [Runs -> {"none", "prepared", "open", "draining", "closing", "ended", "aborted"}]
  /\ kids \in [Runs -> {"none", "alive", "dead"}]
  /\ webcall \in [WebCalls -> [of : Runs \cup {NoRun}, ask : Asks, at : Stages, there : BOOLEAN]]
  /\ gone \in BOOLEAN /\ late \subseteq WebCalls

\* No local MCP server is taken away from a call that is talking to it, by no stop, no
\* abort and no deletion; and none outlives the listener and the calls it was for.
ServersKept ==
  /\ \A c \in WebCalls : webcall[c].at = "upstream" => kids[webcall[c].of] = "alive"
  /\ \A l \in Runs : kids[l] = "alive" =>
       serve[l] \in {"prepared", "open", "draining", "closing"} \/ serve[l] = "aborted"

\* The old workspace-wide writes of one listener exclude each other, and so do those
\* of two listeners but for a stop: the lock is the listener's own, and a call of the
\* one before may still be at work.
WritesExclude ==
  \A c, d \in WebCalls :
    c # d /\ webcall[c].at = "writing" /\ webcall[d].at = "writing" =>
      /\ webcall[c].of # webcall[d].of
      /\ serve[webcall[c].of] # "open" \/ serve[webcall[d].of] # "open"

\* A listener that ended by itself has answered every client that waited for it, and
\* the deletion of a workspace waits for the calls of the task that it could take:
\* nothing but workers without a client is left of them, and none writes to a log that
\* is gone.  What a stop was already waiting for, or had aborted, and what a failed
\* start made unknown, is not waited for.
NobodyWaits ==
  /\ \A l \in Runs : serve[l] \in {"closing", "ended"} => \A c \in Works(l) : ~webcall[c].there
  /\ \A c \in late : awaited[webcall[c].of] # "delete"

ListenersInv == LSTypeOK /\ ServersKept /\ WritesExclude /\ NobodyWaits
=============================================================================
