--------------------------- MODULE UpstreamClient ---------------------------
(***************************************************************************)
(* The local MCP servers behind one workspace (mcp/upstream.rs): the       *)
(* manager that starts them, forwards tool calls to them and closes them.  *)
(* Each is a child process on two pipes; calls on one child wait for its   *)
(* mutex in the order they came, and so does the close.                    *)
(*                                                                         *)
(* What the child does is modelled from how it is used: it may answer late *)
(* or never, in any order, say things nobody asked for, and end.           *)
(***************************************************************************)
EXTENDS Integers, Sequences, FiniteSets, SequencesExt

CONSTANTS Upstreams, ToolCalls,
          Target,     \* the upstream whose tool a call names
          Nobody,     \* what is in a line that answers no call
          Closer,     \* the close, as it waits for a mutex
          MaxNotices  \* bound: lines nobody asked for

ASSUME UpstreamAssumption ==
  /\ Target \in [ToolCalls -> Upstreams] /\ MaxNotices \in Nat
  /\ Nobody \notin ToolCalls /\ Closer \notin ToolCalls

VARIABLES
  manager,          \* "starting", "ready", "closing", "closed", "failing", "failed"
  clients, shut,    \* the upstreams in its table, and those closed by now
  kid,              \* the process: "none", "young", "alive", "killed", "ended"
  inbox, outbox,    \* lines on the two pipes: [id, to]
  halfIn, halfOut,  \* the last write was cut off; the head of the next line is lost
  mutex,            \* who waits for the client, its holder first
  serial,           \* next_request_id
  asked,             \* "new", "queued", "reading", "result", "error"
  id, answer,       \* the id a call sent, and for whom the answer it took was
  notices           \* how much of the bound is used

ucvars == <<manager, clients, shut, kid, inbox, outbox, halfIn, halfOut, mutex, serial,
            asked, id, answer, notices>>

UCInit ==
  /\ manager = "starting" /\ clients = {} /\ shut = {}
  /\ kid = [u \in Upstreams |-> "none"]
  /\ inbox = [u \in Upstreams |-> <<>>] /\ outbox = [u \in Upstreams |-> <<>>]
  /\ halfIn = [u \in Upstreams |-> FALSE] /\ halfOut = [u \in Upstreams |-> FALSE]
  /\ mutex = [u \in Upstreams |-> <<>>] /\ serial = [u \in Upstreams |-> 1]
  /\ asked = [c \in ToolCalls |-> "new"] /\ id = [c \in ToolCalls |-> 0]
  /\ answer = [c \in ToolCalls |-> Nobody] /\ notices = 0

pipes == <<inbox, outbox, halfIn, halfOut>>
asking == <<mutex, serial, asked, id, answer>>

-----------------------------------------------------------------------------
(* The life of the manager.                                                *)

\* start: the configured upstreams one after the other.
SpawnUpstream(u) ==
  /\ manager = "starting" /\ kid[u] = "none" /\ \A v \in Upstreams : kid[v] # "young"
  /\ kid' = [kid EXCEPT ![u] = "young"]
  /\ UNCHANGED <<manager, clients, shut, pipes, asking, notices>>

\* initialize and tools/list were answered in time, with usable names; the
\* last one makes the manager ready.
Discover(u) ==
  /\ kid[u] = "young"
  /\ kid' = [kid EXCEPT ![u] = "alive"] /\ clients' = clients \cup {u}
  /\ serial' = [serial EXCEPT ![u] = 3]
  /\ manager' = IF clients' = Upstreams THEN "ready" ELSE manager
  /\ UNCHANGED <<shut, pipes, mutex, asked, id, answer, notices>>

\* Mutant: what was started before the failure keeps running.
RefuseUpstreamOnly(u) ==
  /\ kid[u] = "young"
  /\ kid' = [kid EXCEPT ![u] = "killed"] /\ manager' = "failed"
  /\ UNCHANGED <<clients, shut, pipes, asking, notices>>

\* It did not: its client is dropped, which kills the child, and the manager
\* shuts down what it started before.
RefuseUpstream(u) ==
  /\ kid[u] = "young"
  /\ kid' = [kid EXCEPT ![u] = "killed"] /\ manager' = "failing"
  /\ UNCHANGED <<clients, shut, pipes, asking, notices>>

\* The listener has stopped serving.
BeginClose ==
  /\ manager = "ready" /\ manager' = "closing"
  /\ UNCHANGED <<clients, shut, kid, pipes, asking, notices>>

\* shutdown waits for each client in turn.
AwaitClientMutex(u) ==
  /\ manager \in {"closing", "failing"} /\ u \in clients \ shut
  /\ \A v \in Upstreams : ~Contains(mutex[v], Closer)
  /\ mutex' = [mutex EXCEPT ![u] = Append(@, Closer)]
  /\ UNCHANGED <<manager, clients, shut, kid, pipes, serial, asked, id, answer, notices>>

\* A child that has not ended is killed; three seconds are given to its end.
ShutOne(u) ==
  /\ mutex[u] # <<>> /\ Head(mutex[u]) = Closer
  /\ kid' = [kid EXCEPT ![u] = IF @ = "alive" THEN "killed" ELSE @]
  /\ mutex' = [mutex EXCEPT ![u] = Tail(@)] /\ shut' = shut \cup {u}
  /\ UNCHANGED <<manager, clients, pipes, serial, asked, id, answer, notices>>

CloseEnds ==
  /\ manager \in {"closing", "failing"} /\ shut = clients
  /\ manager' = IF manager = "closing" THEN "closed" ELSE "failed"
  /\ UNCHANGED <<clients, shut, kid, pipes, asking, notices>>

-----------------------------------------------------------------------------
(* A tool call: request and request_stdio under the client's mutex.        *)

Turn(c) == mutex[Target[c]] # <<>> /\ Head(mutex[Target[c]]) = c
Ends(c, how) == /\ asked' = [asked EXCEPT ![c] = how]
                /\ mutex' = [mutex EXCEPT ![Target[c]] = Tail(@)]

\* Calls run on threads of their own, so that they may outlive the listener.
AskTool(c) ==
  /\ manager \notin {"starting", "failing", "failed"} /\ asked[c] = "new"
  /\ asked' = [asked EXCEPT ![c] = "queued"]
  /\ mutex' = [mutex EXCEPT ![Target[c]] = Append(@, c)]
  /\ UNCHANGED <<manager, clients, shut, kid, pipes, serial, id, answer, notices>>

\* Mutant: an id that brought no answer is used again.
SendRequestSameId(c) ==
  LET u == Target[c] IN
  /\ Turn(c) /\ asked[c] = "queued"
  /\ id' = [id EXCEPT ![c] = serial[u]] /\ UNCHANGED serial
  /\ \/ /\ kid[u] = "alive" /\ asked' = [asked EXCEPT ![c] = "reading"]
        /\ inbox' = [inbox EXCEPT ![u] = Append(@,
             IF halfIn[u] THEN [id |-> 0, to |-> Nobody] ELSE [id |-> serial[u], to |-> c])]
        /\ halfIn' = [halfIn EXCEPT ![u] = FALSE] /\ UNCHANGED mutex
     \/ kid[u] # "alive" /\ Ends(c, "error") /\ UNCHANGED <<inbox, halfIn>>
     \/ kid[u] = "alive" /\ Ends(c, "error") /\ halfIn' = [halfIn EXCEPT ![u] = TRUE]
        /\ UNCHANGED inbox
  /\ UNCHANGED <<manager, clients, shut, kid, outbox, halfOut, answer, notices>>

\* A fresh id; the write succeeds, fails because the child has ended, or is
\* cut off by its timeout when the child does not read: then the rest of the
\* line is never sent, and the next message becomes the end of that line.
SendRequest(c) ==
  LET u == Target[c] IN
  /\ Turn(c) /\ asked[c] = "queued"
  /\ id' = [id EXCEPT ![c] = serial[u]] /\ serial' = [serial EXCEPT ![u] = @ + 1]
  /\ \/ /\ kid[u] = "alive" /\ asked' = [asked EXCEPT ![c] = "reading"]
        /\ inbox' = [inbox EXCEPT ![u] = Append(@,
             IF halfIn[u] THEN [id |-> 0, to |-> Nobody] ELSE [id |-> serial[u], to |-> c])]
        /\ halfIn' = [halfIn EXCEPT ![u] = FALSE] /\ UNCHANGED mutex
     \/ kid[u] # "alive" /\ Ends(c, "error") /\ UNCHANGED <<inbox, halfIn>>
     \/ kid[u] = "alive" /\ Ends(c, "error") /\ halfIn' = [halfIn EXCEPT ![u] = TRUE]
        /\ UNCHANGED inbox
  /\ UNCHANGED <<manager, clients, shut, kid, outbox, halfOut, answer, notices>>

\* A line: the rest of a torn one is invalid, another id is passed over, the
\* right one is the result or the tool's error.
ReadLine(c) ==
  LET u == Target[c]
      line == Head(outbox[u])
  IN
  /\ Turn(c) /\ asked[c] = "reading" /\ outbox[u] # <<>>
  /\ outbox' = [outbox EXCEPT ![u] = Tail(@)]
  /\ halfOut' = [halfOut EXCEPT ![u] = FALSE]
  /\ IF halfOut[u] THEN Ends(c, "error") /\ UNCHANGED answer
     ELSE IF line.id # id[c] THEN UNCHANGED <<asked, mutex, answer>>
     ELSE /\ \E how \in {"result", "error"} : Ends(c, how)
          /\ answer' = [answer EXCEPT ![c] = line.to]
  /\ UNCHANGED <<manager, clients, shut, kid, inbox, halfIn, serial, id, notices>>

ReadEnd(c) ==
  LET u == Target[c] IN
  /\ Turn(c) /\ asked[c] = "reading" /\ outbox[u] = <<>> /\ kid[u] \in {"killed", "ended"}
  /\ Ends(c, "error")
  /\ UNCHANGED <<manager, clients, shut, kid, pipes, serial, id, answer, notices>>

\* The deadline, between two lines or in the middle of one, whose head is lost
\* with the buffer of the cancelled read_line.
ReadTimeout(c) ==
  LET u == Target[c] IN
  /\ Turn(c) /\ asked[c] = "reading"
  /\ \/ UNCHANGED halfOut
     \/ outbox[u] = <<>> /\ kid[u] = "alive" /\ halfOut' = [halfOut EXCEPT ![u] = TRUE]
  /\ Ends(c, "error")
  /\ UNCHANGED <<manager, clients, shut, kid, inbox, outbox, halfIn, serial, id, answer,
                 notices>>

-----------------------------------------------------------------------------
(* The child.                                                              *)

KidAnswers(u) ==
  /\ kid[u] = "alive"
  /\ \E i \in DOMAIN inbox[u] :
       /\ inbox' = [inbox EXCEPT ![u] = RemoveAt(@, i)]
       /\ outbox' = [outbox EXCEPT ![u] = IF inbox[u][i].to = Nobody THEN @
                                          ELSE Append(@, inbox[u][i])]
  /\ UNCHANGED <<manager, clients, shut, kid, halfIn, halfOut, asking, notices>>

KidNotifies(u) ==
  /\ kid[u] = "alive" /\ notices < MaxNotices /\ notices' = notices + 1
  /\ outbox' = [outbox EXCEPT ![u] = Append(@, [id |-> 0, to |-> Nobody])]
  /\ UNCHANGED <<manager, clients, shut, kid, inbox, halfIn, halfOut, asking>>

KidEnds(u) ==
  /\ kid[u] \in {"alive", "killed"} /\ kid' = [kid EXCEPT ![u] = "ended"]
  /\ UNCHANGED <<manager, clients, shut, pipes, asking, notices>>

-----------------------------------------------------------------------------
Serve(c) == SendRequest(c) \/ ReadLine(c) \/ ReadEnd(c) \/ ReadTimeout(c)

UCNext ==
  \/ \E u \in Upstreams : \/ SpawnUpstream(u) \/ Discover(u) \/ RefuseUpstream(u)
                          \/ AwaitClientMutex(u) \/ ShutOne(u)
                          \/ KidAnswers(u) \/ KidNotifies(u) \/ KidEnds(u)
  \/ \E c \in ToolCalls : AskTool(c) \/ Serve(c)
  \/ BeginClose \/ CloseEnds

\* Deadlines pass and threads run; nothing is assumed of a child, but that it
\* does not survive SIGKILL.  A deadline does not wait for an answer.
UCFairness ==
  /\ \A c \in ToolCalls : WF_ucvars(SendRequest(c)) /\ WF_ucvars(ReadTimeout(c))
  /\ \A u \in Upstreams : /\ WF_ucvars(AwaitClientMutex(u)) /\ WF_ucvars(ShutOne(u))
                          /\ WF_ucvars(kid[u] = "killed" /\ KidEnds(u))
  /\ WF_ucvars(CloseEnds)

UCSpec == UCInit /\ [][UCNext]_ucvars /\ UCFairness

-----------------------------------------------------------------------------
UCTypeOK ==
  /\ manager \in {"starting", "ready", "closing", "closed", "failing", "failed"}
  /\ clients \subseteq Upstreams /\ shut \subseteq clients
  /\ kid \in [Upstreams -> {"none", "young", "alive", "killed", "ended"}]
  /\ halfIn \in [Upstreams -> BOOLEAN] /\ halfOut \in [Upstreams -> BOOLEAN]
  /\ mutex \in [Upstreams -> Seq(ToolCalls \cup {Closer})]
  /\ serial \in [Upstreams -> Nat] /\ id \in [ToolCalls -> Nat]
  /\ asked \in [ToolCalls -> {"new", "queued", "reading", "result", "error"}]
  /\ answer \in [ToolCalls -> ToolCalls \cup {Nobody}] /\ notices \in Nat

\* A call takes the answer to its own request and no other, however late the
\* answers to those that timed out before it arrive.
OwnAnswer == \A c \in ToolCalls : answer[c] \in {c, Nobody}

\* A manager that is closed, or that could not start, has left no child.
NoKidLeft == manager \in {"closed", "failed"} =>
               \A u \in Upstreams : kid[u] \notin {"young", "alive"}

UpstreamInv == UCTypeOK /\ OwnAnswer /\ NoKidLeft

\* Every call ends and every close ends, though a child may hang, be torn in
\* the middle of a line or end at any moment.
UpstreamEnds ==
  /\ \A c \in ToolCalls : asked[c] = "queued" ~> asked[c] \in {"result", "error"}
  /\ manager \in {"closing", "failing"} ~>
       \A u \in Upstreams : kid[u] \in {"none", "ended"}
=============================================================================
