---------------------------- MODULE RequestLanes ----------------------------
(***************************************************************************)
(* How requests are admitted and the control requests among them kept      *)
(* served (mcp/flow_control.rs): over HTTP by three sets of slots taken    *)
(* one after the other without waiting (mcp/listener.rs mcp_post; the      *)
(* Actions listener has two of them), over stdio by two queues with        *)
(* workers of their own (desktop_cli.rs).                                  *)
(***************************************************************************)
EXTENDS Integers, Sequences, FiniteSets

CONSTANTS HttpCalls, Frames,  \* the requests on either transport
          Control,            \* those that is_control names
          Long,               \* those that wait for a process or an upstream
          HttpRequests, HttpWaiting, HttpReserved,
          StdioWorkers, ControlWorkers, QueueRoom,
          Idle

\* limits.validate
ASSUME LanesAssumption ==
  /\ HttpReserved \in 1..(HttpRequests - 1)
  /\ HttpWaiting \in 1..(HttpRequests - HttpReserved)
  /\ ControlWorkers \subseteq StdioWorkers /\ ControlWorkers # {}
  /\ Long \cap Control = {} /\ Idle \notin Frames
  /\ QueueRoom \in [{"control", "work"} -> Nat]

VARIABLES
  transport,  \* how the process was started: "http" or "stdio"
  http,     \* "new", "wait" (next to take a waiting slot), "slot", "run",
            \* "done" or "refused"
  input,    \* standard input: "open" or "closed"
  queue,    \* of each lane, the frames in it
  serving,  \* the frame a worker is at
  told      \* what the client was told of a frame: "none", "sent", "full", "answer"

rlvars == <<transport, http, input, queue, serving, told>>

RLInit ==
  /\ transport \in {"http", "stdio"}
  /\ http = [r \in HttpCalls |-> "new"] /\ input = "open"
  /\ queue = [l \in {"control", "work"} |-> <<>>]
  /\ serving = [k \in StdioWorkers |-> Idle] /\ told = [r \in Frames |-> "none"]

stdio == <<transport, input, queue, serving, told>>

-----------------------------------------------------------------------------
(* HTTP.  A refusal drops the permits taken so far; those of an execution  *)
(* are held until it ends, whether the client is still there or not.       *)

WorkHeld == {r \in HttpCalls \ Control : http[r] \in {"wait", "slot", "run"}}
WaitingHeld == {r \in Long : http[r] \in {"slot", "run"}}
SlotsHeld == {r \in HttpCalls : http[r] = "run"}

\* Mutant: the last slot is for everybody, as the work slots are too many.
TakeWorkSlotAny(r) ==
  /\ transport = "http" /\ http[r] = "new"
  /\ http' = [http EXCEPT ![r] =
       IF r \in Control \/ Cardinality(WorkHeld) < HttpRequests THEN "wait" ELSE "refused"]
  /\ UNCHANGED stdio

TakeWorkSlot(r) ==
  /\ transport = "http" /\ http[r] = "new"
  /\ http' = [http EXCEPT ![r] =
       IF r \in Control \/ Cardinality(WorkHeld) < HttpRequests - HttpReserved
         THEN "wait" ELSE "refused"]
  /\ UNCHANGED stdio

TakeWaitingSlot(r) ==
  /\ http[r] = "wait"
  /\ http' = [http EXCEPT ![r] =
       IF r \notin Long \/ Cardinality(WaitingHeld) < HttpWaiting THEN "slot" ELSE "refused"]
  /\ UNCHANGED stdio

TakeRequestSlot(r) ==
  /\ http[r] = "slot"
  /\ http' = [http EXCEPT ![r] =
       IF Cardinality(SlotsHeld) < HttpRequests THEN "run" ELSE "refused"]
  /\ UNCHANGED stdio

Execute(r) == http[r] = "run" /\ http' = [http EXCEPT ![r] = "done"] /\ UNCHANGED stdio

-----------------------------------------------------------------------------
(* Standard input and output.                                              *)

\* Mutant: one queue for all.
LaneOne(r) == "work"
Lane(r) == IF r \in Control THEN "control" ELSE "work"
Serves(k) == IF k \in ControlWorkers THEN "control" ELSE "work"

\* The reader never waits for room in a queue.
ReadFrame(r) ==
  /\ transport = "stdio" /\ input = "open" /\ told[r] = "none"
  /\ IF Len(queue[Lane(r)]) < QueueRoom[Lane(r)]
       THEN /\ queue' = [queue EXCEPT ![Lane(r)] = Append(@, r)]
            /\ told' = [told EXCEPT ![r] = "sent"]
       ELSE told' = [told EXCEPT ![r] = "full"] /\ UNCHANGED queue
  /\ UNCHANGED <<transport, http, input, serving>>

TakeFrame(k) ==
  /\ serving[k] = Idle /\ queue[Serves(k)] # <<>>
  /\ serving' = [serving EXCEPT ![k] = Head(queue[Serves(k)])]
  /\ queue' = [queue EXCEPT ![Serves(k)] = Tail(@)]
  /\ UNCHANGED <<transport, http, input, told>>

AnswerFrame(k) ==
  /\ serving[k] # Idle
  /\ told' = [told EXCEPT ![serving[k]] = "answer"]
  /\ serving' = [serving EXCEPT ![k] = Idle]
  /\ UNCHANGED <<transport, http, input, queue>>

\* The queues are drained before the workers are joined.
CloseInput ==
  /\ transport = "stdio" /\ input = "open" /\ input' = "closed"
  /\ UNCHANGED <<transport, http, queue, serving, told>>

RLNext ==
  \/ \E r \in HttpCalls : TakeWorkSlot(r) \/ TakeWaitingSlot(r) \/ TakeRequestSlot(r)
                          \/ Execute(r)
  \/ \E r \in Frames : ReadFrame(r)
  \/ \E k \in StdioWorkers : TakeFrame(k) \/ AnswerFrame(k)
  \/ CloseInput

\* Threads run, and a control request does not wait for a process.  Nothing is
\* assumed of the others: they may take all the time there is.
RLFairness ==
  \A k \in StdioWorkers :
    /\ WF_rlvars(TakeFrame(k))
    /\ WF_rlvars(serving[k] \in Control /\ AnswerFrame(k))

RLSpec == RLInit /\ [][RLNext]_rlvars /\ RLFairness

-----------------------------------------------------------------------------
RLTypeOK ==
  /\ transport \in {"http", "stdio"}
  /\ http \in [HttpCalls -> {"new", "wait", "slot", "run", "done", "refused"}]
  /\ input \in {"open", "closed"} /\ queue \in [{"control", "work"} -> Seq(Frames)]
  /\ serving \in [StdioWorkers -> Frames \cup {Idle}]
  /\ told \in [Frames -> {"none", "sent", "full", "answer"}]

\* Slow commands cannot take the place of a control request: over HTTP it is
\* refused only when the requests that are running include as many control
\* requests as have places of their own, however the acquisitions of different
\* requests interleave; over stdio it is answered once it was taken, even when
\* every other request hangs.
ControlServed ==
  /\ [][\A r \in HttpCalls \cap Control : http[r] # "refused" /\ http'[r] = "refused"
          => Cardinality(SlotsHeld \cap Control) >= HttpReserved]_rlvars
  /\ \A r \in Frames \cap Control : told[r] = "sent" ~> told[r] = "answer"
=============================================================================
