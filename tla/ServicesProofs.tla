--------------------------- MODULE ServicesProofs ---------------------------
(***************************************************************************)
(* Theorems about what a service does for its clients: an interactive      *)
(* session, for any number of callers; the client of upstream servers, for *)
(* any servers and calls; the output of commands, for any bytes and caps;  *)
(* the Git tools, for any changes of the repository; and the list of tasks *)
(* over any desks and orders of the rows.                                  *)
(***************************************************************************)
EXTENDS ExecSession, UpstreamClient, OutputPages, GitReading, Workbench,
        SequenceTheorems, WellFoundedInduction, FiniteSetTheorems, TLAPS

-----------------------------------------------------------------------------
(* ExecSession.  Its invariant speaks of a process that has ended; what    *)
(* makes it inductive is who has seen the end, and that the monitor begins *)
(* when the first call is over.                                            *)

\* Before the process nothing is recorded.
BeforeProcess == stage["run"] = "start" => proc = "none" /\ ~exited /\ replied = "nothing"

\* The call and the monitor follow one another.
MonitorAfter == stage["run"] \in {"start", "stdin", "loop"} => stage["mon"] = "none"

\* Who is about to remove the session, or to have it removed, has seen the end.
EndSeen ==
  /\ \A a \in Agents : stage[a] \in {"collect", "retain", "remove"} => exited
  /\ evict # {} => exited

\* The monitor of a session that was handed out goes on until it has.
MonitorGoesOn ==
  /\ replied = "kept" => stage["mon"] \in {"sleep", "mark", "kill", "reap", "retain", "done"}
  /\ stage["mon"] = "done" => exited

ESStrong == SessionInv /\ BeforeProcess /\ MonitorAfter /\ EndSeen /\ MonitorGoesOn

\* A look at the status records an end that is seen, and nothing else.
LEMMA LooksRecords ==
  ASSUME ESStrong, Looks
  PROVE  /\ exited' \in BOOLEAN /\ cause' \in {"none", "exited", "timeout", "killed"}
         /\ exited' => proc = "ended"
         /\ exited => exited'
         /\ ExitSeen => exited'
         /\ child = "free"
  BY DEF ESStrong, SessionInv, ESTypeOK, ExitIsReal, Looks, RecordExit, ExitSeen

\* A move leaves everybody somewhere.
LEMMA MovesTyped ==
  ASSUME NEW a \in Agents, NEW s \in SessionStages, stage \in [Agents -> SessionStages],
         Moves(a, s)
  PROVE  stage' \in [Agents -> SessionStages]
  BY DEF Moves

LEMMA SessionStep ==
  ASSUME ESStrong, [ESNext]_esvars
  PROVE  ESStrong'
PROOF
  <1> USE SessionAssumption
          DEF ESStrong, SessionInv, ESTypeOK, ExitIsReal, GoneIsOver, Watched, HandleHeld,
              BeforeProcess, MonitorAfter, EndSeen, MonitorGoesOn, SessionStages, Moves, Agents
  <1>1. CASE SpawnSession
    <2>0. stage' \in [Agents -> SessionStages]
      BY <1>1, MovesTyped DEF SpawnSession, SessionStages
    <2>1. ESTypeOK'
      BY <1>1, <2>0 DEF SpawnSession
    <2>2. ExitIsReal' /\ GoneIsOver'
      BY <1>1 DEF SpawnSession
    <2>3. Watched'
      BY <1>1 DEF SpawnSession
    <2>4. HandleHeld'
      BY <1>1 DEF SpawnSession
    <2>5. BeforeProcess' /\ MonitorAfter'
      BY <1>1 DEF SpawnSession
    <2>6. EndSeen' /\ MonitorGoesOn'
      BY <1>1 DEF SpawnSession
    <2> QED BY <2>0, <2>1, <2>2, <2>3, <2>4, <2>5, <2>6
  <1>2. CASE FeedStdin
    <2>0. stage' \in [Agents -> SessionStages]
      BY <1>2, MovesTyped DEF FeedStdin, SessionStages
    <2>1. ESTypeOK'
      BY <1>2, <2>0 DEF FeedStdin
    <2>2. ExitIsReal' /\ GoneIsOver'
      BY <1>2 DEF FeedStdin
    <2>3. Watched'
      BY <1>2 DEF FeedStdin
    <2>4. HandleHeld'
      BY <1>2 DEF FeedStdin
    <2>5. BeforeProcess' /\ MonitorAfter'
      BY <1>2 DEF FeedStdin
    <2>6. EndSeen'
      BY <1>2 DEF FeedStdin
    <2>7. MonitorGoesOn'
      BY <1>2 DEF FeedStdin
    <2> QED
      BY <2>1, <2>2, <2>3, <2>4, <2>5, <2>6, <2>7
  <1>3. CASE RunRound
    <2>1. ESTypeOK'
      BY <1>3, LooksRecords DEF RunRound
    <2>2. ExitIsReal' /\ GoneIsOver'
      BY <1>3, LooksRecords DEF RunRound
    <2>3. Watched'
      BY <1>3, LooksRecords DEF RunRound
    <2>4. HandleHeld'
      BY <1>3, LooksRecords DEF RunRound
    <2>5. BeforeProcess' /\ MonitorAfter'
      BY <1>3, LooksRecords DEF RunRound
    <2>6. EndSeen'
      BY <1>3, LooksRecords DEF RunRound
    <2>7. MonitorGoesOn'
      BY <1>3, LooksRecords DEF RunRound
    <2> QED
      BY <2>1, <2>2, <2>3, <2>4, <2>5, <2>6, <2>7
  <1>4. CASE CollectResult
    BY <1>4 DEF CollectResult
  <1>5. CASE MonitorWakes
    BY <1>5, LooksRecords DEF MonitorWakes
  <1>6. ASSUME NEW a \in {"run", "mon"}, Ending(a)
        PROVE  ESStrong'
    <2>1. CASE MarkTimeout(a)
      BY <1>6, <2>1 DEF MarkTimeout
    <2>2. CASE KillChild(a)
      BY <1>6, <2>2 DEF KillChild
    <2>3. CASE ReapChild(a)
      BY <1>6, <2>3 DEF ReapChild, RecordExit
    <2>4. CASE RetainSession(a)
      BY <1>6, <2>4 DEF RetainSession
    <2>5. CASE EvictSession(a)
      <3>1. ESTypeOK'
        <4>1. stored' \in BOOLEAN
          BY <1>6, <2>5, Zenon DEF EvictSession
        <4>2. evict' \subseteq {"run", "mon"}
          BY <1>6, <2>5 DEF EvictSession
        <4> QED
          BY <1>6, <2>5, <4>1, <4>2 DEF EvictSession
      <3>2. ExitIsReal' /\ GoneIsOver'
        BY <1>6, <2>5 DEF EvictSession
      <3>3. Watched'
        BY <1>6, <2>5 DEF EvictSession
      <3>4. HandleHeld'
        BY <1>6, <2>5 DEF EvictSession
      <3>5. BeforeProcess' /\ MonitorAfter'
        BY <1>6, <2>5 DEF EvictSession
      <3>6. EndSeen'
        BY <1>6, <2>5 DEF EvictSession
      <3>7. MonitorGoesOn'
        BY <1>6, <2>5 DEF EvictSession
      <3> QED
        BY <3>1, <3>2, <3>3, <3>4, <3>5, <3>6, <3>7
    <2> QED
      BY <1>6, <2>1, <2>2, <2>3, <2>4, <2>5 DEF Ending
  <1>7. ASSUME NEW u \in Users, ObserveSession(u) \/ BeginKill(u)
        PROVE  ESStrong'
    <2>1. CASE ObserveSession(u)
      BY <2>1, LooksRecords DEF ObserveSession, Uses
    <2>2. CASE BeginKill(u)
      BY <2>2, LooksRecords DEF BeginKill, Uses
    <2> QED
      BY <1>7, <2>1, <2>2
  <1>8. ASSUME NEW u \in Users, UserStep(u)
        PROVE  ESStrong'
    <2>1. CASE MarkKilled(u)
      BY <2>1 DEF MarkKilled
    <2>2. CASE SignalChild(u)
      <3>1. ESTypeOK'
        BY <2>2 DEF SignalChild
      <3>2. ExitIsReal' /\ GoneIsOver'
        BY <2>2 DEF SignalChild
      <3>3. Watched'
        BY <2>2 DEF SignalChild
      <3>4. HandleHeld'
        BY <2>2 DEF SignalChild
      <3>5. BeforeProcess' /\ MonitorAfter'
        BY <2>2 DEF SignalChild
      <3>6. EndSeen'
        BY <2>2 DEF SignalChild
      <3>7. MonitorGoesOn'
        BY <2>2 DEF SignalChild
      <3> QED
        BY <3>1, <3>2, <3>3, <3>4, <3>5, <3>6, <3>7
    <2>3. CASE AttendChild(u)
      <3>0. stage' \in [Agents -> SessionStages]
        BY <2>3, MovesTyped DEF AttendChild, SessionStages
      <3>1. ESTypeOK'
        BY <2>3, <3>0 DEF AttendChild
      <3>2. ExitIsReal' /\ GoneIsOver'
        BY <2>3 DEF AttendChild
      <3>3. Watched'
        BY <2>3 DEF AttendChild
      <3>4. HandleHeld'
        BY <2>3 DEF AttendChild
      <3>5. BeforeProcess' /\ MonitorAfter'
        BY <2>3 DEF AttendChild
      <3>6. EndSeen'
        BY <2>3 DEF AttendChild
      <3>7. MonitorGoesOn'
        BY <2>3 DEF AttendChild
      <3> QED
        BY <3>1, <3>2, <3>3, <3>4, <3>5, <3>6, <3>7
    <2>4. CASE AttendEnds(u)
      BY <2>4 DEF AttendEnds
    <2>5. CASE VerifyKill(u)
      BY <2>5, LooksRecords DEF VerifyKill
    <2>6. CASE RemoveKilled(u)
      <3>0. stage' \in [Agents -> SessionStages]
        BY <2>6, MovesTyped DEF RemoveKilled, SessionStages
      <3>1. ESTypeOK'
        <4>1. stored' \in BOOLEAN
          BY <2>6, Zenon DEF RemoveKilled
        <4>2. evict' \subseteq {"run", "mon"}
          BY <2>6 DEF RemoveKilled
        <4> QED
          BY <2>6, <3>0, <4>1, <4>2 DEF RemoveKilled
      <3>2. ExitIsReal' /\ GoneIsOver'
        BY <2>6 DEF RemoveKilled
      <3>3. Watched'
        BY <2>6 DEF RemoveKilled
      <3>4. HandleHeld'
        BY <2>6 DEF RemoveKilled
      <3>5. BeforeProcess' /\ MonitorAfter'
        BY <2>6 DEF RemoveKilled
      <3>6. EndSeen'
        BY <2>6 DEF RemoveKilled
      <3>7. MonitorGoesOn'
        BY <2>6 DEF RemoveKilled
      <3> QED
        BY <3>1, <3>2, <3>3, <3>4, <3>5, <3>6, <3>7
    <2> QED
      BY <1>8, <2>1, <2>2, <2>3, <2>4, <2>5, <2>6 DEF UserStep
  <1>9. CASE ProcessEnds
    BY <1>9 DEF ProcessEnds
  <1>10. CASE DeadlineComes
    BY <1>10 DEF DeadlineComes
  <1>11. CASE UNCHANGED esvars
    BY <1>11 DEF esvars
  <1> QED
    BY <1>1, <1>2, <1>3, <1>4, <1>5, <1>6, <1>7, <1>8, <1>9, <1>10, <1>11 DEF ESNext

\* In every reachable state a status that says exited is of a process that has ended, a
\* session out of the store has ended, one that was handed out is watched, and who holds
\* the process's handle is about to give it back (tools/exec.rs, tools/session.rs).
THEOREM SessionSafe == ESSpec => []SessionInv
PROOF
  <1>1. ESInit => ESStrong
    <2> SUFFICES ASSUME ESInit PROVE ESStrong
      OBVIOUS
    <2>1. ESTypeOK
    BY SessionAssumption DEF ESInit, Agents, ESTypeOK, SessionStages
    <2>2. ExitIsReal /\ GoneIsOver
    BY SessionAssumption DEF ESInit, Agents, ExitIsReal, GoneIsOver
    <2>3. Watched
    BY SessionAssumption DEF ESInit, Agents, Watched
    <2>4. HandleHeld
    BY SessionAssumption DEF ESInit, Agents, HandleHeld
    <2>5. BeforeProcess /\ MonitorAfter
    BY SessionAssumption DEF ESInit, Agents, BeforeProcess, MonitorAfter
    <2>6. EndSeen
    BY SessionAssumption DEF ESInit, Agents, EndSeen
    <2>7. MonitorGoesOn
    BY SessionAssumption DEF ESInit, Agents, MonitorGoesOn
    <2> QED
      BY <2>1, <2>2, <2>3, <2>4, <2>5, <2>6, <2>7 DEF ESStrong, SessionInv
  <1>2. ESStrong /\ [ESNext]_esvars => ESStrong'
    BY SessionStep
  <1>3. ESStrong => SessionInv
    BY DEF ESStrong
  <1> QED
    BY <1>1, <1>2, <1>3, PTL DEF ESSpec

-----------------------------------------------------------------------------
(* What is in a queue or on a pipe after a step was there before it.       *)

LEMMA RangeWithin ==
  ASSUME NEW S, NEW s \in Seq(S), NEW t \in Seq(S),
         \A j \in 1 .. Len(t) : \E k \in 1 .. Len(s) : t[j] = s[k]
  PROVE  Range(t) \subseteq Range(s)
PROOF
  <1>1. Range(t) = {t[j] : j \in 1 .. Len(t)} /\ Range(s) = {s[k] : k \in 1 .. Len(s)}
    BY RangeEquality
  <1> QED
    BY <1>1

LEMMA RangeAppend ==
  ASSUME NEW S, NEW s \in Seq(S), NEW e \in S
  PROVE  Append(s, e) \in Seq(S) /\ Range(Append(s, e)) \subseteq Range(s) \cup {e}
PROOF
  <1>1. Append(s, e) \in Seq(S)
    BY AppendProperties
  <1>2. Range(Append(s, e)) = {Append(s, e)[j] : j \in 1 .. Len(Append(s, e))}
    BY <1>1, RangeEquality
  <1>3. Range(s) = {s[j] : j \in 1 .. Len(s)}
    BY RangeEquality
  <1>4. /\ Len(Append(s, e)) = Len(s) + 1
        /\ \A j \in 1 .. Len(s) + 1 : Append(s, e)[j] = IF j = Len(s) + 1 THEN e ELSE s[j]
    BY AppendProperties
  <1> QED
    BY <1>1, <1>2, <1>3, <1>4

LEMMA RangeTail ==
  ASSUME NEW S, NEW s \in Seq(S), s # <<>>
  PROVE  /\ Head(s) \in S /\ Head(s) \in Range(s)
         /\ Tail(s) \in Seq(S) /\ Range(Tail(s)) \subseteq Range(s)
PROOF
  <1>1. Head(s) = s[1] /\ 1 \in 1 .. Len(s)
    OBVIOUS
  <1>2. /\ Tail(s) \in Seq(S) /\ Len(Tail(s)) = Len(s) - 1
        /\ \A i \in 1 .. Len(Tail(s)) : Tail(s)[i] = s[i + 1] /\ i + 1 \in 1 .. Len(s)
    BY HeadTailProperties
  <1>3. Head(s) \in Range(s)
    BY <1>1 DEF Range
  <1>4. Range(Tail(s)) \subseteq Range(s)
    BY <1>2, RangeWithin
  <1> QED
    BY <1>1, <1>2, <1>3, <1>4

LEMMA RangeRemove ==
  ASSUME NEW S, NEW s \in Seq(S), NEW i \in DOMAIN s
  PROVE  /\ s[i] \in S /\ s[i] \in Range(s)
         /\ RemoveAt(s, i) \in Seq(S) /\ Range(RemoveAt(s, i)) \subseteq Range(s)
PROOF
  <1> DEFINE a == SubSeq(s, 1, i - 1)
             b == SubSeq(s, i + 1, Len(s))
  <1>1. i \in 1 .. Len(s) /\ s[i] \in S /\ s[i] \in Range(s)
    BY DEF Range
  <1>2. a \in Seq(S) /\ Range(a) \subseteq Range(s)
    <2>1. a \in Seq(S) /\ Len(a) = i - 1 /\ \A j \in 1 .. i - 1 : a[j] = s[j]
      BY <1>1, SubSeqProperties
    <2> HIDE DEF a
    <2> QED
      BY <1>1, <2>1, RangeWithin
  <1>3. b \in Seq(S) /\ Range(b) \subseteq Range(s)
    <2>1. \A j \in i + 1 .. Len(s) : s[j] \in S
      BY <1>1
    <2>2. /\ b \in Seq(S) /\ Len(b) = Len(s) - i
          /\ \A j \in 1 .. Len(s) - i : b[j] = s[i + j]
      BY <1>1, <2>1, SubSeqProperties
    <2> HIDE DEF b
    <2>3. \A j \in 1 .. Len(b) : b[j] = s[i + j] /\ i + j \in 1 .. Len(s)
      BY <1>1, <2>2
    <2> QED
      BY <2>2, <2>3, RangeWithin
  <1> HIDE DEF a, b
  <1>4. a \o b \in Seq(S) /\ Range(a \o b) = Range(a) \cup Range(b)
    BY <1>2, <1>3, ConcatProperties, RangeConcatenation
  <1>5. RemoveAt(s, i) = a \o b
    BY DEF RemoveAt, a, b
  <1> QED
    BY <1>1, <1>2, <1>3, <1>4, <1>5

-----------------------------------------------------------------------------
(* UpstreamClient.  A call takes its own answer because a line that names  *)
(* a call has the id that call sent, and no two calls of a server sent the *)
(* same; a manager leaves no child because what runs is in its table, and  *)
(* what it has shut does not run.                                          *)

Lines == [id : Nat, to : ToolCalls \cup {Nobody}]
LinesTyped == inbox \in [Upstreams -> Seq(Lines)] /\ outbox \in [Upstreams -> Seq(Lines)]

\* Nothing is asked before the manager is ready.
StartsQuietly == manager = "starting" => \A c \in ToolCalls : asked[c] = "new"

\* One child is young at a time, and only while the manager starts.
OneYoung == \A u, v \in Upstreams :
  kid[u] = "young" => manager = "starting" /\ (kid[v] = "young" => v = u)

\* What runs, and what the close waits for, is in the table; what was shut is over.
TableRight ==
  /\ \A u \in Upstreams : /\ kid[u] = "alive" => u \in clients
                          /\ u \in clients => kid[u] \notin {"none", "young"}
                          /\ Closer \in Range(mutex[u]) => u \in clients
  /\ \A u \in shut : kid[u] \in {"killed", "ended"}

Sent(c) == asked[c] \notin {"new", "queued"}

\* An id is used once on a server.
IdsOnce ==
  /\ \A c \in ToolCalls : Sent(c) => id[c] < serial[Target[c]]
  /\ \A c, d \in ToolCalls :
       Sent(c) /\ Sent(d) /\ Target[c] = Target[d] /\ id[c] = id[d] => c = d

\* A line that names a call has the id that call sent.
NamesSender(u, l) ==
  l.to \in ToolCalls => Target[l.to] = u /\ Sent(l.to) /\ id[l.to] = l.id
LinesRight == \A u \in Upstreams : \A l \in Range(inbox[u]) \cup Range(outbox[u]) :
                NamesSender(u, l)

UCStrong == /\ UpstreamInv /\ LinesTyped /\ StartsQuietly /\ OneYoung /\ TableRight
            /\ IdsOnce /\ LinesRight

\* The manager starts, shuts and loses its children.
LEMMA ManagerStep ==
  ASSUME UCStrong,
         \/ \E u \in Upstreams : \/ SpawnUpstream(u) \/ Discover(u) \/ RefuseUpstream(u)
                                 \/ AwaitClientMutex(u) \/ ShutOne(u) \/ KidEnds(u)
         \/ BeginClose \/ CloseEnds
  PROVE  UCStrong'
PROOF
  <1> USE UpstreamAssumption
          DEF UCStrong, UpstreamInv, UCTypeOK, OwnAnswer, NoKidLeft, LinesTyped,
              StartsQuietly, OneYoung, TableRight, IdsOnce, NamesSender, LinesRight, Sent,
              pipes, asking
  <1>1. ASSUME NEW u \in Upstreams, SpawnUpstream(u)
        PROVE  UCStrong'
    BY <1>1 DEF SpawnUpstream
  <1>2. ASSUME NEW u \in Upstreams, Discover(u)
        PROVE  UCStrong'
    <2>1. manager = "starting" /\ \A c \in ToolCalls : asked[c] = "new"
      BY <1>2 DEF Discover
    <2>2. UCTypeOK' /\ LinesTyped' /\ OwnAnswer' /\ NoKidLeft'
      BY <1>2, <2>1 DEF Discover
    <2>3. StartsQuietly' /\ OneYoung' /\ TableRight'
      BY <1>2, <2>1 DEF Discover
    <2>4. IdsOnce' /\ LinesRight'
      BY <1>2, <2>1 DEF Discover
    <2> QED
      BY <2>2, <2>3, <2>4
  <1>3. ASSUME NEW u \in Upstreams, RefuseUpstream(u)
        PROVE  UCStrong'
    BY <1>3 DEF RefuseUpstream
  <1>4. ASSUME NEW u \in Upstreams, AwaitClientMutex(u)
        PROVE  UCStrong'
    <2>1. /\ Append(mutex[u], Closer) \in Seq(ToolCalls \cup {Closer})
          /\ Range(Append(mutex[u], Closer)) \subseteq Range(mutex[u]) \cup {Closer}
      <3>1. mutex[u] \in Seq(ToolCalls \cup {Closer}) /\ Closer \in ToolCalls \cup {Closer}
        OBVIOUS
      <3> QED
        BY <3>1, RangeAppend
    <2> QED
      BY <1>4, <2>1 DEF AwaitClientMutex
  <1>5. ASSUME NEW u \in Upstreams, ShutOne(u)
        PROVE  UCStrong'
    <2>1. /\ Head(mutex[u]) \in Range(mutex[u])
          /\ Tail(mutex[u]) \in Seq(ToolCalls \cup {Closer})
          /\ Range(Tail(mutex[u])) \subseteq Range(mutex[u])
      BY <1>5, RangeTail DEF ShutOne
    <2>2. u \in clients /\ kid[u] \notin {"none", "young"}
      BY <1>5, <2>1 DEF ShutOne
    <2> QED
      BY <1>5, <2>1, <2>2 DEF ShutOne
  <1>6. ASSUME NEW u \in Upstreams, KidEnds(u)
        PROVE  UCStrong'
    BY <1>6 DEF KidEnds
  <1>7. CASE BeginClose
    BY <1>7 DEF BeginClose
  <1>8. CASE CloseEnds
    <2>1. NoKidLeft'
      BY <1>8 DEF CloseEnds
    <2>2. UCTypeOK' /\ LinesTyped' /\ OwnAnswer' /\ StartsQuietly' /\ OneYoung'
      BY <1>8 DEF CloseEnds
    <2>3. TableRight' /\ IdsOnce' /\ LinesRight'
      BY <1>8 DEF CloseEnds
    <2> QED
      BY <2>1, <2>2, <2>3
  <1> QED
    BY <1>1, <1>2, <1>3, <1>4, <1>5, <1>6, <1>7, <1>8

\* What a call does leaves the manager and its children alone.
LEMMA LifeKept ==
  ASSUME UCStrong, UNCHANGED <<manager, clients, shut, kid>>,
         manager # "starting" \/ UNCHANGED asked,
         \A u \in Upstreams : Closer \in Range(mutex'[u]) => Closer \in Range(mutex[u])
  PROVE  StartsQuietly' /\ OneYoung' /\ TableRight' /\ NoKidLeft'
PROOF
  <1>1. StartsQuietly' /\ OneYoung' /\ NoKidLeft'
    BY DEF UCStrong, UpstreamInv, StartsQuietly, OneYoung, NoKidLeft
  <1>2. TableRight'
    BY DEF UCStrong, UpstreamInv, TableRight
  <1> QED
    BY <1>1, <1>2

\* Neither is an id used nor a line written when a call that has sent ends.
LEMMA IdsKept ==
  ASSUME UCStrong, UNCHANGED <<id, serial>>,
         \A d \in ToolCalls : asked'[d] \in {"new", "queued"} <=> asked[d] \in {"new", "queued"},
         \A u \in Upstreams : /\ Range(inbox'[u]) \subseteq Range(inbox[u])
                              /\ Range(outbox'[u]) \subseteq Range(outbox[u])
  PROVE  IdsOnce' /\ LinesRight'
PROOF
  <1>1. IdsOnce'
    BY DEF UCStrong, IdsOnce, Sent
  <1>2. LinesRight'
    BY DEF UCStrong, LinesRight, NamesSender, Sent
  <1> QED
    BY <1>1, <1>2

\* A call joins the queue of its server, or leaves it.
LEMMA QueueStep ==
  ASSUME UCStrong, NEW c \in ToolCalls,
         \/ UNCHANGED mutex
         \/ mutex' = [mutex EXCEPT ![Target[c]] = Append(@, c)]
         \/ mutex[Target[c]] # <<>> /\ mutex' = [mutex EXCEPT ![Target[c]] = Tail(@)]
  PROVE  /\ mutex' \in [Upstreams -> Seq(ToolCalls \cup {Closer})]
         /\ \A u \in Upstreams : Closer \in Range(mutex'[u]) => Closer \in Range(mutex[u])
PROOF
  <1> DEFINE S == ToolCalls \cup {Closer}
             q == mutex[Target[c]]
  <1>1. /\ Target[c] \in Upstreams /\ q \in Seq(S) /\ c \in S /\ c # Closer
        /\ mutex \in [Upstreams -> Seq(S)]
    BY UpstreamAssumption DEF UCStrong, UpstreamInv, UCTypeOK, UpstreamAssumption
  <1> HIDE DEF S
  <1>2. Append(q, c) \in Seq(S) /\ Range(Append(q, c)) \subseteq Range(q) \cup {c}
    BY <1>1, RangeAppend
  <1>3. q # <<>> => Tail(q) \in Seq(S) /\ Range(Tail(q)) \subseteq Range(q)
    BY <1>1, RangeTail
  <1>4. mutex' \in [Upstreams -> Seq(S)]
    BY <1>1, <1>2, <1>3
  <1>5. ASSUME NEW u \in Upstreams, Closer \in Range(mutex'[u])
        PROVE  Closer \in Range(mutex[u])
    <2>1. CASE u # Target[c]
      BY <1>1, <1>5, <2>1
    <2>2. CASE u = Target[c]
      <3>1. Range(mutex'[u]) \subseteq Range(q) \cup {c}
        BY <1>1, <1>2, <1>3, <2>2
      <3> QED
        BY <1>1, <1>5, <2>2, <3>1
    <2> QED
      BY <2>1, <2>2
  <1> QED
    BY <1>4, <1>5 DEF S

\* A call asks, sends and reads.
LEMMA CallStep ==
  ASSUME UCStrong, NEW c \in ToolCalls, AskTool(c) \/ Serve(c)
  PROVE  UCStrong'
PROOF
  <1> DEFINE u == Target[c]
  <1>0. u \in Upstreams
    BY UpstreamAssumption DEF UpstreamAssumption
  <1>a. UCTypeOK /\ OwnAnswer /\ LinesTyped
    BY DEF UCStrong, UpstreamInv
  <1>b. asked[c] # "new" => manager # "starting"
    BY DEF UCStrong, StartsQuietly
  <1>1. CASE AskTool(c)
    <2>1. UCTypeOK' /\ LinesTyped' /\ OwnAnswer'
      BY <1>0, <1>1, <1>a, QueueStep DEF AskTool, UCTypeOK, LinesTyped, OwnAnswer, pipes
    <2>2. StartsQuietly' /\ OneYoung' /\ TableRight' /\ NoKidLeft'
      BY <1>1, QueueStep, LifeKept DEF AskTool
    <2>3. IdsOnce' /\ LinesRight'
      <3>1. \A d \in ToolCalls :
              asked'[d] \in {"new", "queued"} <=> asked[d] \in {"new", "queued"}
        BY <1>1, <1>a DEF AskTool, UCTypeOK
      <3> QED
        BY <1>1, <3>1, IdsKept DEF AskTool, pipes
    <2> QED
      BY <2>1, <2>2, <2>3 DEF UCStrong, UpstreamInv
  <1>2. CASE SendRequest(c)
    <2>1. /\ asked[c] = "queued" /\ id' = [id EXCEPT ![c] = serial[u]]
          /\ serial' = [serial EXCEPT ![u] = @ + 1] /\ mutex[u] # <<>>
          /\ UNCHANGED <<manager, clients, shut, kid, outbox, halfOut, answer, notices>>
      BY <1>2 DEF SendRequest, Turn
    <2>2. \/ asked' = [asked EXCEPT ![c] = "reading"] /\ UNCHANGED mutex
          \/ /\ asked' = [asked EXCEPT ![c] = "error"]
             /\ mutex' = [mutex EXCEPT ![u] = Tail(@)]
      BY <1>2 DEF SendRequest, Ends
    <2>3. PICK line \in Lines : /\ line.to # Nobody => line.to = c /\ line.id = serial[u]
                                /\ \/ UNCHANGED inbox
                                   \/ inbox' = [inbox EXCEPT ![u] = Append(@, line)]
      <3> DEFINE torn == [id |-> 0, to |-> Nobody]
                 whole == [id |-> serial[u], to |-> c]
      <3>1. torn \in Lines /\ whole \in Lines
        BY <1>0, <1>a DEF Lines, UCTypeOK
      <3>2. \/ UNCHANGED inbox
            \/ inbox' = [inbox EXCEPT ![u] = Append(@, torn)]
            \/ inbox' = [inbox EXCEPT ![u] = Append(@, whole)]
        BY <1>2 DEF SendRequest
      <3>3. torn.to = Nobody /\ whole.to = c /\ whole.id = serial[u]
        OBVIOUS
      <3> HIDE DEF torn, whole
      <3>4. CASE UNCHANGED inbox
        BY <3>1, <3>3, <3>4
      <3>5. CASE inbox' = [inbox EXCEPT ![u] = Append(@, torn)]
        BY <3>1, <3>3, <3>5
      <3>6. CASE inbox' = [inbox EXCEPT ![u] = Append(@, whole)]
        BY <3>1, <3>3, <3>6
      <3> QED
        BY <3>2, <3>4, <3>5, <3>6
    <2>4. halfIn' \in [Upstreams -> BOOLEAN]
      BY <1>0, <1>2, <1>a DEF SendRequest, UCTypeOK
    <2>5. /\ Append(inbox[u], line) \in Seq(Lines)
          /\ Range(Append(inbox[u], line)) \subseteq Range(inbox[u]) \cup {line}
      <3>1. inbox[u] \in Seq(Lines)
        BY <1>0, <1>a DEF LinesTyped
      <3> QED
        BY <3>1, RangeAppend
    <2>6. \A v \in Upstreams : Range(inbox'[v]) \subseteq
            IF v = u THEN Range(inbox[u]) \cup {line} ELSE Range(inbox[v])
      BY <1>0, <1>a, <2>3, <2>5 DEF LinesTyped
    <2>7. \A d \in ToolCalls : Sent(d)' <=> d = c \/ Sent(d)
      BY <1>a, <2>2 DEF UCTypeOK, Sent
    <2>8. UCTypeOK' /\ LinesTyped' /\ OwnAnswer'
      <3>1. LinesTyped'
        BY <1>0, <1>a, <2>1, <2>3, <2>5 DEF LinesTyped
      <3>2. asked' \in [ToolCalls -> {"new", "queued", "reading", "result", "error"}]
        BY <1>a, <2>2 DEF UCTypeOK
      <3>3. mutex' \in [Upstreams -> Seq(ToolCalls \cup {Closer})]
        BY <2>1, <2>2, QueueStep
      <3>4. id' \in [ToolCalls -> Nat] /\ serial' \in [Upstreams -> Nat]
        BY <1>0, <1>a, <2>1 DEF UCTypeOK
      <3>5. UCTypeOK'
        BY <1>a, <2>1, <2>4, <3>2, <3>3, <3>4 DEF UCTypeOK
      <3> QED
        BY <1>a, <2>1, <3>1, <3>5 DEF OwnAnswer
    <2>9. StartsQuietly' /\ OneYoung' /\ TableRight' /\ NoKidLeft'
      BY <1>b, <2>1, <2>2, QueueStep, LifeKept
    <2>10. IdsOnce'
      BY <1>0, <1>a, <2>1, <2>7, UpstreamAssumption
         DEF UCStrong, IdsOnce, UCTypeOK, UpstreamAssumption
    <2>11. LinesRight'
      <3>1. ASSUME NEW v \in Upstreams, NEW l \in Range(inbox[v]) \cup Range(outbox[v])
            PROVE  NamesSender(v, l)'
        BY <1>a, <2>1, <2>7, <3>1 DEF UCStrong, LinesRight, NamesSender, Sent, UCTypeOK
      <3>2. NamesSender(u, line)'
        BY <1>0, <1>a, <2>1, <2>3, <2>7, UpstreamAssumption
           DEF NamesSender, UCTypeOK, UpstreamAssumption
      <3> QED
        BY <2>1, <2>6, <3>1, <3>2 DEF LinesRight
    <2> QED
      BY <2>8, <2>9, <2>10, <2>11 DEF UCStrong, UpstreamInv
  <1>3. ASSUME asked[c] = "reading", mutex[u] # <<>>,
               UNCHANGED <<manager, clients, shut, kid, inbox, halfIn, serial, id, notices>>,
               halfOut' \in [Upstreams -> BOOLEAN], LinesTyped', OwnAnswer',
               answer' \in [ToolCalls -> ToolCalls \cup {Nobody}],
               \A v \in Upstreams : Range(outbox'[v]) \subseteq Range(outbox[v]),
               \/ UNCHANGED <<asked, mutex>>
               \/ \E how \in {"result", "error"} : Ends(c, how)
        PROVE  UCStrong'
    <2>1. asked' \in [ToolCalls -> {"new", "queued", "reading", "result", "error"}]
          /\ \A d \in ToolCalls :
               asked'[d] \in {"new", "queued"} <=> asked[d] \in {"new", "queued"}
      BY <1>3, <1>a DEF UCTypeOK, Ends
    <2>2. /\ mutex' \in [Upstreams -> Seq(ToolCalls \cup {Closer})]
          /\ \A v \in Upstreams : Closer \in Range(mutex'[v]) => Closer \in Range(mutex[v])
      BY <1>3, QueueStep DEF Ends
    <2>3. UCTypeOK'
      BY <1>3, <1>a, <2>1, <2>2 DEF UCTypeOK
    <2>4. StartsQuietly' /\ OneYoung' /\ TableRight' /\ NoKidLeft'
      BY <1>3, <1>b, <2>2, LifeKept
    <2>5. IdsOnce' /\ LinesRight'
      BY <1>3, <2>1, IdsKept
    <2> QED
      BY <1>3, <2>3, <2>4, <2>5 DEF UCStrong, UpstreamInv
  <1>4. CASE ReadLine(c)
    <2>1. outbox \in [Upstreams -> Seq(Lines)] /\ outbox[u] # <<>>
          /\ outbox' = [outbox EXCEPT ![u] = Tail(@)]
      BY <1>4, <1>a DEF ReadLine, LinesTyped
    <2>2. /\ Head(outbox[u]) \in Lines /\ Head(outbox[u]) \in Range(outbox[u])
          /\ Tail(outbox[u]) \in Seq(Lines) /\ Range(Tail(outbox[u])) \subseteq Range(outbox[u])
      BY <1>0, <2>1, RangeTail
    <2>3. LinesTyped' /\ \A v \in Upstreams : Range(outbox'[v]) \subseteq Range(outbox[v])
      BY <1>0, <1>4, <1>a, <2>1, <2>2 DEF ReadLine, LinesTyped
    <2>4. CASE UNCHANGED answer
      BY <1>0, <1>3, <1>4, <1>a, <2>3, <2>4 DEF ReadLine, Turn, UCTypeOK, OwnAnswer
    <2>5. CASE /\ Head(outbox[u]).id = id[c] /\ \E how \in {"result", "error"} : Ends(c, how)
               /\ answer' = [answer EXCEPT ![c] = Head(outbox[u]).to]
      <3>1. Head(outbox[u]).to \in {c, Nobody}
        BY <1>0, <1>4, <1>a, <2>2, <2>5
           DEF ReadLine, Lines, UCStrong, LinesRight, NamesSender, IdsOnce, Sent
      <3>2. answer' \in [ToolCalls -> ToolCalls \cup {Nobody}] /\ OwnAnswer'
        BY <1>a, <2>5, <3>1 DEF UCTypeOK, OwnAnswer
      <3> QED
        BY <1>0, <1>3, <1>4, <1>a, <2>3, <2>5, <3>2 DEF ReadLine, Turn, UCTypeOK
    <2> QED
      BY <1>4, <2>4, <2>5 DEF ReadLine
  <1>5. CASE ReadEnd(c)
    BY <1>3, <1>5, <1>a DEF ReadEnd, Turn, UCTypeOK, LinesTyped, OwnAnswer, pipes
  <1>6. CASE ReadTimeout(c)
    BY <1>0, <1>3, <1>6, <1>a DEF ReadTimeout, Turn, UCTypeOK, LinesTyped, OwnAnswer
  <1> QED
    BY <1>1, <1>2, <1>4, <1>5, <1>6 DEF Serve

\* A child reads, answers what it likes, and says things nobody asked for.
LEMMA KidStep ==
  ASSUME UCStrong, NEW u \in Upstreams, KidAnswers(u) \/ KidNotifies(u)
  PROVE  UCStrong'
PROOF
  <1> USE UpstreamAssumption
          DEF UCStrong, UpstreamInv, UCTypeOK, OwnAnswer, NoKidLeft, LinesTyped,
              StartsQuietly, OneYoung, TableRight, IdsOnce, NamesSender, LinesRight, Sent,
              pipes, asking
  <1>1. CASE KidAnswers(u)
    <2>1. PICK i \in DOMAIN inbox[u] :
            /\ inbox' = [inbox EXCEPT ![u] = RemoveAt(@, i)]
            /\ outbox' = [outbox EXCEPT ![u] = IF inbox[u][i].to = Nobody THEN @
                                               ELSE Append(@, inbox[u][i])]
      BY <1>1 DEF KidAnswers
    <2>2. /\ inbox[u][i] \in Lines /\ inbox[u][i] \in Range(inbox[u])
          /\ RemoveAt(inbox[u], i) \in Seq(Lines)
          /\ Range(RemoveAt(inbox[u], i)) \subseteq Range(inbox[u])
      BY RangeRemove, Zenon
    <2>3. /\ Append(outbox[u], inbox[u][i]) \in Seq(Lines)
          /\ Range(Append(outbox[u], inbox[u][i])) \subseteq Range(outbox[u]) \cup {inbox[u][i]}
      BY <2>2, RangeAppend
    <2>4. LinesTyped'
      BY <2>1, <2>2, <2>3
    <2>5. LinesRight'
      BY <1>1, <2>1, <2>2, <2>3 DEF KidAnswers
    <2> QED
      BY <1>1, <2>4, <2>5 DEF KidAnswers
  <1>2. CASE KidNotifies(u)
    <2> DEFINE line == [id |-> 0, to |-> Nobody]
    <2>1. line \in Lines
      BY DEF Lines
    <2>2. /\ Append(outbox[u], line) \in Seq(Lines)
          /\ Range(Append(outbox[u], line)) \subseteq Range(outbox[u]) \cup {line}
      BY <2>1, RangeAppend
    <2> QED
      BY <1>2, <2>2 DEF KidNotifies
  <1> QED
    BY <1>1, <1>2

\* In every reachable state a call that took an answer took its own, and a manager that
\* is closed or failed to start has no child running (mcp/upstream.rs).
THEOREM UpstreamSafe == UCSpec => []UpstreamInv
PROOF
  <1>1. UCInit => UCStrong
    <2> SUFFICES ASSUME UCInit PROVE UCStrong
      OBVIOUS
    <2>1. UpstreamInv
      BY UpstreamAssumption DEF UCInit, UpstreamInv, UCTypeOK, OwnAnswer, NoKidLeft
    <2>2. LinesTyped
      BY DEF UCInit, LinesTyped
    <2>3. StartsQuietly /\ OneYoung /\ IdsOnce
      BY DEF UCInit, StartsQuietly, OneYoung, IdsOnce, Sent
    <2>4. TableRight /\ LinesRight
      BY DEF UCInit, TableRight, LinesRight, Range
    <2> QED
      BY <2>1, <2>2, <2>3, <2>4 DEF UCStrong
  <1>2. UCStrong /\ [UCNext]_ucvars => UCStrong'
    <2>1. ASSUME UCStrong, UNCHANGED ucvars
          PROVE  UCStrong'
      BY <2>1 DEF UCStrong, UpstreamInv, UCTypeOK, OwnAnswer, NoKidLeft, LinesTyped,
                  StartsQuietly, OneYoung, TableRight, IdsOnce, NamesSender, LinesRight, Sent,
                  ucvars
    <2> QED
      BY <2>1, ManagerStep, CallStep, KidStep DEF UCNext
  <1>3. UCStrong => UpstreamInv
    BY DEF UCStrong
  <1> QED
    BY <1>1, <1>2, <1>3, PTL DEF UCSpec

-----------------------------------------------------------------------------
(* Numbers.                                                                *)

\* Of numbers that satisfy something, one is the least.
LEMMA FirstPlace ==
  ASSUME NEW S \in SUBSET Nat, S # {}
  PROVE  \E n \in S : \A m \in S : n <= m
<1> DEFINE R == OpToRel(<, Nat)
<1>1. PICK n \in S : \A m \in S : ~(<<m, n>> \in R)
  BY NatLessThanWellFounded, WFMin
<1>2. ASSUME NEW m \in S PROVE n <= m
  <2>1. m \in Nat /\ n \in Nat
    OBVIOUS
  <2>2. m < n => <<m, n>> \in R
    BY <2>1 DEF OpToRel
  <2>3. ~(m < n)
    BY <1>1, <2>2
  <2> QED BY <2>1, <2>3
<1> QED BY <1>2

-----------------------------------------------------------------------------
(* OutputPages.  What is known of the bytes around one, of what a page     *)
(* consumes, and of a reader that is in the middle of the output.          *)

StreamOrder ==
  /\ tail # "none" \/ totals => ~flowing
  /\ row = "over" => totals
  /\ reader.seen = "over" => row = "over"
ReaderPlace ==
  /\ reader.seen \in {"live", "over"} => keeping = "log"
  /\ keeping = "log" => reader.at <= Logged
  /\ reader.seen = "buffer" =>
       /\ keeping = "buffer" /\ reader.upto <= got
       /\ reader.from = reader.upto - Smaller(reader.upto, BufferCap)
\* What a page replaced was malformed, or broken off by the end of a log that is over.
LossyWhy ==
  keeping = "log" /\ page.lossy =>
    \E p \in page.from..(page.from + page.read - 1) :
      Byte(p).kind # "good" \/ (row = "over" /\ Start(p) + Byte(p).width > Logged)
PreviewSteps ==
  /\ preview.step \in {"totals", "text"} =>
       keeping = "log" /\ (preview.total # Nothing => ~flowing /\ preview.total = got)
  /\ preview.step = "text" =>
       0 <= preview.from /\ preview.from <= preview.upto /\ preview.upto <= got

OutputStrong ==
  /\ OutputInv
  /\ StreamOrder /\ ReaderPlace /\ LossyWhy /\ PreviewSteps

LEMMA LastPlace ==
  ASSUME NEW a \in Int, NEW b \in Int, NEW S \in SUBSET (a..b), S # {}
  PROVE  /\ LargestOf(S) \in S /\ \A x \in S : x <= LargestOf(S)
         /\ SmallestOf(S) \in S /\ \A x \in S : SmallestOf(S) <= x
<1>1. \E x \in S : \A y \in S : y <= x
  <2> DEFINE D == {b - x : x \in S}
  <2>1. D \subseteq Nat /\ D # {}
    OBVIOUS
  <2>2. PICK n \in D : \A m \in D : n <= m
    <3> HIDE DEF D
    <3> QED BY <2>1, FirstPlace
  <2>3. PICK x \in S : n = b - x
    BY <2>2
  <2>4. ASSUME NEW y \in S PROVE y <= x
    <3>1. b - y \in D
      OBVIOUS
    <3>2. b - x <= b - y
      BY <2>2, <2>3, <3>1
    <3> QED BY <3>2
  <2> QED BY <2>4
<1>2. \E x \in S : \A y \in S : x <= y
  <2> DEFINE D == {x - a : x \in S}
  <2>1. D \subseteq Nat /\ D # {}
    OBVIOUS
  <2>2. PICK n \in D : \A m \in D : n <= m
    <3> HIDE DEF D
    <3> QED BY <2>1, FirstPlace
  <2>3. PICK x \in S : n = x - a
    BY <2>2
  <2>4. ASSUME NEW y \in S PROVE x <= y
    <3>1. y - a \in D
      OBVIOUS
    <3>2. x - a <= y - a
      BY <2>2, <2>3, <3>1
    <3> QED BY <3>2
  <2> QED BY <2>4
<1> QED BY <1>1, <1>2 DEF LargestOf, SmallestOf

Offsets == 0..(Len(output) - 1)

LEMMA OutputTyped == output \in Outputs => output \in Seq(Bytes) /\ WellFormed(output) /\ Len(output) \in Nat
<1>1. output \in Outputs => output \in Seq(Bytes) /\ WellFormed(output)
  BY OutputAssumption
<1> QED BY <1>1

LEMMA ByteIs ==
  ASSUME output \in Outputs, NEW p \in Offsets
  PROVE  /\ p \in Nat /\ p < Len(output) /\ Byte(p) \in Bytes
         /\ Byte(p).place \in 0..3 /\ Byte(p).width \in 1..4 /\ Byte(p).kind \in ByteKinds
         /\ Byte(p).place < Byte(p).width /\ Start(p) \in Int
         /\ Byte(p).kind = "short" => Byte(p).width < 4
<1>1. output \in Seq(Bytes) /\ WellFormed(output) /\ Len(output) \in Nat
  BY OutputTyped
<1>2. p + 1 \in DOMAIN output /\ p \in Nat /\ p < Len(output)
  BY <1>1 DEF Offsets
<1>3. Byte(p) \in Bytes
  BY <1>1, <1>2 DEF Byte
<1>4. Byte(p).place < Byte(p).width /\ (Byte(p).kind = "short" => Byte(p).width < 4)
  BY <1>1, <1>2 DEF WellFormed, Byte
<1>5. Byte(p).place \in 0..3 /\ Byte(p).width \in 1..4 /\ Byte(p).kind \in ByteKinds
  BY <1>3 DEF Bytes
<1>6. Start(p) \in Int
  BY <1>2, <1>5 DEF Start
<1> QED BY <1>2, <1>3, <1>4, <1>5, <1>6

\* The byte before.
LEMMA ByteBefore ==
  ASSUME output \in Outputs, NEW p \in Offsets
  PROVE  /\ p = 0 => Byte(p).place = 0
         /\ p > 0 => p - 1 \in Offsets
         /\ p > 0 /\ Byte(p).place = 0 => Byte(p - 1).place + 1 = Byte(p - 1).width
         /\ Byte(p).place > 0 => /\ p > 0 /\ Byte(p - 1).place = Byte(p).place - 1
                                 /\ Byte(p - 1).width = Byte(p).width /\ Byte(p - 1).kind = Byte(p).kind
<1>1. output \in Seq(Bytes) /\ WellFormed(output) /\ Len(output) \in Nat
  BY OutputTyped
<1>2. /\ p \in Nat /\ p < Len(output) /\ Byte(p) \in Bytes /\ Byte(p).place \in 0..3
  BY ByteIs
<1> DEFINE here == p + 1
<1>3. here \in DOMAIN output /\ here - 1 = p
  BY <1>1, <1>2
<1>4. Byte(p) = output[here] /\ Byte(p - 1) = output[here - 1]
  <2>1. p - 1 + 1 = here - 1
    BY <1>2
  <2> QED BY <2>1 DEF Byte
<1>5. here = 1 <=> p = 0
  BY <1>2
<1>6. here > 1 <=> p > 0
  BY <1>2
<1> HIDE DEF here
<1>7. IF Byte(p).place = 0
      THEN p = 0 \/ Byte(p - 1).place + 1 = Byte(p - 1).width
      ELSE p > 0 /\ Byte(p - 1) = [Byte(p) EXCEPT !.place = Byte(p).place - 1]
  <2>1. IF output[here].place = 0
        THEN here = 1 \/ output[here - 1].place + 1 = output[here - 1].width
        ELSE here > 1 /\ output[here - 1] = [output[here] EXCEPT !.place = output[here].place - 1]
    BY <1>1, <1>3 DEF WellFormed
  <2> QED BY <1>4, <1>5, <1>6, <2>1
<1>8. p > 0 => p - 1 \in Offsets
  BY <1>1, <1>2 DEF Offsets
<1>9. ASSUME Byte(p).place > 0
      PROVE  /\ p > 0 /\ Byte(p - 1).place = Byte(p).place - 1
             /\ Byte(p - 1).width = Byte(p).width /\ Byte(p - 1).kind = Byte(p).kind
  <2>1. p > 0 /\ Byte(p - 1) = [Byte(p) EXCEPT !.place = Byte(p).place - 1]
    BY <1>2, <1>7, <1>9
  <2> QED BY <1>2, <2>1 DEF Bytes
<1>10. p = 0 => Byte(p).place = 0
  BY <1>2, <1>7
<1>11. p > 0 /\ Byte(p).place = 0 => Byte(p - 1).place + 1 = Byte(p - 1).width
  BY <1>2, <1>7
<1> QED BY <1>8, <1>9, <1>10, <1>11

\* An offset is inside a character when the byte at it is not the first of one.
LEMMA InsideIs ==
  ASSUME output \in Outputs, NEW p \in Offsets
  PROVE  Inside(p) <=> Byte(p).place > 0
<1>1. p \in Nat /\ Byte(p).place \in 0..3 /\ Byte(p).place < Byte(p).width
  BY ByteIs
<1>2. CASE Byte(p).place > 0
  <2>1. p > 0 /\ Byte(p - 1).place = Byte(p).place - 1 /\ Byte(p - 1).width = Byte(p).width
    BY <1>2, ByteBefore
  <2>2. Byte(p).width \in 1..4
    BY ByteIs
  <2> QED BY <1>1, <1>2, <2>1, <2>2 DEF Inside
<1>3. CASE Byte(p).place = 0
  <2>1. p > 0 => Byte(p - 1).place + 1 = Byte(p - 1).width
    BY <1>3, ByteBefore
  <2>2. p > 0 => Byte(p - 1).place \in 0..3 /\ Byte(p - 1).width \in 1..4
    BY ByteBefore, ByteIs
  <2> QED BY <1>1, <1>3, <2>1, <2>2 DEF Inside
<1> QED BY <1>1, <1>2, <1>3

\* Going back inside a character.
LEMMA BackThere ==
  ASSUME output \in Outputs, NEW p \in Offsets, NEW j \in 0..3, j <= Byte(p).place
  PROVE  /\ p - j \in Offsets /\ Byte(p - j).place = Byte(p).place - j
         /\ Byte(p - j).width = Byte(p).width /\ Byte(p - j).kind = Byte(p).kind
<1> DEFINE Back(n) == /\ p - n \in Offsets /\ Byte(p - n).place = Byte(p).place - n
                      /\ Byte(p - n).width = Byte(p).width /\ Byte(p - n).kind = Byte(p).kind
<1>1. p \in Nat /\ Byte(p).place \in 0..3
  BY ByteIs
<1>2. p - 0 = p /\ Byte(p).place - 0 = Byte(p).place
  BY <1>1
<1>3. Back(0)
  BY <1>2
<1>4. ASSUME NEW n \in 0..2, Back(n), n + 1 <= Byte(p).place PROVE Back(n + 1)
  <2>1. Byte(p - n).place > 0
    BY <1>1, <1>4
  <2>2. /\ p - n > 0 /\ Byte(p - n - 1).place = Byte(p - n).place - 1 /\ p - n - 1 \in Offsets
        /\ Byte(p - n - 1).width = Byte(p - n).width /\ Byte(p - n - 1).kind = Byte(p - n).kind
    BY <1>4, <2>1, ByteBefore
  <2>3. p - n - 1 = p - (n + 1)
    BY <1>1
  <2>4. Byte(p).place - n - 1 = Byte(p).place - (n + 1)
    BY <1>1
  <2> QED BY <1>4, <2>2, <2>3, <2>4
<1> HIDE DEF Back
<1>5. 1 <= Byte(p).place => Back(1)
  BY <1>3, <1>4
<1>6. 2 <= Byte(p).place => Back(2)
  BY <1>1, <1>4, <1>5
<1>7. 3 <= Byte(p).place => Back(3)
  BY <1>1, <1>4, <1>6
<1>8. j = 0 \/ j = 1 \/ j = 2 \/ j = 3
  OBVIOUS
<1>9. Back(j)
  BY <1>3, <1>5, <1>6, <1>7, <1>8
<1> QED BY <1>9 DEF Back

\* A character that starts before an offset and does not end there has it inside.
LEMMA NoneStraddles ==
  ASSUME output \in Outputs, NEW a \in Offsets, NEW p \in Offsets, a <= p, ~Inside(a)
  PROVE  Start(p) >= a
<1>1. a \in Nat /\ p \in Nat /\ Byte(p).place \in 0..3
  BY ByteIs
<1>2. SUFFICES ASSUME Byte(p).place > p - a PROVE FALSE
  BY <1>1 DEF Start
<1>3. p - a \in 0..3 /\ p - (p - a) = a
  BY <1>1, <1>2
<1>4. Byte(a).place = Byte(p).place - (p - a)
  BY <1>1, <1>2, <1>3, BackThere
<1>5. Byte(a).place > 0
  BY <1>1, <1>2, <1>4
<1> QED BY <1>5, InsideIs

\* Going on from the first byte of a character.
LEMMA AheadThere ==
  ASSUME output \in Outputs, NEW p \in Offsets, Byte(p).place = 0, NEW j \in 0..3, j < Byte(p).width,
         p + j \in Offsets
  PROVE  /\ Byte(p + j).place = j /\ Byte(p + j).width = Byte(p).width
         /\ Byte(p + j).kind = Byte(p).kind /\ Start(p + j) = p
<1> DEFINE On(n) == /\ Byte(p + n).place = n /\ Byte(p + n).width = Byte(p).width
                    /\ Byte(p + n).kind = Byte(p).kind
<1>1. p \in Nat /\ Byte(p).width \in 1..4 /\ Len(output) \in Nat
  BY ByteIs, OutputTyped
<1>2. p + 0 = p
  BY <1>1
<1>3. On(0)
  BY <1>2
<1>4. ASSUME NEW n \in 0..2, On(n), n + 1 < Byte(p).width, p + (n + 1) \in Offsets PROVE On(n + 1)
  <2> DEFINE q == p + (n + 1)
             b == p + n
  <2>1. q - 1 = b /\ q > 0 /\ b \in Offsets /\ q \in Offsets
    BY <1>1, <1>4 DEF Offsets
  <2>2. Byte(b).place = n /\ Byte(b).width = Byte(p).width /\ Byte(b).kind = Byte(p).kind
    BY <1>4
  <2> HIDE DEF q, b
  <2>3. Byte(q).place \in 0..3
    BY <2>1, ByteIs
  <2>4. Byte(q).place # 0
    <3> SUFFICES ASSUME Byte(q).place = 0 PROVE FALSE
      OBVIOUS
    <3>1. Byte(b).place + 1 = Byte(b).width
      BY <2>1, ByteBefore
    <3> QED BY <1>1, <1>4, <2>2, <3>1
  <2>5. Byte(q).place > 0
    BY <2>3, <2>4
  <2>6. Byte(b).place = Byte(q).place - 1 /\ Byte(b).width = Byte(q).width /\ Byte(b).kind = Byte(q).kind
    BY <2>1, <2>5, ByteBefore
  <2>7. Byte(q).place = n + 1 /\ Byte(q).width = Byte(p).width /\ Byte(q).kind = Byte(p).kind
    BY <2>2, <2>3, <2>6
  <2> QED BY <2>7 DEF q
<1>5. p + 1 \in Offsets \/ j < 1
  BY <1>1 DEF Offsets
<1>6. p + 2 \in Offsets \/ j < 2
  BY <1>1 DEF Offsets
<1>7. p + 3 \in Offsets \/ j < 3
  BY <1>1 DEF Offsets
<1> HIDE DEF On
<1>8. j >= 1 => On(1)
  BY <1>1, <1>3, <1>4, <1>5
<1>9. j >= 2 => On(2)
  BY <1>1, <1>4, <1>6, <1>8
<1>10. j >= 3 => On(3)
  BY <1>1, <1>4, <1>7, <1>9
<1>11. j = 0 \/ j = 1 \/ j = 2 \/ j = 3
  OBVIOUS
<1>12. On(j)
  BY <1>3, <1>8, <1>9, <1>10, <1>11
<1>13. Start(p + j) = p
  BY <1>1, <1>12 DEF On, Start
<1> QED BY <1>12, <1>13 DEF On

\* The bytes before b are looked at, and n are consumed.
ThePage(top, a, limit, over, b, n) == b = Window(a, top, limit) /\ n = Consumed(a, b, limit, over)

\* What a page consumes, of a log that is top bytes long, from an offset that is not
\* inside a character.
LEMMA PageConsumes ==
  ASSUME output \in Outputs, NEW top \in 0..Len(output), NEW a \in 0..top, Inside(a) => a = top,
         NEW limit \in Nat \ {0}, NEW over \in BOOLEAN,
         NEW b, NEW n, ThePage(top, a, limit, over, b, n)
  PROVE  /\ b \in a..top /\ n \in Nat /\ a + n <= b
         /\ n = 0 => b - a <= 3 /\ (over => b = a)
         /\ a < top => b > a
         /\ n > 0 /\ Inside(a + n) => over /\ a + n = top
         /\ \A p \in Replaced(a, a + n) :
              p \in a..(a + n - 1)
              /\ (Byte(p).kind # "good" \/ (Start(p) + Byte(p).width > a + n /\ Inside(a + n)))
<1> DEFINE stops == Stops(a, b, over)
           fit == {e \in stops : e <= a + limit}
<1>0. Len(output) \in Nat
  BY OutputTyped
<1>1. b \in a..top /\ (b = top \/ b = a + limit + 3) /\ (a < top => b > a)
  BY <1>0 DEF ThePage, Window, Smaller
<1>2. stops \in SUBSET ((a + 1)..b) /\ fit \in SUBSET ((a + 1)..b) /\ fit \subseteq stops
  BY DEF Stops
<1>3. n = IF fit # {} THEN LargestOf(fit) - a ELSE IF stops # {} THEN SmallestOf(stops) - a ELSE 0
  BY DEF ThePage, Consumed
<1>4. a \in Nat /\ b \in Nat /\ top \in Nat /\ limit \in Nat /\ a + 1 \in Int /\ top <= Len(output)
  BY <1>0, <1>1
<1> HIDE DEF stops, fit
<1>5. /\ n \in Nat /\ a + n <= b /\ (n = 0 <=> stops = {})
      /\ stops # {} => a + n \in stops
      /\ n > limit => \A e \in stops : a + n <= e
  <2>1. CASE stops = {}
    <3>1. n = 0
      BY <1>2, <1>3, <2>1
    <3> QED BY <1>1, <1>4, <2>1, <3>1
  <2>2. CASE fit # {}
    <3> DEFINE m == LargestOf(fit)
    <3>1. m \in fit
      <4>1. fit \in SUBSET ((a + 1)..b) /\ a + 1 \in Int /\ b \in Int
        BY <1>2, <1>4
      <4> HIDE DEF m
      <4> QED BY <2>2, <4>1, LastPlace DEF m
    <3>2. n = m - a
      BY <1>3, <2>2
    <3> HIDE DEF m
    <3>3. m \in (a + 1)..b /\ m \in stops /\ m <= a + limit
      BY <1>2, <3>1 DEF fit
    <3>4. n \in Nat /\ a + n = m /\ n <= limit /\ n # 0 /\ m <= b
      BY <1>4, <3>2, <3>3
    <3>5. ~(n > limit)
      BY <1>4, <3>4
    <3> QED BY <3>3, <3>4, <3>5
  <2>3. CASE stops # {} /\ fit = {}
    <3> DEFINE m == SmallestOf(stops)
    <3>1. m \in stops /\ \A e \in stops : m <= e
      <4>1. stops \in SUBSET ((a + 1)..b) /\ a + 1 \in Int /\ b \in Int
        BY <1>2, <1>4
      <4> QED BY <2>3, <4>1, LastPlace
    <3>2. n = m - a
      BY <1>3, <2>3
    <3> HIDE DEF m
    <3>3. m \in (a + 1)..b
      BY <1>2, <3>1
    <3>4. n \in Nat /\ a + n = m /\ n # 0 /\ m <= b
      BY <1>4, <3>2, <3>3
    <3> QED BY <3>1, <3>4
  <2> QED BY <1>2, <2>1, <2>2, <2>3
\* The first character, when all of it is there.
<1>6. ASSUME a < top
      PROVE  /\ a \in Offsets /\ Byte(a).place = 0 /\ Byte(a).width \in 1..4
             /\ Byte(a).kind = "short" => Byte(a).width < 4
             /\ a + Byte(a).width <= b => /\ Byte(a + Byte(a).width - 1).place = Byte(a).width - 1
                                          /\ Byte(a + Byte(a).width - 1).width = Byte(a).width
                                          /\ a + Byte(a).width < b \/ Byte(a).kind # "short"
                                               => a + Byte(a).width \in stops
  <2>1. a \in Offsets /\ a \in Nat
    BY <1>0, <1>6 DEF Offsets
  <2>2. /\ Byte(a).width \in 1..4 /\ Byte(a).place \in 0..3
        /\ Byte(a).kind = "short" => Byte(a).width < 4
    BY <2>1, ByteIs
  <2>3. ~Inside(a)
    BY <1>0, <1>6
  <2>4. Byte(a).place = 0
    BY <2>1, <2>2, <2>3, InsideIs
  <2> DEFINE j == Byte(a).width - 1
  <2>5. ASSUME a + Byte(a).width <= b
        PROVE  /\ Byte(a + j).place = j /\ Byte(a + j).width = Byte(a).width
               /\ Byte(a + j).kind = Byte(a).kind /\ Start(a + j) = a
    <3>1. j \in 0..3 /\ j < Byte(a).width
      BY <2>2
    <3>2. a + j \in Offsets
      BY <1>0, <1>1, <2>1, <2>2, <2>5 DEF Offsets
    <3> HIDE DEF j
    <3> QED BY <2>1, <2>4, <3>1, <3>2, AheadThere
  <2>6. a + Byte(a).width - 1 = a + j
    BY <2>1, <2>2
  <2> DEFINE e == a + Byte(a).width
  <2>7. ASSUME e <= b, e < b \/ Byte(a).kind # "short" PROVE e \in stops
    <3>1. e \in (a + 1)..b /\ e - 1 = a + j
      BY <1>0, <1>1, <2>1, <2>2, <2>7
    <3>2. Start(e - 1) = a /\ Byte(e - 1).width = Byte(a).width /\ Byte(e - 1).kind = Byte(a).kind
      BY <2>5, <2>7, <3>1
    <3>3. EndsAt(a, b, e)
      BY <2>7, <3>2 DEF EndsAt
    <3> HIDE DEF e
    <3> QED BY <3>1, <3>3 DEF Stops, stops
  <2> QED BY <2>1, <2>2, <2>4, <2>5, <2>6, <2>7
<1>7. n = 0 => b - a <= 3 /\ (over => b = a)
  <2> SUFFICES ASSUME n = 0 PROVE b - a <= 3 /\ (over => b = a)
    OBVIOUS
  <2>0. stops = {}
    BY <1>5
  <2>1. over => b = a
    <3> SUFFICES ASSUME over, b # a PROVE FALSE
      OBVIOUS
    <3>1. b \in (a + 1)..b
      BY <1>0, <1>1
    <3>2. b \in stops
      BY <3>1 DEF Stops, stops
    <3> QED BY <2>0, <3>2
  <2>2. b - a <= 3
    <3> SUFFICES ASSUME b - a > 3 PROVE FALSE
      BY <1>0, <1>1
    <3>1. a < top
      BY <1>0, <1>1
    <3>2. a + Byte(a).width <= b /\ (a + Byte(a).width < b \/ Byte(a).kind # "short")
      BY <1>4, <1>6, <3>1
    <3> QED BY <1>6, <2>0, <3>1, <3>2
  <2> QED BY <2>1, <2>2
<1>8. ASSUME n > 0, Inside(a + n) PROVE over /\ a + n = top
  <2> DEFINE e == a + n
  <2>1. e \in stops /\ a < top /\ e \in (a + 1)..b
    <3>1. stops # {}
      BY <1>5, <1>8
    <3>2. e \in stops
      BY <1>5, <3>1
    <3>3. e \in (a + 1)..b
      BY <1>2, <3>2
    <3> QED BY <1>1, <1>4, <3>2, <3>3
  <2>2. Inside(e) /\ e = a + n
    BY <1>8
  <2> HIDE DEF e
  <2>3. e \in Nat /\ e - 1 \in Offsets /\ a <= e - 1 /\ e <= b
    BY <1>1, <1>4, <2>1 DEF Offsets
  <2> DEFINE place == Byte(e - 1).place
             width == Byte(e - 1).width
  <2>4. place \in 0..3 /\ width \in 1..4 /\ Start(e - 1) = e - 1 - place
    BY <2>3, ByteIs DEF Start
  <2>5. place + 1 < width
    BY <2>2 DEF Inside
  <2>6. ~EndsAt(a, b, e)
    <3> SUFFICES ASSUME EndsAt(a, b, e) PROVE FALSE
      OBVIOUS
    <3>1. Start(e - 1) >= a
      <4>1. a \in Offsets /\ ~Inside(a)
        BY <1>4, <1>6, <2>1
      <4> QED BY <2>3, <4>1, NoneStraddles
    <3>2. Start(e - 1) < a \/ e = Start(e - 1) + width
      BY DEF EndsAt
    <3> HIDE DEF place, width
    <3> QED BY <1>4, <2>3, <2>4, <2>5, <3>1, <3>2
  <2>7. over /\ e = b
    BY <2>1, <2>6 DEF Stops, stops
  <2>8. b = top
    <3> SUFFICES ASSUME b # top PROVE FALSE
      OBVIOUS
    <3>1. b = a + limit + 3 /\ b >= a + 4
      BY <1>1, <1>4
    <3>2. n > limit
      <4>1. n \in Nat /\ a + n = a + limit + 3
        BY <1>5, <2>2, <2>7, <3>1
      <4> QED BY <1>4, <4>1
    <3> DEFINE w == Byte(a).width
    <3>3. w \in 1..4
      BY <1>6, <2>1
    <3>4. a + w <= b
      BY <1>4, <3>1, <3>3
    <3>5. ~(a + w < b)
      <4> SUFFICES ASSUME a + w < b PROVE FALSE
        OBVIOUS
      <4>1. a + w \in stops
        BY <1>6, <2>1, <3>4
      <4>2. e <= a + w
        BY <1>5, <2>2, <3>2, <4>1
      <4> HIDE DEF w
      <4> QED BY <1>4, <2>7, <3>3, <4>2
    <3>6. e = a + w
      <4> HIDE DEF w
      <4> QED BY <1>4, <2>7, <3>3, <3>4, <3>5
    <3>7. Byte(a + w - 1).place = w - 1 /\ Byte(a + w - 1).width = w
      BY <1>6, <2>1, <3>4
    <3>8. place = w - 1 /\ width = w
      <4> HIDE DEF w
      <4>1. a + w - 1 = e - 1
        BY <1>4, <3>3, <3>6
      <4> QED BY <3>7, <4>1
    <3> HIDE DEF w, place, width
    <3> QED BY <2>5, <3>3, <3>8
  <2> QED BY <2>2, <2>7, <2>8
<1>9. ASSUME NEW p \in Replaced(a, a + n)
      PROVE  p \in a..(a + n - 1)
             /\ (Byte(p).kind # "good" \/ (Start(p) + Byte(p).width > a + n /\ Inside(a + n)))
  <2> DEFINE e == a + n
  <2>1. p \in a..(e - 1) /\ ~Valid(a, e, p) /\ (Start(p) < a \/ Byte(p).place = 0)
    BY DEF Replaced
  <2>2. e \in Nat /\ e <= b
    BY <1>4, <1>5
  <2> HIDE DEF e
  <2>3. p \in Offsets /\ a <= p /\ a < top /\ p \in Nat /\ p < e
    BY <1>1, <1>4, <2>1, <2>2 DEF Offsets
  <2>4. Start(p) >= a /\ Start(p) \in Int
    <3>1. ~Inside(a) /\ a \in Offsets
      BY <1>4, <1>6, <2>3
    <3> QED BY <2>3, <3>1, NoneStraddles, ByteIs
  <2>5. Byte(p).place = 0
    BY <1>4, <2>1, <2>4
  <2> DEFINE w == Byte(p).width
  <2>6. w \in 1..4 /\ Start(p) = p
    BY <2>3, <2>5, ByteIs DEF Start
  <2>7. ASSUME Byte(p).kind = "good" PROVE Start(p) + w > e /\ Inside(e)
    <3>1. ~(Start(p) + w <= e)
      BY <2>1, <2>4, <2>7 DEF Valid
    <3> DEFINE j == e - 1 - p
    <3>2. p + w > e /\ j \in 0..3 /\ j < w /\ p + j = e - 1 /\ e > 0
      <4> HIDE DEF w
      <4> QED BY <2>2, <2>3, <2>6, <3>1
    <3>3. p + j \in Offsets
      BY <1>1, <1>4, <2>2, <2>3, <3>2 DEF Offsets
    <3>4. Byte(p + j).place = j /\ Byte(p + j).width = w
      <4> HIDE DEF j
      <4> QED BY <2>3, <2>5, <3>2, <3>3, AheadThere
    <3>5. Byte(e - 1).place = j /\ Byte(e - 1).width = w
      BY <3>2, <3>4
    <3>6. j + 1 < w
      <4> HIDE DEF w
      <4> QED BY <2>2, <2>3, <2>6, <3>2
    <3>7. Inside(e)
      BY <3>2, <3>5, <3>6 DEF Inside
    <3>8. Start(p) + w > e
      BY <2>6, <3>2
    <3> QED BY <3>7, <3>8
  <2>8. p \in a..(e - 1) /\ (Byte(p).kind # "good" \/ (Start(p) + Byte(p).width > e /\ Inside(e)))
    BY <2>1, <2>7
  <2>9. e = a + n
    BY DEF e
  <2>10. n \in Nat
    BY <1>5
  <2> QED BY <1>4, <2>8, <2>9, <2>10
<1> QED BY <1>1, <1>5, <1>7, <1>8, <1>9

ReaderType == [at : Nat, seen : {"none", "live", "over", "buffer"}, from : Nat, upto : Nat]
PageType == [from : Nat, read : Nat, next : Nat \cup {Nothing}, pending : 0..3, lossy : BOOLEAN,
             total : Nat, base : Nat, seen : {"none", "live", "over", "buffer"}]
PreviewType == [step : {"none", "totals", "text", "done"}, limit : Nat, total : Nat \cup {Nothing},
                from : Int, upto : Nat, until : Nat, cut : BOOLEAN]

LEMMA StreamTyped ==
  ASSUME OPTypeOK
  PROVE  /\ output \in Outputs /\ got \in 0..Len(output) /\ Len(output) \in Nat /\ got \in Nat
         /\ Logged \in 0..got /\ Logged \in 0..Len(output) /\ Logged \in Nat
         /\ LogCap \in Nat \ {0} /\ TailCap \in Nat \ {0} /\ BufferCap \in Nat \ {0}
         /\ Logged < LogCap => Logged = got
<1>1. output \in Outputs /\ got \in 0..Len(output)
  BY DEF OPTypeOK
<1>2. Len(output) \in Nat
  BY <1>1, OutputTyped
<1>3. LogCap \in Nat \ {0} /\ TailCap \in Nat \ {0} /\ BufferCap \in Nat \ {0}
  BY OutputAssumption
<1>4. got \in Nat
  BY <1>1, <1>2
<1>5. Logged \in 0..got /\ (Logged < LogCap => Logged = got)
  BY <1>3, <1>4 DEF Logged, Smaller
<1> QED BY <1>1, <1>2, <1>3, <1>4, <1>5

LEMMA OutputBegins == OPInit => OutputStrong
<1> SUFFICES ASSUME OPInit PROVE OutputStrong
  OBVIOUS
<1>1. /\ output \in Outputs /\ keeping \in {"log", "buffer"} /\ got = 0 /\ flowing = TRUE
      /\ tail = "none" /\ totals = FALSE /\ row = "live"
  BY DEF OPInit
<1>2. reader = [at |-> 0, seen |-> "none", from |-> 0, upto |-> 0]
  BY DEF OPInit, Resting
<1>3. page = [from |-> 0, read |-> 0, next |-> 0, pending |-> 0, lossy |-> FALSE, total |-> 0,
              base |-> 0, seen |-> "none"]
  BY DEF OPInit
<1>4. preview = [step |-> "none", limit |-> 1, total |-> Nothing, from |-> 0, upto |-> 0,
                 until |-> 0, cut |-> FALSE]
  BY DEF OPInit, NoPreview
<1>5. OPTypeOK
  <2>1. got \in 0..Len(output)
    BY <1>1, OutputTyped
  <2>2. reader \in ReaderType /\ page \in PageType /\ preview \in PreviewType
    BY <1>2, <1>3, <1>4 DEF ReaderType, PageType, PreviewType
  <2> QED BY <1>1, <2>1, <2>2 DEF OPTypeOK, ReaderType, PageType, PreviewType
<1>6. reader.at = 0 /\ reader.seen = "none" /\ ~page.lossy /\ page.seen = "none" /\ preview.step = "none"
  BY <1>2, <1>3, <1>4
<1>7. ~Inside(0)
  BY DEF Inside
<1>8. CharactersWhole /\ ReadersFinish /\ NoGapUntold /\ PreviewsHonest
  BY <1>6, <1>7 DEF CharactersWhole, ReadersFinish, NoGapUntold, PreviewsHonest
<1>9. StreamOrder /\ LossyWhy /\ PreviewSteps
  BY <1>1, <1>6 DEF StreamOrder, LossyWhy, PreviewSteps
<1>10. ReaderPlace
  BY <1>5, <1>6, StreamTyped DEF ReaderPlace
<1> QED BY <1>5, <1>8, <1>9, <1>10 DEF OutputStrong, OutputInv

\* The stream goes on, or comes to its end.
LEMMA StreamMoves ==
  ASSUME OutputStrong, UNCHANGED <<output, keeping, reader, page, preview>>,
         got' \in got..Len(output), got' = got \/ flowing, flowing' \in BOOLEAN, totals' \in BOOLEAN,
         tail' \in {"none", "empty", "full"}, row' \in {"live", "over"},
         ~flowing => ~flowing', row = "over" => row' = "over", StreamOrder'
  PROVE  OutputStrong'
<1>1. OPTypeOK
  BY DEF OutputStrong, OutputInv
<1>2. got \in Nat /\ Len(output) \in Nat /\ LogCap \in Nat
  BY <1>1, StreamTyped
<1>3. OPTypeOK'
  <2>1. got' \in 0..Len(output)
    BY <1>2
  <2> QED BY <1>1, <2>1 DEF OPTypeOK
<1>4. row = "over" => got' = got /\ Logged' = Logged
  BY DEF OutputStrong, StreamOrder, Logged
<1>5. got <= got' /\ Logged <= Logged'
  <2>1. got <= got' /\ got' \in Nat
    BY <1>2
  <2> QED BY <1>2, <2>1 DEF Logged, Smaller
<1>6. LossyWhy'
  BY <1>4 DEF OutputStrong, LossyWhy, Start, Byte
<1>7. CharactersWhole'
  <2>1. keeping = "log" /\ Inside(reader.at) => row = "over" /\ reader.at = Logged
    BY DEF OutputStrong, OutputInv, CharactersWhole
  <2>2. Inside(reader.at)' <=> Inside(reader.at)
    BY DEF Inside, Byte
  <2>3. keeping' = "log" /\ Inside(reader.at)' => row' = "over" /\ reader'.at = Logged'
    BY <1>4, <2>1, <2>2
  <2> QED BY <1>6, <2>3 DEF LossyWhy, CharactersWhole
<1>8. ReadersFinish'
  BY <1>4 DEF OutputStrong, OutputInv, ReadersFinish
<1>9. NoGapUntold'
  BY DEF OutputStrong, OutputInv, NoGapUntold
<1>10. PreviewsHonest'
  <2>1. Replaced(preview.from, preview.upto)' = Replaced(preview.from, preview.upto)
    BY DEF Replaced, Valid, Start, Byte
  <2> QED BY <2>1 DEF OutputStrong, OutputInv, PreviewsHonest
<1>11. ReaderPlace'
  <2>1. reader.at \in Nat /\ reader.upto \in Nat
    BY <1>1 DEF OPTypeOK
  <2>2. Logged \in Nat /\ Logged' \in Nat /\ got' \in Nat
    BY <1>2, <1>5 DEF Logged, Smaller
  <2> QED BY <1>2, <1>5, <2>1, <2>2 DEF OutputStrong, ReaderPlace
<1>12. PreviewSteps'
  <2>1. preview.upto \in Nat /\ got' \in Nat
    BY <1>1, <1>2 DEF OPTypeOK
  <2> QED BY <1>2, <1>5, <2>1 DEF OutputStrong, PreviewSteps
<1> QED BY <1>3, <1>6, <1>7, <1>8, <1>9, <1>10, <1>11, <1>12 DEF OutputStrong, OutputInv

LEMMA CollectorKeeps ==
  ASSUME OutputStrong,
         (\E n \in 1..Len(output) : Collect(n)) \/ StreamEnds \/ WriteTail \/ WriteTotals \/ FinishRow
  PROVE  OutputStrong'
<1>1. OPTypeOK /\ StreamOrder
  BY DEF OutputStrong, OutputInv
<1>2. got \in Nat /\ Len(output) \in Nat /\ got <= Len(output) /\ got \in got..Len(output)
  <2>1. got \in Nat /\ Len(output) \in Nat /\ got \in 0..Len(output)
    BY <1>1, StreamTyped
  <2> QED BY <2>1
<1>3. /\ flowing \in BOOLEAN /\ totals \in BOOLEAN /\ tail \in {"none", "empty", "full"}
      /\ row \in {"live", "over"} /\ keeping \in {"log", "buffer"}
  BY <1>1 DEF OPTypeOK
<1>4. ASSUME NEW n \in 1..Len(output), Collect(n) PROVE OutputStrong'
  <2>1. /\ flowing /\ got + n <= Len(output) /\ got' = got + n
        /\ UNCHANGED <<output, keeping, flowing, tail, totals, row, reader, page, preview>>
    BY <1>4 DEF Collect
  <2>2. got' \in got..Len(output)
    BY <1>2, <2>1
  <2>3. StreamOrder'
    BY <1>1, <2>1 DEF StreamOrder
  <2> QED BY <1>3, <2>1, <2>2, <2>3, StreamMoves
<1>5. CASE StreamEnds
  <2>1. /\ flowing /\ flowing' = FALSE /\ tail' \in {"none", "empty", "full"}
        /\ UNCHANGED <<output, keeping, got, totals, row, reader, page, preview>>
    BY <1>3, <1>5 DEF StreamEnds
  <2>2. StreamOrder'
    BY <1>1, <2>1 DEF StreamOrder
  <2> QED BY <1>2, <1>3, <2>1, <2>2, StreamMoves
<1>6. CASE WriteTail
  <2>1. /\ tail = "empty" /\ tail' = "full"
        /\ UNCHANGED <<output, keeping, got, flowing, totals, row, reader, page, preview>>
    BY <1>6 DEF WriteTail
  <2>2. StreamOrder'
    BY <1>1, <2>1 DEF StreamOrder
  <2> QED BY <1>2, <1>3, <2>1, <2>2, StreamMoves
<1>7. CASE WriteTotals
  <2>1. /\ tail = "full" /\ totals' = TRUE
        /\ UNCHANGED <<output, keeping, got, flowing, tail, row, reader, page, preview>>
    BY <1>7 DEF WriteTotals
  <2>2. StreamOrder'
    BY <1>1, <2>1 DEF StreamOrder
  <2> QED BY <1>2, <1>3, <2>1, <2>2, StreamMoves
<1>8. CASE FinishRow
  <2>1. /\ totals /\ row' = "over"
        /\ UNCHANGED <<output, keeping, got, flowing, tail, totals, reader, page, preview>>
    BY <1>8 DEF FinishRow
  <2>2. StreamOrder'
    BY <1>1, <2>1 DEF StreamOrder
  <2> QED BY <1>2, <1>3, <2>1, <2>2, StreamMoves
<1> QED BY <1>4, <1>5, <1>6, <1>7, <1>8

\* A reader goes on.
LEMMA ReaderMoves ==
  ASSUME OutputStrong, UNCHANGED <<streamvars, preview>>, reader' \in ReaderType, page' \in PageType,
         reader'.seen = "over" => row = "over", ReaderPlace', LossyWhy',
         keeping = "log" /\ Inside(reader'.at) => row = "over" /\ reader'.at = Logged,
         ReadersFinish', NoGapUntold'
  PROVE  OutputStrong'
<1>1. UNCHANGED <<output, keeping, got, flowing, tail, totals, row, preview>>
  BY DEF streamvars
<1>2. OPTypeOK'
  BY <1>1 DEF OutputStrong, OutputInv, OPTypeOK, ReaderType, PageType
<1>3. StreamOrder'
  BY <1>1 DEF OutputStrong, StreamOrder
<1>4. CharactersWhole'
  <2>1. Inside(reader'.at) <=> Inside(reader.at)'
    BY <1>1 DEF Inside, Byte
  <2>2. Logged' = Logged
    BY <1>1 DEF Logged
  <2>3. keeping' = "log" /\ Inside(reader.at)' => row' = "over" /\ reader'.at = Logged'
    BY <1>1, <2>1, <2>2
  <2> QED BY <2>3 DEF LossyWhy, CharactersWhole
<1>5. PreviewsHonest'
  <2>1. Replaced(preview.from, preview.upto)' = Replaced(preview.from, preview.upto)
    BY <1>1 DEF Replaced, Valid, Start, Byte
  <2> QED BY <1>1, <2>1 DEF OutputStrong, OutputInv, PreviewsHonest
<1>6. PreviewSteps'
  BY <1>1 DEF OutputStrong, PreviewSteps
<1> QED BY <1>2, <1>3, <1>4, <1>5, <1>6 DEF OutputStrong, OutputInv

LEMMA PagePut ==
  ASSUME OutputStrong, UNCHANGED <<streamvars, page>>
  PROVE  LossyWhy' /\ ReadersFinish' /\ NoGapUntold' /\ page' \in PageType
<1>1. UNCHANGED <<output, keeping, got, flowing, tail, totals, row, page>>
  BY DEF streamvars
<1>2. Logged' = Logged
  BY <1>1 DEF Logged
<1>3. LossyWhy'
  BY <1>1, <1>2 DEF OutputStrong, LossyWhy, Start, Byte
<1>4. ReadersFinish' /\ NoGapUntold'
  BY <1>1, <1>2 DEF OutputStrong, OutputInv, ReadersFinish, NoGapUntold
<1>5. page' \in PageType
  BY <1>1 DEF OutputStrong, OutputInv, OPTypeOK, PageType
<1> QED BY <1>3, <1>4, <1>5

LEMMA SeeKeeps == ASSUME OutputStrong, SeeStatus \/ CloneBuffer PROVE OutputStrong'
<1>1. OPTypeOK /\ reader \in ReaderType /\ row \in {"live", "over"}
  BY DEF OutputStrong, OutputInv, OPTypeOK, ReaderType
<1>2. got \in Nat /\ BufferCap \in Nat
  BY <1>1, StreamTyped
<1>3. UNCHANGED <<streamvars, page, preview>>
  BY DEF SeeStatus, CloneBuffer
<1>4. UNCHANGED <<output, keeping, got, row>> /\ Logged' = Logged
  BY <1>3 DEF streamvars, Logged
<1>5. keeping = "log" /\ Inside(reader.at) => row = "over" /\ reader.at = Logged
  BY DEF OutputStrong, OutputInv, CharactersWhole
<1>6. LossyWhy' /\ ReadersFinish' /\ NoGapUntold' /\ page' \in PageType
  BY <1>3, PagePut
<1>7. keeping = "log" => reader.at <= Logged
  BY DEF OutputStrong, ReaderPlace
<1>8. CASE SeeStatus
  <2>1. keeping = "log" /\ reader' = [reader EXCEPT !.seen = row]
    BY <1>8 DEF SeeStatus
  <2>2. reader' \in ReaderType /\ reader'.at = reader.at /\ reader'.seen = row
    BY <1>1, <2>1 DEF ReaderType
  <2>3. ReaderPlace'
    BY <1>1, <1>4, <1>7, <2>1, <2>2 DEF ReaderPlace
  <2> QED BY <1>3, <1>5, <1>6, <2>2, <2>3, ReaderMoves
<1>9. CASE CloneBuffer
  <2>1. keeping = "buffer" /\ reader' = [reader EXCEPT !.seen = "buffer", !.from = BufferFrom, !.upto = got]
    BY <1>9 DEF CloneBuffer
  <2>2. BufferFrom \in Nat /\ BufferFrom = got - Smaller(got, BufferCap)
    BY <1>2 DEF BufferFrom, Smaller
  <2>3. reader' = [at |-> reader.at, seen |-> "buffer", from |-> BufferFrom, upto |-> got]
    BY <1>1, <2>1 DEF ReaderType
  <2>4. /\ reader' \in ReaderType /\ reader'.at = reader.at /\ reader'.seen = "buffer"
        /\ reader'.from = BufferFrom /\ reader'.upto = got
    BY <1>1, <1>2, <2>2, <2>3 DEF ReaderType
  <2>5. ReaderPlace'
    BY <1>2, <1>4, <2>1, <2>2, <2>4 DEF ReaderPlace, Smaller
  <2> QED BY <1>3, <1>5, <1>6, <2>1, <2>4, <2>5, ReaderMoves
<1> QED BY <1>8, <1>9

LEMMA PageKeeps == ASSUME OutputStrong, NEW limit \in Limits, ReadPage(limit) PROVE OutputStrong'
<1> DEFINE over == reader.seen = "over"
           a == Smaller(reader.at, Logged)
           b == Window(a, Logged, limit)
           n == Consumed(a, b, limit, over)
           left == IF n = 0 THEN b - a ELSE 0
           more == IF left = 0 /\ a + n < Logged THEN a + n ELSE Nothing
           lossy == Replaced(a, a + n) # {}
<1>1. OPTypeOK /\ reader \in ReaderType /\ row \in {"live", "over"}
  BY DEF OutputStrong, OutputInv, OPTypeOK, ReaderType
<1>2. output \in Outputs /\ Len(output) \in Nat /\ Logged \in 0..Len(output) /\ Logged \in Nat
  BY <1>1, StreamTyped
<1>3. limit \in Nat \ {0}
  BY OutputAssumption
<1>4. /\ keeping = "log" /\ reader.seen # "none" /\ UNCHANGED <<streamvars, preview>>
      /\ page' = [from |-> a, read |-> n, pending |-> left, lossy |-> lossy, next |-> more,
                  total |-> Logged, base |-> 0, seen |-> reader.seen]
      /\ reader' = [at |-> a + n, seen |-> "none", from |-> 0, upto |-> 0]
  BY DEF ReadPage, Resting
<1>5. reader.at \in Nat /\ reader.seen \in {"none", "live", "over", "buffer"}
  BY <1>1 DEF ReaderType
<1>6. reader.at <= Logged /\ reader.seen # "buffer" /\ (reader.seen = "over" => row = "over")
  BY <1>4 DEF OutputStrong, ReaderPlace, StreamOrder
<1>7. a = reader.at /\ a \in 0..Logged /\ a \in Nat
  BY <1>2, <1>5, <1>6 DEF Smaller
<1>8. Inside(a) => row = "over" /\ a = Logged
  BY <1>4, <1>7 DEF OutputStrong, OutputInv, CharactersWhole
<1>9. /\ b \in a..Logged /\ n \in Nat /\ a + n <= b
      /\ n = 0 => b - a <= 3 /\ (over => b = a)
      /\ a < Logged => b > a
      /\ n > 0 /\ Inside(a + n) => over /\ a + n = Logged
      /\ \A p \in Replaced(a, a + n) :
           p \in a..(a + n - 1)
           /\ (Byte(p).kind # "good" \/ (Start(p) + Byte(p).width > a + n /\ Inside(a + n)))
  <2>1. over \in BOOLEAN /\ Logged \in 0..Len(output) /\ a \in 0..Logged /\ (Inside(a) => a = Logged)
    BY <1>2, <1>7, <1>8
  <2>2. b = Window(a, Logged, limit) /\ n = Consumed(a, b, limit, over)
    OBVIOUS
  <2> HIDE DEF a, b, n, over
  <2>3. PICK A, B, N, O, T : A = a /\ B = b /\ N = n /\ O = over /\ T = Logged
    OBVIOUS
  <2>4. /\ O \in BOOLEAN /\ T \in 0..Len(output) /\ A \in 0..T /\ B = Window(A, T, limit)
        /\ N = Consumed(A, B, limit, O)
    BY <2>1, <2>2, <2>3
  <2>5. (Inside(A) => A = T) /\ ThePage(T, A, limit, O, B, N)
    BY <2>1, <2>3, <2>4 DEF ThePage
  <2>6. /\ B \in A..T /\ N \in Nat /\ A + N <= B
        /\ N = 0 => B - A <= 3 /\ (O => B = A)
        /\ A < T => B > A
        /\ N > 0 /\ Inside(A + N) => O /\ A + N = T
        /\ \A p \in Replaced(A, A + N) :
             p \in A..(A + N - 1)
             /\ (Byte(p).kind # "good" \/ (Start(p) + Byte(p).width > A + N /\ Inside(A + N)))
    BY <1>2, <1>3, <2>4, <2>5, PageConsumes
  <2>7. b \in a..Logged /\ n \in Nat /\ a + n <= b
    <3>1. B \in A..T /\ N \in Nat /\ A + N <= B
      BY <2>6
    <3>2. b \in A..T /\ n \in Nat /\ A + n <= b
      BY <2>3, <3>1
    <3> QED BY <2>3, <3>2
  <2>8. O <=> over
    BY <2>1, <2>3, <2>4
  <2>9. (n = 0 => b - a <= 3) /\ (n = 0 /\ over => b = a) /\ (a < Logged => b > a)
    BY <2>3, <2>6, <2>8
  <2>10. n > 0 /\ Inside(a + n) => over /\ a + n = Logged
    BY <2>3, <2>6, <2>8
  <2>11. \A p \in Replaced(a, a + n) :
             p \in a..(a + n - 1)
             /\ (Byte(p).kind # "good" \/ (Start(p) + Byte(p).width > a + n /\ Inside(a + n)))
    BY <2>3, <2>6
  <2> QED BY <2>7, <2>9, <2>10, <2>11
<1>10. streamvars' = streamvars /\ UNCHANGED <<output, keeping, got, row>> /\ Logged' = Logged
  BY <1>4 DEF streamvars, Logged
<1>11. left = (IF n = 0 THEN b - a ELSE 0) /\ more = (IF left = 0 /\ a + n < Logged THEN a + n ELSE Nothing)
       /\ (over <=> reader.seen = "over") /\ (lossy <=> Replaced(a, a + n) # {}) /\ lossy \in BOOLEAN
  OBVIOUS
<1> HIDE DEF a, b, n, over, left, more, lossy
<1>12. b \in Nat /\ a + n \in Nat /\ a + n <= Logged
  BY <1>2, <1>7, <1>9
<1>13. left \in 0..3 /\ (over => left = 0)
  BY <1>7, <1>9, <1>11, <1>12
<1>14. more \in Nat \cup {Nothing}
  BY <1>11, <1>12
<1>15. page' \in PageType
  BY <1>2, <1>4, <1>5, <1>7, <1>9, <1>11, <1>13, <1>14 DEF PageType
<1>16. /\ reader' \in ReaderType /\ reader'.at = a + n /\ reader'.seen = "none"
       /\ page'.from = a /\ page'.read = n /\ page'.pending = left /\ page'.lossy = lossy
       /\ page'.next = more /\ page'.total = Logged /\ page'.seen = reader.seen
  BY <1>4, <1>12 DEF ReaderType
<1>17. ReaderPlace'
  BY <1>10, <1>12, <1>16 DEF ReaderPlace
<1>18. Inside(a + n) => row = "over" /\ a + n = Logged
  <2>1. CASE n = 0
    <3>1. a + n = a
      BY <1>7, <2>1
    <3> QED BY <1>8, <3>1
  <2>2. CASE n > 0
    BY <1>6, <1>9, <1>11, <2>2
  <2> QED BY <1>9, <2>1, <2>2
<1>19. LossyWhy'
  <2> SUFFICES ASSUME lossy
               PROVE  \E p \in a..(a + n - 1) :
                        Byte(p).kind # "good" \/ (row = "over" /\ Start(p) + Byte(p).width > Logged)
    BY <1>10, <1>16 DEF LossyWhy, Byte, Start
  <2>1. PICK p \in Replaced(a, a + n) : TRUE
    BY <1>11
  <2>2. p \in a..(a + n - 1)
        /\ (Byte(p).kind # "good" \/ (Start(p) + Byte(p).width > a + n /\ Inside(a + n)))
    BY <1>9, <2>1
  <2>3. Byte(p).kind # "good" \/ (row = "over" /\ Start(p) + Byte(p).width > Logged)
    BY <1>18, <2>2
  <2> QED BY <2>2, <2>3
<1>20. ReadersFinish'
  <2> SUFFICES ASSUME over
               PROVE  /\ row = "over" /\ left = 0
                      /\ more = Nothing => a + n >= Logged
                      /\ a < Logged => n > 0
    BY <1>10, <1>11, <1>16 DEF ReadersFinish
  <2>1. row = "over" /\ left = 0
    BY <1>6, <1>11, <1>13
  <2>2. more = Nothing => a + n >= Logged
    BY <1>2, <1>11, <1>12, <2>1 DEF Nothing
  <2>3. a < Logged => n > 0
    BY <1>7, <1>9, <1>12
  <2> QED BY <2>1, <2>2, <2>3
<1>21. NoGapUntold'
  BY <1>6, <1>16 DEF NoGapUntold
<1>22. keeping = "log" /\ Inside(reader'.at) => row = "over" /\ reader'.at = Logged
  BY <1>16, <1>18
<1>23. reader'.seen = "over" => row = "over"
  BY <1>16
<1>24. UNCHANGED <<streamvars, preview>>
  BY <1>4
<1> QED BY <1>15, <1>16, <1>17, <1>19, <1>20, <1>21, <1>22, <1>23, <1>24, ReaderMoves

LEMMA BufferKeeps == ASSUME OutputStrong, NEW limit \in Limits, ReadBuffer(limit) PROVE OutputStrong'
<1> DEFINE size == reader.upto - reader.from
           a == Smaller(reader.at, size)
           n == Smaller(limit, size - a)
           more == IF a + n < got THEN a + n ELSE Nothing
<1>1. OPTypeOK /\ reader \in ReaderType
  BY DEF OutputStrong, OutputInv, OPTypeOK, ReaderType
<1>2. got \in Nat /\ BufferCap \in Nat \ {0} /\ limit \in Nat \ {0}
  BY <1>1, StreamTyped, OutputAssumption
<1>3. /\ reader.seen = "buffer" /\ UNCHANGED <<streamvars, preview>>
      /\ page' = [from |-> a, read |-> n, pending |-> 0, lossy |-> FALSE, next |-> more,
                  total |-> got, base |-> reader.from, seen |-> "buffer"]
      /\ reader' = [at |-> a + n, seen |-> "none", from |-> 0, upto |-> 0]
  BY DEF ReadBuffer, Resting
<1>4. reader.at \in Nat /\ reader.from \in Nat /\ reader.upto \in Nat
  BY <1>1 DEF ReaderType
<1>5. keeping = "buffer" /\ reader.upto <= got /\ reader.from = reader.upto - Smaller(reader.upto, BufferCap)
  BY <1>3 DEF OutputStrong, ReaderPlace
<1>6. size \in Nat /\ size <= reader.upto /\ (size = got => reader.from = 0)
  BY <1>2, <1>4, <1>5 DEF Smaller
<1>7. size = reader.upto - reader.from /\ a = Smaller(reader.at, size) /\ n = Smaller(limit, size - a)
      /\ more = (IF a + n < got THEN a + n ELSE Nothing)
  OBVIOUS
<1> HIDE DEF size, a, n, more
<1>8. a \in Nat /\ n \in Nat /\ a + n \in Nat /\ a + n <= size /\ a + n <= got
  <2>1. a \in Nat /\ a <= size
    BY <1>4, <1>6, <1>7 DEF Smaller
  <2>2. n \in Nat /\ n <= size - a
    BY <1>2, <1>6, <1>7, <2>1 DEF Smaller
  <2> QED BY <1>2, <1>4, <1>5, <1>6, <2>1, <2>2
<1>9. more \in Nat \cup {Nothing} /\ (more = Nothing => reader.from = 0 /\ a + n = got)
  BY <1>2, <1>4, <1>5, <1>6, <1>7, <1>8 DEF Nothing
<1>10. page' \in PageType
  BY <1>2, <1>3, <1>4, <1>8, <1>9 DEF PageType
<1>11. /\ reader' \in ReaderType /\ reader'.seen = "none" /\ ~page'.lossy /\ page'.seen = "buffer"
       /\ page'.next = more /\ page'.base = reader.from /\ page'.from = a /\ page'.read = n
       /\ page'.total = got
  BY <1>3, <1>8 DEF ReaderType
<1>12. UNCHANGED <<keeping, row>> /\ keeping # "log"
  BY <1>3, <1>5 DEF streamvars
<1>13. ReaderPlace' /\ LossyWhy' /\ ReadersFinish'
  BY <1>11, <1>12 DEF ReaderPlace, LossyWhy, ReadersFinish
<1>14. NoGapUntold'
  BY <1>9, <1>11 DEF NoGapUntold
<1>15. UNCHANGED <<streamvars, preview>>
  BY <1>3
<1>16. reader'.seen = "over" => row = "over"
  BY <1>11
<1> QED BY <1>10, <1>11, <1>12, <1>13, <1>14, <1>15, <1>16, ReaderMoves

\* A poll goes on.
LEMMA PreviewMoves ==
  ASSUME OutputStrong, UNCHANGED <<streamvars, reader, page>>, preview' \in PreviewType,
         PreviewSteps', PreviewsHonest'
  PROVE  OutputStrong'
<1>1. UNCHANGED <<output, keeping, got, flowing, tail, totals, row, reader, page>>
  BY DEF streamvars
<1>2. Logged' = Logged
  BY <1>1 DEF Logged
<1>3. OPTypeOK'
  BY <1>1 DEF OutputStrong, OutputInv, OPTypeOK, PreviewType
<1>4. StreamOrder' /\ ReaderPlace'
  BY <1>1, <1>2 DEF OutputStrong, StreamOrder, ReaderPlace
<1>5. LossyWhy' /\ ReadersFinish' /\ NoGapUntold'
  <2>1. UNCHANGED <<streamvars, page>>
    OBVIOUS
  <2> QED BY <2>1, PagePut
<1>6. CharactersWhole'
  BY <1>1, <1>2 DEF OutputStrong, OutputInv, CharactersWhole, Inside, Byte, Start
<1> QED BY <1>3, <1>4, <1>5, <1>6 DEF OutputStrong, OutputInv

LEMMA PreviewBufferKeeps == ASSUME OutputStrong, NEW limit \in Limits, PreviewBuffer(limit) PROVE OutputStrong'
<1> DEFINE size == got - BufferFrom
           from == got - Smaller(size, limit)
           cut == size > limit
<1>1. got \in Nat /\ BufferCap \in Nat \ {0} /\ limit \in Nat \ {0}
  BY StreamTyped, OutputAssumption DEF OutputStrong, OutputInv
<1>2. /\ keeping = "buffer" /\ UNCHANGED <<streamvars, reader, page>>
      /\ preview' = [step |-> "done", limit |-> limit, total |-> Nothing, from |-> from, upto |-> got,
                     until |-> got, cut |-> cut]
  BY DEF PreviewBuffer
<1>3. size \in Nat /\ size <= got /\ from \in Int /\ cut \in BOOLEAN
  BY <1>1 DEF BufferFrom, Smaller
<1>4. ~cut /\ limit < BufferCap => from = 0
  BY <1>1 DEF BufferFrom, Smaller
<1> HIDE DEF size, from, cut
<1>5. preview' \in PreviewType
  BY <1>1, <1>2, <1>3 DEF PreviewType
<1>6. /\ preview'.step = "done" /\ preview'.cut = cut /\ preview'.limit = limit /\ preview'.from = from
      /\ preview'.upto = got /\ preview'.until = got
  BY <1>2
<1>7. PreviewSteps'
  BY <1>6 DEF PreviewSteps
<1>8. keeping' = "buffer"
  BY <1>2 DEF streamvars
<1>9. PreviewsHonest'
  BY <1>4, <1>6, <1>8 DEF PreviewsHonest
<1> QED BY <1>2, <1>5, <1>7, <1>9, PreviewMoves

LEMMA PreviewTotalsKeeps == ASSUME OutputStrong, NEW limit \in Limits, PreviewTotals(limit) PROVE OutputStrong'
<1> DEFINE total == IF totals THEN got ELSE Nothing
<1>1. got \in Nat /\ limit \in Nat
  BY StreamTyped, OutputAssumption DEF OutputStrong, OutputInv
<1>2. /\ keeping = "log" /\ UNCHANGED <<streamvars, reader, page>>
      /\ preview' = [NoPreview EXCEPT !.step = "totals", !.limit = limit, !.total = total]
  BY DEF PreviewTotals
<1>3. preview' = [step |-> "totals", limit |-> limit, total |-> total, from |-> 0, upto |-> 0,
                  until |-> 0, cut |-> FALSE]
  BY <1>2 DEF NoPreview
<1>4. total \in Nat \cup {Nothing} /\ (total # Nothing => totals /\ total = got)
  BY <1>1
<1> HIDE DEF total
<1>5. preview' \in PreviewType /\ preview'.step = "totals" /\ preview'.total = total
  BY <1>1, <1>3, <1>4 DEF PreviewType
<1>6. UNCHANGED <<keeping, got, flowing>> /\ (totals => ~flowing)
  BY <1>2 DEF streamvars, OutputStrong, StreamOrder
<1>7. PreviewSteps'
  BY <1>2, <1>4, <1>5, <1>6 DEF PreviewSteps
<1>8. PreviewsHonest'
  BY <1>5 DEF PreviewsHonest
<1> QED BY <1>2, <1>5, <1>7, <1>8, PreviewMoves

LEMMA TailStarts ==
  ASSUME output \in Outputs, NEW hi \in 0..Len(output), NEW lo \in 0..hi, NEW limit \in Nat
  PROVE  TailStart(lo, hi, limit) \in lo..hi
<1> DEFINE a == hi - Smaller(hi - lo, limit)
           e == Start(a) + Byte(a).width
<1>1. Len(output) \in Nat /\ hi \in Nat /\ lo \in Nat
  BY OutputTyped
<1>2. a \in lo..hi
  BY <1>1 DEF Smaller
<1>3. TailStart(lo, hi, limit) = IF a < hi /\ Byte(a).place > 0 /\ Valid(lo, hi, a) THEN e ELSE a
  BY DEF TailStart
<1> HIDE DEF a
<1>4. ASSUME a < hi, Valid(lo, hi, a) PROVE e \in lo..hi
  <2>1. a \in Offsets
    BY <1>1, <1>2, <1>4 DEF Offsets
  <2>2. Start(a) \in Int /\ Byte(a).width \in 1..4
    BY <2>1, ByteIs
  <2>3. Start(a) >= lo /\ Start(a) + Byte(a).width <= hi
    BY <1>4 DEF Valid
  <2> QED BY <1>1, <2>2, <2>3
<1> QED BY <1>2, <1>3, <1>4

LEMMA PreviewTailKeeps == ASSUME OutputStrong, PreviewTail PROVE OutputStrong'
<1> DEFINE hi == IF tail = "none" THEN Logged ELSE got
           lo == IF tail = "none" THEN 0
                 ELSE IF tail = "empty" THEN got ELSE got - Smaller(got, TailCap)
           from == TailStart(lo, hi, preview.limit)
<1>1. /\ output \in Outputs /\ got \in 0..Len(output) /\ Len(output) \in Nat /\ got \in Nat
      /\ Logged \in 0..got /\ TailCap \in Nat \ {0}
  BY StreamTyped DEF OutputStrong, OutputInv
<1>2. preview \in PreviewType /\ preview.limit \in Nat
  BY DEF OutputStrong, OutputInv, OPTypeOK, PreviewType
<1>3. /\ preview.step = "totals" /\ UNCHANGED <<streamvars, reader, page>>
      /\ preview' = [preview EXCEPT !.step = "text", !.from = from, !.upto = hi]
  BY DEF PreviewTail
<1>4. hi \in 0..Len(output) /\ lo \in 0..hi /\ hi <= got
  BY <1>1 DEF Smaller
<1>5. from \in lo..hi
  <2> HIDE DEF lo, hi
  <2> QED BY <1>1, <1>2, <1>4, TailStarts
<1> HIDE DEF lo, hi, from
<1>6. from \in Int /\ 0 <= from /\ from <= hi /\ hi \in Nat
  BY <1>1, <1>4, <1>5
<1>7. /\ preview' \in PreviewType /\ preview'.step = "text" /\ preview'.from = from /\ preview'.upto = hi
      /\ preview'.total = preview.total
  BY <1>2, <1>3, <1>6 DEF PreviewType
<1>8. keeping = "log" /\ (preview.total # Nothing => ~flowing /\ preview.total = got)
  BY <1>3 DEF OutputStrong, PreviewSteps
<1>9. UNCHANGED <<keeping, got, flowing>>
  BY <1>3 DEF streamvars
<1>10. PreviewSteps'
  BY <1>4, <1>6, <1>7, <1>8, <1>9 DEF PreviewSteps
<1>11. PreviewsHonest'
  BY <1>7 DEF PreviewsHonest
<1> QED BY <1>3, <1>7, <1>10, <1>11, PreviewMoves

\* Where nothing is replaced, no more characters are decoded than there are bytes.
LEMMA DecodedFits ==
  ASSUME NEW a \in Nat, NEW b \in Nat, a <= b, Replaced(a, b) = {}
  PROVE  DecodedLen(a, b) \in Nat /\ DecodedLen(a, b) <= b - a
<1> DEFINE V == {p \in a..(b - 1) : Valid(a, b, p)}
<1>1. b - 1 \in Int /\ a \in Int
  OBVIOUS
<1>2. IsFiniteSet(a..(b - 1)) /\ Cardinality(a..(b - 1)) = IF a > b - 1 THEN 0 ELSE (b - 1) - a + 1
  BY <1>1, FS_Interval
<1>3. Cardinality(a..(b - 1)) = b - a
  BY <1>2
<1>4. V \subseteq a..(b - 1)
  OBVIOUS
<1>5. DecodedLen(a, b) = Cardinality(V) + 3 * Cardinality({})
  BY DEF DecodedLen
<1> HIDE DEF V
<1>6. IsFiniteSet(V) /\ Cardinality(V) <= b - a
  BY <1>2, <1>3, <1>4, FS_Subset
<1>7. Cardinality(V) \in Nat /\ Cardinality({}) = 0
  BY <1>6, FS_CardinalityType, FS_EmptySet
<1> QED BY <1>5, <1>6, <1>7

LEMMA PreviewLengthKeeps == ASSUME OutputStrong, PreviewLength PROVE OutputStrong'
<1> DEFINE shown == DecodedLen(preview.from, preview.upto)
           cut == IF preview.total # Nothing THEN preview.total > shown
                  ELSE Logged > shown \/ Logged >= LogCap
<1>1. got \in Nat /\ Logged \in Nat /\ LogCap \in Nat /\ (Logged < LogCap => Logged = got)
  BY StreamTyped DEF OutputStrong, OutputInv
<1>2. preview \in PreviewType
  BY DEF OutputStrong, OutputInv, OPTypeOK, PreviewType
<1>3. /\ preview.step = "text" /\ UNCHANGED <<streamvars, reader, page>>
      /\ preview' = [preview EXCEPT !.step = "done", !.until = got, !.cut = cut]
  BY DEF PreviewLength
<1>4. cut \in BOOLEAN
  <2>1. (preview.total > shown) \in BOOLEAN /\ (Logged > shown \/ Logged >= LogCap) \in BOOLEAN
    OBVIOUS
  <2> QED BY <2>1
<1>5. /\ keeping = "log" /\ (preview.total # Nothing => preview.total = got)
      /\ 0 <= preview.from /\ preview.from <= preview.upto /\ preview.upto <= got
  BY <1>3 DEF OutputStrong, PreviewSteps
<1>6. preview.from \in Nat /\ preview.upto \in Nat /\ preview.total \in Nat \cup {Nothing}
  BY <1>2, <1>5 DEF PreviewType
<1>7. ASSUME Replaced(preview.from, preview.upto) = {}, ~cut
      PROVE  preview.from = 0 /\ preview.upto = got
  <2>1. shown \in Nat /\ shown <= preview.upto - preview.from
    BY <1>5, <1>6, <1>7, DecodedFits
  <2>2. got <= shown
    <3>1. CASE preview.total # Nothing
      <4>1. preview.total = got /\ ~(preview.total > shown)
        BY <1>5, <1>7, <3>1
      <4> HIDE DEF shown
      <4> QED BY <1>1, <2>1, <4>1
    <3>2. CASE preview.total = Nothing
      <4>1. ~(Logged > shown) /\ ~(Logged >= LogCap)
        BY <1>7, <3>2
      <4> HIDE DEF shown
      <4> QED BY <1>1, <2>1, <4>1
    <3> QED BY <3>1, <3>2
  <2> HIDE DEF shown
  <2> QED BY <1>1, <1>5, <1>6, <2>1, <2>2
<1> HIDE DEF shown, cut
<1>8. /\ preview' \in PreviewType /\ preview'.step = "done" /\ preview'.from = preview.from
      /\ preview'.upto = preview.upto /\ preview'.until = got /\ preview'.cut = cut
  BY <1>1, <1>2, <1>3, <1>4 DEF PreviewType
<1>9. PreviewSteps'
  BY <1>8 DEF PreviewSteps
<1>10. PreviewsHonest'
  <2>1. UNCHANGED <<output, keeping>>
    BY <1>3 DEF streamvars
  <2>2. Replaced(preview.from, preview.upto)' = Replaced(preview.from, preview.upto)
    BY <1>8, <2>1 DEF Replaced, Valid, Start, Byte
  <2> QED BY <1>5, <1>7, <1>8, <2>1, <2>2 DEF PreviewsHonest
<1> QED BY <1>3, <1>8, <1>9, <1>10, PreviewMoves

LEMMA OutputStutters == ASSUME OutputStrong, UNCHANGED opvars PROVE OutputStrong'
<1>1. UNCHANGED <<streamvars, reader, page>> /\ UNCHANGED <<output, keeping, got, flowing, preview>>
  BY DEF opvars, streamvars
<1>2. preview' \in PreviewType
  BY <1>1 DEF OutputStrong, OutputInv, OPTypeOK, PreviewType
<1>3. PreviewSteps'
  BY <1>1 DEF OutputStrong, PreviewSteps
<1>4. PreviewsHonest'
  <2>1. Replaced(preview.from, preview.upto)' = Replaced(preview.from, preview.upto)
    BY <1>1 DEF Replaced, Valid, Start, Byte
  <2> QED BY <1>1, <2>1 DEF OutputStrong, OutputInv, PreviewsHonest
<1> QED BY <1>1, <1>2, <1>3, <1>4, PreviewMoves

\* Whatever a command writes, at any speed, and whenever it is read: the pages of a log
\* end between characters and leave nothing out once the job is over, a session's page
\* that is said to be the last has a whole output before it, and a preview that is not
\* marked as cut is one (job_output and attach_output of jobs.rs, read_output and
\* snapshot of session.rs).
THEOREM OutputSafe == OPSpec => []OutputInv
<1>1. OPInit => OutputStrong
  BY OutputBegins
<1>2. OutputStrong /\ [OPNext]_opvars => OutputStrong'
  <2> SUFFICES ASSUME OutputStrong, [OPNext]_opvars PROVE OutputStrong'
    OBVIOUS
  <2>1. CASE (\E n \in 1..Len(output) : Collect(n)) \/ StreamEnds \/ WriteTail \/ WriteTotals \/ FinishRow
    BY <2>1, CollectorKeeps
  <2>2. CASE SeeStatus \/ CloneBuffer
    BY <2>2, SeeKeeps
  <2>3. CASE PreviewTail
    BY <2>3, PreviewTailKeeps
  <2>4. CASE PreviewLength
    BY <2>4, PreviewLengthKeeps
  <2>5. ASSUME NEW limit \in Limits,
               ReadPage(limit) \/ ReadBuffer(limit) \/ PreviewBuffer(limit) \/ PreviewTotals(limit)
        PROVE  OutputStrong'
    BY <2>5, PageKeeps, BufferKeeps, PreviewBufferKeeps, PreviewTotalsKeeps
  <2>6. CASE UNCHANGED opvars
    BY <2>6, OutputStutters
  <2> QED BY <2>1, <2>2, <2>3, <2>4, <2>5, <2>6 DEF OPNext
<1>3. OutputStrong => OutputInv
  BY DEF OutputStrong
<1> QED BY <1>1, <1>2, <1>3, PTL DEF OPSpec

-----------------------------------------------------------------------------
(* GitReading.  Whatever an answer is put together from was seen while the *)
(* call ran; what a diff has not read yet is still there to be read.       *)

MomentSeen == phase # "idle" => Moment \in moments
SteadyLasts == phase # "idle" => steady \subseteq Showing
ReplyOfStep ==
  /\ phase \in {"check", "read"} => reply = NoReply
  /\ phase = "more" => /\ inquiry.tool \in {"status", "diff"}
                       /\ inquiry.tool = "diff" => reply = NoReply
                       /\ inquiry.tool = "status" => reply.kind = "part"
\* What the half that was read does not name, its diff would not name now either.
DiffLeft ==
  phase = "more" /\ inquiry.tool = "diff" /\ inquiry.unstaged /\ inquiry.staged =>
    \A p \in steady : p \in NamesIn(diffs) \/ p \notin NamedBy(cached, KnownFiles)
\* The names of a line are those of paths that changed.
LineOf(l, named) == \A n \in l[4] : \E q \in named : n \in {ReadAs[q], LooksLike[q]}
DiffsSeen ==
  phase = "more" /\ inquiry.tool = "diff" => \A l \in diffs : \E m \in moments : LineOf(l, m.named)
PagesOrdered ==
  /\ inquiry.tool = "log" /\ phase \in {"check", "read"} => pages.skip <= SkipCap
  /\ pages.skip > 0 => pages.first <= pages.last /\ pages.last <= Tip

GitStrong ==
  /\ GitInv
  /\ MomentSeen /\ SteadyLasts /\ ReplyOfStep /\ DiffLeft /\ DiffsSeen /\ PagesOrdered

MomentType == [health : {"repo", "none", "broken"}, length : 1..3, named : SUBSET Paths,
               lines : SUBSET (Paths \X {"tracked", "untracked"})]

AnyLine == (0..1) \X Paths \X (1..3) \X SUBSET Names
TreePairs == TreeVersions \X TreeVersions

LEMMA DiffTyped == GitStrong => diffs \subseteq AnyLine
BY DEF GitStrong, GitInv, GRTypeOK, AnyLine

LEMMA LinesListed == ASSUME NEW all PROVE StatusLines(all) \subseteq Paths \X {"tracked", "untracked"}
BY DEF StatusLines, Unstaged, Changed, Entries

LEMMA ChangesAre == Unstaged \subseteq Paths /\ Staged \subseteq Paths
BY DEF Unstaged, Staged, Changed

\* The path that another is taken for.
LEMMA MovedIs ==
  ASSUME NEW old, NEW new, NEW p \in Paths
  PROVE  /\ MovedFrom(old, new, p) \in Paths
         /\ p \in Changed(old, new) => MovedFrom(old, new, p) \in Changed(old, new)
         /\ p \notin Added(old, new) => MovedFrom(old, new, p) = p
<1> DEFINE same == {q \in TakenAway(old, new) : p \in Added(old, new) /\ old[q] = new[p]}
           alike == {q \in TakenAway(old, new) : p \in Added(old, new) /\ <<old[q], new[p]>> \in Alike}
           m == MovedFrom(old, new, p)
<1>1. m = IF same # {} THEN CHOOSE q \in same : TRUE
          ELSE IF alike # {} THEN CHOOSE q \in alike : TRUE ELSE p
  BY DEF MovedFrom
<1>2. TakenAway(old, new) \subseteq Paths /\ TakenAway(old, new) \subseteq Changed(old, new)
  BY DEF TakenAway, Changed
<1>3. same \subseteq TakenAway(old, new) /\ alike \subseteq TakenAway(old, new)
  OBVIOUS
<1>4. p \notin Added(old, new) => same = {} /\ alike = {}
  OBVIOUS
<1> HIDE DEF same, alike, m
<1>5. m = p \/ m \in same \/ m \in alike
  BY <1>1
<1> QED BY <1>1, <1>2, <1>3, <1>4, <1>5 DEF m

\* The lines of a diff are typed, of what changed, and name what they should.
LEMMA LinesAre ==
  ASSUME NEW old, NEW new, NEW half \in 0..1
  PROVE  /\ DiffLines(old, new, half) \subseteq AnyLine
         /\ \A l \in DiffLines(old, new, half) : LineOf(l, Changed(old, new))
         /\ NamedBy(old, new) \subseteq NamesIn(DiffLines(old, new, half))
<1> USE GitAssumption
<1> DEFINE M(p) == MovedFrom(old, new, p)
           Headline(p) == <<half, p, 1, {}>>
           Nameline(p) == <<half, p, 2, Named({ReadAs[p], ReadAs[M(p)]})>>
           Bodyline(p) == <<half, p, 3, Named({LooksLike[p]})>>
<1>1. Entries(old, new) \subseteq Changed(old, new) /\ Changed(old, new) \subseteq Paths
  BY DEF Entries, Changed
<1>2. /\ \A l \in DiffLines(old, new, half) :
           \E p \in Entries(old, new) :
             l = Headline(p) \/ (Textual(old, new, p) /\ l \in {Nameline(p), Bodyline(p)})
      /\ \A p \in Entries(old, new) : Textual(old, new, p) => Nameline(p) \in DiffLines(old, new, half)
  <2> DEFINE Both(p) == {Nameline(p), Bodyline(p)}
             texts == {q \in Entries(old, new) : Textual(old, new, q)}
             heads == {Headline(p) : p \in Entries(old, new)}
  <2>1. DiffLines(old, new, half) = heads \cup UNION {Both(p) : p \in texts}
    BY DEF DiffLines
  <2>2. \A l \in heads : \E p \in Entries(old, new) : l = Headline(p)
    OBVIOUS
  <2>3. /\ \A p \in texts : p \in Entries(old, new) /\ Textual(old, new, p)
        /\ \A p \in Entries(old, new) : Textual(old, new, p) => p \in texts
    OBVIOUS
  <2>4. \A p : Nameline(p) \in Both(p) /\ \A l \in Both(p) : l \in {Nameline(p), Bodyline(p)}
    OBVIOUS
  <2> HIDE DEF Both, texts, heads, Headline, Nameline, Bodyline
  <2>5. \A l \in UNION {Both(p) : p \in texts} : \E p \in texts : l \in Both(p)
    OBVIOUS
  <2>6. \A p \in texts : \A l \in Both(p) : l \in UNION {Both(q) : q \in texts}
    OBVIOUS
  <2>7. ASSUME NEW l \in DiffLines(old, new, half)
        PROVE  \E p \in Entries(old, new) :
             l = Headline(p) \/ (Textual(old, new, p) /\ l \in {Nameline(p), Bodyline(p)})
    <3>1. CASE l \in heads
      <4>1. PICK p \in Entries(old, new) : l = Headline(p)
        BY <2>2, <3>1
      <4> QED BY <4>1
    <3>2. CASE l \in UNION {Both(p) : p \in texts}
      BY <2>3, <2>4, <2>5, <3>2
    <3> QED BY <2>1, <3>1, <3>2
  <2>8. ASSUME NEW p \in Entries(old, new), Textual(old, new, p) PROVE Nameline(p) \in DiffLines(old, new, half)
    BY <2>1, <2>3, <2>4, <2>6, <2>8
  <2> QED BY <2>7, <2>8
<1>3. ASSUME NEW p \in Entries(old, new)
      PROVE  /\ M(p) \in Changed(old, new) /\ p \in Changed(old, new)
             /\ Named({ReadAs[p], ReadAs[M(p)]}) \in SUBSET Names /\ Named({LooksLike[p]}) \in SUBSET Names
  <2>1. M(p) \in Changed(old, new) /\ p \in Changed(old, new)
    BY <1>1, MovedIs
  <2>2. \A q \in Paths : ReadAs[q] \in Names \cup {NoName} /\ LooksLike[q] \in Names \cup {NoName}
    OBVIOUS
  <2>3. p \in Paths /\ M(p) \in Paths
    BY <1>1, <2>1
  <2> HIDE DEF M
  <2> QED BY <2>1, <2>2, <2>3 DEF Named
<1>4. ASSUME NEW l \in DiffLines(old, new, half)
      PROVE  l \in AnyLine /\ LineOf(l, Changed(old, new))
  <2>1. PICK p \in Entries(old, new) : \/ l = Headline(p)
                                       \/ Textual(old, new, p) /\ l \in {Nameline(p), Bodyline(p)}
    BY <1>2
  <2> HIDE DEF M
  <2>2. p \in Paths
    BY <1>1
  <2>3. CASE l = Headline(p)
    BY <2>2, <2>3 DEF AnyLine, LineOf
  <2>4. CASE l = Nameline(p)
    BY <1>3, <2>2, <2>4 DEF AnyLine, LineOf, Named
  <2>5. CASE l = Bodyline(p)
    BY <1>3, <2>2, <2>5 DEF AnyLine, LineOf, Named
  <2> QED BY <2>1, <2>3, <2>4, <2>5
<1>5. ASSUME NEW p \in NamedBy(old, new) PROVE p \in NamesIn(DiffLines(old, new, half))
  <2>1. PICK q \in Entries(old, new) : Textual(old, new, q) /\ p \in {q, M(q)} /\ ReadAs[p] = p /\ p \in Paths
    BY <1>5 DEF NamedBy
  <2>2. Nameline(q) \in DiffLines(old, new, half)
    BY <1>2, <2>1
  <2> HIDE DEF M
  <2>3. p \in Named({ReadAs[q], ReadAs[M(q)]})
    BY <2>1 DEF Named
  <2>4. p \in Nameline(q)[4]
    BY <2>3
  <2> QED BY <2>2, <2>4 DEF NamesIn
<1> QED BY <1>4, <1>5

\* What git diff names of a path depends on that path alone.
KnownOf(c, w) == [q \in Paths |-> IF c[q] = NoFile THEN NoFile ELSE w[q]]
OwnShows(c, w, p) ==
  /\ p \in Paths /\ ReadAs[p] = p /\ c[p] # NoFile /\ w[p] # c[p] /\ p \notin Bare
  /\ {c[p], w[p]} # {NoFile, Empty}
LEMMA UnstagedNames ==
  ASSUME NEW c, NEW w, NEW p
  PROVE  p \in NamedBy(c, KnownOf(c, w)) <=> OwnShows(c, w, p)
<1> DEFINE k == KnownOf(c, w)
<1>1. \A q \in Paths : k[q] = IF c[q] = NoFile THEN NoFile ELSE w[q]
  BY DEF KnownOf
<1> HIDE DEF k
<1>2. Added(c, k) = {}
  BY <1>1 DEF Added
<1>3. \A q \in Paths : MovedFrom(c, k, q) = q
  BY <1>2, MovedIs
<1>4. Entries(c, k) = Changed(c, k)
  BY <1>2 DEF Entries
<1>5. \A q \in Paths : Textual(c, k, q) <=> q \notin Bare /\ {c[q], k[q]} # {NoFile, Empty}
  BY <1>3 DEF Textual
<1>6. Changed(c, k) \subseteq Paths
  BY DEF Changed
<1>7. p \in NamedBy(c, k) <=>
        /\ p \in Paths /\ ReadAs[p] = p /\ p \in Changed(c, k) /\ Textual(c, k, p)
  BY <1>3, <1>4, <1>6 DEF NamedBy
<1>8. p \in Paths => (p \in Changed(c, k) <=> c[p] # NoFile /\ w[p] # c[p])
  BY <1>1 DEF Changed
<1>9. p \in Paths /\ c[p] # NoFile => k[p] = w[p]
  BY <1>1
<1>10. p \in NamedBy(c, k) <=> OwnShows(c, w, p)
  BY <1>5, <1>7, <1>8, <1>9 DEF OwnShows
<1> QED BY <1>10 DEF k

LEMMA KnownIs == KnownFiles = KnownOf(cached, work) /\ KnownFiles' = KnownOf(cached', work')
BY DEF KnownFiles, KnownOf

LEMMA MomentTyped ==
  ASSUME history \in Seq(TreePairs), length \in 1..3, health \in {"repo", "none", "broken"}
  PROVE  Moment \in MomentType
<1> DEFINE named == IF inquiry.tool # "show" THEN Unstaged \cup Staged
                    ELSE IF Tip = 0 THEN {} ELSE Changed(history[Tip][1], history[Tip][2])
<1>1. named \in SUBSET Paths
  <2>1. Unstaged \cup Staged \subseteq Paths
    BY ChangesAre
  <2>2. \A old, new : Changed(old, new) \subseteq Paths
    BY DEF Changed
  <2> QED BY <2>1, <2>2
<1>2. StatusLines(inquiry.untracked) \in SUBSET (Paths \X {"tracked", "untracked"})
  BY LinesListed
<1>3. Moment = [health |-> health, lines |-> StatusLines(inquiry.untracked), length |-> length,
                named |-> named]
  BY DEF Moment
<1> HIDE DEF named
<1> QED BY <1>1, <1>2, <1>3 DEF MomentType

LEMMA GRBegins == GRInit => GitStrong
<1> SUFFICES ASSUME GRInit PROVE GitStrong
  OBVIOUS
<1> USE GitAssumption
<1>1. PICK r \in FirstRepos : head = r.head /\ cached = r.cached /\ work = r.work /\ history = r.history
  BY DEF GRInit
<1>2. /\ head \in TreeVersions /\ cached \in TreeVersions /\ work \in TreeVersions
      /\ history \in Seq(TreePairs)
  BY <1>1 DEF TreePairs
<1>3. inquiry \in Inquiries
  BY DEF GRInit
<1>4. reply \in [kind : GitTools \cup {"none", "part", "norepo", "git", "argument"}, clean : BOOLEAN,
                 lines : SUBSET (Paths \X {"tracked", "untracked"}), names : SUBSET Names,
                 stub : BOOLEAN, cut : BOOLEAN, shown : Nat]
  BY DEF GRInit, NoReply
<1>5. pages \in [skip : Nat, first : Nat, last : Nat, listed : SUBSET Nat]
  BY DEF GRInit, FirstPages
<1>6. GRTypeOK
  BY <1>2, <1>3, <1>4, <1>5 DEF GRInit, GRTypeOK, TreePairs
<1>7. reply.kind = "none" /\ pages.skip = 0 /\ phase = "idle"
  BY DEF GRInit, NoReply, FirstPages
<1>8. NeverMistaken /\ NothingHidden /\ NamesTrue /\ LogComplete /\ BlameExact
  BY <1>7 DEF NeverMistaken, NothingHidden, NamesTrue, LogComplete, BlameExact
<1>9. MomentSeen /\ SteadyLasts /\ ReplyOfStep /\ DiffLeft /\ DiffsSeen /\ PagesOrdered
  BY <1>7 DEF MomentSeen, SteadyLasts, ReplyOfStep, DiffLeft, DiffsSeen, PagesOrdered
<1> QED BY <1>6, <1>8, <1>9 DEF GitStrong, GitInv

-----------------------------------------------------------------------------
(* Others at work.                                                         *)

LEMMA OthersAtWork ==
  ASSUME GitStrong, NEW disturbed, Meanwhile(disturbed),
         {head', cached', work'} \subseteq TreeVersions,
         history' \in Seq(TreePairs), length' \in 1..3, health' \in {"repo", "none", "broken"},
         Tip <= Tip',
         \A p \in Paths \ disturbed : OwnShows(cached', work', p) => OwnShows(cached, work, p)
  PROVE  GitStrong'
<1> USE GitAssumption
<1>1. /\ works' = works + 1 /\ works < MaxWorks
      /\ UNCHANGED <<inquiry, phase, diffs, reply, pages, inquiries>>
  BY DEF Meanwhile
<1>2. /\ moments \subseteq moments' /\ moments' \subseteq moments \cup {Moment'}
      /\ steady' \subseteq steady
      /\ phase # "idle" => /\ Moment' \in moments' /\ steady' \subseteq Showing'
                           /\ \A p \in steady' : p \notin disturbed
      /\ phase = "idle" => moments' = moments /\ steady' = steady
  BY DEF Meanwhile
<1>3. Moment' \in MomentType
  <2>1. ASSUME history' \in Seq(TreePairs), length' \in 1..3, health' \in {"repo", "none", "broken"}
        PROVE  Moment' \in MomentType
    <3> DEFINE named == IF inquiry.tool # "show" THEN Unstaged \cup Staged
                        ELSE IF Tip = 0 THEN {} ELSE Changed(history[Tip][1], history[Tip][2])
    <3>1. (Unstaged \cup Staged)' \subseteq Paths
      BY DEF Unstaged, Staged, Changed
    <3>2. \A old, new : Changed(old, new) \subseteq Paths
      BY DEF Changed
    <3>3. named' \in SUBSET Paths
      BY <3>1, <3>2
    <3>4. StatusLines(inquiry.untracked)' \in SUBSET (Paths \X {"tracked", "untracked"})
      BY DEF StatusLines, Unstaged, Changed, Entries
    <3>5. Moment' = [health |-> health', lines |-> StatusLines(inquiry.untracked)', length |-> length',
                     named |-> named']
      BY DEF Moment
    <3> HIDE DEF named
    <3> QED BY <2>1, <3>3, <3>4, <3>5 DEF MomentType
  <2> QED BY <2>1
<1>4. GRTypeOK'
  <2>1. moments' \subseteq MomentType
    BY <1>2, <1>3 DEF GitStrong, GitInv, GRTypeOK, MomentType
  <2>2. works' \in 0..MaxWorks
    BY <1>1 DEF GitStrong, GitInv, GRTypeOK
  <2>3. steady' \subseteq Paths
    BY <1>2 DEF GitStrong, GitInv, GRTypeOK
  <2> QED BY <1>1, <2>1, <2>2, <2>3 DEF GitStrong, GitInv, GRTypeOK, MomentType, AnyLine, TreePairs
<1>5. NeverMistaken'
  BY <1>1, <1>2 DEF GitStrong, GitInv, NeverMistaken
<1>6. NothingHidden'
  BY <1>1, <1>2 DEF GitStrong, GitInv, NothingHidden
<1>7. NamesTrue'
  BY <1>1, <1>2 DEF GitStrong, GitInv, NamesTrue
<1>8. LogComplete'
  BY <1>1 DEF GitStrong, GitInv, LogComplete
<1>9. BlameExact'
  BY <1>1, <1>2 DEF GitStrong, GitInv, BlameExact
<1>10. MomentSeen' /\ SteadyLasts' /\ ReplyOfStep'
  BY <1>1, <1>2 DEF GitStrong, MomentSeen, SteadyLasts, ReplyOfStep
<1>11. DiffLeft'
  <2> SUFFICES ASSUME phase = "more", inquiry.tool = "diff", inquiry.unstaged, inquiry.staged,
                      NEW p \in steady'
               PROVE  p \in NamesIn(diffs) \/ p \notin NamedBy(cached', KnownFiles')
    BY <1>1 DEF DiffLeft, NamesIn
  <2>1. p \in steady /\ p \notin disturbed
    BY <1>2
  <2>2. p \in NamesIn(diffs) \/ p \notin NamedBy(cached, KnownFiles)
    BY <2>1 DEF GitStrong, DiffLeft
  <2>3. p \in Paths
    BY <2>1 DEF GitStrong, GitInv, GRTypeOK
  <2>4. /\ p \in NamedBy(cached, KnownFiles) <=> OwnShows(cached, work, p)
        /\ p \in NamedBy(cached', KnownFiles') <=> OwnShows(cached', work', p)
    BY UnstagedNames, KnownIs
  <2> QED BY <2>1, <2>2, <2>3, <2>4
<1>12. DiffsSeen'
  BY <1>1, <1>2 DEF GitStrong, DiffsSeen
<1>13. PagesOrdered'
  <2>1. Tip \in Nat /\ Tip' \in Nat
    BY DEF Tip, GitStrong, GitInv, GRTypeOK
  <2> QED BY <1>1, <2>1 DEF GitStrong, GitInv, GRTypeOK, PagesOrdered
<1> QED BY <1>4, <1>5, <1>6, <1>7, <1>8, <1>9, <1>10, <1>11, <1>12, <1>13 DEF GitStrong, GitInv

LEMMA RepositoryMoves ==
  ASSUME GitStrong,
         \/ \E p \in Paths : StagePath(p) \/ Unstage(p) \/ (\E v \in Versions \cup {NoFile} : Edit(p, v))
         \/ CommitStaged
         \/ \E n \in 1..3 : n # length /\ Lengthen(n)
         \/ \E h \in {"repo", "none", "broken"} : Upset(h)
  PROVE  GitStrong'
<1> USE GitAssumption
<1>0. /\ {head, cached, work} \subseteq TreeVersions /\ history \in Seq(TreePairs)
      /\ length \in 1..3 /\ health \in {"repo", "none", "broken"} /\ Tip \in Nat
  BY DEF GitStrong, GitInv, GRTypeOK, Tip, TreePairs
<1>1. ASSUME NEW p \in Paths, NEW v \in Versions \cup {NoFile}, Edit(p, v) PROVE GitStrong'
  <2>1. /\ work' = [work EXCEPT ![p] = v] /\ UNCHANGED <<head, cached, history, length, health>>
        /\ Meanwhile({p})
    BY <1>1 DEF Edit
  <2>2. work' \in TreeVersions /\ Tip' = Tip
    BY <2>1, <1>0 DEF TreeVersions, Tip
  <2>3. ASSUME NEW q \in Paths, q \notin {p}, OwnShows(cached', work', q) PROVE OwnShows(cached, work, q)
    <3>1. work'[q] = work[q]
      BY <2>1, <2>3, <1>0 DEF TreeVersions
    <3> QED BY <2>1, <2>3, <3>1 DEF OwnShows
  <2>4. {head', cached', work'} \subseteq TreeVersions /\ history' \in Seq(TreePairs)
    BY <1>0, <2>1, <2>2
  <2>5. length' \in 1..3 /\ health' \in {"repo", "none", "broken"} /\ Tip <= Tip'
    BY <1>0, <2>1, <2>2
  <2>6. \A q \in Paths \ {p} : OwnShows(cached', work', q) => OwnShows(cached, work, q)
    BY <2>3
  <2>7. Meanwhile({p})
    BY <2>1
  <2> QED BY <2>4, <2>5, <2>6, <2>7, OthersAtWork
<1>2. ASSUME NEW p \in Paths, StagePath(p) PROVE GitStrong'
  <2>1. /\ cached' = [cached EXCEPT ![p] = work[p]] /\ UNCHANGED <<head, work, history, length, health>>
        /\ Meanwhile({})
    BY <1>2 DEF StagePath
  <2>2. cached' \in TreeVersions /\ Tip' = Tip
    BY <2>1, <1>0 DEF TreeVersions, Tip
  <2>3. ASSUME NEW q \in Paths, OwnShows(cached', work', q) PROVE OwnShows(cached, work, q)
    <3>1. CASE q = p
      <4>1. cached'[q] = work'[q]
        BY <2>1, <3>1, <1>0 DEF TreeVersions
      <4> QED BY <4>1, <2>3 DEF OwnShows
    <3>2. CASE q # p
      <4>1. cached'[q] = cached[q]
        BY <2>1, <3>2, <1>0 DEF TreeVersions
      <4> QED BY <4>1, <2>1, <2>3 DEF OwnShows
    <3> QED BY <3>1, <3>2
  <2>4. {head', cached', work'} \subseteq TreeVersions /\ history' \in Seq(TreePairs)
    BY <1>0, <2>1, <2>2
  <2>5. length' \in 1..3 /\ health' \in {"repo", "none", "broken"} /\ Tip <= Tip'
    BY <1>0, <2>1, <2>2
  <2>6. \A q \in Paths \ {} : OwnShows(cached', work', q) => OwnShows(cached, work, q)
    BY <2>3
  <2>7. Meanwhile({})
    BY <2>1
  <2> QED BY <2>4, <2>5, <2>6, <2>7, OthersAtWork
<1>3. ASSUME NEW p \in Paths, Unstage(p) PROVE GitStrong'
  <2>1. /\ cached' = [cached EXCEPT ![p] = head[p]] /\ UNCHANGED <<head, work, history, length, health>>
        /\ Meanwhile({p})
    BY <1>3 DEF Unstage
  <2>2. cached' \in TreeVersions /\ Tip' = Tip
    BY <2>1, <1>0 DEF TreeVersions, Tip
  <2>3. ASSUME NEW q \in Paths, q \notin {p}, OwnShows(cached', work', q) PROVE OwnShows(cached, work, q)
    <3>1. cached'[q] = cached[q]
      BY <2>1, <2>3, <1>0 DEF TreeVersions
    <3> QED BY <2>1, <2>3, <3>1 DEF OwnShows
  <2>4. {head', cached', work'} \subseteq TreeVersions /\ history' \in Seq(TreePairs)
    BY <1>0, <2>1, <2>2
  <2>5. length' \in 1..3 /\ health' \in {"repo", "none", "broken"} /\ Tip <= Tip'
    BY <1>0, <2>1, <2>2
  <2>6. \A q \in Paths \ {p} : OwnShows(cached', work', q) => OwnShows(cached, work, q)
    BY <2>3
  <2>7. Meanwhile({p})
    BY <2>1
  <2> QED BY <2>4, <2>5, <2>6, <2>7, OthersAtWork
<1>4. CASE CommitStaged
  <2>1. /\ head' = cached /\ history' = Append(history, <<head, cached>>)
        /\ UNCHANGED <<cached, work, length, health>> /\ Meanwhile({})
    BY <1>4 DEF CommitStaged
  <2>2. <<head, cached>> \in TreePairs
    BY <1>0 DEF TreePairs
  <2>3. history' \in Seq(TreePairs) /\ Tip <= Tip'
    BY <2>1, <2>2, <1>0 DEF Tip
  <2>4. \A q \in Paths \ {} : OwnShows(cached', work', q) => OwnShows(cached, work, q)
    BY <2>1
  <2> QED BY <1>0, <2>1, <2>3, <2>4, OthersAtWork
<1>5. ASSUME NEW n \in 1..3, Lengthen(n) PROVE GitStrong'
  <2>1. length' = n /\ UNCHANGED <<head, cached, work, history, health>> /\ Meanwhile({})
    BY <1>5 DEF Lengthen
  <2>2. Tip' = Tip
    BY <2>1 DEF Tip
  <2>3. \A q \in Paths \ {} : OwnShows(cached', work', q) => OwnShows(cached, work, q)
    BY <2>1
  <2> QED BY <1>0, <2>1, <2>2, <2>3, OthersAtWork
<1>6. ASSUME NEW h \in {"repo", "none", "broken"}, Upset(h) PROVE GitStrong'
  <2>1. health' = h /\ UNCHANGED <<head, cached, work, history, length>> /\ Meanwhile({})
    BY <1>6 DEF Upset
  <2>2. Tip' = Tip
    BY <2>1 DEF Tip
  <2>3. \A q \in Paths \ {} : OwnShows(cached', work', q) => OwnShows(cached, work, q)
    BY <2>1
  <2> QED BY <1>0, <2>1, <2>2, <2>3, OthersAtWork
<1> QED BY <1>1, <1>2, <1>3, <1>4, <1>5, <1>6


-----------------------------------------------------------------------------
(* The calls.                                                              *)

GRKinds == GitTools \cup {"none", "part", "norepo", "git", "argument"}
GRReplies == [kind : GRKinds, clean : BOOLEAN, lines : SUBSET (Paths \X {"tracked", "untracked"}),
              names : SUBSET Names, stub : BOOLEAN, cut : BOOLEAN, shown : Nat]

LEMMA CallGoesOn ==
  ASSUME GitStrong, UNCHANGED callvars, phase # "idle", phase' \in {"idle", "check", "read", "more"},
         phase' \in {"check", "read"} => phase \in {"check", "read"},
         diffs' \subseteq AnyLine, reply' \in GRReplies,
         reply'.kind # "log",
         NeverMistaken', NothingHidden', NamesTrue', BlameExact', ReplyOfStep', DiffLeft', DiffsSeen'
  PROVE  GitStrong'
<1>1. UNCHANGED <<head, cached, work, history, length, health, inquiry, pages, works, inquiries, moments,
                  steady>>
  BY DEF callvars, gitvars
<1>2. GRTypeOK'
  BY <1>1 DEF GitStrong, GitInv, GRTypeOK, GRReplies, GRKinds, AnyLine
<1>3. Moment' = Moment
  BY <1>1 DEF Moment, StatusLines, Unstaged, Staged, KnownFiles, Tip
<1>4. Showing' = Showing
  BY <1>1 DEF Showing, KnownFiles
<1>5. MomentSeen' /\ SteadyLasts'
  BY <1>1, <1>3, <1>4 DEF GitStrong, MomentSeen, SteadyLasts
<1>6. PagesOrdered'
  BY <1>1 DEF GitStrong, PagesOrdered, Tip
<1>7. LogComplete'
  BY <1>1 DEF GitStrong, GitInv, LogComplete
<1> QED BY <1>2, <1>5, <1>6, <1>7 DEF GitStrong, GitInv

LEMMA Refused ==
  ASSUME GitStrong, UNCHANGED <<callvars, diffs>>, phase # "idle",
         NEW why \in {"norepo", "git", "argument"}, Refusal(why),
         why = "norepo" => \E m \in moments : m.health = "none"
  PROVE  GitStrong'
<1>1. reply' = [kind |-> why, clean |-> FALSE, lines |-> {}, names |-> {}, stub |-> FALSE,
                cut |-> FALSE, shown |-> 0] /\ phase' = "idle"
  BY DEF Refusal, Say, NoReply
<1>2. reply' \in GRReplies
  BY <1>1 DEF GRReplies, GRKinds
<1>3. reply'.kind = why
  BY <1>1
<1>4. moments' = moments /\ diffs' = diffs /\ UNCHANGED callvars
  BY DEF callvars
<1>5. NeverMistaken' /\ NothingHidden' /\ NamesTrue' /\ BlameExact'
  BY <1>3, <1>4 DEF NeverMistaken, NothingHidden, NamesTrue, BlameExact
<1>6. ReplyOfStep' /\ DiffLeft' /\ DiffsSeen'
  BY <1>1 DEF ReplyOfStep, DiffLeft, DiffsSeen
<1>7. diffs' \subseteq AnyLine
  BY <1>4, DiffTyped
<1> QED BY <1>1, <1>2, <1>3, <1>4, <1>5, <1>6, <1>7, CallGoesOn

LEMMA InquireKeeps == ASSUME GitStrong, NEW q \in Inquiries, Inquire(q) PROVE GitStrong'
<1> USE GitAssumption
<1>1. /\ inquiries' = inquiries + 1 /\ inquiries < MaxInquiries /\ phase = "idle"
      /\ inquiry' = q /\ diffs' = {} /\ moments' = {Moment'} /\ steady' = Showing
      /\ UNCHANGED <<head, cached, work, history, length, health, pages, works>>
      /\ phase' \in {"idle", "check"}
      /\ q.tool = "log" => pages.skip <= SkipCap
  BY DEF Inquire, gitvars, Refusal, Say
<1>2. \E why \in {"none", "argument"} :
         reply' = [kind |-> why, clean |-> FALSE, lines |-> {}, names |-> {}, stub |-> FALSE,
                   cut |-> FALSE, shown |-> 0] /\ (phase' = "check" => why = "none")
  BY DEF Inquire, Refusal, Say, NoReply
<1>3. PICK why \in {"none", "argument"} :
         reply' = [kind |-> why, clean |-> FALSE, lines |-> {}, names |-> {}, stub |-> FALSE,
                   cut |-> FALSE, shown |-> 0] /\ (phase' = "check" => why = "none")
  BY <1>2
<1>4. reply' \in GRReplies /\ reply'.kind = why
  BY <1>3 DEF GRReplies, GRKinds
<1>5. Moment' \in MomentType
  <2> DEFINE named == IF q.tool # "show" THEN Unstaged \cup Staged
                      ELSE IF Tip = 0 THEN {} ELSE Changed(history[Tip][1], history[Tip][2])
  <2>1. (Unstaged \cup Staged) \subseteq Paths
    BY ChangesAre
  <2>2. \A old, new : Changed(old, new) \subseteq Paths
    BY DEF Changed
  <2>3. named \in SUBSET Paths
    BY <2>1, <2>2
  <2>4. StatusLines(q.untracked) \in SUBSET (Paths \X {"tracked", "untracked"})
    BY LinesListed
  <2>5. Moment' = [health |-> health, lines |-> StatusLines(q.untracked), length |-> length,
                   named |-> named]
    BY <1>1 DEF Moment, StatusLines, Unstaged, Staged, KnownFiles, Tip
  <2>6. health \in {"repo", "none", "broken"} /\ length \in 1..3
    BY DEF GitStrong, GitInv, GRTypeOK
  <2> HIDE DEF named
  <2> QED BY <2>3, <2>4, <2>5, <2>6 DEF MomentType
<1>6. Showing' = Showing /\ Showing \subseteq Paths
  BY <1>1 DEF Showing, KnownFiles, NamedBy
<1>7. GRTypeOK'
  <2>1. moments' \subseteq MomentType
    BY <1>1, <1>5
  <2>2. inquiries' \in 0..MaxInquiries
    BY <1>1 DEF GitStrong, GitInv, GRTypeOK
  <2> QED BY <1>1, <1>4, <1>6, <2>1, <2>2 DEF GitStrong, GitInv, GRTypeOK, MomentType, GRReplies, GRKinds, AnyLine, TreePairs
<1>8. NeverMistaken' /\ NothingHidden' /\ NamesTrue' /\ BlameExact'
  BY <1>4 DEF NeverMistaken, NothingHidden, NamesTrue, BlameExact
<1>9. LogComplete'
  BY <1>1, <1>4 DEF GitStrong, GitInv, LogComplete
<1>10. MomentSeen' /\ SteadyLasts'
  BY <1>1, <1>6 DEF MomentSeen, SteadyLasts
<1>11. ReplyOfStep' /\ DiffLeft' /\ DiffsSeen'
  BY <1>1, <1>3 DEF ReplyOfStep, DiffLeft, DiffsSeen, NoReply
<1>12. PagesOrdered'
  BY <1>1 DEF GitStrong, PagesOrdered, Tip
<1> QED BY <1>7, <1>8, <1>9, <1>10, <1>11, <1>12 DEF GitStrong, GitInv

LEMMA CheckKeeps == ASSUME GitStrong, Check PROVE GitStrong'
<1>1. phase = "check" /\ UNCHANGED <<callvars, diffs>> /\ reply = NoReply
  BY DEF Check, GitStrong, ReplyOfStep
<1>2. CASE health = "repo"
  <2>1. phase' = "read" /\ reply' = reply
    BY <1>2 DEF Check
  <2>2. UNCHANGED <<moments, inquiry, steady>>
    BY <1>1 DEF callvars
  <2>3. reply'.kind = "none"
    BY <1>1, <2>1 DEF NoReply
  <2>4. NeverMistaken' /\ NothingHidden' /\ NamesTrue' /\ BlameExact'
    BY <2>3 DEF NeverMistaken, NothingHidden, NamesTrue, BlameExact
  <2>5. ReplyOfStep' /\ DiffLeft' /\ DiffsSeen'
    BY <1>1, <2>1 DEF ReplyOfStep, DiffLeft, DiffsSeen, NoReply
  <2>6. reply' \in GRReplies /\ diffs' \subseteq AnyLine
    BY <1>1, <2>1 DEF GitStrong, GitInv, GRTypeOK, GRReplies, GRKinds, AnyLine
  <2>7. UNCHANGED callvars
    BY <1>1
  <2> QED BY <1>1, <2>1, <2>3, <2>4, <2>5, <2>6, <2>7, CallGoesOn
<1>3. CASE health = "none"
  <2>1. Refusal("norepo")
    BY <1>3 DEF Check
  <2>2. Moment \in moments /\ Moment.health = "none"
    BY <1>1, <1>3 DEF GitStrong, MomentSeen, Moment
  <2> QED BY <1>1, <2>1, <2>2, Refused
<1>4. CASE health \notin {"repo", "none"}
  <2>1. Refusal("git")
    BY <1>4 DEF Check
  <2> QED BY <1>1, <2>1, Refused
<1> QED BY <1>2, <1>3, <1>4

LEMMA DeclineKeeps == ASSUME GitStrong, Decline \/ ReadFails PROVE GitStrong'
<1>1. CASE Decline
  <2>1. phase # "idle" /\ Refusal("argument") /\ UNCHANGED <<callvars, diffs>>
    BY <1>1 DEF Decline
  <2> QED BY <2>1, Refused
<1>2. CASE ReadFails
  <2>1. phase # "idle" /\ Refusal("git") /\ UNCHANGED <<callvars, diffs>>
    BY <1>2 DEF ReadFails, RunsGit
  <2> QED BY <2>1, Refused
<1> QED BY <1>1, <1>2

LEMMA InquiryTyped == GitStrong =>
  /\ inquiry.tool \in GitTools /\ inquiry.untracked \in BOOLEAN /\ inquiry.unstaged \in BOOLEAN
  /\ inquiry.staged \in BOOLEAN /\ inquiry.max \in Nat \ {0} /\ inquiry.from \in Nat \ {0} /\ inquiry.to \in Nat
BY GitAssumption DEF GitStrong, GitInv, GRTypeOK, InquiryType

\* How many of the lines of a status are shown tells whether that is all.
LEMMA SomeOfTheLines ==
  ASSUME NEW lines, IsFiniteSet(lines), NEW listed \in SUBSET lines, NEW most \in Nat \ {0},
         Cardinality(listed) = Lesser(most, Cardinality(lines))
  PROVE  /\ listed = {} <=> lines = {}
         /\ Lesser(most, Cardinality(lines)) >= most /\ 1 + Cardinality(lines) > most + 1 <=> listed # lines
<1>1. IsFiniteSet(listed) /\ Cardinality(listed) \in Nat /\ Cardinality(lines) \in Nat
  BY FS_Subset, FS_CardinalityType
<1>2. listed # lines => Cardinality(listed) < Cardinality(lines)
  <2>1. Cardinality(listed) <= Cardinality(lines) /\ (Cardinality(lines) = Cardinality(listed) => lines = listed)
    BY FS_Subset
  <2> QED BY <1>1, <2>1
<1>3. /\ listed = {} <=> Cardinality(listed) = 0
      /\ lines = {} <=> Cardinality(lines) = 0
  BY <1>1, FS_EmptySet
<1>4. Cardinality(listed) = 0 <=> Cardinality(lines) = 0
  BY <1>1 DEF Lesser
<1>5. (Lesser(most, Cardinality(lines)) >= most /\ 1 + Cardinality(lines) > most + 1) <=> listed # lines
  <2>1. listed = lines => Cardinality(lines) <= most
    BY <1>1 DEF Lesser
  <2>2. listed # lines => Cardinality(lines) > most
    BY <1>1, <1>2 DEF Lesser
  <2>3. (Lesser(most, Cardinality(lines)) >= most /\ 1 + Cardinality(lines) > most + 1)
        <=> Cardinality(lines) > most
    BY <1>1 DEF Lesser
  <2> QED BY <1>1, <2>1, <2>2, <2>3
<1> QED BY <1>3, <1>4, <1>5

LEMMA StatusKeeps == ASSUME GitStrong, ReadStatus PROVE GitStrong'
<1> DEFINE lines == StatusLines(inquiry.untracked)
           n == Lesser(inquiry.max, Cardinality(lines))
<1>1. /\ phase = "read" /\ inquiry.tool = "status" /\ phase' = "more" /\ UNCHANGED <<callvars, diffs>>
      /\ health = "repo"
  BY DEF ReadStatus, Reads, RunsGit
<1>2. PICK listed \in SUBSET lines : Cardinality(listed) = n /\
        reply' = [NoReply EXCEPT !.kind = "part", !.lines = listed, !.clean = listed = {},
                      !.cut = n >= inquiry.max /\ 1 + Cardinality(lines) > inquiry.max + 1]
  BY DEF ReadStatus
<1> DEFINE cut == n >= inquiry.max /\ 1 + Cardinality(lines) > inquiry.max + 1
<1>3. reply' = [kind |-> "part", clean |-> (listed = {}), lines |-> listed, names |-> {}, stub |-> FALSE,
                cut |-> cut, shown |-> 0]
  BY <1>2 DEF NoReply
<1>4. lines \subseteq Paths \X {"tracked", "untracked"}
  BY LinesListed
<1>5. IsFiniteSet(lines)
  <2>1. IsFiniteSet({"tracked", "untracked"})
    BY FS_AddElement, FS_EmptySet, FS_Singleton, FS_Union, IsFiniteSet({"tracked"}), IsFiniteSet({"untracked"}),
       {"tracked", "untracked"} = {"tracked"} \cup {"untracked"}
  <2>2. IsFiniteSet(Paths \X {"tracked", "untracked"})
    BY <2>1, FS_Product, GitAssumption
  <2> QED BY <1>4, <2>2, FS_Subset
<1>6. inquiry.max \in Nat \ {0}
  BY InquiryTyped
<1> HIDE DEF lines
<1>7. (listed = {} <=> lines = {}) /\ (cut <=> listed # lines)
  BY <1>2, <1>5, <1>6, SomeOfTheLines
<1> HIDE DEF n, cut
<1>8. cut \in BOOLEAN
  BY DEF cut
<1>9. reply' \in GRReplies
  <2>1. listed \in SUBSET (Paths \X {"tracked", "untracked"}) /\ (listed = {}) \in BOOLEAN
    BY <1>2, <1>4
  <2> QED BY <1>3, <1>8, <2>1 DEF GRReplies, GRKinds
<1>10. /\ reply'.kind = "part" /\ reply'.lines = listed /\ (reply'.clean <=> listed = {})
       /\ (reply'.cut <=> cut)
  BY <1>3, <1>8
<1>11. Moment \in moments /\ Moment.health = "repo" /\ Moment.lines = lines
  BY <1>1 DEF GitStrong, MomentSeen, Moment, lines
<1>12. moments' = moments /\ inquiry' = inquiry /\ UNCHANGED callvars /\ diffs' = diffs
  BY <1>1 DEF callvars
<1>13. NeverMistaken'
  <2>1. reply'.lines \subseteq Moment.lines /\ (reply'.clean <=> Moment.lines = {})
        /\ (reply'.cut <=> reply'.lines # Moment.lines)
    BY <1>2, <1>7, <1>10, <1>11
  <2> QED BY <1>10, <1>11, <1>12, <2>1 DEF NeverMistaken
<1>14. NothingHidden' /\ NamesTrue' /\ BlameExact'
  BY <1>10 DEF NothingHidden, NamesTrue, BlameExact
<1>15. ReplyOfStep' /\ DiffLeft' /\ DiffsSeen'
  BY <1>1, <1>10, <1>12 DEF ReplyOfStep, DiffLeft, DiffsSeen
<1>16. diffs' \subseteq AnyLine
  BY <1>12, DiffTyped
<1> QED BY <1>1, <1>9, <1>10, <1>12, <1>13, <1>14, <1>15, <1>16, CallGoesOn

LEMMA HeadKeeps == ASSUME GitStrong, ReadHead PROVE GitStrong'
<1> DEFINE tip == IF health = "repo" THEN Tip ELSE 0
<1>1. /\ phase = "more" /\ inquiry.tool = "status" /\ phase' = "idle" /\ UNCHANGED <<callvars, diffs>>
      /\ reply' = [reply EXCEPT !.kind = "status", !.shown = tip]
  BY DEF ReadHead, Say
<1>2. reply \in GRReplies /\ reply.kind = "part"
  BY <1>1 DEF GitStrong, GitInv, GRTypeOK, GRReplies, GRKinds, ReplyOfStep
<1>3. tip \in Nat
  BY DEF Tip, GitStrong, GitInv, GRTypeOK
<1> HIDE DEF tip
<1>4. reply' = [kind |-> "status", clean |-> reply.clean, lines |-> reply.lines, names |-> reply.names,
                stub |-> reply.stub, cut |-> reply.cut, shown |-> tip]
  BY <1>1, <1>2 DEF GRReplies
<1>5. reply' \in GRReplies
  BY <1>2, <1>3, <1>4 DEF GRReplies, GRKinds, GitTools
<1>6. reply'.kind = "status" /\ reply'.lines = reply.lines /\ reply'.clean = reply.clean /\ reply'.cut = reply.cut
  BY <1>4
<1>7. moments' = moments /\ UNCHANGED callvars /\ diffs' = diffs
  BY <1>1 DEF callvars
<1>8. NeverMistaken'
  BY <1>2, <1>6, <1>7 DEF GitStrong, GitInv, NeverMistaken
<1>9. NothingHidden' /\ NamesTrue' /\ BlameExact'
  BY <1>6 DEF NothingHidden, NamesTrue, BlameExact
<1>10. ReplyOfStep' /\ DiffLeft' /\ DiffsSeen'
  BY <1>1 DEF ReplyOfStep, DiffLeft, DiffsSeen
<1>11. diffs' \subseteq AnyLine
  BY <1>7, DiffTyped
<1> QED BY <1>1, <1>5, <1>6, <1>7, <1>8, <1>9, <1>10, <1>11, CallGoesOn

LEMMA FirstKeeps == ASSUME GitStrong, ReadFirst PROVE GitStrong'
<1>1. /\ phase = "read" /\ inquiry.tool = "diff" /\ phase' = "more" /\ UNCHANGED <<callvars, reply>>
      /\ diffs' = IF inquiry.unstaged THEN DiffLines(cached, KnownFiles, 0) ELSE {}
  BY DEF ReadFirst, Reads, Half
<1>2. reply = NoReply /\ reply'.kind = "none"
  BY <1>1 DEF GitStrong, ReplyOfStep, NoReply
<1>3. UNCHANGED <<head, cached, work, history, length, health, inquiry, moments, steady>>
  BY <1>1 DEF callvars, gitvars
<1>4. NeverMistaken' /\ NothingHidden' /\ NamesTrue' /\ BlameExact'
  BY <1>2 DEF NeverMistaken, NothingHidden, NamesTrue, BlameExact
<1>5. ReplyOfStep'
  BY <1>1, <1>2, <1>3 DEF ReplyOfStep
<1>6. \A l \in diffs' : l \in AnyLine /\ LineOf(l, Unstaged)
  BY <1>1, LinesAre, 0 \in 0..1 DEF Unstaged
<1>7. DiffsSeen'
  <2>1. Moment \in moments /\ Moment.named = Unstaged \cup Staged
    BY <1>1 DEF GitStrong, MomentSeen, Moment
  <2>2. \A l \in diffs' : LineOf(l, Moment.named)
    BY <1>6, <2>1 DEF LineOf
  <2> QED BY <1>3, <2>1, <2>2 DEF DiffsSeen
<1>8. DiffLeft'
  <2> SUFFICES ASSUME inquiry.unstaged, NEW p \in steady
               PROVE  p \in NamesIn(diffs') \/ p \notin NamedBy(cached, KnownFiles)
    BY <1>3 DEF DiffLeft, KnownFiles, NamesIn
  <2>1. diffs' = DiffLines(cached, KnownFiles, 0)
    BY <1>1
  <2>2. NamedBy(cached, KnownFiles) \subseteq NamesIn(DiffLines(cached, KnownFiles, 0))
    BY LinesAre, 0 \in 0..1
  <2> QED BY <2>1, <2>2
<1>9. reply' \in GRReplies /\ diffs' \subseteq AnyLine /\ UNCHANGED callvars
  BY <1>1, <1>6 DEF GitStrong, GitInv, GRTypeOK, GRReplies, GRKinds, AnyLine
<1> QED BY <1>1, <1>2, <1>4, <1>5, <1>7, <1>8, <1>9, CallGoesOn

\* A line has fewer lines before it than there are.
LEMMA FewerBefore ==
  ASSUME NEW lines \in SUBSET AnyLine, NEW l \in lines
  PROVE  IsFiniteSet(lines) /\ Preceding(l, lines) < Cardinality(lines)
         /\ Preceding(l, lines) \in Nat /\ Cardinality(lines) \in Nat
<1>1. IsFiniteSet(lines)
  <2>1. IsFiniteSet(0..1) /\ IsFiniteSet(1..3) /\ IsFiniteSet(Paths)
    <3>1. IsFiniteSet(0..1)
      BY FS_Interval, 0 \in Int, 1 \in Int
    <3>2. IsFiniteSet(1..3)
      BY FS_Interval, 1 \in Int, 3 \in Int
    <3> QED BY <3>1, <3>2, GitAssumption
  <2> DEFINE Pairs == (Paths \X (1..3)) \X ((0..1) \X SUBSET Names)
  <2>2. IsFiniteSet(Pairs)
    <3>1. IsFiniteSet(SUBSET Names)
      BY GitAssumption, FS_SUBSET
    <3>2. IsFiniteSet(Paths \X (1..3)) /\ IsFiniteSet((0..1) \X SUBSET Names)
      BY <2>1, <3>1, FS_Product
    <3> QED BY <3>2, FS_Product
  <2>3. \A m \in lines : <<<<m[2], m[3]>>, <<m[1], m[4]>>>> \in Pairs
    BY DEF AnyLine
  <2> DEFINE f == [m \in lines |-> <<<<m[2], m[3]>>, <<m[1], m[4]>>>>]
  <2>4. f \in Injection(lines, Pairs)
    <3>1. \A m \in lines : m = <<m[1], m[2], m[3], m[4]>>
      BY DEF AnyLine
    <3> HIDE DEF Pairs
    <3> QED BY <2>3, <3>1 DEF Injection, IsInjective
  <2> QED BY <2>2, <2>4, FS_Injection
<1> DEFINE before == {m \in lines : Follows(l, m)}
<1>2. l \notin before
  <2>1. l[1] \in Nat /\ l[2] \in Nat /\ l[3] \in Nat
    <3>1. l \in AnyLine
      OBVIOUS
    <3>2. l[1] \in 0..1 /\ l[2] \in Paths /\ l[3] \in 1..3
      BY <3>1 DEF AnyLine
    <3>3. Paths \subseteq Nat
      BY GitAssumption
    <3>4. \A i \in 0..1 : i \in Nat
      OBVIOUS
    <3>5. \A i \in 1..3 : i \in Nat
      OBVIOUS
    <3>6. l[1] \in Nat
      BY <3>2, <3>4, Zenon
    <3>7. l[2] \in Nat
      BY <3>2, <3>3, Zenon
    <3>8. l[3] \in Nat
      BY <3>2, <3>5, Zenon
    <3> QED BY <3>6, <3>7, <3>8
  <2> QED BY <2>1 DEF Follows
<1>3. before \in SUBSET (lines \ {l})
  BY <1>2
<1>4. Cardinality(lines \ {l}) = Cardinality(lines) - 1 /\ IsFiniteSet(lines \ {l})
  BY <1>1, FS_RemoveElement
<1> HIDE DEF before
<1>5. Cardinality(before) <= Cardinality(lines \ {l}) /\ IsFiniteSet(before)
  BY <1>3, <1>4, FS_Subset
<1>6. Cardinality(before) \in Nat /\ Cardinality(lines) \in Nat /\ Cardinality(lines \ {l}) \in Nat
  BY <1>1, <1>4, <1>5, FS_CardinalityType
<1>7. Cardinality(before) < Cardinality(lines)
  BY <1>4, <1>5, <1>6
<1> QED BY <1>1, <1>6, <1>7 DEF Preceding, before

\* What the caller is given of the lines of a diff.
LEMMA Delivered ==
  ASSUME GitStrong, NEW lines \in SUBSET AnyLine, Deliver(lines), UNCHANGED moments,
         inquiry.tool \in {"diff", "show"},
         \A l \in lines : \E m \in moments : LineOf(l, m.named)
  PROVE  /\ phase' = "idle" /\ reply' \in GRReplies /\ reply'.kind = inquiry.tool
         /\ NamesTrue'
         /\ ~reply'.cut => NamesIn(lines) \subseteq reply'.names
<1> USE GitAssumption
<1> DEFINE kept == {l \in lines : Preceding(l, lines) < inquiry.max}
           broken == {l \in lines : Preceding(l, lines) = inquiry.max}
           over == Cardinality(lines) > inquiry.max
<1>1. PICK whole \in SUBSET broken, stub \in BOOLEAN :
        /\ stub => broken # {} /\ whole = {}
        /\ Say([NoReply EXCEPT !.kind = inquiry.tool, !.names = NamesIn(kept \cup whole), !.stub = stub,
                              !.cut = over])
  BY DEF Deliver
<1> DEFINE names == NamesIn(kept \cup whole)
<1>2. phase' = "idle"
      /\ reply' = [kind |-> inquiry.tool, clean |-> FALSE, lines |-> {}, names |-> names, stub |-> stub,
                   cut |-> over, shown |-> 0]
  BY <1>1 DEF Say, NoReply
<1>3. kept \cup whole \subseteq lines
  BY <1>1
<1>4. ASSUME NEW S \in SUBSET lines, NEW n \in NamesIn(S)
      PROVE  n \in Names /\ \E l \in S : n \in l[4]
  <2>1. \A l \in S : l[4] \subseteq Names
    BY DEF AnyLine
  <2>2. \E l \in S : n \in l[4]
    BY DEF NamesIn
  <2> QED BY <2>1, <2>2
<1>5. inquiry.max \in Nat
  BY InquiryTyped
<1>6. over \in BOOLEAN
  OBVIOUS
<1>7. ~over => kept = lines
  <2> SUFFICES ASSUME ~over, NEW l \in lines PROVE l \in kept
    OBVIOUS
  <2> QED BY <1>5, FewerBefore
<1>8. stub => over
  <2> SUFFICES ASSUME stub PROVE over
    OBVIOUS
  <2>1. PICK l \in lines : Preceding(l, lines) = inquiry.max
    BY <1>1
  <2> QED BY <1>5, <2>1, FewerBefore
<1>9. ~over => NamesIn(lines) \subseteq names
  BY <1>3, <1>7 DEF NamesIn
<1>10. \A n \in names : n \in Names /\ \E l \in lines : n \in l[4]
  BY <1>3, <1>4
<1> HIDE DEF names, kept, broken, over
<1>11. reply' \in GRReplies
  BY <1>1, <1>2, <1>6, <1>10 DEF GRReplies, GRKinds, GitTools
<1>12. reply'.kind = inquiry.tool /\ reply'.names = names /\ reply'.stub = stub /\ reply'.cut = over
  BY <1>2
<1>13. NamesTrue'
  <2>1. ASSUME NEW n \in names
        PROVE  \E m \in moments : \E p \in m.named : n \in {ReadAs[p], LooksLike[p]}
    <3>1. PICK l \in lines : n \in l[4]
      BY <1>10
    <3>2. PICK m \in moments : LineOf(l, m.named)
      OBVIOUS
    <3> QED BY <3>1, <3>2 DEF LineOf
  <2> QED BY <1>8, <1>12, <2>1 DEF NamesTrue
<1> QED BY <1>2, <1>9, <1>11, <1>12, <1>13

LEMMA SecondKeeps == ASSUME GitStrong, ReadSecond PROVE GitStrong'
<1> DEFINE second == IF inquiry.staged THEN DiffLines(head, cached, 1) ELSE {}
           lines == diffs \cup second
<1>1. /\ phase = "more" /\ inquiry.tool = "diff" /\ UNCHANGED <<callvars, diffs>> /\ Deliver(lines)
  BY DEF ReadSecond, Reads, Half
<1>2. UNCHANGED <<inquiry, moments, steady>> /\ UNCHANGED callvars
  BY <1>1 DEF callvars
<1>3. \A l \in second : l \in AnyLine /\ LineOf(l, Staged)
  BY LinesAre, 1 \in 0..1 DEF Staged
<1>4. lines \in SUBSET AnyLine
  BY <1>3, DiffTyped
<1>5. \A l \in lines : \E m \in moments : LineOf(l, m.named)
  <2>1. Moment \in moments /\ Moment.named = Unstaged \cup Staged
    BY <1>1 DEF GitStrong, MomentSeen, Moment
  <2>2. \A l \in diffs : \E m \in moments : LineOf(l, m.named)
    BY <1>1 DEF GitStrong, DiffsSeen
  <2>3. \A l \in second : LineOf(l, Moment.named)
    BY <1>3, <2>1 DEF LineOf
  <2> HIDE DEF second
  <2> QED BY <2>1, <2>2, <2>3
<1>6. inquiry.staged /\ inquiry.unstaged => \A p \in steady : p \in NamesIn(lines)
  <2> SUFFICES ASSUME inquiry.staged, inquiry.unstaged, NEW p \in steady PROVE p \in NamesIn(lines)
    OBVIOUS
  <2>1. p \in NamesIn(diffs) \/ p \notin NamedBy(cached, KnownFiles)
    BY <1>1 DEF GitStrong, DiffLeft
  <2>2. p \in NamedBy(cached, KnownFiles) \/ p \in NamedBy(head, cached)
    BY <1>1 DEF GitStrong, SteadyLasts, Showing
  <2>3. NamedBy(head, cached) \subseteq NamesIn(DiffLines(head, cached, 1))
    BY LinesAre, 1 \in 0..1
  <2>4. second = DiffLines(head, cached, 1)
    OBVIOUS
  <2> HIDE DEF second
  <2>5. NamesIn(lines) = NamesIn(diffs) \cup NamesIn(second)
    BY DEF NamesIn
  <2> QED BY <2>1, <2>2, <2>3, <2>4, <2>5
<1> HIDE DEF second, lines
<1>7. /\ phase' = "idle" /\ reply' \in GRReplies /\ reply'.kind = "diff"
      /\ NamesTrue'
      /\ ~reply'.cut => NamesIn(lines) \subseteq reply'.names
  BY <1>1, <1>2, <1>4, <1>5, Delivered
<1>8. NothingHidden'
  BY <1>2, <1>6, <1>7 DEF NothingHidden
<1>9. NeverMistaken' /\ BlameExact'
  BY <1>7 DEF NeverMistaken, BlameExact
<1>10. ReplyOfStep' /\ DiffLeft' /\ DiffsSeen'
  BY <1>7 DEF ReplyOfStep, DiffLeft, DiffsSeen
<1>11. diffs' \subseteq AnyLine
  BY <1>1, DiffTyped
<1> QED BY <1>1, <1>2, <1>7, <1>8, <1>9, <1>10, <1>11, CallGoesOn

LEMMA ShowKeeps == ASSUME GitStrong, ReadShow PROVE GitStrong'
<1>1. /\ phase = "read" /\ inquiry.tool = "show" /\ UNCHANGED <<callvars, diffs>>
  BY DEF ReadShow, Reads
<1>2. CASE inquiry.ref = "unknown" \/ Tip = 0
  <2>1. Refusal("git")
    BY <1>2 DEF ReadShow
  <2> QED BY <1>1, <2>1, Refused
<1>3. CASE ~(inquiry.ref = "unknown" \/ Tip = 0)
  <2> DEFINE old == history[Tip][1]
             new == history[Tip][2]
             lines == IF inquiry.unstaged THEN DiffLines(old, new, 0) ELSE {}
  <2>1. Deliver(lines)
    BY <1>3 DEF ReadShow
  <2>2. UNCHANGED <<inquiry, moments, steady>> /\ UNCHANGED callvars
    BY <1>1 DEF callvars
  <2>4. \A l \in lines : l \in AnyLine /\ LineOf(l, Changed(old, new))
    BY LinesAre, 0 \in 0..1
  <2>5. lines \in SUBSET AnyLine
    BY <2>4
  <2>6. Moment \in moments /\ Moment.named = Changed(old, new)
    BY <1>1, <1>3 DEF GitStrong, MomentSeen, Moment
  <2>7. \A l \in lines : \E m \in moments : LineOf(l, m.named)
    BY <2>4, <2>6
  <2> HIDE DEF lines
  <2>8. phase' = "idle" /\ reply' \in GRReplies /\ reply'.kind = "show" /\ NamesTrue'
    BY <1>1, <2>1, <2>2, <2>5, <2>7, Delivered
  <2>9. NothingHidden' /\ NeverMistaken' /\ BlameExact'
    BY <2>8 DEF NothingHidden, NeverMistaken, BlameExact
  <2>10. ReplyOfStep' /\ DiffLeft' /\ DiffsSeen'
    BY <2>8 DEF ReplyOfStep, DiffLeft, DiffsSeen
  <2>11. diffs' \subseteq AnyLine
    BY <1>1, DiffTyped
  <2> QED BY <1>1, <2>2, <2>8, <2>9, <2>10, <2>11, CallGoesOn
<1> QED BY <1>2, <1>3

LEMMA BlameKeeps == ASSUME GitStrong, ReadBlame PROVE GitStrong'
<1> DEFINE most == inquiry.from + inquiry.max - 1
           end == IF inquiry.to = 0 THEN most ELSE inquiry.to
           upto == Lesser(end, most)
<1>1. /\ phase = "read" /\ inquiry.tool = "blame" /\ UNCHANGED <<callvars, diffs>>
      /\ inquiry.to # 0 => inquiry.to >= inquiry.from
  <2>1. inquiry.to \in Nat /\ inquiry.from \in Nat
    BY InquiryTyped
  <2> QED BY <2>1 DEF ReadBlame, Reads, Declined
<1>2. CASE inquiry.ref = "unknown" \/ inquiry.from > length
  <2>1. Refusal("git")
    BY <1>2 DEF ReadBlame
  <2> QED BY <1>1, <2>1, Refused
<1>3. CASE ~(inquiry.ref = "unknown" \/ inquiry.from > length)
  <2> DEFINE cut == end - inquiry.from + 1 > inquiry.max
             shown == Lesser(upto, length)
  <2>1. Say([NoReply EXCEPT !.kind = "blame", !.shown = shown, !.cut = cut])
    BY <1>3 DEF ReadBlame
  <2>2. UNCHANGED <<inquiry, moments, steady>> /\ UNCHANGED callvars
    BY <1>1 DEF callvars
  <2>3. inquiry.from \in Nat \ {0} /\ inquiry.max \in Nat \ {0} /\ inquiry.to \in Nat /\ length \in 1..3
    BY InquiryTyped DEF GitStrong, GitInv, GRTypeOK
  <2> DEFINE wanted == IF inquiry.to = 0 THEN length ELSE Lesser(inquiry.to, length)
  <2>4. /\ shown \in Nat /\ cut \in BOOLEAN
        /\ inquiry.from <= shown
        /\ shown = Lesser(wanted, inquiry.from + inquiry.max - 1)
        /\ inquiry.to # 0 /\ ~cut => shown = wanted
    BY <1>1, <1>3, <2>3 DEF Lesser
  <2> HIDE DEF shown, cut, wanted
  <2>5. phase' = "idle" /\ reply' = [kind |-> "blame", clean |-> FALSE, lines |-> {}, names |-> {},
                                     stub |-> FALSE, cut |-> cut, shown |-> shown]
    BY <2>1 DEF Say, NoReply
  <2>6. reply' \in GRReplies
    BY <2>4, <2>5 DEF GRReplies, GRKinds, GitTools
  <2>7. reply'.kind = "blame" /\ reply'.shown = shown /\ reply'.cut = cut
    BY <2>5
  <2>8. Moment \in moments /\ Moment.length = length
    BY <1>1 DEF GitStrong, MomentSeen, Moment
  <2>9. BlameExact'
    BY <2>2, <2>4, <2>7, <2>8 DEF BlameExact, wanted
  <2>10. NothingHidden' /\ NeverMistaken' /\ NamesTrue'
    BY <2>7 DEF NothingHidden, NeverMistaken, NamesTrue
  <2>11. ReplyOfStep' /\ DiffLeft' /\ DiffsSeen'
    BY <2>5 DEF ReplyOfStep, DiffLeft, DiffsSeen
  <2>12. diffs' \subseteq AnyLine
    BY <1>1, DiffTyped
  <2> QED BY <1>1, <2>2, <2>5, <2>6, <2>7, <2>9, <2>10, <2>11, <2>12, CallGoesOn
<1> QED BY <1>2, <1>3

LEMMA LogKeeps == ASSUME GitStrong, ReadLog PROVE GitStrong'
<1> DEFINE n == inquiry.max
           skip == Lesser(pages.skip, SkipCap)
           listed == {c \in 1..Tip : c <= Tip - skip /\ c > Tip - skip - n}
           ahead == {c \in 1..Tip : c <= Tip - skip /\ c > Tip - skip - (n + 1)}
           cut == Cardinality(ahead) > n
           first == IF pages.skip = 0 THEN Tip ELSE pages.first
           sofar == listed \cup IF pages.skip = 0 THEN {} ELSE pages.listed
<1>1. /\ phase = "read" /\ inquiry.tool = "log"
      /\ UNCHANGED <<head, cached, work, history, length, health, inquiry, works, inquiries, moments, steady,
                     diffs>>
  BY DEF ReadLog, Reads, gitvars
<1>2. CASE inquiry.ref = "unknown" \/ Tip = 0
  <2>1. Refusal("git") /\ pages' = pages
    BY <1>2 DEF ReadLog
  <2>2. UNCHANGED <<callvars, diffs>>
    BY <1>1, <2>1 DEF callvars, gitvars
  <2> QED BY <1>1, <2>1, <2>2, Refused
<1>3. CASE ~(inquiry.ref = "unknown" \/ Tip = 0)
  <2>1. /\ pages' = [skip |-> IF cut THEN pages.skip + n ELSE 0, first |-> first, last |-> Tip,
                     listed |-> sofar]
        /\ Say([NoReply EXCEPT !.kind = "log", !.cut = cut])
    BY <1>3 DEF ReadLog
  <2>2. n \in Nat \ {0} /\ Tip \in Nat /\ pages.skip \in Nat /\ pages.first \in Nat /\ pages.last \in Nat
        /\ pages.listed \subseteq Nat /\ SkipCap \in Nat
    BY InquiryTyped, GitAssumption DEF GitStrong, GitInv, GRTypeOK, Tip
  <2>3. skip = pages.skip
    BY <1>1, <2>2 DEF GitStrong, PagesOrdered, Lesser
  <2>4. ~cut => Tip - pages.skip <= n
    <3> SUFFICES ASSUME Tip - pages.skip > n PROVE cut
      BY <2>2
    <3>1. ahead = (Tip - pages.skip - n)..(Tip - pages.skip)
      BY <2>2, <2>3
    <3>2. Cardinality(ahead) = n + 1
      <4> DEFINE a == Tip - pages.skip - n
                 b == Tip - pages.skip
      <4>1. a \in Int /\ b \in Int /\ a <= b /\ b - a + 1 = n + 1
        BY <2>2
      <4>2. ahead = a..b
        BY <3>1
      <4> HIDE DEF a, b, ahead
      <4>3. Cardinality(a..b) = b - a + 1
        BY <4>1, FS_Interval
      <4> QED BY <4>1, <4>2, <4>3
    <3> QED BY <2>2, <3>2
  <2>5. pages.skip > 0 => \A c \in 1..pages.first : c > pages.last - pages.skip => c \in pages.listed
    BY DEF GitStrong, GitInv, LogComplete
  <2>6. pages.skip > 0 => pages.first <= pages.last /\ pages.last <= Tip
    BY DEF GitStrong, PagesOrdered
  <2>7. \A c \in 1..first : c > Tip - (pages.skip + n) => c \in sofar
    <3> SUFFICES ASSUME NEW c \in 1..first, c > Tip - (pages.skip + n) PROVE c \in sofar
      OBVIOUS
    <3>1. CASE pages.skip = 0
      BY <2>2, <2>3, <3>1
    <3>2. CASE pages.skip > 0 /\ c <= Tip - pages.skip
      BY <2>2, <2>3, <2>6, <3>2
    <3>3. CASE pages.skip > 0 /\ c > Tip - pages.skip
      BY <2>2, <2>5, <2>6, <3>3
    <3> QED BY <2>2, <3>1, <3>2, <3>3
  <2>8. sofar \subseteq Nat /\ first \in Nat /\ cut \in BOOLEAN /\ first <= Tip
    BY <2>2, <2>6
  <2> HIDE DEF sofar, first, cut, skip, listed, ahead
  <2>9. phase' = "idle" /\ reply' = [kind |-> "log", clean |-> FALSE, lines |-> {}, names |-> {},
                                     stub |-> FALSE, cut |-> cut, shown |-> 0]
    BY <2>1 DEF Say, NoReply
  <2>10. reply' \in GRReplies
    BY <2>8, <2>9 DEF GRReplies, GRKinds, GitTools
  <2>11. reply'.kind = "log" /\ reply'.cut = cut
    BY <2>9
  <2>12. /\ pages'.skip = (IF cut THEN pages.skip + n ELSE 0) /\ pages'.first = first /\ pages'.last = Tip
         /\ pages'.listed = sofar
    BY <2>1
  <2>13. pages' \in [skip : Nat, first : Nat, last : Nat, listed : SUBSET Nat]
    BY <2>1, <2>2, <2>8
  <2>14. GRTypeOK'
    BY <1>1, <2>9, <2>10, <2>13 DEF GitStrong, GitInv, GRTypeOK, GRReplies, GRKinds
  <2>15. LogComplete'
    <3>1. ASSUME pages'.skip > 0, NEW c \in 1..pages'.first, c > pages'.last - pages'.skip
          PROVE  c \in pages'.listed
      BY <2>2, <2>7, <2>12, <3>1
    <3>2. ASSUME ~cut, NEW c \in 1..first PROVE c \in sofar
      <4>1. c > Tip - (pages.skip + n)
        BY <2>2, <2>4, <2>8, <3>2
      <4> QED BY <2>7, <4>1
    <3> QED BY <2>11, <2>12, <3>1, <3>2 DEF LogComplete
  <2>16. NeverMistaken' /\ NothingHidden' /\ NamesTrue' /\ BlameExact'
    BY <2>11 DEF NothingHidden, NeverMistaken, NamesTrue, BlameExact
  <2>17. MomentSeen' /\ SteadyLasts' /\ ReplyOfStep' /\ DiffLeft' /\ DiffsSeen'
    BY <2>9 DEF MomentSeen, SteadyLasts, ReplyOfStep, DiffLeft, DiffsSeen
  <2>18. PagesOrdered'
    <3>1. Tip' = Tip
      BY <1>1 DEF Tip
    <3> QED BY <2>2, <2>8, <2>9, <2>12, <3>1 DEF PagesOrdered
  <2> QED BY <2>14, <2>15, <2>16, <2>17, <2>18 DEF GitStrong, GitInv
<1> QED BY <1>2, <1>3

LEMMA GitStutters == ASSUME GitStrong, UNCHANGED grvars PROVE GitStrong'
<1>1. UNCHANGED <<head, cached, work, history, length, health, inquiry, phase, diffs, reply, pages, works,
                  inquiries, moments, steady>>
  BY DEF grvars, gitvars
<1>2. Moment' = Moment /\ Showing' = Showing /\ Tip' = Tip
  BY <1>1 DEF Moment, StatusLines, Unstaged, Staged, Tip, KnownFiles, Showing
<1>3. GRTypeOK'
  BY <1>1 DEF GitStrong, GitInv, GRTypeOK
<1>4. NeverMistaken' /\ NothingHidden' /\ NamesTrue'
  BY <1>1 DEF GitStrong, GitInv, NeverMistaken, NothingHidden, NamesTrue
<1>5. LogComplete' /\ BlameExact'
  BY <1>1 DEF GitStrong, GitInv, LogComplete, BlameExact
<1>6. MomentSeen' /\ SteadyLasts' /\ ReplyOfStep' /\ PagesOrdered'
  BY <1>1, <1>2 DEF GitStrong, MomentSeen, SteadyLasts, ReplyOfStep, PagesOrdered
<1>7. DiffLeft' /\ DiffsSeen'
  BY <1>1 DEF GitStrong, DiffLeft, DiffsSeen, NamesIn, NamedBy, KnownFiles
<1> QED BY <1>3, <1>4, <1>5, <1>6, <1>7 DEF GitStrong, GitInv

\* git.rs: an answer about a repository that others change while it is put together:
\* nothing is called clean, missing or complete that was not so while the call ran; a
\* diff of both kinds that is not cut hides no path that one of its halves would have
\* named all the while; the pages of a log list the history.
THEOREM GitSafe == GRSpec => []GitInv
<1>1. GRInit => GitStrong
  BY GRBegins
<1>2. GitStrong /\ [GRNext]_grvars => GitStrong'
  <2> SUFFICES ASSUME GitStrong, [GRNext]_grvars PROVE GitStrong'
    OBVIOUS
  <2>1. CASE UNCHANGED grvars
    BY <2>1, GitStutters
  <2>2. CASE GRNext
    BY <2>2, RepositoryMoves, InquireKeeps, CheckKeeps, DeclineKeeps, StatusKeeps, HeadKeeps, FirstKeeps,
       SecondKeeps, LogKeeps, ShowKeeps, BlameKeeps DEF GRNext
  <2> QED BY <2>1, <2>2
<1>3. GitStrong => GitInv
  BY DEF GitStrong
<1> QED BY <1>1, <1>2, <1>3, PTL DEF GRSpec


-----------------------------------------------------------------------------
(* Workbench.  The order of the rows, of which a page shows the first; and *)
(* the tasks that the pages have still to show.                            *)

Before(k, keys) == {m \in keys : Ahead(m, k)}
\* A page gathered as many rows as it shows that come before k, and knows that there are more.
Behind(k) == further /\ Cardinality(Before(k, gathered)) >= listing.limit

ListedBefore == ~complete => \A k \in listedKeys : ~Past(k)
GatheredPast ==
  /\ IsFiniteSet(gathered) /\ (further => gathered # {})
  /\ nextDesk # 0 => ~complete /\ \A k \in gathered : Past(k)
DesksLooked == nextDesk # 0 => \A v \in 1..(nextDesk - 1) : PlaceOf[v] \in looked \cup missed
OwnDesk ==
  \A k \in listedKeys \cup gathered : PlaceOf[k.of] \notin missed => k.of = ShownBy(PlaceOf[k.of])
\* A task was shown, or it is to come: past the cursor, and not lost by a page
\* that has looked for it.
Accounted(u) ==
  LET k == KeyOf(ShownBy(u[1]), u[2])
  IN \/ k \in listedKeys
     \/ /\ ~complete /\ Past(k)
        /\ nextDesk # 0 /\ u[1] \in looked => k \in gathered \/ Behind(k)
AllAccounted ==
  \A u \in untouched : Fits(u[1], u[2]) /\ (u[1] \in AlwaysRead => Accounted(u))

WorkbenchStrong ==
  /\ WorkbenchInv
  /\ ListedBefore /\ GatheredPast /\ DesksLooked /\ OwnDesk /\ AllAccounted

LEMMA KeysInOrder ==
  ASSUME NEW k \in RowKeys, NEW m \in RowKeys, NEW n \in RowKeys
  PROVE  /\ ~Ahead(k, k)
         /\ Ahead(k, m) => ~Ahead(m, k)
         /\ Ahead(k, m) /\ Ahead(m, n) => Ahead(k, n)
         /\ k # m => Ahead(k, m) \/ Ahead(m, k)
<1> USE WorkbenchAssumption
<1>0. \A x \in RowKeys : x = [updated |-> x.updated, id |-> x.id, of |-> x.of]
  BY DEF RowKeys
<1>1. /\ k.updated \in Nat /\ m.updated \in Nat /\ n.updated \in Nat
      /\ k.id \in TaskNumbers /\ m.id \in TaskNumbers /\ n.id \in TaskNumbers
      /\ k.of \in 1..Desks /\ m.of \in 1..Desks /\ n.of \in 1..Desks
  BY DEF RowKeys
<1>2. k.id \in Nat /\ m.id \in Nat /\ n.id \in Nat
  BY <1>1
<1>3. k.of \in Nat /\ m.of \in Nat /\ n.of \in Nat
  BY <1>1
<1>4. ~Ahead(k, k)
  BY <1>1, <1>2, <1>3 DEF Ahead
<1>5. Ahead(k, m) => ~Ahead(m, k)
  BY <1>1, <1>2, <1>3 DEF Ahead
<1>6. Ahead(k, m) /\ Ahead(m, n) => Ahead(k, n)
  BY <1>1, <1>2, <1>3 DEF Ahead
<1>7. k # m => Ahead(k, m) \/ Ahead(m, k)
  <2>1. k # m => k.updated # m.updated \/ k.id # m.id \/ k.of # m.of
    BY <1>0
  <2> QED BY <1>1, <1>2, <1>3, <2>1 DEF Ahead
<1> QED BY <1>4, <1>5, <1>6, <1>7

\* The further a row is behind, the more rows are before it.
LEMMA MoreBefore ==
  ASSUME NEW keys \in SUBSET RowKeys, IsFiniteSet(keys), NEW k \in RowKeys
  PROVE  /\ IsFiniteSet(Before(k, keys)) /\ Cardinality(Before(k, keys)) \in Nat
         /\ Cardinality(Before(k, keys)) <= Cardinality(keys)
         /\ k \in keys => Cardinality(Before(k, keys)) < Cardinality(keys)
         /\ \A m \in keys : Ahead(m, k) => Cardinality(Before(m, keys)) < Cardinality(Before(k, keys))
<1>1. Before(k, keys) \in SUBSET keys
  BY DEF Before
<1>2. IsFiniteSet(Before(k, keys)) /\ Cardinality(Before(k, keys)) <= Cardinality(keys)
  BY <1>1, FS_Subset
<1>3. Cardinality(Before(k, keys)) \in Nat /\ Cardinality(keys) \in Nat
  BY <1>2, FS_CardinalityType
<1>4. k \in keys => Cardinality(Before(k, keys)) < Cardinality(keys)
  <2> SUFFICES ASSUME k \in keys PROVE Cardinality(Before(k, keys)) < Cardinality(keys)
    OBVIOUS
  <2>1. Before(k, keys) # keys
    BY KeysInOrder DEF Before
  <2>2. Cardinality(Before(k, keys)) # Cardinality(keys)
    BY <1>1, <2>1, FS_Subset
  <2> QED BY <1>2, <1>3, <2>2
<1>5. ASSUME NEW m \in keys, Ahead(m, k)
      PROVE  Cardinality(Before(m, keys)) < Cardinality(Before(k, keys))
  <2>1. Before(m, keys) \in SUBSET Before(k, keys)
    <3> SUFFICES ASSUME NEW n \in Before(m, keys) PROVE n \in Before(k, keys)
      OBVIOUS
    <3>1. n \in keys /\ Ahead(n, m)
      BY DEF Before
    <3> QED BY <1>5, <3>1, KeysInOrder DEF Before
  <2>2. m \in Before(k, keys) /\ m \notin Before(m, keys)
    BY <1>5, KeysInOrder DEF Before
  <2>3. Before(m, keys) # Before(k, keys)
    BY <2>2
  <2>4. /\ Cardinality(Before(m, keys)) <= Cardinality(Before(k, keys))
        /\ Cardinality(Before(k, keys)) = Cardinality(Before(m, keys)) => Before(k, keys) = Before(m, keys)
        /\ IsFiniteSet(Before(m, keys))
    BY <1>2, <2>1, FS_Subset
  <2>5. Cardinality(Before(m, keys)) \in Nat
    BY <2>4, FS_CardinalityType
  <2> QED BY <1>3, <2>3, <2>4, <2>5
<1> QED BY <1>2, <1>3, <1>4, <1>5

LEMMA TopIs == ASSUME NEW keys PROVE Top(keys) = {k \in keys : Cardinality(Before(k, keys)) < listing.limit}
BY DEF Top, Before

\* When there is a row that is not among the first, those are as many as asked for.
LEMMA TopFull ==
  ASSUME NEW keys \in SUBSET RowKeys, IsFiniteSet(keys), listing.limit \in Nat \ {0},
         NEW x \in keys, x \notin Top(keys)
  PROVE  /\ IsFiniteSet(Top(keys)) /\ Cardinality(Top(keys)) \in Nat
         /\ Cardinality(Top(keys)) >= listing.limit
<1> DEFINE limit == listing.limit
           R(k) == Cardinality(Before(k, keys))
           Rest == keys \ Top(keys)
<1>1. Top(keys) \in SUBSET keys
  BY DEF Top
<1>2. IsFiniteSet(Top(keys)) /\ Cardinality(Top(keys)) \in Nat
  BY <1>1, FS_Subset, FS_CardinalityType
<1>3. \A k \in keys : R(k) \in Nat
  BY MoreBefore
<1> DEFINE Ranks == {R(k) : k \in Rest}
<1>4. PICK r \in Ranks : \A s \in Ranks : r <= s
  <2>1. Ranks \subseteq Nat
    BY <1>3
  <2>2. Ranks # {}
    OBVIOUS
  <2> HIDE DEF Ranks
  <2> QED BY <2>1, <2>2, FirstPlace
<1>5. PICK first \in Rest : R(first) = r
  OBVIOUS
<1>6. Before(first, keys) \in SUBSET Top(keys)
  <2> SUFFICES ASSUME NEW m \in Before(first, keys), m \notin Top(keys) PROVE FALSE
    OBVIOUS
  <2>1. m \in keys /\ Ahead(m, first) /\ first \in keys
    BY <1>5 DEF Before
  <2>2. R(m) < R(first)
    BY <2>1, MoreBefore
  <2>3. R(m) \in Ranks
    BY <2>1
  <2>4. r <= R(m)
    BY <1>4, <2>3
  <2> QED BY <1>3, <1>5, <2>1, <2>2, <2>4
<1>7. R(first) <= Cardinality(Top(keys))
  BY <1>2, <1>6, FS_Subset
<1>8. ~(R(first) < limit)
  BY <1>5, TopIs
<1>9. R(first) \in Nat
  BY <1>3, <1>5
<1> QED BY <1>2, <1>7, <1>8, <1>9

\* What is among the first comes before what so many come before.
LEMMA TopAhead ==
  ASSUME NEW keys \in SUBSET RowKeys, IsFiniteSet(keys), listing.limit \in Nat \ {0},
         NEW k \in RowKeys, Cardinality(Before(k, keys)) >= listing.limit, NEW m \in Top(keys)
  PROVE  Ahead(m, k)
<1>1. m \in keys /\ Cardinality(Before(m, keys)) < listing.limit
  BY TopIs
<1>2. Cardinality(Before(m, keys)) \in Nat /\ Cardinality(Before(k, keys)) \in Nat
  BY <1>1, MoreBefore
<1>3. m # k
  BY <1>1, <1>2
<1>4. CASE Ahead(k, m)
  <2>1. Before(k, keys) \in SUBSET Before(m, keys)
    <3> SUFFICES ASSUME NEW n \in Before(k, keys) PROVE n \in Before(m, keys)
      OBVIOUS
    <3>1. n \in keys /\ Ahead(n, k)
      BY DEF Before
    <3> QED BY <1>1, <1>4, <3>1, KeysInOrder DEF Before
  <2>2. IsFiniteSet(Before(m, keys))
    BY <1>1, MoreBefore
  <2>3. Cardinality(Before(k, keys)) <= Cardinality(Before(m, keys))
    BY <2>1, <2>2, FS_Subset
  <2> QED BY <1>1, <1>2, <2>3
<1> QED BY <1>1, <1>3, <1>4, KeysInOrder

LEMMA SomeTop ==
  ASSUME NEW keys \in SUBSET RowKeys, IsFiniteSet(keys), listing.limit \in Nat \ {0}, keys # {}
  PROVE  Top(keys) # {}
<1> SUFFICES ASSUME Top(keys) = {} PROVE FALSE
  OBVIOUS
<1>1. PICK x \in keys : x \notin Top(keys)
  OBVIOUS
<1>2. Cardinality(Top(keys)) >= listing.limit
  BY <1>1, TopFull
<1> QED BY <1>2, FS_EmptySet

\* Of finitely many rows there is a last one.
LEMMA LastRow ==
  ASSUME NEW keys \in SUBSET RowKeys, IsFiniteSet(keys), keys # {}
  PROVE  \E k \in keys : \A m \in keys : m # k => Ahead(m, k)
<1> DEFINE After(k) == {m \in keys : Ahead(k, m)}
           Counts == {Cardinality(After(k)) : k \in keys}
<1>1. \A k \in keys : IsFiniteSet(After(k)) /\ Cardinality(After(k)) \in Nat
  <2> SUFFICES ASSUME NEW k \in keys PROVE IsFiniteSet(After(k)) /\ Cardinality(After(k)) \in Nat
    OBVIOUS
  <2>1. After(k) \in SUBSET keys
    OBVIOUS
  <2> HIDE DEF After
  <2> QED BY <2>1, FS_Subset, FS_CardinalityType
<1>2. PICK r \in Counts : \A s \in Counts : r <= s
  <2>1. Counts \subseteq Nat
    BY <1>1
  <2>2. Counts # {}
    OBVIOUS
  <2> HIDE DEF Counts
  <2> QED BY <2>1, <2>2, FirstPlace
<1>3. PICK k \in keys : Cardinality(After(k)) = r
  OBVIOUS
<1>4. ASSUME NEW m \in keys, m # k PROVE Ahead(m, k)
  <2> SUFFICES ASSUME Ahead(k, m) PROVE FALSE
    BY <1>4, KeysInOrder
  <2>1. After(m) \in SUBSET After(k)
    <3> SUFFICES ASSUME NEW n \in keys, Ahead(m, n) PROVE Ahead(k, n)
      OBVIOUS
    <3> QED BY KeysInOrder
  <2>2. m \in After(k) /\ m \notin After(m)
    BY KeysInOrder
  <2> HIDE DEF After
  <2>3. /\ Cardinality(After(m)) <= Cardinality(After(k))
        /\ Cardinality(After(k)) = Cardinality(After(m)) => After(k) = After(m)
    BY <1>1, <2>1, FS_Subset
  <2>4. Cardinality(After(m)) \in Nat /\ Cardinality(After(k)) \in Nat /\ r <= Cardinality(After(m))
    BY <1>1, <1>2
  <2> QED BY <1>3, <2>2, <2>3, <2>4
<1> QED BY <1>4

LEMMA OwnDeskIs ==
  ASSUME NEW d, NEW w \in 1..Desks, PlaceOf[w] = d, \A v \in 1..(w - 1) : PlaceOf[v] # d
  PROVE  ShownBy(d) = w
<1>1. Desks \in Nat
  BY WorkbenchAssumption
<1>2. \A x \in 1..Desks : PlaceOf[x] = d /\ (\A v \in 1..(x - 1) : PlaceOf[v] # d) => x = w
  <2> SUFFICES ASSUME NEW x \in 1..Desks, PlaceOf[x] = d, \A v \in 1..(x - 1) : PlaceOf[v] # d
               PROVE  x = w
    OBVIOUS
  <2>1. ~(x < w)
    <3> SUFFICES ASSUME x < w PROVE FALSE
      OBVIOUS
    <3>1. x \in 1..(w - 1)
      BY <1>1
    <3> QED BY <3>1
  <2>2. ~(w < x)
    <3> SUFFICES ASSUME w < x PROVE FALSE
      OBVIOUS
    <3>1. w \in 1..(x - 1)
      BY <1>1
    <3> QED BY <3>1
  <2> QED BY <1>1, <2>1, <2>2
<1> QED BY <1>2 DEF ShownBy

LEMMA OwnDeskThere ==
  ASSUME NEW d, NEW x \in 1..Desks, PlaceOf[x] = d
  PROVE  ShownBy(d) \in 1..Desks /\ PlaceOf[ShownBy(d)] = d
<1> DEFINE S == {w \in 1..Desks : PlaceOf[w] = d}
<1>1. Desks \in Nat
  BY WorkbenchAssumption
<1>2. PICK w \in S : \A v \in S : w <= v
  <2>1. S \subseteq Nat /\ S # {}
    OBVIOUS
  <2> HIDE DEF S
  <2> QED BY <2>1, FirstPlace
<1>3. \A v \in 1..(w - 1) : PlaceOf[v] # d
  <2> SUFFICES ASSUME NEW v \in 1..(w - 1), PlaceOf[v] = d PROVE FALSE
    OBVIOUS
  <2>1. v \in S
    BY <1>1, <1>2
  <2>2. w <= v
    BY <1>2, <2>1
  <2> QED BY <1>1, <1>2, <2>2
<1>4. ShownBy(d) = w
  BY <1>2, <1>3, OwnDeskIs
<1> QED BY <1>2, <1>4

LEMMA KeyTyped ==
  ASSUME WBTypeOK, NEW w \in 1..Desks, NEW t \in TaskNumbers, Fits(PlaceOf[w], t)
  PROVE  KeyOf(w, t) \in RowKeys
<1> DEFINE old == rows[PlaceOf[w]][t]
<1>1. PlaceOf[w] \in Directories
  BY WorkbenchAssumption
<1>2. old \in Rows
  BY <1>1 DEF WBTypeOK, Fits
<1> HIDE DEF old
<1>3. Updated(old) \in Nat
  BY <1>2 DEF Updated, LaterOf, Rows
<1> QED BY <1>3 DEF KeyOf, RowKeys, old

LEMMA LimitTyped == WBTypeOK => listing.limit \in Nat \ {0} /\ listing.cursor \in RowKeys \cup {NoCursor}
<1> SUFFICES ASSUME WBTypeOK PROVE listing.limit \in Nat \ {0} /\ listing.cursor \in RowKeys \cup {NoCursor}
  OBVIOUS
<1>1. listing.limit \in PageLimits \cup {1} /\ listing.cursor \in RowKeys \cup {NoCursor}
  BY DEF WBTypeOK
<1>2. \A n \in PageLimits : n \in Nat \ {0}
  BY WorkbenchAssumption
<1>3. 1 \in Nat \ {0}
  OBVIOUS
<1>4. listing.limit \in Nat \ {0}
  BY <1>1, <1>2, <1>3, Zenon
<1> QED BY <1>1, <1>4

LEMMA ListingBegins == WBInit => WorkbenchStrong
<1> SUFFICES ASSUME WBInit PROVE WorkbenchStrong
  OBVIOUS
<1> USE WorkbenchAssumption
<1>1. WBTypeOK
  <2>1. rows \in [Directories -> [TaskNumbers -> Rows \cup {NoRow}]]
    BY DEF WBInit
  <2>2. listing \in [filter : Filters \cup {"all"}, limit : PageLimits \cup {1}, cursor : RowKeys \cup {NoCursor}]
    BY DEF WBInit
  <2>3. /\ now = 1 /\ away = {} /\ nextDesk = 0 /\ looked = {} /\ gathered = {} /\ further = FALSE
        /\ listedKeys = {} /\ again = {} /\ missed = {} /\ untouched = {} /\ complete = TRUE
        /\ touches = 0 /\ listings = 0 /\ absences = 0
    BY DEF WBInit
  <2>4. 0 \in 0..(Desks + 1) /\ 0 \in 0..MaxTouches /\ 0 \in 0..MaxListings /\ 0 \in 0..MaxAbsences
    OBVIOUS
  <2>5. /\ now \in Nat /\ away \subseteq Directories
        /\ nextDesk \in 0..(Desks + 1) /\ looked \subseteq Directories /\ gathered \subseteq RowKeys
        /\ further \in BOOLEAN /\ complete \in BOOLEAN /\ listedKeys \subseteq RowKeys /\ again \subseteq RowKeys
        /\ missed \subseteq Directories /\ untouched \subseteq Directories \X TaskNumbers
        /\ touches \in 0..MaxTouches /\ listings \in 0..MaxListings /\ absences \in 0..MaxAbsences
    BY <2>3, <2>4
  <2> QED BY <2>1, <2>2, <2>5 DEF WBTypeOK
<1>2. gathered = {} /\ listedKeys = {} /\ again = {} /\ untouched = {} /\ nextDesk = 0 /\ complete = TRUE /\ further = FALSE
  BY DEF WBInit
<1>3. NoneLeftOut /\ NoneTwice
  BY <1>2 DEF NoneLeftOut, NoneTwice
<1>4. ListedBefore /\ GatheredPast /\ DesksLooked /\ OwnDesk /\ AllAccounted
  BY <1>2, FS_EmptySet DEF ListedBefore, GatheredPast, DesksLooked, OwnDesk, AllAccounted
<1> QED BY <1>1, <1>3, <1>4 DEF WorkbenchStrong, WorkbenchInv

\* Both promises follow from the rest.
LEMMA PromisesFollow ==
  ASSUME WBTypeOK, again = {}, OwnDesk, AllAccounted
  PROVE  NoneLeftOut /\ NoneTwice
<1>1. NoneLeftOut
  BY DEF NoneLeftOut, AllAccounted, Accounted
<1>2. NoneTwice
  <2> SUFFICES ASSUME NEW k \in listedKeys, NEW m \in listedKeys, k.id = m.id, k.updated = m.updated,
                      PlaceOf[k.of] = PlaceOf[m.of], PlaceOf[k.of] \notin missed
               PROVE  k = m
    BY DEF NoneTwice
  <2>1. k.of = m.of
    BY DEF OwnDesk
  <2>2. k \in RowKeys /\ m \in RowKeys
    BY DEF WBTypeOK
  <2> QED BY <2>1, <2>2 DEF RowKeys
<1> QED BY <1>1, <1>2

\* What happens to other tasks than those that were left alone does not matter.
LEMMA OthersMove ==
  ASSUME WorkbenchStrong, WBTypeOK', untouched' \subseteq untouched,
         UNCHANGED <<listing, nextDesk, looked, gathered, further, listedKeys, again, missed, complete>>,
         \A u \in untouched' : rows'[u[1]][u[2]] = rows[u[1]][u[2]]
  PROVE  WorkbenchStrong'
<1>1. again' = {} /\ OwnDesk'
  BY DEF WorkbenchStrong, WorkbenchInv, NoneTwice, OwnDesk
<1>2. ListedBefore' /\ GatheredPast' /\ DesksLooked'
  BY DEF WorkbenchStrong, ListedBefore, GatheredPast, DesksLooked, Past
<1>3. AllAccounted'
  <2> SUFFICES ASSUME NEW u \in untouched'
               PROVE  Fits(u[1], u[2])' /\ (u[1] \in AlwaysRead' => Accounted(u)')
    BY DEF AllAccounted
  <2>1. Fits(u[1], u[2]) /\ (u[1] \in AlwaysRead => Accounted(u))
    BY DEF WorkbenchStrong, AllAccounted
  <2>2. Fits(u[1], u[2])'
    BY <2>1 DEF Fits
  <2>3. ASSUME u[1] \in AlwaysRead' PROVE Accounted(u)'
    <3>1. u[1] \in AlwaysRead
      BY <2>3 DEF AlwaysRead
    <3>2. PlaceOf[ShownBy(u[1])] = u[1]
      BY <3>1, OwnDeskThere DEF AlwaysRead
    <3>3. KeyOf(ShownBy(u[1]), u[2])' = KeyOf(ShownBy(u[1]), u[2])
      BY <3>2 DEF KeyOf
    <3> QED BY <2>1, <3>1, <3>3 DEF Accounted, Past, Behind
  <2> QED BY <2>2, <2>3
<1>4. NoneLeftOut' /\ NoneTwice'
  <2>1. (WBTypeOK /\ again = {} /\ OwnDesk /\ AllAccounted => NoneLeftOut /\ NoneTwice)'
    BY PromisesFollow, PTL
  <2> QED BY <1>1, <1>3, <2>1
<1> QED BY <1>1, <1>2, <1>3, <1>4 DEF WorkbenchStrong, WorkbenchInv

LEMMA TouchKeeps ==
  ASSUME WorkbenchStrong, NEW d \in Directories, NEW t \in TaskNumbers, NEW r \in Rows, now' \in Nat,
         Touch(d, t, r)
  PROVE  WorkbenchStrong'
<1>1. /\ touches < MaxTouches /\ touches' = touches + 1
      /\ rows' = [rows EXCEPT ![d][t] = r] /\ untouched' = untouched \ {<<d, t>>}
      /\ UNCHANGED <<away, listing, nextDesk, looked, gathered, further, listedKeys, again, missed, complete,
                     listings, absences>>
  BY DEF Touch
<1>2. WBTypeOK
  BY DEF WorkbenchStrong, WorkbenchInv
<1>3. rows' = [rows EXCEPT ![d] = [rows[d] EXCEPT ![t] = r]]
  BY <1>1, <1>2 DEF WBTypeOK
<1>4. rows' \in [Directories -> [TaskNumbers -> Rows \cup {NoRow}]]
  BY <1>2, <1>3 DEF WBTypeOK
<1>5. touches' \in 0..MaxTouches
  BY <1>1, <1>2, WorkbenchAssumption DEF WBTypeOK
<1>6. untouched' \subseteq Directories \X TaskNumbers
  BY <1>1, <1>2 DEF WBTypeOK
<1>7. WBTypeOK'
  BY <1>1, <1>2, <1>4, <1>5, <1>6 DEF WBTypeOK
<1>8. ASSUME NEW u \in untouched' PROVE rows'[u[1]][u[2]] = rows[u[1]][u[2]]
  <2>1. u \in Directories \X TaskNumbers /\ u # <<d, t>>
    BY <1>1, <1>6
  <2>2. u[1] \in Directories /\ u[2] \in TaskNumbers /\ (u[1] # d \/ u[2] # t)
    BY <2>1
  <2>3. rows \in [Directories -> [TaskNumbers -> Rows \cup {NoRow}]]
    BY <1>2 DEF WBTypeOK
  <2> QED BY <1>3, <2>2, <2>3
<1> QED BY <1>1, <1>7, <1>8, OthersMove

\* What a write leaves of a row.
LEMMA RowChecked ==
  ASSUME NEW old \in Rows, NEW s, NEW c, NEW r, r = [old EXCEPT !.state = s, !.changed = c]
  PROVE  r = [state |-> s, changed |-> c, live |-> old.live, jobAt |-> old.jobAt,
              passed |-> old.passed, failed |-> old.failed]
BY DEF Rows

LEMMA RowMoved ==
  ASSUME NEW old \in Rows, NEW l, NEW a, NEW r, r = [old EXCEPT !.live = l, !.jobAt = a]
  PROVE  r = [state |-> old.state, changed |-> old.changed, live |-> l, jobAt |-> a,
              passed |-> old.passed, failed |-> old.failed]
BY DEF Rows

LEMMA TasksMove ==
  ASSUME WorkbenchStrong, NEW d \in Directories, NEW t \in TaskNumbers,
         \/ NewTask(d, t) \/ (\E s \in States : Checkpointed(d, t, s))
         \/ (\E s \in Lives : JobMoves(d, t, s)) \/ \E end \in {"passed", "failed", "stopped"} : JobOver(d, t, end)
  PROVE  WorkbenchStrong'
<1>1. now \in Nat /\ rows[d][t] \in Rows \cup {NoRow}
  BY DEF WorkbenchStrong, WorkbenchInv, WBTypeOK
<1>2. Elapse => now' \in Nat
  BY <1>1 DEF Elapse
<1> DEFINE old == rows[d][t]
<1>3. CASE NewTask(d, t)
  <2> DEFINE r == [state |-> "active", changed |-> now', live |-> "none", jobAt |-> 0,
                   passed |-> 0, failed |-> 0]
  <2>1. now' \in Nat /\ Touch(d, t, r)
    BY <1>2, <1>3 DEF NewTask
  <2>2. r \in Rows
    BY <2>1 DEF Rows, States, Lives
  <2> HIDE DEF r
  <2> QED BY <2>1, <2>2, TouchKeeps
<1>4. ASSUME NEW s \in States, Checkpointed(d, t, s) PROVE WorkbenchStrong'
  <2> DEFINE r == [old EXCEPT !.state = s, !.changed = now']
  <2>1. now' \in Nat /\ Touch(d, t, r) /\ old \in Rows
    BY <1>1, <1>2, <1>4 DEF Checkpointed
  <2> HIDE DEF old
  <2>2. r = [state |-> s, changed |-> now', live |-> old.live, jobAt |-> old.jobAt,
             passed |-> old.passed, failed |-> old.failed]
    BY <2>1, RowChecked
  <2>3. r \in Rows
    BY <2>1, <2>2 DEF Rows
  <2> HIDE DEF r
  <2> QED BY <2>1, <2>3, TouchKeeps
<1>5. ASSUME NEW s \in Lives, JobMoves(d, t, s) PROVE WorkbenchStrong'
  <2> DEFINE r == [old EXCEPT !.live = s, !.jobAt = now']
  <2>1. now' \in Nat /\ Touch(d, t, r) /\ old \in Rows
    BY <1>1, <1>2, <1>5 DEF JobMoves
  <2> HIDE DEF old
  <2>2. r = [state |-> old.state, changed |-> old.changed, live |-> s, jobAt |-> now',
             passed |-> old.passed, failed |-> old.failed]
    BY <2>1, RowMoved
  <2>3. r \in Rows
    BY <2>1, <2>2 DEF Rows
  <2> HIDE DEF r
  <2> QED BY <2>1, <2>3, TouchKeeps
<1>6. ASSUME NEW end \in {"passed", "failed", "stopped"}, JobOver(d, t, end) PROVE WorkbenchStrong'
  <2> DEFINE failedAt == IF end = "failed" THEN now' ELSE old.failed
             passedAt == IF end = "passed" THEN now' ELSE old.passed
             r == [state |-> old.state, changed |-> old.changed, live |-> "none", jobAt |-> now',
                   passed |-> passedAt, failed |-> failedAt]
  <2>1. now' \in Nat /\ old \in Rows
    BY <1>1, <1>2, <1>6 DEF JobOver
  <2> DEFINE over == [old EXCEPT !.live = "none", !.jobAt = now',
                                 !.failed = IF end = "failed" THEN now' ELSE @,
                                 !.passed = IF end = "passed" THEN now' ELSE @]
  <2>2. over = [old EXCEPT !.live = "none", !.jobAt = now', !.failed = failedAt, !.passed = passedAt]
    OBVIOUS
  <2>3. Touch(d, t, r)
    <3>1. Touch(d, t, over)
      BY <1>6 DEF JobOver
    <3> HIDE DEF old, failedAt, passedAt, over
    <3>2. over = r
      BY <2>1, <2>2 DEF Rows
    <3> HIDE DEF r
    <3> QED BY <3>1, <3>2
  <2>4. r \in Rows
    <3> HIDE DEF old
    <3> QED BY <2>1 DEF Rows, Lives
  <2> HIDE DEF r
  <2> QED BY <2>1, <2>3, <2>4, TouchKeeps
<1> QED BY <1>3, <1>4, <1>5, <1>6

LEMMA AbsencesKeep == ASSUME WorkbenchStrong, NEW d \in Directories, Comes(d) PROVE WorkbenchStrong'
<1>1. /\ absences < MaxAbsences /\ absences' = absences + 1 /\ away' \subseteq away \cup {d}
      /\ UNCHANGED <<rows, now, listing, nextDesk, looked, gathered, further, listedKeys, again, missed,
                     untouched, complete, touches, listings>>
  BY DEF Comes
<1>2. WBTypeOK
  BY DEF WorkbenchStrong, WorkbenchInv
<1>3. absences' \in 0..MaxAbsences /\ away' \subseteq Directories
  BY <1>1, <1>2, WorkbenchAssumption DEF WBTypeOK
<1>4. WBTypeOK'
  BY <1>1, <1>2, <1>3 DEF WBTypeOK
<1> QED BY <1>1, <1>4, OthersMove

-----------------------------------------------------------------------------
(* The pages.                                                              *)

LEMMA StartKeeps ==
  ASSUME WorkbenchStrong, NEW f \in Filters, NEW n \in PageLimits, StartListing(f, n)
  PROVE  WorkbenchStrong'
<1>1. /\ listings < MaxListings /\ listings' = listings + 1
      /\ listing' = [filter |-> f, limit |-> n, cursor |-> NoCursor]
      /\ nextDesk' = 1 /\ looked' = {} /\ gathered' = {} /\ further' = FALSE
      /\ listedKeys' = {} /\ again' = {} /\ missed' = {} /\ complete' = FALSE
      /\ UNCHANGED <<rows, now, away, touches, absences>>
      /\ untouched' = {u \in Directories \X TaskNumbers : Fits(u[1], u[2])'}
  BY DEF StartListing
<1>2. WBTypeOK
  BY DEF WorkbenchStrong, WorkbenchInv
<1>3. listings' \in 0..MaxListings /\ nextDesk' \in 0..(Desks + 1)
  BY <1>1, <1>2, WorkbenchAssumption DEF WBTypeOK
<1>4. listing' \in [filter : Filters \cup {"all"}, limit : PageLimits \cup {1}, cursor : RowKeys \cup {NoCursor}]
  BY <1>1
<1>5. untouched' \subseteq Directories \X TaskNumbers
  BY <1>1
<1>6. WBTypeOK'
  BY <1>1, <1>2, <1>3, <1>4, <1>5 DEF WBTypeOK
<1>7. listing'.cursor = NoCursor
  BY <1>1
<1>8. ListedBefore' /\ GatheredPast' /\ DesksLooked' /\ OwnDesk'
  BY <1>1, FS_EmptySet DEF ListedBefore, GatheredPast, DesksLooked, OwnDesk
<1>9. AllAccounted'
  <2> SUFFICES ASSUME NEW u \in untouched' PROVE Fits(u[1], u[2])' /\ Accounted(u)'
    BY DEF AllAccounted
  <2>1. Fits(u[1], u[2])'
    BY <1>1
  <2>2. Accounted(u)'
    BY <1>1, <1>7 DEF Accounted, Past
  <2> QED BY <2>1, <2>2
<1>10. NoneLeftOut' /\ NoneTwice'
  <2>1. (WBTypeOK /\ again = {} /\ OwnDesk /\ AllAccounted => NoneLeftOut /\ NoneTwice)'
    BY PromisesFollow, PTL
  <2> QED BY <1>1, <1>6, <1>8, <1>9, <2>1
<1> QED BY <1>6, <1>8, <1>9, <1>10 DEF WorkbenchStrong, WorkbenchInv

LEMMA NextKeeps == ASSUME WorkbenchStrong, NextPage PROVE WorkbenchStrong'
<1>1. /\ ~complete /\ nextDesk' = 1 /\ looked' = {} /\ gathered' = {} /\ further' = FALSE
      /\ UNCHANGED <<rows, now, away, listing, listedKeys, again, missed, untouched, complete, touches,
                     listings, absences>>
  BY DEF NextPage
<1>2. WBTypeOK
  BY DEF WorkbenchStrong, WorkbenchInv
<1>3. nextDesk' \in 0..(Desks + 1)
  BY <1>1, WorkbenchAssumption
<1>4. WBTypeOK'
  BY <1>1, <1>2, <1>3 DEF WBTypeOK
<1>5. ListedBefore' /\ GatheredPast' /\ DesksLooked'
  BY <1>1, FS_EmptySet DEF WorkbenchStrong, ListedBefore, GatheredPast, DesksLooked, Past
<1>6. OwnDesk' /\ again' = {}
  BY <1>1 DEF WorkbenchStrong, WorkbenchInv, NoneTwice, OwnDesk
<1>7. AllAccounted'
  <2> SUFFICES ASSUME NEW u \in untouched'
               PROVE  Fits(u[1], u[2])' /\ (u[1] \in AlwaysRead' => Accounted(u)')
    BY DEF AllAccounted
  <2>1. Fits(u[1], u[2]) /\ (u[1] \in AlwaysRead => Accounted(u))
    BY <1>1 DEF WorkbenchStrong, AllAccounted
  <2>2. Fits(u[1], u[2])'
    BY <1>1, <2>1 DEF Fits
  <2>3. u[1] \in AlwaysRead' => Accounted(u)'
    BY <1>1, <2>1 DEF AlwaysRead, Accounted, Past, KeyOf
  <2> QED BY <2>2, <2>3
<1>8. NoneLeftOut' /\ NoneTwice'
  <2>1. (WBTypeOK /\ again = {} /\ OwnDesk /\ AllAccounted => NoneLeftOut /\ NoneTwice)'
    BY PromisesFollow, PTL
  <2> QED BY <1>4, <1>6, <1>7, <2>1
<1> QED BY <1>4, <1>5, <1>6, <1>7, <1>8 DEF WorkbenchStrong, WorkbenchInv

\* A workspace of which the page has the directory already, or cannot read it.
LEMMA PassedBy ==
  ASSUME WorkbenchStrong, nextDesk \in 1..Desks, nextDesk' = nextDesk + 1,
         UNCHANGED <<rows, now, away, listing, listedKeys, again, untouched, complete, touches, listings,
                     absences, gathered, further>>,
         missed \subseteq missed', missed' \subseteq Directories,
         looked \subseteq looked', looked' \subseteq Directories,
         \A d \in looked' : d \in looked \/ d \in missed',
         PlaceOf[nextDesk] \in looked' \cup missed'
  PROVE  WorkbenchStrong'
<1>1. WBTypeOK
  BY DEF WorkbenchStrong, WorkbenchInv
<1>2. nextDesk' \in 0..(Desks + 1) /\ nextDesk \in Nat
  BY WorkbenchAssumption
<1>3. WBTypeOK'
  BY <1>1, <1>2 DEF WBTypeOK
<1>4. ListedBefore' /\ GatheredPast'
  BY <1>2 DEF WorkbenchStrong, ListedBefore, GatheredPast, Past
<1>5. DesksLooked'
  <2> SUFFICES ASSUME NEW v \in 1..nextDesk PROVE PlaceOf[v] \in looked' \cup missed'
    BY <1>2 DEF DesksLooked
  <2>1. v = nextDesk \/ v \in 1..(nextDesk - 1)
    BY <1>2
  <2> QED BY <1>2, <2>1 DEF WorkbenchStrong, DesksLooked
<1>6. OwnDesk' /\ again' = {}
  BY DEF WorkbenchStrong, WorkbenchInv, NoneTwice, OwnDesk
<1>7. AllAccounted'
  <2> SUFFICES ASSUME NEW u \in untouched'
               PROVE  Fits(u[1], u[2])' /\ (u[1] \in AlwaysRead' => Accounted(u)')
    BY DEF AllAccounted
  <2>1. Fits(u[1], u[2]) /\ (u[1] \in AlwaysRead => Accounted(u))
    BY DEF WorkbenchStrong, AllAccounted
  <2>2. Fits(u[1], u[2])'
    BY <2>1 DEF Fits
  <2>3. ASSUME u[1] \in AlwaysRead' PROVE Accounted(u)'
    <3>1. u[1] \in AlwaysRead /\ u[1] \notin missed'
      BY <2>3 DEF AlwaysRead
    <3>2. u[1] \in looked' => u[1] \in looked
      BY <3>1
    <3>3. KeyOf(ShownBy(u[1]), u[2])' = KeyOf(ShownBy(u[1]), u[2])
      BY DEF KeyOf
    <3> QED BY <1>2, <2>1, <3>1, <3>2, <3>3 DEF Accounted, Past, Behind
  <2> QED BY <2>2, <2>3
<1>8. NoneLeftOut' /\ NoneTwice'
  <2>1. (WBTypeOK /\ again = {} /\ OwnDesk /\ AllAccounted => NoneLeftOut /\ NoneTwice)'
    BY PromisesFollow, PTL
  <2> QED BY <1>3, <1>6, <1>7, <2>1
<1> QED BY <1>3, <1>4, <1>5, <1>6, <1>7, <1>8 DEF WorkbenchStrong, WorkbenchInv

KeysOf(w) ==
  {k \in {KeyOf(w, t) : t \in {u \in TaskNumbers : Fits(PlaceOf[w], u)}} : Past(k)}

LEMMA KeysFinite ==
  ASSUME WBTypeOK, NEW w \in 1..Desks
  PROVE  KeysOf(w) \in SUBSET RowKeys /\ IsFiniteSet(KeysOf(w))
<1> DEFINE Fitting == {u \in TaskNumbers : Fits(PlaceOf[w], u)}
           All == {KeyOf(w, t) : t \in Fitting}
<1>1. IsFiniteSet(Fitting)
  <2>1. Fitting \in SUBSET TaskNumbers
    OBVIOUS
  <2> QED BY <2>1, WorkbenchAssumption, FS_Subset
<1>2. IsFiniteSet(All)
  <2> DEFINE f == [t \in Fitting |-> KeyOf(w, t)]
  <2>1. f \in Surjection(Fitting, All)
    <3> HIDE DEF Fitting
    <3> QED BY DEF Surjection
  <2> HIDE DEF f, Fitting, All
  <2> QED BY <1>1, <2>1, FS_Surjection
<1>3. All \subseteq RowKeys
  BY KeyTyped
<1>4. KeysOf(w) \in SUBSET All
  BY DEF KeysOf
<1> HIDE DEF All
<1> QED BY <1>2, <1>3, <1>4, FS_Subset

LEMMA GatherKeeps == ASSUME WorkbenchStrong, Gather PROVE WorkbenchStrong'
<1> DEFINE w == nextDesk
           d == PlaceOf[w]
           keys == KeysOf(w)
<1>0. WBTypeOK
  BY DEF WorkbenchStrong, WorkbenchInv
<1>1. /\ w \in 1..Desks /\ nextDesk' = w + 1
      /\ UNCHANGED <<rows, now, away, listing, listedKeys, again, untouched, complete, touches, listings,
                     absences>>
  BY DEF Gather
<1>2. d \in Directories /\ w \in Nat /\ w # 0 /\ nextDesk' \in 0..(Desks + 1) /\ nextDesk' # 0
  BY <1>1, WorkbenchAssumption
<1>3. CASE d \in looked
  <2>1. UNCHANGED <<looked, gathered, further, missed>>
    BY <1>3 DEF Gather
  <2>2. missed' \subseteq Directories /\ looked' \subseteq Directories
    BY <1>0, <2>1 DEF WBTypeOK
  <2> QED BY <1>1, <1>3, <2>1, <2>2, PassedBy
<1>4. CASE d \notin looked /\ d \in away
  <2>1. missed' = missed \cup {d} /\ looked' \in {looked, looked \cup {d}} /\ UNCHANGED <<gathered, further>>
    BY <1>4 DEF Gather
  <2>2. missed' \subseteq Directories /\ looked' \subseteq Directories
    BY <1>0, <1>2, <2>1 DEF WBTypeOK
  <2>3. \A e \in looked' : e \in looked \/ e \in missed'
    BY <2>1
  <2> QED BY <1>1, <2>1, <2>2, <2>3, PassedBy
<1>5. CASE d \notin looked /\ d \notin away
  <2>1. /\ looked' = looked \cup {d} /\ gathered' = gathered \cup Top(keys)
        /\ further' = (further \/ Cardinality(keys) > listing.limit)
        /\ missed' = missed
    BY <1>5 DEF Gather, KeysOf
  <2>2. keys \in SUBSET RowKeys /\ IsFiniteSet(keys)
    BY <1>0, <1>1, KeysFinite
  <2>3. \A k \in keys : Past(k) /\ k.of = w
    BY DEF KeysOf, KeyOf
  <2>4. \A t \in TaskNumbers : Fits(d, t) /\ Past(KeyOf(w, t)) => KeyOf(w, t) \in keys
    BY DEF KeysOf
  <2>5. listing.limit \in Nat \ {0}
    BY <1>0, LimitTyped
  <2> HIDE DEF keys
  <2>6. Top(keys) \subseteq keys
    BY DEF Top
  <2>7. IsFiniteSet(gathered) /\ IsFiniteSet(gathered')
    <3>1. IsFiniteSet(gathered)
      BY DEF WorkbenchStrong, GatheredPast
    <3>2. IsFiniteSet(Top(keys))
      BY <2>2, <2>6, FS_Subset
    <3> QED BY <2>1, <3>1, <3>2, FS_Union
  <2>8. gathered \subseteq RowKeys /\ gathered' \subseteq RowKeys
    BY <1>0, <2>1, <2>2, <2>6 DEF WBTypeOK
  <2>9. further' \in BOOLEAN /\ looked' \subseteq Directories
    BY <1>0, <1>2, <2>1 DEF WBTypeOK
  <2>10. WBTypeOK'
    BY <1>0, <1>1, <1>2, <2>1, <2>8, <2>9 DEF WBTypeOK
  <2>11. ListedBefore'
    BY <1>1 DEF WorkbenchStrong, ListedBefore, Past
  <2>12. GatheredPast'
    <3>1. ~complete /\ \A k \in gathered : Past(k)
      BY <1>2 DEF WorkbenchStrong, GatheredPast
    <3>2. \A k \in gathered' : Past(k)
      BY <2>1, <2>3, <2>6, <3>1
    <3>3. \A k : Past(k)' <=> Past(k)
      BY <1>1 DEF Past
    <3>4. further' => gathered' # {}
      <4>1. CASE further
        BY <2>1, <4>1 DEF WorkbenchStrong, GatheredPast
      <4>2. CASE Cardinality(keys) > listing.limit
        <5>1. keys # {}
          BY <2>5, <4>2, FS_EmptySet
        <5>2. Top(keys) # {}
          BY <2>2, <2>5, <5>1, SomeTop
        <5> QED BY <2>1, <5>2
      <4> QED BY <2>1, <4>1, <4>2
    <3> QED BY <1>1, <2>7, <3>1, <3>2, <3>3, <3>4 DEF GatheredPast
  <2>13. DesksLooked'
    <3> SUFFICES ASSUME NEW v \in 1..w PROVE PlaceOf[v] \in looked' \cup missed'
      BY <1>1, <1>2 DEF DesksLooked
    <3>1. v = w \/ v \in 1..(w - 1)
      BY <1>2
    <3>2. \A x \in 1..(w - 1) : PlaceOf[x] \in looked \cup missed
      BY <1>2 DEF WorkbenchStrong, DesksLooked
    <3> QED BY <2>1, <3>1, <3>2
  <2>14. d \notin missed => ShownBy(d) = w
    <3> SUFFICES ASSUME d \notin missed PROVE ShownBy(d) = w
      OBVIOUS
    <3>1. \A x \in 1..(w - 1) : PlaceOf[x] \in looked \cup missed
      BY <1>2 DEF WorkbenchStrong, DesksLooked
    <3>2. \A x \in 1..(w - 1) : PlaceOf[x] # d
      BY <1>5, <3>1
    <3> QED BY <1>1, <3>2, OwnDeskIs
  <2>15. OwnDesk' /\ again' = {}
    <3>1. again' = {}
      BY <1>1 DEF WorkbenchStrong, WorkbenchInv, NoneTwice
    <3>2. \A k \in listedKeys \cup gathered : PlaceOf[k.of] \notin missed => k.of = ShownBy(PlaceOf[k.of])
      BY DEF WorkbenchStrong, OwnDesk
    <3>3. \A k \in Top(keys) : PlaceOf[k.of] \notin missed => k.of = ShownBy(PlaceOf[k.of])
      BY <2>3, <2>6, <2>14
    <3> QED BY <1>1, <2>1, <3>1, <3>2, <3>3 DEF OwnDesk
  <2>16. AllAccounted'
    <3> SUFFICES ASSUME NEW u \in untouched'
                 PROVE  Fits(u[1], u[2])' /\ (u[1] \in AlwaysRead' => Accounted(u)')
      BY DEF AllAccounted
    <3>1. Fits(u[1], u[2]) /\ (u[1] \in AlwaysRead => Accounted(u))
      BY <1>1 DEF WorkbenchStrong, AllAccounted
    <3>2. Fits(u[1], u[2])'
      BY <1>1, <3>1 DEF Fits
    <3>3. ASSUME u[1] \in AlwaysRead' PROVE Accounted(u)'
      <4> DEFINE k == KeyOf(ShownBy(u[1]), u[2])
      <4>1. u[1] \in AlwaysRead /\ u[1] \notin missed
        BY <2>1, <3>3 DEF AlwaysRead
      <4>2. k' = k
        BY <1>1 DEF KeyOf
      <4>3. u[1] \in Directories /\ u[2] \in TaskNumbers
        BY <1>0, <1>1 DEF WBTypeOK
      <4>4. k \in RowKeys
        <5>1. ShownBy(u[1]) \in 1..Desks /\ PlaceOf[ShownBy(u[1])] = u[1]
          BY <4>1, OwnDeskThere DEF AlwaysRead
        <5> QED BY <1>0, <3>1, <4>3, <5>1, KeyTyped
      <4>5. CASE k \in listedKeys
        BY <1>1, <4>2, <4>5 DEF Accounted
      <4>6. CASE k \notin listedKeys
        <5>1. ~complete /\ Past(k) /\ (u[1] \in looked => k \in gathered \/ Behind(k))
          BY <1>2, <3>1, <4>1, <4>6 DEF Accounted
        <5>2. u[1] \in looked' => k \in gathered' \/ Behind(k)'
          <6>1. CASE u[1] \in looked /\ k \in gathered
            BY <2>1, <6>1
          <6>2. CASE u[1] \in looked /\ Behind(k)
            <7>1. Before(k, gathered) \in SUBSET Before(k, gathered')
              BY <2>1 DEF Before
            <7>2. IsFiniteSet(Before(k, gathered')) /\ Cardinality(Before(k, gathered')) \in Nat
                  /\ Cardinality(Before(k, gathered)) \in Nat
              BY <2>7, <2>8, <4>4, MoreBefore
            <7>3. Cardinality(Before(k, gathered)) <= Cardinality(Before(k, gathered'))
              BY <7>1, <7>2, FS_Subset
            <7>4. Cardinality(Before(k, gathered)) >= listing.limit /\ further
              BY <6>2 DEF Behind
            <7>5. Cardinality(Before(k, gathered')) >= listing.limit
              BY <2>5, <7>2, <7>3, <7>4
            <7>6. Before(k, gathered)' = Before(k, gathered')
              BY <4>2 DEF Before
            <7> QED BY <1>1, <2>1, <4>2, <7>4, <7>5, <7>6 DEF Behind
          <6>3. CASE u[1] = d
            <7>1. ShownBy(u[1]) = w
              BY <2>14, <4>1, <6>3
            <7>2. k \in keys
              BY <2>4, <3>1, <4>3, <5>1, <6>3, <7>1
            <7>3. CASE k \in Top(keys)
              BY <2>1, <7>3
            <7>4. CASE k \notin Top(keys)
              <8>1. Cardinality(Before(k, keys)) >= listing.limit
                <9>1. Cardinality(Before(k, keys)) \in Nat
                  BY <2>2, <4>4, MoreBefore
                <9> QED BY <2>5, <7>2, <7>4, <9>1, TopIs
              <8>2. Cardinality(keys) > listing.limit
                <9>1. Cardinality(Before(k, keys)) \in Nat /\ Cardinality(keys) \in Nat
                      /\ Cardinality(Before(k, keys)) < Cardinality(keys)
                  BY <2>2, <4>4, <7>2, MoreBefore, FS_CardinalityType
                <9> QED BY <2>5, <8>1, <9>1
              <8>3. Top(keys) \in SUBSET Before(k, gathered')
                <9> SUFFICES ASSUME NEW m \in Top(keys) PROVE m \in Before(k, gathered')
                  OBVIOUS
                <9>1. Ahead(m, k)
                  BY <2>2, <2>5, <4>4, <8>1, TopAhead
                <9> QED BY <2>1, <9>1 DEF Before
              <8>4. Cardinality(Top(keys)) >= listing.limit /\ Cardinality(Top(keys)) \in Nat
                BY <2>2, <2>5, <7>2, <7>4, TopFull
              <8>5. IsFiniteSet(Before(k, gathered')) /\ Cardinality(Before(k, gathered')) \in Nat
                BY <2>7, <2>8, <4>4, MoreBefore
              <8>6. Cardinality(Top(keys)) <= Cardinality(Before(k, gathered'))
                BY <8>3, <8>5, FS_Subset
              <8>7. Cardinality(Before(k, gathered')) >= listing.limit
                BY <2>5, <8>4, <8>5, <8>6
              <8>8. Before(k, gathered)' = Before(k, gathered')
                BY <4>2 DEF Before
              <8> QED BY <1>1, <2>1, <4>2, <8>2, <8>7, <8>8 DEF Behind
            <7> QED BY <7>3, <7>4
          <6> QED BY <2>1, <5>1, <6>1, <6>2, <6>3
        <5>3. Past(k)'
          BY <1>1, <5>1 DEF Past, KeyOf
        <5> QED BY <1>1, <4>2, <5>1, <5>2, <5>3 DEF Accounted
      <4> QED BY <4>5, <4>6
    <3> QED BY <3>2, <3>3
  <2>17. NoneLeftOut' /\ NoneTwice'
    <3>1. (WBTypeOK /\ again = {} /\ OwnDesk /\ AllAccounted => NoneLeftOut /\ NoneTwice)'
      BY PromisesFollow, PTL
    <3> QED BY <2>10, <2>15, <2>16, <3>1
  <2> QED BY <2>10, <2>11, <2>12, <2>13, <2>15, <2>16, <2>17 DEF WorkbenchStrong, WorkbenchInv
<1> QED BY <1>3, <1>4, <1>5

LEMMA PageShown == ASSUME WorkbenchStrong, Show PROVE WorkbenchStrong'
<1> DEFINE kept == Top(gathered)
           more == further \/ Cardinality(gathered) > listing.limit
           least == CHOOSE k \in kept : \A m \in kept : m # k => Ahead(m, k)
<1>1. /\ nextDesk = Desks + 1 /\ nextDesk' = 0
      /\ listedKeys' = listedKeys \cup kept /\ again' = again \cup (listedKeys \cap kept)
      /\ complete' = ~more
      /\ listing' = IF more THEN [listing EXCEPT !.cursor = least] ELSE listing
      /\ UNCHANGED <<rows, now, away, looked, gathered, further, missed, untouched, touches, listings, absences>>
  BY DEF Show
<1>2. WBTypeOK
  BY DEF WorkbenchStrong, WorkbenchInv
<1>3. listing.limit \in Nat \ {0} /\ listing.cursor \in RowKeys \cup {NoCursor}
  BY <1>2, LimitTyped
<1>4. gathered \in SUBSET RowKeys /\ IsFiniteSet(gathered) /\ Cardinality(gathered) \in Nat
  BY <1>2, FS_CardinalityType DEF WBTypeOK, WorkbenchStrong, GatheredPast
<1>5. nextDesk # 0 /\ Desks \in Nat
  BY <1>1, WorkbenchAssumption
<1>6. ~complete /\ \A k \in gathered : Past(k)
  BY <1>5 DEF WorkbenchStrong, GatheredPast
<1>7. kept \subseteq gathered /\ kept \in SUBSET RowKeys /\ IsFiniteSet(kept)
  <2>1. kept \in SUBSET gathered
    BY DEF Top
  <2> HIDE DEF kept
  <2> QED BY <1>4, <2>1, FS_Subset
<1>8. \A k \in listedKeys : ~Past(k)
  BY <1>6 DEF WorkbenchStrong, ListedBefore
<1>9. again' = {}
  <2> HIDE DEF kept
  <2> QED BY <1>1, <1>6, <1>7, <1>8 DEF WorkbenchStrong, WorkbenchInv, NoneTwice
<1>10. more /\ kept # {} => least \in kept /\ \A m \in kept : m # least => Ahead(m, least)
  <2> HIDE DEF kept
  <2>1. kept # {} => \E k \in kept : \A m \in kept : m # k => Ahead(m, k)
    BY <1>7, LastRow
  <2> QED BY <2>1
<1>11. more => kept # {}
  <2> SUFFICES ASSUME more, kept = {} PROVE FALSE
    OBVIOUS
  <2>1. gathered # {}
    <3>1. CASE further
      BY <3>1 DEF WorkbenchStrong, GatheredPast
    <3>2. CASE Cardinality(gathered) > listing.limit
      BY <1>3, <3>2, FS_EmptySet
    <3> QED BY <3>1, <3>2
  <2> QED BY <1>3, <1>4, <2>1, SomeTop
<1>12. more => least \in RowKeys /\ least # NoCursor /\ least \in kept
  <2> SUFFICES ASSUME more PROVE least \in RowKeys /\ least # NoCursor /\ least \in kept
    OBVIOUS
  <2>1. least \in kept
    BY <1>10, <1>11
  <2>2. least \in RowKeys
    BY <1>7, <2>1
  <2> HIDE DEF least
  <2>3. least.of \in 1..Desks
    BY <2>2 DEF RowKeys
  <2>4. NoCursor.of = 0
    BY DEF NoCursor
  <2>5. least.of # 0
    BY <1>5, <2>3
  <2> QED BY <2>1, <2>2, <2>4, <2>5
<1>13. /\ listing'.limit = listing.limit /\ listing'.filter = listing.filter
       /\ listing'.cursor = (IF more THEN least ELSE listing.cursor)
       /\ listing' \in [filter : Filters \cup {"all"}, limit : PageLimits \cup {1}, cursor : RowKeys \cup {NoCursor}]
  <2>1. listing \in [filter : Filters \cup {"all"}, limit : PageLimits \cup {1}, cursor : RowKeys \cup {NoCursor}]
    BY <1>2 DEF WBTypeOK
  <2> HIDE DEF least, more
  <2> QED BY <1>1, <1>12, <2>1
<1>14. more => \A m \in kept : m = least \/ Ahead(m, least)
  BY <1>10, <1>11
<1> HIDE DEF least
<1>15. WBTypeOK'
  <2>1. listedKeys' \subseteq RowKeys /\ again' \subseteq RowKeys
    <3> HIDE DEF kept
    <3> QED BY <1>1, <1>2, <1>7, <1>9 DEF WBTypeOK
  <2>2. nextDesk' \in 0..(Desks + 1) /\ complete' \in BOOLEAN
    BY <1>1, <1>5
  <2> HIDE DEF kept, more
  <2> QED BY <1>1, <1>2, <1>13, <2>1, <2>2 DEF WBTypeOK
<1>16. ListedBefore'
  <2> SUFFICES ASSUME more, NEW k \in listedKeys \cup kept PROVE ~Past(k)'
    BY <1>1 DEF ListedBefore
  <2>1. listing'.cursor = least
    BY <1>13
  <2>2. k \in RowKeys /\ least \in RowKeys /\ least # NoCursor
    BY <1>2, <1>7, <1>12 DEF WBTypeOK
  <2>3. ~Ahead(least, k)
    <3>1. CASE k \in kept
      BY <1>14, <2>2, <3>1, KeysInOrder
    <3>2. CASE k \in listedKeys
      <4>1. listing.cursor # NoCursor /\ ~Ahead(listing.cursor, k)
        BY <1>8, <3>2 DEF Past
      <4>2. Past(least)
        BY <1>6, <1>7, <1>12
      <4>3. Ahead(listing.cursor, least) /\ listing.cursor \in RowKeys
        BY <1>3, <4>1, <4>2 DEF Past
      <4> QED BY <2>2, <4>1, <4>3, KeysInOrder
    <3> QED BY <3>1, <3>2
  <2> QED BY <2>1, <2>2, <2>3 DEF Past
<1>17. GatheredPast' /\ DesksLooked'
  BY <1>1 DEF WorkbenchStrong, GatheredPast, DesksLooked
<1>18. OwnDesk'
  <2> HIDE DEF kept
  <2> QED BY <1>1, <1>7 DEF WorkbenchStrong, OwnDesk
<1>19. AllAccounted'
  <2> SUFFICES ASSUME NEW u \in untouched'
               PROVE  Fits(u[1], u[2])' /\ (u[1] \in AlwaysRead' => Accounted(u)')
    BY DEF AllAccounted
  <2>1. Fits(u[1], u[2]) /\ (u[1] \in AlwaysRead => Accounted(u))
    BY <1>1 DEF WorkbenchStrong, AllAccounted
  <2>2. Fits(u[1], u[2])'
    BY <1>1, <1>13, <2>1 DEF Fits
  <2>3. ASSUME u[1] \in AlwaysRead' PROVE Accounted(u)'
    <3> DEFINE k == KeyOf(ShownBy(u[1]), u[2])
    <3>1. u[1] \in AlwaysRead /\ u[1] \notin missed
      BY <1>1, <2>3 DEF AlwaysRead
    <3>2. k' = k
      BY <1>1 DEF KeyOf
    <3>3. ShownBy(u[1]) \in 1..Desks /\ PlaceOf[ShownBy(u[1])] = u[1]
      BY <3>1, OwnDeskThere DEF AlwaysRead
    <3>4. k \in RowKeys
      <4>1. u[2] \in TaskNumbers
        BY <1>1, <1>2 DEF WBTypeOK
      <4> QED BY <1>2, <2>1, <3>3, <4>1, KeyTyped
    <3>5. CASE k \in listedKeys \/ k \in kept
      BY <1>1, <3>2, <3>5 DEF Accounted
    <3>6. CASE k \notin listedKeys /\ k \notin kept
      <4>1. u[1] \in looked
        <5>1. PlaceOf[ShownBy(u[1])] \in looked \cup missed
          <6>1. ShownBy(u[1]) \in 1..(nextDesk - 1)
            BY <1>1, <1>5, <3>3
          <6> QED BY <1>5, <6>1 DEF WorkbenchStrong, DesksLooked
        <5> QED BY <3>1, <3>3, <5>1
      <4>2. k \in gathered \/ Behind(k)
        BY <1>5, <2>1, <3>1, <3>6, <4>1 DEF Accounted
      <4>3. Cardinality(Before(k, gathered)) \in Nat
        BY <1>4, <3>4, MoreBefore
      <4>4. Cardinality(Before(k, gathered)) >= listing.limit
        <5>1. CASE k \in gathered
          BY <1>3, <3>6, <4>3, <5>1, TopIs
        <5>2. CASE Behind(k)
          BY <5>2 DEF Behind
        <5> QED BY <4>2, <5>1, <5>2
      <4>5. more
        <5>1. CASE k \in gathered
          <6>1. Cardinality(Before(k, gathered)) < Cardinality(gathered)
            BY <1>4, <3>4, <5>1, MoreBefore
          <6> QED BY <1>3, <1>4, <4>3, <4>4, <6>1
        <5>2. CASE Behind(k)
          BY <5>2 DEF Behind
        <5> QED BY <4>2, <5>1, <5>2
      <4>6. Ahead(least, k)
        BY <1>3, <1>4, <1>12, <3>4, <4>4, <4>5, TopAhead
      <4>7. listing'.cursor = least /\ ~complete' /\ nextDesk' = 0
        BY <1>1, <1>13, <4>5
      <4>8. Past(k)'
        BY <3>2, <4>6, <4>7 DEF Past
      <4> QED BY <4>7, <4>8 DEF Accounted
    <3> QED BY <3>5, <3>6
  <2> QED BY <2>2, <2>3
<1>20. NoneLeftOut' /\ NoneTwice'
  <2>1. (WBTypeOK /\ again = {} /\ OwnDesk /\ AllAccounted => NoneLeftOut /\ NoneTwice)'
    BY PromisesFollow, PTL
  <2> QED BY <1>9, <1>15, <1>18, <1>19, <2>1
<1> QED BY <1>15, <1>16, <1>17, <1>18, <1>19, <1>20 DEF WorkbenchStrong, WorkbenchInv

\* workbench.rs, taskdock.rs: the pages of the list of tasks, each put together from
\* stores read at different moments, leave out no task that was left alone, of a
\* directory that could be read, and show none twice.
THEOREM TaskListSafe == WBSpec => []WorkbenchInv
<1>1. WBInit => WorkbenchStrong
  BY ListingBegins
<1>2. WorkbenchStrong /\ [WBNext]_wbvars => WorkbenchStrong'
  <2> SUFFICES ASSUME WorkbenchStrong, [WBNext]_wbvars PROVE WorkbenchStrong'
    OBVIOUS
  <2>1. CASE UNCHANGED wbvars
    <3>1. UNCHANGED <<rows, now, away, listing, nextDesk, looked, gathered, further, listedKeys, again, missed,
                      untouched, complete, touches, listings, absences>>
      BY <2>1 DEF wbvars
    <3>2. WBTypeOK'
      BY <3>1 DEF WorkbenchStrong, WorkbenchInv, WBTypeOK
    <3> QED BY <3>1, <3>2, OthersMove
  <2>2. CASE WBNext
    <3>1. ASSUME NEW d \in Directories, NEW t \in TaskNumbers,
                 \/ NewTask(d, t) \/ (\E s \in States : Checkpointed(d, t, s))
                 \/ (\E s \in Lives : JobMoves(d, t, s))
                 \/ \E end \in {"passed", "failed", "stopped"} : JobOver(d, t, end)
          PROVE  WorkbenchStrong'
      BY <3>1, TasksMove
    <3> QED BY <2>2, <3>1, AbsencesKeep, StartKeeps, NextKeeps, GatherKeeps, PageShown DEF WBNext
  <2> QED BY <2>1, <2>2
<1>3. WorkbenchStrong => WorkbenchInv
  BY DEF WorkbenchStrong
<1> QED BY <1>1, <1>2, <1>3, PTL DEF WBSpec
=============================================================================
