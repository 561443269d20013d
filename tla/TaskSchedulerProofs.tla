------------------------ MODULE TaskSchedulerProofs ------------------------
(***************************************************************************)
(* Theorems about the queue of ChatGPT tasks, for any valid batches, any   *)
(* owner and any crashes: a prompt is posted at most once, nothing that    *)
(* may have been sent is prepared again, and tasks start in the order of   *)
(* their dependencies.                                                     *)
(***************************************************************************)
EXTENDS TaskScheduler, WellFoundedInduction, TLAPS

-----------------------------------------------------------------------------
(* The inductive invariant.                                                *)

Dispatching == {"stage", "staged", "prepared", "send", "answered"}
Working == {"scan"} \cup Dispatching

\* Whoever works holds the lock.
Locked ==
  /\ pc \in {"down", "launched", "idle", "closing"} \cup Working
  /\ lock = "scheduler" <=> pc \notin {"down", "launched"}
  /\ lock = "agent" <=> agent = "archived"

\* The scan walks through published batches, and a request is under way.
Walk ==
  /\ pc \in Working => todo \subseteq inbox
  /\ pc \in Dispatching => todo # {} /\ at \in DOMAIN TaskSeq[Current]

\* Where the scheduler is determines what the row of its request says.
RowAtPc ==
  /\ pc \in {"stage", "staged"} => row[Request].status = "preparing"
  /\ pc = "prepared" => row[Request].status = "prepared"
  /\ pc \in {"send", "answered"} => row[Request].status = "unknown"
  /\ pc = "answered" => ans \in {"sent", "unknown"}

PostedTried == \A q \in Requests : posted[q] > 0 => q \in tried
AnswerPosted == \A q \in Requests : receipt[q] # "none" => posted[q] > 0
CompletedHasReceipt ==
  \A q \in Requests : row[q].status = "completed" => receipt[q] = "completed"

\* The owner is asked at the last failure, so a row that goes on has fewer.
FewFailures ==
  \A q \in Requests : row[q].status \in {"none", "waiting_client", "preparing"}
                        => row[q].failures < ForegroundLimit

\* A task the scan passes by: it is settled, or waits for another.
Task(b, i) == <<b, TaskSeq[b][i]>>
Passed(b, i) ==
  \/ row[Task(b, i)].status \in {"completed", "blocked"}
  \/ row[Task(b, i)].status \in {"none", "waiting_client"} /\ ~DepsDone(Task(b, i))

\* What is listed before an open request is passed by, also by the scan that is
\* under way, and a blocked batch has no open request.
OpenFirst ==
  \A b \in Batches : InOrder(b) =>
    \A k \in DOMAIN TaskSeq[b] : Open(Task(b, k)) =>
      \A i \in DOMAIN TaskSeq[b] : i < k => Passed(b, i)
ScanRight ==
  pc = "scan" /\ todo # {} /\ InOrder(Current) =>
    \A i \in DOMAIN TaskSeq[Current] : i < at => Passed(Current, i)
BlockedShut ==
  \A b \in Batches : InOrder(b) /\ batch[b] = "blocked" =>
    \A k \in DOMAIN TaskSeq[b] : ~Open(Task(b, k))

Ordered == OpenFirst /\ ScanRight /\ BlockedShut

Sending == SentStaysSent /\ PostedTried /\ AnswerPosted
Verified == DependenciesVerified /\ CompletedHasReceipt

QStrong == /\ TSTypeOK /\ Locked /\ Walk /\ RowAtPc /\ FewFailures
           /\ Sending /\ Verified /\ Ordered /\ SupersededUnsent

-----------------------------------------------------------------------------
(* Lemmas about the batches.                                               *)

\* A set of numbers that is not empty has a least element.
LEMMA Least ==
  ASSUME NEW S \in SUBSET Nat, S # {}
  PROVE  Min(S) \in S
<1> DEFINE R == OpToRel(<, Nat)
<1>1. PICK n \in S : \A m \in S : ~(<<m, n>> \in R)
  BY NatLessThanWellFounded, WFMin
<1>2. ASSUME NEW m \in S PROVE n <= m
  <2>1. m \in Nat /\ n \in Nat
    OBVIOUS
  <2>2. m < n => <<m, n>> \in R
    BY <2>1 DEF OpToRel
  <2>3. ~(m < n)
    BY <1>1, <2>2
  <2> QED BY <2>1, <2>3
<1> QED BY <1>2 DEF Min

\* The first of some batches is one of them; so the current one is still to do.
LEMMA FirstIsOne ==
  ASSUME NEW S \in SUBSET Batches, S # {}
  PROVE  FirstOf(S) \in S
<1> DEFINE T == {i \in DOMAIN BatchSeq : BatchSeq[i] \in S}
<1>1. T \in SUBSET Nat
  BY SchedulerAssumption
<1>2. T # {}
  BY DEF Batches, Range
<1>3. Min(T) \in T
  BY <1>1, <1>2, Least
<1> QED BY <1>3 DEF FirstOf

LEMMA CurrentTodo ==
  ASSUME todo \subseteq Batches, todo # {}
  PROVE  Current \in todo /\ Current \in Batches
BY FirstIsOne DEF Current

\* A row that is new, or reset, is a row.
LEMMA Rows ==
  /\ NoRow \in Row /\ NoRow.status = "none" /\ NoRow.failures = 0
  /\ \A s \in {"unknown", "completed", "blocked"}, e \in BOOLEAN :
       Only(s, e) \in Row /\ Only(s, e).status = s
<1>1. NoRow \in Row /\ NoRow.status = "none" /\ NoRow.failures = 0
  BY SchedulerAssumption DEF NoRow, Row, Clients
<1>2. \A s \in {"unknown", "completed", "blocked"}, e \in BOOLEAN :
        Only(s, e) \in Row /\ Only(s, e).status = s
  BY <1>1 DEF Only, Row
<1> QED BY <1>1, <1>2

\* A row that the owner's retry takes back.
Back(w) == [NoRow EXCEPT !.status = "waiting_client", !.window = w]
LEMMA RowTakenBack ==
  \A w \in BOOLEAN : /\ Back(w) \in Row
                     /\ Back(w).status = "waiting_client" /\ Back(w).failures = 0
BY Rows DEF Row, Back

LEMMA EnterTakesBack ==
  ASSUME EnterBatch, row \in [Requests -> Row], NEW q \in Requests
  PROVE  \/ row'[q] = row[q]
         \/ /\ \E w \in BOOLEAN : row'[q] = Back(w)
            /\ q[1] = Current /\ batch[q[1]] = "blocked" /\ ans # "no"
            /\ row[q].status = "blocked" /\ q \notin tried
<1>1. row[q].window \in BOOLEAN
  BY DEF Row
<1>2. PICK seen \in BOOLEAN :
        row' = [p \in Requests |->
                  IF ~(/\ p[1] = Current /\ batch[Current] = "blocked" /\ ans # "no"
                       /\ ProvenUnsent(p, ans = "confirmed" /\ seen))
                    THEN row[p]
                    ELSE Back(row[p].window \/ audit[p]["desktop"] = "unknown")]
  BY DEF EnterBatch, Back
<1>3. ProvenUnsent(q, ans = "confirmed" /\ seen) => row[q].status = "blocked" /\ q \notin tried
  BY DEF ProvenUnsent
<1>4. (row[q].window \/ audit[q]["desktop"] = "unknown") \in BOOLEAN
  OBVIOUS
<1> QED BY <1>2, <1>3, <1>4

\* What is at a place of a batch is a request, and no request has two places.
LEMMA TaskIsRequest ==
  ASSUME NEW b \in Batches, NEW i \in DOMAIN TaskSeq[b]
  PROVE  Task(b, i) \in Requests
BY SchedulerAssumption DEF Task, Requests, Tasks, TasksOf, Range

LEMMA RequestHasPlace ==
  ASSUME NEW q \in Requests
  PROVE  q[1] \in Batches /\ \E i \in DOMAIN TaskSeq[q[1]] : q = Task(q[1], i)
BY DEF Requests, Task, TasksOf, Range

LEMMA OnePlace ==
  ASSUME NEW b \in Batches, NEW i \in DOMAIN TaskSeq[b], NEW k \in DOMAIN TaskSeq[b],
         TaskSeq[b][i] = TaskSeq[b][k]
  PROVE  i = k
BY SchedulerAssumption DEF ValidBatch

\* A task's dependencies are requests of its batch.
LEMMA DependencyIsRequest ==
  ASSUME NEW q \in Requests, NEW d \in Deps[q[2]]
  PROVE  <<q[1], d>> \in Requests
BY SchedulerAssumption DEF Requests, Tasks, ValidBatch

\* The request under way.
LEMMA RequestUnderWay ==
  ASSUME TSTypeOK, todo # {}, at \in DOMAIN TaskSeq[Current]
  PROVE  /\ Current \in Batches /\ Current \in todo
         /\ Request \in Requests /\ Request = Task(Current, at) /\ Request[1] = Current
<1>1. Current \in todo /\ Current \in Batches
  BY CurrentTodo DEF TSTypeOK
<1> QED BY <1>1, TaskIsRequest DEF Request, Task

-----------------------------------------------------------------------------
(* Who writes what.                                                        *)

LEMMA WhoWrites ==
  ASSUME TSNext
  PROVE  /\ \/ row' = row
            \/ EnterBatch \/ TakeReceipt \/ Prepare \/ StageAnswered \/ MarkSend
            \/ SendAnswered \/ Elapse
         /\ \/ batch' = batch
            \/ EnterBatch \/ StageAnswered \/ LeaveBatch
            \/ \E s \in {"running", "attention"} : SetBatch(Current, s)
         /\ audit' = audit \/ StageCall
         /\ (tried' = tried /\ posted' = posted) \/ SendCall
         /\ receipt' = receipt \/ WriteReceipt
         /\ \/ inbox' = inbox /\ archived' = archived
            \/ PublishBatch \/ SupersedeUnsent \/ SupersedeEnds
         /\ \/ lock' = lock /\ agent' = agent
            \/ TakeOwnerLock \/ Close \/ SchedulerCrash \/ SupersedeUnsent \/ SupersedeEnds
         /\ \/ pause' = pause /\ stop' = stop /\ retry' = retry
            \/ TickBegin \/ AskPauseOrStop \/ ResumeLive \/ StartScheduler
BY DEF TSNext, SchedulerStep, Environment, Scan, Dispatch, TickBegin, EnterBatch, SkipTask,
         TakeReceipt, AwaitReceipt, AwaitClient, Prepare, LeaveBatch, TickEnd, StageCall,
         StageAnswered, PausedBeforeSend, MarkSend, SendCall, SendAnswered,
         TakeOwnerLock, Close, SchedulerCrash, AskPauseOrStop, ResumeLive,
         StartScheduler, RemoveStaleMarker, PublishBatch, SupersedeUnsent,
         SupersedeEnds, WriteReceipt, Elapse, files, world, owner

\* Where the scheduler goes.
LEMMA WhereTo ==
  ASSUME TSNext
  PROVE  \/ pc' = pc /\ UNCHANGED <<todo, at, ans>>
         \/ pc' \notin Working /\ todo' \in {todo, {}} /\ at' \in {at, 0}
         \/ TickBegin /\ pc' = "scan" /\ todo' = inbox /\ at' = 0
         \/ /\ SkipTask \/ TakeReceipt
            /\ pc' = pc /\ pc = "scan" /\ todo' = todo /\ at' = at + 1
         \/ pc' = pc /\ pc = "scan" /\ todo' \subseteq todo /\ at' \in {0, 1}
         \/ /\ Prepare \/ StageCall \/ StageAnswered \/ MarkSend \/ SendCall
            /\ AtTask \/ pc \in Dispatching
            /\ pc' \in Dispatching /\ todo' = todo /\ at' = at
<1> USE DEF AtTask, Return, Working, Dispatching
<1>1. CASE TickBegin \/ EnterBatch \/ SkipTask \/ TakeReceipt
  BY <1>1 DEF TickBegin, EnterBatch, SkipTask, TakeReceipt, proc
<1>2. CASE AwaitReceipt \/ AwaitClient \/ LeaveBatch \/ TickEnd
  BY <1>2 DEF AwaitReceipt, AwaitClient, LeaveBatch, TickEnd
<1>3. CASE Prepare \/ Dispatch
  BY <1>3 DEF Prepare, Dispatch, StageCall, StageAnswered, PausedBeforeSend, MarkSend,
     SendCall, SendAnswered
<1>4. CASE TakeOwnerLock \/ Close \/ Environment
  BY <1>4 DEF TakeOwnerLock, Close, Environment, SchedulerCrash, AskPauseOrStop,
     ResumeLive, StartScheduler, RemoveStaleMarker, PublishBatch, SupersedeUnsent,
     SupersedeEnds, WriteReceipt, Elapse, proc
<1> QED BY <1>1, <1>2, <1>3, <1>4 DEF TSNext, SchedulerStep, Scan

-----------------------------------------------------------------------------
(* What a step does to one row, and to the client's side of a request.     *)

AtWork == todo # {} /\ at \in DOMAIN TaskSeq[Current]

MoveOf(q, old, new) ==
  \/ /\ pc = "scan" /\ old \in {"none", "waiting_client"} /\ new = "preparing"
     /\ DepsDone(q) /\ batch'[q[1]] = "running"
  \/ /\ pc = "scan" /\ old \in InFlight /\ new \in {"completed", "blocked"}
     /\ receipt[q] = IF new = "completed" THEN "completed" ELSE "failed"
     /\ batch'[q[1]] = "running"
  \/ /\ pc = "staged" /\ old = "preparing"
     /\ new \in {"waiting_client", "blocked", "prepared"}
  \/ old = "prepared" /\ new = "unknown"
  \/ pc = "answered" /\ old = "unknown" /\ new = "sent"

\* Either the scheduler moves the row of its request, or the owner's resume
\* takes a row back that was never sent.
Moves(q) ==
  \/ row'[q].status = row[q].status
  \/ AtWork /\ pc \in Working /\ q = Request /\ MoveOf(q, row[q].status, row'[q].status)
  \/ /\ pc = "scan" /\ todo # {} /\ at = 0 /\ q[1] = Current
     /\ batch[q[1]] = "blocked" /\ q \notin tried /\ ans # "no"
     /\ row[q].status = "blocked" /\ row'[q].status = "waiting_client"

Posts(q) ==
  \/ posted'[q] = posted[q] /\ (q \in tried' <=> q \in tried)
  \/ AtWork /\ pc = "send" /\ q = Request /\ q \in tried' /\ posted'[q] >= posted[q]

Receives(q) ==
  \/ receipt'[q] = receipt[q]
  \/ posted[q] > 0 /\ receipt[q] \in {"none", "bad"}

\* The current batch stays the same while the list does.
LEMMA SameCurrent ==
  ASSUME todo' = todo PROVE Current' = Current
BY DEF Current

LEMMA SameRequest ==
  ASSUME todo' = todo, at' = at PROVE Request' = Request
BY SameCurrent DEF Request

LEMMA RowsMove ==
  ASSUME QStrong, TSNext, NEW q \in Requests
  PROVE  Moves(q)
<1> USE DEF QStrong
<1> row \in [Requests -> Row]
  BY DEF TSTypeOK
<1>0. AtTask => AtWork
  BY DEF AtTask, AtWork
<1>1. AtWork => Request \in Requests /\ Current \in Batches /\ Request[1] = Current
  BY RequestUnderWay DEF AtWork
<1>2. pc \in Dispatching => AtWork
  BY DEF Walk, AtWork
<1>3. batch \in [Batches -> {"queued", "running", "attention", "blocked", "completed"}]
  BY DEF TSTypeOK
<1>4. CASE EnterBatch
  <2>1. pc = "scan" /\ todo # {} /\ at = 0
    BY <1>4 DEF EnterBatch
  <2> QED BY <1>4, <2>1, EnterTakesBack, RowTakenBack DEF Moves
<1>5. CASE TakeReceipt
  BY <1>5, <1>0, <1>1, <1>3 DEF TakeReceipt, Moves, MoveOf, AtTask, Only, NoRow, Row, SetBatch, Working
<1>6. CASE Prepare
  BY <1>6, <1>0, <1>1, <1>3 DEF Prepare, Moves, MoveOf, AtTask, Row, SetBatch, Working
<1>7. CASE StageAnswered
  BY <1>7, <1>1, <1>2 DEF StageAnswered, Moves, MoveOf, RowAtPc, Row, SetRow, Dispatching, Working
<1>8. CASE MarkSend
  BY <1>8, <1>0, <1>1, <1>2
     DEF MarkSend, Moves, MoveOf, AtTask, RowAtPc, Row, Only, NoRow, Dispatching, Working
<1>9. CASE SendAnswered
  BY <1>9, <1>1, <1>2 DEF SendAnswered, Moves, MoveOf, RowAtPc, Row, SetRow, Dispatching, Working
<1>10. CASE Elapse
  BY <1>10 DEF Elapse, Moves, Row
<1>11. ASSUME row' = row PROVE Moves(q)
  BY <1>11 DEF Moves
<1> QED BY <1>4, <1>5, <1>6, <1>7, <1>8, <1>9, <1>10, <1>11, WhoWrites

LEMMA OthersMove ==
  ASSUME QStrong, TSNext, NEW q \in Requests
  PROVE  Posts(q) /\ Receives(q)
<1> USE DEF QStrong
<1>1. CASE SendCall
  BY <1>1 DEF SendCall, Posts, Receives, Walk, AtWork, Dispatching, TSTypeOK
<1>2. CASE WriteReceipt
  BY <1>2 DEF WriteReceipt, Posts, Receives, TSTypeOK, files
<1>3. ASSUME posted' = posted, tried' = tried, receipt' = receipt
      PROVE  Posts(q) /\ Receives(q)
  BY <1>3 DEF Posts, Receives
<1> QED BY <1>1, <1>2, <1>3, WhoWrites

-----------------------------------------------------------------------------
(* Types, the lock, and where the scheduler is.                            *)

LEMMA RowStep == ASSUME QStrong, TSNext PROVE row' \in [Requests -> Row]
<1> USE DEF QStrong
<1>1. row \in [Requests -> Row]
  BY DEF TSTypeOK
<1>2. \A s \in {"unknown", "completed", "blocked"}, e \in BOOLEAN : Only(s, e) \in Row
  BY Rows
<1>3. pc \in Dispatching => Request \in Requests
  BY RequestUnderWay DEF Walk
<1>4. CASE EnterBatch
  <2>1. \A q \in Requests : row'[q] = row[q] \/ \E w \in BOOLEAN : row'[q] = Back(w)
    BY <1>1, <1>4, EnterTakesBack
  <2>2. \A w \in BOOLEAN : Back(w) \in Row
    BY RowTakenBack
  <2>3. row' = [q \in Requests |-> row'[q]]
    BY <1>4 DEF EnterBatch
  <2> QED BY <1>1, <2>1, <2>2, <2>3
<1>5. CASE TakeReceipt
  BY <1>1, <1>2, <1>5 DEF TakeReceipt
<1>6. CASE Prepare
  BY <1>1, <1>6 DEF Prepare, Row, Clients
<1>7. CASE StageAnswered
  <2>1. Request \in Requests /\ row[Request] \in Row /\ row[Request].failures < ForegroundLimit
    BY <1>1, <1>3, <1>7 DEF StageAnswered, Dispatching, FewFailures, RowAtPc
  <2>2. row[Request].failures + 1 \in 0..ForegroundLimit
    BY <2>1, SchedulerAssumption DEF Row
  <2> QED BY <1>1, <1>7, <2>1, <2>2 DEF StageAnswered, Row, Clients, SetRow
<1>8. CASE MarkSend
  <2>1. Request \in Requests => row[Request].expired \in BOOLEAN
    BY <1>1 DEF Row
  <2> QED BY <1>1, <1>2, <1>8, <2>1 DEF MarkSend
<1>9. CASE SendAnswered
  BY <1>1, <1>9 DEF SendAnswered, SetRow, RowAtPc, Row
<1>10. CASE Elapse
  BY <1>1, <1>10 DEF Elapse, Row
<1>11. ASSUME row' = row PROVE row' \in [Requests -> Row]
  BY <1>1, <1>11
<1> QED BY <1>4, <1>5, <1>6, <1>7, <1>8, <1>9, <1>10, <1>11, WhoWrites

LEMMA FewFailuresStep == ASSUME QStrong, TSNext PROVE FewFailures'
<1> SUFFICES ASSUME NEW q \in Requests,
                    row'[q].status \in {"none", "waiting_client", "preparing"}
             PROVE  row'[q].failures < ForegroundLimit
  BY DEF FewFailures
<1> USE DEF QStrong
<1>1. row \in [Requests -> Row]
  BY DEF TSTypeOK
<1>2. row[q].status \in {"none", "waiting_client", "preparing"}
        => row[q].failures < ForegroundLimit
  BY DEF FewFailures
<1>3. CASE EnterBatch
  <2>1. row'[q] = row[q] \/ \E w \in BOOLEAN : row'[q] = Back(w)
    BY <1>1, <1>3, EnterTakesBack
  <2> QED BY <1>2, <2>1, RowTakenBack, SchedulerAssumption
<1>4. CASE TakeReceipt
  BY <1>1, <1>2, <1>4 DEF TakeReceipt, Only, NoRow
<1>5. CASE Prepare
  BY <1>1, <1>2, <1>5 DEF Prepare, Row
<1>6. CASE StageAnswered
  <2>1. row[q].failures \in Nat
    BY <1>1 DEF Row
  <2>2. CASE q # Request
    BY <1>1, <1>2, <1>6, <2>2 DEF StageAnswered, SetRow
  <2>3. CASE q = Request
    <3>1. row[q].status = "preparing" /\ row[q].failures < ForegroundLimit
      BY <1>2, <1>6, <2>3 DEF StageAnswered, RowAtPc
    <3>2. row'[q].failures = row[q].failures
          \/ (row'[q].failures = row[q].failures + 1 /\ row[q].failures + 1 < ForegroundLimit)
      <4> DEFINE n == row[q].failures + 1
      <4>1. \/ row' = [row EXCEPT ![q].client = "web"]
            \/ /\ ans = "busy" \/ ~(n >= ForegroundLimit)
               /\ row' = [row EXCEPT ![q].status = "waiting_client",
                            ![q].failures = IF ans = "busy" THEN @ ELSE n]
            \/ row'[q].status \in {"blocked", "prepared"}
        BY <1>1, <1>6, <2>3 DEF StageAnswered, SetRow, Row
      <4>2. ForegroundLimit \in Nat
        BY SchedulerAssumption
      <4>3. CASE row' = [row EXCEPT ![q].client = "web"]
        <5>1. row'[q] = [row[q] EXCEPT !.client = "web"] /\ row[q] \in Row
          BY <1>1, <4>3
        <5>2. row'[q].failures = row[q].failures
          BY <5>1 DEF Row
        <5> QED BY <5>2
      <4>4. CASE /\ ans = "busy" \/ ~(n >= ForegroundLimit)
                 /\ row' = [row EXCEPT ![q].status = "waiting_client",
                              ![q].failures = IF ans = "busy" THEN @ ELSE n]
        <5>1. row'[q].failures = IF ans = "busy" THEN row[q].failures ELSE n
          BY <1>1, <4>4 DEF Row
        <5>2. ans = "busy" \/ n < ForegroundLimit
          BY <2>1, <4>2, <4>4
        <5> QED BY <5>1, <5>2
      <4> QED BY <4>1, <4>3, <4>4
    <3> QED BY <3>1, <3>2
  <2> QED BY <2>2, <2>3
<1>7. CASE MarkSend
  BY <1>1, <1>2, <1>7 DEF MarkSend, Only, NoRow
<1>8. CASE SendAnswered
  BY <1>1, <1>2, <1>8 DEF SendAnswered, SetRow, RowAtPc, Row
<1>9. CASE Elapse
  BY <1>1, <1>2, <1>9 DEF Elapse, Row
<1>10. ASSUME row' = row PROVE row'[q].failures < ForegroundLimit
  BY <1>2, <1>10
<1> QED BY <1>3, <1>4, <1>5, <1>6, <1>7, <1>8, <1>9, <1>10, WhoWrites

LEMMA TypeStep == ASSUME QStrong, TSNext PROVE TSTypeOK'
<1> USE DEF QStrong, TSTypeOK
<1>1. row' \in [Requests -> Row]
  BY RowStep
<1>2. inbox' \subseteq Batches /\ archived' \subseteq {Old}
  BY WhoWrites, SchedulerAssumption DEF PublishBatch, SupersedeUnsent, SupersedeEnds
<1>3. batch' \in [Batches -> {"queued", "running", "attention", "blocked", "completed"}]
  BY WhoWrites DEF EnterBatch, StageAnswered, LeaveBatch, SetBatch
<1>4. audit' \in [Requests -> [Clients ->
        {"none", "prepared", "blocked", "busy", "foreground", "unknown"}]]
  <2>1. CASE StageCall
    <3>1. Request \in Requests
      BY <2>1, RequestUnderWay DEF StageCall, Walk, Dispatching
    <3>2. row[Request].client \in Clients
      BY <3>1 DEF Row
    <3> QED BY <2>1, <3>1, <3>2 DEF StageCall
  <2> QED BY <2>1, WhoWrites
<1>5. tried' \subseteq Requests /\ posted' \in [Requests -> 0..1]
  <2>1. CASE SendCall
    <3>1. Request \in Requests
      BY <2>1, RequestUnderWay DEF SendCall, Walk, Dispatching
    <3>2. Request \notin tried => posted[Request] = 0
      BY <3>1 DEF Sending, PostedTried
    <3> QED BY <2>1, <3>1, <3>2 DEF SendCall
  <2> QED BY <2>1, WhoWrites
<1>6. receipt' \in [Requests -> {"none", "bad", "completed", "failed"}]
  BY WhoWrites DEF WriteReceipt, Verdicts
<1>7. lock' \in {"none", "scheduler", "agent"} /\ agent' \in {"none", "archived"}
  BY WhoWrites DEF TakeOwnerLock, Close, SchedulerCrash, SupersedeUnsent, SupersedeEnds
<1>8. retry' \in {"no", "plain", "confirmed"}
  BY WhoWrites DEF TickBegin, AskPauseOrStop, ResumeLive, StartScheduler, RetryRequests
<1>9. pause' \in BOOLEAN
  BY Zenon, WhoWrites DEF TickBegin, AskPauseOrStop, ResumeLive, StartScheduler
<1>10. stop' \in BOOLEAN
  BY Zenon, WhoWrites DEF TickBegin, AskPauseOrStop, ResumeLive, StartScheduler
<1>11. todo' \subseteq Batches /\ at' \in Nat
  BY WhereTo
<1> QED BY <1>1, <1>2, <1>3, <1>4, <1>5, <1>6, <1>7, <1>8, <1>9, <1>10, <1>11

LEMMA LockedStep == ASSUME QStrong, TSNext PROVE Locked'
<1> USE DEF QStrong, Locked, Working, Dispatching
<1>1. CASE TakeOwnerLock
  BY <1>1 DEF TakeOwnerLock
<1>2. CASE Close \/ SchedulerCrash
  BY <1>2 DEF Close, SchedulerCrash
<1>3. CASE SupersedeUnsent \/ SupersedeEnds
  BY <1>3 DEF SupersedeUnsent, SupersedeEnds, QueueStopped, proc
<1>4. CASE StartScheduler
  BY <1>4 DEF StartScheduler
<1>5. ASSUME lock' = lock, agent' = agent,
             \/ pc' = pc
             \/ /\ pc \in {"idle"} \cup Working
                /\ pc' \in {"idle", "closing"} \cup Working
      PROVE  Locked'
  BY <1>5
<1> QED BY <1>1, <1>2, <1>3, <1>4, <1>5
     DEF TSNext, SchedulerStep, Environment, Scan, Dispatch, TickBegin, EnterBatch, SkipTask,
         TakeReceipt, AwaitReceipt, AwaitClient, Prepare, LeaveBatch, TickEnd, StageCall,
         StageAnswered, PausedBeforeSend, MarkSend, SendCall, SendAnswered,
         TakeOwnerLock, Close, SchedulerCrash, AskPauseOrStop, ResumeLive,
         StartScheduler, RemoveStaleMarker, PublishBatch, SupersedeUnsent,
         SupersedeEnds, WriteReceipt, Elapse, AtTask, Return, proc

\* A step that leads to the client's side keeps the request under way.
LEMMA WalkMoves ==
  ASSUME QStrong, TSNext, pc' \in Dispatching
  PROVE  todo' = todo /\ at' = at /\ AtWork
<1>1. todo # {} => Current \in Batches
  BY CurrentTodo DEF QStrong, TSTypeOK
<1>2. AtTask => AtWork
  BY <1>1, SchedulerAssumption DEF AtTask, AtWork
<1> QED BY <1>2, WhereTo DEF QStrong, Walk, AtWork, Dispatching, Working

LEMMA WalkStep == ASSUME QStrong, TSNext PROVE Walk'
<1> USE DEF QStrong
<1>1. pc' \in Working => todo' \subseteq inbox'
  <2>1. CASE SupersedeUnsent
    BY <2>1 DEF SupersedeUnsent, QueueStopped, Locked, Working, Dispatching, proc
  <2>2. CASE ~SupersedeUnsent
    <3>1. inbox \subseteq inbox'
      BY <2>2, WhoWrites DEF PublishBatch, SupersedeEnds
    <3> QED BY <3>1, WhereTo DEF Walk, AtTask, Working
  <2> QED BY <2>1, <2>2
<1>2. pc' \in Dispatching => todo' # {} /\ at' \in DOMAIN TaskSeq[Current']
  BY WalkMoves, SameCurrent DEF AtWork
<1> QED BY <1>1, <1>2 DEF Walk

LEMMA RowAtPcStep == ASSUME QStrong, TSNext PROVE RowAtPc'
<1> SUFFICES ASSUME pc' \in Dispatching
             PROVE  RowAtPc'
  BY DEF RowAtPc, Dispatching
<1> USE DEF QStrong
<1>1. todo' = todo /\ at' = at /\ AtWork
  BY WalkMoves
<1>2. Request' = Request /\ Request \in Requests
  BY <1>1, SameRequest, RequestUnderWay DEF AtWork
<1>3. row \in [Requests -> Row]
  BY DEF TSTypeOK
<1>4. CASE Prepare
  BY <1>2, <1>3, <1>4 DEF Prepare, RowAtPc, Row
<1>5. CASE StageCall
  BY <1>2, <1>5 DEF StageCall, RowAtPc
<1>6. CASE StageAnswered
  BY <1>2, <1>3, <1>6 DEF StageAnswered, RowAtPc, Dispatching, Return, SetRow, Row
<1>7. CASE MarkSend
  BY <1>2, <1>3, <1>7 DEF MarkSend, RowAtPc, Only, NoRow, Row
<1>8. CASE SendCall
  BY <1>2, <1>8 DEF SendCall, RowAtPc
<1>9. CASE Elapse
  BY <1>2, <1>3, <1>9 DEF Elapse, RowAtPc, Row, proc
<1>10. ASSUME row' = row, pc' = pc, ans' = ans PROVE RowAtPc'
  BY <1>2, <1>10 DEF RowAtPc
<1>11. ASSUME EnterBatch \/ TakeReceipt \/ SendAnswered PROVE FALSE
  BY <1>11 DEF EnterBatch, TakeReceipt, SendAnswered, AtTask, Return, Dispatching
<1> QED BY <1>4, <1>5, <1>6, <1>7, <1>8, <1>9, <1>10, <1>11, WhoWrites, WhereTo
        DEF Dispatching, Working

-----------------------------------------------------------------------------
(* Sending and receipts.                                                   *)

LEMMA SendingStep == ASSUME QStrong, TSNext PROVE Sending'
<1> SUFFICES ASSUME NEW q \in Requests
             PROVE  /\ q \in tried' \/ posted'[q] > 0 =>
                         row'[q].status \in {"unknown", "sent", "completed", "blocked"}
                    /\ posted'[q] > 0 => q \in tried'
                    /\ receipt'[q] # "none" => posted'[q] > 0
  BY DEF Sending, SentStaysSent, PostedTried, AnswerPosted
<1>1. Moves(q) /\ Posts(q) /\ Receives(q)
  BY RowsMove, OthersMove
<1>2. /\ q \in tried \/ posted[q] > 0 =>
              row[q].status \in {"unknown", "sent", "completed", "blocked"}
      /\ posted[q] > 0 => q \in tried
      /\ receipt[q] # "none" => posted[q] > 0
  BY DEF QStrong, Sending, SentStaysSent, PostedTried, AnswerPosted
<1>3. receipt'[q] # "none" => posted'[q] > 0
  <2>1. posted[q] \in 0..1 /\ posted'[q] \in 0..1
    BY TypeStep DEF QStrong, TSTypeOK
  <2> QED BY <1>1, <1>2, <2>1 DEF Posts, Receives
<1>4. CASE posted'[q] = posted[q] /\ (q \in tried' <=> q \in tried)
  BY <1>1, <1>2, <1>3, <1>4 DEF Moves, MoveOf
<1>5. CASE AtWork /\ pc = "send" /\ q = Request /\ q \in tried'
  BY <1>1, <1>3, <1>5 DEF Moves, MoveOf, QStrong, RowAtPc
<1> QED BY <1>1, <1>4, <1>5 DEF Posts

LEMMA VerifiedStep == ASSUME QStrong, TSNext PROVE Verified'
<1>1. ASSUME NEW q \in Requests, row'[q].status = "completed"
      PROVE  receipt'[q] = "completed"
  <2>1. Moves(q) /\ Receives(q)
    BY RowsMove, OthersMove
  <2> QED BY <1>1, <2>1
       DEF Moves, MoveOf, Receives, QStrong, Verified, CompletedHasReceipt
<1>2. ASSUME NEW q \in Requests, row'[q].status # "none", NEW d \in Deps[q[2]]
      PROVE  receipt'[<<q[1], d>>] = "completed"
  <2>1. Moves(q) /\ Receives(<<q[1], d>>) /\ <<q[1], d>> \in Requests
    BY RowsMove, OthersMove, DependencyIsRequest
  <2>2. row[q].status # "none" \/ DepsDone(q)
    BY <1>2, <2>1 DEF Moves, MoveOf, InFlight
  <2>3. receipt[<<q[1], d>>] = "completed"
    BY <2>1, <2>2 DEF QStrong, Verified, DependenciesVerified, CompletedHasReceipt, DepsDone
  <2> QED BY <2>1, <2>3 DEF Receives
<1> QED BY <1>1, <1>2 DEF Verified, DependenciesVerified, CompletedHasReceipt

-----------------------------------------------------------------------------
(* The order in a batch.                                                   *)

LEMMA PassedIsShut ==
  ASSUME NEW b \in Batches, NEW i \in DOMAIN TaskSeq[b], Passed(b, i)
  PROVE  ~Open(Task(b, i))
BY DEF Passed, Open, InFlight

\* No two places of a batch in order are open.
LEMMA OneOpen ==
  ASSUME OpenFirst, NEW b \in Batches, InOrder(b),
         NEW i \in DOMAIN TaskSeq[b], NEW k \in DOMAIN TaskSeq[b],
         Open(Task(b, i)), Open(Task(b, k))
  PROVE  i = k
<1>1. i \in Nat /\ k \in Nat
  BY SchedulerAssumption
<1>2. ~(i < k) /\ ~(k < i)
  BY PassedIsShut DEF OpenFirst
<1> QED BY <1>1, <1>2

\* What has been passed by, with all before it, stays so, unless the owner's
\* retry takes the batch back.
LEMMA PassedStays ==
  ASSUME QStrong, TSNext, NEW b \in Batches, InOrder(b), NEW i \in DOMAIN TaskSeq[b],
         \A j \in DOMAIN TaskSeq[b] : j <= i => Passed(b, j),
         batch[b] # "blocked" \/ at # 0
  PROVE  Passed(b, i)'
<1> DEFINE p == Task(b, i)
<1>0. i \in Nat
  BY SchedulerAssumption
<1>1. p \in Requests /\ p[1] = b /\ p[2] = TaskSeq[b][i] /\ Moves(p) /\ Passed(b, i)
  BY <1>0, TaskIsRequest, RowsMove DEF Task
<1>2. row'[p].status = row[p].status
  BY <1>1 DEF Moves, MoveOf, Passed, InFlight
<1>3. CASE row[p].status \in {"completed", "blocked"}
  BY <1>2, <1>3 DEF Passed
<1>4. CASE row[p].status \in {"none", "waiting_client"} /\ ~DepsDone(p)
  <2>1. PICK d \in Deps[p[2]] : row[<<p[1], d>>].status # "completed"
    BY <1>4 DEF DepsDone
  <2>2. PICK j \in DOMAIN TaskSeq[b] : j < i /\ TaskSeq[b][j] = d
    BY <1>1, <2>1 DEF InOrder
  <2>3. j <= i
    BY <2>2, <1>0, SchedulerAssumption
  <2>4. Task(b, j) = <<p[1], d>> /\ Moves(Task(b, j)) /\ Passed(b, j)
    BY <1>1, <2>2, <2>3, TaskIsRequest, RowsMove DEF Task
  <2>5. row'[<<p[1], d>>].status # "completed"
    BY <2>1, <2>4 DEF Moves, MoveOf, Passed, InFlight
  <2>6. ~(\A e \in Deps[p[2]] : row'[<<p[1], e>>].status = "completed")
    BY <2>5
  <2> QED BY <1>2, <1>4, <2>6 DEF Passed, DepsDone, Task
<1> QED BY <1>1, <1>3, <1>4 DEF Passed

LEMMA OpenFirstStep == ASSUME QStrong, TSNext PROVE OpenFirst'
<1> SUFFICES ASSUME NEW b \in Batches, InOrder(b),
                    NEW k \in DOMAIN TaskSeq[b], Open(Task(b, k))',
                    NEW i \in DOMAIN TaskSeq[b], i < k
             PROVE  Passed(b, i)'
  BY DEF OpenFirst, InOrder
<1> DEFINE q == Task(b, k)
<1>1. q \in Requests /\ q[1] = b /\ Moves(q) /\ i \in Nat /\ k \in Nat
  BY TaskIsRequest, RowsMove, SchedulerAssumption DEF Task
<1>2. CASE Open(q)
  <2>1. \A j \in DOMAIN TaskSeq[b] : j < k => Passed(b, j)
    BY <1>2 DEF QStrong, Ordered, OpenFirst
  <2>2. \A j \in DOMAIN TaskSeq[b] : j <= i => j < k
    BY <1>1, SchedulerAssumption
  <2>3. batch[b] # "blocked"
    BY <1>2 DEF QStrong, Ordered, BlockedShut
  <2> QED BY <2>1, <2>2, <2>3, PassedStays
<1>3. CASE ~Open(q)
  <2>1. AtWork /\ pc = "scan" /\ q = Request
    BY <1>1, <1>3 DEF Moves, MoveOf, Open, InFlight
  <2>2. Current = b /\ Request = Task(b, at) /\ at \in DOMAIN TaskSeq[b]
    BY <1>1, <2>1, RequestUnderWay DEF AtWork, QStrong
  <2>3. at = k
    BY <2>1, <2>2, OnePlace DEF Task
  <2>4. \A j \in DOMAIN TaskSeq[b] : j < at => Passed(b, j)
    BY <2>1, <2>2 DEF QStrong, Ordered, ScanRight, AtWork
  <2>5. \A j \in DOMAIN TaskSeq[b] : j <= i => j < at
    BY <1>1, <2>3, SchedulerAssumption
  <2>6. at # 0
    BY <2>2, SchedulerAssumption
  <2> QED BY <2>4, <2>5, <2>6, PassedStays
<1> QED BY <1>2, <1>3

LEMMA ScanRightStep == ASSUME QStrong, TSNext PROVE ScanRight'
<1> SUFFICES ASSUME pc' = "scan", todo' # {}, InOrder(Current'),
                    NEW i \in DOMAIN TaskSeq[Current'], i < at'
             PROVE  Passed(Current, i)'
  BY DEF ScanRight, InOrder
<1> USE DEF QStrong
<1>0. PICK b : b = Current
  OBVIOUS
<1>1. ASSUME pc = "scan", todo' = todo, at' = at
      PROVE  Passed(Current, i)'
  <2>1. Current' = b /\ b \in Batches /\ i \in DOMAIN TaskSeq[b] /\ i < at
    BY <1>0, <1>1, SameCurrent, CurrentTodo DEF TSTypeOK
  <2>2. at # 0 /\ \A j \in DOMAIN TaskSeq[b] : j <= i => j < at
    BY <2>1, SchedulerAssumption DEF TSTypeOK
  <2>3. \A j \in DOMAIN TaskSeq[b] : j < at => Passed(b, j)
    BY <1>0, <1>1, <2>1 DEF Ordered, ScanRight
  <2>4. Passed(b, i)'
    BY <2>1, <2>2, <2>3, PassedStays
  <2> QED BY <2>1, <2>4 DEF Passed, Task, DepsDone
<1>2. ASSUME AtTask, todo' = todo, at' = at + 1,
             row'[Request].status \in {"completed", "blocked"} \/ (row' = row /\ Passed(b, at))
      PROVE  Passed(Current, i)'
  <2>1. Current' = b /\ b \in Batches /\ i \in DOMAIN TaskSeq[b] /\ i < at + 1
        /\ Request = Task(b, at) /\ at \in DOMAIN TaskSeq[b] /\ at \in Nat /\ i \in Nat
    BY <1>0, <1>2, SameCurrent, CurrentTodo, SchedulerAssumption
       DEF TSTypeOK, AtTask, Request, Task
  <2>2. CASE i < at
    <3>1. at # 0 /\ \A j \in DOMAIN TaskSeq[b] : j <= i => j < at
      BY <2>1, <2>2, SchedulerAssumption
    <3>2. \A j \in DOMAIN TaskSeq[b] : j < at => Passed(b, j)
      BY <1>0, <1>2, <2>1 DEF Ordered, ScanRight, AtTask
    <3>3. Passed(b, i)'
      BY <2>1, <3>1, <3>2, PassedStays
    <3> QED BY <2>1, <3>3 DEF Passed, Task, DepsDone
  <2>3. CASE i = at
    BY <1>2, <2>1, <2>3 DEF Passed, Task, DepsDone
  <2> QED BY <2>1, <2>2, <2>3
<1>3. ASSUME at' \in {0, 1} PROVE FALSE
  <2>1. todo' \in SUBSET Batches
    BY TypeStep DEF TSTypeOK
  <2>2. Current' \in Batches
    BY <2>1, FirstIsOne DEF Current
  <2>3. i \in Nat /\ i # 0
    BY <2>2, SchedulerAssumption
  <2> QED BY <1>3, <2>3
<1>4. CASE SkipTask
  BY <1>0, <1>2, <1>4 DEF SkipTask, files, proc, Passed, Task, Request
<1>5. CASE TakeReceipt
  <2>1. Request \in Requests
    BY <1>5, RequestUnderWay, SchedulerAssumption DEF TakeReceipt, AtTask
  <2>2. row'[Request].status \in {"completed", "blocked"}
    BY <1>5, <2>1 DEF TakeReceipt, Only, NoRow, TSTypeOK
  <2> QED BY <1>2, <1>5, <2>2 DEF TakeReceipt
<1>6. CASE at' \in {0, 1}
  BY <1>3, <1>6
<1> QED
  BY <1>1, <1>4, <1>5, <1>6, WhereTo DEF Working, Dispatching

LEMMA BlockedShutStep == ASSUME QStrong, TSNext PROVE BlockedShut'
<1> SUFFICES ASSUME NEW b \in Batches, InOrder(b), batch'[b] = "blocked",
                    NEW k \in DOMAIN TaskSeq[b], Open(Task(b, k))'
             PROVE  FALSE
  BY DEF BlockedShut, InOrder
<1> USE DEF QStrong
<1> DEFINE q == Task(b, k)
<1>1. q \in Requests /\ q[1] = b /\ Moves(q)
  BY TaskIsRequest, RowsMove DEF Task
<1>2. Open(q)
  BY <1>1 DEF Moves, MoveOf, Open, InFlight
<1>3. batch[b] # "blocked"
  BY <1>2 DEF Ordered, BlockedShut
<1>4. batch \in [Batches -> {"queued", "running", "attention", "blocked", "completed"}]
  BY DEF TSTypeOK
<1>5. CASE StageAnswered
  <2>1. AtWork
    BY <1>5 DEF StageAnswered, Walk, AtWork, Dispatching
  <2>2. /\ Current \in Batches /\ Request \in Requests /\ Request = Task(Current, at)
        /\ at \in DOMAIN TaskSeq[Current]
    BY <2>1, RequestUnderWay DEF AtWork
  <2>3. Current = b /\ row'[Request].status = "blocked"
    BY <1>3, <1>4, <1>5, <2>2 DEF StageAnswered, SetBatch, TSTypeOK, Row
  <2>4. Open(Request)
    BY <1>5 DEF StageAnswered, RowAtPc, Open, InFlight
  <2>5. at # k
    BY <2>2, <2>3 DEF Open, InFlight
  <2>6. Open(Task(b, at)) /\ at \in DOMAIN TaskSeq[b]
    BY <2>2, <2>3, <2>4
  <2> QED BY <1>2, <2>5, <2>6, OneOpen DEF Ordered
<1>6. CASE LeaveBatch
  <2>1. Current = b /\ pc = "scan" /\ todo # {} /\ at = Len(TaskSeq[b]) + 1
    BY <1>3, <1>4, <1>6, CurrentTodo DEF LeaveBatch, SetBatch, TSTypeOK
  <2>2. k < at
    BY <2>1, SchedulerAssumption
  <2>3. Passed(b, k)
    BY <2>1, <2>2 DEF Ordered, ScanRight
  <2> QED BY <1>2, <2>3, PassedIsShut
<1>7. CASE EnterBatch
  BY <1>3, <1>4, <1>7, CurrentTodo DEF EnterBatch, SetBatch, TSTypeOK
<1>8. ASSUME batch' = batch PROVE FALSE
  BY <1>3, <1>8
<1>9. ASSUME NEW c, NEW s, s # "blocked", batch' = [batch EXCEPT ![c] = s] PROVE FALSE
  BY <1>3, <1>4, <1>9
<1>10. ASSUME NEW s \in {"running", "attention"}, SetBatch(Current, s) PROVE FALSE
  BY <1>9, <1>10 DEF SetBatch
<1> QED BY <1>5, <1>6, <1>7, <1>8, <1>10, WhoWrites

LEMMA OrderedStep == ASSUME QStrong, TSNext PROVE Ordered'
BY OpenFirstStep, ScanRightStep, BlockedShutStep DEF Ordered

-----------------------------------------------------------------------------
(* Superseded batches, and the theorems.                                   *)

LEMMA SupersededStep == ASSUME QStrong, TSNext PROVE SupersededUnsent'
<1> USE DEF QStrong
<1>1. agent' = "archived" => pc' \in {"down", "launched"}
  BY LockedStep DEF Locked
<1>2. ASSUME Old \in archived' \ inbox', NEW t \in TasksOf(Old)
      PROVE  posted'[<<Old, t>>] = 0 /\ ~Open(<<Old, t>>)'
  <2> DEFINE q == <<Old, t>>
  <2>1. q \in Requests /\ q[1] = Old /\ q[2] = t
    BY SchedulerAssumption DEF Requests, Tasks
  <2>2. Moves(q) /\ Posts(q)
    BY <2>1, RowsMove, OthersMove
  <2>3. CASE Old \in archived \ inbox
    <3>1. posted[q] = 0 /\ ~Open(q)
      BY <2>3 DEF SupersededUnsent
    <3>2. ASSUME AtWork, pc \in Working, q = Request PROVE FALSE
      BY <2>1, <2>3, <3>2, RequestUnderWay DEF Walk, AtWork
    <3>3. posted'[q] = 0
      BY <2>2, <3>1, <3>2 DEF Posts, Working, Dispatching
    <3>4. ~Open(q)'
      BY <2>2, <3>1, <3>2 DEF Moves, Open, InFlight
    <3> QED BY <3>3, <3>4
  <2>4. CASE SupersedeUnsent
    <3>1. row' = row /\ posted' = posted /\ Replaceable(Old)
      BY <2>4 DEF SupersedeUnsent, world
    <3>2. row[q].status \in {"none", "waiting_client", "blocked"} /\ q \notin tried
      BY <2>1, <3>1 DEF Replaceable, Sending, SentStaysSent
    <3>3. posted[q] = 0
      BY <2>1, <3>2 DEF Sending, PostedTried, TSTypeOK
    <3> QED BY <3>1, <3>2, <3>3 DEF Open, InFlight
  <2>5. Old \in archived \ inbox \/ SupersedeUnsent
    BY <1>2, WhoWrites DEF PublishBatch, SupersedeEnds
  <2> QED BY <2>3, <2>4, <2>5
<1> QED BY <1>1, <1>2 DEF SupersededUnsent

LEMMA QInit == TSInit => QStrong
<1> SUFFICES ASSUME TSInit PROVE QStrong
  OBVIOUS
<1> USE DEF TSInit
<1>1. NoRow \in Row
  BY SchedulerAssumption DEF NoRow, Row, Clients
<1>2. TSTypeOK
  <2>1. row \in [Requests -> Row] /\ audit \in [Requests -> [Clients -> {"none"}]]
        /\ batch \in [Batches -> {"queued"}]
    BY <1>1
  <2>2. pause \in BOOLEAN /\ stop \in BOOLEAN
    OBVIOUS
  <2>3. audit \in [Requests -> [Clients ->
          {"none", "prepared", "blocked", "busy", "foreground", "unknown"}]]
    OBVIOUS
  <2> QED BY <2>1, <2>2, <2>3, SchedulerAssumption DEF TSTypeOK
<1>3. \A q \in Requests : row[q].status = "none" /\ row[q].failures = 0
  BY DEF NoRow
<1>4. \A b \in Batches : \A k \in DOMAIN TaskSeq[b] : ~Open(Task(b, k))
  BY <1>3, TaskIsRequest DEF Open, InFlight
<1>5. Ordered
  BY <1>4 DEF Ordered, OpenFirst, ScanRight, BlockedShut
<1>6. Locked /\ Walk /\ RowAtPc /\ Sending /\ Verified /\ SupersededUnsent
  BY <1>3, DependencyIsRequest DEF Locked, Walk, RowAtPc, Working, Dispatching, Sending,
     SentStaysSent, PostedTried, AnswerPosted, Verified, DependenciesVerified,
     CompletedHasReceipt, SupersededUnsent
<1>7. FewFailures
  BY <1>3, SchedulerAssumption DEF FewFailures
<1> QED BY <1>2, <1>5, <1>6, <1>7 DEF QStrong

LEMMA QStep == QStrong /\ [TSNext]_tsvars => QStrong'
<1> SUFFICES ASSUME QStrong, [TSNext]_tsvars PROVE QStrong'
  OBVIOUS
<1>1. CASE TSNext
  BY <1>1, TypeStep, LockedStep, WalkStep, RowAtPcStep, FewFailuresStep, SendingStep,
     VerifiedStep, OrderedStep, SupersededStep DEF QStrong
<1>2. CASE UNCHANGED tsvars
  <2>1. /\ inbox' = inbox /\ archived' = archived /\ batch' = batch /\ row' = row
        /\ audit' = audit /\ tried' = tried /\ posted' = posted /\ receipt' = receipt
        /\ pause' = pause /\ stop' = stop /\ retry' = retry /\ lock' = lock /\ pc' = pc
        /\ todo' = todo /\ at' = at /\ ans' = ans /\ agent' = agent
    BY <1>2 DEF tsvars, files, world, owner, proc
  <2>2. Current' = Current /\ Request' = Request
    BY <2>1, SameCurrent, SameRequest
  <2>3. TSTypeOK' /\ Locked' /\ Walk' /\ RowAtPc' /\ FewFailures'
    BY <2>1, <2>2 DEF QStrong, TSTypeOK, Locked, Walk, RowAtPc, FewFailures
  <2>4. Sending' /\ Verified' /\ SupersededUnsent'
    BY <2>1 DEF QStrong, Sending, SentStaysSent, PostedTried, AnswerPosted,
       Verified, DependenciesVerified, CompletedHasReceipt, SupersededUnsent, Open
  <2>5. Ordered'
    BY <2>1, <2>2 DEF QStrong, Ordered, OpenFirst, ScanRight, BlockedShut, Passed, Open,
       DepsDone, InOrder
  <2> QED BY <2>3, <2>4, <2>5 DEF QStrong
<1> QED BY <1>1, <1>2

\* The invariant, from which the theorems follow.
LEMMA QAlways == TSSpec => []QStrong
BY QInit, QStep, PTL DEF TSSpec

\* No prompt is posted twice, whatever crashes, retries and lost answers come in
\* between; what may have been sent is never prepared again; a task starts only
\* on verified receipts of what it depends on, one at a time where the batch
\* lists them first; a superseded batch is never sent (scheduler.py,
\* submit_queue.py).
THEOREM QueueSafe == TSSpec => []QueueInv
<1>1. QStrong => QueueInv
  <2> SUFFICES ASSUME QStrong PROVE QueueInv
    OBVIOUS
  <2>1. SentOnce
    BY DEF QStrong, TSTypeOK, SentOnce
  <2>2. ASSUME NEW q \in Requests, NEW r \in Requests, q[1] = r[1], InOrder(q[1]),
               Open(q), Open(r)
        PROVE  q = r
    <3>1. PICK i \in DOMAIN TaskSeq[q[1]] : q = Task(q[1], i)
      BY RequestHasPlace
    <3>2. PICK k \in DOMAIN TaskSeq[q[1]] : r = Task(q[1], k)
      BY <2>2, RequestHasPlace
    <3>3. q[1] \in Batches
      BY RequestHasPlace
    <3> QED BY <2>2, <3>1, <3>2, <3>3, OneOpen DEF QStrong, Ordered
  <2>3. OneOpenPerBatch
    BY <2>2 DEF OneOpenPerBatch
  <2> QED BY <2>1, <2>3 DEF QStrong, QueueInv, Sending, Verified
<1> QED BY <1>1, QAlways, PTL

\* A settled task stays settled, but for a blocked one that was never sent and
\* that the owner's resume takes back (retry_unsent_preparation).
THEOREM SettledForGood == TSSpec => SettledStays
<1>1. QStrong /\ [TSNext]_tsvars =>
        [\A q \in Requests :
           row[q].status \in {"completed", "blocked"} /\ row'[q].status # row[q].status
             => row[q].status = "blocked" /\ posted[q] = 0 /\ ans # "no"]_tsvars
  <2> SUFFICES ASSUME QStrong, TSNext, NEW q \in Requests,
                      row[q].status \in {"completed", "blocked"},
                      row'[q].status # row[q].status
               PROVE  row[q].status = "blocked" /\ posted[q] = 0 /\ ans # "no"
    OBVIOUS
  <2>1. Moves(q)
    BY RowsMove
  <2>2. row[q].status = "blocked" /\ ans # "no" /\ q \notin tried
    BY <2>1 DEF Moves, MoveOf, InFlight
  <2>3. posted[q] = 0
    BY <2>2 DEF QStrong, Sending, PostedTried, TSTypeOK
  <2> QED BY <2>2, <2>3
<1> QED BY <1>1, QAlways, PTL DEF TSSpec, SettledStays

-----------------------------------------------------------------------------
(* The promise of QueuePromise.                                            *)

OrderNow == [q \in Requests |-> OrderOf(row[q].status)]
Gone == {q \in Requests : q[1] \in archived \ inbox}
Unheard == posted' = posted /\ receipt' = receipt /\ inbox' = inbox /\ archived' = archived

\* A step of one request, or of a set of them, is a step of the promise.
LEMMA OneStep ==
  ASSUME NEW q \in Requests,
         \/ Orders!Draft(q) \/ Orders!PutBack(q) \/ Orders!GiveUp(q) \/ Orders!Commit(q)
         \/ Orders!Post(q) \/ Orders!Answer(q) \/ Orders!Finish(q) \/ Orders!Refuse(q)
  PROVE  [Orders!Next]_(Orders!vars)
BY DEF Orders!Next

LEMMA SetStep ==
  ASSUME \/ \E S \in SUBSET Orders!Resumable : Orders!Resume(S)
         \/ \E S \in SUBSET Orders!Withdrawable : Orders!Withdraw(S)
         \/ \E S \in SUBSET Gone : Orders!Return(S)
  PROVE  [Orders!Next]_(Orders!vars)
BY DEF Orders!Next, Gone

LEMMA SameOrders ==
  ASSUME Unheard, \A q \in Requests : row'[q].status = row[q].status
  PROVE  UNCHANGED Orders!vars
BY DEF Unheard, Orders!vars

\* The row of one request changes, and nothing else that the promise is about.
LEMMA OneBecomes ==
  ASSUME Unheard, NEW q \in Requests,
         \A r \in Requests : r # q => row'[r].status = row[r].status
  PROVE  Orders!Becomes(q, OrderOf(row'[q].status))
BY DEF Orders!Becomes, Unheard

LEMMA RowsAlone ==
  ASSUME TSNext, row' # row
  PROVE  Unheard
BY WhoWrites DEF EnterBatch, TakeReceipt, Prepare, StageAnswered, MarkSend, SendAnswered,
  Elapse, world, files, Unheard

\* Only a request that was posted has an answer, so a request in flight that
\* takes one has been given away.
LEMMA AnsweredIsGiven ==
  ASSUME QStrong, NEW q \in Requests, row[q].status \in InFlight, receipt[q] # "none"
  PROVE  row[q].status \in {"unknown", "sent"}
BY DEF QStrong, Sending, SentStaysSent, AnswerPosted, InFlight

LEMMA InQueue ==
  ASSUME QStrong, AtWork, pc \in Working
  PROVE  Request \in Requests /\ Request \notin Gone
<1>1. Request \in Requests /\ Request[1] = Current /\ Current \in todo
  BY RequestUnderWay DEF QStrong, AtWork
<1> QED BY <1>1 DEF QStrong, Walk, Gone

\* The scheduler moves the row of one request, which is in the queue.
LEMMA RequestMoves ==
  ASSUME QStrong, Unheard, NEW q \in Requests, q \notin Gone,
         MoveOf(q, row[q].status, row'[q].status),
         \A r \in Requests : r # q => row'[r].status = row[r].status
  PROVE  [Orders!Next]_(Orders!vars)
<1> DEFINE old == OrderOf(row[q].status)
           new == OrderOf(row'[q].status)
<1>1. Orders!Becomes(q, new)
  BY OneBecomes
<1>2. CASE row[q].status \in {"none", "waiting_client"} /\ row'[q].status = "preparing" /\ DepsDone(q)
  <2>1. old = "waiting" /\ new = "drafted"
    BY <1>2 DEF OrderOf
  <2>2. \A d \in Deps[q[2]] : <<q[1], d>> \in Requests /\ OrderOf(row[<<q[1], d>>].status) = "done"
    BY <1>2, DependencyIsRequest DEF DepsDone, OrderOf
  <2>3. Orders!Draft(q)
    BY <1>1, <2>1, <2>2 DEF Orders!Draft, Gone
  <2> QED BY <2>3, OneStep
<1>3. CASE /\ row[q].status \in InFlight /\ row'[q].status \in {"completed", "blocked"}
           /\ receipt[q] = IF row'[q].status = "completed" THEN "completed" ELSE "failed"
  <2>1. old = "given"
    BY <1>3, AnsweredIsGiven DEF OrderOf
  <2>2. \/ new = "done" /\ receipt[q] = "completed"
        \/ new = "stuck" /\ receipt[q] = "failed"
    BY <1>3 DEF OrderOf
  <2>3. Orders!Finish(q) \/ Orders!Refuse(q)
    BY <1>1, <2>1, <2>2 DEF Orders!Finish, Orders!Refuse
  <2> QED BY <2>3, OneStep
<1>4. CASE row[q].status = "preparing" /\ row'[q].status \in {"waiting_client", "blocked"}
  <2>1. old = "drafted" /\ new \in {"waiting", "stuck"}
    BY <1>4 DEF OrderOf
  <2>2. Orders!PutBack(q) \/ Orders!GiveUp(q)
    BY <1>1, <2>1 DEF Orders!PutBack, Orders!GiveUp
  <2> QED BY <2>2, OneStep
<1>5. CASE row[q].status = "prepared" /\ row'[q].status = "unknown"
  <2>1. old = "drafted" /\ new = "given"
    BY <1>5 DEF OrderOf
  <2>2. Orders!Commit(q)
    BY <1>1, <2>1 DEF Orders!Commit
  <2> QED BY <2>2, OneStep
<1>6. CASE \/ row[q].status = "preparing" /\ row'[q].status = "prepared"
           \/ row[q].status = "unknown" /\ row'[q].status = "sent"
  <2>1. new = old
    BY <1>6 DEF OrderOf
  <2>2. UNCHANGED Orders!vars
    BY <1>1, <2>1 DEF Orders!Becomes, Orders!vars
  <2> QED BY <2>2
<1> QED BY <1>2, <1>3, <1>4, <1>5, <1>6 DEF MoveOf

\* The owner's resume takes rows back that were never sent.
LEMMA RowsTakenBack ==
  ASSUME QStrong, Unheard, pc = "scan", todo # {},
         \A q \in Requests :
           \/ row'[q].status = row[q].status
           \/ /\ q[1] = Current /\ q \notin tried
              /\ row[q].status = "blocked" /\ row'[q].status = "waiting_client"
  PROVE  [Orders!Next]_(Orders!vars)
<1> DEFINE S == {q \in Requests : row'[q].status # row[q].status}
<1>1. Current \in inbox
  BY CurrentTodo DEF QStrong, TSTypeOK, Walk, Working
<1>2. ASSUME NEW q \in S
      PROVE  q \in Orders!Resumable
  <2>1. posted[q] = 0
    BY DEF QStrong, Sending, PostedTried, TSTypeOK
  <2> QED BY <1>1, <2>1 DEF Orders!Resumable, OrderOf
<1>3. Orders!Resume(S)
  BY DEF Orders!Resume, OrderOf, Unheard
<1> QED BY <1>2, <1>3, SetStep

\* A prompt that is posted was given away and not posted before.
LEMMA PostKept ==
  ASSUME QStrong, TSNext, SendCall
  PROVE  [Orders!Next]_(Orders!vars)
<1>1. AtWork /\ pc \in Working
  BY DEF SendCall, QStrong, Walk, AtWork, Dispatching, Working
<1>2. PICK q \in Requests : q = Request /\ q \notin Gone
  BY <1>1, InQueue
<1>3. row' = row /\ receipt' = receipt /\ inbox' = inbox /\ archived' = archived
  BY DEF SendCall
<1>4. CASE posted' = posted
  BY <1>3, <1>4, SameOrders DEF Unheard
<1>5. CASE posted' # posted
  <2>1. posted \in [Requests -> 0..1]
    BY DEF QStrong, TSTypeOK
  <2>2. PICK n \in {0, 1} : posted' = [posted EXCEPT ![q] = posted[q] + n]
                           /\ (q \in tried => n = 0)
    BY <1>2, <2>1 DEF SendCall
  <2>3. posted[q] \in {0, 1}
    BY <2>1
  <2>4. n = 1
    <3>1. CASE n = 0
      <4>1. posted[q] + n = posted[q]
        BY <2>3, <3>1
      <4>2. posted' = [posted EXCEPT ![q] = posted[q]]
        BY <2>2, <4>1
      <4> QED BY <1>5, <2>1, <4>2
    <3> QED BY <3>1
  <2>5. posted[q] = 0
    <3>1. q \notin tried
      BY <2>2, <2>4
    <3> QED BY <2>3, <3>1 DEF QStrong, Sending, PostedTried
  <2>6. posted' = [posted EXCEPT ![q] = 1]
    <3>1. posted[q] + n = 1
      BY <2>4, <2>5
    <3> QED BY <2>2, <3>1
  <2>7. OrderOf(row[q].status) = "given"
    BY <1>2 DEF SendCall, QStrong, RowAtPc, OrderOf
  <2>8. Orders!Post(q)
    BY <1>2, <1>3, <2>5, <2>6, <2>7 DEF Orders!Post, Gone
  <2> QED BY <2>8, OneStep
<1> QED BY <1>4, <1>5

\* A result file is an answer to what was posted.
LEMMA AnswerKept ==
  ASSUME QStrong, WriteReceipt
  PROVE  [Orders!Next]_(Orders!vars)
<1>1. /\ row' = row /\ posted' = posted /\ inbox' = inbox /\ archived' = archived
  BY DEF WriteReceipt, files
<1>2. PICK q \in Requests :
        /\ posted[q] > 0 /\ receipt[q] \in {"none", "bad"}
        /\ \E r \in Verdicts : receipt' = [receipt EXCEPT ![q] = r]
  BY DEF WriteReceipt
<1>3. posted[q] = 1
  BY <1>2 DEF QStrong, TSTypeOK
<1>4. Orders!Answer(q)
  BY <1>1, <1>2, <1>3 DEF Orders!Answer, Verdicts
<1> QED BY <1>4, OneStep

\* What is published is in the queue, and what the agent takes out was not sent.
LEMMA BatchesKept ==
  ASSUME QStrong, PublishBatch \/ SupersedeUnsent \/ SupersedeEnds
  PROVE  [Orders!Next]_(Orders!vars)
<1>1. row' = row /\ posted' = posted /\ receipt' = receipt
  BY DEF PublishBatch, SupersedeUnsent, SupersedeEnds, world
<1>2. CASE PublishBatch \/ SupersedeEnds
  <2>1. archived' = archived /\ inbox \subseteq inbox'
    BY <1>2 DEF PublishBatch, SupersedeEnds
  <2>2. Gone' \subseteq Gone
    BY <2>1 DEF Gone
  <2>3. PICK S \in SUBSET Gone : Gone' = Gone \ S
    <3>1. Gone' = Gone \ (Gone \ Gone') /\ Gone \ Gone' \in SUBSET Gone
      BY <2>2
    <3> QED BY <3>1
  <2>4. Orders!Return(S)
    BY <1>1, <2>3 DEF Orders!Return, Gone
  <2> QED BY <2>4, SetStep
<1>3. CASE SupersedeUnsent
  <2> DEFINE S == {q \in Requests : q[1] = Old}
  <2>1. archived' = archived \cup {Old} /\ inbox' = inbox \ {Old}
    BY <1>3 DEF SupersedeUnsent
  <2>2. ASSUME NEW q \in S PROVE q \in Orders!Withdrawable
    <3>1. q[2] \in TasksOf(Old) /\ q = <<Old, q[2]>>
      BY DEF Requests
    <3>2. row[q].status \in {"none", "waiting_client", "blocked"} /\ q \notin tried
      BY <1>3, <3>1 DEF SupersedeUnsent, Replaceable, QStrong, Sending, SentStaysSent
    <3>3. posted[q] = 0
      BY <3>2 DEF QStrong, Sending, PostedTried, TSTypeOK
    <3> QED BY <3>2, <3>3 DEF Orders!Withdrawable, OrderOf
  <2>3. Orders!Withdraw(S)
    BY <1>1, <2>1 DEF Orders!Withdraw
  <2> QED BY <2>2, <2>3, SetStep
<1> QED BY <1>2, <1>3

LEMMA OrdersStep == ASSUME QStrong, [TSNext]_tsvars PROVE [Orders!Next]_(Orders!vars)
<1>1. CASE UNCHANGED tsvars
  BY <1>1, SameOrders DEF tsvars, files, world, Unheard
<1>2. CASE TSNext /\ row' # row
  <2>1. Unheard /\ \A q \in Requests : Moves(q)
    BY <1>2, RowsAlone, RowsMove
  <2>2. CASE \E q \in Requests : row'[q].status # row[q].status /\ AtWork /\ pc \in Working
                                /\ q = Request /\ MoveOf(q, row[q].status, row'[q].status)
    <3>1. at # 0
      BY <2>2, CurrentTodo, SchedulerAssumption DEF AtWork, QStrong, TSTypeOK
    <3>2. \A r \in Requests : r # Request => row'[r].status = row[r].status
      BY <2>1, <3>1 DEF Moves
    <3>3. Request \in Requests /\ Request \notin Gone
      BY <2>2, InQueue
    <3> QED BY <2>1, <2>2, <3>2, <3>3, RequestMoves
  <2>3. CASE \A q \in Requests : row'[q].status = row[q].status
    BY <2>1, <2>3, SameOrders
  <2>4. CASE /\ \E q \in Requests : row'[q].status # row[q].status
             /\ ~ \E q \in Requests : row'[q].status # row[q].status /\ AtWork
                     /\ pc \in Working /\ q = Request
                     /\ MoveOf(q, row[q].status, row'[q].status)
    <3>1. pc = "scan" /\ todo # {}
      BY <2>1, <2>4 DEF Moves
    <3>2. \A q \in Requests :
            \/ row'[q].status = row[q].status
            \/ /\ q[1] = Current /\ q \notin tried
               /\ row[q].status = "blocked" /\ row'[q].status = "waiting_client"
      BY <2>1, <2>4 DEF Moves
    <3> QED BY <2>1, <3>1, <3>2, RowsTakenBack
  <2> QED BY <2>2, <2>3, <2>4
<1>3. CASE TSNext /\ row' = row
  <2>1. CASE Unheard
    BY <1>3, <2>1, SameOrders
  <2>2. CASE ~Unheard
    <3>1. SendCall \/ WriteReceipt \/ PublishBatch \/ SupersedeUnsent \/ SupersedeEnds
      BY <1>3, <2>2, WhoWrites DEF Unheard
    <3> QED BY <1>3, <3>1, PostKept, AnswerKept, BatchesKept
  <2> QED BY <2>1, <2>2
<1> QED BY <1>1, <1>2, <1>3

\* Every behaviour keeps the promise of QueuePromise to each request, for any valid
\* batches, and what ended stays ended: drafts wait for what they need, a prompt is
\* posted at most once, only its answer ends it, and what is withdrawn was not posted
\* (scheduler.py, submit_queue.py).
THEOREM OrdersKept == TSSpec => KeepsOrders
<1>1. TSInit => Orders!Init
  <2> SUFFICES ASSUME TSInit PROVE Orders!Init
    OBVIOUS
  <2> QED BY DEF TSInit, NoRow, OrderOf, Orders!Init
<1>2. QStrong /\ [TSNext]_tsvars => [Orders!Next]_(Orders!vars)
  BY OrdersStep
<1>3. TSSpec => Orders!Spec
  BY <1>1, <1>2, QAlways, PTL DEF TSSpec, Orders!Spec
<1> QED BY <1>3, SettledForGood DEF KeepsOrders
=============================================================================
