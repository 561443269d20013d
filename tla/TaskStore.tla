----------------------------- MODULE TaskStore -----------------------------
(***************************************************************************)
(* Tasks in the workspace's store (personal-runtime tasks.rs,              *)
(* task_open.rs): opened, bound to conversations, and carried on by        *)
(* checkpoints from any number of clients, which repeat requests whose     *)
(* answers they lost.  Every operation is one immediate transaction, so a  *)
(* crash is either before it or after it, with the answer lost.            *)
(*                                                                         *)
(* A step's record is "proved" when it has passed with evidence and "open" *)
(* otherwise; a task's state is "completed" or, for the four states that   *)
(* are treated alike, "active".                                            *)
(***************************************************************************)
EXTENDS Integers, Sequences

CONSTANTS Owners, Nowhere,  \* conversations; a client without metadata
          Goals, NoGoal,
          RequestIds, NoId,
          Steps,
          Opens, Checkpoints, \* what the clients send, any number of times
          MaxTasks,    \* bound: tasks
          MaxEvents    \* bound: events

Deltas == UNION {[s -> {"open", "proved"}] : s \in SUBSET Steps}
OpenInputs == [owner : Owners \cup {Nowhere}, explicit : 0..MaxTasks, fresh : BOOLEAN,
               id : RequestIds \cup {NoId}, goal : Goals \cup {NoGoal}, raw : BOOLEAN]
CheckInputs == [task : 1..MaxTasks, id : RequestIds, expected : Nat, update : Deltas,
                next : {"active", "completed"}, raw : BOOLEAN]

ASSUME StoreAssumption ==
  /\ Nowhere \notin Owners /\ NoGoal \notin Goals /\ NoId \notin RequestIds
  /\ {MaxTasks, MaxEvents} \subseteq Nat
  /\ Opens \subseteq OpenInputs /\ Checkpoints \subseteq CheckInputs

VARIABLES
  tasks,     \* in the order of their creation: [goal, state, revision, steps, by]
  bindings,  \* the task of a conversation, or 0
  receipts,  \* of a scope and a request: [input, task, revision]
  events,    \* [task, kind, by], with the revision or the request it came from
  unresolved,\* the tasks with a queued, running or unknown job (jobs.rs)
  answers    \* every answer that was given: [key, input, task, revision]

tsvars == <<tasks, bindings, receipts, events, unresolved, answers>>

TSInit ==
  /\ tasks = <<>> /\ bindings = [o \in Owners |-> 0] /\ receipts = <<>>
  /\ events = <<>> /\ unresolved = {} /\ answers = {}

OpenKey(a) == <<"task-open", a.owner, a.id>>
CheckKey(a) == <<"task", a.task, a.id>>
Reply(key, a, task, revision) ==
  answers' = answers \cup {[key |-> key, input |-> a, task |-> task,
                            revision |-> revision]}
Known(key) == key \in DOMAIN receipts
File(key, a, task, revision) ==
  receipts' = [k \in DOMAIN receipts \cup {key} |->
                 IF k = key THEN [input |-> a, task |-> task, revision |-> revision]
                 ELSE receipts[k]]
UserInput(task, a, key) ==
  IF a.raw THEN <<[task |-> task, kind |-> "user_input", by |-> key]>> ELSE <<>>

-----------------------------------------------------------------------------
(* open_task_request.                                                      *)

WellFormed(a) ==
  /\ a.explicit = 0 => a.goal # NoGoal /\ ((a.owner # Nowhere /\ ~a.fresh) \/ a.id # NoId)
  /\ a.explicit \in 0..Len(tasks)

\* The task an answer is about: the one asked for, the one the conversation is
\* bound to, or a new one; none when its goal is another.
Prior(a) == IF a.fresh \/ a.owner = Nowhere THEN 0 ELSE bindings[a.owner]
Chosen(a) == IF a.explicit # 0 THEN a.explicit ELSE Prior(a)
GoalConflict(a) ==
  LET t == Chosen(a) IN t # 0 /\ a.goal # NoGoal /\ a.goal # tasks[t].goal

ReplayOpen(a) ==
  LET key == OpenKey(a)
  IN /\ Known(key) /\ receipts[key].input = a
     /\ Reply(key, a, receipts[key].task, 0)
     /\ UNCHANGED <<tasks, bindings, receipts, events, unresolved>>

RecordOpen(a) ==
  LET key == OpenKey(a)
      known == Chosen(a)
      task == IF known = 0 THEN Len(tasks) + 1 ELSE known
  IN /\ ~GoalConflict(a)
     /\ task <= MaxTasks
     /\ tasks' = IF known # 0 THEN tasks
                 ELSE Append(tasks, [goal |-> a.goal, state |-> "active", revision |-> 0,
                                     steps |-> <<>>, by |-> key])
     /\ bindings' = IF a.owner = Nowhere THEN bindings ELSE [bindings EXCEPT ![a.owner] = task]
     /\ events' = events \o UserInput(task, a, key) /\ Len(events') <= MaxEvents
     /\ IF a.id = NoId THEN UNCHANGED receipts ELSE File(key, a, task, 0)
     /\ Reply(key, a, task, 0)
     /\ UNCHANGED unresolved

\* Mutant: the receipt is left to the caller, and the task opened again.
OpenTaskAnyway(a) == WellFormed(a) /\ RecordOpen(a)

OpenTask(a) ==
  /\ WellFormed(a)
  /\ \/ a.id # NoId /\ ReplayOpen(a)
     \/ (a.id = NoId \/ ~Known(OpenKey(a))) /\ RecordOpen(a)

-----------------------------------------------------------------------------
(* task_checkpoint.                                                        *)

Merged(a) ==
  LET old == tasks[a.task].steps
  IN [s \in DOMAIN old \cup DOMAIN a.update |->
        IF s \in DOMAIN a.update THEN a.update[s] ELSE old[s]]
Accepted(steps) == DOMAIN steps # {} /\ \A s \in DOMAIN steps : steps[s] = "proved"

ReplayCheckpoint(a) ==
  /\ receipts[CheckKey(a)].input = a
  /\ Reply(CheckKey(a), a, a.task, receipts[CheckKey(a)].revision)
  /\ UNCHANGED <<tasks, bindings, receipts, events, unresolved>>

\* An update of a task that is not completed; completion is accepted with
\* every step proved and every job of the task resolved.
SaveCheckpoint(a) ==
  LET revision == tasks[a.task].revision + 1
  IN /\ tasks[a.task].state # "completed"
     /\ a.next = "completed" => Accepted(Merged(a)) /\ a.task \notin unresolved
     /\ tasks' = [tasks EXCEPT ![a.task] = [goal |-> @.goal, state |-> a.next, by |-> @.by,
                                            revision |-> revision, steps |-> Merged(a)]]
     /\ File(CheckKey(a), a, a.task, revision)
     /\ events' = Append(events, [task |-> a.task, kind |-> "checkpoint", by |-> revision])
                  \o UserInput(a.task, a, CheckKey(a))
     /\ Len(events') <= MaxEvents
     /\ Reply(CheckKey(a), a, a.task, revision)
     /\ UNCHANGED <<bindings, unresolved>>

\* Mutant: a stale revision is merged into the steps of another client.
CheckpointStale(a) ==
  /\ a.task \in DOMAIN tasks
  /\ IF Known(CheckKey(a)) THEN ReplayCheckpoint(a) ELSE SaveCheckpoint(a)

Checkpoint(a) ==
  /\ a.task \in DOMAIN tasks
  /\ IF Known(CheckKey(a)) THEN ReplayCheckpoint(a)
     ELSE a.expected = tasks[a.task].revision /\ SaveCheckpoint(a)

-----------------------------------------------------------------------------
(* A task's jobs: admitted in a transaction that looks at its state.       *)

AdmitJob(t) ==
  /\ t \in DOMAIN tasks /\ tasks[t].state # "completed"
  /\ unresolved' = unresolved \cup {t}
  /\ UNCHANGED <<tasks, bindings, receipts, events, answers>>

ResolveJob(t) ==
  /\ t \in unresolved /\ unresolved' = unresolved \ {t}
  /\ UNCHANGED <<tasks, bindings, receipts, events, answers>>

-----------------------------------------------------------------------------
TSNext ==
  \/ \E a \in Opens : OpenTask(a)
  \/ \E a \in Checkpoints : Checkpoint(a)
  \/ \E t \in 1..MaxTasks : AdmitJob(t) \/ ResolveJob(t)

TSSpec == TSInit /\ [][TSNext]_tsvars

-----------------------------------------------------------------------------
TSTypeOK ==
  /\ tasks \in Seq([goal : Goals, state : {"active", "completed"}, revision : Nat,
                    steps : Deltas, by : {"task-open"} \X (Owners \cup {Nowhere})
                                         \X (RequestIds \cup {NoId})])
  /\ bindings \in [Owners -> 0..Len(tasks)] /\ unresolved \subseteq DOMAIN tasks
  /\ \A key \in DOMAIN receipts : receipts[key].task \in DOMAIN tasks

\* A request opens one task however often and by whatever way it is repeated,
\* every answer to it says the same, and what it brought along is saved once.
Brings(i, x) ==
  events[i].kind = "user_input" /\ events[i].by = x.key /\ events[i].task = x.task
OpenedOnce ==
  /\ \A x, y \in answers :
       x.key = y.key /\ x.key[3] # NoId =>
         x.input = y.input /\ x.task = y.task /\ x.revision = y.revision
  /\ \A t, u \in DOMAIN tasks : tasks[t].by = tasks[u].by /\ tasks[t].by[3] # NoId => t = u
  /\ \A x \in answers : x.input.raw /\ x.key[3] # NoId =>
       \E i \in DOMAIN events : \A j \in DOMAIN events : Brings(j, x) <=> j = i

\* A conversation that names its goal is never answered with another's task.
GoalsKept == \A x \in answers :
  x.key[1] = "task-open" /\ x.input.goal # NoGoal => tasks[x.task].goal = x.input.goal

\* No update is lost: the acknowledged checkpoints of a task form one chain,
\* each made on the revision before it, a step is what the last of them that
\* names it says, and their events are in that order.
SavesOf(t) == {key \in DOMAIN receipts : key[1] = "task" /\ receipts[key].task = t}
UpdatesOf(t, s) == {key \in SavesOf(t) : s \in DOMAIN receipts[key].input.update}
SaveEvents(t) == {i \in DOMAIN events : events[i].task = t /\ events[i].kind = "checkpoint"}
CheckpointsChain == \A t \in DOMAIN tasks :
  /\ \A n \in 1..tasks[t].revision : \E key \in SavesOf(t) : \A k \in SavesOf(t) :
       receipts[key].input.expected = n - 1 /\ (receipts[k].revision = n <=> k = key)
  /\ \A s \in Steps :
       /\ s \in DOMAIN tasks[t].steps <=> UpdatesOf(t, s) # {}
       /\ \A key \in UpdatesOf(t, s) :
            (\A k \in UpdatesOf(t, s) : receipts[k].revision <= receipts[key].revision)
              => tasks[t].steps[s] = receipts[key].input.update[s]
  /\ \A n \in 1..tasks[t].revision : \E i \in SaveEvents(t) : events[i].by = n
  /\ \A i, j \in SaveEvents(t) :
       events[i].by \in 1..tasks[t].revision /\ (i < j => events[i].by < events[j].by)

\* A completed task is accepted, has no job left, and no checkpoint came after.
CompletedForGood == \A t \in DOMAIN tasks :
  /\ tasks[t].state = "completed" => Accepted(tasks[t].steps) /\ t \notin unresolved
  /\ \A x \in answers : x.key[1] = "task" /\ x.task = t /\ x.input.next = "completed" =>
       tasks[t].state = "completed" /\ tasks[t].revision = x.revision

TaskInv == OpenedOnce /\ GoalsKept /\ CheckpointsChain /\ CompletedForGood
=============================================================================
