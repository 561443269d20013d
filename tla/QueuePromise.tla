---------------------------- MODULE QueuePromise ----------------------------
(***************************************************************************)
(* What the task queue promises of each request, whatever happens to its   *)
(* scheduler, to the clients and to the agent that publishes batches: a    *)
(* prompt is drafted only when what the request needs is done, is given    *)
(* away once, without a way back, and is posted at most once; only an      *)
(* answer to the post ends the request after that; a request that is stuck *)
(* is taken up again only if nothing was posted for it; and a request that *)
(* is withdrawn was not posted and is not drafted until it is returned.    *)
(***************************************************************************)
EXTENDS Integers

CONSTANTS Requests,
          Needs      \* of a request: those it needs

VARIABLES
  order,    \* "waiting", "drafted", "given", "done" or "stuck"
  posted,   \* how often its prompt was posted
  answer,   \* "none", "bad", "completed" or "failed"
  withdrawn \* the requests that were taken out of the queue

vars == <<order, posted, answer, withdrawn>>

Init ==
  /\ order = [q \in Requests |-> "waiting"]
  /\ posted = [q \in Requests |-> 0]
  /\ answer = [q \in Requests |-> "none"]
  /\ withdrawn = {}

Becomes(q, state) ==
  order' = [order EXCEPT ![q] = state] /\ UNCHANGED <<posted, answer, withdrawn>>

Draft(q) ==
  /\ order[q] = "waiting" /\ q \notin withdrawn
  /\ \A n \in Needs[q] : order[n] = "done"
  /\ Becomes(q, "drafted")

PutBack(q) == order[q] = "drafted" /\ Becomes(q, "waiting")

GiveUp(q) == order[q] = "drafted" /\ Becomes(q, "stuck")

\* From here on nothing but an answer ends the request.
Commit(q) == order[q] = "drafted" /\ Becomes(q, "given")

Post(q) ==
  /\ order[q] = "given" /\ posted[q] = 0 /\ q \notin withdrawn
  /\ posted' = [posted EXCEPT ![q] = 1]
  /\ UNCHANGED <<order, answer, withdrawn>>

\* An answer that is whole is final.
Answer(q) ==
  /\ posted[q] = 1 /\ answer[q] \in {"none", "bad"}
  /\ \E a \in {"bad", "completed", "failed"} : answer' = [answer EXCEPT ![q] = a]
  /\ UNCHANGED <<order, posted, withdrawn>>

Finish(q) == order[q] = "given" /\ answer[q] = "completed" /\ Becomes(q, "done")

Refuse(q) == order[q] = "given" /\ answer[q] = "failed" /\ Becomes(q, "stuck")

\* The owner resumes the requests of S, of those that are stuck without a post.
Resumable == {q \in Requests \ withdrawn : order[q] = "stuck" /\ posted[q] = 0}
Resume(S) ==
  /\ order' = [q \in Requests |-> IF q \in S THEN "waiting" ELSE order[q]]
  /\ UNCHANGED <<posted, answer, withdrawn>>

\* The agent takes the requests of S out of the queue, or puts them back.
Withdrawable == {q \in Requests : order[q] \in {"waiting", "stuck"} /\ posted[q] = 0}
Withdraw(S) == withdrawn' = withdrawn \cup S /\ UNCHANGED <<order, posted, answer>>
Return(S) == withdrawn' = withdrawn \ S /\ UNCHANGED <<order, posted, answer>>

\* Taking up, withdrawing or returning no request is not a step.
Next ==
  /\ vars' # vars
  /\ \/ \E q \in Requests :
          \/ Draft(q) \/ PutBack(q) \/ GiveUp(q) \/ Commit(q) \/ Post(q)
          \/ Answer(q) \/ Finish(q) \/ Refuse(q)
     \/ \E S \in SUBSET Resumable : Resume(S)
     \/ \E S \in SUBSET Withdrawable : Withdraw(S)
     \/ \E S \in SUBSET withdrawn : Return(S)

Spec == Init /\ [][Next]_vars
=============================================================================
