----------------------------- MODULE JobPromise -----------------------------
(***************************************************************************)
(* What the durable-job service promises of one request, whatever happens  *)
(* to servers, workers and clients: the receipt is accepted once, its      *)
(* command is started at most once and only while the receipt is open, a   *)
(* result is given only when the command is over, and a receipt declared   *)
(* uncertain stays so and starts nothing, although a command that was      *)
(* already running may go on.                                              *)
(***************************************************************************)
CONSTANT Jobs

VARIABLES
  receipt,  \* "none", "open", "result" or "uncertain"
  command   \* "never", "running" or "over"

vars == <<receipt, command>>

Init ==
  /\ receipt = [j \in Jobs |-> "none"]
  /\ command = [j \in Jobs |-> "never"]

Accept(j) ==
  /\ receipt[j] = "none"
  /\ receipt' = [receipt EXCEPT ![j] = "open"]
  /\ UNCHANGED command

Start(j) ==
  /\ receipt[j] = "open" /\ command[j] = "never"
  /\ command' = [command EXCEPT ![j] = "running"]
  /\ UNCHANGED receipt

\* The commands of S end together (a reboot ends all of them).
End(S) ==
  /\ \A j \in S : command[j] = "running"
  /\ command' = [j \in Jobs |-> IF j \in S THEN "over" ELSE command[j]]
  /\ UNCHANGED receipt

GiveResult(j) ==
  /\ receipt[j] = "open" /\ command[j] # "running"
  /\ receipt' = [receipt EXCEPT ![j] = "result"]
  /\ UNCHANGED command

GiveUp(j) ==
  /\ receipt[j] = "open"
  /\ receipt' = [receipt EXCEPT ![j] = "uncertain"]
  /\ UNCHANGED command

Next ==
  \/ \E j \in Jobs : Accept(j) \/ Start(j) \/ GiveResult(j) \/ GiveUp(j)
  \/ \E S \in SUBSET Jobs : End(S)

Spec == Init /\ [][Next]_vars
=============================================================================
