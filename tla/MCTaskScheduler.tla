-------------------------- MODULE MCTaskScheduler --------------------------
(* Instances of TaskScheduler for TLC. *)
EXTENDS TaskScheduler, TLC

CONSTANTS first, second, t1, t2, t3

TwoBatches == <<first, second>>

\* A batch of two tasks, the second after the first, and its replacement.
TwoTasks == first :> <<t1, t2>> @@ second :> <<t1>>
TwoDeps == t1 :> {} @@ t2 :> {t1}

\* A batch whose first task depends on its last.
ThreeTasks == first :> <<t1, t2, t3>> @@ second :> <<t2>>
ThreeDeps == t1 :> {t3} @@ t2 :> {} @@ t3 :> {}
=============================================================================
