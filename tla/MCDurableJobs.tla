--------------------------- MODULE MCDurableJobs ---------------------------
(* Instances of DurableJobs for TLC. *)
EXTENDS DurableJobs, TLC

CONSTANTS j1, j2, j3, t1

\* Clients are interchangeable: they differ in nothing but their names.
AnyClient == Permutations(Clients)

\* One writer, of a task.
OneTask == j1 :> t1
OneMode == j1 :> "write"
OneUses == j1 :> {}

\* A writer and a build of one task: they conflict on the source.
PairTask == (j1 :> t1) @@ (j2 :> t1)
PairMode == (j1 :> "write") @@ (j2 :> "build")
PairUses == (j1 :> {}) @@ (j2 :> {})

\* Two builds that share the source but not their output, and a reader that
\* shares an output with one of them.
TrioTask == (j1 :> NoTask) @@ (j2 :> NoTask) @@ (j3 :> NoTask)
TrioMode == (j1 :> "build") @@ (j2 :> "build") @@ (j3 :> "read")
TrioUses == (j1 :> {1}) @@ (j2 :> {}) @@ (j3 :> {1})

\* jobs.rs, worker.rs: every job that was admitted ends, and no queue stays full for good:
\* a request that is submitted again is admitted.
JobsProgress == JobsSettle /\ RequestsAdmitted
=============================================================================
