--------------------------- MODULE MCManagedPatch ---------------------------
(* Instances of ManagedPatch for TLC. *)
EXTENDS ManagedPatch, TLC

CONSTANTS r1, r2, f1, f2, w, b, t1, skill

\* Callers are interchangeable: they differ in nothing but their names.
AnyCaller == Permutations(Callers)

\* A patch of two files and one of the second only; the first has a task.
PairTouches == (r1 :> {f1, f2}) @@ (r2 :> {f2})
PairTask == (r1 :> t1) @@ (r2 :> NoTask)
SameGate == (r1 :> Source) @@ (r2 :> Source)

\* The second comes through a Skill root's own gate.
OtherGate == (r1 :> Source) @@ (r2 :> skill)

\* A command that writes and a build.
BothModes == (w :> "write") @@ (b :> "build")
NoModes == [j \in {} |-> "build"]
=============================================================================
