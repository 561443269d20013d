---------------------------- MODULE MCToolCalls ----------------------------
(***************************************************************************)
(* What a tool call does in a workspace: managed patches and the jobs next *)
(* to them, and the way of a command to a process.  They share no state,   *)
(* so a behaviour is about one of them, chosen at its start, and the other *)
(* stands still in its initial state.                                      *)
(***************************************************************************)
EXTENDS MCManagedPatch, CommandGate

CONSTANTS Parts,  \* the components that are explored
          rootDir, subDir, gitProgram, ownProgram, pwdProgram

VARIABLE part
mcvars == <<part, vars, cgvars>>

\* A program of the list in another directory, a local one by its path with some
\* input, built-ins, and a command of a task that lacks its request id.
Wish(program, dir, flaw, durable, ofTask) ==
  [program |-> program, dir |-> dir, flaw |-> flaw, confirm |-> FALSE,
   path |-> program = ownProgram, builtin |-> IF program # pwdProgram THEN "no"
                                              ELSE IF durable THEN "sure" ELSE "fallible",
   durable |-> durable, input |-> program = ownProgram, task |-> ofTask, request |-> FALSE]
Wishes ==
  {Wish(gitProgram, subDir, "none", TRUE, FALSE), Wish(ownProgram, NoFolder, "none", FALSE, FALSE),
   Wish(pwdProgram, NoFolder, "none", TRUE, FALSE), Wish(pwdProgram, NoFolder, "none", FALSE, FALSE),
   Wish(gitProgram, NoFolder, "network", TRUE, TRUE)}

MCInit == part \in Parts /\ Init /\ CGInit

\* The patches and their jobs never block each other for good, which TLC's check for
\* deadlock shows; the gate stops when it has served its commands.
MCNext ==
  \/ part = "patches" /\ Next /\ UNCHANGED <<part, cgvars>>
  \/ part = "gate" /\ CGNext /\ UNCHANGED <<part, vars>>
  \/ part # "patches" /\ UNCHANGED mcvars

MCSpec == MCInit /\ [][MCNext]_mcvars
=============================================================================
