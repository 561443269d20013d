---------------------------- MODULE EditPromise ----------------------------
(***************************************************************************)
(* What managed patches promise of the files of a workspace, whatever the  *)
(* callers, servers and commands do: one request at a time has them in its *)
(* hands, and no command works on them then; a request has them once, and  *)
(* adds its edit to a file only as its author saw it; it is accepted only  *)
(* when its edit is in every file, and takes it back only before it is     *)
(* refused.  A request that loses them, because its server ended, never    *)
(* has them again.  That a refused one took all of it back is not promised.*)
(***************************************************************************)
CONSTANTS Requests,
          Files,
          Touches,   \* of a request: its files
          Commands   \* whoever else edits the files

VARIABLES
  files,    \* the edits each file's text takes into account
  seen,     \* what the author of each request saw of its files
  outcome,  \* "none", "started", "ok" or "error"
  changing, \* the request that has the files in its hands,
  undoing   \* and the one that puts them back

vars == <<files, seen, outcome, changing, undoing>>

Init ==
  /\ files = [f \in Files |-> {}]
  /\ seen = [r \in Requests |-> <<>>]
  /\ outcome = [r \in Requests |-> "none"]
  /\ changing = {} /\ undoing = {}

NobodyHas == changing = {} /\ undoing = {}

Becomes(f, text) == files' = [files EXCEPT ![f] = text]

\* The author looks at a file, also while others change it.
See(r, f) ==
  /\ f \in Touches[r] \ DOMAIN seen[r]
  /\ seen' = [seen EXCEPT ![r] = [g \in DOMAIN seen[r] \cup {f} |->
                                    IF g = f THEN files[f] ELSE seen[r][g]]]
  /\ UNCHANGED <<files, outcome, changing, undoing>>

Begin(r) ==
  /\ outcome[r] = "none" /\ NobodyHas
  /\ DOMAIN seen[r] = Touches[r]
  /\ outcome' = [outcome EXCEPT ![r] = "started"]
  /\ changing' = {r}
  /\ UNCHANGED <<files, seen, undoing>>

Change(r, f) ==
  /\ r \in changing /\ f \in Touches[r] /\ files[f] = seen[r][f]
  /\ Becomes(f, files[f] \cup {r})
  /\ UNCHANGED <<seen, outcome, changing, undoing>>

TurnBack(r) ==
  /\ r \in changing
  /\ changing' = {} /\ undoing' = {r}
  /\ UNCHANGED <<files, seen, outcome>>

Undo(r, f) ==
  /\ r \in undoing /\ f \in Touches[r] /\ files[f] = seen[r][f] \cup {r}
  /\ Becomes(f, seen[r][f])
  /\ UNCHANGED <<seen, outcome, changing, undoing>>

Leave == changing' = {} /\ undoing' = {} /\ UNCHANGED <<files, seen>>

Accept(r) ==
  /\ r \in changing /\ \A f \in Touches[r] : r \in files[f]
  /\ outcome' = [outcome EXCEPT ![r] = "ok"]
  /\ Leave

Refuse(r) ==
  /\ r \in undoing
  /\ outcome' = [outcome EXCEPT ![r] = "error"]
  /\ Leave

\* The server ended, or could not record the result.
Lose == ~NobodyHas /\ Leave /\ UNCHANGED outcome

Work(j, f) ==
  /\ NobodyHas
  /\ Becomes(f, files[f] \cup {j})
  /\ UNCHANGED <<seen, outcome, changing, undoing>>

Next ==
  \/ \E r \in Requests :
       \/ Begin(r) \/ TurnBack(r) \/ Accept(r) \/ Refuse(r)
       \/ \E f \in Touches[r] : See(r, f) \/ Change(r, f) \/ Undo(r, f)
  \/ \E j \in Commands, f \in Files : Work(j, f)
  \/ Lose

Spec == Init /\ [][Next]_vars
=============================================================================
