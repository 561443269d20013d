----------------------------- MODULE AuditStore -----------------------------
(***************************************************************************)
(* The record of tool calls (src-tauri/src/audit, commands/audit.rs): one  *)
(* store per process, shared by every thread that serves a call.  A call   *)
(* reads the settings once, cleans up at most once a day what is older     *)
(* than they allow, classifies its outcome and inserts its record; the     *)
(* owner saves settings and clears records meanwhile, the day changes, the *)
(* database fails and the process is started again.                        *)
(*                                                                         *)
(* Days stand for times: an expired record is one of an earlier day than   *)
(* the first that is kept whole.  A command is known by one name from its  *)
(* call to the last poll of its session.                                   *)
(***************************************************************************)
EXTENDS Integers, Sequences, FiniteSets, SequencesExt

CONSTANTS Threads,      \* each serves one tool call or one query
          Commands, Greps,
          Calls,        \* what a thread may be asked for
          Settings,     \* what the owner may save: [enabled, retention, limit]
          MaxSessions,  \* commands that are remembered as grep
          MaxDay,       \* bound: days
          MaxErrors,    \* bound: failures of the database and of the process
          MaxOrders     \* bound: commands of the owner

NoSettings == [enabled |-> FALSE, retention |-> 0, limit |-> 0]
NoInvocation == [tool |-> "none", command |-> "none", outcome |-> "none", size |-> 0]
\* What is executed, what came of it, and how large the input was.
Invocations ==
  [tool : {"exec", "poll"}, command : Commands,
   outcome : {"ok", "running", "failed", "no_match"}, size : 1..2]
  \cup [tool : {"rejected"}, command : Commands, outcome : {"policy"}, size : {1}]
  \cup [tool : {"query"}, command : Commands, outcome : {"ok"}, size : {1}]

ASSUME AuditAssumption ==
  /\ Greps \subseteq Commands /\ {MaxSessions, MaxDay, MaxErrors, MaxOrders} \subseteq Nat
  /\ MaxSessions > 0 /\ Calls \in [Threads -> SUBSET Invocations]
  /\ Settings \subseteq [enabled : BOOLEAN, retention : Nat, limit : {-1, 0, 1}]

VARIABLES
  today,
  records,    \* [thread, day, status, call, input, command]
  saved,      \* the settings in the database
  snapshot,     \* the settings the threads read
  marker,     \* last_cleanup_day, or -1
  sessions,   \* the polled commands that are known to be grep, oldest first
  errors,
  adpc, serving, conf, day,  \* of a thread: its step, call, snapshot and time
  owner, draft,  \* the owner's command and its settings
  orders,     \* how many there were
  asked,      \* (history) the retentions saved since a thread began
  early,      \* (history) a record went that all of those keep
  failed      \* (history) the owner's cleanup failed today

adstore == <<records, saved, snapshot, marker, sessions, errors>>
adthreads == <<adpc, serving, conf, day>>
adowner == <<owner, draft, orders>>
advars == <<today, adstore, adthreads, adowner, asked, early, failed>>

Expired(r, now, retention) == retention # 0 /\ r.day < now - retention

ADInit ==
  /\ today = 0 /\ records = {} /\ saved \in Settings /\ snapshot = saved
  /\ marker = 0 /\ sessions = <<>> /\ errors = 0
  /\ adpc = [t \in Threads |-> "new"] /\ serving = [t \in Threads |-> NoInvocation]
  /\ conf = [t \in Threads |-> NoSettings] /\ day = [t \in Threads |-> 0]
  /\ owner = "idle" /\ draft = NoSettings /\ orders = 0
  /\ asked = [t \in Threads |-> {}] /\ early = FALSE /\ failed = FALSE

-----------------------------------------------------------------------------
(* A thread: record_tool_call, record_tool_rejection, query.               *)

AtStep(t, step) == adpc[t] = step
GoOn(t, step) == adpc' = [adpc EXCEPT ![t] = step]
\* The end of a call: what it knew is gone.
EndCall(t) ==
  /\ GoOn(t, "done") /\ conf' = [conf EXCEPT ![t] = NoSettings] /\ day' = [day EXCEPT ![t] = 0]
  /\ asked' = [asked EXCEPT ![t] = {}]

\* A poll comes after the answer that named the session, and once the command
\* has ended there is none.
Answered(i, k) == \E t \in Threads : AtStep(t, "done") /\ serving[t].command = k
                        /\ serving[t].tool \in {"exec", "poll"} /\ serving[t].outcome \in i
Possible(i) ==
  /\ i.tool = "exec" => \A t \in Threads : AtStep(t, "new") \/ serving[t].tool # "exec"
                                           \/ serving[t].command # i.command
  /\ i.tool = "poll" => Answered({"running"}, i.command)
                        /\ ~Answered({"ok", "failed", "no_match"}, i.command)

Snapshot(t, i) ==
  /\ AtStep(t, "new") /\ Possible(i)
  /\ serving' = [serving EXCEPT ![t] = i]
  /\ IF ~snapshot.enabled /\ i.tool # "query" THEN EndCall(t)
     ELSE /\ conf' = [conf EXCEPT ![t] = snapshot] /\ day' = [day EXCEPT ![t] = today]
          /\ asked' = [asked EXCEPT ![t] = {saved.retention} \cup
                         (IF owner = "publish" THEN {snapshot.retention} ELSE {})]
          /\ GoOn(t, IF snapshot.retention = 0 THEN "classify" ELSE "swap")
  /\ UNCHANGED <<today, adstore, adowner, early, failed>>

\* The first of the day cleans up.
Swap(t) ==
  /\ AtStep(t, "swap") /\ marker' = day[t]
  /\ GoOn(t, IF marker = day[t] THEN "classify" ELSE "delete")
  /\ UNCHANGED <<today, records, saved, snapshot, sessions, errors, serving, conf, day,
                 adowner, asked, early, failed>>

\* DELETE, which may fail; retentions is what would justify it.
CleanUp(now, retention, retentions) ==
  LET gone == {r \in records : Expired(r, now, retention)}
  IN /\ records' = records \ gone
     /\ early' = (early \/ \E r \in gone : \A k \in retentions : ~Expired(r, now, k))
SQLFails == errors < MaxErrors /\ errors' = errors + 1 /\ UNCHANGED <<records, early>>

\* The marker follows the deletion, or its failure, which ends the call with its
\* record unwritten.  (What others do between the two has the same effect before
\* the deletion.)
DeleteExpired(t) ==
  /\ AtStep(t, "delete")
  /\ \/ /\ CleanUp(day[t], conf[t].retention, asked[t])
        /\ marker' = day[t] /\ GoOn(t, "classify") /\ UNCHANGED <<errors, conf, day, asked>>
     \/ SQLFails /\ marker' = -1 /\ EndCall(t)
  /\ UNCHANGED <<today, saved, snapshot, sessions, serving, adowner, failed>>

\* grep_outcome::classify; a query has nothing to classify.
IsGrep(i) == \/ i.tool = "exec" /\ i.command \in Greps
             \/ i.tool = "poll" /\ Contains(sessions, i.command)
Remembered(i) ==
  IF ~(IsGrep(i) /\ i.tool = "exec" /\ i.outcome = "running") \/ Contains(sessions, i.command)
    THEN sessions
  ELSE Append(IF Len(sessions) = MaxSessions THEN Tail(sessions) ELSE sessions, i.command)

\* Mutant: a lack of matches is recognised by the outcome alone.
StatusByOutcome(i) ==
  IF i.outcome \in {"ok", "running", "no_match"} THEN "success"
  ELSE IF i.outcome = "policy" THEN "rejected" ELSE "failure"

Status(i) ==
  IF i.outcome \in {"ok", "running"} \/ (i.outcome = "no_match" /\ IsGrep(i)) THEN "success"
  ELSE IF i.outcome = "policy" THEN "rejected" ELSE "failure"

\* capture_value: nothing, everything or a part of the input; the command's
\* text is kept with a whole input only.
Captured(i, limit) == IF limit = -1 THEN "none"
                      ELSE IF limit = 0 \/ i.size <= limit THEN "whole" ELSE "cut"

Record(t) ==
  [thread |-> t, day |-> day[t], status |-> Status(serving[t]), call |-> serving[t],
   input |-> Captured(serving[t], conf[t].limit),
   command |-> Captured(serving[t], conf[t].limit) = "whole"]

\* The session is remembered before the record is written, and also when the
\* writing fails.
InsertRecord(t) ==
  /\ AtStep(t, "classify") /\ EndCall(t)
  /\ sessions' = Remembered(serving[t])
  /\ \/ /\ records' = records \cup {r \in {Record(t)} : serving[t].tool # "query"}
        /\ UNCHANGED <<errors, early>>
     \/ serving[t].tool # "query" /\ SQLFails
  /\ UNCHANGED <<today, saved, snapshot, marker, serving, adowner, failed>>

-----------------------------------------------------------------------------
(* The owner's commands.                                                   *)

Order == orders < MaxOrders /\ orders' = orders + 1

\* Mutant: the threads see the settings before they are saved.
BeginSettingsPublished(s) ==
  /\ owner = "idle" /\ Order /\ owner' = "commit" /\ draft' = s /\ snapshot' = s
  /\ UNCHANGED <<today, records, saved, marker, sessions, errors, adthreads, asked, early,
                 failed>>

BeginSettings(s) ==
  /\ owner = "idle" /\ Order /\ owner' = "commit" /\ draft' = s
  /\ UNCHANGED <<today, adstore, adthreads, asked, early, failed>>

CommitSettings ==
  /\ owner = "commit"
  /\ \/ /\ owner' = "publish" /\ saved' = draft
        /\ asked' = [t \in Threads |-> asked[t] \cup {draft.retention}]
        /\ UNCHANGED <<errors, records, early>>
     \/ owner' = "idle" /\ SQLFails /\ UNCHANGED <<saved, asked>>
  /\ draft' = IF owner' = "idle" THEN NoSettings ELSE draft
  /\ UNCHANGED <<today, snapshot, marker, sessions, adthreads, orders, failed>>

PublishSettings ==
  /\ owner = "publish" /\ snapshot' = draft
  /\ IF draft.retention = 0 THEN owner' = "idle" /\ draft' = NoSettings
     ELSE owner' = "delete" /\ UNCHANGED draft
  /\ UNCHANGED <<today, records, saved, marker, sessions, errors, adthreads, orders,
                 asked, early, failed>>

\* The marker is not asked.
ForceCleanup ==
  /\ owner = "delete" /\ owner' = "idle" /\ draft' = NoSettings
  /\ \/ /\ CleanUp(today, draft.retention, {draft.retention})
        /\ marker' = today /\ failed' = FALSE /\ UNCHANGED errors
     \/ SQLFails /\ marker' = -1 /\ failed' = TRUE
  /\ UNCHANGED <<today, saved, snapshot, sessions, adthreads, orders, asked>>

\* clear_records; remove_workspace_records.
ClearRecords ==
  /\ Order
  /\ \E some \in SUBSET {r.thread : r \in records} :
       records' = {r \in records : r.thread \notin some} /\ some # {}
  /\ UNCHANGED <<today, saved, snapshot, marker, sessions, errors, adthreads, owner, draft,
                 asked, early, failed>>

-----------------------------------------------------------------------------
\* No call outlasts a second midnight.
NextDay ==
  /\ today < MaxDay /\ \A t \in Threads : adpc[t] \notin {"new", "done"} => day[t] = today
  /\ today' = today + 1 /\ failed' = FALSE
  /\ UNCHANGED <<adstore, adthreads, adowner, asked, early>>

\* The process is started again: open.
RestartStore ==
  /\ errors < MaxErrors /\ snapshot' = saved /\ sessions' = <<>>
  /\ adpc' = [t \in Threads |-> IF AtStep(t, "new") THEN "new" ELSE "done"]
  /\ conf' = [t \in Threads |-> NoSettings] /\ day' = [t \in Threads |-> 0]
  /\ asked' = [t \in Threads |-> {}]
  /\ owner' = "idle" /\ draft' = NoSettings
  /\ errors' = errors + 1
  /\ \/ saved.retention = 0 /\ marker' = -1 /\ UNCHANGED <<records, early, failed>>
     \/ /\ saved.retention # 0 /\ marker' = today /\ failed' = FALSE
        /\ CleanUp(today, saved.retention, {saved.retention})
     \/ saved.retention # 0 /\ marker' = -1 /\ UNCHANGED <<records, early, failed>>
  /\ UNCHANGED <<today, saved, serving, orders>>

ADNext ==
  \/ \E t \in Threads : \/ \E i \in Calls[t] : Snapshot(t, i)
                        \/ Swap(t) \/ DeleteExpired(t) \/ InsertRecord(t)
  \/ \E s \in Settings : BeginSettings(s)
  \/ CommitSettings \/ PublishSettings \/ ForceCleanup \/ ClearRecords
  \/ NextDay \/ RestartStore

ADSpec == ADInit /\ [][ADNext]_advars

-----------------------------------------------------------------------------
\* Age deletes a record only under a retention that was saved while the call
\* that deletes it ran, or that newly saved settings were about to replace when
\* it began: settings whose saving failed never take effect.
KeptAsSaved == ~early

\* Once a day is marked as cleaned and nobody is cleaning, nothing is left that
\* the settings in force call expired - unless the cleanup that the owner's own
\* change asked for failed, which a late success under older settings hides.
CleanedWhenMarked ==
  /\ marker = today /\ owner = "idle" /\ ~failed
  /\ \A t \in Threads : adpc[t] # "delete"
  => \A r \in records : ~Expired(r, today, snapshot.retention)

\* A command that failed counts as a success only if it is a grep that found
\* nothing; an own call of grep always does, and a poll of one does unless the
\* session was forgotten.
OutcomesTrue == \A r \in records :
  /\ r.status = "success" /\ r.call.outcome \notin {"ok", "running"} =>
       r.call.outcome = "no_match" /\ r.call.command \in Greps
  /\ r.call.outcome = "no_match" /\ r.call.tool = "exec" =>
       (r.status = "success" <=> r.call.command \in Greps)
  /\ r.status = "rejected" <=> r.call.outcome = "policy"

AuditInv == KeptAsSaved /\ CleanedWhenMarked /\ OutcomesTrue
=============================================================================
