----------------------------- MODULE AccessLog ------------------------------
(***************************************************************************)
(* The HTTP log of one service of a workspace (src-tauri/src/              *)
(* access_log.rs): a file a day, one open handle, and what is too old      *)
(* deleted when the day or the retention changes.  A request takes the     *)
(* settings when it comes and its date when it is answered, so requests    *)
(* of two days and of two retentions meet at the writer; the owner changes *)
(* the settings, clears the logs and reads them meanwhile, without the     *)
(* writer's lock.                                                          *)
(***************************************************************************)
EXTENDS Integers, FiniteSets

CONSTANTS Visits,   \* requests
          Keeps,    \* the retentions in days, 0 for ever
          LastDay   \* bound: days

ASSUME LogAssumption == Keeps \subseteq Nat /\ LastDay \in Nat

Closed == [date |-> -1, inode |-> 0]

VARIABLES
  date, keep, logging, \* the local date; the settings in force
  files,    \* of a date: its inode
  inodes,   \* of an inode: its lines
  writer,   \* MaintenanceState: [cleaned, kept, open]
  visit,    \* of a request: [step, keep, date]
  sweep,    \* the files the owner's cleanup has still to delete
  reading,  \* the owner's query: [todo, seen, since], the lines there at its start
  aged, cleared \* (history) the dates deleted for their age; the lines cleared

alvars == <<date, keep, logging, files, inodes, writer, visit, sweep, reading, aged, cleared>>

\* The days that are kept include today.
TooOld(d, now, days) == days # 0 /\ d < now - (days - 1)
NoReading == [todo |-> {}, seen |-> {}, since |-> {}]

ALInit ==
  /\ date = 1 /\ keep \in Keeps /\ logging \in BOOLEAN
  /\ files = <<>> /\ inodes = <<>>
  /\ writer = [cleaned |-> -1, kept |-> -1, open |-> Closed]
  /\ visit = [v \in Visits |-> [step |-> "new", keep |-> 0, date |-> 0]]
  /\ sweep = {} /\ reading = NoReading /\ aged = {} /\ cleared = {}

LinesOf(d) == IF d \in DOMAIN files THEN inodes[files[d]] ELSE {}
LinesIn(n) == IF n \in DOMAIN inodes THEN inodes[n] ELSE {}
Entered(f, x, y) == [z \in DOMAIN f \cup {x} |-> IF z = x THEN y ELSE f[z]]

-----------------------------------------------------------------------------
(* middleware.                                                             *)

Arrive(v) ==
  /\ visit[v].step = "new"
  /\ visit' = [visit EXCEPT ![v] = [step |-> IF logging THEN "served" ELSE "unlogged",
                                    keep |-> keep, date |-> 0]]
  /\ UNCHANGED <<date, keep, logging, files, inodes, writer, sweep, reading, aged, cleared>>

Complete(v) ==
  /\ visit[v].step = "served"
  /\ visit' = [visit EXCEPT ![v] = [step |-> "write", keep |-> @.keep, date |-> date]]
  /\ UNCHANGED <<date, keep, logging, files, inodes, writer, sweep, reading, aged, cleared>>

\* append, under the writer's lock.  A handle of another date is dropped.
HandleFor(d) == IF writer.open.date = d THEN writer.open ELSE Closed
\* Old files go when the date or the retention is another than the last time;
\* an error stops that in the middle and is not tried again.
Deletable(d, days) ==
  IF writer.cleaned = d /\ writer.kept = days THEN {}
  ELSE {f \in DOMAIN files : TooOld(f, d, days)}

\* Mutant: the open handle is used whatever its date is.
WriteLineAnyday(v) ==
  LET d == visit[v].date
      days == visit[v].keep
      handle == IF writer.open # Closed THEN writer.open
                ELSE [date |-> d, inode |-> Cardinality(DOMAIN inodes) + 1]
  IN /\ visit[v].step = "write" /\ visit' = [visit EXCEPT ![v].step = "written"]
     /\ files' = IF writer.open # Closed THEN files ELSE Entered(files, d, handle.inode)
     /\ inodes' = Entered(inodes, handle.inode, LinesIn(handle.inode) \cup {v})
     /\ writer' = [cleaned |-> d, kept |-> days, open |-> handle]
     /\ UNCHANGED <<date, keep, logging, sweep, reading, aged, cleared>>

\* The line itself may fail to be written.
WriteLine(v) ==
  LET d == visit[v].date
      days == visit[v].keep
  IN /\ visit[v].step = "write"
     /\ \E gone \in SUBSET Deletable(d, days), lines \in {{v}, {}} :
          LET left == [f \in DOMAIN files \ gone |-> files[f]]
              handle == IF HandleFor(d) # Closed THEN HandleFor(d)
                        ELSE [date |-> d, inode |-> IF d \in DOMAIN left THEN left[d]
                                                    ELSE Cardinality(DOMAIN inodes) + 1]
          IN /\ files' = IF HandleFor(d) # Closed THEN left
                         ELSE Entered(left, d, handle.inode)
             /\ inodes' = Entered(inodes, handle.inode, LinesIn(handle.inode) \cup lines)
             /\ writer' = [cleaned |-> d, kept |-> days, open |-> handle]
             /\ aged' = aged \cup gone
             /\ visit' = [visit EXCEPT ![v].step = IF v \in lines THEN "written" ELSE "lost"]
     /\ UNCHANGED <<date, keep, logging, sweep, reading, cleared>>

\* The directory cannot be made, or the file of the day not opened.
WriteFails(v) ==
  /\ visit[v].step = "write" /\ visit' = [visit EXCEPT ![v].step = "lost"]
  /\ \/ UNCHANGED <<files, writer, aged>>
     \/ /\ HandleFor(visit[v].date) = Closed
        /\ \E gone \in SUBSET Deletable(visit[v].date, visit[v].keep) :
             /\ files' = [f \in DOMAIN files \ gone |-> files[f]] /\ aged' = aged \cup gone
             /\ writer' = [cleaned |-> visit[v].date, kept |-> visit[v].keep, open |-> Closed]
  /\ UNCHANGED <<date, keep, logging, inodes, sweep, reading, cleared>>

-----------------------------------------------------------------------------
(* The owner.                                                              *)

\* set_audit_config: the files that are too old now are deleted one by one.
ChangeSettings ==
  /\ sweep = {} /\ keep' \in Keeps /\ logging' \in BOOLEAN
  /\ sweep' = {f \in DOMAIN files : TooOld(f, date, keep')}
  /\ UNCHANGED <<date, files, inodes, writer, visit, reading, aged, cleared>>

\* One that is gone already ends the sweep.
SweepFile ==
  /\ \E f \in sweep :
       IF f \in DOMAIN files
         THEN /\ files' = [g \in DOMAIN files \ {f} |-> files[g]]
              /\ aged' = aged \cup {f} /\ sweep' = sweep \ {f}
       ELSE sweep' = {} /\ UNCHANGED <<files, aged>>
  /\ UNCHANGED <<date, keep, logging, inodes, writer, visit, reading, cleared>>

\* clear_all_log_files: every file keeps its inode.
ClearFiles ==
  /\ inodes' = [n \in DOMAIN inodes |->
                  IF \E d \in DOMAIN files : files[d] = n THEN {} ELSE inodes[n]]
  /\ cleared' = cleared \cup UNION {LinesOf(d) : d \in DOMAIN files}
  /\ UNCHANGED <<date, keep, logging, files, writer, visit, sweep, reading, aged>>

\* query_access_logs: a file after the other; one that was deleted meanwhile
\* fails the query.
BeginReading ==
  /\ reading.todo = {} /\ DOMAIN files # {}
  /\ reading' = [todo |-> DOMAIN files, seen |-> {},
                 since |-> UNION {LinesOf(d) : d \in DOMAIN files}]
  /\ UNCHANGED <<date, keep, logging, files, inodes, writer, visit, sweep, aged, cleared>>

ReadLogFile ==
  /\ \E d \in reading.todo :
       reading' = IF d \notin DOMAIN files THEN NoReading
                  ELSE [reading EXCEPT !.todo = @ \ {d}, !.seen = @ \cup LinesOf(d)]
  /\ UNCHANGED <<date, keep, logging, files, inodes, writer, visit, sweep, aged, cleared>>

Midnight ==
  /\ date < LastDay /\ date' = date + 1
  /\ UNCHANGED <<keep, logging, files, inodes, writer, visit, sweep, reading, aged, cleared>>

ALNext ==
  \/ \E v \in Visits : Arrive(v) \/ Complete(v) \/ WriteLine(v) \/ WriteFails(v)
  \/ ChangeSettings \/ SweepFile \/ ClearFiles \/ BeginReading \/ ReadLogFile \/ Midnight

ALSpec == ALInit /\ [][ALNext]_alvars

-----------------------------------------------------------------------------
\* The line of an answered request, if its writing did not fail, is in the file of
\* the day it was answered on, and in no other, however late it is written, unless
\* the logs were cleared or that day was deleted for its age.
LinesInPlace == \A v \in Visits :
  /\ \A d \in DOMAIN files : v \in LinesOf(d) => d = visit[v].date
  /\ visit[v].step = "written" =>
       v \in LinesOf(visit[v].date) \cup cleared \/ visit[v].date \in aged

\* Today's file is never deleted for its age, by whatever settings and by
\* however late a request.
TodayKept == date \notin aged

\* What was logged before a query began is in its answer, unless the logs were
\* cleared or that day was deleted for its age: a file that went makes the query
\* fail, unless a late request has put another in its place.
ReadingComplete ==
  reading.todo = {} =>
    reading.since \subseteq
      reading.seen \cup cleared \cup {v \in Visits : visit[v].date \in aged}

AccessInv == LinesInPlace /\ TodayKept /\ ReadingComplete
=============================================================================
