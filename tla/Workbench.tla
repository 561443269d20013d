------------------------------ MODULE Workbench ------------------------------
(***************************************************************************)
(* The desktop's list of tasks, over all workspaces (commands/taskdock.rs, *)
(* personal-runtime workbench.rs).  A page asks the store of each          *)
(* directory in turn for the rows after the cursor, each in a transaction  *)
(* of its own, and keeps the first of all of them; meanwhile tasks and     *)
(* their jobs move on, and directories go away and come back.              *)
(*                                                                         *)
(* A task has its own state and one job at a time that is not over.        *)
(***************************************************************************)
EXTENDS Integers, FiniteSets

CONSTANTS Directories, \* directories, each with a store
          TaskNumbers, \* numbers, in the order of their text
          Desks,       \* the workspaces are 1..Desks, listed in the order of their ids
          PlaceOf,     \* their directories
          FirstRows,   \* what the stores keep at the start: rows or NoRow
          NoRow,
          PageLimits, Filters,
          MaxTouches, MaxListings, MaxAbsences

States == {"active", "completed", "blocked", "completed_unverified", "paused"}
Lives == {"none", "queued", "running", "unknown"}
\* passed, failed: when the last job of that end ended, 0 if none.
Rows == [state : States, changed : Nat, live : Lives, jobAt : Nat, passed : Nat, failed : Nat]

ASSUME WorkbenchAssumption ==
  /\ TaskNumbers \subseteq Nat /\ IsFiniteSet(TaskNumbers) /\ Desks \in Nat
  /\ PlaceOf \in [1..Desks -> Directories] /\ NoRow \notin Rows
  /\ FirstRows \subseteq [Directories -> [TaskNumbers -> Rows \cup {NoRow}]]
  /\ PageLimits \subseteq Nat \ {0} /\ MaxTouches \in Nat /\ MaxListings \in Nat /\ MaxAbsences \in Nat

VARIABLES
  rows,       \* of each store
  now,        \* now_ms
  away,       \* directories that cannot be read
  listing,    \* [filter, limit, cursor]: the traversal; its cursor is a key, NoCursor at
              \* the start
  nextDesk,   \* the next workspace of a page that is gathered, 0 between pages
  looked,     \* directories that the page has seen
  gathered,   \* keys of the rows that it has
  further,    \* some store has more
  listedKeys, \* the keys that the pages of the traversal showed
  again,      \* those of them that were shown before
  missed,     \* the directories that some page could not read
  untouched,  \* the tasks that matched when the traversal began and were left alone
  complete,   \* the last page said that it is the last
  touches, listings, absences \* how much of the bounds is used

wbvars == <<rows, now, away, listing, nextDesk, looked, gathered, further, listedKeys, again, missed,
            untouched, complete, touches, listings, absences>>

LaterOf(a, b) == IF a >= b THEN a ELSE b
Updated(r) == LaterOf(r.changed, r.jobAt)
Display(r) ==
  CASE r.live = "running" -> "running"
    [] r.live = "queued" -> "queued"
    [] r.live = "unknown" -> "attention"
    [] r.live = "none" /\ r.state = "completed" -> "done"
    [] r.live = "none" /\ r.state \in {"blocked", "completed_unverified"} -> "attention"
    [] r.live = "none" /\ r.state = "paused" -> "paused"
    [] OTHER -> IF r.failed > LaterOf(r.changed, r.passed) THEN "attention" ELSE "ready"

\* Where a row is in the order: by its time, its id and its workspace, downwards.
RowKeys == [updated : Nat, id : TaskNumbers, of : 1..Desks]
KeyOf(w, t) == [updated |-> Updated(rows[PlaceOf[w]][t]), id |-> t, of |-> w]
Ahead(k, m) ==
  \/ k.updated > m.updated
  \/ k.updated = m.updated /\ k.id > m.id
  \/ k.updated = m.updated /\ k.id = m.id /\ k.of > m.of
NoCursor == [updated |-> 0, id |-> 0, of |-> 0]
\* Mutant: rows of the cursor's time were all shown.
PastTime(k) == listing.cursor = NoCursor \/ k.updated < listing.cursor.updated
Past(k) == listing.cursor = NoCursor \/ Ahead(listing.cursor, k)

Fits(d, t) ==
  /\ rows[d][t] # NoRow
  /\ listing.filter = "all" \/ Display(rows[d][t]) = listing.filter
\* The first rows, as many as asked for.
Top(keys) == {k \in keys : Cardinality({m \in keys : Ahead(m, k)}) < listing.limit}

WBInit ==
  /\ rows \in FirstRows /\ now = 1 /\ away = {}
  /\ listing = [filter |-> "all", limit |-> 1, cursor |-> NoCursor]
  /\ nextDesk = 0 /\ looked = {} /\ gathered = {} /\ further = FALSE
  /\ listedKeys = {} /\ again = {} /\ missed = {} /\ untouched = {} /\ complete = TRUE
  /\ touches = 0 /\ listings = 0 /\ absences = 0

-----------------------------------------------------------------------------
(* Tasks and jobs move on: store.rs, jobs.rs, worker.rs.                   *)

Touch(d, t, r) ==
  /\ touches < MaxTouches /\ touches' = touches + 1
  /\ rows' = [rows EXCEPT ![d][t] = r] /\ untouched' = untouched \ {<<d, t>>}
  /\ UNCHANGED <<away, listing, nextDesk, looked, gathered, further, listedKeys, again, missed, complete,
                 listings, absences>>

\* Every write carries the time, which may be that of the one before.
Elapse == now' \in {now, now + 1}

NewTask(d, t) ==
  /\ rows[d][t] = NoRow /\ Elapse
  /\ Touch(d, t, [state |-> "active", changed |-> now', live |-> "none", jobAt |-> 0,
                  passed |-> 0, failed |-> 0])

Checkpointed(d, t, s) ==
  /\ rows[d][t] # NoRow /\ Elapse
  /\ Touch(d, t, [rows[d][t] EXCEPT !.state = s, !.changed = now'])

\* A running job's heartbeat is a write too.
JobMoves(d, t, s) ==
  /\ rows[d][t] # NoRow /\ s # "none" /\ (rows[d][t].live = s => s = "running") /\ Elapse
  /\ rows[d][t].live = "none" => s = "queued"
  /\ Touch(d, t, [rows[d][t] EXCEPT !.live = s, !.jobAt = now'])

JobOver(d, t, end) ==
  /\ rows[d][t] # NoRow /\ rows[d][t].live # "none" /\ Elapse
  /\ Touch(d, t, [rows[d][t] EXCEPT !.live = "none", !.jobAt = now',
                    !.failed = IF end = "failed" THEN now' ELSE @,
                    !.passed = IF end = "passed" THEN now' ELSE @])

Comes(d) ==
  /\ absences < MaxAbsences /\ absences' = absences + 1
  /\ away' = IF d \in away THEN away \ {d} ELSE away \cup {d}
  /\ UNCHANGED <<rows, now, listing, nextDesk, looked, gathered, further, listedKeys, again, missed,
                 untouched, complete, touches, listings>>

-----------------------------------------------------------------------------
(* The pages: taskdock_snapshot.                                           *)

\* The first page, of a filter.
StartListing(f, n) ==
  /\ nextDesk = 0 /\ listings < MaxListings /\ listings' = listings + 1
  /\ listing' = [filter |-> f, limit |-> n, cursor |-> NoCursor]
  /\ nextDesk' = 1 /\ looked' = {} /\ gathered' = {} /\ further' = FALSE
  /\ listedKeys' = {} /\ again' = {} /\ missed' = {} /\ complete' = FALSE
  /\ UNCHANGED <<rows, now, away, touches, absences>>
  /\ untouched' = {u \in Directories \X TaskNumbers : Fits(u[1], u[2])'}

\* The next one, from the cursor that the last one gave.
NextPage ==
  /\ nextDesk = 0 /\ ~complete /\ listings > 0
  /\ nextDesk' = 1 /\ looked' = {} /\ gathered' = {} /\ further' = FALSE
  /\ UNCHANGED <<rows, now, away, listing, listedKeys, again, missed, untouched, complete, touches,
                 listings, absences>>

\* workbench_page of one store: its first rows past the cursor, one more of which
\* tells that there are more.  A directory that another workspace has is skipped.
Gather ==
  /\ nextDesk \in 1..Desks /\ nextDesk' = nextDesk + 1
  /\ LET d == PlaceOf[nextDesk]
         keys == {k \in {KeyOf(nextDesk, t) : t \in {u \in TaskNumbers : Fits(d, u)}} : Past(k)}
     IN IF d \in looked
        THEN UNCHANGED <<looked, gathered, further, missed>>
        ELSE IF d \in away
        THEN \* the directory is not there, or its store cannot be read: a warning
             /\ missed' = missed \cup {d} /\ looked' \in {looked, looked \cup {d}}
             /\ UNCHANGED <<gathered, further>>
        ELSE /\ looked' = looked \cup {d} /\ gathered' = gathered \cup Top(keys)
             /\ further' = (further \/ Cardinality(keys) > listing.limit)
             /\ UNCHANGED missed
  /\ UNCHANGED <<rows, now, away, listing, listedKeys, again, untouched, complete, touches, listings,
                 absences>>

\* The first rows of all; the last of them is the cursor, unless all are shown.
Show ==
  /\ nextDesk = Desks + 1 /\ nextDesk' = 0
  /\ LET kept == Top(gathered)
         more == further \/ Cardinality(gathered) > listing.limit
         least == CHOOSE k \in kept : \A m \in kept : m # k => Ahead(m, k)
     IN /\ listedKeys' = listedKeys \cup kept /\ again' = again \cup (listedKeys \cap kept)
        /\ complete' = ~more
        /\ listing' = IF more THEN [listing EXCEPT !.cursor = least] ELSE listing
  /\ UNCHANGED <<rows, now, away, looked, gathered, further, missed, untouched, touches, listings,
                 absences>>

-----------------------------------------------------------------------------
WBNext ==
  \/ \E d \in Directories, t \in TaskNumbers :
       \/ NewTask(d, t) \/ (\E s \in States : Checkpointed(d, t, s))
       \/ (\E s \in Lives : JobMoves(d, t, s)) \/ \E end \in {"passed", "failed", "stopped"} : JobOver(d, t, end)
  \/ \E d \in Directories : Comes(d)
  \/ \E f \in Filters, n \in PageLimits : StartListing(f, n)
  \/ NextPage \/ Gather \/ Show

WBSpec == WBInit /\ [][WBNext]_wbvars

-----------------------------------------------------------------------------
(* Properties, of a traversal of the pages.                                *)

WBTypeOK ==
  /\ rows \in [Directories -> [TaskNumbers -> Rows \cup {NoRow}]] /\ now \in Nat /\ away \subseteq Directories
  /\ listing \in [filter : Filters \cup {"all"}, limit : PageLimits \cup {1}, cursor : RowKeys \cup {NoCursor}]
  /\ nextDesk \in 0..(Desks + 1) /\ looked \subseteq Directories /\ gathered \subseteq RowKeys
  /\ further \in BOOLEAN /\ complete \in BOOLEAN /\ listedKeys \subseteq RowKeys /\ again \subseteq RowKeys
  /\ missed \subseteq Directories /\ untouched \subseteq Directories \X TaskNumbers
  /\ touches \in 0..MaxTouches /\ listings \in 0..MaxListings /\ absences \in 0..MaxAbsences

\* The workspace under which the tasks of a directory are shown.
ShownBy(d) == CHOOSE w \in 1..Desks : PlaceOf[w] = d /\ \A v \in 1..(w - 1) : PlaceOf[v] # d
AlwaysRead == {d \in Directories \ missed : \E w \in 1..Desks : PlaceOf[w] = d}

\* workbench.rs:120-133, taskdock.rs:47-49: when the last page is there, the pages have
\* shown every task that matched all the while, of a directory that every page could
\* read, although each store was read at another moment than the others.
NoneLeftOut ==
  complete => \A u \in untouched : u[1] \in AlwaysRead => KeyOf(ShownBy(u[1]), u[2]) \in listedKeys

\* taskdock.rs:33-37: and none twice, also of a directory that two workspaces have.
NoneTwice ==
  /\ again = {}
  /\ \A k, m \in listedKeys :
       k.id = m.id /\ k.updated = m.updated /\ PlaceOf[k.of] = PlaceOf[m.of]
       /\ PlaceOf[k.of] \notin missed => k = m

WorkbenchInv == WBTypeOK /\ NoneLeftOut /\ NoneTwice
=============================================================================
