---------------------------- MODULE ReceiptPages ----------------------------
(***************************************************************************)
(* The evidence of a task's operations that the desktop shows page by page *)
(* (commands/taskdock_receipts.rs and taskdock_receipts_storage.rs), read  *)
(* only and without a common transaction from two databases: the calls     *)
(* that the audit recorded, newest first, and the durable receipts of      *)
(* patches, by request.  Calls end, receipts begin and finish, and old     *)
(* audit rows expire while the pages are turned.                           *)
(*                                                                         *)
(* A row of the audit is known by its place in time; a receipt is applied, *)
(* refused, or not yet finished.  Timing, hashes and exit codes of an item *)
(* are copied from its row and not modelled.                               *)
(***************************************************************************)
EXTENDS Integers, FiniteSets

CONSTANTS Patches,   \* request ids of patches, in order 1..n
          LastPlace, \* places in time of audit rows are 1..LastPlace
          ScanRows,  \* SCAN_ROWS
          PageSizes, \* limits that are asked for
          MaxTraversals, MaxRefusals,
          MaxNews    \* bound of what happens while pages are turned

ASSUME ReceiptPagesAssumption ==
  /\ Patches \subseteq Nat \ {0} /\ IsFiniteSet(Patches) /\ LastPlace \in Nat
  /\ ScanRows \in Nat \ {0} /\ PageSizes \subseteq Nat \ {0}
  /\ {MaxTraversals, MaxRefusals, MaxNews} \subseteq Nat

Places == 1..LastPlace

VARIABLES
  journal,   \* audit rows of the workspace: [at, patch, kind], patch 0 for none
  free,      \* places where no call was recorded yet
  proof,     \* of a patch: "none", "begun", "applied" or "refused"
  page,      \* the page that is being put together
  turn,      \* the cursor of the next page
  shown,     \* what the pages of this traversal showed: [source, id, status]
  twice,     \* what was shown again
  expected,  \* the rows and patches that there were at its start
  gaps,      \* what this traversal skipped ("rows", "receipts") or offered again
  traversals, refusals, news \* how many there were

rpvars == <<journal, free, proof, page, turn, shown, twice, expected, gaps, traversals, refusals, news>>
evidence == <<journal, free, proof>>

\* Kinds of rows: the patch's own call, another call of the task (a repetition
\* with other input, a command), a call of another task or without its text.
Kinds == {"same", "other", "alien"}

FromStart == [phase |-> "audit", place |-> 0]
Over == [phase |-> "over", place |-> 0]
NoPage == [at |-> "none", size |-> 1, items |-> {}, audited |-> {}]

\* Some calls were recorded before, a patch's own after it had finished.
RPInit ==
  /\ proof \in [Patches -> {"none", "begun", "applied"}]
  /\ \E taken \in SUBSET Places : \E f \in [taken -> [patch : Patches \cup {0}, kind : Kinds]] :
       journal = {[at |-> p, patch |-> f[p].patch, kind |-> f[p].kind] : p \in taken}
  /\ \A row \in journal :
       /\ row.kind = "same" <=> row.patch # 0
       /\ row.patch # 0 => proof[row.patch] = "applied"
       /\ \A o \in journal \ {row} : o.at # row.at /\ (o.patch = row.patch => o.patch = 0)
  /\ free = Places \ {row.at : row \in journal}
  /\ page = NoPage /\ turn = Over /\ shown = {} /\ twice = {}
  /\ expected = [rows |-> {}, patches |-> {}]
  /\ gaps = {} /\ traversals = 0 /\ refusals = 0 /\ news = 0

-----------------------------------------------------------------------------
(* The services and their audit.                                           *)

Happens == news < MaxNews /\ news' = news + 1

PatchBegins(r) ==
  /\ Happens /\ proof[r] = "none" /\ proof' = [proof EXCEPT ![r] = "begun"]
  /\ UNCHANGED <<journal, free, page, turn, shown, twice, expected, gaps, traversals, refusals>>

PatchEnds(r) ==
  /\ Happens /\ proof[r] = "begun" /\ \E s \in {"applied", "refused"} : proof' = [proof EXCEPT ![r] = s]
  /\ UNCHANGED <<journal, free, page, turn, shown, twice, expected, gaps, traversals, refusals>>

\* A call is recorded when it ends, at the place where it began.
CallRecorded(p, r, kind) ==
  /\ Happens /\ p \in free /\ free' = free \ {p}
  /\ IF kind = "same" THEN r # 0 /\ proof[r] \in {"applied", "refused"} /\ \A row \in journal : row.patch # r
     ELSE r = 0
  /\ journal' = journal \cup {[at |-> p, patch |-> r, kind |-> kind]}
  /\ UNCHANGED <<proof, page, turn, shown, twice, expected, gaps, traversals, refusals>>

RowExpires ==
  /\ Happens
  /\ \E row \in journal :
       (\A o \in journal : row.at <= o.at) /\ journal' = journal \ {row}
  /\ UNCHANGED <<proof, free, page, turn, shown, twice, expected, gaps, traversals, refusals>>

-----------------------------------------------------------------------------
(* A page.                                                                 *)

BeginTraversal ==
  /\ page.at = "none" /\ turn = Over /\ traversals < MaxTraversals
  /\ traversals' = traversals + 1 /\ turn' = FromStart
  /\ shown' = {} /\ twice' = {} /\ gaps' = {}
  /\ expected' = [rows |-> journal, patches |-> {r \in Patches : proof[r] # "none"}]
  /\ UNCHANGED <<evidence, page, refusals, news>>

OpenPage(size) ==
  /\ page.at = "none" /\ turn # Over
  /\ page' = [at |-> turn.phase, size |-> size, items |-> {}, audited |-> {}]
  /\ UNCHANGED <<evidence, turn, shown, twice, expected, gaps, traversals, refusals, news>>

\* Where a page may stop among the entries of a window, by their keys, when base items
\* are on it and the entries of counted come to it: at an entry that fills it, or at
\* the last that is scanned, if more follow.  It stops at the first such.
Upto(keys, k) == {x \in keys : x <= k}
Stops(keys, base, counted) ==
  {k \in keys : /\ Upto(keys, k) # keys
                /\ \/ Cardinality(Upto(keys, k)) = ScanRows
                   \/ base + Cardinality(Upto(keys, k) \cap counted) >= page.size}
FirstOf(stops) == CHOOSE k \in stops : \A o \in stops : k <= o
Used(keys, stops) == IF stops = {} THEN keys ELSE Upto(keys, FirstOf(stops))

\* durable_result: the receipt of exactly this call, and applied.
Proves(row) == row.kind = "same" /\ proof[row.patch] = "applied"

\* The status that was recorded is copied: that of a patch's own call says how the
\* patch ended, that of other calls, which needs no receipt, is not told apart.
StatusOf(row) ==
  IF row.kind # "same" THEN "recorded" ELSE IF Proves(row) THEN "success" ELSE "error"

\* audit_rows: the calls before the cursor, newest first.
AuditRows(place) == {row \in journal : place = 0 \/ row.at < place}
PlaceKeys(rows) == {-row.at : row \in rows}

\* What each of them shows; a full page, or a full scan, ends at a row of the audit
\* if more follow.
ReadAudit ==
  LET window == AuditRows(turn.place)
      mine == {row \in window : row.kind # "alien"}
      stops == Stops(PlaceKeys(window), 0, PlaceKeys(mine))
      used == {row \in window : -row.at \in Used(PlaceKeys(window), stops)}
      items == {[source |-> "audit", id |-> row.at, patch |-> row.patch, kind |-> row.kind,
                 status |-> StatusOf(row)] : row \in used \cap mine}
      more == stops # {}
  IN /\ page.at = "audit"
     /\ page' = [at |-> IF more THEN "answer" ELSE "durable", size |-> page.size, items |-> items,
                 audited |-> {row.patch : row \in {x \in used : Proves(x)}}]
     /\ turn' = IF more THEN [phase |-> "audit", place |-> -FirstOf(stops)] ELSE Over
     /\ UNCHANGED <<evidence, shown, twice, expected, gaps, traversals, refusals, news>>

\* The audit's database cannot be read: a warning, and the receipts only.
AuditBusy ==
  /\ page.at = "audit" /\ refusals < MaxRefusals /\ refusals' = refusals + 1
  /\ page' = [page EXCEPT !.at = "durable"] /\ turn' = Over
  /\ gaps' = gaps \cup {"rows"}
  /\ UNCHANGED <<evidence, shown, twice, expected, traversals, news>>

\* What a receipt alone can say.
Verdict(r) ==
  IF proof[r] = "begun" THEN "unknown" ELSE IF proof[r] = "applied" THEN "success" ELSE "rejected"

\* The durable receipts after the cursor, but for those that an audit row of this
\* page stands for; a page that is full already gets none.
ReadReceipts ==
  LET after == IF turn.phase = "durable" THEN turn.place ELSE 0
      window == {r \in Patches : proof[r] # "none" /\ r > after}
      stops == Stops(window, Cardinality(page.items), Patches \ page.audited)
      used == Used(window, stops) \ page.audited
      items == {[source |-> "receipt", id |-> r, patch |-> r, kind |-> "same",
                 status |-> Verdict(r)] : r \in used}
      full == Cardinality(page.items) >= page.size
      now == IF full THEN page.items ELSE page.items \cup items
      next == IF ~full /\ stops # {} THEN [phase |-> "durable", place |-> FirstOf(stops)] ELSE Over
  IN /\ page.at = "durable"
     /\ page' = [at |-> IF next = Over /\ turn.phase # "durable" /\ Cardinality(now) >= page.size
                       THEN "offer" ELSE "answer",
                 size |-> page.size, items |-> now, audited |-> page.audited]
     /\ turn' = next
     /\ UNCHANGED <<evidence, shown, twice, expected, gaps, traversals, refusals, news>>

\* Mutant: nothing is offered behind a full last page of the audit.
OfferNone ==
  /\ page.at = "offer" /\ page' = [page EXCEPT !.at = "answer"]
  /\ UNCHANGED <<evidence, turn, shown, twice, expected, gaps, traversals, refusals, news>>

\* A full last page, whose own receipts may have filled it, offers the receipts that
\* audit rows do not stand for, from the first; a count that fails counts none.
OfferReceipts ==
  /\ page.at = "offer" /\ page' = [page EXCEPT !.at = "answer"]
  /\ \/ /\ turn' = IF Cardinality({r \in Patches : proof[r] # "none"}) > Cardinality(page.audited)
                   THEN [phase |-> "durable", place |-> 0] ELSE Over
        /\ gaps' = IF \E i \in page.items : i.source = "receipt" THEN gaps \cup {"again"} ELSE gaps
        /\ UNCHANGED refusals
     \/ /\ refusals < MaxRefusals /\ refusals' = refusals + 1
        /\ gaps' = gaps \cup {"receipts"} /\ turn' = Over
  /\ UNCHANGED <<evidence, shown, twice, expected, traversals, news>>

AnswerPage ==
  /\ page.at = "answer" /\ page' = NoPage
  /\ shown' = shown \cup page.items
  /\ twice' = twice \cup {i \in page.items : \E o \in shown : o.source = i.source /\ o.id = i.id}
  /\ UNCHANGED <<evidence, turn, expected, gaps, traversals, refusals, news>>

RPNext ==
  \/ \E r \in Patches : PatchBegins(r) \/ PatchEnds(r)
  \/ \E p \in Places, r \in Patches \cup {0}, kind \in Kinds : CallRecorded(p, r, kind)
  \/ RowExpires \/ BeginTraversal
  \/ \E size \in PageSizes : OpenPage(size)
  \/ ReadAudit \/ AuditBusy \/ ReadReceipts \/ OfferReceipts \/ AnswerPage

RPSpec == RPInit /\ [][RPNext]_rpvars

-----------------------------------------------------------------------------
(* Properties.                                                             *)

TraversalOver == traversals > 0 /\ turn = Over /\ page.at = "none"

\* Whoever turns to the last page has seen every patch of the task that had begun
\* when the first was read, as a receipt or as the call it came from; unless a
\* count failed.
PatchesSeen ==
  TraversalOver /\ "receipts" \notin gaps =>
    \A r \in expected.patches : \E i \in shown : i.patch = r /\ i.kind = "same"

\* ... and every call of the task that was and stayed recorded, unless the audit
\* could not be read.
CallsSeen ==
  TraversalOver /\ gaps \cap {"rows"} = {} =>
    \A row \in expected.rows \cap journal :
      row.kind # "alien" => \E i \in shown : i.source = "audit" /\ i.id = row.at

\* No call is shown twice, and a receipt only when receipts filled the last page of
\* the audit, which offers them again; a patch that is shown as a success, by its own
\* call or by its receipt, was applied.
ItemsTrue ==
  /\ \A i \in twice : i.source = "receipt" /\ "again" \in gaps
  /\ \A i \in shown : i.status = "success" => proof[i.patch] = "applied"

\* Types, and the three above: taskdock_receipts.rs:60-302, beside services that
\* go on.
ReceiptsInv ==
  /\ turn.phase \in {"audit", "durable", "over"} /\ page.audited \subseteq Patches
  /\ PatchesSeen /\ CallsSeen /\ ItemsTrue
=============================================================================
