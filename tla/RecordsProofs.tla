--------------------------- MODULE RecordsProofs ---------------------------
(***************************************************************************)
(* Theorems about what the personal application keeps for its user and     *)
(* shows of it: the pages of operation receipts, the tasks and logs of the *)
(* project harness, the desktop's data and the skills.  Each is for any    *)
(* instance of its component.                                              *)
(***************************************************************************)
EXTENDS ReceiptPages, Harness, DesktopData, SkillLibrary,
        WellFoundedInduction, FiniteSetTheorems, TLAPS

-----------------------------------------------------------------------------
(* Numbers.                                                                *)

\* Of numbers that satisfy something, one is the least.
LEMMA FirstPlace ==
  ASSUME NEW S \in SUBSET Nat, S # {}
  PROVE  \E n \in S : \A m \in S : n <= m
<1> DEFINE R == OpToRel(<, Nat)
<1>1. PICK n \in S : \A m \in S : ~(<<m, n>> \in R)
  BY NatLessThanWellFounded, WFMin
<1>2. ASSUME NEW m \in S PROVE n <= m
  <2>1. m \in Nat /\ n \in Nat
    OBVIOUS
  <2>2. m < n => <<m, n>> \in R
    BY <2>1 DEF OpToRel
  <2>3. ~(m < n)
    BY <1>1, <2>2
  <2> QED BY <2>1, <2>3
<1> QED BY <1>2

-----------------------------------------------------------------------------
(* ReceiptPages.  What the pages showed says nothing by itself of what is  *)
(* to come; the invariant says, for every call and every patch, that it    *)
(* was shown, or is still ahead of the cursor.                             *)

RowsTyped ==
  /\ \A row \in journal : /\ row.at \in Places \ free
                          /\ row.kind \in Kinds /\ row.patch \in Patches \cup {0}
                          /\ row.kind = "same" <=> row.patch # 0
  /\ free \subseteq Places
  /\ proof \in [Patches -> {"none", "begun", "applied", "refused"}]

\* Where the page and the cursor may be together.
PageTyped ==
  /\ page.at \in {"none", "audit", "durable", "offer", "answer"}
  /\ page.size \in Nat \ {0}
  /\ turn \in [phase : {"audit", "durable"}, place : Nat] \cup {Over}
  /\ page.at = "audit" => turn.phase = "audit"
  /\ page.at = "durable" => turn.phase # "audit"
  /\ page.at = "offer" => turn = Over
  /\ page.at \in {"none", "audit"} \/ (page.at = "durable" /\ turn.phase = "durable") =>
       page.items = {} /\ page.audited = {}

\* What the items say, and that an audited patch is among them.
ItemsTyped ==
  /\ \A i \in shown \cup page.items : i.status = "success" =>
       i.patch \in Patches /\ proof[i.patch] = "applied"
  /\ \A r \in page.audited : /\ r \in Patches /\ proof[r] = "applied"
                             /\ \E i \in page.items : i.patch = r /\ i.kind = "same"
  /\ twice \subseteq {i \in shown : i.source = "receipt" /\ "again" \in gaps}
  /\ \A i \in shown \cup page.items : i.source \in {"audit", "receipt"} /\ i.id \in Nat

\* The rows and patches that are looked for were there, and places are not given twice.
ExpectedRight ==
  /\ \A row \in expected.rows : row.at \in Places \ free
  /\ \A r \in expected.patches : r \in Patches /\ proof[r] # "none"
  /\ traversals \in Nat /\ (traversals = 0 => expected.rows = {} /\ expected.patches = {})

\* Audit items are behind the cursor, and receipts too, unless they are offered again.
Behind ==
  /\ turn.phase = "audit" => \A i \in shown \cup page.items :
       i.source = "audit" /\ turn.place # 0 /\ turn.place <= i.id
  /\ turn.phase = "durable" => \A i \in shown \cup page.items :
       i.source = "receipt" => i.id <= turn.place \/ "again" \in gaps
  /\ page.at = "offer" \/ (page.at = "durable" /\ turn = Over) =>
       \A i \in shown : i.source = "audit"
  /\ page.at = "durable" /\ turn = Over => \A i \in page.items : i.source = "audit"
  /\ \A i \in page.items, o \in shown :
       i.source = o.source /\ i.id = o.id => i.source = "receipt" /\ "again" \in gaps

\* A call that was there is shown, or ahead of the cursor.
CallsAhead ==
  \A row \in expected.rows \cap journal : row.kind # "alien" =>
    \/ "rows" \in gaps
    \/ \E i \in shown \cup page.items : i.source = "audit" /\ i.id = row.at
    \/ turn.phase = "audit" /\ (turn.place = 0 \/ row.at < turn.place)

\* A patch that had begun is shown, or its receipt is ahead of the cursor.
PatchesAhead ==
  \A r \in expected.patches :
    \/ "receipts" \in gaps
    \/ \E i \in shown \cup page.items : i.patch = r /\ i.kind = "same"
    \/ turn.phase = "audit"
    \/ turn.phase = "durable" /\ turn.place < r
    \/ turn = Over /\ page.at \in {"durable", "offer"}

RPStrong ==
  /\ RowsTyped /\ PageTyped /\ ItemsTyped /\ ExpectedRight
  /\ Behind /\ CallsAhead /\ PatchesAhead

-----------------------------------------------------------------------------
(* Where a page stops.                                                     *)

LEMMA FirstFound ==
  ASSUME NEW b \in Nat, NEW stops \in SUBSET Int, \A k \in stops : -b <= k, stops # {}
  PROVE  FirstOf(stops) \in stops /\ \A k \in stops : FirstOf(stops) <= k
<1> DEFINE T == {k + b : k \in stops}
           R == OpToRel(<, Nat)
<1>1. ASSUME NEW k \in stops PROVE k + b \in Nat
  <2>1. k \in Int /\ -b <= k
    OBVIOUS
  <2> QED BY <2>1
<1>2. PICK x \in T : \A y \in T : ~(<<y, x>> \in R)
  <2>1. T \subseteq Nat /\ T # {}
    BY <1>1
  <2> HIDE DEF T
  <2> QED BY <2>1, NatLessThanWellFounded, WFMin
<1>3. ASSUME NEW y \in T PROVE x <= y
  <2>1. x \in Nat /\ y \in Nat
    BY <1>1
  <2>2. y < x => <<y, x>> \in R
    BY <2>1 DEF OpToRel
  <2>3. ~(y < x)
    BY <1>2, <2>2
  <2> QED BY <2>1, <2>3
<1>4. PICK k \in stops : x = k + b
  OBVIOUS
<1>5. \A o \in stops : k <= o
  <2> SUFFICES ASSUME NEW o \in stops PROVE k <= o
    OBVIOUS
  <2>1. k + b <= o + b
    BY <1>3, <1>4
  <2>2. k \in Int /\ o \in Int
    OBVIOUS
  <2> QED BY <2>1, <2>2
<1> QED BY <1>5 DEF FirstOf

\* What a page takes of a window is the window up to its stop.
LEMMA UsedMeans ==
  ASSUME NEW keys \in SUBSET Int, NEW b \in Nat, \A k \in keys : -b <= k,
         NEW base, NEW counted, NEW stops, stops = Stops(keys, base, counted)
  PROVE  /\ stops = {} => Used(keys, stops) = keys
         /\ stops # {} => /\ FirstOf(stops) \in keys
                          /\ Used(keys, stops) = {k \in keys : k <= FirstOf(stops)}
<1>1. stops \subseteq keys
  BY DEF Stops
<1>2. stops # {} => FirstOf(stops) \in stops
  BY <1>1, FirstFound
<1> QED BY <1>1, <1>2 DEF Used, Upto

-----------------------------------------------------------------------------
(* The beginning, and what the services do meanwhile.                      *)

LEMMA RPBegins == RPInit => RPStrong
<1> SUFFICES ASSUME RPInit PROVE RPStrong
  OBVIOUS
<1> USE ReceiptPagesAssumption
<1>1. RowsTyped
  <2>1. PICK taken \in SUBSET Places : \E f \in [taken -> [patch : Patches \cup {0}, kind : Kinds]] :
          journal = {[at |-> p, patch |-> f[p].patch, kind |-> f[p].kind] : p \in taken}
    BY DEF RPInit
  <2>2. PICK f \in [taken -> [patch : Patches \cup {0}, kind : Kinds]] :
          journal = {[at |-> p, patch |-> f[p].patch, kind |-> f[p].kind] : p \in taken}
    BY <2>1
  <2>3. \A row \in journal : row.at \in Places /\ row.kind \in Kinds /\ row.patch \in Patches \cup {0}
    BY <2>2
  <2>4. free = Places \ {row.at : row \in journal}
    BY DEF RPInit
  <2> QED BY <2>3, <2>4 DEF RPInit, RowsTyped
<1>2. PageTyped /\ ItemsTyped /\ ExpectedRight /\ Behind /\ CallsAhead /\ PatchesAhead
  BY DEF RPInit, PageTyped, ItemsTyped, ExpectedRight, Behind, CallsAhead, PatchesAhead, NoPage,
      Over
<1> QED BY <1>1, <1>2 DEF RPStrong

pagevars == <<page, turn, shown, twice, expected, gaps, traversals, refusals>>

\* Patches begin and end, and nothing that was applied becomes anything else.
LEMMA PatchesGoOn ==
  ASSUME RPStrong, UNCHANGED <<journal, free, pagevars>>,
         proof' \in [Patches -> {"none", "begun", "applied", "refused"}],
         \A r \in Patches : /\ proof[r] = "applied" => proof'[r] = "applied"
                            /\ proof[r] # "none" => proof'[r] # "none"
  PROVE  RPStrong'
<1> USE DEF RPStrong, pagevars
<1>1. RowsTyped'
  BY DEF RowsTyped
<1>2. PageTyped' /\ Behind' /\ CallsAhead' /\ PatchesAhead'
  BY DEF PageTyped, Behind, CallsAhead, PatchesAhead
<1>3. ItemsTyped'
  BY DEF ItemsTyped
<1>4. ExpectedRight'
  BY DEF ExpectedRight
<1> QED BY <1>1, <1>2, <1>3, <1>4

\* Rows come to places that are free, and go.
LEMMA RowsGoOn ==
  ASSUME RPStrong, UNCHANGED <<proof, pagevars>>,
         free' \subseteq free,
         \A row \in journal' : row \in journal \/ row.at \in free \ free',
         RowsTyped'
  PROVE  RPStrong'
<1> USE DEF RPStrong, pagevars
<1>1. PageTyped' /\ Behind' /\ PatchesAhead' /\ ItemsTyped'
  BY DEF PageTyped, Behind, PatchesAhead, ItemsTyped
<1>2. ExpectedRight'
  BY DEF ExpectedRight
<1>3. CallsAhead'
  BY DEF CallsAhead, ExpectedRight
<1> QED BY <1>1, <1>2, <1>3

LEMMA EvidenceStep ==
  ASSUME RPStrong,
         \/ \E r \in Patches : PatchBegins(r) \/ PatchEnds(r)
         \/ \E p \in Places, r \in Patches \cup {0}, kind \in Kinds : CallRecorded(p, r, kind)
         \/ RowExpires
  PROVE  RPStrong'
<1> USE DEF pagevars
<1>1. CASE \E r \in Patches : PatchBegins(r) \/ PatchEnds(r)
  <2>1. PICK r \in Patches : PatchBegins(r) \/ PatchEnds(r)
    BY <1>1
  <2>2. /\ UNCHANGED <<journal, free, pagevars>>
        /\ proof[r] \in {"none", "begun"}
        /\ \E s \in {"begun", "applied", "refused"} : proof' = [proof EXCEPT ![r] = s]
    BY <2>1 DEF PatchBegins, PatchEnds
  <2>3. proof \in [Patches -> {"none", "begun", "applied", "refused"}]
    BY DEF RPStrong, RowsTyped
  <2> QED BY <2>2, <2>3, PatchesGoOn
<1>2. ASSUME NEW p \in Places, NEW r \in Patches \cup {0}, NEW kind \in Kinds, CallRecorded(p, r, kind)
      PROVE  RPStrong'
  <2>1. /\ p \in free /\ free' = free \ {p}
        /\ journal' = journal \cup {[at |-> p, patch |-> r, kind |-> kind]}
        /\ UNCHANGED <<proof, pagevars>>
    BY <1>2 DEF CallRecorded
  <2>2. kind = "same" <=> r # 0
    BY <1>2, ReceiptPagesAssumption DEF CallRecorded
  <2>3. RowsTyped'
    BY <2>1, <2>2 DEF RPStrong, RowsTyped
  <2> QED BY <2>1, <2>3, RowsGoOn
<1>3. CASE RowExpires
  <2>1. journal' \subseteq journal /\ UNCHANGED <<proof, free, pagevars>>
    BY <1>3 DEF RowExpires
  <2>2. RowsTyped'
    BY <2>1 DEF RPStrong, RowsTyped
  <2> QED BY <2>1, <2>2, RowsGoOn
<1> QED BY <1>1, <1>2, <1>3

-----------------------------------------------------------------------------
(* The pages.                                                              *)

LEMMA RowsStay ==
  ASSUME RPStrong, UNCHANGED evidence
  PROVE  RowsTyped'
BY DEF RPStrong, RowsTyped, evidence

LEMMA TraversalBegins == ASSUME RPStrong, BeginTraversal PROVE RPStrong'
<1> USE DEF BeginTraversal, RPStrong, FromStart, Over, evidence
<1>1. RowsTyped'
  BY RowsStay
<1>2. PageTyped'
  BY DEF PageTyped
<1>3. ItemsTyped'
  BY DEF ItemsTyped, PageTyped
<1>4. ExpectedRight'
  BY DEF ExpectedRight, RowsTyped
<1>5. Behind' /\ CallsAhead' /\ PatchesAhead'
  BY DEF Behind, CallsAhead, PatchesAhead, PageTyped
<1> QED BY <1>1, <1>2, <1>3, <1>4, <1>5

LEMMA PageOpens == ASSUME RPStrong, NEW size \in PageSizes, OpenPage(size) PROVE RPStrong'
<1> USE DEF OpenPage, RPStrong, Over, evidence
<1>1. RowsTyped'
  BY RowsStay
<1>2. PageTyped'
  BY ReceiptPagesAssumption DEF PageTyped
<1>0. page.items = {} /\ page'.items = {} /\ page'.audited = {}
  BY DEF PageTyped
<1>3. ItemsTyped'
  BY <1>0 DEF ItemsTyped, PageTyped
<1>4. ExpectedRight'
  BY DEF ExpectedRight
<1>5. Behind'
  BY <1>0 DEF Behind, PageTyped
<1>6. CallsAhead' /\ PatchesAhead'
  BY <1>0 DEF CallsAhead, PatchesAhead, PageTyped
<1> QED BY <1>1, <1>2, <1>3, <1>4, <1>5, <1>6

LEMMA AuditWasBusy == ASSUME RPStrong, AuditBusy PROVE RPStrong'
<1> USE DEF AuditBusy, RPStrong, Over, evidence
<1>1. RowsTyped'
  BY RowsStay
<1>0. /\ page' = [page EXCEPT !.at = "durable"] /\ page.items = {} /\ page.audited = {}
      /\ page'.at = "durable" /\ page'.items = {} /\ page'.audited = {} /\ page'.size = page.size
      /\ turn.phase = "audit" /\ turn' = Over /\ Over.phase = "over"
  BY DEF PageTyped
<1>2. PageTyped'
  BY <1>0 DEF PageTyped
<1>3. ItemsTyped'
  BY <1>0 DEF ItemsTyped
<1>4. ExpectedRight'
  BY DEF ExpectedRight
<1>5. Behind'
  BY <1>0 DEF Behind
<1>6. CallsAhead' /\ PatchesAhead'
  BY <1>0 DEF CallsAhead, PatchesAhead
<1> QED BY <1>1, <1>2, <1>3, <1>4, <1>5, <1>6

LEMMA PageAnswered == ASSUME RPStrong, AnswerPage PROVE RPStrong'
<1> USE DEF AnswerPage, RPStrong, Over, evidence
<1>0. /\ page'.at = "none" /\ page'.items = {} /\ page'.audited = {} /\ page'.size = 1
      /\ shown' \cup page'.items = shown \cup page.items
      /\ page.at = "answer"
  BY DEF NoPage
<1>1. RowsTyped'
  BY RowsStay
<1>2. PageTyped'
  BY <1>0 DEF PageTyped
<1>3. ItemsTyped'
  BY <1>0 DEF ItemsTyped, Behind
<1>4. ExpectedRight'
  BY DEF ExpectedRight
<1>5. Behind'
  BY <1>0 DEF Behind
<1>6. CallsAhead' /\ PatchesAhead'
  BY <1>0 DEF CallsAhead, PatchesAhead
<1> QED BY <1>1, <1>2, <1>3, <1>4, <1>5, <1>6

LEMMA AuditRead == ASSUME RPStrong, ReadAudit PROVE RPStrong'
<1> DEFINE window == AuditRows(turn.place)
           mine == {row \in window : row.kind # "alien"}
           stops == Stops(PlaceKeys(window), 0, PlaceKeys(mine))
           used == {row \in window : -row.at \in Used(PlaceKeys(window), stops)}
           items == {[source |-> "audit", id |-> row.at, patch |-> row.patch, kind |-> row.kind,
                      status |-> StatusOf(row)] :
                        row \in used \cap mine}
           cut == -FirstOf(stops)
<1>1. /\ page.at = "audit"
      /\ page' = [at |-> IF stops # {} THEN "answer" ELSE "durable", size |-> page.size, items |-> items,
                  audited |-> {row.patch : row \in {x \in used : Proves(x)}}]
      /\ turn' = IF stops # {} THEN [phase |-> "audit", place |-> cut] ELSE Over
      /\ UNCHANGED <<evidence, shown, twice, expected, gaps, traversals>>
  BY DEF ReadAudit
<1>2. /\ turn.phase = "audit" /\ turn.place \in Nat /\ page.items = {} /\ page.audited = {}
      /\ page.size \in Nat \ {0}
  BY <1>1 DEF RPStrong, PageTyped, Over
<1>3. \A row \in journal : row.at \in 1..LastPlace
  BY DEF RPStrong, RowsTyped, Places
<1>4. /\ stops = {} => used = window
      /\ stops # {} => /\ cut \in {row.at : row \in window}
                       /\ used = {row \in window : cut <= row.at}
  <2>1. PlaceKeys(window) \in SUBSET Int /\ \A k \in PlaceKeys(window) : -LastPlace <= k
    BY <1>3, ReceiptPagesAssumption DEF PlaceKeys, AuditRows
  <2>2. LastPlace \in Nat
    BY ReceiptPagesAssumption
  <2> HIDE DEF stops, window
  <2>3. /\ stops = {} => Used(PlaceKeys(window), stops) = PlaceKeys(window)
        /\ stops # {} => /\ FirstOf(stops) \in PlaceKeys(window)
                         /\ Used(PlaceKeys(window), stops) = {k \in PlaceKeys(window) : k <= FirstOf(stops)}
    BY <2>1, <2>2, UsedMeans DEF stops
  <2>4. \A row \in window : row.at \in Int /\ -row.at \in PlaceKeys(window)
    BY <1>3 DEF window, AuditRows, PlaceKeys
  <2>5. CASE stops = {}
    BY <2>3, <2>4, <2>5
  <2>6. CASE stops # {}
    <3>1. PICK row \in window : FirstOf(stops) = -row.at
      BY <2>3, <2>6 DEF PlaceKeys
    <3>2. cut = row.at
      BY <3>1, <2>4
    <3>3. \A o \in window : -o.at <= -row.at <=> row.at <= o.at
      BY <2>4
    <3>4. \A o \in window : -o.at \in Used(PlaceKeys(window), stops) <=> cut <= o.at
      BY <3>1, <3>2, <3>3, <2>3, <2>4, <2>6
    <3> QED BY <3>2, <3>4, <2>6
  <2> QED BY <2>5, <2>6
<1>5. \A row \in window : row \in journal /\ (turn.place = 0 \/ row.at < turn.place)
  BY DEF AuditRows
<1>6. \A row \in journal : row \in window \/ (turn.place # 0 /\ ~(row.at < turn.place))
  BY DEF AuditRows
<1> HIDE DEF window, stops, cut
<1>7. used \subseteq window
  OBVIOUS
<1>8. \A i \in items : \E row \in used \cap mine :
        /\ i.source = "audit" /\ i.id = row.at /\ i.patch = row.patch /\ i.kind = row.kind
        /\ i.status = "success" => Proves(row)
  BY DEF StatusOf
<1>9. \A row \in used \cap mine : \E i \in items :
        i.source = "audit" /\ i.id = row.at /\ i.patch = row.patch /\ i.kind = row.kind
  <2> TAKE row \in used \cap mine
  <2> DEFINE it == [source |-> "audit", id |-> row.at, patch |-> row.patch, kind |-> row.kind,
                    status |-> StatusOf(row)]
  <2>1. it \in items
    OBVIOUS
  <2>2. it.source = "audit" /\ it.id = row.at /\ it.patch = row.patch /\ it.kind = row.kind
    OBVIOUS
  <2> HIDE DEF it, items
  <2> QED BY <2>1, <2>2
<1>10. /\ page'.items = items /\ page'.size = page.size
       /\ page'.audited = {row.patch : row \in {x \in used : Proves(x)}}
       /\ stops = {} => page'.at = "durable" /\ turn' = Over /\ turn'.phase = "over"
       /\ stops # {} => page'.at = "answer" /\ turn' = [phase |-> "audit", place |-> cut]
                        /\ turn'.phase = "audit" /\ turn'.place = cut
  BY <1>1 DEF Over
<1>11. \A row \in mine : row.kind # "alien"
  OBVIOUS
<1>12. \A row \in window : row.kind # "alien" => row \in mine
  OBVIOUS
<1>13. \A row \in used : Proves(row) => row \in mine /\ row.patch \in Patches /\ row.kind = "same"
                                       /\ proof[row.patch] = "applied"
  <2> SUFFICES ASSUME NEW row \in used, Proves(row)
               PROVE  row \in mine /\ row.patch \in Patches /\ row.kind = "same"
                      /\ proof[row.patch] = "applied"
    OBVIOUS
  <2>1. row \in journal /\ row.kind = "same" /\ proof[row.patch] = "applied"
    BY <1>5 DEF Proves
  <2>2. row.patch \in Patches
    BY <2>1 DEF RPStrong, RowsTyped
  <2> QED BY <2>1, <2>2
<1>14. stops # {} => cut \in Nat /\ cut # 0
  BY <1>3, <1>4, <1>5
<1> HIDE DEF items, mine, used
<1>15. RowsTyped'
  BY <1>1, RowsStay DEF evidence
<1>16. PageTyped'
  <2>1. CASE stops = {}
    BY <1>2, <1>10, <2>1 DEF PageTyped, Over
  <2>2. CASE stops # {}
    BY <1>2, <1>10, <1>14, <2>2 DEF PageTyped, Over
  <2> QED BY <2>1, <2>2
<1>17. ItemsTyped'
  <2>1. \A i \in shown : i.status = "success" => i.patch \in Patches /\ proof[i.patch] = "applied"
    BY DEF RPStrong, ItemsTyped
  <2>2. \A i \in items : i.status = "success" => i.patch \in Patches /\ proof[i.patch] = "applied"
    BY <1>8, <1>13
  <2>3. \A r \in page'.audited : /\ r \in Patches /\ proof[r] = "applied"
                                 /\ \E i \in items : i.patch = r /\ i.kind = "same"
    BY <1>10, <1>9, <1>13
  <2>4. twice \subseteq {i \in shown : i.source = "receipt" /\ "again" \in gaps}
    BY DEF RPStrong, ItemsTyped
  <2>5. \A i \in shown \cup items : i.source \in {"audit", "receipt"} /\ i.id \in Nat
    BY <1>8, <1>3, <1>5, <1>7 DEF RPStrong, ItemsTyped
  <2> QED BY <1>1, <1>10, <2>1, <2>2, <2>3, <2>4, <2>5 DEF ItemsTyped, evidence
<1>18. ExpectedRight'
  BY <1>1 DEF RPStrong, ExpectedRight, evidence
<1>19. Behind'
  <2>1. \A i \in shown : i.source = "audit" /\ turn.place # 0 /\ turn.place <= i.id /\ i.id \in Nat
    BY <1>2 DEF RPStrong, Behind, ItemsTyped
  <2>2. \A i \in items : i.source = "audit" /\ i.id \in Nat /\ (turn.place = 0 \/ i.id < turn.place)
    BY <1>8, <1>5, <1>7, <1>3
  <2>3. \A i \in items, o \in shown : i.id # o.id
    BY <2>1, <2>2, <1>2
  <2>4. CASE stops = {}
    BY <1>1, <1>10, <2>1, <2>2, <2>3, <2>4 DEF Behind
  <2>5. CASE stops # {}
    <3>1. \A i \in items : cut <= i.id
      BY <1>4, <1>8, <2>5
    <3>2. turn.place = 0 \/ cut < turn.place
      BY <1>4, <1>5, <2>5
    <3>3. \A i \in shown : cut <= i.id
      BY <3>2, <2>1, <1>2, <1>14, <2>5
    <3> QED BY <1>1, <1>10, <1>14, <2>1, <2>2, <2>3, <2>5, <3>1, <3>3 DEF Behind
  <2> QED BY <2>4, <2>5
<1>20. CallsAhead'
  <2> SUFFICES ASSUME NEW row \in expected.rows \cap journal, row.kind # "alien", "rows" \notin gaps
               PROVE  \/ \E i \in shown \cup items : i.source = "audit" /\ i.id = row.at
                      \/ stops # {} /\ row.at < cut
    BY <1>1, <1>10 DEF CallsAhead, evidence
  <2>1. (\E i \in shown : i.source = "audit" /\ i.id = row.at) \/ row \in window
    BY <1>2, <1>6 DEF RPStrong, CallsAhead
  <2>2. ASSUME row \in window, row \notin used PROVE stops # {} /\ row.at < cut
    BY <1>3, <1>4, <1>14, <2>2
  <2>3. ASSUME row \in window, row \in used PROVE \E i \in items : i.source = "audit" /\ i.id = row.at
    BY <1>9, <1>12, <2>3
  <2> QED BY <2>1, <2>2, <2>3
<1>21. PatchesAhead'
  BY <1>1, <1>2, <1>10 DEF PatchesAhead
<1> QED BY <1>15, <1>16, <1>17, <1>18, <1>19, <1>20, <1>21 DEF RPStrong

LEMMA ReceiptsRead == ASSUME RPStrong, ReadReceipts PROVE RPStrong'
<1> DEFINE after == IF turn.phase = "durable" THEN turn.place ELSE 0
           window == {r \in Patches : proof[r] # "none" /\ r > after}
           stops == Stops(window, Cardinality(page.items), Patches \ page.audited)
           used == Used(window, stops) \ page.audited
           items == {[source |-> "receipt", id |-> r, patch |-> r, kind |-> "same",
                      status |-> Verdict(r)] : r \in used}
           full == Cardinality(page.items) >= page.size
           now == IF full THEN page.items ELSE page.items \cup items
           next == IF ~full /\ stops # {} THEN [phase |-> "durable", place |-> FirstOf(stops)] ELSE Over
           cut == FirstOf(stops)
<1>1. /\ page.at = "durable"
      /\ page' = [at |-> IF next = Over /\ turn.phase # "durable" /\ Cardinality(now) >= page.size
                        THEN "offer" ELSE "answer",
                  size |-> page.size, items |-> now, audited |-> page.audited]
      /\ turn' = next
      /\ UNCHANGED <<evidence, shown, twice, expected, gaps, traversals>>
  BY DEF ReadReceipts
<1>2. /\ turn = Over \/ (turn.phase = "durable" /\ turn.place \in Nat /\ page.items = {})
      /\ Over.phase = "over" /\ page.size \in Nat \ {0}
  BY <1>1 DEF RPStrong, PageTyped, Over
<1>3. Patches \subseteq Nat \ {0} /\ after \in Nat
  BY <1>2, ReceiptPagesAssumption DEF Over
<1>4. /\ stops = {} => Used(window, stops) = window
      /\ stops # {} => cut \in window /\ Used(window, stops) = {r \in window : r <= cut}
  <2>0. \A k \in window : k \in Nat
    BY <1>3
  <2>1. window \in SUBSET Int /\ \A k \in window : -0 <= k
    BY <2>0
  <2> HIDE DEF window
  <2> QED BY <2>1, UsedMeans
<1>5. ASSUME NEW i \in items
      PROVE  \E r \in used : /\ i.source = "receipt" /\ i.id = r /\ i.patch = r
                            /\ (i.status = "success" => proof[r] = "applied")
  <2>1. PICK r \in used : i = [source |-> "receipt", id |-> r, patch |-> r, kind |-> "same",
                               status |-> Verdict(r)]
    OBVIOUS
  <2>2. Verdict(r) = "success" => proof[r] = "applied"
    BY DEF Verdict
  <2>3. i.source = "receipt" /\ i.id = r /\ i.patch = r /\ i.status = Verdict(r)
    BY <2>1
  <2> HIDE DEF used, items
  <2> QED BY <2>2, <2>3
<1>6. \A r \in used : \E i \in items : i.patch = r /\ i.kind = "same"
  <2> TAKE r \in used
  <2> DEFINE it == [source |-> "receipt", id |-> r, patch |-> r, kind |-> "same", status |-> Verdict(r)]
  <2>1. it \in items
    OBVIOUS
  <2>2. it.patch = r /\ it.kind = "same"
    OBVIOUS
  <2> HIDE DEF it, items
  <2> QED BY <2>1, <2>2
<1>7. \A r \in window : r \in Patches /\ proof[r] # "none" /\ after < r
  BY <1>3
<1>8. \A r \in Patches : proof[r] # "none" /\ after < r => r \in window
  BY <1>3
<1>9. used = Used(window, stops) \ page.audited
  OBVIOUS
<1>10. /\ full => page'.items = page.items
       /\ ~full => page'.items = page.items \cup items
       /\ page'.items = now /\ now \subseteq page.items \cup items /\ page.items \subseteq now
       /\ page'.audited = page.audited /\ page'.size = page.size /\ page'.at \in {"offer", "answer"}
       /\ page'.at = "offer" => turn' = Over
       /\ turn'.phase # "audit"
       /\ ~full /\ stops # {} => turn' = [phase |-> "durable", place |-> cut]
       /\ full \/ stops = {} => turn' = Over
       /\ turn' = Over \/ turn' = [phase |-> "durable", place |-> cut]
  BY <1>1, <1>2
<1>11. full => turn = Over
  <2>1. page.items = {} => Cardinality(page.items) = 0
    BY FS_EmptySet
  <2> QED BY <1>2, <2>1
<1>12. full => page'.at = "offer"
  BY <1>1, <1>2, <1>11
<1>13. used \subseteq window /\ (stops # {} => cut \in Nat)
  BY <1>3, <1>4, <1>7, <1>9
<1> HIDE DEF after, window, stops, used, items, full, now, next, cut
<1>15. RowsTyped'
  BY <1>1, RowsStay DEF evidence
<1>16. PageTyped'
  <2>1. turn' \in [phase : {"audit", "durable"}, place : Nat] \cup {Over}
    BY <1>10, <1>13
  <2> QED BY <1>2, <1>10, <2>1 DEF PageTyped
<1>17. ItemsTyped'
  <2>1. \A i \in shown \cup page.items :
          /\ i.status = "success" => i.patch \in Patches /\ proof[i.patch] = "applied"
          /\ i.source \in {"audit", "receipt"} /\ i.id \in Nat
    BY DEF RPStrong, ItemsTyped
  <2>2. \A i \in items :
          /\ i.status = "success" => i.patch \in Patches /\ proof[i.patch] = "applied"
          /\ i.source \in {"audit", "receipt"} /\ i.id \in Nat
    <3> TAKE i \in items
    <3>1. PICK r \in used : i.source = "receipt" /\ i.id = r /\ i.patch = r
                             /\ (i.status = "success" => proof[r] = "applied")
      BY <1>5
    <3>2. r \in Patches /\ r \in Nat
      BY <1>3, <1>7, <1>13
    <3> QED BY <3>1, <3>2
  <2>3. \A r \in page.audited : /\ r \in Patches /\ proof[r] = "applied"
                                /\ \E i \in now : i.patch = r /\ i.kind = "same"
    BY <1>10 DEF RPStrong, ItemsTyped
  <2>4. twice \subseteq {i \in shown : i.source = "receipt" /\ "again" \in gaps}
    BY DEF RPStrong, ItemsTyped
  <2> QED BY <1>1, <1>10, <2>1, <2>2, <2>3, <2>4 DEF ItemsTyped, evidence
<1>18. ExpectedRight'
  BY <1>1 DEF RPStrong, ExpectedRight, evidence
<1>19. Behind'
  <2>1. \A i \in shown : i.source = "receipt" => "again" \in gaps \/ (i.id <= after /\ i.id \in Nat /\ turn.phase = "durable")
    BY <1>1, <1>2 DEF RPStrong, Behind, ItemsTyped, after
  <2>2. turn = Over => \A i \in shown \cup page.items : i.source = "audit"
    BY <1>1 DEF RPStrong, Behind
  <2>3. \A i \in items : i.source = "receipt" /\ i.id \in Patches /\ after < i.id
    <3> TAKE i \in items
    <3>1. PICK r \in used : i.source = "receipt" /\ i.id = r
      BY <1>5
    <3> QED BY <3>1, <1>7, <1>13
  <2>4. \A i \in items, o \in shown : i.source = o.source /\ i.id = o.id => "again" \in gaps
    BY <2>1, <2>3, <1>3
  <2>5. page'.at = "offer" => turn = Over
    BY <1>1, <1>2
  <2>6. ASSUME turn' # Over, NEW i \in shown \cup now, i.source = "receipt", "again" \notin gaps
        PROVE  i.id <= cut
    <3>0. stops # {} /\ cut \in window
      BY <1>4, <1>10, <2>6
    <3>1. CASE i \in items
      <4>1. PICK r \in used : i.id = r
        BY <1>5, <3>1
      <4>2. r \in Used(window, stops)
        BY <1>9
      <4> QED BY <4>1, <4>2, <1>4, <3>0
    <3>2. CASE i \in shown
      <4>1. i.id <= after /\ i.id \in Nat
        BY <2>1, <2>6, <3>2
      <4>2. after < cut /\ cut \in Nat /\ after \in Nat
        BY <3>0, <1>3, <1>7, <1>13
      <4> QED BY <4>1, <4>2
    <3>3. CASE i \in page.items
      BY <1>2, <2>2, <2>6, <3>3
    <3> QED BY <1>10, <2>6, <3>1, <3>2, <3>3
  <2>7. \A i \in page.items, o \in shown :
          i.source = o.source /\ i.id = o.id => i.source = "receipt" /\ "again" \in gaps
    BY DEF RPStrong, Behind
  <2>8. \A i \in now, o \in shown :
          i.source = o.source /\ i.id = o.id => i.source = "receipt" /\ "again" \in gaps
    BY <2>3, <2>4, <2>7, <1>10
  <2>9. turn' # Over => turn'.place = cut
    BY <1>10
  <2>10. turn'.phase = "durable" => turn' # Over
    BY <1>2
  <2> QED BY <1>1, <1>10, <2>2, <2>5, <2>6, <2>8, <2>9, <2>10 DEF Behind
<1>20. CallsAhead'
  BY <1>1, <1>2, <1>10 DEF RPStrong, CallsAhead, evidence
<1>21. PatchesAhead'
  <2> SUFFICES ASSUME NEW r \in expected.patches, "receipts" \notin gaps
               PROVE  \/ \E i \in shown \cup now : i.patch = r /\ i.kind = "same"
                      \/ turn'.phase = "durable" /\ turn'.place < r
                      \/ turn' = Over /\ page'.at = "offer"
    BY <1>1, <1>10 DEF PatchesAhead, evidence
  <2>1. CASE full
    BY <1>10, <1>12, <2>1
  <2>2. CASE ~full
    <3>1. r \in Patches /\ proof[r] # "none"
      BY DEF RPStrong, ExpectedRight
    <3>2. (\E i \in shown \cup page.items : i.patch = r /\ i.kind = "same") \/ after < r
      <4>1. \/ \E i \in shown \cup page.items : i.patch = r /\ i.kind = "same"
            \/ turn.phase = "durable" /\ turn.place < r
            \/ turn = Over
        BY <1>2 DEF RPStrong, PatchesAhead
      <4>2. turn = Over => after = 0
        BY <1>2 DEF after
      <4>3. r \in Nat \ {0}
        BY <1>3, <3>1
      <4>4. turn.phase = "durable" => after = turn.place
        BY DEF after
      <4> QED BY <4>1, <4>2, <4>3, <4>4
    <3>3. CASE r \in page.audited
      BY <1>10, <3>3 DEF RPStrong, ItemsTyped
    <3>4. CASE r \in used
      BY <1>6, <1>10, <2>2, <3>4
    <3>5. CASE r \in window /\ r \notin used /\ r \notin page.audited
      <4>1. stops # {} /\ cut < r
        <5>1. r \notin Used(window, stops)
          BY <1>9, <3>5
        <5>2. stops # {} /\ ~(r <= cut)
          BY <1>4, <3>5, <5>1
        <5>3. r \in Nat /\ cut \in Nat
          BY <1>3, <1>7, <1>13, <3>5, <5>2
        <5> QED BY <5>2, <5>3
      <4> QED BY <1>10, <2>2, <4>1
    <3> QED BY <1>8, <1>10, <3>1, <3>2, <3>3, <3>4, <3>5
  <2> QED BY <2>1, <2>2
<1> QED BY <1>15, <1>16, <1>17, <1>18, <1>19, <1>20, <1>21 DEF RPStrong

LEMMA ReceiptsOffered == ASSUME RPStrong, OfferReceipts PROVE RPStrong'
<1>1. /\ page.at = "offer" /\ page' = [page EXCEPT !.at = "answer"] /\ turn = Over
      /\ UNCHANGED <<evidence, shown, twice, expected, traversals>>
  BY DEF OfferReceipts, RPStrong, PageTyped
<1>2. /\ page'.at = "answer" /\ page'.items = page.items /\ page'.audited = page.audited
      /\ page'.size = page.size
  BY <1>1
<1>3. \/ /\ Cardinality({r \in Patches : proof[r] # "none"}) > Cardinality(page.audited)
         /\ turn' = [phase |-> "durable", place |-> 0]
         /\ gaps' = IF \E i \in page.items : i.source = "receipt" THEN gaps \cup {"again"} ELSE gaps
      \/ /\ ~(Cardinality({r \in Patches : proof[r] # "none"}) > Cardinality(page.audited))
         /\ turn' = Over /\ gaps \subseteq gaps' /\ ("receipts" \in gaps' <=> "receipts" \in gaps)
      \/ turn' = Over /\ gaps' = gaps \cup {"receipts"}
  BY DEF OfferReceipts
<1>4. gaps \subseteq gaps' /\ Over.phase = "over"
  BY <1>3 DEF Over
<1>5. RowsTyped'
  BY <1>1, RowsStay DEF evidence
<1>6. PageTyped'
  <2>1. turn' \in [phase : {"audit", "durable"}, place : Nat] \cup {Over}
    BY <1>3
  <2> QED BY <1>1, <1>2, <2>1 DEF RPStrong, PageTyped
<1>7. ItemsTyped'
  BY <1>1, <1>2, <1>4 DEF RPStrong, ItemsTyped, evidence
<1>8. ExpectedRight'
  BY <1>1 DEF RPStrong, ExpectedRight, evidence
<1>9. Behind'
  <2>1. turn'.phase = "durable" => "again" \in gaps' \/ \A i \in page.items : i.source # "receipt"
    BY <1>3, <1>4
  <2>2. \A i \in shown : i.source = "audit"
    BY <1>1 DEF RPStrong, Behind
  <2> QED BY <1>1, <1>2, <1>3, <1>4, <2>1, <2>2 DEF RPStrong, Behind
<1>10. CallsAhead'
  BY <1>1, <1>2, <1>4 DEF RPStrong, CallsAhead, evidence
<1>11. PatchesAhead'
  <2> SUFFICES ASSUME NEW r \in expected.patches, "receipts" \notin gaps'
               PROVE  \/ \E i \in page.items : i.patch = r /\ i.kind = "same"
                      \/ turn'.phase = "durable" /\ turn'.place < r
    BY <1>1, <1>2 DEF PatchesAhead, evidence
  <2> DEFINE begun == {x \in Patches : proof[x] # "none"}
  <2>1. r \in begun /\ r \in Nat \ {0}
    BY ReceiptPagesAssumption DEF RPStrong, ExpectedRight
  <2>2. CASE Cardinality(begun) > Cardinality(page.audited) /\ turn' = [phase |-> "durable", place |-> 0]
    BY <2>1, <2>2
  <2>3. CASE ~(Cardinality(begun) > Cardinality(page.audited))
    <3>1. IsFiniteSet(begun)
      BY ReceiptPagesAssumption, FS_Subset
    <3>2. page.audited \in SUBSET begun
      BY DEF RPStrong, ItemsTyped
    <3>3. IsFiniteSet(page.audited) /\ Cardinality(page.audited) <= Cardinality(begun)
          /\ (Cardinality(begun) = Cardinality(page.audited) => begun = page.audited)
      BY <3>1, <3>2, FS_Subset
    <3>4. Cardinality(begun) \in Nat /\ Cardinality(page.audited) \in Nat
      BY <3>1, <3>3, FS_CardinalityType
    <3>5. r \in page.audited
      BY <2>1, <2>3, <3>3, <3>4
    <3> QED BY <3>5 DEF RPStrong, ItemsTyped
  <2> QED BY <1>3, <2>2, <2>3
<1> QED BY <1>5, <1>6, <1>7, <1>8, <1>9, <1>10, <1>11 DEF RPStrong

-----------------------------------------------------------------------------

LEMMA RPPreserved == RPStrong /\ [RPNext]_rpvars => RPStrong'
<1> SUFFICES ASSUME RPStrong, [RPNext]_rpvars PROVE RPStrong'
  OBVIOUS
<1>1. CASE UNCHANGED rpvars
  BY <1>1, PatchesGoOn DEF rpvars, pagevars, RPStrong, RowsTyped
<1>2. CASE RPNext
  BY <1>2, EvidenceStep, TraversalBegins, PageOpens, AuditRead, AuditWasBusy, ReceiptsRead,
     ReceiptsOffered, PageAnswered DEF RPNext
<1> QED BY <1>1, <1>2

LEMMA RPMeans == RPStrong => ReceiptsInv
<1> SUFFICES ASSUME RPStrong PROVE ReceiptsInv
  OBVIOUS
<1>1. turn.phase \in {"audit", "durable", "over"} /\ page.audited \subseteq Patches
  BY DEF RPStrong, PageTyped, ItemsTyped, Over
<1>2. PatchesSeen
  <2> SUFFICES ASSUME TraversalOver, "receipts" \notin gaps, NEW r \in expected.patches
               PROVE  \E i \in shown : i.patch = r /\ i.kind = "same"
    BY DEF PatchesSeen
  <2>1. turn = Over /\ Over.phase = "over" /\ page.at = "none" /\ page.items = {}
    BY DEF TraversalOver, RPStrong, PageTyped, Over
  <2> QED BY <2>1 DEF RPStrong, PatchesAhead
<1>3. CallsSeen
  <2> SUFFICES ASSUME TraversalOver, "rows" \notin gaps, NEW row \in expected.rows \cap journal,
                      row.kind # "alien"
               PROVE  \E i \in shown : i.source = "audit" /\ i.id = row.at
    BY DEF CallsSeen
  <2>1. turn = Over /\ Over.phase = "over" /\ page.at = "none" /\ page.items = {}
    BY DEF TraversalOver, RPStrong, PageTyped, Over
  <2> QED BY <2>1 DEF RPStrong, CallsAhead
<1>4. ItemsTrue
  BY DEF RPStrong, ItemsTyped, ItemsTrue
<1> QED BY <1>1, <1>2, <1>3, <1>4 DEF ReceiptsInv

\* Whatever is recorded, begun, finished or expires while the pages are turned, they
\* leave nothing out that was there at the start, show no call twice, and call
\* nothing a success that was not applied: taskdock_receipts.rs:41-298.
THEOREM ReceiptsSafe == RPSpec => []ReceiptsInv
<1>1. RPStrong /\ [RPNext]_rpvars => RPStrong'
  BY RPPreserved
<1> QED BY <1>1, RPBegins, RPMeans, PTL DEF RPSpec

-----------------------------------------------------------------------------
(* Harness.  Most of what holds, holds of calls that do not overlap; the   *)
(* invariant says of the one call that is under way what it may still      *)
(* change, and keeps apart what holds in any case.                         *)

Sound == [status : Statuses, steps : Nat]
Contents == Sound \cup {Absent, Torn}
Stages == {"open", "fill", "rename", "event", "newline", "answer"}
Saving == {"open", "fill", "rename"}
Saved == {"event", "newline", "answer"}

HNTyped ==
  /\ disk \in [TaskIds -> [file : Contents, temp : Contents]]
  /\ logs \in [TaskIds -> Seq(Nat)]
  /\ active \in [Clients -> {Free} \cup [at : Stages, task : TaskIds, new : Sound, request : Nat \ {0},
                                        fd : {"none", "temp", "file", "gone"}]]
  /\ requests \in Nat /\ ends \in Nat /\ overlapped \in BOOLEAN
  /\ told \subseteq [request : Nat \ {0}, task : TaskIds, saved : Sound]

\* The event of a call whose event is written is in its log.
InLog(t, r) == \E i \in 1..Len(logs[t]) : logs[t][i] = r
EventsIn ==
  /\ \A a \in told : InLog(a.task, a.request)
  /\ \A c \in Clients : active[c].at \in {"newline", "answer"} => InLog(active[c].task, active[c].request)

\* One call after the other, with numbers that rise.
OneAtATime ==
  /\ \A c, d \in Clients : ~At(c, "idle") /\ ~At(d, "idle") => c = d
  /\ \A a \in told : a.request <= requests
  /\ \A c \in Clients : ~At(c, "idle") =>
       active[c].request <= requests /\ \A a \in told : a.request < active[c].request

\* The one call has its temporary file for itself, and then its text is in place.
FilesRight ==
  /\ \A t \in TaskIds : disk[t].file # Torn
  /\ \A c \in Clients :
       LET call == active[c] IN
       /\ call.at \in {"fill", "rename"} => call.fd = "temp"
       /\ call.at = "fill" => disk[call.task].temp = Torn
       /\ call.at = "rename" => disk[call.task].temp = call.new
       /\ call.at \in Saved => disk[call.task].file = call.new

\* What the one call may still do to the tasks that are not finished.
TasksRight ==
  /\ \A t, u \in WritableTasks : t = u
  /\ \A a \in told : a.saved.status \notin IsWritable => disk[a.task].file.status = a.saved.status
  /\ \A c \in Clients :
       LET call == active[c] IN
       call.at \in Saving =>
         /\ call.new.status \in IsWritable => WritableTasks \subseteq {call.task}
         /\ disk[call.task].file.status \in Statuses \ IsWritable =>
              call.new.status = disk[call.task].file.status

\* What was last answered is what the file says, or a call replaced it just now.
LastSaved ==
  \A a \in told : (\A n \in told : n.task = a.task => n.request <= a.request) =>
    \/ disk[a.task].file = a.saved
    \/ \E c \in Clients : active[c].at \in Saved /\ active[c].task = a.task

\* Without a call that was cut off, a log is whole lines, the last of which may be
\* about to end.
LogsWhole ==
  \A t \in TaskIds :
    /\ \A i \in 1..Len(logs[t]) : logs[t][i] # NewLine => i \in LogLines(logs[t])
    /\ \A i \in LogLines(logs[t]) : IsEvent(logs[t], i)
    /\ \/ logs[t] = <<>> \/ logs[t][Len(logs[t])] = NewLine
       \/ \E c \in Clients : At(c, "newline") /\ active[c].task = t
    /\ \A c \in Clients : At(c, "newline") /\ active[c].task = t =>
         logs[t] # <<>> /\ logs[t][Len(logs[t])] # NewLine

HNStrong ==
  /\ HNTyped /\ EventsIn
  /\ ~overlapped => OneAtATime /\ FilesRight /\ TasksRight
  /\ ~overlapped /\ ends = 0 => LastSaved /\ LogsWhole

-----------------------------------------------------------------------------
(* Types.                                                                  *)

Underway == [at : Stages, task : TaskIds, new : Sound, request : Nat \ {0},
             fd : {"none", "temp", "file", "gone"}]

LEMMA HNBegins == HNInit => HNStrong
<1> SUFFICES ASSUME HNInit PROVE HNStrong
  OBVIOUS
<1>1. HNTyped
  <2>1. disk \in [TaskIds -> [file : Contents, temp : Contents]]
    BY DEF HNInit, Contents
  <2>2. logs \in [TaskIds -> Seq(Nat)]
    BY DEF HNInit
  <2> QED BY <2>1, <2>2 DEF HNInit, HNTyped
<1>2. \A c \in Clients : active[c] = Free
  BY DEF HNInit
<1>3. WritableTasks = {}
  BY DEF HNInit, WritableTasks, Readable
<1>4. OneAtATime /\ FilesRight /\ TasksRight /\ EventsIn
  BY <1>2, <1>3
      DEF HNInit, OneAtATime, FilesRight, TasksRight, EventsIn, Free, Saving, Saved, At,
     Absent, Torn
<1>5. LastSaved
  BY DEF HNInit, LastSaved
<1>6. LogsWhole
  BY <1>2 DEF HNInit, LogsWhole, LogLines, At, Free
<1> QED BY <1>1, <1>4, <1>5, <1>6 DEF HNStrong

\* What is begun is a call on a task with a text that can be written.
LEMMA Entered ==
  ASSUME HNTyped, NEW c \in Clients, StartTask(c) \/ Transition(c) \/ UpdateSteps(c)
  PROVE  \E t \in TaskIds, new \in Sound :
           /\ Enter(c, t, new)
           /\ \/ disk[t].file = Absent /\ WritableTasks = {}
              \/ Readable(t) /\ new.status = disk[t].file.status
              \/ t \in WritableTasks
<1>1. CASE StartTask(c)
  <2>1. PICK t \in TaskIds : /\ disk[t] = [file |-> Absent, temp |-> Absent] /\ WritableTasks = {}
                             /\ Enter(c, t, [status |-> "active", steps |-> 0])
    BY <1>1 DEF StartTask
  <2>2. [status |-> "active", steps |-> 0] \in Sound
    BY DEF Sound, Statuses
  <2> QED BY <2>1, <2>2
<1>2. CASE Transition(c)
  <2>1. PICK t \in TaskIds, next \in NextAsked :
          /\ Readable(t) /\ <<disk[t].file.status, next>> \in CanTransition
          /\ Enter(c, t, [disk[t].file EXCEPT !.status = next])
    BY <1>2 DEF Transition
  <2>2. disk[t].file \in Sound
    BY <2>1 DEF Readable, HNTyped, Contents
  <2>3. [disk[t].file EXCEPT !.status = next] \in Sound
    BY <2>2 DEF Sound, NextAsked, Statuses
  <2>4. t \in WritableTasks
    BY <2>1 DEF WritableTasks, CanTransition, IsWritable
  <2> QED BY <2>1, <2>3, <2>4
<1>3. CASE UpdateSteps(c)
  <2>1. PICK t \in TaskIds : Readable(t) /\ Enter(c, t, [disk[t].file EXCEPT !.steps = requests + 1])
    BY <1>3 DEF UpdateSteps
  <2>2. disk[t].file \in Sound
    BY <2>1 DEF Readable, HNTyped, Contents
  <2> DEFINE new == [disk[t].file EXCEPT !.steps = requests + 1]
  <2>3. new \in Sound /\ new.status = disk[t].file.status
    <3>1. requests + 1 \in Nat
      BY DEF HNTyped
    <3> QED BY <2>2, <3>1 DEF Sound
  <2> QED BY <2>1, <2>3
<1> QED BY <1>1, <1>2, <1>3

LEMMA PutTyped ==
  ASSUME NEW call \in Underway, NEW at \in Stages, NEW fd \in {"none", "temp", "file", "gone"}
  PROVE  /\ Put(call, at, fd) \in Underway
         /\ Put(call, at, fd).at = at /\ Put(call, at, fd).fd = fd
         /\ Put(call, at, fd).task = call.task /\ Put(call, at, fd).new = call.new
         /\ Put(call, at, fd).request = call.request
BY DEF Put, Underway

\* A client's call, when it is not idle.
LEMMA CallTyped ==
  ASSUME HNTyped, NEW c \in Clients
  PROVE  /\ active[c] = Free \/ active[c] \in Underway
         /\ ~At(c, "idle") => /\ active[c] \in Underway /\ active[c].task \in TaskIds
                              /\ active[c].new \in Sound /\ active[c].request \in Nat \ {0}
         /\ At(c, "idle") => active[c] = Free
         /\ Free.at = "idle" /\ Free.task \notin TaskIds
BY DEF HNTyped, Underway, At, Free, TaskIds, Stages

LEMMA HNTypedStep == ASSUME HNTyped, HNNext PROVE HNTyped'
<1> USE DEF HNTyped
<1>1. ASSUME NEW c \in Clients, StartTask(c) \/ Transition(c) \/ UpdateSteps(c) PROVE HNTyped'
  <2>1. PICK t \in TaskIds, new \in Sound : Enter(c, t, new)
    BY <1>1, Entered
  <2> DEFINE call == [at |-> "open", task |-> t, new |-> new, fd |-> "none", request |-> requests + 1]
  <2>2. call \in Underway
    BY DEF Underway, Stages
  <2> HIDE DEF call
  <2>3. active' = [active EXCEPT ![c] = call] /\ overlapped' \in BOOLEAN
    BY <2>1 DEF Enter, call
  <2> QED BY <2>1, <2>2, <2>3 DEF Enter, Underway
<1>2. ASSUME NEW c \in Clients, OpenTemp(c) PROVE HNTyped'
  <2>1. active[c] \in Underway /\ active[c].task \in TaskIds
    BY <1>2, CallTyped DEF OpenTemp, At
  <2>2. Put(active[c], "fill", "temp") \in Underway
    BY <2>1, PutTyped DEF Stages
  <2>3. active' = [active EXCEPT ![c] = Put(active[c], "fill", "temp")]
        /\ disk' = [disk EXCEPT ![active[c].task].temp = Torn]
    BY <1>2 DEF OpenTemp
  <2>4. active' \in [Clients -> {Free} \cup Underway]
    BY <2>2, <2>3 DEF Underway
  <2>5. disk' \in [TaskIds -> [file : Contents, temp : Contents]]
    <3>1. Torn \in Contents
      BY DEF Contents
    <3>2. disk \in [TaskIds -> [file : Contents, temp : Contents]]
      BY DEF HNTyped
    <3> QED BY <2>1, <2>3, <3>1, <3>2
  <2>6. HNTyped /\ UNCHANGED <<logs, requests, ends, overlapped, told>>
    BY <1>2 DEF OpenTemp
  <2> QED BY <2>4, <2>5, <2>6 DEF HNTyped, Underway
<1>3. ASSUME NEW c \in Clients, FillTemp(c) PROVE HNTyped'
  <2>1. active[c] \in Underway /\ active[c].task \in TaskIds /\ active[c].new \in Contents
    BY <1>3, CallTyped DEF FillTemp, At, Contents
  <2>2. [active[c] EXCEPT !.at = "rename"] \in Underway
    BY <2>1 DEF Underway, Stages
  <2>3. active' = [active EXCEPT ![c] = [active[c] EXCEPT !.at = "rename"]]
    BY <1>3 DEF FillTemp, GoTo
  <2>4. active' \in [Clients -> {Free} \cup Underway]
    BY <2>2, <2>3 DEF Underway
  <2>5. disk' \in [TaskIds -> [file : Contents, temp : Contents]]
    <3>1. \A old \in Contents : Filled(old, active[c].new) \subseteq Contents
      BY <2>1 DEF Filled, Contents
    <3>2. CASE active[c].fd = "temp"
      <4>1. PICK now \in Filled(disk[active[c].task].temp, active[c].new) :
              disk' = [disk EXCEPT ![active[c].task].temp = now]
        BY <1>3, <3>2 DEF FillTemp
      <4>2. now \in Contents
        BY <3>1, <2>1, <4>1
      <4> QED BY <2>1, <4>1, <4>2
    <3>3. CASE active[c].fd = "file"
      <4>1. PICK now \in Filled(disk[active[c].task].file, active[c].new) :
              disk' = [disk EXCEPT ![active[c].task].file = now]
        BY <1>3, <3>3 DEF FillTemp
      <4>2. now \in Contents
        BY <3>1, <2>1, <4>1
      <4> QED BY <2>1, <4>1, <4>2
    <3>4. CASE active[c].fd \notin {"temp", "file"}
      BY <1>3, <3>4 DEF FillTemp
    <3> QED BY <3>2, <3>3, <3>4
  <2> QED BY <1>3, <2>4, <2>5 DEF FillTemp, Underway
<1>4. ASSUME NEW c \in Clients, RenameTemp(c) PROVE HNTyped'
  <2>1. active[c] \in Underway /\ active[c].task \in TaskIds
    BY <1>4, CallTyped DEF RenameTemp, At
  <2>2. ASSUME NEW o \in Clients PROVE Moved(active[o], active[c].task) \in {Free} \cup Underway
    <3>1. CASE active[o] = Free
      BY <3>1, <2>1, CallTyped DEF Moved
    <3>2. CASE active[o] \in Underway
      <4>1. active[o].at \in Stages /\ active[o].fd \in {"none", "temp", "file", "gone"}
        BY <3>2 DEF Underway
      <4> QED BY <3>2, <4>1, PutTyped DEF Moved
    <3> QED BY <3>1, <3>2, CallTyped
  <2>3. Put(active[c], "event", "none") \in Underway
    BY <2>1, PutTyped DEF Stages
  <2>4. active' \in [Clients -> {Free} \cup Underway]
    <3>1. CASE disk[active[c].task].temp # Absent
      <4>1. active' = [o \in Clients |-> IF o = c THEN Put(active[c], "event", "none")
                                        ELSE Moved(active[o], active[c].task)]
        BY <1>4, <3>1 DEF RenameTemp
      <4> QED BY <2>2, <2>3, <4>1
    <3>2. CASE ~(disk[active[c].task].temp # Absent)
      BY <1>4, <3>2 DEF RenameTemp, Release, Underway
    <3> QED BY <3>1, <3>2
  <2>5. disk' \in [TaskIds -> [file : Contents, temp : Contents]]
    <3>1. Absent \in Contents
      BY DEF Contents
    <3> QED BY <1>4, <2>1, <3>1 DEF RenameTemp
  <2> QED BY <1>4, <2>4, <2>5 DEF RenameTemp, Underway
<1>5. ASSUME NEW c \in Clients, WriteEvent(c) \/ EndLine(c) PROVE HNTyped'
  <2>1. active[c] \in Underway /\ active[c].task \in TaskIds /\ active[c].request \in Nat
    BY <1>5, CallTyped DEF WriteEvent, EndLine, At
  <2>2. PICK at \in Stages : active' = [active EXCEPT ![c] = [active[c] EXCEPT !.at = at]]
    BY <1>5 DEF WriteEvent, EndLine, GoTo, Stages
  <2>3. [active[c] EXCEPT !.at = at] \in Underway
    BY <2>1 DEF Underway
  <2>4. active' \in [Clients -> {Free} \cup Underway]
    BY <2>2, <2>3 DEF Underway
  <2>5. logs' \in [TaskIds -> Seq(Nat)]
    <3>1. PICK e \in Nat : logs' = [logs EXCEPT ![active[c].task] = Append(@, e)]
      BY <1>5, <2>1 DEF WriteEvent, EndLine, NewLine
    <3>2. Append(logs[active[c].task], e) \in Seq(Nat)
      BY <2>1
    <3> QED BY <3>1, <3>2
  <2> QED BY <1>5, <2>4, <2>5 DEF WriteEvent, EndLine, Underway
<1>6. ASSUME NEW c \in Clients, AnswerTool(c) PROVE HNTyped'
  <2>1. active[c] \in Underway
    BY <1>6, CallTyped DEF AnswerTool, At
  <2>2. active' = [active EXCEPT ![c] = Free]
    BY <1>6 DEF AnswerTool, Release
  <2>3. told' \subseteq [request : Nat \ {0}, task : TaskIds, saved : Sound]
    BY <1>6, <2>1 DEF AnswerTool, Underway
  <2> QED BY <1>6, <2>2, <2>3 DEF AnswerTool
<1>7. ASSUME ProcessEnds PROVE HNTyped'
  BY <1>7 DEF ProcessEnds
<1> QED BY <1>1, <1>2, <1>3, <1>4, <1>5, <1>6, <1>7 DEF HNNext

-----------------------------------------------------------------------------
(* What is written stays in the logs.                                      *)

LEMMA MovedSame ==
  ASSUME NEW call \in {Free} \cup Underway, NEW t
  PROVE  /\ Moved(call, t).at = call.at /\ Moved(call, t).task = call.task
         /\ Moved(call, t).request = call.request /\ Moved(call, t).new = call.new
BY DEF Moved, Put

LEMMA AppendKeeps ==
  ASSUME NEW log \in Seq(Nat), NEW e \in Nat
  PROVE  /\ Append(log, e) \in Seq(Nat) /\ Len(Append(log, e)) = Len(log) + 1
         /\ Append(log, e)[Len(log) + 1] = e
         /\ \A i \in 1..Len(log) : Append(log, e)[i] = log[i]
OBVIOUS

\* A step appends one piece to one log, or nothing.
LEMMA LogsGrow ==
  ASSUME HNTyped, HNNext
  PROVE  \/ /\ logs' = logs
            /\ \A c \in Clients : active'[c].at \in {"newline", "answer"} =>
                 active'[c].at = active[c].at /\ active'[c].task = active[c].task
                 /\ active'[c].request = active[c].request
         \/ \E c \in Clients : WriteEvent(c) \/ EndLine(c)
<1>1. CASE \E c \in Clients : WriteEvent(c) \/ EndLine(c)
  BY <1>1
<1>2. ASSUME NEW d \in Clients, StartTask(d) \/ Transition(d) \/ UpdateSteps(d)
      PROVE  logs' = logs /\ (\A c \in Clients : c # d => active'[c] = active[c])
             /\ active'[d].at = "open"
  <2>1. PICK t \in TaskIds, new \in Sound : Enter(d, t, new)
    BY <1>2, Entered
  <2> QED BY <2>1 DEF Enter, HNTyped
<1>3. ASSUME NEW d \in Clients, OpenTemp(d)
      PROVE  logs' = logs /\ (\A c \in Clients : c # d => active'[c] = active[c])
             /\ active'[d].at = "fill"
  BY <1>3 DEF OpenTemp, HNTyped, Put
<1>4. ASSUME NEW d \in Clients, FillTemp(d)
      PROVE  logs' = logs /\ (\A c \in Clients : c # d => active'[c] = active[c])
             /\ active'[d].at = "rename"
  <2>1. active[d] \in Underway
    BY <1>4, CallTyped DEF FillTemp, At
  <2>2. active' = [active EXCEPT ![d] = [active[d] EXCEPT !.at = "rename"]] /\ logs' = logs
    BY <1>4 DEF FillTemp, GoTo
  <2> QED BY <2>1, <2>2 DEF HNTyped, Underway
<1>5. ASSUME NEW d \in Clients, RenameTemp(d), NEW c \in Clients,
             active'[c].at \in {"newline", "answer"}
      PROVE  logs' = logs /\ active'[c].at = active[c].at /\ active'[c].task = active[c].task
             /\ active'[c].request = active[c].request
  <2>1. CASE disk[active[d].task].temp # Absent
    <3>1. active' = [o \in Clients |-> IF o = d THEN Put(active[d], "event", "none")
                                      ELSE Moved(active[o], active[d].task)]
      BY <1>5, <2>1 DEF RenameTemp
    <3>2. Put(active[d], "event", "none").at = "event"
      BY DEF Put
    <3>3. active'[c] = Moved(active[c], active[d].task)
      BY <1>5, <3>1, <3>2
    <3>4. active[c] \in {Free} \cup Underway
      BY DEF HNTyped, Underway
    <3> QED BY <1>5, <3>3, <3>4, MovedSame DEF RenameTemp
  <2>2. CASE ~(disk[active[d].task].temp # Absent)
    <3>1. active' = [active EXCEPT ![d] = Free] /\ logs' = logs
      BY <1>5, <2>2 DEF RenameTemp, Release
    <3>2. active = [o \in Clients |-> active[o]]
      BY DEF HNTyped
    <3>3. active'[d] = Free /\ Free.at = "idle"
      BY <3>1, <3>2 DEF Free
    <3>4. c # d
      BY <1>5, <3>3
    <3>5. active'[c] = active[c]
      BY <3>1, <3>2, <3>4
    <3> QED BY <3>1, <3>5
  <2> QED BY <2>1, <2>2
<1>6. ASSUME NEW d \in Clients, AnswerTool(d)
      PROVE  logs' = logs /\ (\A c \in Clients : c # d => active'[c] = active[c])
             /\ active'[d].at = "idle"
  BY <1>6 DEF AnswerTool, Release, HNTyped, Free
<1>7. ASSUME ProcessEnds PROVE logs' = logs /\ \A c \in Clients : active'[c].at = "idle"
  BY <1>7 DEF ProcessEnds, Free
<1> DEFINE Still == /\ logs' = logs
                    /\ \A c \in Clients : active'[c].at \in {"newline", "answer"} =>
                         active'[c].at = active[c].at /\ active'[c].task = active[c].task
                         /\ active'[c].request = active[c].request
<1>8. ASSUME NEW d \in Clients,
             \/ StartTask(d) \/ Transition(d) \/ UpdateSteps(d)
             \/ OpenTemp(d) \/ FillTemp(d) \/ AnswerTool(d)
      PROVE  Still
  <2>1. logs' = logs /\ (\A c \in Clients : c # d => active'[c] = active[c])
        /\ active'[d].at \in {"open", "fill", "rename", "idle"}
    <3>1. CASE StartTask(d) \/ Transition(d) \/ UpdateSteps(d)
      BY <1>2, <3>1
    <3>2. CASE OpenTemp(d)
      BY <1>3, <3>2
    <3>3. CASE FillTemp(d)
      BY <1>4, <3>3
    <3>4. CASE AnswerTool(d)
      BY <1>6, <3>4
    <3> QED BY <1>8, <3>1, <3>2, <3>3, <3>4
  <2> QED BY <2>1
<1>9. ASSUME NEW d \in Clients, RenameTemp(d) PROVE Still
  <2>1. logs' = logs
    BY <1>9 DEF RenameTemp, Release
  <2> QED BY <1>5, <1>9, <2>1
<1>10. ASSUME ProcessEnds PROVE Still
  BY <1>7, <1>10
<1> HIDE DEF Still
<1>11. Still \/ \E c \in Clients : WriteEvent(c) \/ EndLine(c)
  BY <1>8, <1>9, <1>10 DEF HNNext
<1> QED BY <1>11 DEF Still

\* ... and what it does to the client that writes.
LEMMA LogWritten ==
  ASSUME HNTyped, NEW c \in Clients, WriteEvent(c) \/ EndLine(c)
  PROVE  LET t == active[c].task
             e == IF At(c, "event") THEN active[c].request ELSE NewLine
         IN /\ ~At(c, "idle") /\ active[c] \in Underway /\ t \in TaskIds /\ e \in Nat
            /\ At(c, "event") => active'[c].at = "newline"
            /\ ~At(c, "event") => At(c, "newline") /\ active'[c].at = "answer"
            /\ active'[c].task = t /\ active'[c].new = active[c].new
            /\ active'[c].request = active[c].request
            /\ logs' = [logs EXCEPT ![t] = Append(logs[t], e)]
            /\ \A d \in Clients \ {c} : active'[d] = active[d]
            /\ UNCHANGED <<disk, requests, ends, overlapped, told>>
<1>1. /\ ~At(c, "idle") /\ active[c] \in Underway /\ active[c].task \in TaskIds
      /\ active[c].request \in Nat \ {0}
  BY CallTyped DEF WriteEvent, EndLine, At
<1>2. CASE WriteEvent(c)
  <2>1. active' = [active EXCEPT ![c] = [active[c] EXCEPT !.at = "newline"]] /\ At(c, "event")
    BY <1>2 DEF WriteEvent, GoTo
  <2> QED BY <1>1, <1>2, <2>1 DEF WriteEvent, HNTyped, Underway
<1>3. CASE EndLine(c)
  <2>1. active' = [active EXCEPT ![c] = [active[c] EXCEPT !.at = "answer"]] /\ At(c, "newline")
    BY <1>3 DEF EndLine, GoTo
  <2>2. ~At(c, "event")
    BY <2>1 DEF At
  <2> QED BY <1>1, <1>3, <2>1, <2>2 DEF EndLine, HNTyped, Underway, NewLine
<1> QED BY <1>2, <1>3

LEMMA EventsStep == ASSUME HNTyped, EventsIn, HNNext PROVE EventsIn'
<1>1. \A t \in TaskIds, r \in Nat : InLog(t, r) => \E i \in 1..Len(logs'[t]) : logs'[t][i] = r
  <2> SUFFICES ASSUME NEW t \in TaskIds, NEW r \in Nat, NEW i \in 1..Len(logs[t]), logs[t][i] = r
               PROVE  i \in 1..Len(logs'[t]) /\ logs'[t][i] = r
    BY DEF InLog
  <2>1. CASE logs' = logs
    BY <2>1
  <2>2. ASSUME NEW c \in Clients, WriteEvent(c) \/ EndLine(c)
        PROVE  i \in 1..Len(logs'[t]) /\ logs'[t][i] = r
    <3>1. PICK u \in TaskIds, e \in Nat : logs' = [logs EXCEPT ![u] = Append(logs[u], e)]
      BY <2>2, LogWritten
    <3>2. logs[t] \in Seq(Nat) /\ logs'[t] \in {logs[t], Append(logs[t], e)}
      BY <3>1 DEF HNTyped
    <3> QED BY <3>2, AppendKeeps
  <2> QED BY <2>1, <2>2, LogsGrow
<1>2. \A a \in told' : a \in told \/ \E c \in Clients : At(c, "answer") /\ a.request = active[c].request
                                                     /\ a.task = active[c].task
  <2>1. told' = told \/ \E c \in Clients : AnswerTool(c)
    BY Entered
        DEF HNNext, Enter, OpenTemp, FillTemp, RenameTemp, WriteEvent, EndLine, ProcessEnds
  <2> QED BY <2>1 DEF AnswerTool
<1>3. ASSUME NEW a \in told' PROVE \E i \in 1..Len(logs'[a.task]) : logs'[a.task][i] = a.request
  <2>1. InLog(a.task, a.request)
    BY <1>2 DEF EventsIn, At
  <2>2. a.task \in TaskIds /\ a.request \in Nat
    BY HNTypedStep DEF HNTyped
  <2> QED BY <1>1, <2>1, <2>2
<1>4. ASSUME NEW c \in Clients, active'[c].at \in {"newline", "answer"}
      PROVE  \E i \in 1..Len(logs'[active'[c].task]) : logs'[active'[c].task][i] = active'[c].request
  <2>1. CASE InLog(active[c].task, active[c].request) /\ ~At(c, "idle")
             /\ active'[c].task = active[c].task /\ active'[c].request = active[c].request
    <3>1. active[c].task \in TaskIds /\ active[c].request \in Nat
      BY <2>1, CallTyped
    <3> QED BY <1>1, <2>1, <3>1
  <2>2. CASE WriteEvent(c) \/ EndLine(c)
    <3>1. CASE At(c, "event")
      <4>1. logs[active[c].task] \in Seq(Nat) /\ active[c].request \in Nat /\ active[c].task \in TaskIds
        BY <2>2, LogWritten, CallTyped DEF HNTyped
      <4>2. /\ active'[c].task = active[c].task /\ active'[c].request = active[c].request
            /\ logs'[active[c].task] = Append(logs[active[c].task], active[c].request)
        BY <2>2, <3>1, <4>1, LogWritten DEF HNTyped
      <4>3. Len(logs[active[c].task]) + 1 \in 1..Len(logs'[active[c].task])
        BY <4>1, <4>2, AppendKeeps
      <4>4. logs'[active[c].task][Len(logs[active[c].task]) + 1] = active[c].request
        BY <4>1, <4>2, AppendKeeps
      <4> QED BY <4>2, <4>3, <4>4
    <3>2. CASE ~At(c, "event")
      <4>1. At(c, "newline") /\ ~At(c, "idle")
            /\ active'[c].task = active[c].task /\ active'[c].request = active[c].request
        BY <2>2, <3>2, LogWritten
      <4>2. InLog(active[c].task, active[c].request)
        BY <4>1 DEF EventsIn, At
      <4> QED BY <2>1, <4>1, <4>2
    <3> QED BY <3>1, <3>2
  <2>3. CASE active'[c] = active[c] \/ (active'[c].at = active[c].at /\ active'[c].task = active[c].task
                                        /\ active'[c].request = active[c].request)
    <3>1. active[c].at \in {"newline", "answer"}
      BY <1>4, <2>3
    <3>2. InLog(active[c].task, active[c].request) /\ ~At(c, "idle")
      BY <3>1 DEF EventsIn, At
    <3> QED BY <2>1, <2>3, <3>2
  <2>4. ASSUME NEW d \in Clients \ {c}, WriteEvent(d) \/ EndLine(d) PROVE active'[c] = active[c]
    BY <2>4, LogWritten
  <2> QED BY <1>4, <2>2, <2>3, <2>4, LogsGrow
<1> QED BY <1>3, <1>4 DEF EventsIn, InLog

-----------------------------------------------------------------------------
(* Calls that do not overlap.                                              *)

Serial == OneAtATime /\ FilesRight /\ TasksRight

\* While a call is under way, the others are not.
LEMMA Alone ==
  ASSUME HNTyped, OneAtATime, NEW c \in Clients, ~At(c, "idle")
  PROVE  \A d \in Clients \ {c} : active[d] = Free
BY CallTyped DEF OneAtATime

LEMMA SameFiles ==
  ASSUME \A t \in TaskIds : disk'[t].file = disk[t].file
  PROVE  WritableTasks' = WritableTasks
BY DEF WritableTasks, Readable

LEMMA SoundIs ==
  ASSUME NEW text \in Sound
  PROVE  text.status \in Statuses /\ text # Absent /\ text # Torn
BY DEF Sound, Statuses, Absent, Torn

LEMMA EnterSerial ==
  ASSUME HNTyped, Serial, ~overlapped', NEW c \in Clients,
         StartTask(c) \/ Transition(c) \/ UpdateSteps(c)
  PROVE  Serial'
<1>1. PICK t \in TaskIds, new \in Sound :
        /\ Enter(c, t, new)
        /\ \/ disk[t].file = Absent /\ WritableTasks = {}
           \/ Readable(t) /\ new.status = disk[t].file.status
           \/ t \in WritableTasks
  BY Entered
<1>2. /\ active' = [active EXCEPT ![c] = [at |-> "open", task |-> t, new |-> new, fd |-> "none",
                                         request |-> requests + 1]]
      /\ requests' = requests + 1
      /\ \A o \in Clients : active[o] = Free
      /\ UNCHANGED <<disk, told>>
  BY <1>1, CallTyped DEF Enter
<1>3. /\ active'[c].at = "open" /\ active'[c].task = t /\ active'[c].new = new
      /\ active'[c].request = requests + 1
      /\ \A o \in Clients \ {c} : active'[o] = Free
  BY <1>2 DEF HNTyped
<1>4. requests \in Nat /\ \A a \in told : a.request \in Nat
  BY DEF HNTyped
<1>5. OneAtATime'
  BY <1>2, <1>3, <1>4, CallTyped DEF Serial, OneAtATime, At
<1>6. FilesRight'
  BY <1>2, <1>3, CallTyped DEF Serial, FilesRight, Saved, Free
<1>7. WritableTasks' = WritableTasks
  BY <1>2, SameFiles
<1>8. TasksRight'
  <2>1. new.status \in IsWritable => WritableTasks \subseteq {t}
    <3>1. CASE WritableTasks = {}
      BY <3>1
    <3>2. CASE t \in WritableTasks
      BY <3>2 DEF Serial, TasksRight
    <3>3. CASE Readable(t) /\ new.status = disk[t].file.status
      BY <3>2, <3>3 DEF WritableTasks
    <3> QED BY <1>1, <3>1, <3>2, <3>3
  <2>2. disk[t].file.status \in Statuses \ IsWritable => new.status = disk[t].file.status
    BY <1>1 DEF WritableTasks, Absent, Statuses
  <2>3. /\ \A u, v \in WritableTasks' : u = v
        /\ \A a \in told' : a.saved.status \notin IsWritable =>
             disk'[a.task].file.status = a.saved.status
    BY <1>2, <1>7 DEF Serial, TasksRight
  <2> QED BY <1>2, <1>3, <1>7, <2>1, <2>2, <2>3, CallTyped DEF TasksRight, Saving
<1> QED BY <1>5, <1>6, <1>8 DEF Serial

\* The one call goes on, without an answer.
LEMMA OneGoesOn ==
  ASSUME HNTyped, Serial, NEW c \in Clients, ~At(c, "idle"),
         active'[c].request = active[c].request,
         \A o \in Clients \ {c} : active'[o] = Free,
         UNCHANGED <<requests, told>>
  PROVE  OneAtATime'
BY CallTyped DEF Serial, OneAtATime, At

LEMMA OpenSerial ==
  ASSUME HNTyped, Serial, NEW c \in Clients, OpenTemp(c)
  PROVE  Serial'
<1> DEFINE t == active[c].task
<1>1. /\ At(c, "open") /\ ~At(c, "idle") /\ active[c] \in Underway /\ t \in TaskIds
  BY CallTyped DEF OpenTemp, At
<1>2. /\ disk' = [disk EXCEPT ![t].temp = Torn]
      /\ active' = [active EXCEPT ![c] = Put(active[c], "fill", "temp")]
      /\ UNCHANGED <<requests, told>>
  BY DEF OpenTemp
<1>3. /\ active'[c].at = "fill" /\ active'[c].task = t /\ active'[c].new = active[c].new
      /\ active'[c].request = active[c].request /\ active'[c].fd = "temp"
      /\ \A o \in Clients \ {c} : active'[o] = Free
  BY <1>1, <1>2, Alone DEF HNTyped, Put, Serial
<1>4. /\ \A u \in TaskIds : disk'[u].file = disk[u].file
      /\ disk'[t].temp = Torn
  BY <1>1, <1>2 DEF HNTyped
<1>5. OneAtATime'
  BY <1>1, <1>2, <1>3, OneGoesOn
<1>6. FilesRight'
  BY <1>1, <1>3, <1>4, CallTyped DEF Serial, FilesRight, Saved, Free
<1>7. WritableTasks' = WritableTasks
  BY <1>4, SameFiles
<1>8. TasksRight'
  <2>1. \A a \in told : a.task \in TaskIds
    BY DEF HNTyped
  <2>2. \A u, v \in WritableTasks' : u = v
    BY <1>7 DEF Serial, TasksRight
  <2>3. \A a \in told' : a.saved.status \notin IsWritable =>
          disk'[a.task].file.status = a.saved.status
    BY <1>2, <1>4, <2>1 DEF Serial, TasksRight
  <2>4. \A o \in Clients : active'[o].at \in Saving => o = c
    BY <1>3 DEF Free, Saving
  <2>5. /\ active[c].new.status \in IsWritable => WritableTasks \subseteq {t}
        /\ disk[t].file.status \in Statuses \ IsWritable =>
             active[c].new.status = disk[t].file.status
    BY <1>1 DEF Serial, TasksRight, Saving, At
  <2>6. disk'[t].file.status = disk[t].file.status
    BY <1>1, <1>4
  <2> HIDE DEF t
  <2> QED BY <1>3, <1>7, <2>2, <2>3, <2>4, <2>5, <2>6 DEF TasksRight
<1> QED BY <1>5, <1>6, <1>8 DEF Serial

LEMMA FillSerial ==
  ASSUME HNTyped, Serial, NEW c \in Clients, FillTemp(c)
  PROVE  Serial'
<1> DEFINE t == active[c].task
<1>1. /\ At(c, "fill") /\ ~At(c, "idle") /\ active[c] \in Underway /\ t \in TaskIds
  BY CallTyped DEF FillTemp, At
<1>2. active[c].fd = "temp" /\ disk[t].temp = Torn
  BY <1>1 DEF Serial, FilesRight, At
<1>3. /\ disk' = [disk EXCEPT ![t].temp = active[c].new]
      /\ active' = [active EXCEPT ![c] = [active[c] EXCEPT !.at = "rename"]]
      /\ UNCHANGED <<requests, told>>
  BY <1>2 DEF FillTemp, GoTo, Filled
<1>4. /\ active'[c].at = "rename" /\ active'[c].task = t /\ active'[c].new = active[c].new
      /\ active'[c].request = active[c].request /\ active'[c].fd = "temp"
      /\ \A o \in Clients \ {c} : active'[o] = Free
  BY <1>1, <1>2, <1>3, Alone DEF HNTyped, Underway, Serial
<1>5. /\ \A u \in TaskIds : disk'[u].file = disk[u].file
      /\ disk'[t].temp = active[c].new
  BY <1>1, <1>3 DEF HNTyped
<1>6. OneAtATime'
  BY <1>1, <1>3, <1>4, OneGoesOn
<1>7. FilesRight'
  BY <1>1, <1>4, <1>5, CallTyped DEF Serial, FilesRight, Saved, Free
<1>8. WritableTasks' = WritableTasks
  BY <1>5, SameFiles
<1>9. TasksRight'
  <2>1. \A a \in told : a.task \in TaskIds
    BY DEF HNTyped
  <2>2. \A u, v \in WritableTasks' : u = v
    BY <1>8 DEF Serial, TasksRight
  <2>3. \A a \in told' : a.saved.status \notin IsWritable =>
          disk'[a.task].file.status = a.saved.status
    BY <1>3, <1>5, <2>1 DEF Serial, TasksRight
  <2>4. \A o \in Clients : active'[o].at \in Saving => o = c
    BY <1>4 DEF Free, Saving
  <2>5. /\ active[c].new.status \in IsWritable => WritableTasks \subseteq {t}
        /\ disk[t].file.status \in Statuses \ IsWritable =>
             active[c].new.status = disk[t].file.status
    BY <1>1 DEF Serial, TasksRight, Saving, At
  <2>6. disk'[t].file.status = disk[t].file.status
    BY <1>1, <1>5
  <2> HIDE DEF t
  <2> QED BY <1>4, <1>8, <2>2, <2>3, <2>4, <2>5, <2>6 DEF TasksRight
<1> QED BY <1>6, <1>7, <1>9 DEF Serial

\* The one call puts its text in place.
LEMMA Renamed ==
  ASSUME HNTyped, Serial, NEW c \in Clients, RenameTemp(c)
  PROVE  LET t == active[c].task  new == active[c].new
         IN /\ At(c, "rename") /\ active[c] \in Underway /\ t \in TaskIds /\ new \in Sound
            /\ disk' = [disk EXCEPT ![t] = [file |-> new, temp |-> Absent]]
            /\ active'[c].at = "event" /\ active'[c].task = t /\ active'[c].new = new
            /\ active'[c].request = active[c].request
            /\ \A o \in Clients \ {c} : active'[o] = Free
            /\ UNCHANGED <<requests, told>>
<1> DEFINE t == active[c].task
<1>1. /\ At(c, "rename") /\ ~At(c, "idle") /\ active[c] \in Underway /\ t \in TaskIds
      /\ active[c].new \in Sound
  BY CallTyped DEF RenameTemp, At
<1>2. disk[t].temp = active[c].new
  BY <1>1 DEF Serial, FilesRight, At
<1>3. active[c].new # Absent
  BY <1>1, SoundIs
<1>4. /\ disk' = [disk EXCEPT ![t] = [file |-> active[c].new, temp |-> Absent]]
      /\ active' = [o \in Clients |-> IF o = c THEN Put(active[c], "event", "none")
                                      ELSE Moved(active[o], t)]
      /\ UNCHANGED <<requests, told>>
  BY <1>2, <1>3 DEF RenameTemp
<1>5. /\ active'[c].at = "event" /\ active'[c].task = t /\ active'[c].new = active[c].new
      /\ active'[c].request = active[c].request
  BY <1>4 DEF Put
<1>6. \A o \in Clients \ {c} : active'[o] = Free
  BY <1>1, <1>4, Alone, CallTyped DEF Moved, Serial
<1> QED BY <1>1, <1>4, <1>5, <1>6

LEMMA RenameSerial ==
  ASSUME HNTyped, Serial, NEW c \in Clients, RenameTemp(c)
  PROVE  Serial'
<1> DEFINE t == active[c].task
           new == active[c].new
<1>1. /\ At(c, "rename") /\ active[c] \in Underway /\ t \in TaskIds /\ new \in Sound
      /\ disk' = [disk EXCEPT ![t] = [file |-> new, temp |-> Absent]]
      /\ active'[c].at = "event" /\ active'[c].task = t /\ active'[c].new = new
      /\ active'[c].request = active[c].request
      /\ \A o \in Clients \ {c} : active'[o] = Free
      /\ UNCHANGED <<requests, told>>
  BY Renamed
<1>2. /\ disk'[t].file = new
      /\ \A u \in TaskIds \ {t} : disk'[u].file = disk[u].file
  BY <1>1 DEF HNTyped
<1>3. OneAtATime'
  <2>1. ~At(c, "idle")
    BY <1>1 DEF At
  <2> QED BY <1>1, <2>1, OneGoesOn
<1>4. FilesRight'
  BY <1>1, <1>2, CallTyped, SoundIs DEF Serial, FilesRight, Saved, Free
<1>5. \A u \in TaskIds \ {t} : u \in WritableTasks' <=> u \in WritableTasks
  BY <1>2 DEF WritableTasks, Readable
<1>6. t \in WritableTasks' => new.status \in IsWritable
  BY <1>2 DEF WritableTasks
<1>7. WritableTasks' \subseteq TaskIds /\ WritableTasks \subseteq TaskIds
  BY DEF WritableTasks
<1>8. \A u, v \in WritableTasks' : u = v
  <2>1. CASE new.status \in IsWritable
    <3>1. WritableTasks \subseteq {t}
      BY <1>1, <2>1 DEF Serial, TasksRight, Saving, At
    <3> QED BY <1>5, <1>7, <3>1
  <2>2. CASE new.status \notin IsWritable
    <3>1. WritableTasks' \subseteq WritableTasks
      BY <1>5, <1>6, <1>7, <2>2
    <3> QED BY <3>1 DEF Serial, TasksRight
  <2> QED BY <2>1, <2>2
<1>9. ASSUME NEW a \in told, a.saved.status \notin IsWritable
      PROVE  disk'[a.task].file.status = a.saved.status
  <2>1. disk[a.task].file.status = a.saved.status /\ a.task \in TaskIds /\ a.saved.status \in Statuses
    BY <1>9, SoundIs DEF Serial, TasksRight, HNTyped
  <2>2. a.task = t => new.status = a.saved.status
    BY <1>1, <1>9, <2>1 DEF Serial, TasksRight, Saving, At
  <2> QED BY <1>2, <2>1, <2>2
<1>10. TasksRight'
  BY <1>1, <1>8, <1>9, CallTyped DEF TasksRight, Saving
<1> QED BY <1>3, <1>4, <1>10 DEF Serial

LEMMA WriteSerial ==
  ASSUME HNTyped, Serial, NEW c \in Clients, WriteEvent(c) \/ EndLine(c)
  PROVE  Serial'
<1>1. /\ ~At(c, "idle") /\ active[c] \in Underway /\ active[c].at \in {"event", "newline"}
      /\ active'[c].at \in {"newline", "answer"}
      /\ active'[c].task = active[c].task /\ active'[c].new = active[c].new
      /\ active'[c].request = active[c].request
      /\ \A d \in Clients \ {c} : active'[d] = Free
      /\ UNCHANGED <<disk, requests, told>>
  BY LogWritten, Alone DEF Serial, At
<1>2. OneAtATime'
  BY <1>1, OneGoesOn
<1>3. FilesRight'
  BY <1>1, CallTyped DEF Serial, FilesRight, Saved, Free
<1>4. WritableTasks' = WritableTasks
  BY <1>1, SameFiles
<1>5. TasksRight'
  BY <1>1, <1>4, CallTyped DEF Serial, TasksRight, Saving
<1> QED BY <1>2, <1>3, <1>5 DEF Serial

LEMMA AnswerSerial ==
  ASSUME HNTyped, Serial, NEW c \in Clients, AnswerTool(c)
  PROVE  Serial'
<1>1. /\ At(c, "answer") /\ ~At(c, "idle") /\ active[c] \in Underway
      /\ active' = [active EXCEPT ![c] = Free] /\ UNCHANGED <<disk, requests>>
      /\ told' = told \cup {[request |-> active[c].request, task |-> active[c].task,
                             saved |-> active[c].new]}
  BY CallTyped DEF AnswerTool, Release, At
<1>2. \A d \in Clients : active'[d] = Free
  BY <1>1, Alone DEF HNTyped, Serial
<1>3. OneAtATime'
  BY <1>1, <1>2, CallTyped DEF Serial, OneAtATime, At
<1>4. FilesRight'
  BY <1>1, <1>2 DEF Serial, FilesRight, Saved, Free
<1>5. WritableTasks' = WritableTasks
  BY <1>1, SameFiles
<1>6. disk[active[c].task].file = active[c].new
  BY <1>1 DEF Serial, FilesRight, Saved, At
<1>7. TasksRight'
  <2>1. \A a \in told' : a.saved.status \notin IsWritable => disk'[a.task].file.status = a.saved.status
    BY <1>1, <1>6 DEF Serial, TasksRight
  <2> QED BY <1>1, <1>2, <1>5, <2>1 DEF Serial, TasksRight, Saving, Free
<1> QED BY <1>3, <1>4, <1>7 DEF Serial

LEMMA EndSerial == ASSUME HNTyped, Serial, ProcessEnds PROVE Serial'
<1>1. (\A c \in Clients : active'[c] = Free) /\ UNCHANGED <<disk, requests, told>>
  BY DEF ProcessEnds
<1>2. WritableTasks' = WritableTasks
  BY <1>1, SameFiles
<1> QED BY <1>1, <1>2 DEF Serial, OneAtATime, FilesRight, TasksRight, At, Free, Saved, Saving

LEMMA SerialStep == ASSUME HNTyped, ~overlapped => Serial, HNNext PROVE ~overlapped' => Serial'
<1> SUFFICES ASSUME ~overlapped' PROVE Serial'
  OBVIOUS
<1>1. ~overlapped
  BY Entered DEF HNNext, Enter, OpenTemp, FillTemp, RenameTemp, WriteEvent, EndLine, AnswerTool,
     ProcessEnds
<1> QED BY <1>1, EnterSerial, OpenSerial, FillSerial, RenameSerial, WriteSerial, AnswerSerial,
           EndSerial DEF HNNext

-----------------------------------------------------------------------------
(* Calls that are not cut off either.                                      *)

LEMMA LastSavedStep ==
  ASSUME HNTyped, Serial, LastSaved, HNNext, ~overlapped', ends' = 0
  PROVE  LastSaved'
<1> DEFINE Last(a, all) == \A n \in all : n.task = a.task => n.request <= a.request
<1>1. ASSUME told' = told, \A t \in TaskIds : disk'[t].file = disk[t].file,
             \A c \in Clients : active[c].at \in Saved =>
               active'[c].at \in Saved /\ active'[c].task = active[c].task
      PROVE  LastSaved'
  <2> SUFFICES ASSUME NEW a \in told, Last(a, told)
               PROVE  \/ disk'[a.task].file = a.saved
                      \/ \E c \in Clients : active'[c].at \in Saved /\ active'[c].task = a.task
    BY <1>1 DEF LastSaved
  <2>1. a.task \in TaskIds
    BY DEF HNTyped
  <2> QED BY <1>1, <2>1 DEF LastSaved
<1>2. ASSUME NEW c \in Clients, StartTask(c) \/ Transition(c) \/ UpdateSteps(c) PROVE LastSaved'
  <2>1. PICK t \in TaskIds, new \in Sound : Enter(c, t, new)
    BY <1>2, Entered
  <2> QED BY <1>1, <2>1 DEF Enter, At, Saved, HNTyped
<1>3. ASSUME NEW c \in Clients, OpenTemp(c) PROVE LastSaved'
  <2>1. At(c, "open") /\ active[c].task \in TaskIds
    BY <1>3, CallTyped DEF OpenTemp, At
  <2>2. /\ disk' = [disk EXCEPT ![active[c].task].temp = Torn] /\ told' = told
        /\ \A d \in Clients \ {c} : active'[d] = active[d]
    BY <1>3 DEF OpenTemp, HNTyped
  <2>3. \A t \in TaskIds : disk'[t].file = disk[t].file
    BY <2>1, <2>2 DEF HNTyped
  <2> QED BY <1>1, <2>1, <2>2, <2>3 DEF At, Saved
<1>4. ASSUME NEW c \in Clients, FillTemp(c) PROVE LastSaved'
  <2>1. At(c, "fill") /\ active[c].task \in TaskIds /\ active[c].fd = "temp"
    BY <1>4, CallTyped DEF FillTemp, At, Serial, FilesRight
  <2>2. PICK now : disk' = [disk EXCEPT ![active[c].task].temp = now]
    BY <1>4, <2>1 DEF FillTemp
  <2>3. told' = told /\ \A d \in Clients \ {c} : active'[d] = active[d]
    BY <1>4 DEF FillTemp, GoTo, HNTyped
  <2>4. \A t \in TaskIds : disk'[t].file = disk[t].file
    BY <2>1, <2>2 DEF HNTyped
  <2> QED BY <1>1, <2>1, <2>3, <2>4 DEF At, Saved
<1>5. ASSUME NEW c \in Clients, RenameTemp(c) PROVE LastSaved'
  <2> DEFINE t == active[c].task
  <2>1. /\ At(c, "rename") /\ t \in TaskIds
        /\ disk' = [disk EXCEPT ![t] = [file |-> active[c].new, temp |-> Absent]]
        /\ active'[c].at = "event" /\ active'[c].task = t /\ told' = told
    BY <1>5, Renamed
  <2>2. \A d \in Clients \ {c} : active[d] = Free
    BY <2>1, Alone DEF Serial, At
  <2> SUFFICES ASSUME NEW a \in told, Last(a, told)
               PROVE  \/ disk'[a.task].file = a.saved
                      \/ \E d \in Clients : active'[d].at \in Saved /\ active'[d].task = a.task
    BY <2>1 DEF LastSaved
  <2>3. CASE a.task = t
    BY <2>1, <2>3 DEF Saved
  <2>4. CASE a.task # t
    <3>1. disk'[a.task].file = disk[a.task].file
      BY <2>1, <2>4 DEF HNTyped
    <3>2. ~\E d \in Clients : active[d].at \in Saved
      BY <2>1, <2>2 DEF At, Saved, Free
    <3> QED BY <3>1, <3>2 DEF LastSaved
  <2> QED BY <2>3, <2>4
<1>6. ASSUME NEW c \in Clients, WriteEvent(c) \/ EndLine(c) PROVE LastSaved'
  <2>1. /\ disk' = disk /\ told' = told /\ active'[c].at \in {"newline", "answer"}
        /\ active'[c].task = active[c].task /\ \A d \in Clients \ {c} : active'[d] = active[d]
    BY <1>6, LogWritten
  <2> QED BY <1>1, <2>1 DEF Saved
<1>7. ASSUME NEW c \in Clients, AnswerTool(c) PROVE LastSaved'
  <2> DEFINE mine == [request |-> active[c].request, task |-> active[c].task, saved |-> active[c].new]
  <2>1. /\ At(c, "answer") /\ ~At(c, "idle") /\ disk' = disk /\ told' = told \cup {mine}
        /\ active[c].request \in Nat
    BY <1>7, CallTyped DEF AnswerTool, At
  <2>2. \A d \in Clients \ {c} : active[d] = Free
    BY <2>1, Alone DEF Serial
  <2>3. \A a \in told : a.request < active[c].request /\ a.request \in Nat
    BY <2>1 DEF Serial, OneAtATime, HNTyped
  <2>4. disk[active[c].task].file = active[c].new
    BY <2>1 DEF Serial, FilesRight, Saved, At
  <2>5. ASSUME NEW a \in told', Last(a, told') PROVE disk[a.task].file = a.saved
    <3>1. CASE a = mine
      BY <2>4, <3>1
    <3>2. CASE a \in told /\ a.task = active[c].task
      <4>0. mine \in told' /\ mine.task = a.task /\ mine.request = active[c].request
        BY <2>1, <3>2
      <4> HIDE DEF mine
      <4>1. active[c].request <= a.request
        BY <2>5, <4>0
      <4> QED BY <4>1, <2>1, <2>3, <3>2
    <3>3. CASE a \in told /\ a.task # active[c].task
      <4>1. Last(a, told)
        BY <2>1, <2>5
      <4>2. ~\E d \in Clients : active[d].at \in Saved /\ active[d].task = a.task
        BY <2>2, <3>3 DEF Free, Saved
      <4> QED BY <3>3, <4>1, <4>2 DEF LastSaved
    <3> QED BY <2>1, <2>5, <3>1, <3>2, <3>3
  <2> QED BY <2>1, <2>5 DEF LastSaved
<1>8. ~ProcessEnds
  BY DEF ProcessEnds, HNTyped
<1> QED BY <1>2, <1>3, <1>4, <1>5, <1>6, <1>7, <1>8 DEF HNNext

\* A log that gets the event of a call at its end, or the end of its last line.
LEMMA WholeAppended ==
  ASSUME NEW log \in Seq(Nat), NEW e \in Nat,
         \A i \in 1..Len(log) : log[i] # NewLine => i \in LogLines(log),
         \A i \in LogLines(log) : IsEvent(log, i),
         e # NewLine => log = <<>> \/ log[Len(log)] = NewLine,
         e = NewLine => log # <<>> /\ log[Len(log)] # NewLine
  PROVE  LET now == Append(log, e) IN
         /\ \A i \in 1..Len(now) : now[i] # NewLine => i \in LogLines(now)
         /\ \A i \in LogLines(now) : IsEvent(now, i)
         /\ now # <<>> /\ now[Len(now)] = e
<1> DEFINE now == Append(log, e)
           n == Len(log)
<1>1. /\ now \in Seq(Nat) /\ Len(now) = n + 1 /\ now[n + 1] = e /\ n \in Nat
      /\ \A i \in 1..n : now[i] = log[i]
  BY AppendKeeps
<1>2. log # <<>> => n # 0
  OBVIOUS
<1>3. log = <<>> => n = 0
  OBVIOUS
<1> HIDE DEF now, n
<1>4. ASSUME NEW i \in 1..(n + 1), now[i] # NewLine PROVE i \in LogLines(now)
  <2>1. CASE i = n + 1
    <3>1. n = 0 \/ (n # 0 /\ now[n] = NewLine)
      <4>1. log = <<>> \/ log[n] = NewLine
        BY <1>1, <1>4, <2>1 DEF n
      <4> QED BY <1>1, <1>3, <4>1
    <3> QED BY <1>1, <2>1, <3>1 DEF LogLines
  <2>2. CASE i \in 1..n
    <3>1. i = 1 \/ log[i - 1] = NewLine
      BY <1>1, <1>4, <2>2 DEF LogLines, n
    <3>2. i # 1 => i - 1 \in 1..n
      BY <1>1, <2>2
    <3> QED BY <1>1, <2>2, <3>1, <3>2 DEF LogLines
  <2> QED BY <1>1, <2>1, <2>2
<1>5. ASSUME NEW i \in LogLines(now) PROVE IsEvent(now, i)
  <2>1. i \in 1..(n + 1) /\ (i = 1 \/ now[i - 1] = NewLine)
    BY <1>1 DEF LogLines
  <2>2. CASE i = n + 1
    <3>1. e # NewLine
      <4> SUFFICES ASSUME e = NewLine PROVE FALSE
        OBVIOUS
      <4>1. n # 0 /\ log[n] # NewLine
        BY <1>2 DEF n
      <4> QED BY <1>1, <2>1, <2>2, <4>1
    <3> QED BY <1>1, <2>2, <3>1 DEF IsEvent
  <2>3. CASE i \in 1..n
    <3>1. i # 1 => i - 1 \in 1..n
      BY <1>1, <2>3
    <3>2. i \in LogLines(log)
      BY <1>1, <2>1, <2>3, <3>1 DEF LogLines, n
    <3>3. log[i] # NewLine /\ (i = n \/ log[i + 1] = NewLine)
      BY <3>2 DEF IsEvent, n
    <3>4. CASE i = n
      <4>1. e = NewLine
        BY <1>1, <1>3, <3>3, <3>4, <2>3 DEF n
      <4> QED BY <1>1, <2>3, <3>3, <3>4, <4>1 DEF IsEvent
    <3>5. CASE i # n
      <4>1. i + 1 \in 1..n
        BY <1>1, <2>3, <3>5
      <4> QED BY <1>1, <2>3, <3>3, <3>5, <4>1 DEF IsEvent
    <3> QED BY <3>4, <3>5
  <2> QED BY <1>1, <2>1, <2>2, <2>3
<1>6. now # <<>>
  <2>1. Len(now) # 0
    BY <1>1
  <2> QED BY <2>1
<1>7. now[Len(now)] = e
  BY <1>1
<1>8. \A i \in 1..Len(now) : now[i] # NewLine => i \in LogLines(now)
  BY <1>1, <1>4
<1> QED BY <1>5, <1>6, <1>7, <1>8 DEF now

LEMMA LogsWholeStep ==
  ASSUME HNTyped, HNTyped', Serial, Serial', LogsWhole, HNNext, ~overlapped', ends' = 0
  PROVE  LogsWhole'
<1>1. ASSUME NEW c \in Clients, WriteEvent(c) \/ EndLine(c) PROVE LogsWhole'
  <2> DEFINE t == active[c].task
             e == IF At(c, "event") THEN active[c].request ELSE NewLine
  <2>1. /\ ~At(c, "idle") /\ active[c] \in Underway /\ t \in TaskIds /\ e \in Nat
        /\ At(c, "event") => active'[c].at = "newline"
        /\ ~At(c, "event") => At(c, "newline") /\ active'[c].at = "answer"
        /\ active'[c].task = t
        /\ logs' = [logs EXCEPT ![t] = Append(logs[t], e)]
        /\ \A d \in Clients \ {c} : active'[d] = active[d]
    BY <1>1, LogWritten
  <2>2. \A d \in Clients \ {c} : active[d] = Free /\ active'[d] = Free
    BY <2>1, Alone DEF Serial
  <2>3. active[c].request # NewLine
    BY <2>1 DEF Underway, NewLine
  <2>4. logs[t] \in Seq(Nat) /\ logs'[t] = Append(logs[t], e)
        /\ \A u \in TaskIds \ {t} : logs'[u] = logs[u]
    BY <2>1 DEF HNTyped
  <2>5. /\ e # NewLine => logs[t] = <<>> \/ logs[t][Len(logs[t])] = NewLine
        /\ e = NewLine => logs[t] # <<>> /\ logs[t][Len(logs[t])] # NewLine
    <3>1. At(c, "event") => ~\E d \in Clients : At(d, "newline")
      BY <2>2 DEF At, Free
    <3> QED BY <2>1, <2>3, <3>1 DEF LogsWhole
  <2>6. /\ \A i \in 1..Len(logs[t]) : logs[t][i] # NewLine => i \in LogLines(logs[t])
        /\ \A i \in LogLines(logs[t]) : IsEvent(logs[t], i)
    BY <2>1 DEF LogsWhole
  <2>7. /\ \A i \in 1..Len(logs'[t]) : logs'[t][i] # NewLine => i \in LogLines(logs'[t])
        /\ \A i \in LogLines(logs'[t]) : IsEvent(logs'[t], i)
        /\ logs'[t] # <<>> /\ logs'[t][Len(logs'[t])] = e
    <3> DEFINE log == logs[t]
    <3>1. /\ log \in Seq(Nat) /\ e \in Nat
          /\ \A i \in 1..Len(log) : log[i] # NewLine => i \in LogLines(log)
          /\ \A i \in LogLines(log) : IsEvent(log, i)
          /\ e # NewLine => log = <<>> \/ log[Len(log)] = NewLine
          /\ e = NewLine => log # <<>> /\ log[Len(log)] # NewLine
      BY <2>1, <2>4, <2>5, <2>6
    <3>2. logs'[t] = Append(log, e)
      BY <2>4
    <3> HIDE DEF log, e
    <3> QED BY ONLY <3>1, <3>2, WholeAppended
  <2>8. At(c, "event") <=> e # NewLine
    BY <2>3
  <2>9. \A d \in Clients : active'[d].at = "newline" => d = c /\ At(c, "event")
    BY <2>1, <2>2 DEF Free
  <2> HIDE DEF e
  <2>10. ASSUME NEW u \in TaskIds
         PROVE  /\ \A i \in 1..Len(logs'[u]) : logs'[u][i] # NewLine => i \in LogLines(logs'[u])
                /\ \A i \in LogLines(logs'[u]) : IsEvent(logs'[u], i)
                /\ \/ logs'[u] = <<>> \/ logs'[u][Len(logs'[u])] = NewLine
                   \/ \E d \in Clients : active'[d].at = "newline" /\ active'[d].task = u
                /\ \A d \in Clients : active'[d].at = "newline" /\ active'[d].task = u =>
                     logs'[u] # <<>> /\ logs'[u][Len(logs'[u])] # NewLine
    <3>1. CASE u = t
      BY <2>1, <2>7, <2>8, <2>9, <3>1
    <3>2. CASE u # t
      <4>1. ~\E d \in Clients : At(d, "newline") /\ active[d].task = u
        BY <2>2, <3>2 DEF At, Free
      <4>2. ~\E d \in Clients : active'[d].at = "newline" /\ active'[d].task = u
        BY <2>1, <2>9, <3>2
      <4> QED BY <2>4, <3>2, <4>1, <4>2 DEF LogsWhole
    <3> QED BY <3>1, <3>2
  <2> QED BY <2>10 DEF LogsWhole, At
<1>2. CASE /\ logs' = logs
           /\ \A c \in Clients : active'[c].at \in {"newline", "answer"} =>
                active'[c].at = active[c].at /\ active'[c].task = active[c].task
      /\ \A c \in Clients : At(c, "newline") => active'[c] = active[c]
  BY <1>2 DEF LogsWhole, At
<1>3. ASSUME \A c \in Clients : ~(WriteEvent(c) \/ EndLine(c))
      PROVE  \A c \in Clients : At(c, "newline") => active'[c] = active[c]
  <2> SUFFICES ASSUME NEW c \in Clients, At(c, "newline") PROVE active'[c] = active[c]
    OBVIOUS
  <2>1. \A d \in Clients \ {c} : active[d] = Free
    BY Alone DEF Serial, At
  <2>2. ASSUME NEW d \in Clients, StartTask(d) \/ Transition(d) \/ UpdateSteps(d) PROVE FALSE
    <3>1. PICK t \in TaskIds, new \in Sound : Enter(d, t, new)
      BY <2>2, Entered
    <3> QED BY <3>1 DEF Enter, At
  <2>3. ~ProcessEnds
    BY DEF ProcessEnds, HNTyped
  <2>4. ASSUME NEW d \in Clients, OpenTemp(d) \/ FillTemp(d) \/ RenameTemp(d) \/ AnswerTool(d)
        PROVE  FALSE
    <3>1. active[d].at \in {"open", "fill", "rename", "answer"}
      BY <2>4 DEF OpenTemp, FillTemp, RenameTemp, AnswerTool, At
    <3>2. d # c
      BY <3>1 DEF At
    <3> QED BY <2>1, <3>1, <3>2 DEF Free
  <2> QED BY <1>3, <2>2, <2>3, <2>4 DEF HNNext
<1> QED BY <1>1, <1>2, <1>3, LogsGrow

-----------------------------------------------------------------------------

LEMMA HNPreserved == HNStrong /\ [HNNext]_hnvars => HNStrong'
<1> SUFFICES ASSUME HNStrong, [HNNext]_hnvars PROVE HNStrong'
  OBVIOUS
<1>1. CASE UNCHANGED hnvars
  <2>1. WritableTasks' = WritableTasks
    BY <1>1 DEF hnvars, WritableTasks, Readable
  <2> QED BY <1>1, <2>1
      DEF HNStrong, hnvars, HNTyped, EventsIn, InLog, OneAtATime, FilesRight, TasksRight,
                           LastSaved, LogsWhole, At
<1>2. CASE HNNext
  <2>1. HNTyped' /\ EventsIn'
    BY <1>2, HNTypedStep, EventsStep DEF HNStrong
  <2>2. ~overlapped' => ~overlapped
    BY <1>2, Entered
        DEF HNNext, Enter, OpenTemp, FillTemp, RenameTemp, WriteEvent, EndLine, AnswerTool,
       ProcessEnds, HNStrong
  <2>3. ends' = 0 => ends = 0
    <3>1. ends' = ends \/ ends' = ends + 1
      BY <1>2, Entered DEF HNNext, Enter, OpenTemp, FillTemp, RenameTemp, WriteEvent, EndLine,
         AnswerTool, ProcessEnds, HNStrong
    <3>2. ends \in Nat
      BY DEF HNStrong, HNTyped
    <3> QED BY <3>1, <3>2
  <2>4. ~overlapped' => Serial'
    BY <1>2, SerialStep DEF HNStrong, Serial
  <2>5. ~overlapped' /\ ends' = 0 => LastSaved' /\ LogsWhole'
    BY <1>2, <2>1, <2>2, <2>3, <2>4, LastSavedStep, LogsWholeStep DEF HNStrong, Serial
  <2> QED BY <2>1, <2>4, <2>5 DEF HNStrong, Serial
<1> QED BY <1>1, <1>2

\* A listing has no gap: the first event that it left out would follow an event on
\* the same line, which would not be listed.
LEMMA NoGap ==
  ASSUME NEW log \in Seq(Nat), NEW i \in ListEvents(log), NEW j \in 1..i, log[j] # NewLine
  PROVE  j \in ListEvents(log)
<1>1. i \in 1..Len(log) /\ i \in LogLines(log) /\ \A k \in LogLines(log) : k <= i => IsEvent(log, k)
  BY DEF ListEvents, LogLines
<1>2. ASSUME NEW k \in 1..i, log[k] # NewLine, k \notin LogLines(log) PROVE FALSE
  <2> DEFINE S == {m \in 1..i : log[m] # NewLine /\ m \notin LogLines(log)}
  <2>1. S \in SUBSET Nat /\ S # {}
    BY <1>2
  <2>2. PICK n \in S : \A m \in S : n <= m
    BY <2>1, FirstPlace
  <2>3. n \in 1..Len(log) /\ n <= i /\ log[n] # NewLine /\ n # 1 /\ log[n - 1] # NewLine
    BY <1>1 DEF LogLines
  <2>4. n - 1 \in 1..i /\ ~(n <= n - 1)
    BY <1>1, <2>3
  <2>5. n - 1 \in LogLines(log)
    BY <2>2, <2>3, <2>4
  <2>6. n - 1 # Len(log) /\ log[n - 1 + 1] = log[n]
    BY <2>3
  <2> QED BY <1>1, <2>3, <2>4, <2>5, <2>6 DEF IsEvent
<1>3. j \in LogLines(log)
  BY <1>2
<1> QED BY <1>1, <1>3 DEF ListEvents

LEMMA HNMeans == HNStrong => HarnessInv
<1> SUFFICES ASSUME HNStrong PROVE HarnessInv
  OBVIOUS
<1>1. disk \in [TaskIds -> [file : [status : Statuses \cup {"absent", "torn"}, steps : Nat],
                           temp : [status : Statuses \cup {"absent", "torn"}, steps : Nat]]]
  <2>1. Contents \subseteq [status : Statuses \cup {"absent", "torn"}, steps : Nat]
    BY DEF Contents, Sound, Absent, Torn
  <2> QED BY <2>1 DEF HNStrong, HNTyped
<1>2. \A c \in Clients : active[c].at \in {"idle", "open", "fill", "rename", "event", "newline", "answer"}
  BY CallTyped DEF HNStrong, Underway, Stages
<1>3. OneTask
  <2> SUFFICES ASSUME ~overlapped PROVE OneTask
    BY DEF OneTask
  <2>1. TasksRight
    BY DEF HNStrong
  <2>2. Cardinality(WritableTasks) <= 1
    <3>1. CASE WritableTasks = {}
      BY <3>1, FS_EmptySet
    <3>2. CASE WritableTasks # {}
      <4>1. PICK t \in WritableTasks : TRUE
        BY <3>2
      <4>2. WritableTasks = {t}
        BY <2>1, <4>1 DEF TasksRight
      <4>3. Cardinality({t}) = 1
        BY FS_Singleton
      <4> QED BY <4>2, <4>3
    <3> QED BY <3>1, <3>2
  <2> QED BY <2>1, <2>2 DEF OneTask, TasksRight
<1>4. TasksWhole
  <2> SUFFICES ASSUME ~overlapped, NEW t \in TaskIds
               PROVE  /\ disk[t].file # Torn
                      /\ (ends = 0 /\ \A c \in Clients : At(c, "idle")) =>
                           \A a \in told :
                             (a.task = t /\ \A n \in told : n.task = t => n.request <= a.request)
                               => disk[t].file = a.saved
    BY DEF TasksWhole
  <2>1. disk[t].file # Torn
    BY DEF HNStrong, FilesRight
  <2>2. ASSUME ends = 0, \A c \in Clients : At(c, "idle"), NEW a \in told, a.task = t,
               \A n \in told : n.task = t => n.request <= a.request
        PROVE  disk[t].file = a.saved
    <3>1. ~\E c \in Clients : active[c].at \in Saved
      BY <2>2 DEF At, Saved
    <3> QED BY <2>2, <3>1 DEF HNStrong, LastSaved
  <2> QED BY <2>1, <2>2
<1>5. LogsTrue
  <2> SUFFICES ASSUME NEW t \in TaskIds
               PROVE  /\ \A i \in ListEvents(logs[t]) : \A j \in 1..i :
                           logs[t][j] # NewLine => j \in ListEvents(logs[t])
                      /\ \A a \in told : a.task = t =>
                           /\ \E i \in 1..Len(logs[t]) : logs[t][i] = a.request
                           /\ ~overlapped /\ ends = 0 =>
                                \E i \in ListEvents(logs[t]) : logs[t][i] = a.request
    BY DEF LogsTrue
  <2>1. logs[t] \in Seq(Nat)
    BY DEF HNStrong, HNTyped
  <2>2. \A i \in ListEvents(logs[t]) : \A j \in 1..i :
          logs[t][j] # NewLine => j \in ListEvents(logs[t])
    BY <2>1, NoGap
  <2>3. ASSUME NEW a \in told, a.task = t
        PROVE  /\ \E i \in 1..Len(logs[t]) : logs[t][i] = a.request
               /\ ~overlapped /\ ends = 0 => \E i \in ListEvents(logs[t]) : logs[t][i] = a.request
    <3>1. PICK i \in 1..Len(logs[t]) : logs[t][i] = a.request
      BY <2>3 DEF HNStrong, EventsIn, InLog
    <3>2. a.request # NewLine
      BY DEF HNStrong, HNTyped, NewLine
    <3>3. ASSUME ~overlapped, ends = 0 PROVE i \in ListEvents(logs[t])
      BY <3>1, <3>2, <3>3 DEF HNStrong, LogsWhole, ListEvents
    <3> QED BY <3>1, <3>3
  <2> QED BY <2>2, <2>3
<1> QED BY <1>1, <1>2, <1>3, <1>4, <1>5 DEF HarnessInv

\* For any clients and calls: without overlapping there is one task that is not
\* finished, no file is half written and the last answer is what the file says, even
\* when calls are cut off; a listing leaves nothing out before what it shows, and no
\* event of an answered call is lost: harness/state.rs:54-205, store.rs:54-199.
THEOREM HarnessSafe == HNSpec => []HarnessInv
<1>1. HNStrong /\ [HNNext]_hnvars => HNStrong'
  BY HNPreserved
<1> QED BY <1>1, HNBegins, HNMeans, PTL DEF HNSpec

-----------------------------------------------------------------------------
(* DesktopData.  A command leaves the mutex between its steps, and the     *)
(* file may be older than what is held.  The invariant asks of both what   *)
(* DesktopInv asks of what is held, and of a start that is under way that  *)
(* its profile is still the one that is saved.                             *)

\* What may be held or saved, given what happened before.
DataTyped(data) ==
  /\ DOMAIN data.profiles \subseteq Workspaces /\ PortsTyped(data.profiles)
  /\ \A w \in DOMAIN data.secrets : data.secrets[w] \subseteq SecretKeys
  /\ \A w \in DOMAIN data.profiles \ NoSecrets :
       w \in DOMAIN data.secrets /\ data.secrets[w] = SecretKeys
DataSound(data, takenBack, excused, mishap) ==
  /\ DataTyped(data)
  /\ takenBack \/ NoClash(data.profiles)
  /\ excused \/ MembersKnown(data.profiles)
  /\ data.token => data.frp \/ mishap

Excused == raced \/ undone \/ saveErrors > 0
Mishap == saveErrors + deaths > 0

Running(d) ==
  /\ d = [at |-> d.at, w |-> d.w, current |-> d.current]
  /\ d.w \in Workspaces /\ d.current.port \in 1..LastPort
DeskTyped(d) ==
  /\ d.at = "store" => d.w \in Workspaces /\ d.next.port \in 1..LastPort
  /\ d.at \in {"running", "again", "back"} => Running(d)
  /\ d.at \in {"once more", "serve"} => d.w \in Workspaces
  /\ d.at = "serve" /\ d.why.at = "again" => Running(d.why)
  /\ d.at = "stop" => d = [at |-> "stop", w |-> d.w]
  /\ d.at = "secret" => d.key \in SecretKeys

DesksTyped ==
  /\ desk = [c \in Deskers |-> desk[c]] /\ \A c \in Deskers : DeskTyped(desk[c])
  /\ served = [w \in Workspaces |-> served[w]]
  /\ alive \in BOOLEAN /\ unsaved \in BOOLEAN /\ raced \in BOOLEAN /\ undone \in BOOLEAN
  /\ aside \in BOOLEAN
  /\ saveErrors \in Nat /\ deaths \in Nat

HeldSound == DataSound(held, undone, Excused, Mishap)
DiskSound == onDisk = TornFile \/ DataSound(onDisk, undone, Excused, Mishap)

\* Services write secrets, so the profiles are the same on both sides.
ProfilesFollow ==
  /\ unsaved => saveErrors > 0
  /\ alive => unsaved \/ onDisk.profiles = held.profiles

\* A start that is under way has the profile that is saved.
StartsTrue ==
  alive /\ ~Excused =>
    \A c \in Deskers : desk[c].at = "serve" =>
      desk[c].w \in DOMAIN Profiles /\ desk[c].profile = Profiles[desk[c].w]

\* What a running entry serves.
EntryTrue(h) ==
  Listening(h) /\ served[h].profile.members # {} =>
    /\ h \in DOMAIN Profiles
    /\ Sensitive(served[h].profile) = Sensitive(Profiles[h])
    /\ \A m \in served[h].profile.members :
         Sensitive(served[h].members[m]) = Sensitive(Profiles[m])
ServedTrue == alive /\ ~Excused => \A h \in Workspaces : EntryTrue(h)

DDStrong ==
  /\ DesksTyped /\ HeldSound /\ DiskSound /\ FileFollows /\ ProfilesFollow
  /\ StartsTrue /\ ServedTrue

-----------------------------------------------------------------------------
(* Changes of what is saved.                                               *)

LEMMA SecretKept ==
  ASSUME NEW data, DataTyped(data), NEW w, NEW key \in SecretKeys
  PROVE  /\ DataTyped(WithSecret(data, w, key))
         /\ WithSecret(data, w, key).profiles = data.profiles
         /\ WithSecret(data, w, key).frp = data.frp
         /\ WithSecret(data, w, key).token = data.token
         /\ w \in DOMAIN WithSecret(data, w, key).secrets
         /\ WithSecret(data, w, key).secrets[w] =
              (IF w \in DOMAIN data.secrets THEN data.secrets[w] ELSE {}) \cup {key}
         /\ DOMAIN WithSecret(data, w, key).secrets = DOMAIN data.secrets \cup {w}
<1> DEFINE old == IF w \in DOMAIN data.secrets THEN data.secrets[w] ELSE {}
           new == WithEntry(data.secrets, w, old \cup {key})
<1>1. WithSecret(data, w, key) = Data(data.profiles, new, data.frp, data.token)
  BY DEF WithSecret
<1>2. /\ Data(data.profiles, new, data.frp, data.token).profiles = data.profiles
      /\ Data(data.profiles, new, data.frp, data.token).secrets = new
      /\ Data(data.profiles, new, data.frp, data.token).frp = data.frp
      /\ Data(data.profiles, new, data.frp, data.token).token = data.token
  BY DEF Data
<1>3. /\ DOMAIN new = DOMAIN data.secrets \cup {w} /\ new[w] = old \cup {key}
      /\ \A v \in DOMAIN data.secrets : v # w => new[v] = data.secrets[v]
  BY DEF WithEntry
<1>4. old \subseteq SecretKeys
  BY DEF DataTyped
<1> HIDE DEF new
<1>5. DataTyped(WithSecret(data, w, key))
  BY <1>1, <1>2, <1>3, <1>4 DEF DataTyped
<1> QED BY <1>1, <1>2, <1>3, <1>5

LEMMA ProfileKept ==
  ASSUME NEW data, DataTyped(data), NEW w \in Workspaces, NEW p, p.port \in 1..LastPort,
         w \in NoSecrets \/ (w \in DOMAIN data.secrets /\ data.secrets[w] = SecretKeys)
  PROVE  /\ DataTyped(WithProfile(data, w, p))
         /\ WithProfile(data, w, p).profiles = WithEntry(data.profiles, w, p)
         /\ WithProfile(data, w, p).frp = data.frp
         /\ WithProfile(data, w, p).token = data.token
<1> DEFINE new == WithEntry(data.profiles, w, p)
<1>1. /\ WithProfile(data, w, p).profiles = new
      /\ WithProfile(data, w, p).secrets = data.secrets
      /\ WithProfile(data, w, p).frp = data.frp
      /\ WithProfile(data, w, p).token = data.token
  BY DEF WithProfile, Data
<1>2. /\ DOMAIN new = DOMAIN data.profiles \cup {w} /\ new[w] = p
      /\ \A v \in DOMAIN data.profiles : v # w => new[v] = data.profiles[v]
  BY DEF WithEntry
<1> HIDE DEF new
<1>3. DataTyped(WithProfile(data, w, p))
  BY <1>1, <1>2 DEF DataTyped, PortsTyped
<1> QED BY <1>1, <1>3 DEF new

\* A save leaves, on both sides, what was there, or one of the contents; without a
\* mishap, the last one.
LEMMA SavedIs ==
  ASSUME NEW s, NEW n \in Nat \ {0}, Len(s) = n, SaveAll(s), alive = TRUE,
         saveErrors \in Nat, deaths \in Nat, unsaved \in BOOLEAN
  PROVE  /\ held' = held \/ \E k \in 1..n : held' = s[k]
         /\ onDisk' \in {onDisk, TornFile} \/ \E k \in 1..n : onDisk' = s[k]
         /\ saveErrors' \in Nat /\ deaths' \in Nat /\ alive' \in BOOLEAN /\ unsaved' \in BOOLEAN
         /\ saveErrors' >= saveErrors /\ deaths' >= deaths
         /\ \/ saveErrors' + deaths' > 0
            \/ held' = s[n] /\ onDisk' = s[n]
         /\ alive' => \/ saveErrors' > 0 /\ unsaved'
                      \/ held' = s[n] /\ onDisk' = s[n] /\ ~unsaved'
         /\ unsaved' => unsaved \/ saveErrors' > 0
<1>1. PICK k \in 1..n : LET before == IF k = 1 THEN onDisk ELSE s[k - 1] IN
    \/ /\ k = n /\ held' = s[k] /\ onDisk' = s[k] /\ unsaved' = FALSE
       /\ UNCHANGED <<alive, saveErrors, deaths>>
    \/ /\ saveErrors + deaths < MaxMishaps /\ saveErrors' = saveErrors + 1
       /\ held' = s[k] /\ onDisk' \in {before, TornFile} /\ unsaved' = TRUE
       /\ UNCHANGED <<alive, deaths>>
    \/ /\ saveErrors + deaths < MaxMishaps /\ deaths' = deaths + 1
       /\ alive' = FALSE /\ onDisk' \in {before, TornFile}
       /\ UNCHANGED <<held, saveErrors, unsaved>>
  BY DEF SaveAll
<1> DEFINE before == IF k = 1 THEN onDisk ELSE s[k - 1]
<1>2. before = onDisk \/ \E j \in 1..n : before = s[j]
  <2>1. CASE k = 1
    BY <2>1
  <2>2. CASE k # 1
    <3>1. k - 1 \in 1..n
      BY <2>2
    <3> QED BY <3>1, <2>2
  <2> QED BY <2>1, <2>2
<1> HIDE DEF before
<1>3. CASE k = n /\ held' = s[k] /\ onDisk' = s[k] /\ unsaved' = FALSE
           /\ UNCHANGED <<alive, saveErrors, deaths>>
  <2>1. alive' = TRUE /\ unsaved' = FALSE /\ saveErrors' = saveErrors /\ deaths' = deaths
    BY <1>3
  <2>2. held' = s[n] /\ onDisk' = s[n] /\ n \in 1..n
    BY <1>3
  <2>3. saveErrors' \in Nat /\ deaths' \in Nat /\ saveErrors' >= saveErrors /\ deaths' >= deaths
    BY <2>1
  <2>4. alive' \in BOOLEAN /\ unsaved' \in BOOLEAN
    BY <2>1
  <2>5. ~unsaved'
    BY <2>1
  <2> QED BY <2>2, <2>3, <2>4, <2>5
<1>4. CASE /\ saveErrors' = saveErrors + 1
           /\ held' = s[k] /\ onDisk' \in {before, TornFile} /\ unsaved' = TRUE
           /\ UNCHANGED <<alive, deaths>>
  BY <1>4, <1>2
<1>5. CASE /\ deaths' = deaths + 1
           /\ alive' = FALSE /\ onDisk' \in {before, TornFile}
           /\ UNCHANGED <<held, saveErrors, unsaved>>
  <2>1. alive' = FALSE /\ unsaved' = unsaved /\ saveErrors' = saveErrors /\ deaths' = deaths + 1
    BY <1>5
  <2>2. held' = held /\ (onDisk' \in {onDisk, TornFile} \/ \E j \in 1..n : onDisk' = s[j])
    BY <1>5, <1>2
  <2>3. /\ saveErrors' \in Nat /\ deaths' \in Nat /\ saveErrors' >= saveErrors /\ deaths' >= deaths
        /\ saveErrors' + deaths' > 0
    BY <2>1
  <2>4. alive' \in BOOLEAN /\ unsaved' \in BOOLEAN /\ ~alive'
    BY <2>1
  <2>5. unsaved' => unsaved
    BY <2>1
  <2> QED BY <2>2, <2>3, <2>4, <2>5
<1> QED BY <1>1, <1>3, <1>4, <1>5 DEF before

LEMMA SavingKeeps ==
  ASSUME DDStrong, alive = TRUE, NEW s, NEW n \in Nat \ {0}, Len(s) = n, SaveAll(s),
         undone' \in BOOLEAN, raced' \in BOOLEAN, undone => undone', raced => raced',
         \A k \in 1..n : /\ DataTyped(s[k])
                         /\ undone' \/ NoClash(s[k].profiles)
                         /\ Excused \/ raced' \/ undone' \/ MembersKnown(s[k].profiles),
         s[n].token => s[n].frp \/ Mishap
  PROVE  /\ HeldSound' /\ DiskSound' /\ FileFollows' /\ ProfilesFollow'
         /\ saveErrors' \in Nat /\ deaths' \in Nat /\ alive' \in BOOLEAN /\ unsaved' \in BOOLEAN
         /\ alive' /\ ~Excused' => held' = s[n] /\ onDisk' = s[n] /\ ~Excused
<1>1. /\ held' = held \/ \E k \in 1..n : held' = s[k]
      /\ onDisk' \in {onDisk, TornFile} \/ \E k \in 1..n : onDisk' = s[k]
      /\ saveErrors' \in Nat /\ deaths' \in Nat /\ alive' \in BOOLEAN /\ unsaved' \in BOOLEAN
      /\ saveErrors' >= saveErrors /\ deaths' >= deaths
      /\ \/ saveErrors' + deaths' > 0
         \/ held' = s[n] /\ onDisk' = s[n]
      /\ alive' => \/ saveErrors' > 0 /\ unsaved'
                   \/ held' = s[n] /\ onDisk' = s[n] /\ ~unsaved'
      /\ unsaved' => unsaved \/ saveErrors' > 0
  <2>1. saveErrors \in Nat /\ deaths \in Nat /\ unsaved \in BOOLEAN
    BY DEF DDStrong, DesksTyped
  <2> QED BY <2>1, SavedIs
<1>2. saveErrors \in Nat /\ deaths \in Nat
  BY DEF DDStrong, DesksTyped
<1>3. (undone => undone') /\ (Excused => Excused') /\ (Mishap => Mishap')
  <2>1. saveErrors > 0 => saveErrors' > 0
    BY <1>1, <1>2
  <2>. DEFINE a == saveErrors
              b == deaths
              c == saveErrors'
              d == deaths'
  <2>0. a \in Nat /\ b \in Nat /\ c \in Nat /\ d \in Nat /\ c >= a /\ d >= b
    BY <1>1, <1>2
  <2>2. Mishap => Mishap'
    <3> HIDE DEF a, b, c, d
    <3>1. a + b > 0 => c + d > 0
      BY <2>0
    <3> QED BY <3>1 DEF Mishap, a, b, c, d
  <2>3. Excused => Excused'
    BY <2>1, Zenon DEF Excused
  <2> QED BY <2>2, <2>3
<1>4. ASSUME NEW data, DataSound(data, undone, Excused, Mishap)
      PROVE  DataSound(data, undone', Excused', Mishap')
  BY <1>3, <1>4 DEF DataSound
<1>5. \A k \in 1..n : Mishap' \/ k = n => DataSound(s[k], undone', Excused', Mishap')
  <2> SUFFICES ASSUME NEW k \in 1..n, Mishap' \/ k = n
               PROVE  DataSound(s[k], undone', Excused', Mishap')
    OBVIOUS
  <2>1. s[k].token => s[k].frp \/ Mishap'
    <3>1. CASE k = n
      BY <3>1, <1>3
    <3> QED BY <3>1
  <2>2. Excused \/ raced' \/ undone' => Excused'
    BY <1>3 DEF Excused
  <2>3. Excused' \/ MembersKnown(s[k].profiles)
    BY <2>2
  <2>4. DataTyped(s[k]) /\ (undone' \/ NoClash(s[k].profiles))
    OBVIOUS
  <2> QED BY <2>1, <2>3, <2>4, Zenon DEF DataSound
<1>6. Mishap' \/ (held' = s[n] /\ onDisk' = s[n])
  BY <1>1 DEF Mishap
<1>7. n \in 1..n
  OBVIOUS
<1>8. HeldSound'
  BY <1>1, <1>4, <1>5, <1>6, <1>7 DEF HeldSound, DDStrong
<1>9. DiskSound'
  BY <1>1, <1>4, <1>5, <1>6, <1>7 DEF DiskSound, DDStrong
<1>10. FileFollows'
  BY <1>1 DEF FileFollows
<1>11. ProfilesFollow'
  <2>1. unsaved' => saveErrors' > 0
    BY <1>1, <1>2 DEF ProfilesFollow, DDStrong
  <2> QED BY <1>1, <2>1 DEF ProfilesFollow
<1>12. alive' /\ ~Excused' => held' = s[n] /\ onDisk' = s[n] /\ ~Excused
  BY <1>1, <1>2, <1>3 DEF Excused
<1> QED BY <1>1, <1>8, <1>9, <1>10, <1>11, <1>12

\* The contents that a save may leave.
Saveable(data) ==
  /\ DataTyped(data)
  /\ undone' \/ NoClash(data.profiles)
  /\ Excused \/ raced' \/ undone' \/ MembersKnown(data.profiles)
SavedWell(last) ==
  /\ HeldSound' /\ DiskSound' /\ FileFollows' /\ ProfilesFollow'
  /\ saveErrors' \in Nat /\ deaths' \in Nat /\ alive' \in BOOLEAN /\ unsaved' \in BOOLEAN
  /\ alive' /\ ~Excused' => held' = last /\ onDisk' = last /\ ~Excused

LEMMA SavingOne ==
  ASSUME DDStrong, alive = TRUE, NEW data, SaveAll(<<data>>),
         undone' \in BOOLEAN, raced' \in BOOLEAN, undone => undone', raced => raced',
         Saveable(data), data.token => data.frp \/ Mishap
  PROVE  SavedWell(data)
<1> DEFINE s == <<data>>
<1>1. Len(s) = 1 /\ 1 \in Nat \ {0} /\ s[1] = data /\ \A k \in 1..1 : s[k] = data
  OBVIOUS
<1>2. SaveAll(s)
  OBVIOUS
<1> HIDE DEF s
<1> QED BY <1>1, <1>2, SavingKeeps DEF Saveable, SavedWell

LEMMA SavingTwo ==
  ASSUME DDStrong, alive = TRUE, NEW first, NEW data, SaveAll(<<first, data>>),
         undone' \in BOOLEAN, raced' \in BOOLEAN, undone => undone', raced => raced',
         Saveable(first), Saveable(data), data.token => data.frp \/ Mishap
  PROVE  SavedWell(data)
<1> DEFINE s == <<first, data>>
<1>1. Len(s) = 2 /\ 2 \in Nat \ {0} /\ s[2] = data /\ \A k \in 1..2 : s[k] \in {first, data}
  OBVIOUS
<1>2. SaveAll(s)
  OBVIOUS
<1>3. \A k \in 1..2 : Saveable(s[k])
  BY <1>1
<1> HIDE DEF s
<1> QED BY <1>1, <1>2, <1>3, SavingKeeps DEF Saveable, SavedWell

\* A port that is given is one of those that are free.
LEMMA LeastFree ==
  ASSUME NEW idle \in SUBSET Nat, idle # {}
  PROVE  (CHOOSE n \in idle : \A o \in idle : n <= o) \in idle
  BY FirstPlace

LEMMA PortIsFree ==
  ASSUME NEW from \in 1..LastPort, NEW taken, FreePort(from, taken) # 0
  PROVE  FreePort(from, taken) \in (1..LastPort) \ taken
<1> DEFINE idle == (from..LastPort) \ taken
<1>1. LastPort \in Nat
  BY DesktopAssumption
<1>2. idle \in SUBSET Nat /\ idle \subseteq (1..LastPort) \ taken
  BY <1>1
<1>3. FreePort(from, taken) = IF idle = {} THEN 0 ELSE CHOOSE n \in idle : \A o \in idle : n <= o
  BY DEF FreePort
<1> HIDE DEF idle
<1> QED BY <1>2, <1>3, LeastFree

LEMMA EntryIs ==
  ASSUME NEW f, NEW w, NEW v
  PROVE  /\ DOMAIN WithEntry(f, w, v) = DOMAIN f \cup {w}
         /\ WithEntry(f, w, v)[w] = v
         /\ \A x \in DOMAIN f : x # w => WithEntry(f, w, v)[x] = f[x]
  BY DEF WithEntry

LEMMA ConflictIsMutual ==
  ASSUME NEW a, NEW b
  PROVE  Conflict(a, b) => Conflict(b, a)
  BY DEF Conflict

\* An entry without conflicts among its own claims and with those of the others.
LEMMA NoNewClash ==
  ASSUME NEW profiles, NEW w, NEW p, NoClash(profiles),
         \A a \in Claims(p) : \A b \in ClaimsOfOthers(profiles, w) \cup (Claims(p) \ {a}) :
           ~Conflict(a, b)
  PROVE  NoClash(WithEntry(profiles, w, p))
<1> DEFINE f == WithEntry(profiles, w, p)
<1>1. /\ DOMAIN f = DOMAIN profiles \cup {w} /\ f[w] = p
      /\ \A x \in DOMAIN profiles : x # w => f[x] = profiles[x]
  BY EntryIs
<1> HIDE DEF f
<1>2. SUFFICES ASSUME NEW u \in DOMAIN f, NEW v \in DOMAIN f, NEW a \in Claims(f[u]),
                      NEW b \in Claims(f[v]), <<u, a>> # <<v, b>>
               PROVE  ~Conflict(a, b)
  BY DEF NoClash, f
<1>3. \A x \in DOMAIN f : x # w => Claims(f[x]) \subseteq ClaimsOfOthers(profiles, w)
  BY <1>1 DEF ClaimsOfOthers
<1>4. CASE u # w /\ v # w
  BY <1>1, <1>2, <1>4 DEF NoClash
<1>5. CASE u = w /\ v # w
  BY <1>1, <1>3, <1>5
<1>6. CASE u # w /\ v = w
  BY <1>1, <1>3, <1>6, ConflictIsMutual
<1>7. CASE u = w /\ v = w
  BY <1>1, <1>2, <1>7
<1> QED BY <1>4, <1>5, <1>6, <1>7

\* The rule of an update looks at what changes only.
LEMMA UpdateClashesNot ==
  ASSUME NEW w \in DOMAIN Profiles, NEW next, NoClash(Profiles),
         ResourcesFree(w, Profiles[w], next)
  PROVE  NoClash(WithEntry(Profiles, w, next))
<1> DEFINE current == Profiles[w]
           others == ClaimsOfOthers(Profiles, w)
<1>1. \A a \in Claims(next) \ Claims(current) :
        \A b \in others \cup (Claims(next) \ {a}) : ~Conflict(a, b)
  BY DEF ResourcesFree
<1>2. \A a \in Claims(current) : \A b \in others \cup (Claims(current) \ {a}) : ~Conflict(a, b)
  <2> SUFFICES ASSUME NEW a \in Claims(current), NEW b \in others \cup (Claims(current) \ {a})
               PROVE  ~Conflict(a, b)
    OBVIOUS
  <2>1. CASE b \in others
    <3>1. PICK v \in DOMAIN Profiles \ {w} : b \in Claims(Profiles[v])
      BY <2>1 DEF ClaimsOfOthers
    <3> QED BY <3>1 DEF NoClash
  <2>2. CASE b \in Claims(current) \ {a}
    BY <2>2 DEF NoClash
  <2> QED BY <2>1, <2>2
<1>3. ASSUME NEW a \in Claims(next), NEW b \in others \cup (Claims(next) \ {a})
      PROVE  ~Conflict(a, b)
  <2>1. CASE a \notin Claims(current)
    BY <1>1, <2>1
  <2>2. CASE a \in Claims(current) /\ b \in others \cup Claims(current)
    BY <1>2, <2>2, <1>3
  <2>3. CASE b \notin others \cup Claims(current)
    <3>1. b \in Claims(next) \ Claims(current) /\ a \in Claims(next) \ {b}
      BY <1>3, <2>3
    <3> QED BY <1>1, <3>1, ConflictIsMutual
  <2> QED BY <2>1, <2>2, <2>3
<1> HIDE DEF current
<1> QED BY <1>3, NoNewClash

-----------------------------------------------------------------------------
(* What the steps have in common.                                          *)

LEMMA NothingSavedKeeps ==
  ASSUME DDStrong, NothingSaved, UNCHANGED <<undone, raced, aside>>
  PROVE  HeldSound' /\ DiskSound' /\ FileFollows' /\ ProfilesFollow'
  BY DEF DDStrong, NothingSaved, HeldSound, DiskSound, FileFollows, ProfilesFollow, Excused,
      Mishap

\* A command goes on to d, or stays, and the other starts' profiles stay saved.
LEMMA DesksGoOn ==
  ASSUME DDStrong, NEW c \in Deskers, NEW d,
         \/ desk' = desk
         \/ desk' = [desk EXCEPT ![c] = d] /\ DeskTyped(d),
         alive' /\ ~Excused' =>
           /\ alive /\ ~Excused
           /\ \A o \in Deskers : (o # c \/ desk' = desk) /\ desk[o].at = "serve" =>
                /\ desk[o].w \in DOMAIN Profiles'
                /\ Profiles'[desk[o].w] = Profiles[desk[o].w]
           /\ d.at = "serve" => d.w \in DOMAIN Profiles' /\ d.profile = Profiles'[d.w]
  PROVE  /\ desk' = [x \in Deskers |-> desk'[x]] /\ \A x \in Deskers : DeskTyped(desk'[x])
         /\ StartsTrue'
<1>1. desk = [x \in Deskers |-> desk[x]] /\ \A x \in Deskers : DeskTyped(desk[x])
  BY DEF DDStrong, DesksTyped
<1>2. StartsTrue
  BY DEF DDStrong
<1>3. CASE desk' = desk
  BY <1>1, <1>2, <1>3 DEF StartsTrue
<1>4. CASE desk' = [desk EXCEPT ![c] = d] /\ DeskTyped(d)
  <2>1. /\ desk' = [x \in Deskers |-> desk'[x]] /\ desk'[c] = d
        /\ \A x \in Deskers : x # c => desk'[x] = desk[x]
    BY <1>1, <1>4
  <2>2. StartsTrue'
    BY <1>2, <2>1 DEF StartsTrue
  <2> QED BY <1>1, <1>4, <2>1, <2>2
<1> QED BY <1>3, <1>4

\* Some services stop; what the others serve stays saved.
LEMMA ServicesGoOn ==
  ASSUME DDStrong, alive = TRUE,
         \A h \in Workspaces : served'[h] = served[h] \/ served'[h] = NotServed,
         alive' /\ ~Excused' =>
           /\ ~Excused
           /\ \A h \in Workspaces : Listening(h) /\ served'[h] = served[h]
                                   /\ served[h].profile.members # {} /\ EntryTrue(h) =>
                /\ h \in DOMAIN Profiles' /\ Sensitive(Profiles'[h]) = Sensitive(Profiles[h])
                /\ \A m \in served[h].profile.members :
                     Sensitive(Profiles'[m]) = Sensitive(Profiles[m])
  PROVE  ServedTrue'
<1> SUFFICES ASSUME alive', ~Excused', NEW h \in Workspaces, Listening(h)',
                    served'[h].profile.members # {}
             PROVE  EntryTrue(h)'
  BY DEF ServedTrue, EntryTrue
<1>1. served'[h] = served[h] /\ Listening(h) /\ served[h].profile.members # {}
  BY DEF Listening
<1>2. EntryTrue(h)
  BY DEF DDStrong, ServedTrue
<1> QED BY <1>1, <1>2 DEF EntryTrue

\* Profiles may come, and none changes.
LEMMA ProfilesGrow ==
  ASSUME DDStrong, UNCHANGED <<served, desk, aside, undone, raced>>, alive = TRUE,
         HeldSound', DiskSound', FileFollows', ProfilesFollow',
         saveErrors' \in Nat, deaths' \in Nat, alive' \in BOOLEAN, unsaved' \in BOOLEAN,
         alive' /\ ~Excused' =>
           /\ ~Excused
           /\ \A v \in DOMAIN Profiles : v \in DOMAIN Profiles' /\ Profiles'[v] = Profiles[v]
  PROVE  DDStrong'
<1>1. StartsTrue'
  BY DEF DDStrong, StartsTrue
<1>2. ServedTrue'
  <2> SUFFICES ASSUME alive', ~Excused', NEW h \in Workspaces, Listening(h)',
                      served'[h].profile.members # {}
               PROVE  EntryTrue(h)'
    BY DEF ServedTrue, EntryTrue
  <2>1. served' = served /\ Listening(h) /\ served[h].profile.members # {}
    BY DEF Listening
  <2>2. EntryTrue(h)
    BY DEF DDStrong, ServedTrue
  <2>3. h \in DOMAIN Profiles /\ Sensitive(served[h].profile) = Sensitive(Profiles[h])
    BY <2>1, <2>2 DEF EntryTrue
  <2>4. served[h].profile.members = Profiles[h].members
    BY <2>3 DEF Sensitive
  <2>5. Profiles[h].members \subseteq DOMAIN Profiles
    BY <2>3 DEF DDStrong, HeldSound, DataSound, MembersKnown, Profiles
  <2> QED BY <2>1, <2>2, <2>3, <2>4, <2>5 DEF EntryTrue
<1>3. DesksTyped'
  BY DEF DDStrong, DesksTyped
<1> QED BY <1>1, <1>2, <1>3 DEF DDStrong

-----------------------------------------------------------------------------
(* The steps of the commands.                                              *)

LEMMA CreateKeeps ==
  ASSUME DDStrong, NEW c \in Deskers, NEW w \in Workspaces, Create(c, w)
  PROVE  DDStrong'
<1> DEFINE taken == {a.port : a \in ClaimsOfOthers(Profiles, w)}
           port == FreePort(PortMcp, taken)
           aport == FreePort(PortActions, taken \cup {port})
           p == [port |-> port, aport |-> aport, domain |-> NoDomain, adomain |-> NoDomain,
                 members |-> {}, upstream |-> FALSE, grant |-> 0, auth |-> TRUE]
           one == WithSecret(held, w, "mcp")
           two == WithSecret(one, w, "actions")
           three == WithProfile(two, w, p)
           s == <<one, two, three>>
<1>1. /\ Begin(c) /\ w \notin DOMAIN Profiles \cup DOMAIN held.secrets
      /\ IF port = 0 \/ aport = 0 THEN NothingSaved ELSE SaveAll(s)
      /\ UNCHANGED <<served, desk, aside, undone, raced>>
  BY DEF Create, ghosts
<1>2. /\ p.port = port /\ p.members = {}
      /\ Claims(p) = {[service |-> "mcp", port |-> port, domain |-> NoDomain],
                      [service |-> "actions", port |-> aport, domain |-> NoDomain]}
  BY DEF Claims
<1>3. port # 0 /\ aport # 0 =>
        port \in (1..LastPort) \ taken /\ aport \in (1..LastPort) \ (taken \cup {port})
  BY PortIsFree, DesktopAssumption
<1>4. \A b \in ClaimsOfOthers(Profiles, w) : b.port \in taken
  OBVIOUS
<1>5. Len(s) = 3 /\ s[1] = one /\ s[2] = two /\ s[3] = three
  OBVIOUS
<1> HIDE DEF s, p, aport, port, taken
<1>6. w \notin DOMAIN Profiles /\ w \notin DOMAIN held.secrets
  BY <1>1
<1>7. alive = TRUE /\ undone \in BOOLEAN /\ raced \in BOOLEAN
  BY <1>1 DEF Begin, DDStrong, DesksTyped
<1>8. CASE NothingSaved
  <2>1. HeldSound' /\ DiskSound' /\ FileFollows' /\ ProfilesFollow'
    BY <1>1, <1>8, NothingSavedKeeps
  <2> QED BY <1>1, <1>8, <2>1
      DEF DDStrong, DesksTyped, StartsTrue, ServedTrue, EntryTrue, NothingSaved,
                                  Excused, Profiles, Listening
<1>9. CASE port # 0 /\ aport # 0 /\ SaveAll(s)
  <2>1. /\ port \in (1..LastPort) \ taken
        /\ aport \in (1..LastPort) \ (taken \cup {port})
    BY <1>9, <1>3
  <2>2. /\ DataTyped(held) /\ (undone \/ NoClash(held.profiles))
        /\ Excused \/ MembersKnown(held.profiles)
        /\ held.token => held.frp \/ Mishap
    BY DEF DDStrong, HeldSound, DataSound
  <2>0. "mcp" \in SecretKeys /\ "actions" \in SecretKeys /\ SecretKeys = {"mcp"} \cup {"actions"}
    BY DEF SecretKeys
  <2> HIDE DEF three, two
  <2>3. /\ DataTyped(one) /\ one.profiles = held.profiles /\ w \in DOMAIN one.secrets
        /\ one.secrets[w] = {"mcp"} /\ one.token = held.token /\ one.frp = held.frp
    <3> HIDE DEF one
    <3>1. /\ DataTyped(one) /\ one.profiles = held.profiles /\ w \in DOMAIN one.secrets
          /\ one.secrets[w] = (IF w \in DOMAIN held.secrets THEN held.secrets[w] ELSE {}) \cup {"mcp"}
          /\ one.token = held.token /\ one.frp = held.frp
      BY <2>0, <2>2, SecretKept DEF one
    <3> QED BY <3>1, <1>6
  <2> HIDE DEF one
  <2>4. /\ DataTyped(two) /\ two.profiles = held.profiles /\ w \in DOMAIN two.secrets
        /\ two.secrets[w] = SecretKeys /\ two.token = held.token /\ two.frp = held.frp
    <3>1. /\ DataTyped(two) /\ two.profiles = one.profiles /\ w \in DOMAIN two.secrets
          /\ two.secrets[w] = (IF w \in DOMAIN one.secrets THEN one.secrets[w] ELSE {}) \cup {"actions"}
          /\ two.token = one.token /\ two.frp = one.frp
      BY <2>0, <2>3, SecretKept DEF two
    <3> QED BY <3>1, <2>0, <2>3
  <2>5. /\ DataTyped(three) /\ three.profiles = WithEntry(Profiles, w, p)
        /\ three.token = held.token /\ three.frp = held.frp
    <3>1. p.port \in 1..LastPort
      BY <1>2, <2>1
    <3> QED BY <2>4, <3>1, ProfileKept DEF Profiles, three
  <2>6. undone \/ NoClash(three.profiles)
    <3>1. ASSUME NEW a \in Claims(p),
                 NEW b \in ClaimsOfOthers(Profiles, w) \cup (Claims(p) \ {a})
          PROVE  ~Conflict(a, b)
      <4>1. a.domain = NoDomain /\ a.port \in {port, aport}
        BY <1>2
      <4>2. a.port # b.port
        <5>1. CASE b \in ClaimsOfOthers(Profiles, w)
          BY <5>1, <1>4, <4>1, <2>1
        <5>2. CASE b \in Claims(p) \ {a}
          BY <5>2, <2>1, <1>2
        <5> QED BY <5>1, <5>2, <3>1
      <4> QED BY <4>1, <4>2 DEF Conflict
    <3> QED BY <2>2, <2>5, <3>1, NoNewClash DEF Profiles
  <2>7. Excused \/ MembersKnown(three.profiles)
    <3> DEFINE f == WithEntry(Profiles, w, p)
    <3>1. /\ DOMAIN f = DOMAIN Profiles \cup {w} /\ f[w] = p
          /\ \A x \in DOMAIN Profiles : x # w => f[x] = Profiles[x]
      BY DEF WithEntry
    <3> HIDE DEF f
    <3>2. MembersKnown(Profiles) => MembersKnown(f)
      BY <3>1, <1>2 DEF MembersKnown
    <3> QED BY <2>2, <2>5, <3>2 DEF Profiles, f
  <2>8. SaveAll(s) /\ undone' = undone /\ raced' = raced
    BY <1>1, <1>9
  <2>9. \A k \in 1..3 : /\ DataTyped(s[k])
                        /\ undone' \/ NoClash(s[k].profiles)
                        /\ Excused \/ raced' \/ undone' \/ MembersKnown(s[k].profiles)
    BY <1>5, <2>2, <2>3, <2>4, <2>5, <2>6, <2>7, <2>8
  <2>10. s[3].token => s[3].frp \/ Mishap
    BY <1>5, <2>2, <2>5
  <2>11. /\ HeldSound' /\ DiskSound' /\ FileFollows' /\ ProfilesFollow'
         /\ saveErrors' \in Nat /\ deaths' \in Nat /\ alive' \in BOOLEAN /\ unsaved' \in BOOLEAN
         /\ alive' /\ ~Excused' => held' = three /\ ~Excused
    <3>1. /\ Len(s) = 3 /\ 3 \in Nat \ {0} /\ SaveAll(s) /\ s[3] = three
          /\ undone' \in BOOLEAN /\ raced' \in BOOLEAN
          /\ (undone => undone') /\ (raced => raced')
      BY <1>5, <1>7, <2>8
    <3> QED BY <1>7, <2>9, <2>10, <3>1, SavingKeeps
  <2>12. alive' /\ ~Excused' =>
           /\ ~Excused
           /\ \A v \in DOMAIN Profiles : v \in DOMAIN Profiles' /\ Profiles'[v] = Profiles[v]
    <3>1. \A v \in DOMAIN Profiles : /\ v \in DOMAIN three.profiles
                                     /\ three.profiles[v] = Profiles[v]
      BY <1>6, <2>5 DEF WithEntry
    <3> QED BY <2>11, <3>1 DEF Profiles
  <2> QED BY <1>1, <1>7, <2>11, <2>12, ProfilesGrow
<1> QED BY <1>1, <1>8, <1>9

LEMMA FormTyped ==
  ASSUME NEW p, p.port \in 1..LastPort, NEW e \in Forms
  PROVE  FilledIn(p, e).port \in 1..LastPort
  BY DesktopAssumption DEF FilledIn, Given

\* Steps that change what is held, and at most where a command stands.
LEMMA DeskMoves ==
  ASSUME DDStrong, NEW c \in Deskers, NEW d, DeskTyped(d),
         desk' = [desk EXCEPT ![c] = d],
         alive' /\ ~Excused' => (d.at = "serve" => d.w \in DOMAIN Profiles /\ d.profile = Profiles[d.w]),
         NothingSaved, UNCHANGED <<aside, undone, raced>>,
         served' = served \/ \E w : served' = [served EXCEPT ![w] = NotServed]
  PROVE  DDStrong'
<1>1. HeldSound' /\ DiskSound' /\ FileFollows' /\ ProfilesFollow'
  BY NothingSavedKeeps
<1>2. /\ Profiles' = Profiles /\ alive' = alive /\ (Excused' <=> Excused) /\ alive \in BOOLEAN
      /\ UNCHANGED <<alive, unsaved, raced, undone, aside, saveErrors, deaths>>
  BY DEF NothingSaved, Profiles, Excused, DDStrong, DesksTyped
<1>3. /\ desk' = [x \in Deskers |-> desk'[x]] /\ \A x \in Deskers : DeskTyped(desk'[x])
      /\ StartsTrue'
  <2>1. alive' /\ ~Excused' =>
           /\ alive /\ ~Excused
           /\ \A o \in Deskers : (o # c \/ desk' = desk) /\ desk[o].at = "serve" =>
                /\ desk[o].w \in DOMAIN Profiles'
                /\ Profiles'[desk[o].w] = Profiles[desk[o].w]
           /\ d.at = "serve" => d.w \in DOMAIN Profiles' /\ d.profile = Profiles'[d.w]
    BY <1>2 DEF DDStrong, StartsTrue
  <2> QED BY <2>1, DesksGoOn
<1>4. /\ served' = [w \in Workspaces |-> served'[w]]
      /\ \A h \in Workspaces : served'[h] = served[h] \/ served'[h] = NotServed
  BY DEF DDStrong, DesksTyped
<1>5. ServedTrue'
  BY <1>2, <1>4 DEF DDStrong, ServedTrue, EntryTrue, Listening
<1>6. DesksTyped'
  BY <1>2, <1>3, <1>4 DEF DDStrong, DesksTyped
<1> QED BY <1>1, <1>3, <1>5, <1>6 DEF DDStrong

LEMMA IdleTyped == DeskTyped(DeskIdle) /\ DeskIdle.at = "idle"
  BY DEF DeskTyped, DeskIdle

LEMMA UpdateBegins ==
  ASSUME DDStrong, NEW c \in Deskers, NEW w \in Workspaces, NEW e \in Forms, BeginUpdate(c, w, e)
  PROVE  DDStrong'
<1> DEFINE d == [at |-> "store", w |-> w, next |-> FilledIn(Profiles[w], e),
                 ran |-> {h \in DOMAIN Profiles : Listening(h)}]
<1>1. desk' = [desk EXCEPT ![c] = d] /\ NothingSaved /\ UNCHANGED <<served, aside, undone, raced>>
  BY DEF BeginUpdate, StayAt, ghosts
<1>2. d.at = "store" /\ d.w = w /\ d.next.port \in 1..LastPort
  <2>1. Profiles[w].port \in 1..LastPort
    BY DEF BeginUpdate, DDStrong, HeldSound, DataSound, DataTyped, PortsTyped, Profiles
  <2> QED BY <2>1, FormTyped
<1> HIDE DEF d
<1>3. DeskTyped(d)
  BY <1>2 DEF DeskTyped
<1> QED BY <1>1, <1>2, <1>3, DeskMoves

LEMMA StopForUpdateKeeps ==
  ASSUME DDStrong, NEW c \in Deskers, StopForUpdate(c)
  PROVE  DDStrong'
<1>1. desk[c].at = "running" /\ Running(desk[c])
  BY DEF StopForUpdate, StillAt, DDStrong, DesksTyped, DeskTyped
<1>2. DeskTyped([desk[c] EXCEPT !.at = "again"]) /\ [desk[c] EXCEPT !.at = "again"].at = "again"
  <2> DEFINE d == desk[c]
             e == [at |-> "again", w |-> d.w, current |-> d.current]
  <2>1. [d EXCEPT !.at = "again"] = e
    BY <1>1 DEF Running
  <2>2. e.at = "again" /\ e.w = d.w /\ e.current = d.current /\ e = [at |-> e.at, w |-> e.w, current |-> e.current]
    OBVIOUS
  <2> HIDE DEF e
  <2>3. DeskTyped(e)
    BY <1>1, <2>2 DEF DeskTyped, Running
  <2> QED BY <2>1, <2>2, <2>3
<1>3. /\ NothingSaved /\ UNCHANGED <<aside, undone, raced>>
      /\ \/ desk' = [desk EXCEPT ![c] = [desk[c] EXCEPT !.at = "again"]]
            /\ \E w : served' = [served EXCEPT ![w] = NotServed]
         \/ desk' = [desk EXCEPT ![c] = DeskIdle] /\ served' = served
  BY DEF StopForUpdate, StayAt, Done, ghosts
<1> QED BY <1>2, <1>3, IdleTyped, DeskMoves

LEMMA StartBegins ==
  ASSUME DDStrong, NEW c \in Deskers, NEW w \in Workspaces, NEW why,
         why.at = "again" => Running(why), BeginStart(c, w, why)
  PROVE  DDStrong'
<1>1. NothingSaved /\ UNCHANGED <<served, aside, undone, raced>>
  BY DEF BeginStart, ghosts
<1>2. CASE /\ w \in DOMAIN Profiles
           /\ desk' = [desk EXCEPT ![c] = [at |-> "serve", w |-> w, profile |-> Profiles[w], why |-> why]]
  <2> DEFINE d == [at |-> "serve", w |-> w, profile |-> Profiles[w], why |-> why]
  <2>1. d.at = "serve" /\ d.w = w /\ d.profile = Profiles[w] /\ d.why = why
    OBVIOUS
  <2> HIDE DEF d
  <2>2. DeskTyped(d)
    BY <2>1 DEF DeskTyped
  <2> QED BY <1>1, <1>2, <2>1, <2>2, DeskMoves DEF d
<1>3. CASE why.at = "again" /\ desk' = [desk EXCEPT ![c] = [why EXCEPT !.at = "back"]]
  <2> DEFINE e == [at |-> "back", w |-> why.w, current |-> why.current]
  <2>1. [why EXCEPT !.at = "back"] = e
    BY <1>3 DEF Running
  <2>2. e.at = "back" /\ e.w = why.w /\ e.current = why.current /\ e = [at |-> e.at, w |-> e.w, current |-> e.current]
    OBVIOUS
  <2> HIDE DEF e
  <2>3. DeskTyped(e)
    BY <1>3, <2>2 DEF DeskTyped, Running
  <2> QED BY <1>1, <1>3, <2>1, <2>2, <2>3, DeskMoves
<1>4. CASE desk' = [desk EXCEPT ![c] = DeskIdle]
  BY <1>1, <1>4, IdleTyped, DeskMoves
<1> QED BY <1>2, <1>3, <1>4 DEF BeginStart, StayAt, Done

LEMMA StartsBegin ==
  ASSUME DDStrong, NEW c \in Deskers,
         \/ \E w \in Workspaces : StartWorkspace(c, w)
         \/ StartAgain(c) \/ StartOnceMore(c)
  PROVE  DDStrong'
<1>1. DeskTyped(desk[c])
  BY DEF DDStrong, DesksTyped
<1>2. CASE \E w \in Workspaces : StartWorkspace(c, w)
  BY <1>2, StartBegins, IdleTyped DEF StartWorkspace
<1>3. CASE StartAgain(c)
  <2>1. Running(desk[c]) /\ desk[c].w \in Workspaces
    BY <1>1, <1>3 DEF StartAgain, StillAt, DeskTyped, Running
  <2> QED BY <1>3, <2>1, StartBegins DEF StartAgain
<1>4. CASE StartOnceMore(c)
  <2>1. desk[c].at # "again" /\ desk[c].w \in Workspaces
    BY <1>1, <1>4 DEF StartOnceMore, StillAt, DeskTyped
  <2> QED BY <1>4, <2>1, StartBegins DEF StartOnceMore
<1> QED BY <1>2, <1>3, <1>4

LEMMA StopWorkspaceKeeps ==
  ASSUME DDStrong, NEW c \in Deskers, NEW w \in Workspaces, StopWorkspace(c, w)
  PROVE  DDStrong'
<1>1. desk' = [desk EXCEPT ![c] = desk[c]] /\ DeskTyped(desk[c])
  BY DEF StopWorkspace, DDStrong, DesksTyped
<1>2. alive' /\ ~Excused' =>
        (desk[c].at = "serve" =>
           desk[c].w \in DOMAIN Profiles /\ desk[c].profile = Profiles[desk[c].w])
  BY DEF StopWorkspace, DDStrong, StartsTrue, NothingSaved, Excused, ghosts, Begin
<1> QED BY <1>1, <1>2, DeskMoves DEF StopWorkspace, ghosts

LEMMA DeleteAndSecretBegin ==
  ASSUME DDStrong, NEW c \in Deskers, NEW w \in Workspaces, NEW key \in SecretKeys,
         BeginDelete(c, w) \/ BeginSecret(c, w, key)
  PROVE  DDStrong'
<1>1. CASE BeginDelete(c, w)
  <2> DEFINE d == [at |-> "stop", w |-> w]
  <2>1. DeskTyped(d) /\ d.at = "stop"
    BY DEF DeskTyped
  <2> QED BY <1>1, <2>1, DeskMoves DEF BeginDelete, StayAt, ghosts
<1>2. CASE BeginSecret(c, w, key)
  <2> DEFINE d == [at |-> "secret", w |-> w, key |-> key]
  <2>1. DeskTyped(d) /\ d.at = "secret"
    BY DEF DeskTyped
  <2> QED BY <1>2, <2>1, DeskMoves DEF BeginSecret, StayAt, ghosts
<1> QED BY <1>1, <1>2

LEMMA StopForDeleteKeeps ==
  ASSUME DDStrong, NEW c \in Deskers, StopForDelete(c)
  PROVE  DDStrong'
<1>1. desk[c] = [at |-> "stop", w |-> desk[c].w]
  BY DEF StopForDelete, StillAt, DDStrong, DesksTyped, DeskTyped
<1> DEFINE d == [at |-> "remove", w |-> desk[c].w]
<1>2. [desk[c] EXCEPT !.at = "remove"] = d
  BY <1>1
<1>3. DeskTyped(d) /\ d.at = "remove"
  BY DEF DeskTyped
<1>4. /\ desk' = [desk EXCEPT ![c] = d]
      /\ NothingSaved /\ UNCHANGED <<aside, undone, raced>>
      /\ \E v : served' = [served EXCEPT ![v] = NotServed]
  BY <1>2 DEF StopForDelete, StayAt, ghosts
<1> HIDE DEF d
<1> QED BY <1>3, <1>4, DeskMoves

\* A start whose profile is saved serves what is saved.
LEMMA ServeKeeps ==
  ASSUME DDStrong, NEW c \in Deskers, ServeProfile(c)
  PROVE  DDStrong'
<1> DEFINE d == desk[c]
           new == [profile |-> d.profile,
                   members |-> [m \in d.profile.members |-> onDisk.profiles[m]]]
<1>1. /\ alive /\ d.at = "serve" /\ NothingSaved /\ UNCHANGED <<aside, undone, raced>>
      /\ d.w \in Workspaces /\ (d.why.at = "again" => Running(d.why))
  BY DEF ServeProfile, StillAt, ghosts, DDStrong, DesksTyped, DeskTyped
<1>2. CASE served' = [served EXCEPT ![d.w] = new] /\ Done(c)
  <2>1. HeldSound' /\ DiskSound' /\ FileFollows' /\ ProfilesFollow'
    BY <1>1, NothingSavedKeeps
  <2>2. /\ Profiles' = Profiles /\ alive' = alive /\ (Excused' <=> Excused) /\ alive \in BOOLEAN
        /\ UNCHANGED <<alive, unsaved, raced, undone, aside, saveErrors, deaths>>
    BY <1>1 DEF NothingSaved, Profiles, Excused, DDStrong, DesksTyped
  <2>3. desk' = [desk EXCEPT ![c] = DeskIdle]
    BY <1>2 DEF Done
  <2>4. /\ desk' = [x \in Deskers |-> desk'[x]] /\ \A x \in Deskers : DeskTyped(desk'[x])
        /\ StartsTrue'
    <3>1. alive' /\ ~Excused' =>
           /\ alive /\ ~Excused
           /\ \A o \in Deskers : (o # c \/ desk' = desk) /\ desk[o].at = "serve" =>
                /\ desk[o].w \in DOMAIN Profiles'
                /\ Profiles'[desk[o].w] = Profiles[desk[o].w]
           /\ DeskIdle.at = "serve" =>
                DeskIdle.w \in DOMAIN Profiles' /\ DeskIdle.profile = Profiles'[DeskIdle.w]
      BY <2>2, IdleTyped DEF DDStrong, StartsTrue
    <3> QED BY <2>3, <3>1, IdleTyped, DesksGoOn
  <2>5. /\ served' = [w \in Workspaces |-> served'[w]] /\ served'[d.w] = new
        /\ \A h \in Workspaces : h # d.w => served'[h] = served[h]
    BY <1>1, <1>2 DEF DDStrong, DesksTyped
  <2>6. ServedTrue'
    <3> SUFFICES ASSUME alive, ~Excused, NEW h \in Workspaces
                 PROVE  EntryTrue(h)'
      BY <2>2 DEF ServedTrue
    <3>1. CASE h # d.w
      BY <2>2, <2>5, <3>1 DEF EntryTrue, Listening, DDStrong, ServedTrue
    <3>2. CASE h = d.w
      <4>1. h \in DOMAIN Profiles /\ d.profile = Profiles[h]
        BY <1>1, <3>2 DEF DDStrong, StartsTrue
      <4>2. onDisk.profiles = Profiles
        BY DEF DDStrong, ProfilesFollow, Excused, Profiles
      <4>3. new.profile = d.profile /\ \A m \in d.profile.members : new.members[m] = onDisk.profiles[m]
        OBVIOUS
      <4> HIDE DEF new
      <4> QED BY <2>2, <2>5, <3>2, <4>1, <4>2, <4>3 DEF EntryTrue
    <3> QED BY <3>1, <3>2
  <2>7. DesksTyped'
    BY <2>2, <2>4, <2>5 DEF DDStrong, DesksTyped
  <2> QED BY <2>1, <2>4, <2>6, <2>7 DEF DDStrong
<1>3. CASE UNCHANGED served /\ Done(c)
  BY <1>1, <1>3, IdleTyped, DeskMoves DEF Done
<1>4. CASE UNCHANGED served /\ d.why.at = "again" /\ StayAt(c, [d.why EXCEPT !.at = "back"])
  <2> DEFINE e == [at |-> "back", w |-> d.why.w, current |-> d.why.current]
  <2>1. [d.why EXCEPT !.at = "back"] = e
    BY <1>1, <1>4 DEF Running
  <2>2. /\ e.at = "back" /\ e.w = d.why.w /\ e.current = d.why.current
        /\ e = [at |-> e.at, w |-> e.w, current |-> e.current]
    OBVIOUS
  <2> HIDE DEF e
  <2>3. DeskTyped(e)
    BY <1>1, <1>4, <2>2 DEF DeskTyped, Running
  <2> QED BY <1>1, <1>4, <2>1, <2>2, <2>3, DeskMoves DEF StayAt
<1> QED BY <1>2, <1>3, <1>4 DEF ServeProfile

\* A save that changes no profile, of a command that is at its end or has no steps.
LEMMA ProfilesStay ==
  ASSUME DDStrong, NEW c \in Deskers, alive = TRUE, NEW data, SavedWell(data),
         data.profiles = Profiles, UNCHANGED <<served, aside, undone, raced>>,
         desk' = desk \/ desk' = [desk EXCEPT ![c] = DeskIdle]
  PROVE  DDStrong'
<1>1. alive' /\ ~Excused' => /\ ~Excused /\ Profiles' = Profiles
  BY DEF SavedWell, Profiles
<1>2. /\ desk' = [x \in Deskers |-> desk'[x]] /\ \A x \in Deskers : DeskTyped(desk'[x])
      /\ StartsTrue'
  <2>1. alive' /\ ~Excused' =>
         /\ alive /\ ~Excused
         /\ \A o \in Deskers : (o # c \/ desk' = desk) /\ desk[o].at = "serve" =>
              /\ desk[o].w \in DOMAIN Profiles'
              /\ Profiles'[desk[o].w] = Profiles[desk[o].w]
         /\ DeskIdle.at = "serve" =>
              DeskIdle.w \in DOMAIN Profiles' /\ DeskIdle.profile = Profiles'[DeskIdle.w]
    BY <1>1, IdleTyped DEF DDStrong, StartsTrue
  <2> QED BY <2>1, IdleTyped, DesksGoOn
<1>3. ServedTrue'
  BY <1>1 DEF DDStrong, ServedTrue, EntryTrue, Listening
<1>4. DesksTyped'
  BY <1>2 DEF DDStrong, DesksTyped, SavedWell
<1> QED BY <1>2, <1>3, <1>4 DEF DDStrong, SavedWell

LEMMA HeldSaveable ==
  ASSUME DDStrong, undone => undone', NEW data, DataTyped(data), data.profiles = Profiles
  PROVE  Saveable(data)
  BY DEF DDStrong, HeldSound, DataSound, Saveable, Profiles

LEMMA StoreSecretKeeps ==
  ASSUME DDStrong, NEW c \in Deskers, StoreSecret(c)
  PROVE  DDStrong'
<1> DEFINE data == WithSecret(held, desk[c].w, desk[c].key)
<1>1. /\ alive = TRUE /\ SaveAll(<<data>>) /\ desk' = [desk EXCEPT ![c] = DeskIdle]
      /\ UNCHANGED <<served, aside, undone, raced>> /\ desk[c].key \in SecretKeys
      /\ undone' \in BOOLEAN /\ raced' \in BOOLEAN /\ (undone => undone') /\ (raced => raced')
  BY DEF StoreSecret, StillAt, Done, ghosts, DDStrong, DesksTyped, DeskTyped
<1>2. DataTyped(held) /\ (held.token => held.frp \/ Mishap)
  BY DEF DDStrong, HeldSound, DataSound
<1>3. /\ DataTyped(data) /\ data.profiles = Profiles
      /\ data.frp = held.frp /\ data.token = held.token
  BY <1>1, <1>2, SecretKept DEF Profiles
<1> HIDE DEF data
<1>4. Saveable(data)
  BY <1>1, <1>3, HeldSaveable
<1>5. SavedWell(data)
  BY <1>1, <1>2, <1>3, <1>4, SavingOne
<1> QED BY <1>1, <1>3, <1>5, ProfilesStay

LEMMA FrpKeeps ==
  ASSUME DDStrong, NEW c \in Deskers, SaveFrp(c) \/ DeleteFrp(c)
  PROVE  DDStrong'
<1>1. PICK on \in BOOLEAN :
        /\ SaveAll(<<Data(Profiles, held.secrets, on, held.token), Data(Profiles, held.secrets, on, on)>>)
        /\ alive /\ UNCHANGED <<served, desk, aside, undone, raced>>
  BY DEF SaveFrp, DeleteFrp, Begin, ghosts
<1> DEFINE first == Data(Profiles, held.secrets, on, held.token)
           data == Data(Profiles, held.secrets, on, on)
<1>2. \A t \in {held.token, on} : DataTyped(Data(Profiles, held.secrets, on, t))
  BY DEF DDStrong, HeldSound, DataSound, DataTyped, Data, Profiles
<1>3. first.profiles = Profiles /\ data.profiles = Profiles /\ data.token = on /\ data.frp = on
  BY DEF Data
<1>4. DataTyped(first) /\ DataTyped(data) /\ SaveAll(<<first, data>>)
  BY <1>1, <1>2
<1> HIDE DEF first, data
<1>5. /\ alive = TRUE /\ undone' \in BOOLEAN /\ raced' \in BOOLEAN
      /\ (undone => undone') /\ (raced => raced')
  BY <1>1 DEF DDStrong, DesksTyped
<1>6. Saveable(first) /\ Saveable(data)
  BY <1>3, <1>4, <1>5, HeldSaveable
<1>7. SavedWell(data)
  BY <1>3, <1>4, <1>5, <1>6, SavingTwo
<1> QED BY <1>1, <1>3, <1>5, <1>7, ProfilesStay

LEMMA TakeBackKeeps ==
  ASSUME DDStrong, NEW c \in Deskers, TakeBack(c)
  PROVE  DDStrong'
<1> DEFINE d == desk[c]
           data == WithProfile(held, d.w, d.current)
           more == [at |-> "once more", w |-> d.w]
<1>1. /\ alive = TRUE /\ d.w \in Workspaces /\ d.current.port \in 1..LastPort
      /\ UNCHANGED <<served, aside, raced>>
      /\ undone \in BOOLEAN /\ raced \in BOOLEAN
  BY DEF TakeBack, StillAt, DDStrong, DesksTyped, DeskTyped, Running
<1>2. CASE NothingSaved /\ Done(c) /\ UNCHANGED undone
  BY <1>1, <1>2, IdleTyped, DeskMoves DEF Done
<1>3. CASE d.w \in DOMAIN Profiles /\ SaveAll(<<data>>) /\ undone' = TRUE
  <2>1. DataTyped(held) /\ (held.token => held.frp \/ Mishap)
    BY DEF DDStrong, HeldSound, DataSound
  <2>2. /\ DataTyped(data) /\ data.frp = held.frp /\ data.token = held.token
    <3>1. d.w \in NoSecrets \/ (d.w \in DOMAIN held.secrets /\ held.secrets[d.w] = SecretKeys)
      BY <1>3, <2>1 DEF DataTyped, Profiles
    <3> QED BY <1>1, <2>1, <3>1, ProfileKept
  <2> HIDE DEF data
  <2>3. SavedWell(data)
    <3>1. Saveable(data)
      BY <1>3, <2>2 DEF Saveable
    <3>2. undone' \in BOOLEAN /\ raced' \in BOOLEAN /\ (undone => undone') /\ (raced => raced')
      BY <1>1, <1>3
    <3> QED BY <1>1, <1>3, <2>1, <2>2, <3>1, <3>2, SavingOne
  <2>4. Excused'
    BY <1>3 DEF Excused
  <2>5. DeskTyped(more)
    BY <1>1 DEF DeskTyped
  <2>6. desk' = [desk EXCEPT ![c] = more] \/ desk' = [desk EXCEPT ![c] = DeskIdle]
    BY <1>3 DEF TakeBack, StayAt, Done
  <2>7. desk' = [x \in Deskers |-> desk'[x]] /\ \A x \in Deskers : DeskTyped(desk'[x])
    BY <2>4, <2>5, <2>6, IdleTyped, DesksGoOn
  <2>8. DesksTyped'
    BY <1>1, <1>3, <2>3, <2>7 DEF DDStrong, DesksTyped, SavedWell
  <2> QED BY <2>3, <2>4, <2>8 DEF DDStrong, SavedWell, StartsTrue, ServedTrue
<1> QED BY <1>2, <1>3 DEF TakeBack

\* What an update is checked for, at the moment it is stored.
LEMMA StoreUpdateKeeps ==
  ASSUME DDStrong, NEW c \in Deskers, StoreUpdate(c)
  PROVE  DDStrong'
<1> DEFINE d == desk[c]
           w == d.w
           current == Profiles[w]
           data == WithProfile(held, w, d.next)
           f == WithEntry(Profiles, w, d.next)
           up == [at |-> "running", w |-> w, current |-> current]
<1>1. /\ alive = TRUE /\ w \in Workspaces /\ d.next.port \in 1..LastPort
      /\ UNCHANGED <<served, aside, undone>>
      /\ undone \in BOOLEAN /\ raced \in BOOLEAN
  BY DEF StoreUpdate, StillAt, DDStrong, DesksTyped, DeskTyped
<1>2. CASE NothingSaved /\ Done(c) /\ UNCHANGED raced
  BY <1>1, <1>2, IdleTyped, DeskMoves DEF Done
<1>3. CASE /\ w \in DOMAIN Profiles /\ ResourcesFree(w, current, d.next)
           /\ GatewayAllows(w, current, d.next, d.ran)
           /\ SaveAll(<<data>>)
           /\ raced' = (raced \/ d.ran # {h \in DOMAIN Profiles : Listening(h)}
                            \/ \E o \in Deskers \ {c} :
                                 desk[o].at \in {"serve", "stop", "remove", "again"})
           /\ desk' = [desk EXCEPT ![c] = up] \/ Done(c)
  <2>1. /\ DataTyped(held) /\ (held.token => held.frp \/ Mishap)
        /\ (undone \/ NoClash(Profiles)) /\ (Excused \/ MembersKnown(Profiles))
    BY DEF DDStrong, HeldSound, DataSound, Profiles
  <2>2. DataTyped(data) /\ data.frp = held.frp /\ data.token = held.token /\ data.profiles = f
    <3>1. d.w \in NoSecrets \/ (d.w \in DOMAIN held.secrets /\ held.secrets[d.w] = SecretKeys)
      BY <1>3, <2>1 DEF DataTyped, Profiles
    <3> QED BY <1>1, <2>1, <3>1, ProfileKept DEF Profiles
  <2>3. /\ DOMAIN f = DOMAIN Profiles /\ f[w] = d.next
        /\ \A x \in DOMAIN Profiles : x # w => f[x] = Profiles[x]
    BY <1>3 DEF WithEntry
  <2>4. undone \/ NoClash(f)
    BY <1>3, <2>1, UpdateClashesNot
  <2>5. /\ Sensitive(current) # Sensitive(d.next) =>
             \A h \in d.ran \cap DOMAIN Profiles :
               /\ w \notin Profiles[h].members
               /\ h = w => current.members = {} /\ d.next.members = {}
        /\ d.next.members \subseteq DOMAIN Profiles
    <3> DEFINE updated == [Profiles EXCEPT ![w] = d.next]
    <3>1. DOMAIN updated = DOMAIN Profiles /\ updated[w] = d.next
      BY <1>3
    <3>2. ValidMembers(updated, w)
      BY <1>3, <3>1 DEF GatewayAllows
    <3> HIDE DEF updated
    <3>3. d.next.members \subseteq DOMAIN Profiles
      BY <3>1, <3>2 DEF ValidMembers
    <3> QED BY <1>3, <3>3 DEF GatewayAllows
  <2> HIDE DEF data, f
  <2>6. Excused \/ MembersKnown(f)
    BY <2>1, <2>3, <2>5 DEF MembersKnown
  <2>7. SavedWell(data)
    <3>1. Saveable(data)
      BY <1>1, <2>2, <2>4, <2>6 DEF Saveable
    <3>2. undone' \in BOOLEAN /\ raced' \in BOOLEAN /\ (undone => undone') /\ (raced => raced')
      BY <1>1, <1>3
    <3> QED BY <1>1, <1>3, <2>1, <2>2, <3>1, <3>2, SavingOne
  <2>8. alive' /\ ~Excused' =>
          /\ ~Excused /\ Profiles' = f /\ d.ran = {h \in DOMAIN Profiles : Listening(h)}
          /\ \A o \in Deskers \ {c} : desk[o].at # "serve"
    BY <1>3, <2>2, <2>7 DEF SavedWell, Profiles, Excused
  <2>9. DeskTyped(up) /\ up.at = "running"
    <3>1. current.port \in 1..LastPort
      BY <1>3, <2>1 DEF DataTyped, PortsTyped, Profiles
    <3>2. up.at = "running" /\ up.w = w /\ up.current = current /\ up = [at |-> up.at, w |-> up.w, current |-> up.current]
      OBVIOUS
    <3> HIDE DEF up
    <3> QED BY <1>1, <3>1, <3>2 DEF DeskTyped, Running
  <2>10. PICK e : desk' = [desk EXCEPT ![c] = e] /\ DeskTyped(e) /\ e.at # "serve"
    BY <1>3, <2>9, IdleTyped DEF Done
  <2>11. /\ desk' = [x \in Deskers |-> desk'[x]] /\ \A x \in Deskers : DeskTyped(desk'[x])
         /\ StartsTrue'
    <3>1. desk' = desk => desk[c].at # "serve"
      BY DEF StoreUpdate, StillAt
    <3>2. alive' /\ ~Excused' =>
           /\ alive /\ ~Excused
           /\ \A o \in Deskers : (o # c \/ desk' = desk) /\ desk[o].at = "serve" =>
                /\ desk[o].w \in DOMAIN Profiles'
                /\ Profiles'[desk[o].w] = Profiles[desk[o].w]
           /\ e.at = "serve" => e.w \in DOMAIN Profiles' /\ e.profile = Profiles'[e.w]
      BY <1>1, <2>8, <2>10, <3>1
    <3> QED BY <2>10, <3>2, DesksGoOn
  <2>12. ServedTrue'
    <3>1. alive' /\ ~Excused' => ~Excused
      BY <2>8
    <3>2. ASSUME alive', ~Excused', NEW h \in Workspaces, Listening(h),
                 served[h].profile.members # {}, EntryTrue(h)
          PROVE  /\ h \in DOMAIN Profiles' /\ Sensitive(Profiles'[h]) = Sensitive(Profiles[h])
                 /\ \A m \in served[h].profile.members :
                      Sensitive(Profiles'[m]) = Sensitive(Profiles[m])
      <4>1. h \in DOMAIN Profiles /\ Sensitive(served[h].profile) = Sensitive(Profiles[h])
        BY <3>2 DEF EntryTrue
      <4>2. served[h].profile.members = Profiles[h].members
        BY <4>1 DEF Sensitive
      <4>3. h \in d.ran /\ Profiles' = f
        BY <2>8, <3>2, <4>1
      <4>4. h = w \/ w \in Profiles[h].members => Sensitive(current) = Sensitive(d.next)
        BY <2>5, <3>2, <4>1, <4>2, <4>3
      <4>5. Profiles[h].members \subseteq DOMAIN Profiles
        BY <2>1, <2>8, <3>2, <4>1 DEF MembersKnown
      <4>6. ASSUME NEW x \in DOMAIN Profiles, x = h \/ x \in Profiles[h].members
            PROVE  Sensitive(f[x]) = Sensitive(Profiles[x])
        <5>1. CASE x = w
          BY <2>3, <4>4, <4>6, <5>1
        <5>2. CASE x # w
          BY <2>3, <5>2
        <5> QED BY <5>1, <5>2
      <4> QED BY <2>3, <4>1, <4>2, <4>3, <4>5, <4>6
    <3> QED BY <1>1, <3>1, <3>2, ServicesGoOn
  <2>13. DesksTyped'
    BY <1>1, <1>3, <2>7, <2>11 DEF DDStrong, DesksTyped, SavedWell
  <2> QED BY <2>7, <2>11, <2>12, <2>13 DEF DDStrong, SavedWell
<1> QED BY <1>2, <1>3 DEF StoreUpdate, StayAt

LEMMA RemoveKeeps ==
  ASSUME DDStrong, NEW c \in Deskers, RemoveWorkspace(c)
  PROVE  DDStrong'
<1> DEFINE w == desk[c].w
           f == WithoutEntry(Profiles, w)
           g == WithoutEntry(held.secrets, w)
           gone == Data(f, g, held.frp, held.token)
<1>1. /\ alive = TRUE /\ UNCHANGED <<served, aside, undone>>
      /\ undone \in BOOLEAN /\ raced \in BOOLEAN /\ desk' = [desk EXCEPT ![c] = DeskIdle]
      /\ desk[c].at = "remove"
  BY DEF RemoveWorkspace, StillAt, Done, DDStrong, DesksTyped
<1>2. CASE NothingSaved /\ UNCHANGED raced
  BY <1>1, <1>2, IdleTyped, DeskMoves
<1>3. CASE /\ w \in DOMAIN Profiles /\ SaveAll(<<gone, gone>>)
           /\ raced' = (raced \/ Listening(w) \/ (\E h \in DOMAIN Profiles : w \in Profiles[h].members)
                           \/ \E o \in Deskers \ {c} : desk[o].at = "serve")
  <2>1. /\ DataTyped(held) /\ (held.token => held.frp \/ Mishap)
        /\ (undone \/ NoClash(Profiles)) /\ (Excused \/ MembersKnown(Profiles))
    BY DEF DDStrong, HeldSound, DataSound, Profiles
  <2>2. /\ gone.profiles = f /\ gone.secrets = g /\ gone.frp = held.frp /\ gone.token = held.token
    BY DEF Data
  <2>3. /\ DOMAIN f = DOMAIN Profiles \ {w} /\ \A x \in DOMAIN f : f[x] = Profiles[x]
        /\ DOMAIN g = DOMAIN held.secrets \ {w} /\ \A x \in DOMAIN g : g[x] = held.secrets[x]
    BY DEF WithoutEntry
  <2> HIDE DEF f, g, gone
  <2>4. DataTyped(gone)
    BY <2>1, <2>2, <2>3 DEF DataTyped, PortsTyped, Profiles
  <2>5. undone \/ NoClash(f)
    BY <2>1, <2>3 DEF NoClash
  <2>6. Excused \/ raced' \/ MembersKnown(f)
    BY <1>3, <2>1, <2>3 DEF MembersKnown
  <2>7. SavedWell(gone)
    <3>1. Saveable(gone)
      BY <1>1, <2>2, <2>4, <2>5, <2>6 DEF Saveable
    <3>2. undone' \in BOOLEAN /\ raced' \in BOOLEAN /\ (undone => undone') /\ (raced => raced')
      BY <1>1, <1>3
    <3> QED BY <1>1, <1>3, <2>1, <2>2, <3>1, <3>2, SavingTwo
  <2>8. alive' /\ ~Excused' =>
          /\ ~Excused /\ Profiles' = f /\ ~Listening(w)
          /\ \A o \in Deskers \ {c} : desk[o].at # "serve"
          /\ \A h \in DOMAIN Profiles : w \notin Profiles[h].members
    BY <1>3, <2>2, <2>7 DEF SavedWell, Profiles, Excused
  <2>9. /\ desk' = [x \in Deskers |-> desk'[x]] /\ \A x \in Deskers : DeskTyped(desk'[x])
        /\ StartsTrue'
    <3>1. alive' /\ ~Excused' =>
           /\ alive /\ ~Excused
           /\ \A o \in Deskers : (o # c \/ desk' = desk) /\ desk[o].at = "serve" =>
                /\ desk[o].w \in DOMAIN Profiles'
                /\ Profiles'[desk[o].w] = Profiles[desk[o].w]
           /\ DeskIdle.at = "serve" =>
                DeskIdle.w \in DOMAIN Profiles' /\ DeskIdle.profile = Profiles'[DeskIdle.w]
      BY <1>1, <2>8, IdleTyped
    <3> QED BY <1>1, <3>1, IdleTyped, DesksGoOn
  <2>10. ServedTrue'
    <3>1. alive' /\ ~Excused' => ~Excused
      BY <2>8
    <3>2. ASSUME alive', ~Excused', NEW h \in Workspaces, Listening(h),
                 served[h].profile.members # {}, EntryTrue(h)
          PROVE  /\ h \in DOMAIN Profiles' /\ Sensitive(Profiles'[h]) = Sensitive(Profiles[h])
                 /\ \A m \in served[h].profile.members :
                      Sensitive(Profiles'[m]) = Sensitive(Profiles[m])
      <4>1. h \in DOMAIN Profiles /\ Sensitive(served[h].profile) = Sensitive(Profiles[h])
        BY <3>2 DEF EntryTrue
      <4>2. served[h].profile.members = Profiles[h].members
        BY <4>1 DEF Sensitive
      <4>3. h # w /\ w \notin Profiles[h].members
        BY <2>8, <3>2, <4>1
      <4>4. Profiles[h].members \subseteq DOMAIN Profiles
        BY <2>1, <2>8, <3>2, <4>1 DEF MembersKnown
      <4> QED BY <2>3, <2>8, <3>2, <4>1, <4>2, <4>3, <4>4
    <3> QED BY <1>1, <3>1, <3>2, ServicesGoOn
  <2>11. DesksTyped'
    BY <1>1, <1>3, <2>7, <2>9 DEF DDStrong, DesksTyped, SavedWell
  <2> QED BY <2>7, <2>9, <2>10, <2>11 DEF DDStrong, SavedWell
<1> QED BY <1>2, <1>3 DEF RemoveWorkspace

LEMMA ServiceSecretKeeps ==
  ASSUME DDStrong, NEW w \in Workspaces, ServiceSecret(w)
  PROVE  DDStrong'
<1> DEFINE data == WithSecret(onDisk, w, "actions")
<1>1. /\ onDisk' = data /\ aside' = TRUE /\ DataSound(onDisk, undone, Excused, Mishap)
      /\ UNCHANGED <<held, alive, served, desk, saveErrors, deaths, unsaved, undone, raced>>
  BY DEF ServiceSecret, DDStrong, DiskSound
<1>2. /\ DataTyped(data) /\ data.profiles = onDisk.profiles
      /\ data.frp = onDisk.frp /\ data.token = onDisk.token
  <2>1. DataTyped(onDisk) /\ "actions" \in SecretKeys
    BY <1>1 DEF DataSound, SecretKeys
  <2> QED BY <2>1, SecretKept
<1> HIDE DEF data
<1>3. DataSound(data, undone, Excused, Mishap)
  BY <1>1, <1>2 DEF DataSound
<1>4. DiskSound' /\ HeldSound'
  BY <1>1, <1>3 DEF DiskSound, HeldSound, DDStrong, Excused, Mishap
<1>5. FileFollows' /\ ProfilesFollow'
  BY <1>1, <1>2 DEF FileFollows, ProfilesFollow, DDStrong
<1>6. StartsTrue' /\ ServedTrue' /\ DesksTyped'
  BY <1>1
      DEF StartsTrue, ServedTrue, DesksTyped, DDStrong, EntryTrue, Listening, Profiles, Excused
<1> QED BY <1>4, <1>5, <1>6 DEF DDStrong

LEMMA ReopenKeeps ==
  ASSUME DDStrong, Reopen
  PROVE  DDStrong'
<1>1. HeldSound' /\ DiskSound' /\ FileFollows' /\ ProfilesFollow'
  BY DEF Reopen, DDStrong, HeldSound, DiskSound, FileFollows, ProfilesFollow, Excused, Mishap,
      ghosts
<1>2. DesksTyped'
  BY IdleTyped DEF Reopen, DDStrong, DesksTyped, ghosts
<1>3. StartsTrue'
  BY IdleTyped DEF Reopen, StartsTrue
<1>4. ServedTrue'
  BY DEF Reopen, ServedTrue, EntryTrue, Listening
<1> QED BY <1>1, <1>2, <1>3, <1>4 DEF DDStrong

-----------------------------------------------------------------------------
(* The theorem.                                                            *)

LEMMA DesktopBegins == DDInit => DDStrong
<1> SUFFICES ASSUME DDInit PROVE DDStrong
  OBVIOUS
<1>1. PICK b \in Beginnings :
        /\ held = Data(b.profiles,
                       [w \in DOMAIN b.profiles |-> IF w \in NoSecrets THEN {} ELSE SecretKeys],
                       FALSE, FALSE)
        /\ served = [w \in Workspaces |->
             IF w \in b.served
             THEN [profile |-> b.profiles[w], members |-> [m \in b.profiles[w].members |-> b.profiles[m]]]
             ELSE NotServed]
  BY DEF DDInit
<1>2. /\ NoClash(b.profiles) /\ MembersKnown(b.profiles) /\ PortsTyped(b.profiles)
      /\ b.served \subseteq DOMAIN b.profiles /\ DOMAIN b.profiles \subseteq Workspaces
  BY DesktopAssumption, BeginningsAssumption
<1>3. /\ onDisk = held /\ alive = TRUE /\ desk = [c \in Deskers |-> DeskIdle]
      /\ saveErrors = 0 /\ deaths = 0 /\ unsaved = FALSE /\ aside = FALSE /\ undone = FALSE
      /\ raced = FALSE
  BY DEF DDInit
<1>4. /\ held.profiles = b.profiles /\ held.token = FALSE /\ held.frp = FALSE
      /\ held.secrets = [w \in DOMAIN b.profiles |-> IF w \in NoSecrets THEN {} ELSE SecretKeys]
  BY <1>1 DEF Data
<1>5. DataTyped(held)
  BY <1>2, <1>4 DEF DataTyped
<1>6. HeldSound /\ DiskSound
  BY <1>2, <1>3, <1>4, <1>5 DEF HeldSound, DiskSound, DataSound
<1>7. FileFollows /\ ProfilesFollow
  BY <1>3 DEF FileFollows, ProfilesFollow
<1>8. DesksTyped /\ StartsTrue
  BY <1>1, <1>3, IdleTyped DEF DesksTyped, StartsTrue
<1>9. ServedTrue
  <2> SUFFICES ASSUME NEW h \in Workspaces, Listening(h) PROVE EntryTrue(h)
    BY DEF ServedTrue, EntryTrue
  <2> DEFINE new == [profile |-> b.profiles[h],
                     members |-> [m \in b.profiles[h].members |-> b.profiles[m]]]
  <2>1. h \in b.served /\ served[h] = new
    BY <1>1 DEF Listening
  <2>2. new.profile = b.profiles[h] /\ \A m \in b.profiles[h].members : new.members[m] = b.profiles[m]
    OBVIOUS
  <2> HIDE DEF new
  <2> QED BY <1>2, <1>4, <2>1, <2>2 DEF EntryTrue, Profiles
<1> QED BY <1>6, <1>7, <1>8, <1>9 DEF DDStrong

LEMMA DesktopPreserved == DDStrong /\ [DDNext]_ddvars => DDStrong'
<1> SUFFICES ASSUME DDStrong, [DDNext]_ddvars PROVE DDStrong'
  OBVIOUS
<1>1. CASE UNCHANGED ddvars
  BY <1>1 DEF ddvars, DDStrong, DesksTyped, HeldSound, DiskSound, FileFollows, ProfilesFollow,
              StartsTrue, ServedTrue, EntryTrue, Excused, Mishap, Profiles, Listening
<1>2. CASE Reopen
  BY <1>2, ReopenKeeps
<1>3. CASE \E w \in Workspaces : ServiceSecret(w)
  BY <1>3, ServiceSecretKeeps
<1>4. ASSUME NEW c \in Deskers, NEW w \in Workspaces,
             \/ Create(c, w) \/ StartWorkspace(c, w) \/ StopWorkspace(c, w) \/ BeginDelete(c, w)
             \/ \E e \in Forms : BeginUpdate(c, w, e)
             \/ \E key \in SecretKeys : BeginSecret(c, w, key)
      PROVE  DDStrong'
  <2>1. SecretKeys # {}
    BY DEF SecretKeys
  <2> QED BY <1>4, <2>1, CreateKeeps, StartsBegin, StopWorkspaceKeeps, DeleteAndSecretBegin,
             UpdateBegins
<1>5. ASSUME NEW c \in Deskers, StopForDelete(c)
      PROVE  DDStrong'
  BY <1>5, StopForDeleteKeeps
<1>6. ASSUME NEW c \in Deskers,
             \/ StoreUpdate(c) \/ StopForUpdate(c) \/ StartAgain(c) \/ ServeProfile(c) \/ TakeBack(c)
             \/ StartOnceMore(c) \/ RemoveWorkspace(c) \/ StoreSecret(c)
             \/ SaveFrp(c) \/ DeleteFrp(c)
      PROVE  DDStrong'
  BY <1>6, StoreUpdateKeeps, StopForUpdateKeeps, StartsBegin, ServeKeeps, TakeBackKeeps,
     RemoveKeeps, StoreSecretKeeps, FrpKeeps
<1> QED BY <1>1, <1>2, <1>3, <1>4, <1>5, <1>6 DEF DDNext

LEMMA DesktopMeans == DDStrong => DesktopInv
<1> SUFFICES ASSUME DDStrong PROVE DesktopInv
  OBVIOUS
<1>1. /\ DataTyped(held) /\ (undone \/ NoClash(Profiles)) /\ (Excused \/ MembersKnown(Profiles))
      /\ held.token => held.frp \/ Mishap
  BY DEF DDStrong, HeldSound, DataSound, Profiles
<1>2. DOMAIN Profiles \subseteq Workspaces /\ PortsTyped(Profiles) /\ SecretsComplete
  BY <1>1 DEF DataTyped, Profiles, SecretsComplete
<1>3. ResourcesDistinct /\ TokenOwned /\ FileFollows
  BY <1>1 DEF ResourcesDistinct, TokenOwned, Mishap, DDStrong
<1>4. EntriesTrue
  BY <1>1 DEF EntriesTrue, DDStrong, ServedTrue, EntryTrue, Excused
<1> QED BY <1>2, <1>3, <1>4 DEF DesktopInv

\* Whatever fails, dies or runs beside: the file follows, a workspace has all its
\* secrets, no two share a port or subdomain, and an entry serves what is saved
\* (store.rs:31-230, workspace.rs:27-160, gateway.rs:17-78).
THEOREM DesktopSafe == DDSpec => []DesktopInv
<1>1. DDInit => DDStrong
  BY DesktopBegins
<1>2. DDStrong /\ [DDNext]_ddvars => DDStrong'
  BY DesktopPreserved
<1>3. DDStrong => DesktopInv
  BY DesktopMeans
<1> QED BY <1>1, <1>2, <1>3, PTL DEF DDSpec

-----------------------------------------------------------------------------
(* SkillLibrary.  A cached text is right for as long as its stamp is the   *)
(* file's, so stamps that are kept may not come back; what a scan found    *)
(* was in the library since its call began, and what a list shows was      *)
(* found by the call that showed it.                                       *)

Metas == [stamp : Nat, draft : Drafts]
SkillEntries == [id : SkillFiles, draft : Drafts, off : BOOLEAN]
SkillMarks == [id : SkillFiles, draft : Drafts, byHand : BOOLEAN]

\* No two of a file.
OfEachFile(list) == \A a, b \in list : a.id = b.id => a = b

LibraryTyped ==
  /\ library \in [SkillFiles -> Drafts \cup {Missing}] /\ stamps \in [SkillFiles -> Nat]
  /\ edits \in Nat /\ \A s \in SkillFiles : stamps[s] <= edits
  /\ preferences.revision \in Nat
  /\ since = [w \in Browsers |-> since[w]]

\* A kept text is the file's for as long as its stamp is.
TextRight(s, meta) ==
  /\ meta \in Metas /\ meta.stamp <= edits
  /\ meta.stamp = stamps[s] => meta.draft = library[s] \/ s \in blurred
CacheRight(cache) ==
  /\ DOMAIN cache \subseteq SkillFiles /\ Cardinality(DOMAIN cache) <= MaxCachedSkills
  /\ \A s \in DOMAIN cache : TextRight(s, cache[s])
CachesRight ==
  /\ metadata = [k \in Catalogs |-> metadata[k]]
  /\ \A k \in Catalogs : CacheRight(metadata[k])

LocksRight ==
  /\ metaLock \in [Catalogs -> Browsers \cup {Missing}]
  /\ \A w \in Browsers : scans[w].at = "read" <=> metaLock[CatalogOf[w]] = w

\* A text that a call has seen.
Seen(w, s, text) == <<s, text>> \in since[w] \/ s \in blurred
CallRight(w, c) ==
  c.at # "idle" =>
    /\ c = Scan(c.at, c.ask, c.before, c.disabled, c.walk)
    /\ c.walk.todo \subseteq SkillFiles
    /\ c.walk.found \subseteq SkillEntries /\ IsFiniteSet(c.walk.found)
    /\ OfEachFile(c.walk.found) /\ \A e \in c.walk.found : e.id \notin c.walk.todo
    /\ c.before \in Nat /\ c.before <= preferences.revision
    /\ c.before = preferences.revision => c.disabled = preferences.disabled
    /\ Present \subseteq since[w]
    /\ \A e \in c.walk.found : Seen(w, e.id, e.draft) /\ (e.off <=> e.id \in c.disabled)
    /\ c.at = "open" => c.walk.found = {}
    /\ c.at = "read" => /\ c.walk.todo # {} /\ TextRight(NextFile(c), c.walk.meta)
                        /\ Seen(w, NextFile(c), c.walk.meta.draft)
CallsRight ==
  /\ scans = [w \in Browsers |-> scans[w]]
  /\ \A w \in Browsers : CallRight(w, scans[w])

\* What was shown of a skill whose source allows automatic use is what `off` says.
ShownOff(list, off) == \A e \in list : e.draft.manual \/ (e.off <=> e.id \in off)
ViewRight(w) ==
  LET v == views[w] IN
  /\ v.marks \subseteq SkillMarks /\ IsFiniteSet(v.marks) /\ OfEachFile(v.marks)
  /\ v.upTo \in Nat /\ v.upTo <= Cardinality(v.marks)
  /\ v.shown \subseteq SkillEntries /\ OfEachFile(v.shown)
  /\ Marks(v.shown) = {m \in v.marks : Rank(v.marks, m) <= v.upTo}
  /\ v.over => Marks(v.shown) = v.marks
  /\ v.revision \in Nat /\ v.revision <= preferences.revision
  /\ IF scans[w].at = "listed"
     THEN v.shown # {} => v.revision = scans[w].before /\ ShownOff(v.shown, scans[w].disabled)
     ELSE v.revision = preferences.revision => ShownOff(v.shown, preferences.disabled)
ViewsRight ==
  /\ views = [w \in Browsers |-> views[w]]
  /\ \A w \in Browsers : ViewRight(w)

ReadingsRight ==
  /\ readings = [w \in Browsers |-> readings[w]]
  /\ \A w \in Browsers : readings[w].parts \in Seq(Drafts)
  /\ ReadWhole

SLStrong ==
  /\ LibraryTyped /\ CachesRight /\ LocksRight /\ CallsRight /\ ViewsRight /\ ReadingsRight

-----------------------------------------------------------------------------
(* Files.                                                                  *)

LEMMA NextIsToCome ==
  ASSUME NEW c, c.walk.todo \subseteq SkillFiles, c.walk.todo # {}
  PROVE  NextFile(c) \in c.walk.todo /\ NextFile(c) \in SkillFiles
<1>1. c.walk.todo \subseteq Nat
  BY SkillLibraryAssumption
<1>2. \E s \in c.walk.todo : \A t \in c.walk.todo : s <= t
  BY <1>1, FirstPlace
<1> QED BY <1>2 DEF NextFile

\* A file that changes has a new stamp, or is blurred.
LEMMA FileChanges ==
  ASSUME SLStrong, NEW s \in SkillFiles, NEW text \in Drafts \cup {Missing}, NEW stamp,
         Written(s, text, stamp),
         \/ stamp = edits + 1 /\ blurred' = blurred
         \/ stamp = stamps[s] /\ blurred' = blurred \cup {s},
         UNCHANGED <<metadata, metaLock, preferences, scans, views, readings>>
  PROVE  SLStrong'
<1>1. /\ edits \in Nat /\ edits' = edits + 1 /\ library' = [library EXCEPT ![s] = text]
      /\ stamps' = [stamps EXCEPT ![s] = stamp]
      /\ since' = [w \in Browsers |-> IF text = Missing THEN since[w] ELSE since[w] \cup {<<s, text>>}]
      /\ stamps \in [SkillFiles -> Nat] /\ library \in [SkillFiles -> Drafts \cup {Missing}]
      /\ \A x \in SkillFiles : stamps[x] <= edits
  BY DEF Written, SLStrong, LibraryTyped
<1>2. LibraryTyped'
  BY <1>1 DEF SLStrong, LibraryTyped
<1>3. ASSUME NEW x \in SkillFiles, NEW meta, TextRight(x, meta)
      PROVE  TextRight(x, meta)'
  <2>1. CASE x # s
    BY <1>1, <1>3, <2>1 DEF TextRight, Metas
  <2>2. CASE x = s /\ stamp = edits + 1
    <3>1. stamps'[x] = edits + 1 /\ meta.stamp \in Nat /\ meta.stamp <= edits
      BY <1>1, <1>3, <2>2 DEF TextRight, Metas
    <3> QED BY <1>1, <1>3, <3>1 DEF TextRight, Metas
  <2>3. CASE x = s /\ blurred' = blurred \cup {s}
    <3>1. meta.stamp \in Nat /\ meta.stamp <= edits + 1
      BY <1>1, <1>3 DEF TextRight, Metas
    <3> QED BY <1>1, <1>3, <2>3, <3>1 DEF TextRight
  <2> QED BY <2>1, <2>2, <2>3
<1>4. CachesRight'
  BY <1>3 DEF SLStrong, CachesRight, CacheRight
<1>5. blurred \subseteq blurred' /\ \A w \in Browsers : since[w] \subseteq since'[w]
  BY <1>1
<1>6. ASSUME NEW w \in Browsers, Present \subseteq since[w]
      PROVE  Present' \subseteq since'[w]
  <2> SUFFICES ASSUME NEW x \in SkillFiles, library'[x] # Missing
               PROVE  <<x, library'[x]>> \in since'[w]
    BY DEF Present
  <2>1. CASE x = s
    BY <1>1, <2>1
  <2>2. CASE x # s
    <3>1. library'[x] = library[x]
      BY <1>1, <2>2
    <3>2. <<x, library[x]>> \in Present
      BY <3>1 DEF Present
    <3> QED BY <1>5, <1>6, <3>1, <3>2
  <2> QED BY <2>1, <2>2
<1>7. CallsRight'
  <2> SUFFICES ASSUME NEW w \in Browsers, scans[w].at # "idle" PROVE CallRight(w, scans[w])'
    BY DEF SLStrong, CallsRight, CallRight
  <2>1. CallRight(w, scans[w])
    BY DEF SLStrong, CallsRight
  <2>2. Present' \subseteq since'[w]
    BY <1>6, <2>1 DEF CallRight
  <2>3. scans[w].at = "read" => NextFile(scans[w]) \in SkillFiles
    BY <2>1, NextIsToCome DEF CallRight
  <2>4. scans[w].at = "read" => TextRight(NextFile(scans[w]), scans[w].walk.meta)'
    BY <1>3, <2>1, <2>3 DEF CallRight
  <2>5. \A x, y : Seen(w, x, y) => Seen(w, x, y)'
    BY <1>5 DEF Seen
  <2> QED BY <2>1, <2>2, <2>4, <2>5 DEF CallRight
<1>8. LocksRight' /\ ViewsRight' /\ ReadingsRight'
  BY DEF SLStrong, LocksRight, ViewsRight, ViewRight, ReadingsRight, ReadWhole
<1> QED BY <1>2, <1>4, <1>7, <1>8 DEF SLStrong

-----------------------------------------------------------------------------
(* Calls.                                                                  *)

LEMMA CallGoesOn ==
  ASSUME SLStrong, NEW w \in Browsers, NEW c, CallRight(w, c), scans[w].at # "listed",
         c.at # "listed", scans' = [scans EXCEPT ![w] = c],
         UNCHANGED <<filevars, preferences, since, views, readings>>
  PROVE  LibraryTyped' /\ CallsRight' /\ ViewsRight' /\ ReadingsRight'
<1>1. /\ UNCHANGED <<library, stamps, blurred, edits, preferences, since, views, readings>>
      /\ scans' = [v \in Browsers |-> scans'[v]] /\ scans'[w] = c
      /\ \A v \in Browsers : v # w => scans'[v] = scans[v]
  BY DEF filevars, SLStrong, CallsRight
<1>2. LibraryTyped' /\ ReadingsRight'
  BY <1>1 DEF SLStrong, LibraryTyped, ReadingsRight, ReadWhole
<1>3. CallsRight'
  <2>1. ASSUME NEW v \in Browsers PROVE CallRight(v, scans'[v])
    BY <1>1, <2>1 DEF SLStrong, CallsRight
  <2>2. \A v, d : CallRight(v, d) => CallRight(v, d)'
    BY <1>1 DEF CallRight, Seen, TextRight, Present
  <2> QED BY <1>1, <2>1, <2>2 DEF CallsRight
<1>4. ViewsRight'
  BY <1>1 DEF SLStrong, ViewsRight, ViewRight
<1> QED BY <1>2, <1>3, <1>4

LEMMA ScanIs ==
  ASSUME NEW at, NEW ask, NEW before, NEW disabled, NEW walk
  PROVE  LET c == Scan(at, ask, before, disabled, walk)
         IN /\ c.at = at /\ c.ask = ask /\ c.before = before /\ c.disabled = disabled /\ c.walk = walk
            /\ c = Scan(c.at, c.ask, c.before, c.disabled, c.walk)
  BY DEF Scan

LEMMA WalkIs ==
  ASSUME NEW todo, NEW seen, NEW found, NEW cut, NEW meta
  PROVE  LET k == Walk(todo, seen, found, cut, meta)
         IN k.todo = todo /\ k.seen = seen /\ k.found = found /\ k.cut = cut /\ k.meta = meta
  BY DEF Walk

LEMMA OpenKeeps ==
  ASSUME SLStrong, NEW w \in Browsers, OpenScan(w)
  PROVE  SLStrong'
<1> DEFINE c == scans[w]
           d == Scan("walk", c.ask, c.before, preferences.disabled, c.walk)
<1>1. /\ c.at = "open" /\ scans' = [scans EXCEPT ![w] = d]
      /\ UNCHANGED <<filevars, metadata, metaLock, preferences, since, views, readings>>
  BY DEF OpenScan
<1>2. /\ d.at = "walk" /\ d.ask = c.ask /\ d.before = c.before /\ d.disabled = preferences.disabled
      /\ d.walk = c.walk /\ d = Scan(d.at, d.ask, d.before, d.disabled, d.walk)
  BY ScanIs
<1> HIDE DEF d
<1>3. CallRight(w, d)
  <2>1. CallRight(w, c)
    BY DEF SLStrong, CallsRight
  <2> QED BY <1>1, <1>2, <2>1 DEF CallRight
<1>4. LibraryTyped' /\ CallsRight' /\ ViewsRight' /\ ReadingsRight'
  BY <1>1, <1>2, <1>3, CallGoesOn
<1>5. CachesRight'
  BY <1>1 DEF filevars, SLStrong, CachesRight, CacheRight, TextRight
<1>6. LocksRight'
  BY <1>1, <1>2 DEF SLStrong, LocksRight, CallsRight
<1> QED BY <1>4, <1>5, <1>6 DEF SLStrong

LEMMA BeginKeeps ==
  ASSUME SLStrong, NEW w \in Browsers, NEW ask, BeginCall(w, ask)
  PROVE  SLStrong'
<1> DEFINE k == Walk(SkillFiles, {}, {}, FALSE, NoMeta)
           d == Scan(IF ask.kind = "desk" THEN "open" ELSE "walk", ask, preferences.revision,
                     preferences.disabled, k)
<1>1. /\ scans[w].at = "idle" /\ scans' = [scans EXCEPT ![w] = d]
      /\ since' = [since EXCEPT ![w] = Present]
      /\ UNCHANGED <<filevars, metadata, metaLock, preferences, views, readings>>
  BY DEF BeginCall
<1>2. /\ d.at \in {"open", "walk"} /\ d.before = preferences.revision
      /\ d.disabled = preferences.disabled
      /\ d.walk = k /\ d = Scan(d.at, d.ask, d.before, d.disabled, d.walk)
      /\ k.todo = SkillFiles /\ k.found = {}
  <2> HIDE DEF k
  <2>1. /\ d.at = (IF ask.kind = "desk" THEN "open" ELSE "walk") /\ d.before = preferences.revision
        /\ d.disabled = preferences.disabled
        /\ d.walk = k /\ d = Scan(d.at, d.ask, d.before, d.disabled, d.walk)
    BY DEF Scan
  <2>2. k.todo = SkillFiles /\ k.found = {}
    BY DEF k, Walk
  <2> QED BY <2>1, <2>2
<1> HIDE DEF d, k
<1>3. /\ UNCHANGED <<library, stamps, blurred, edits, preferences, views, readings, metadata, metaLock>>
      /\ scans' = [v \in Browsers |-> scans'[v]] /\ scans'[w] = d
      /\ since' = [v \in Browsers |-> since'[v]] /\ since'[w] = Present
      /\ \A v \in Browsers : v # w => scans'[v] = scans[v] /\ since'[v] = since[v]
  BY <1>1 DEF filevars, SLStrong, CallsRight, LibraryTyped
<1>4. LibraryTyped' /\ ReadingsRight' /\ CachesRight'
  BY <1>3
      DEF SLStrong, LibraryTyped, ReadingsRight, ReadWhole, CachesRight, CacheRight, TextRight
<1>5. CallsRight'
  <2> SUFFICES ASSUME NEW v \in Browsers PROVE CallRight(v, scans[v])'
    BY <1>3 DEF CallsRight
  <2>1. CASE v = w
    <3>1. Present' = Present /\ scans'[v] = d /\ since'[v] = Present
      BY <1>3, <2>1 DEF Present
    <3>2. /\ d.at \in {"open", "walk"} /\ d = Scan(d.at, d.ask, d.before, d.disabled, d.walk)
          /\ d.walk.todo = SkillFiles /\ d.walk.found = {}
      BY <1>2
    <3>3. /\ d.before = preferences'.revision /\ d.disabled = preferences'.disabled
          /\ d.before \in Nat /\ d.before <= preferences'.revision
      BY <1>2, <1>3 DEF SLStrong, LibraryTyped
    <3>4. IsFiniteSet(d.walk.found)
      BY <3>2, FS_EmptySet
    <3> QED BY <3>1, <3>2, <3>3, <3>4 DEF CallRight, OfEachFile
  <2>2. CASE v # w
    BY <1>3, <2>2 DEF CallRight, Seen, TextRight, Present, SLStrong, CallsRight
  <2> QED BY <2>1, <2>2
<1>6. ViewsRight'
  BY <1>1, <1>2, <1>3 DEF SLStrong, ViewsRight, ViewRight
<1>7. LocksRight'
  BY <1>1, <1>2, <1>3 DEF SLStrong, LocksRight
<1> QED BY <1>4, <1>5, <1>6, <1>7 DEF SLStrong

LEMMA PassedOverKeeps ==
  ASSUME NEW w, NEW c, CallRight(w, c), c.at # "idle", NEW s
  PROVE  CallRight(w, PassedOver(c, s)) /\ PassedOver(c, s).at = "walk"
<1> DEFINE k == Walk(c.walk.todo \ {s}, c.walk.seen, c.walk.found, c.walk.cut, NoMeta)
           d == Scan("walk", c.ask, c.before, c.disabled, k)
<1>1. PassedOver(c, s) = d
  BY DEF PassedOver, GoesOn
<1>2. /\ d.at = "walk" /\ d.ask = c.ask /\ d.before = c.before /\ d.disabled = c.disabled
      /\ d.walk = k /\ d = Scan(d.at, d.ask, d.before, d.disabled, d.walk)
      /\ k.todo = c.walk.todo \ {s} /\ k.found = c.walk.found
  BY ScanIs, WalkIs
<1> HIDE DEF d, k
<1> QED BY <1>1, <1>2 DEF CallRight

LEMMA FoundKeeps ==
  ASSUME NEW w, NEW c, CallRight(w, c), c.at \notin {"idle", "open"}, NEW s \in SkillFiles,
         s \in c.walk.todo, NEW text \in Drafts, Seen(w, s, text)
  PROVE  CallRight(w, Found(c, s, text)) /\ Found(c, s, text).at = "walk"
<1> DEFINE e == [id |-> s, draft |-> text, off |-> s \in c.disabled]
           found == c.walk.found \cup {e}
           cut == Cardinality(found) >= MaxFound
           todo == IF cut THEN {} ELSE c.walk.todo \ {s}
           k == Walk(todo, c.walk.seen \cup {s}, found, cut, NoMeta)
           d == Scan("walk", c.ask, c.before, c.disabled, k)
<1>1. Found(c, s, text) = d
  BY DEF Found, GoesOn
<1>2. /\ d.at = "walk" /\ d.ask = c.ask /\ d.before = c.before /\ d.disabled = c.disabled
      /\ d.walk = k /\ d = Scan(d.at, d.ask, d.before, d.disabled, d.walk)
      /\ k.todo = todo /\ k.found = found
  BY ScanIs, WalkIs
<1>3. e \in SkillEntries /\ e.id = s /\ e.draft = text /\ (e.off <=> s \in c.disabled)
  <2> DEFINE off == s \in c.disabled
  <2>1. off \in BOOLEAN
    OBVIOUS
  <2> HIDE DEF off
  <2>2. [id |-> s, draft |-> text, off |-> off] \in SkillEntries
    BY <2>1 DEF SkillEntries
  <2> QED BY <2>2 DEF off
<1>4. todo \subseteq c.walk.todo \ {s}
  OBVIOUS
<1>5. IsFiniteSet(found)
  BY FS_AddElement DEF CallRight
<1> HIDE DEF d, k, e, todo
<1>6. OfEachFile(found) /\ \A x \in found : x.id \notin todo
  BY <1>3, <1>4 DEF CallRight, OfEachFile
<1> HIDE DEF found
<1>7. /\ found \subseteq SkillEntries
      /\ \A x \in found : Seen(w, x.id, x.draft) /\ (x.off <=> x.id \in c.disabled)
  BY <1>3 DEF CallRight, found
<1> QED BY <1>1, <1>2, <1>4, <1>5, <1>6, <1>7 DEF CallRight

LEMMA FewFiles ==
  ASSUME NEW S, S \subseteq SkillFiles
  PROVE  IsFiniteSet(S) /\ Cardinality(S) \in Nat
  BY SkillLibraryAssumption, FS_Subset, FS_CardinalityType

\* A cache that has one file less.
LEMMA CacheShrinks ==
  ASSUME NEW cache, CacheRight(cache), NEW S
  PROVE  LET rest == [x \in DOMAIN cache \cap S |-> cache[x]]
         IN CacheRight(rest) /\ Cardinality(DOMAIN rest) <= Cardinality(DOMAIN cache)
<1> DEFINE rest == [x \in DOMAIN cache \cap S |-> cache[x]]
<1>1. DOMAIN rest \subseteq DOMAIN cache /\ \A x \in DOMAIN rest : rest[x] = cache[x]
  OBVIOUS
<1>2. IsFiniteSet(DOMAIN cache) /\ DOMAIN cache \subseteq SkillFiles
  BY FewFiles DEF CacheRight
<1> HIDE DEF rest
<1>3. Cardinality(DOMAIN rest) <= Cardinality(DOMAIN cache)
  BY <1>1, <1>2, FS_Subset
<1>4. Cardinality(DOMAIN rest) \in Nat /\ Cardinality(DOMAIN cache) \in Nat
  BY <1>1, <1>2, FewFiles
<1>5. MaxCachedSkills \in Nat
  BY SkillLibraryAssumption
<1> QED BY <1>1, <1>2, <1>3, <1>4, <1>5 DEF CacheRight, rest

LEMMA WithoutOne ==
  ASSUME NEW cache, CacheRight(cache), NEW s
  PROVE  /\ CacheRight(Without(cache, s)) /\ DOMAIN Without(cache, s) = DOMAIN cache \ {s}
         /\ \A x \in DOMAIN cache \ {s} : Without(cache, s)[x] = cache[x]
<1> DEFINE S == DOMAIN cache \ {s}
<1>1. [x \in DOMAIN cache \cap S |-> cache[x]] = Without(cache, s)
  BY DEF Without
<1>2. CacheRight(Without(cache, s))
  BY <1>1, CacheShrinks
<1> QED BY <1>2 DEF Without

LEMMA CachesStep ==
  ASSUME SLStrong, NEW w \in Browsers, UNCHANGED filevars, NEW cache, CacheRight(cache),
         metadata' = [metadata EXCEPT ![CatalogOf[w]] = cache]
  PROVE  CachesRight'
<1>1. \A c : CacheRight(c) => CacheRight(c)'
  BY DEF CacheRight, TextRight, filevars
<1>2. \A k \in Catalogs : metadata'[k] = metadata[k] \/ metadata'[k] = cache
  BY DEF SLStrong, CachesRight
<1> QED BY <1>1, <1>2 DEF SLStrong, CachesRight

LEMMA LoadKeeps ==
  ASSUME SLStrong, NEW w \in Browsers, LoadMetadata(w)
  PROVE  SLStrong'
<1> DEFINE c == scans[w]
           s == NextFile(c)
           k == CatalogOf[w]
           text == Cached(w)[s].draft
           meta == [stamp |-> stamps[s], draft |-> library[s]]
           d == Scan("read", c.ask, c.before, c.disabled,
                     Walk(c.walk.todo, c.walk.seen \cup {s}, c.walk.found, c.walk.cut, meta))
<1>1. /\ c.at = "walk" /\ c.walk.todo # {} /\ metaLock[k] = Missing
      /\ UNCHANGED <<filevars, preferences, since, views, readings>>
  BY DEF LoadMetadata
<1>2. /\ CallRight(w, c) /\ Present \subseteq since[w] /\ k \in Catalogs
      /\ s \in SkillFiles /\ s \in c.walk.todo
  <2>1. CallRight(w, c)
    BY DEF SLStrong, CallsRight
  <2>2. c.walk.todo \subseteq SkillFiles /\ Present \subseteq since[w]
    BY <1>1, <2>1 DEF CallRight
  <2> QED BY <1>1, <2>1, <2>2, NextIsToCome DEF Catalogs
<1> HIDE DEF s
<1>3. library[s] # Missing => library[s] \in Drafts /\ Seen(w, s, library[s])
  BY <1>2 DEF Seen, Present, SLStrong, LibraryTyped
<1>4. CASE scans' = [scans EXCEPT ![w] = PassedOver(c, s)] /\ UNCHANGED <<metadata, metaLock>>
  <2>1. LibraryTyped' /\ CallsRight' /\ ViewsRight' /\ ReadingsRight'
    BY <1>1, <1>2, <1>4, PassedOverKeeps, CallGoesOn
  <2>2. CachesRight'
    BY <1>1, <1>4 DEF filevars, SLStrong, CachesRight, CacheRight, TextRight
  <2>3. LocksRight'
    BY <1>1, <1>2, <1>4, PassedOverKeeps DEF SLStrong, LocksRight, CallsRight
  <2> QED BY <2>1, <2>2, <2>3 DEF SLStrong
<1>5. CASE /\ library[s] # Missing /\ CacheHit(w, s)
           /\ scans' = [scans EXCEPT ![w] = Found(c, s, text)] /\ UNCHANGED <<metadata, metaLock>>
  <2>1. TextRight(s, Cached(w)[s]) /\ Cached(w)[s].stamp = stamps[s]
    BY <1>2, <1>5 DEF CacheHit, Cached, SLStrong, CachesRight, CacheRight
  <2>2. text \in Drafts /\ Seen(w, s, text)
    BY <1>3, <1>5, <2>1 DEF TextRight, Metas, Seen
  <2>3. CallRight(w, Found(c, s, text)) /\ Found(c, s, text).at = "walk"
    BY <1>1, <1>2, <2>2, FoundKeeps
  <2>4. LibraryTyped' /\ CallsRight' /\ ViewsRight' /\ ReadingsRight'
    BY <1>1, <1>5, <2>3, CallGoesOn
  <2>5. CachesRight'
    BY <1>1, <1>5 DEF filevars, SLStrong, CachesRight, CacheRight, TextRight
  <2>6. LocksRight'
    BY <1>1, <1>5, <2>3 DEF SLStrong, LocksRight, CallsRight
  <2> QED BY <2>4, <2>5, <2>6 DEF SLStrong
<1>6. CASE /\ library[s] # Missing /\ scans' = [scans EXCEPT ![w] = d]
           /\ metadata' = [metadata EXCEPT ![k] = Without(@, s)]
           /\ metaLock' = [metaLock EXCEPT ![k] = w]
  <2>1. /\ d.at = "read" /\ d.ask = c.ask /\ d.before = c.before /\ d.disabled = c.disabled
        /\ d.walk.todo = c.walk.todo /\ d.walk.found = c.walk.found /\ d.walk.meta = meta
        /\ d = Scan(d.at, d.ask, d.before, d.disabled, d.walk)
    <3> DEFINE walk == Walk(c.walk.todo, c.walk.seen \cup {s}, c.walk.found, c.walk.cut, meta)
    <3>1. walk.todo = c.walk.todo /\ walk.found = c.walk.found /\ walk.meta = meta
      BY WalkIs
    <3> HIDE DEF walk
    <3>2. /\ d.at = "read" /\ d.ask = c.ask /\ d.before = c.before /\ d.disabled = c.disabled
          /\ d.walk = walk /\ d = Scan(d.at, d.ask, d.before, d.disabled, d.walk)
      BY DEF walk, Scan
    <3> HIDE DEF d
    <3> QED BY <3>1, <3>2
  <2>2. NextFile(d) = s
    BY <2>1 DEF NextFile, s
  <2>3. TextRight(s, meta) /\ meta.draft = library[s]
    BY <1>2, <1>3, <1>6 DEF TextRight, Metas, SLStrong, LibraryTyped
  <2> HIDE DEF d, meta
  <2>4. CallRight(w, d)
    BY <1>1, <1>2, <1>3, <1>6, <2>1, <2>2, <2>3 DEF CallRight
  <2>5. LibraryTyped' /\ CallsRight' /\ ViewsRight' /\ ReadingsRight'
    BY <1>1, <1>6, <2>1, <2>4, CallGoesOn
  <2>6. CachesRight'
    <3>1. CacheRight(Without(metadata[k], s))
      BY <1>2, WithoutOne DEF SLStrong, CachesRight
    <3>2. metadata' = [metadata EXCEPT ![k] = Without(metadata[k], s)]
      BY <1>6
    <3> QED BY <1>1, <3>1, <3>2, CachesStep
  <2>7. LocksRight'
    <3>1. metaLock'[k] = w /\ \A j \in Catalogs : j # k => metaLock'[j] = metaLock[j]
      BY <1>2, <1>6 DEF SLStrong, LocksRight
    <3>2. scans'[w] = d /\ \A v \in Browsers : v # w => scans'[v] = scans[v]
      BY <1>6 DEF SLStrong, CallsRight
    <3>3. \A v \in Browsers : CatalogOf[v] \in Catalogs /\ v # Missing
      BY SkillLibraryAssumption DEF Catalogs
    <3>4. metaLock' \in [Catalogs -> Browsers \cup {Missing}]
      BY <1>6 DEF SLStrong, LocksRight
    <3> QED BY <1>1, <2>1, <3>1, <3>2, <3>3, <3>4 DEF SLStrong, LocksRight
  <2> QED BY <2>5, <2>6, <2>7 DEF SLStrong
<1> QED BY <1>4, <1>5, <1>6 DEF LoadMetadata, GoesOn, s

\* Room for one more.
LEMMA CacheTakes ==
  ASSUME NEW cache, CacheRight(cache), NEW s \in SkillFiles, NEW meta, TextRight(s, meta)
  PROVE  CacheRight(WithMeta(Room(cache), s, meta))
<1> DEFINE full == DOMAIN cache
           least == CHOOSE x \in full : \A y \in full : x <= y
           room == Room(cache)
           new == WithMeta(room, s, meta)
<1>1. full \subseteq SkillFiles /\ Cardinality(full) <= MaxCachedSkills
  BY DEF CacheRight
<1>2. IsFiniteSet(full) /\ Cardinality(full) \in Nat /\ MaxCachedSkills \in Nat \ {0}
  BY <1>1, FewFiles, SkillLibraryAssumption
<1>3. CacheRight(room) /\ Cardinality(DOMAIN room) < MaxCachedSkills /\ IsFiniteSet(DOMAIN room)
  <2>1. CASE Cardinality(full) < MaxCachedSkills
    BY <1>2, <2>1 DEF Room
  <2>2. CASE ~(Cardinality(full) < MaxCachedSkills)
    <3>1. full # {}
      BY <1>2, <2>2, FS_EmptySet
    <3>2. \E x \in full : \A y \in full : x <= y
      BY <1>1, <3>1, FirstPlace, SkillLibraryAssumption
    <3>3. least \in full /\ room = Without(cache, least)
      BY <2>2, <3>2 DEF Room
    <3> HIDE DEF least, room
    <3>4. /\ CacheRight(Without(cache, least)) /\ DOMAIN Without(cache, least) = full \ {least}
      BY WithoutOne
    <3>5. Cardinality(full \ {least}) = Cardinality(full) - 1 /\ IsFiniteSet(full \ {least})
      BY <1>2, <3>3, FS_RemoveElement
    <3>6. Cardinality(full) - 1 < MaxCachedSkills
      BY <1>1, <1>2
    <3> QED BY <2>2, <3>3, <3>4, <3>5, <3>6
  <2> QED BY <2>1, <2>2
<1> HIDE DEF room
<1>4. /\ DOMAIN new = DOMAIN room \cup {s} /\ new[s] = meta
      /\ \A x \in DOMAIN room : x # s => new[x] = room[x]
  BY DEF WithMeta
<1>5. Cardinality(DOMAIN room \cup {s}) <= MaxCachedSkills
  <2>1. Cardinality(DOMAIN room) \in Nat
    BY <1>3, FS_CardinalityType
  <2>2. Cardinality(DOMAIN room \cup {s}) \in {Cardinality(DOMAIN room), Cardinality(DOMAIN room) + 1}
    BY <1>3, FS_AddElement
  <2> QED BY <1>2, <1>3, <2>1, <2>2
<1> HIDE DEF new
<1>6. CacheRight(new)
  BY <1>3, <1>4, <1>5 DEF CacheRight
<1> QED BY <1>6 DEF new, room

LEMMA KeepKeeps ==
  ASSUME SLStrong, NEW w \in Browsers, KeepMetadata(w)
  PROVE  SLStrong'
<1> DEFINE c == scans[w]
           s == NextFile(c)
           k == CatalogOf[w]
           meta == c.walk.meta
           new == WithMeta(Room(metadata[k]), s, meta)
<1>1. /\ c.at = "read" /\ metaLock' = [metaLock EXCEPT ![k] = Missing]
      /\ UNCHANGED <<filevars, preferences, since, views, readings>>
      /\ \/ scans' = [scans EXCEPT ![w] = Found(c, s, meta.draft)]
            /\ metadata' = [metadata EXCEPT ![k] = new]
         \/ scans' = [scans EXCEPT ![w] = PassedOver(c, s)] /\ UNCHANGED metadata
  BY DEF KeepMetadata
<1>2. /\ CallRight(w, c) /\ k \in Catalogs /\ s \in SkillFiles /\ s \in c.walk.todo
      /\ TextRight(s, meta) /\ Seen(w, s, meta.draft)
  <2>1. CallRight(w, c)
    BY DEF SLStrong, CallsRight
  <2>2. c.walk.todo \subseteq SkillFiles /\ c.walk.todo # {}
    BY <1>1, <2>1 DEF CallRight
  <2> QED BY <1>1, <2>1, <2>2, NextIsToCome DEF Catalogs, CallRight
<1> HIDE DEF s
<1>3. CacheRight(new)
  <2>1. CacheRight(metadata[k])
    BY <1>2 DEF SLStrong, CachesRight
  <2> QED BY <1>2, <2>1, CacheTakes
<1> HIDE DEF new
<1>4. PICK d : /\ scans' = [scans EXCEPT ![w] = d] /\ CallRight(w, d) /\ d.at = "walk"
               /\ d \in {Found(c, s, meta.draft), PassedOver(c, s)}
  <2>1. meta.draft \in Drafts
    BY <1>2 DEF TextRight, Metas
  <2> QED BY <1>1, <1>2, <2>1, FoundKeeps, PassedOverKeeps
<1>5. LibraryTyped' /\ CallsRight' /\ ViewsRight' /\ ReadingsRight'
  BY <1>1, <1>4, CallGoesOn
<1>6. CachesRight'
  <2>1. CASE metadata' = [metadata EXCEPT ![k] = new]
    BY <1>1, <1>3, <2>1, CachesStep
  <2>2. CASE UNCHANGED metadata
    BY <1>1, <2>2 DEF filevars, SLStrong, CachesRight, CacheRight, TextRight
  <2> QED BY <1>1, <2>1, <2>2
<1>7. LocksRight'
  <2>1. metaLock'[k] = Missing /\ \A j \in Catalogs : j # k => metaLock'[j] = metaLock[j]
    BY <1>1, <1>2 DEF SLStrong, LocksRight
  <2>2. scans'[w] = d /\ \A v \in Browsers : v # w => scans'[v] = scans[v]
    BY <1>4 DEF SLStrong, CallsRight
  <2>3. \A v \in Browsers : CatalogOf[v] \in Catalogs /\ v # Missing
    BY SkillLibraryAssumption DEF Catalogs
  <2>4. metaLock' \in [Catalogs -> Browsers \cup {Missing}]
    BY <1>1 DEF SLStrong, LocksRight
  <2>5. metaLock[k] = w
    BY <1>1 DEF SLStrong, LocksRight
  <2> QED BY <1>4, <2>1, <2>2, <2>3, <2>4, <2>5 DEF SLStrong, LocksRight
<1> QED BY <1>5, <1>6, <1>7 DEF SLStrong

LEMMA EndScanKeeps ==
  ASSUME SLStrong, NEW w \in Browsers, EndScan(w)
  PROVE  SLStrong'
<1> DEFINE c == scans[w]
           k == CatalogOf[w]
           d == Scan("answer", c.ask, c.before, c.disabled, c.walk)
           rest == [s \in DOMAIN metadata[k] \cap c.walk.seen |-> metadata[k][s]]
<1>1. /\ c.at = "walk" /\ scans' = [scans EXCEPT ![w] = d]
      /\ UNCHANGED <<filevars, metaLock, preferences, since, views, readings>>
      /\ metadata' = metadata \/ metadata' = [metadata EXCEPT ![k] = rest]
  BY DEF EndScan, GoesOn
<1>2. /\ d.at = "answer" /\ d.ask = c.ask /\ d.before = c.before /\ d.disabled = c.disabled
      /\ d.walk = c.walk /\ d = Scan(d.at, d.ask, d.before, d.disabled, d.walk)
  BY ScanIs
<1> HIDE DEF d
<1>3. CallRight(w, d)
  <2>1. CallRight(w, c)
    BY DEF SLStrong, CallsRight
  <2> QED BY <1>1, <1>2, <2>1 DEF CallRight
<1>4. LibraryTyped' /\ CallsRight' /\ ViewsRight' /\ ReadingsRight'
  BY <1>1, <1>2, <1>3, CallGoesOn
<1>5. CachesRight'
  <2>1. CacheRight(rest)
    <3>1. CacheRight(metadata[k])
      BY DEF SLStrong, CachesRight, Catalogs
    <3> QED BY <3>1, CacheShrinks
  <2> HIDE DEF rest
  <2>2. CASE UNCHANGED metadata
    BY <1>1, <2>2 DEF filevars, SLStrong, CachesRight, CacheRight, TextRight
  <2> QED BY <1>1, <2>1, <2>2, CachesStep
<1>6. LocksRight'
  BY <1>1, <1>2 DEF SLStrong, LocksRight, CallsRight
<1> QED BY <1>4, <1>5, <1>6 DEF SLStrong

-----------------------------------------------------------------------------
(* Answers.                                                                *)

\* Ranks are at most as many as there are entries.
LEMMA RankIs ==
  ASSUME NEW list, list \subseteq SkillMarks, IsFiniteSet(list), NEW e \in list
  PROVE  Rank(list, e) \in Nat /\ Rank(list, e) >= 1 /\ Rank(list, e) <= Cardinality(list)
<1> DEFINE S == {x \in list : Before(x, e)}
<1>1. e.draft.name \in Nat /\ e.id \in Nat
  BY SkillLibraryAssumption DEF SkillMarks
<1>2. S \subseteq list \ {e}
  BY <1>1 DEF Before
<1>3. /\ IsFiniteSet(list \ {e}) /\ Cardinality(list \ {e}) = Cardinality(list) - 1
      /\ Cardinality(list) \in Nat
  BY FS_RemoveElement, FS_CardinalityType
<1> HIDE DEF S
<1>4. Cardinality(S) <= Cardinality(list \ {e}) /\ Cardinality(S) \in Nat
  BY <1>2, <1>3, FS_Subset, FS_CardinalityType
<1>5. Rank(list, e) = Cardinality(S) + 1
  BY DEF Rank, S
<1> QED BY <1>3, <1>4, <1>5

LEMMA MarkIs ==
  ASSUME NEW e
  PROVE  Mark(e).id = e.id /\ Mark(e).draft = e.draft /\ Mark(e).byHand = ByHand(e)
  BY DEF Mark

\* What a list's cursor tells apart is as finite, and has each file once.
LEMMA MarksOf ==
  ASSUME NEW list, list \subseteq SkillEntries, IsFiniteSet(list), OfEachFile(list)
  PROVE  Marks(list) \subseteq SkillMarks /\ IsFiniteSet(Marks(list)) /\ OfEachFile(Marks(list))
<1>1. ASSUME NEW e \in list PROVE Mark(e) \in SkillMarks /\ Mark(e).id = e.id
  <2>1. e.id \in SkillFiles /\ e.draft \in Drafts
    BY DEF SkillEntries
  <2> DEFINE by == ByHand(e)
  <2>2. by \in BOOLEAN
    BY DEF ByHand
  <2> HIDE DEF by
  <2>3. [id |-> e.id, draft |-> e.draft, byHand |-> by] \in SkillMarks
    BY <2>1, <2>2 DEF SkillMarks
  <2>4. Mark(e) \in SkillMarks
    BY <2>3 DEF Mark, by
  <2> QED BY <2>4, MarkIs
<1>2. IsFiniteSet(Marks(list))
  <2> DEFINE f == [e \in list |-> Mark(e)]
  <2>1. f \in Surjection(list, Marks(list))
    BY DEF Surjection, Marks
  <2> HIDE DEF f
  <2> QED BY <2>1, FS_Surjection
<1>3. OfEachFile(Marks(list))
  BY <1>1 DEF OfEachFile, Marks
<1> QED BY <1>1, <1>2, <1>3 DEF Marks

\* A page goes on where the one before ended.
LEMMA PageGoesOn ==
  ASSUME NEW list, list \subseteq SkillMarks, IsFiniteSet(list), NEW offset \in Nat,
         offset <= Cardinality(list), NEW earlier,
         earlier = {e \in list : Rank(list, e) <= offset}
  PROVE  LET end == IF offset + LookLimit < Cardinality(list) THEN offset + LookLimit
                    ELSE Cardinality(list)
             all == earlier \cup {e \in list : Rank(list, e) \in (offset + 1)..end}
         IN /\ end \in Nat /\ end <= Cardinality(list)
            /\ all = {e \in list : Rank(list, e) <= end}
            /\ end = Cardinality(list) => all = list
<1> DEFINE n == Cardinality(list)
           end == IF offset + LookLimit < n THEN offset + LookLimit ELSE n
           all == earlier \cup {e \in list : Rank(list, e) \in (offset + 1)..end}
<1>1. n \in Nat /\ LookLimit \in Nat
  BY FS_CardinalityType, SkillLibraryAssumption
<1> HIDE DEF n
<1>2. end \in Nat /\ end <= n /\ offset <= end
  BY <1>1 DEF n
<1> HIDE DEF end
<1>3. ASSUME NEW e \in list
      PROVE  Rank(list, e) <= n /\ (e \in all <=> Rank(list, e) <= end)
  <2>1. Rank(list, e) \in Nat /\ Rank(list, e) <= n
    BY RankIs DEF n
  <2>2. e \in all <=> Rank(list, e) <= offset \/ Rank(list, e) \in (offset + 1)..end
    OBVIOUS
  <2> QED BY <1>2, <2>1, <2>2
<1>4. all \subseteq list
  OBVIOUS
<1> HIDE DEF all
<1>5. all = {e \in list : Rank(list, e) <= end} /\ (end = n => all = list)
  BY <1>3, <1>4
<1> QED BY <1>2, <1>5 DEF n, end, all

\* A call that answers, or has ended.
LEMMA CallsStep ==
  ASSUME SLStrong, NEW w \in Browsers, NEW c, CallRight(w, c), scans' = [scans EXCEPT ![w] = c],
         UNCHANGED <<filevars, preferences>>,
         UNCHANGED since \/ (c.at = "idle" /\ since' = [since EXCEPT ![w] = {}])
  PROVE  /\ LibraryTyped' /\ CallsRight' /\ scans'[w] = c
         /\ \A v \in Browsers : v # w => scans'[v] = scans[v]
<1>1. /\ UNCHANGED <<library, stamps, blurred, edits, preferences>>
      /\ scans' = [v \in Browsers |-> scans'[v]] /\ scans'[w] = c
      /\ \A v \in Browsers : v # w => scans'[v] = scans[v]
      /\ since' = [v \in Browsers |-> since'[v]]
      /\ \A v \in Browsers : v # w \/ c.at # "idle" => since'[v] = since[v]
  BY DEF filevars, SLStrong, CallsRight, LibraryTyped
<1>2. LibraryTyped'
  BY <1>1 DEF SLStrong, LibraryTyped
<1>3. CallsRight'
  <2>1. ASSUME NEW v \in Browsers PROVE CallRight(v, scans'[v])
    BY <1>1, <2>1 DEF SLStrong, CallsRight
  <2>2. ASSUME NEW v \in Browsers, NEW d, CallRight(v, d), since'[v] = since[v] \/ d.at = "idle"
        PROVE  CallRight(v, d)'
    BY <1>1, <2>2 DEF CallRight, Seen, TextRight, Present
  <2> QED BY <1>1, <2>1, <2>2 DEF CallsRight
<1> QED BY <1>1, <1>2, <1>3

LEMMA IdleIs == NoScan.at = "idle" /\ \A w : CallRight(w, NoScan)
  BY ScanIs DEF NoScan, CallRight

LEMMA NoViewIs ==
  /\ NoView.marks = {} /\ NoView.upTo = 0 /\ NoView.shown = {} /\ NoView.over = FALSE
  /\ NoView.revision = 0 /\ Marks(NoView.shown) = {} /\ OfEachFile(NoView.marks)
  /\ OfEachFile(NoView.shown) /\ \A off : ShownOff(NoView.shown, off)
  BY DEF NoView, Marks, OfEachFile, ShownOff

LEMMA NoViewRight ==
  ASSUME SLStrong, NEW w \in Browsers, views'[w] = NoView, preferences' = preferences
  PROVE  ViewRight(w)'
<1>1. preferences'.revision \in Nat
  BY DEF SLStrong, LibraryTyped
<1>2. NoView.revision <= preferences'.revision
  BY <1>1, NoViewIs
<1>3. Cardinality(NoView.marks) = 0 /\ IsFiniteSet(NoView.marks)
  BY NoViewIs, FS_EmptySet
<1>4. {e \in NoView.marks : Rank(NoView.marks, e) <= NoView.upTo} = {}
  BY NoViewIs
<1> QED BY <1>2, <1>3, <1>4, NoViewIs DEF ViewRight

\* The view of one browser changes, and where its call stands.
LEMMA ViewsStep ==
  ASSUME SLStrong, NEW w \in Browsers, UNCHANGED preferences, NEW v, views' = [views EXCEPT ![w] = v],
         \A b \in Browsers : b # w => scans'[b] = scans[b],
         ViewRight(w)'
  PROVE  ViewsRight'
<1>1. /\ views' = [b \in Browsers |-> views'[b]]
      /\ \A b \in Browsers : b # w => views'[b] = views[b]
  BY DEF SLStrong, ViewsRight
<1>2. ASSUME NEW b \in Browsers, b # w PROVE ViewRight(b)'
  BY <1>1, <1>2 DEF SLStrong, ViewsRight, ViewRight
<1> QED BY <1>1, <1>2 DEF ViewsRight

\* A page, `added`, of a list with the hash of the pages before, `old`.
PageOf(list, off, offset, end, old, marks, added) ==
  /\ list \subseteq SkillEntries /\ IsFiniteSet(list) /\ OfEachFile(list)
  /\ \A e \in list : e.off <=> e.id \in off
  /\ offset \in Nat /\ end \in Nat /\ old \subseteq SkillEntries /\ OfEachFile(old)
  /\ marks = Marks(list) /\ \A m : m \in Marks(old) <=> m \in marks /\ Rank(marks, m) <= offset
  /\ \A e : e \in added <=> e \in list /\ Rank(marks, Mark(e)) \in (offset + 1)..end

LEMMA PageFits ==
  ASSUME NEW list, NEW off, NEW offset, NEW end, NEW old, NEW marks, NEW added,
         PageOf(list, off, offset, end, old, marks, added)
  PROVE  /\ \A m : m \in Marks(old \cup added) <=>
              m \in Marks(old) \/ (m \in marks /\ Rank(marks, m) \in (offset + 1)..end)
         /\ old \cup added \subseteq SkillEntries /\ OfEachFile(old \cup added)
         /\ ShownOff(old \cup added, off)
<1> USE DEF PageOf
<1>1. marks \subseteq SkillMarks /\ IsFiniteSet(marks) /\ OfEachFile(marks)
  BY MarksOf
<1>2. \A e \in list : Mark(e) \in marks
  BY DEF Marks
<1>3. \A m \in marks : \E e \in list : m = Mark(e)
  BY DEF Marks
<1>4. \A e \in old : Mark(e) \in marks /\ Rank(marks, Mark(e)) <= offset
  <2>1. \A e \in old : Mark(e) \in Marks(old)
    BY DEF Marks
  <2> QED BY <2>1
<1>5. \A m : m \in Marks(old \cup added) <=>
        m \in Marks(old) \/ (m \in marks /\ Rank(marks, m) \in (offset + 1)..end)
  <2>1. \A m : m \in Marks(added) <=> m \in marks /\ Rank(marks, m) \in (offset + 1)..end
    BY <1>2, <1>3 DEF Marks
  <2>2. Marks(old \cup added) = Marks(old) \cup Marks(added)
    BY DEF Marks
  <2> QED BY <2>1, <2>2
<1>6. ASSUME NEW a \in old, NEW b \in added, a.id = b.id PROVE FALSE
  <2>1. /\ Mark(a) \in marks /\ Mark(b) \in marks /\ Mark(a).id = a.id /\ Mark(b).id = b.id
        /\ Rank(marks, Mark(a)) <= offset /\ Rank(marks, Mark(b)) >= offset + 1
    BY <1>2, <1>4, MarkIs
  <2>2. Mark(a) = Mark(b)
    BY <1>1, <1>6, <2>1 DEF OfEachFile
  <2>3. Rank(marks, Mark(a)) \in Nat
    BY <1>1, <2>1, RankIs
  <2> QED BY <2>1, <2>2, <2>3
<1>7. OfEachFile(old \cup added)
  BY <1>6 DEF OfEachFile
<1>8. ASSUME NEW a \in old, ~a.draft.manual PROVE a.off <=> a.id \in off
  <2>1. PICK e \in list : Mark(a) = Mark(e)
    BY <1>3, <1>4
  <2>2. a.id = e.id /\ a.draft = e.draft /\ ByHand(a) = ByHand(e)
    BY <2>1, MarkIs
  <2>3. a.off \in BOOLEAN /\ e.off \in BOOLEAN
    BY DEF SkillEntries
  <2>4. (a.draft.manual \/ a.off) = (a.draft.manual \/ e.off)
    BY <2>2 DEF ByHand
  <2> QED BY <1>8, <2>2, <2>3, <2>4
<1>9. ShownOff(old \cup added, off)
  BY <1>8 DEF ShownOff
<1> QED BY <1>5, <1>7, <1>9

LEMMA AnswerListKeeps ==
  ASSUME SLStrong, NEW w \in Browsers, AnswerList(w)
  PROVE  SLStrong'
<1> DEFINE c == scans[w]
           v == views[w]
           ranked == Ranked(c)
           marks == Marks(ranked)
           offset == IF c.ask.next THEN v.upTo ELSE 0
           end == IF offset + LookLimit < Cardinality(marks) THEN offset + LookLimit
                  ELSE Cardinality(marks)
           added == {entry \in ranked : Rank(marks, Mark(entry)) \in (offset + 1)..end}
           old == IF c.ask.next THEN v.shown ELSE {}
           new == [desk |-> c.ask.kind = "desk", revision |-> c.before, marks |-> marks, upTo |-> end,
                   shown |-> old \cup added, over |-> end = Cardinality(marks)]
           d == Scan("listed", c.ask, c.before, c.disabled, c.walk)
           stale == c.ask.next /\ v.marks # marks
<1>1. /\ c.at = "answer" /\ scans' = [scans EXCEPT ![w] = d]
      /\ views' = [views EXCEPT ![w] = IF stale THEN NoView ELSE new]
      /\ UNCHANGED <<filevars, metadata, metaLock, preferences, since, readings>>
  BY DEF AnswerList, GoesOn
<1>2. /\ d.at = "listed" /\ d.ask = c.ask /\ d.before = c.before /\ d.disabled = c.disabled
      /\ d.walk = c.walk /\ d = Scan(d.at, d.ask, d.before, d.disabled, d.walk)
  BY ScanIs
<1> HIDE DEF d
<1>3. CallRight(w, c) /\ ViewRight(w)
  BY DEF SLStrong, CallsRight, ViewsRight
<1>4. CallRight(w, d)
  BY <1>1, <1>2, <1>3 DEF CallRight
<1>5. /\ LibraryTyped' /\ CallsRight' /\ scans'[w] = d
      /\ \A b \in Browsers : b # w => scans'[b] = scans[b]
  BY <1>1, <1>4, CallsStep
<1>6. /\ new.marks = marks /\ new.upTo = end /\ new.shown = old \cup added /\ new.revision = c.before
      /\ new.over = (end = Cardinality(marks))
  OBVIOUS
<1>7. /\ ranked \subseteq SkillEntries /\ IsFiniteSet(ranked) /\ OfEachFile(ranked)
      /\ \A e \in ranked : e.off <=> e.id \in c.disabled
      /\ c.before \in Nat /\ c.before <= preferences.revision
  <2>1. ranked \subseteq c.walk.found
    BY DEF Ranked
  <2>2. /\ c.walk.found \subseteq SkillEntries /\ IsFiniteSet(c.walk.found) /\ OfEachFile(c.walk.found)
        /\ \A e \in c.walk.found : e.off <=> e.id \in c.disabled
        /\ c.before \in Nat /\ c.before <= preferences.revision
    BY <1>1, <1>3 DEF CallRight
  <2> HIDE DEF ranked
  <2> QED BY <2>1, <2>2, FS_Subset DEF OfEachFile
<1> HIDE DEF ranked
<1>8. marks \subseteq SkillMarks /\ IsFiniteSet(marks) /\ OfEachFile(marks)
  BY <1>7, MarksOf
<1>9. views'[w] = IF stale THEN NoView ELSE new
  BY <1>1 DEF SLStrong, ViewsRight
<1>10. ASSUME stale PROVE ViewsRight'
  <2>1. views'[w] = NoView /\ scans'[w].at = "listed" /\ preferences' = preferences
    BY <1>1, <1>2, <1>5, <1>9, <1>10
  <2> HIDE DEF new
  <2>2. ViewRight(w)'
    BY <2>1, NoViewRight
  <2> QED BY <1>1, <1>5, <2>2, ViewsStep
<1>11. ASSUME ~stale PROVE ViewsRight'
  <2>1. /\ offset \in Nat /\ offset <= Cardinality(marks)
        /\ old \subseteq SkillEntries /\ OfEachFile(old)
        /\ Marks(old) = {m \in marks : Rank(marks, m) <= offset}
    <3>1. CASE c.ask.next
      BY <1>3, <1>11, <3>1 DEF ViewRight
    <3>2. CASE ~c.ask.next
      <4>1. offset = 0 /\ old = {} /\ Marks({}) = {} /\ Cardinality(marks) \in Nat
        BY <1>8, <3>2, FS_CardinalityType DEF Marks
      <4> HIDE DEF marks
      <4>2. {m \in marks : Rank(marks, m) <= 0} = {}
        <5>1. \A m \in marks : Rank(marks, m) \in Nat /\ Rank(marks, m) >= 1
          BY <1>8, RankIs
        <5> QED BY <5>1
      <4> QED BY <4>1, <4>2 DEF OfEachFile
    <3> QED BY <3>1, <3>2
  <2> HIDE DEF offset, old
  <2>2. /\ end \in Nat /\ end <= Cardinality(marks)
        /\ Marks(old) \cup {m \in marks : Rank(marks, m) \in (offset + 1)..end}
             = {m \in marks : Rank(marks, m) <= end}
        /\ end = Cardinality(marks) =>
             Marks(old) \cup {m \in marks : Rank(marks, m) \in (offset + 1)..end} = marks
    <3> HIDE DEF marks
    <3> QED BY <1>8, <2>1, PageGoesOn
  <2> HIDE DEF end
  <2>3. /\ Marks(old \cup added) = Marks(old) \cup {m \in marks : Rank(marks, m) \in (offset + 1)..end}
        /\ old \cup added \subseteq SkillEntries /\ OfEachFile(old \cup added)
        /\ ShownOff(old \cup added, c.disabled)
    <3> DEFINE off == c.disabled
    <3>1. offset \in Nat /\ end \in Nat
      BY <2>1, <2>2
    <3>2. \A e \in ranked : e.off <=> e.id \in off
      BY <1>7
    <3>3. /\ ranked \subseteq SkillEntries /\ IsFiniteSet(ranked) /\ OfEachFile(ranked)
          /\ old \subseteq SkillEntries /\ OfEachFile(old) /\ marks = Marks(ranked)
      BY <1>7, <2>1
    <3> HIDE DEF off, marks
    <3>4. /\ \A m : m \in Marks(old) <=> m \in marks /\ Rank(marks, m) <= offset
          /\ \A e : e \in added <=> e \in ranked /\ Rank(marks, Mark(e)) \in (offset + 1)..end
      BY <2>1
    <3> HIDE DEF added
    <3>5. /\ \A m : m \in Marks(old \cup added) <=>
               m \in Marks(old) \/ (m \in marks /\ Rank(marks, m) \in (offset + 1)..end)
          /\ old \cup added \subseteq SkillEntries /\ OfEachFile(old \cup added)
          /\ ShownOff(old \cup added, off)
      <4>1. PageOf(ranked, off, offset, end, old, marks, added)
        BY <3>1, <3>2, <3>3, <3>4 DEF PageOf
      <4> QED BY <4>1, PageFits
    <3>6. Marks(old \cup added) = Marks(old) \cup {m \in marks : Rank(marks, m) \in (offset + 1)..end}
      <4> DEFINE now == Marks(old \cup added)
                 then == Marks(old)
      <4>1. \A m : m \in now <=> m \in then \/ (m \in marks /\ Rank(marks, m) \in (offset + 1)..end)
        BY <3>5
      <4> HIDE DEF now, then
      <4>2. now = then \cup {m \in marks : Rank(marks, m) \in (offset + 1)..end}
        BY <4>1
      <4> QED BY <4>2 DEF now, then
    <3> QED BY <3>5, <3>6 DEF off
  <2> DEFINE now == old \cup added
  <2>4. /\ new.shown = now /\ Marks(now) = {m \in marks : Rank(marks, m) <= end}
        /\ (end = Cardinality(marks) => Marks(now) = marks)
    BY <1>6, <2>2, <2>3
  <2>5. now \subseteq SkillEntries /\ OfEachFile(now) /\ ShownOff(now, c.disabled)
    BY <2>3
  <2> HIDE DEF now, marks, added, new
  <2>6. ViewRight(w)'
    <3>1. views'[w] = new /\ preferences' = preferences
      BY <1>1, <1>9, <1>11
    <3>2. scans'[w].at = "listed" /\ scans'[w].before = c.before /\ scans'[w].disabled = c.disabled
      BY <1>2, <1>5
    <3> QED BY <1>6, <1>7, <1>8, <2>2, <2>4, <2>5, <3>1, <3>2 DEF ViewRight
  <2> QED BY <1>1, <1>5, <2>6, ViewsStep
<1>12. CachesRight' /\ ReadingsRight'
  BY <1>1 DEF filevars, SLStrong, CachesRight, CacheRight, TextRight, ReadingsRight, ReadWhole
<1>13. LocksRight'
  BY <1>1, <1>2, <1>5 DEF SLStrong, LocksRight
<1> QED BY <1>5, <1>10, <1>11, <1>12, <1>13 DEF SLStrong

LEMMA ReturnKeeps ==
  ASSUME SLStrong, NEW w \in Browsers, CallReturns(w)
  PROVE  SLStrong'
<1> DEFINE c == scans[w]
           v == IF c.ask.kind = "desk" /\ c.before # preferences.revision THEN NoView ELSE views[w]
<1>1. /\ c.at = "listed" /\ scans' = [scans EXCEPT ![w] = NoScan]
      /\ since' = [since EXCEPT ![w] = {}] /\ views' = [views EXCEPT ![w] = v]
      /\ UNCHANGED <<filevars, metadata, metaLock, preferences, readings>>
  BY DEF CallReturns, Ended
<1>2. CallRight(w, c) /\ ViewRight(w)
  BY DEF SLStrong, CallsRight, ViewsRight
<1>3. /\ LibraryTyped' /\ CallsRight' /\ scans'[w] = NoScan
      /\ \A b \in Browsers : b # w => scans'[b] = scans[b]
  BY <1>1, IdleIs, CallsStep
<1>4. views'[w] = v /\ preferences' = preferences
  BY <1>1 DEF SLStrong, ViewsRight
<1>5. ViewRight(w)'
  <2>1. CASE v = NoView
    BY <1>4, <2>1, NoViewRight
  <2>2. CASE v = views[w]
    <3>1. views[w].revision = preferences.revision =>
            ShownOff(views[w].shown, preferences.disabled)
      BY <1>1, <1>2 DEF ViewRight, CallRight, ShownOff
    <3> QED BY <1>2, <1>3, <1>4, <2>2, <3>1, IdleIs DEF ViewRight
  <2> QED BY <2>1, <2>2
<1>6. ViewsRight'
  BY <1>1, <1>3, <1>5, ViewsStep
<1>7. CachesRight' /\ ReadingsRight'
  BY <1>1 DEF filevars, SLStrong, CachesRight, CacheRight, TextRight, ReadingsRight, ReadWhole
<1>8. LocksRight'
  BY <1>1, <1>3, IdleIs DEF SLStrong, LocksRight
<1> QED BY <1>3, <1>6, <1>7, <1>8 DEF SLStrong

LEMMA AnswerReadKeeps ==
  ASSUME SLStrong, NEW w \in Browsers, AnswerRead(w)
  PROVE  SLStrong'
<1> DEFINE c == scans[w]
           r == readings[w]
           wanted == {e \in c.walk.found :
                        IF c.ask.file = 0 THEN e.draft.name = c.ask.name ELSE e.id = c.ask.file}
           entry == CHOOSE e \in wanted : TRUE
           text == library[entry.id]
           good == /\ Cardinality(wanted) = 1 /\ (c.ask.file = 0 => ~c.walk.cut)
                   /\ text # Missing /\ text = entry.draft
                   /\ c.ask.next => c.ask.hash /\ text = r.parts[1]
           new == IF ~good THEN NothingRead
                  ELSE [file |-> entry.id,
                        parts |-> IF c.ask.next THEN Append(r.parts, text) ELSE <<text>>]
<1>1. /\ c.at = "answer" /\ scans' = [scans EXCEPT ![w] = NoScan]
      /\ since' = [since EXCEPT ![w] = {}] /\ readings' = [readings EXCEPT ![w] = new]
      /\ UNCHANGED <<filevars, metadata, metaLock, preferences, views>>
  BY DEF AnswerRead, Ended
<1>2. CallRight(w, c) /\ r.parts \in Seq(Drafts) /\ \A i, j \in DOMAIN r.parts : r.parts[i] = r.parts[j]
  BY DEF SLStrong, CallsRight, ReadingsRight, ReadWhole
<1>3. /\ LibraryTyped' /\ CallsRight' /\ scans'[w] = NoScan
      /\ \A b \in Browsers : b # w => scans'[b] = scans[b]
  BY <1>1, IdleIs, CallsStep
<1>4. good => text \in Drafts
  <2> SUFFICES ASSUME good PROVE text \in Drafts
    OBVIOUS
  <2>1. Cardinality(wanted) = 1 /\ text = library[entry.id] /\ text # Missing
    OBVIOUS
  <2> HIDE DEF wanted
  <2>4. wanted # {}
    BY <2>1, FS_EmptySet
  <2>2. entry \in c.walk.found
    BY <2>4 DEF wanted
  <2> HIDE DEF entry
  <2>3. entry.id \in SkillFiles
    BY <1>1, <1>2, <2>2 DEF CallRight, SkillEntries
  <2> QED BY <2>1, <2>3 DEF SLStrong, LibraryTyped
<1>5. new.parts \in Seq(Drafts) /\ \A i, j \in DOMAIN new.parts : new.parts[i] = new.parts[j]
  <2> HIDE DEF text, entry, wanted
  <2>1. CASE ~good
    BY <2>1 DEF NothingRead
  <2>2. CASE good /\ ~c.ask.next
    <3>1. new.parts = <<text>>
      BY <2>2
    <3> QED BY <1>4, <2>2, <3>1
  <2>3. CASE good /\ c.ask.next
    <3>1. new.parts = Append(r.parts, text) /\ text = r.parts[1] /\ text \in Drafts
      BY <1>4, <2>3
    <3> HIDE DEF r
    <3> DEFINE q == r.parts
    <3>2. q \in Seq(Drafts) /\ Len(q) \in Nat /\ DOMAIN q = 1..Len(q)
      BY <1>2
    <3>3. \A i \in 1..Len(q) : q[i] = text
      <4> SUFFICES ASSUME NEW i \in 1..Len(q) PROVE q[i] = text
        OBVIOUS
      <4>1. 1 \in DOMAIN q /\ i \in DOMAIN q
        BY <3>2
      <4> QED BY <1>2, <3>1, <4>1
    <3>4. new.parts = Append(q, text) /\ text \in Drafts
      BY <3>1
    <3> HIDE DEF q, new
    <3>5. /\ Append(q, text) \in Seq(Drafts)
          /\ Len(Append(q, text)) = Len(q) + 1
          /\ DOMAIN Append(q, text) = 1..(Len(q) + 1)
          /\ Append(q, text)[Len(q) + 1] = text
          /\ \A i \in 1..Len(q) : Append(q, text)[i] = q[i]
      BY <3>2, <3>4
    <3>6. \A i \in 1..(Len(q) + 1) : Append(q, text)[i] = text
      BY <3>2, <3>3, <3>5
    <3>7. \A i, j \in DOMAIN Append(q, text) : Append(q, text)[i] = Append(q, text)[j]
      BY <3>5, <3>6
    <3> QED BY <3>4, <3>5, <3>7
  <2> QED BY <2>1, <2>2, <2>3
<1> HIDE DEF new
<1>6. ReadingsRight'
  BY <1>1, <1>5 DEF SLStrong, ReadingsRight, ReadWhole
<1>7. CachesRight'
  BY <1>1 DEF filevars, SLStrong, CachesRight, CacheRight, TextRight
<1>8. LocksRight' /\ ViewsRight'
  BY <1>1, <1>3, IdleIs DEF SLStrong, LocksRight, ViewsRight, ViewRight
<1> QED BY <1>3, <1>6, <1>7, <1>8 DEF SLStrong

\* What was shown of earlier preferences says so by its revision.
LEMMA PreferenceKeeps ==
  ASSUME SLStrong, NEW w \in Browsers, SetPreference(w)
  PROVE  SLStrong'
<1>1. /\ scans[w].at = "answer" /\ scans' = [scans EXCEPT ![w] = NoScan]
      /\ since' = [since EXCEPT ![w] = {}]
      /\ preferences' = preferences \/ preferences'.revision = preferences.revision + 1
      /\ UNCHANGED <<filevars, metadata, metaLock, views, readings>>
  BY DEF SetPreference, Ended
<1>2. /\ UNCHANGED <<library, stamps, blurred, edits, views, readings, metadata, metaLock>>
      /\ scans' = [v \in Browsers |-> scans'[v]] /\ scans'[w] = NoScan
      /\ \A v \in Browsers : v # w => scans'[v] = scans[v]
      /\ since' = [v \in Browsers |-> since'[v]]
      /\ \A v \in Browsers : v # w => since'[v] = since[v]
  BY <1>1 DEF filevars, SLStrong, CallsRight, LibraryTyped
<1>3. preferences.revision \in Nat
  BY DEF SLStrong, LibraryTyped
<1>4. LibraryTyped' /\ CachesRight' /\ ReadingsRight'
  BY <1>1, <1>2, <1>3
      DEF SLStrong, LibraryTyped, CachesRight, CacheRight, TextRight, ReadingsRight, ReadWhole
<1>5. CallsRight'
  <2> SUFFICES ASSUME NEW v \in Browsers, v # w PROVE CallRight(v, scans[v])'
    BY <1>2, IdleIs DEF CallsRight, CallRight
  <2>1. CallRight(v, scans[v]) /\ scans'[v] = scans[v] /\ since'[v] = since[v]
    BY <1>2 DEF SLStrong, CallsRight
  <2>2. CASE preferences' = preferences
    BY <1>2, <2>1, <2>2 DEF CallRight, Seen, TextRight, Present
  <2>3. CASE preferences'.revision = preferences.revision + 1
    <3>1. scans[v].at # "idle" =>
            /\ scans[v].before <= preferences'.revision /\ scans[v].before # preferences'.revision
      BY <1>3, <2>1, <2>3 DEF CallRight
    <3> QED BY <1>2, <2>1, <3>1 DEF CallRight, Seen, TextRight, Present
  <2> QED BY <1>1, <2>2, <2>3
<1>6. ViewsRight'
  <2> SUFFICES ASSUME NEW v \in Browsers PROVE ViewRight(v)'
    BY <1>2 DEF ViewsRight, SLStrong
  <2>1. ViewRight(v) /\ (v = w => scans[v].at = "answer" /\ scans'[v].at = "idle")
    BY <1>1, <1>2, IdleIs DEF SLStrong, ViewsRight
  <2>2. CASE preferences' = preferences
    BY <1>2, <2>1, <2>2 DEF ViewRight
  <2>3. CASE preferences'.revision = preferences.revision + 1
    <3>1. views[v].revision <= preferences'.revision /\ views[v].revision # preferences'.revision
      BY <1>3, <2>1, <2>3 DEF ViewRight
    <3> QED BY <1>2, <2>1, <3>1 DEF ViewRight
  <2> QED BY <1>1, <2>2, <2>3
<1>7. LocksRight'
  BY <1>1, <1>2, IdleIs DEF SLStrong, LocksRight
<1> QED BY <1>4, <1>5, <1>6, <1>7 DEF SLStrong

-----------------------------------------------------------------------------
(* The theorem.                                                            *)

LEMMA LibraryBegins == SLInit => SLStrong
<1> SUFFICES ASSUME SLInit PROVE SLStrong
  OBVIOUS
<1>1. LibraryTyped
  BY SkillLibraryAssumption DEF SLInit, LibraryTyped
<1>2. CachesRight
  <2>1. \A k \in Catalogs : DOMAIN metadata[k] = {}
    BY DEF SLInit
  <2>2. Cardinality({}) = 0 /\ MaxCachedSkills \in Nat
    BY FS_EmptySet, SkillLibraryAssumption
  <2>3. metadata = [k \in Catalogs |-> metadata[k]]
    BY DEF SLInit
  <2> QED BY <2>1, <2>2, <2>3 DEF CachesRight, CacheRight
<1>3. LocksRight
  <2>1. \A w \in Browsers : w # Missing /\ CatalogOf[w] \in Catalogs
    BY SkillLibraryAssumption DEF Catalogs
  <2> QED BY <2>1, IdleIs DEF SLInit, LocksRight
<1>4. CallsRight
  BY IdleIs DEF SLInit, CallsRight
<1>5. ViewsRight
  <2> SUFFICES ASSUME NEW w \in Browsers PROVE ViewRight(w)
    BY DEF SLInit, ViewsRight
  <2>1. views[w] = NoView /\ preferences.revision = 0 /\ scans[w].at = "idle"
    BY IdleIs DEF SLInit
  <2>2. Cardinality(NoView.marks) = 0 /\ IsFiniteSet(NoView.marks)
    BY NoViewIs, FS_EmptySet
  <2>3. {e \in NoView.marks : Rank(NoView.marks, e) <= NoView.upTo} = {}
    BY NoViewIs
  <2> QED BY <2>1, <2>2, <2>3, NoViewIs DEF ViewRight
<1>6. ReadingsRight
  <2>1. NothingRead.parts = <<>>
    BY DEF NothingRead
  <2>2. readings = [w \in Browsers |-> NothingRead]
    BY DEF SLInit
  <2>3. \A w \in Browsers : readings[w].parts = <<>>
    BY <2>1, <2>2
  <2>4. readings = [w \in Browsers |-> readings[w]]
    BY <2>2
  <2>5. <<>> \in Seq(Drafts) /\ DOMAIN <<>> = {}
    OBVIOUS
  <2>6. \A w \in Browsers : readings[w].parts \in Seq(Drafts) /\ DOMAIN readings[w].parts = {}
    BY <2>3, <2>5
  <2> QED BY <2>4, <2>6 DEF ReadingsRight, ReadWhole
<1> QED BY <1>1, <1>2, <1>3, <1>4, <1>5, <1>6 DEF SLStrong

\* Directories come and go without their skills.
LEMMA NothingMoves ==
  ASSUME SLStrong, UNCHANGED <<library, stamps, blurred, metadata, metaLock, preferences, scans, since,
                               views, readings, edits>>
  PROVE  SLStrong'
<1>1. LibraryTyped' /\ LocksRight' /\ ReadingsRight' /\ ViewsRight'
  BY DEF SLStrong, LibraryTyped, LocksRight, ReadingsRight, ReadWhole, ViewsRight, ViewRight
<1>2. CachesRight'
  BY DEF SLStrong, CachesRight, CacheRight, TextRight
<1>3. CallsRight'
  <2>1. \A w, c : CallRight(w, c) => CallRight(w, c)'
    BY DEF CallRight, Seen, TextRight, Present
  <2> QED BY <2>1 DEF SLStrong, CallsRight
<1> QED BY <1>1, <1>2, <1>3 DEF SLStrong

LEMMA LibraryPreserved == SLStrong /\ [SLNext]_slvars => SLStrong'
<1> SUFFICES ASSUME SLStrong, [SLNext]_slvars PROVE SLStrong'
  OBVIOUS
<1>1. CASE UNCHANGED slvars
  BY <1>1, NothingMoves DEF slvars
<1>2. ASSUME NEW p, NEW how, RootChanges(p, how) PROVE SLStrong'
  BY <1>2, NothingMoves DEF RootChanges
<1>3. ASSUME NEW s \in SkillFiles, NEW text \in Drafts \cup {Missing}, EditSkill(s, text)
      PROVE  SLStrong'
  BY <1>3, FileChanges DEF EditSkill
<1>4. ASSUME NEW i, NEW flawed, NEW s \in SkillFiles, NEW text \in Drafts,
             ApplySkillPatch(i, flawed, s, text)
      PROVE  SLStrong'
  BY <1>4, FileChanges DEF ApplySkillPatch
<1>5. ASSUME NEW w \in Browsers, NEW ask, BeginCall(w, ask) PROVE SLStrong'
  BY <1>5, BeginKeeps
<1>6. ASSUME NEW w \in Browsers,
             \/ OpenScan(w) \/ LoadMetadata(w) \/ KeepMetadata(w) \/ EndScan(w)
             \/ AnswerList(w) \/ CallReturns(w) \/ AnswerRead(w) \/ SetPreference(w)
      PROVE  SLStrong'
  BY <1>6, OpenKeeps, LoadKeeps, KeepKeeps, EndScanKeeps, AnswerListKeeps, ReturnKeeps,
     AnswerReadKeeps, PreferenceKeeps
<1> QED BY <1>1, <1>2, <1>3, <1>4, <1>5, <1>6 DEF SLNext

LEMMA LibraryMeans == SLStrong => SkillsInv
<1> SUFFICES ASSUME SLStrong PROVE SkillsInv
  OBVIOUS
<1>1. CacheTrue /\ \A k \in Catalogs : /\ DOMAIN metadata[k] \subseteq SkillFiles
                                      /\ Cardinality(DOMAIN metadata[k]) <= MaxCachedSkills
  BY DEF SLStrong, CachesRight, CacheRight, TextRight, CacheTrue
<1>2. ScanCurrent
  BY DEF SLStrong, CallsRight, CallRight, Seen, ScanCurrent
<1>3. ListWhole
  BY DEF SLStrong, ViewsRight, ViewRight, ListWhole, OfEachFile, ShownOff
<1>4. ReadWhole /\ \A w \in Browsers : scans[w].at = "read" <=> metaLock[CatalogOf[w]] = w
  BY DEF SLStrong, ReadingsRight, LocksRight
<1> QED BY <1>1, <1>2, <1>3, <1>4 DEF SkillsInv

\* Whatever editors, patches and the desktop do meanwhile, a call answers with texts
\* that there were since it began, and the pages of a list are one list, as far as the
\* hash in a cursor tells lists apart (SkillsInv).
THEOREM SkillsSafe == SLSpec => []SkillsInv
<1>1. SLInit => SLStrong
  BY LibraryBegins
<1>2. SLStrong /\ [SLNext]_slvars => SLStrong'
  BY LibraryPreserved
<1>3. SLStrong => SkillsInv
  BY LibraryMeans
<1> QED BY <1>1, <1>2, <1>3, PTL DEF SLSpec

=============================================================================
