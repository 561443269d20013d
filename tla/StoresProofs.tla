---------------------------- MODULE StoresProofs ----------------------------
(***************************************************************************)
(* Theorems about the stores: each for any instance of its component.      *)
(***************************************************************************)
EXTENDS HistoryArchive, PublicAccess, CommandGate, AuditStore, AccessLog, TaskStore,
        FiniteSetTheorems, SequenceTheorems, TLAPS

-----------------------------------------------------------------------------
(* Sequences that grow at their end.                                       *)

LEMMA PrefixMeaning ==
  ASSUME NEW S, NEW s \in Seq(S), NEW t \in Seq(S)
  PROVE  IsPrefix(s, t) <=> Len(s) <= Len(t) /\ \A i \in 1..Len(s) : s[i] = t[i]
<1>1. CASE Len(s) <= Len(t)
  <2>1. SubSeq(s, 1, Len(s)) = s
    BY SubSeqFull
  <2>2. \A i \in 1..Len(s) : t[i] \in S
    BY <1>1, ElementOfSeq
  <2>3. /\ SubSeq(t, 1, Len(s)) \in Seq(S) /\ Len(SubSeq(t, 1, Len(s))) = Len(s)
        /\ \A i \in 1..Len(s) : SubSeq(t, 1, Len(s))[i] = t[i]
    BY <2>2, SubSeqProperties
  <2>4. (\A i \in 1..Len(s) : s[i] = t[i]) => s = SubSeq(t, 1, Len(s))
    BY <2>3, SeqEqual
  <2> QED BY <1>1, <2>1, <2>3, <2>4 DEF IsPrefix
<1> QED BY <1>1 DEF IsPrefix

LEMMA PrefixTransitive ==
  ASSUME NEW S, NEW s \in Seq(S), NEW t \in Seq(S), NEW u \in Seq(S),
         IsPrefix(s, t), IsPrefix(t, u)
  PROVE  IsPrefix(s, u)
<1>1. Len(s) <= Len(t) /\ \A i \in 1..Len(s) : s[i] = t[i]
  BY PrefixMeaning
<1>2. Len(t) <= Len(u) /\ \A i \in 1..Len(t) : t[i] = u[i]
  BY PrefixMeaning
<1>3. Len(s) <= Len(u) /\ \A i \in 1..Len(s) : s[i] = u[i]
  BY <1>1, <1>2
<1> QED BY <1>3, PrefixMeaning

LEMMA PrefixItself ==
  ASSUME NEW S, NEW s \in Seq(S)
  PROVE  IsPrefix(s, s)
BY PrefixMeaning

LEMMA PrefixRange ==
  ASSUME NEW S, NEW s \in Seq(S), NEW t \in Seq(S), IsPrefix(s, t)
  PROVE  Range(s) \subseteq Range(t)
<1>1. Len(s) <= Len(t) /\ \A i \in 1..Len(s) : s[i] = t[i]
  BY PrefixMeaning
<1> QED BY <1>1 DEF Range

\* A new element at the end.
LEMMA AppendNew ==
  ASSUME NEW S, NEW s \in Seq(S), NEW x \in S, IsInjective(s), x \notin Range(s)
  PROVE  /\ Append(s, x) \in Seq(S) /\ IsPrefix(s, Append(s, x))
         /\ IsInjective(Append(s, x)) /\ x \in Range(Append(s, x))
<1> DEFINE t == Append(s, x)
<1>1. /\ t \in Seq(S) /\ Len(t) = Len(s) + 1 /\ t[Len(s) + 1] = x
      /\ \A i \in 1..Len(s) : t[i] = s[i]
  OBVIOUS
<1>2. DOMAIN s = 1..Len(s) /\ DOMAIN t = 1..(Len(s) + 1) /\ Len(s) \in Nat
  OBVIOUS
<1> HIDE DEF t
<1>3. IsPrefix(s, t)
  BY <1>1, <1>2, PrefixMeaning
<1>4. IsInjective(t)
  BY <1>1, <1>2 DEF IsInjective, Range
<1>5. x \in Range(t)
  BY <1>1, <1>2 DEF Range
<1> QED BY <1>1, <1>3, <1>4, <1>5 DEF t

-----------------------------------------------------------------------------
(* HistoryArchive.                                                         *)

Note == [turn : Turns, text : Texts]

\* The archives grow: none goes, and nothing in one changes.
Grows(d, e) ==
  /\ Len(d) <= Len(e)
  /\ \A n \in 1..Len(d) : /\ e[n].key = d[n].key
                          /\ IsPrefix(d[n].inputs, e[n].inputs)
                          /\ IsPrefix(d[n].turns, e[n].turns)
\* A record is in the archive of its session.
Archived(a, d) ==
  \E n \in DOMAIN d :
    /\ d[n].key = a.key
    /\ IF a.turn = NoText THEN a.text \in Range(d[n].inputs)
       ELSE [turn |-> a.turn, text |-> a.text] \in Range(d[n].turns)

LEMMA DocParts ==
  ASSUME NEW d \in Seq(Doc), NEW n \in 1..Len(d)
  PROVE  /\ d[n] \in Doc /\ d[n].key \in Keys
         /\ d[n].inputs \in Seq(Texts) /\ d[n].turns \in Seq(Note)
<1>1. d[n] \in Doc
  BY ElementOfSeq
<1> QED BY <1>1 DEF Doc, Note

LEMMA GrowsItself ==
  ASSUME NEW d \in Seq(Doc)
  PROVE  Grows(d, d)
<1>1. \A n \in 1..Len(d) : d[n].inputs \in Seq(Texts) /\ d[n].turns \in Seq(Note)
  BY DocParts
<1> QED BY <1>1, PrefixItself DEF Grows

LEMMA GrowsTransitive ==
  ASSUME NEW c \in Seq(Doc), NEW d \in Seq(Doc), NEW e \in Seq(Doc), Grows(c, d), Grows(d, e)
  PROVE  Grows(c, e)
<1> SUFFICES ASSUME NEW n \in 1..Len(c)
             PROVE  /\ e[n].key = c[n].key
                    /\ IsPrefix(c[n].inputs, e[n].inputs)
                    /\ IsPrefix(c[n].turns, e[n].turns)
  BY DEF Grows
<1>1. n \in 1..Len(d) /\ n \in 1..Len(e)
  BY DEF Grows
<1>2. e[n].key = c[n].key
  BY <1>1 DEF Grows
<1>3. IsPrefix(c[n].inputs, e[n].inputs)
  BY <1>1, DocParts, PrefixTransitive DEF Grows
<1>4. IsPrefix(c[n].turns, e[n].turns)
  BY <1>1, DocParts, PrefixTransitive DEF Grows
<1> QED BY <1>2, <1>3, <1>4

LEMMA GrowsKeeps ==
  ASSUME NEW d \in Seq(Doc), NEW e \in Seq(Doc), Grows(d, e), NEW a, Archived(a, d)
  PROVE  Archived(a, e)
<1>1. PICK n \in 1..Len(d) :
        /\ d[n].key = a.key
        /\ IF a.turn = NoText THEN a.text \in Range(d[n].inputs)
           ELSE [turn |-> a.turn, text |-> a.text] \in Range(d[n].turns)
  BY DEF Archived
<1>2. n \in DOMAIN e /\ n \in 1..Len(e)
  BY DEF Grows
<1>3. Range(d[n].inputs) \subseteq Range(e[n].inputs)
  BY <1>2, DocParts, PrefixRange DEF Grows
<1>4. Range(d[n].turns) \subseteq Range(e[n].turns)
  BY <1>2, DocParts, PrefixRange DEF Grows
<1>5. e[n].key = a.key
  BY <1>1 DEF Grows
<1> QED BY <1>1, <1>2, <1>3, <1>4, <1>5 DEF Archived

\* What may be called, and what a call is about.
CallOk(c) ==
  \/ c.op = "repair" /\ c.key = NoText /\ c.turn = NoText /\ c.text = NoText
  \/ c.op = "bootstrap" /\ c.key \in Keys /\ c.turn = NoText /\ c.text \in Texts \cup {NoText}
  \/ c.op = "checkpoint" /\ c.key \in Keys /\ c.turn \in Turns /\ c.text \in Texts
ArchiveCalls == [op : {"none", "bootstrap", "checkpoint", "repair"}, key : Keys \cup {NoText},
          turn : Turns \cup {NoText}, text : Texts \cup {NoText}]

\* Who works holds the lock; what it scanned is what there is, and what it has
\* written stands.
OneWorks == \A p \in Archivists : hpc[p] \notin {"idle", "lock"} => holder = p
CallsRight ==
  /\ call \in [Archivists -> ArchiveCalls]
  /\ \A p \in Archivists : hpc[p] # "idle" => CallOk(call[p])
ScanFresh == \A p \in Archivists : hpc[p] \notin {"idle", "lock", "scan"} => report[p] = docs
RecordIn == \A p \in Archivists :
  hpc[p] \notin {"idle", "lock", "write"} /\ call[p].text # NoText => Archived(call[p], docs)
DerivedFresh == \A p \in Archivists :
  /\ hpc[p] \in {"manifest", "memory", "answer"} => index \in {IndexOf(docs), Damaged}
  /\ hpc[p] \in {"memory", "answer"} => manifest \in {docs, Damaged}
  /\ hpc[p] = "answer" => memory = Damaged \/ memory.archive = docs
DerivedTyped ==
  /\ index # Damaged => index \in Seq(Keys)
  /\ manifest # Damaged => manifest \in Seq(Doc)
  /\ memory # Damaged => memory.revision \in Nat /\ memory.archive \in Seq(Doc)

HAStrong == ArchiveInv /\ OneWorks /\ CallsRight /\ ScanFresh /\ RecordIn /\ DerivedFresh
            /\ DerivedTyped

\* The record of a call in the archive of its session.
LEMMA RecordedRight ==
  ASSUME NEW r \in Seq(Doc), NEW c \in ArchiveCalls, c.op \in {"bootstrap", "checkpoint"},
         CallOk(c),
         NEW n \in 1..Len(r), n = CHOOSE x \in Numbered(r, c.key) : TRUE, r[n].key = c.key,
         IsInjective(r[n].inputs), IsInjective(r[n].turns)
  PROVE  LET d == Recorded(r, c)
         IN  /\ d \in Doc /\ d.key = c.key
             /\ IsPrefix(r[n].inputs, d.inputs) /\ IsPrefix(r[n].turns, d.turns)
             /\ IsInjective(d.inputs) /\ IsInjective(d.turns)
             /\ c.text # NoText =>
                  IF c.turn = NoText THEN c.text \in Range(d.inputs)
                  ELSE [turn |-> c.turn, text |-> c.text] \in Range(d.turns)
<1> DEFINE doc == r[n]
           note == [turn |-> c.turn, text |-> c.text]
<1>1. doc \in Doc /\ doc.inputs \in Seq(Texts) /\ doc.turns \in Seq(Note)
  BY DocParts
<1>2. IsPrefix(doc.inputs, doc.inputs) /\ IsPrefix(doc.turns, doc.turns)
  BY <1>1, PrefixItself
<1>3. CASE c.op = "checkpoint"
  <2>1. note \in Note /\ c.turn # NoText
    BY <1>3, ArchiveAssumption DEF CallOk, Note
  <2>2. CASE note \in Range(doc.turns)
    <3>1. Recorded(r, c) = doc
      BY <1>3, <2>2 DEF Recorded, Range
    <3> QED BY <1>1, <1>2, <2>1, <2>2, <3>1
  <2>3. CASE note \notin Range(doc.turns)
    <3>1. Recorded(r, c) = [doc EXCEPT !.turns = Append(doc.turns, note)]
      BY <1>3, <2>3 DEF Recorded, Range
    <3>2. /\ Append(doc.turns, note) \in Seq(Note)
          /\ IsPrefix(doc.turns, Append(doc.turns, note))
          /\ IsInjective(Append(doc.turns, note)) /\ note \in Range(Append(doc.turns, note))
      BY <1>1, <2>1, <2>3, AppendNew
    <3>3. /\ Recorded(r, c) \in Doc /\ Recorded(r, c).key = doc.key
          /\ Recorded(r, c).inputs = doc.inputs
          /\ Recorded(r, c).turns = Append(doc.turns, note)
      BY <1>1, <3>1, <3>2 DEF Doc, Note
    <3> QED BY <1>2, <2>1, <3>2, <3>3
  <2> QED BY <2>2, <2>3
<1>4. CASE c.op = "bootstrap"
  <2>1. c.turn = NoText /\ c.text \in Texts \cup {NoText}
    BY <1>4 DEF CallOk
  <2>2. CASE c.text = NoText \/ c.text \in Range(doc.inputs)
    <3>1. Recorded(r, c) = doc
      BY <1>4, <2>2 DEF Recorded
    <3> QED BY <1>1, <1>2, <2>1, <2>2, <3>1
  <2>3. CASE c.text # NoText /\ c.text \notin Range(doc.inputs)
    <3>1. Recorded(r, c) = [doc EXCEPT !.inputs = Append(doc.inputs, c.text)]
      BY <1>4, <2>3 DEF Recorded
    <3>2. /\ Append(doc.inputs, c.text) \in Seq(Texts)
          /\ IsPrefix(doc.inputs, Append(doc.inputs, c.text))
          /\ IsInjective(Append(doc.inputs, c.text))
          /\ c.text \in Range(Append(doc.inputs, c.text))
      BY <1>1, <2>1, <2>3, AppendNew
    <3>3. /\ Recorded(r, c) \in Doc /\ Recorded(r, c).key = doc.key
          /\ Recorded(r, c).turns = doc.turns
          /\ Recorded(r, c).inputs = Append(doc.inputs, c.text)
      BY <1>1, <3>1, <3>2 DEF Doc
    <3> QED BY <1>2, <2>1, <3>2, <3>3
  <2> QED BY <2>2, <2>3
<1> QED BY <1>3, <1>4

\* An archive in place of another, or behind the others.
LEMMA ReplacedGrows ==
  ASSUME NEW d \in Seq(Doc), NEW n \in 1..Len(d), NEW x \in Doc, x.key = d[n].key,
         IsPrefix(d[n].inputs, x.inputs), IsPrefix(d[n].turns, x.turns),
         NEW e, e = [d EXCEPT ![n] = x]
  PROVE  /\ e \in Seq(Doc) /\ Grows(d, e) /\ Len(e) = Len(d) /\ e[n] = x
         /\ \A m \in 1..Len(d) : m # n => e[m] = d[m]
<1>1. /\ e \in Seq(Doc) /\ Len(e) = Len(d) /\ e[n] = x
      /\ \A m \in 1..Len(d) : m # n => e[m] = d[m]
  BY ExceptSeq
<1>2. Grows(d, e)
  <2> SUFFICES ASSUME NEW m \in 1..Len(d)
               PROVE  /\ e[m].key = d[m].key
                      /\ IsPrefix(d[m].inputs, e[m].inputs) /\ IsPrefix(d[m].turns, e[m].turns)
    BY <1>1 DEF Grows
  <2>1. CASE m = n
    BY <1>1, <2>1
  <2>2. CASE m # n
    BY <1>1, <2>2, DocParts, PrefixItself
  <2> QED BY <2>1, <2>2
<1> QED BY <1>1, <1>2

LEMMA AppendedGrows ==
  ASSUME NEW d \in Seq(Doc), NEW x \in Doc
  PROVE  LET e == Append(d, x)
         IN  /\ e \in Seq(Doc) /\ Grows(d, e) /\ Len(e) = Len(d) + 1 /\ e[Len(d) + 1] = x
             /\ \A m \in 1..Len(d) : e[m] = d[m]
<1> DEFINE e == Append(d, x)
<1>1. /\ e \in Seq(Doc) /\ Len(e) = Len(d) + 1 /\ e[Len(d) + 1] = x
      /\ \A m \in 1..Len(d) : e[m] = d[m]
  OBVIOUS
<1> HIDE DEF e
<1>2. Grows(d, e)
  BY <1>1, DocParts, PrefixItself DEF Grows
<1> QED BY <1>1, <1>2 DEF e

LEMMA CreatedRight ==
  ASSUME NEW c \in ArchiveCalls, c.op = "bootstrap", CallOk(c)
  PROVE  LET d == Created(c)
         IN  /\ d \in Doc /\ d.key = c.key /\ IsInjective(d.inputs) /\ IsInjective(d.turns)
             /\ c.turn = NoText /\ (c.text # NoText => c.text \in Range(d.inputs))
<1>1. c.key \in Keys /\ c.turn = NoText /\ c.text \in Texts \cup {NoText}
  BY DEF CallOk
<1>2. IsInjective(<<>>) /\ <<>> \in Seq(Texts) /\ <<>> \in Seq(Note)
  BY DEF IsInjective
<1>3. CASE c.text = NoText
  <2>1. Created(c) = [key |-> c.key, turns |-> <<>>, inputs |-> <<>>]
    BY <1>3 DEF Created
  <2> QED BY <1>1, <1>2, <1>3, <2>1 DEF Doc, Note
<1>4. CASE c.text # NoText
  <2>1. Created(c) = [key |-> c.key, turns |-> <<>>, inputs |-> <<c.text>>]
    BY <1>4 DEF Created
  <2>2. /\ <<c.text>> \in Seq(Texts) /\ IsInjective(<<c.text>>)
        /\ c.text \in Range(<<c.text>>)
    BY <1>1, <1>4 DEF IsInjective, Range
  <2> QED BY <1>1, <1>2, <2>1, <2>2 DEF Doc, Note
<1> QED BY <1>3, <1>4

LEMMA WriteGrows ==
  ASSUME HAStrong, NEW p \in Archivists, WriteArchive(p)
  PROVE  /\ docs' \in Seq(Doc) /\ Grows(docs, docs') /\ OneArchive' /\ RecordedOnce'
         /\ call[p].text # NoText => Archived(call[p], docs')
<1> DEFINE c == call[p]
           known == Numbered(docs, c.key)
<1>1. /\ docs \in Seq(Doc) /\ report[p] = docs /\ c \in ArchiveCalls /\ CallOk(c)
      /\ OneArchive /\ RecordedOnce
  BY DEF HAStrong, ArchiveInv, HATypeOK, ScanFresh, CallsRight, WriteArchive, Is
<1>2. DOMAIN docs = 1..Len(docs) /\ Len(docs) \in Nat
  BY <1>1
<1>3. \/ c.op = "repair" /\ docs' = docs
      \/ /\ c.op # "repair" /\ known # {}
         /\ docs' = [docs EXCEPT ![CHOOSE x \in known : TRUE] = Recorded(docs, c)]
      \/ /\ c.op = "bootstrap" /\ known = {} /\ docs' = Append(docs, Created(c))
  <2>1. ASSUME c.op # "repair", known # {}
        PROVE  Recorded(docs, c) = docs[CHOOSE x \in known : TRUE] =>
                 docs = [docs EXCEPT ![CHOOSE x \in known : TRUE] = Recorded(docs, c)]
    <3>1. docs \in [1..Len(docs) -> Doc]
      BY <1>1, LenProperties
    <3>2. \A n : docs = [docs EXCEPT ![n] = docs[n]]
      BY <3>1
    <3> QED BY <3>2
  <2>2. Len(docs) + 1 \notin DOMAIN docs
    BY <1>2
  <2> QED BY <1>1, <2>1, <2>2 DEF WriteArchive
<1>4. CASE c.op = "repair" /\ docs' = docs
  BY <1>1, <1>4, GrowsItself, ArchiveAssumption DEF CallOk, OneArchive, RecordedOnce
<1>5. ASSUME c.op # "repair", known # {},
             docs' = [docs EXCEPT ![CHOOSE x \in known : TRUE] = Recorded(docs, c)]
      PROVE  /\ docs' \in Seq(Doc) /\ Grows(docs, docs') /\ OneArchive' /\ RecordedOnce'
             /\ c.text # NoText => Archived(c, docs')
  <2> DEFINE n == CHOOSE x \in known : TRUE
             x == Recorded(docs, c)
  <2>1. n \in known /\ n \in 1..Len(docs) /\ docs[n].key = c.key
    BY <1>2, <1>5 DEF Numbered
  <2>2. c.op \in {"bootstrap", "checkpoint"}
    BY <1>1, <1>5 DEF CallOk
  <2>3. /\ x \in Doc /\ x.key = c.key
        /\ IsPrefix(docs[n].inputs, x.inputs) /\ IsPrefix(docs[n].turns, x.turns)
        /\ IsInjective(x.inputs) /\ IsInjective(x.turns)
        /\ c.text # NoText =>
                  IF c.turn = NoText THEN c.text \in Range(x.inputs)
                  ELSE [turn |-> c.turn, text |-> c.text] \in Range(x.turns)
    <3> HIDE DEF c
    <3> QED BY <1>1, <1>2, <2>1, <2>2, RecordedRight DEF RecordedOnce
  <2> HIDE DEF n, x
  <2>4. docs' = [docs EXCEPT ![n] = x]
    BY <1>5 DEF n, x
  <2>5. /\ docs' \in Seq(Doc) /\ Grows(docs, docs') /\ Len(docs') = Len(docs) /\ docs'[n] = x
        /\ \A m \in 1..Len(docs) : m # n => docs'[m] = docs[m]
    <3>1. x.key = docs[n].key
      BY <2>1, <2>3
    <3>2. /\ docs \in Seq(Doc) /\ n \in 1..Len(docs) /\ x \in Doc
          /\ IsPrefix(docs[n].inputs, x.inputs) /\ IsPrefix(docs[n].turns, x.turns)
      BY <1>1, <2>1, <2>3
    <3>3. docs' \in Seq(Doc)
      BY <2>4, <3>1, <3>2, ReplacedGrows
    <3>4. Grows(docs, docs')
      BY <2>4, <3>1, <3>2, ReplacedGrows
    <3>5. Len(docs') = Len(docs) /\ docs'[n] = x
      BY <2>4, <3>1, <3>2, ReplacedGrows
    <3>6. \A m \in 1..Len(docs) : m # n => docs'[m] = docs[m]
      BY <2>4, <3>1, <3>2, ReplacedGrows
    <3> QED BY <3>3, <3>4, <3>5, <3>6
  <2>6. DOMAIN docs' = 1..Len(docs)
    BY <2>5
  <2>7. OneArchive'
    BY <1>1, <1>2, <2>1, <2>3, <2>5, <2>6 DEF OneArchive
  <2>8. RecordedOnce'
    BY <1>1, <1>2, <2>1, <2>3, <2>5, <2>6 DEF RecordedOnce
  <2>9. c.text # NoText => Archived(c, docs')
    BY <2>1, <2>3, <2>5, <2>6 DEF Archived
  <2> QED BY <2>5, <2>7, <2>8, <2>9
<1>6. ASSUME c.op = "bootstrap", known = {}, docs' = Append(docs, Created(c))
      PROVE  /\ docs' \in Seq(Doc) /\ Grows(docs, docs') /\ OneArchive' /\ RecordedOnce'
             /\ c.text # NoText => Archived(c, docs')
  <2> DEFINE x == Created(c)
  <2>1. /\ x \in Doc /\ x.key = c.key /\ IsInjective(x.inputs) /\ IsInjective(x.turns)
        /\ c.turn = NoText /\ (c.text # NoText => c.text \in Range(x.inputs))
    BY <1>1, <1>6, CreatedRight
  <2>2. \A m \in 1..Len(docs) : docs[m].key # c.key
    BY <1>2, <1>6 DEF Numbered
  <2> HIDE DEF x
  <2>3. docs' = Append(docs, x)
    BY <1>6 DEF x
  <2>4. /\ docs' \in Seq(Doc) /\ Grows(docs, docs') /\ Len(docs') = Len(docs) + 1
        /\ docs'[Len(docs) + 1] = x /\ \A m \in 1..Len(docs) : docs'[m] = docs[m]
    BY <1>1, <2>1, <2>3, AppendedGrows
  <2>5. DOMAIN docs' = 1..(Len(docs) + 1)
    BY <2>4
  <2>6. OneArchive'
    BY <1>1, <1>2, <2>1, <2>2, <2>4, <2>5 DEF OneArchive
  <2>7. RecordedOnce'
    BY <1>1, <1>2, <2>1, <2>4, <2>5 DEF RecordedOnce
  <2>8. c.text # NoText => Archived(c, docs')
    BY <1>2, <2>1, <2>4, <2>5 DEF Archived
  <2> QED BY <2>4, <2>6, <2>7, <2>8
<1> QED BY <1>3, <1>4, <1>5, <1>6

\* What is derived from a scan.
LEMMA IndexMeaning ==
  ASSUME NEW d \in Seq(Doc)
  PROVE  /\ IndexOf(d) \in Seq(Keys) /\ Len(IndexOf(d)) = Len(d)
         /\ \A n \in 1..Len(d) : IndexOf(d)[n] = d[n].key
<1>1. Len(d) \in Nat /\ DOMAIN d = 1..Len(d) /\ \A n \in 1..Len(d) : d[n].key \in Keys
  BY DocParts, LenProperties
<1>2. IndexOf(d) \in [1..Len(d) -> Keys]
  BY <1>1 DEF IndexOf
<1>3. IndexOf(d) \in Seq(Keys)
  BY <1>1, <1>2, SeqDef
<1> QED BY <1>1, <1>2, <1>3, LenProperties DEF IndexOf

LEMMA IndexGrows ==
  ASSUME NEW d \in Seq(Doc), NEW e \in Seq(Doc), Grows(d, e)
  PROVE  IsPrefix(IndexOf(d), IndexOf(e))
<1>1. Len(d) <= Len(e) /\ \A n \in 1..Len(d) : n \in 1..Len(e) /\ e[n].key = d[n].key
  BY DEF Grows
<1> QED BY <1>1, IndexMeaning, PrefixMeaning

LEMMA BehindMeaning ==
  ASSUME NEW r \in Seq(Doc)
  PROVE  /\ Behind(r) <=> Grows(r, docs)
         /\ Behind(r)' <=> Grows(r, docs')
BY DEF Behind, Grows

\* The archives grow under everything that was derived and recorded.
LEMMA GrowthKeeps ==
  ASSUME HAStrong, docs' \in Seq(Doc), Grows(docs, docs'), UNCHANGED <<derived, answered>>
  PROVE  AnsweredIsArchived' /\ DerivedBehind'
<1>1. /\ docs \in Seq(Doc) /\ DerivedTyped /\ DerivedBehind /\ AnsweredIsArchived
      /\ index' = index /\ manifest' = manifest /\ memory' = memory /\ answered' = answered
  BY DEF HAStrong, ArchiveInv, HATypeOK, derived
<1>2. AnsweredIsArchived'
  <2>1. \A a \in answered : Archived(a, docs)
    BY <1>1 DEF AnsweredIsArchived, Archived
  <2>2. \A a \in answered : Archived(a, docs')
    BY <1>1, <2>1, GrowsKeeps
  <2> QED BY <1>1, <2>2 DEF AnsweredIsArchived, Archived
<1>3. index # Damaged => IsPrefix(index, IndexOf(docs'))
  <2>1. IsPrefix(IndexOf(docs), IndexOf(docs'))
    BY <1>1, IndexGrows
  <2> QED BY <1>1, <2>1, IndexMeaning, PrefixTransitive DEF DerivedTyped, DerivedBehind
<1>4. ASSUME NEW r \in Seq(Doc), Behind(r) PROVE Behind(r)'
  BY <1>1, <1>4, BehindMeaning, GrowsTransitive
<1>5. /\ manifest # Damaged => Behind(manifest)'
      /\ memory # Damaged => Behind(memory.archive)'
  BY <1>1, <1>4 DEF DerivedTyped, DerivedBehind
<1>6. (IndexOf(docs))' = IndexOf(docs')
  BY DEF IndexOf
<1> QED BY <1>1, <1>2, <1>3, <1>5, <1>6 DEF DerivedBehind

\* Only the holder of the lock is at work.
LEMMA OthersWait ==
  ASSUME HAStrong, NEW p \in Archivists, hpc[p] \notin {"idle", "lock"}, NEW q \in Archivists,
         q # p
  PROVE  hpc[q] \in {"idle", "lock"}
BY DEF HAStrong, OneWorks

HAFrame == HATypeOK /\ OneWorks /\ CallsRight

LEMMA FrameStep ==
  ASSUME HAStrong, HANext, docs' \in Seq(Doc)
  PROVE  HAFrame'
<1> USE DEF HAFrame, HATypeOK, OneWorks, Goes, Is, Leave
<1>1. HAFrame
  BY DEF HAStrong, ArchiveInv
<1>2. ASSUME NEW p \in Archivists, Call(p) PROVE HAFrame'
  <2>1. CallsRight'
    <3>1. PICK op \in {"bootstrap", "checkpoint", "repair"}, k \in Keys,
               t \in Turns, x \in Texts \cup {NoText} :
             /\ op = "checkpoint" => x # NoText
             /\ call' = [call EXCEPT ![p] =
                  CASE op = "repair" -> [NoCall EXCEPT !.op = op]
                    [] op = "bootstrap" -> [op |-> op, key |-> k, turn |-> NoText, text |-> x]
                    [] OTHER -> [op |-> op, key |-> k, turn |-> t, text |-> x]]
      BY <1>2 DEF Call
    <3>2. CASE op = "repair"
      <4>1. call' = [call EXCEPT ![p] = [NoCall EXCEPT !.op = "repair"]]
        BY <3>1, <3>2
      <4> DEFINE c == [op |-> "repair", key |-> NoText, turn |-> NoText, text |-> NoText]
      <4>2. [NoCall EXCEPT !.op = "repair"] = c
        BY DEF NoCall
      <4>3. c \in ArchiveCalls /\ CallOk(c)
        BY DEF ArchiveCalls, CallOk
      <4> QED BY <1>1, <1>2, <4>1, <4>2, <4>3 DEF Call, CallsRight
    <3>3. CASE op = "bootstrap"
      <4> DEFINE c == [op |-> "bootstrap", key |-> k, turn |-> NoText, text |-> x]
      <4>1. call' = [call EXCEPT ![p] = c]
        BY <3>1, <3>3
      <4>2. c \in ArchiveCalls /\ CallOk(c)
        BY DEF ArchiveCalls, CallOk
      <4> QED BY <1>1, <1>2, <4>1, <4>2 DEF Call, CallsRight
    <3>4. CASE op = "checkpoint"
      <4> DEFINE c == [op |-> "checkpoint", key |-> k, turn |-> t, text |-> x]
      <4>1. call' = [call EXCEPT ![p] = c]
        BY <3>1, <3>4
      <4>2. c \in ArchiveCalls /\ CallOk(c)
        BY <3>1, <3>4 DEF ArchiveCalls, CallOk
      <4> QED BY <1>1, <1>2, <4>1, <4>2 DEF Call, CallsRight
    <3> QED BY <3>2, <3>3, <3>4
  <2> QED BY <1>1, <1>2, <2>1 DEF Call
<1>3. ASSUME NEW p \in Archivists, TakeDirectory(p) PROVE HAFrame'
  BY <1>1, <1>3, ArchiveAssumption DEF TakeDirectory, CallsRight
<1>4. ASSUME NEW p \in Archivists, RefuseTarget(p) \/ AnswerCall(p) \/ CallFails(p)
      PROVE  HAFrame'
  <2>1. hpc[p] \notin {"idle", "lock"}
    BY <1>4 DEF RefuseTarget, AnswerCall, CallFails
  <2>2. \A q \in Archivists : q # p => hpc[q] \in {"idle", "lock"}
    BY <2>1, OthersWait
  <2>3. NoCall \in ArchiveCalls /\ <<>> \in Seq(Doc)
    BY DEF NoCall, ArchiveCalls
  <2>4. CallsRight'
    BY <1>1, <1>4, <2>3 DEF RefuseTarget, AnswerCall, CallFails, CallsRight
  <2>5. hpc' = [hpc EXCEPT ![p] = "idle"] /\ holder' = "none"
        /\ report' = [report EXCEPT ![p] = <<>>]
    BY <1>4 DEF RefuseTarget, AnswerCall, CallFails
  <2>6. calls' \in Nat /\ faults' \in Nat
    BY <1>1, <1>4 DEF RefuseTarget, AnswerCall, CallFails
  <2>7. HATypeOK'
    BY <1>1, <2>3, <2>5, <2>6
  <2>8. OneWorks'
    BY <1>1, <2>2, <2>5
  <2> QED BY <2>4, <2>7, <2>8
<1>5. ASSUME NEW p \in Archivists, WriteArchive(p) \/ Rescan(p) PROVE HAFrame'
  BY <1>1, <1>5 DEF WriteArchive, Rescan, CallsRight
<1>6. ASSUME NEW p \in Archivists, WriteIndex(p) \/ WriteManifest(p) \/ WriteMemory(p)
      PROVE  HAFrame'
  BY <1>1, <1>6 DEF WriteIndex, WriteManifest, WriteMemory, CallsRight
<1>7. CASE DerivedDamaged
  BY <1>1, <1>7 DEF DerivedDamaged, CallsRight
<1> QED BY <1>2, <1>3, <1>4, <1>5, <1>6, <1>7 DEF HANext

LEMMA DocsStep ==
  ASSUME HAStrong, HANext
  PROVE  /\ docs' \in Seq(Doc) /\ Grows(docs, docs') /\ OneArchive' /\ RecordedOnce'
         /\ docs' = docs \/ \E p \in Archivists : WriteArchive(p)
<1>1. docs \in Seq(Doc) /\ OneArchive /\ RecordedOnce
  BY DEF HAStrong, ArchiveInv, HATypeOK
<1>2. docs' = docs \/ \E p \in Archivists : WriteArchive(p)
  BY DEF HANext, Call, TakeDirectory, RefuseTarget, Rescan, WriteIndex, WriteManifest,
         WriteMemory, AnswerCall, CallFails, DerivedDamaged
<1>3. CASE docs' = docs
  BY <1>1, <1>3, GrowsItself DEF OneArchive, RecordedOnce
<1> QED BY <1>2, <1>3, WriteGrows

\* What the working call knows and has written.
Fresh == ScanFresh /\ RecordIn /\ DerivedFresh

LEMMA FreshStep ==
  ASSUME HAStrong, HANext
  PROVE  Fresh'
<1> USE DEF Fresh, ScanFresh, RecordIn, DerivedFresh, Goes, Is, Leave
<1>1. Fresh /\ HAFrame /\ docs \in Seq(Doc)
  BY DEF HAStrong, ArchiveInv, HAFrame, HATypeOK
<1>2. ASSUME NEW p \in Archivists, Call(p) \/ TakeDirectory(p) PROVE Fresh'
  BY <1>1, <1>2
  DEF Call, TakeDirectory, derived, HAFrame, HATypeOK, CallsRight, Archived, IndexOf
<1>3. ASSUME NEW p \in Archivists, RefuseTarget(p) \/ AnswerCall(p) \/ CallFails(p)
      PROVE  Fresh'
  BY <1>1, <1>3 DEF RefuseTarget, AnswerCall, CallFails, derived, HAFrame, HATypeOK, CallsRight,
     Archived, IndexOf
<1>4. ASSUME NEW p \in Archivists, NEW q \in Archivists, hpc[p] \notin {"idle", "lock"},
             q # p
      PROVE  hpc[q] \in {"idle", "lock"}
  BY <1>4, OthersWait
<1>5. ASSUME NEW p \in Archivists, WriteArchive(p) PROVE Fresh'
  <2>1. hpc' = [hpc EXCEPT ![p] = "scan"] /\ UNCHANGED <<call, report>> /\ hpc[p] = "write"
    BY <1>5 DEF WriteArchive
  <2>2. \A q \in Archivists : q # p => hpc'[q] \in {"idle", "lock"}
    BY <1>1, <1>4, <2>1 DEF HAFrame, HATypeOK
  <2>3. hpc'[p] = "scan"
    BY <1>1, <2>1 DEF HAFrame, HATypeOK
  <2>4. call[p].text # NoText => Archived(call[p], docs')
    BY <1>5, WriteGrows
  <2> QED BY <2>1, <2>2, <2>3, <2>4
<1>6. ASSUME NEW p \in Archivists,
             Rescan(p) \/ WriteIndex(p) \/ WriteManifest(p) \/ WriteMemory(p)
      PROVE  Fresh'
  <2>1. /\ UNCHANGED <<docs, call>> /\ hpc[p] \notin {"idle", "lock", "write"}
        /\ \E l : hpc' = [hpc EXCEPT ![p] = l]
    BY <1>6 DEF Rescan, WriteIndex, WriteManifest, WriteMemory
  <2>2. \A q \in Archivists : q # p => hpc'[q] \in {"idle", "lock"}
    BY <1>1, <1>4, <2>1 DEF HAFrame, HATypeOK
  <2>3. RecordIn'
    BY <1>1, <2>1, <2>2
  <2>4. ScanFresh'
    BY <1>1, <1>6, <2>2 DEF Rescan, WriteIndex, WriteManifest, WriteMemory, HAFrame, HATypeOK
  <2>5. DerivedFresh'
    BY <1>1, <1>6, <2>2 DEF Rescan, WriteIndex, WriteManifest, WriteMemory, HAFrame, HATypeOK,
       IndexOf, derived
  <2> QED BY <2>3, <2>4, <2>5
<1>7. CASE DerivedDamaged
  BY <1>1, <1>7 DEF DerivedDamaged, IndexOf
<1> QED BY <1>2, <1>3, <1>5, <1>6, <1>7 DEF HANext

\* The derived files and the answers.
LEMMA FilesStep ==
  ASSUME HAStrong, HANext
  PROVE  AnsweredIsArchived' /\ DerivedBehind' /\ DerivedTyped'
<1>1. /\ docs \in Seq(Doc) /\ DerivedTyped /\ DerivedBehind /\ AnsweredIsArchived
      /\ ScanFresh /\ RecordIn
  BY DEF HAStrong, ArchiveInv, HATypeOK
<1>2. ASSUME UNCHANGED <<derived, answered>>
      PROVE  AnsweredIsArchived' /\ DerivedBehind' /\ DerivedTyped'
  BY <1>1, <1>2, DocsStep, GrowthKeeps DEF DerivedTyped, derived
<1>3. ASSUME NEW p \in Archivists, AnswerCall(p)
      PROVE  AnsweredIsArchived' /\ DerivedBehind' /\ DerivedTyped'
  <2>1. UNCHANGED <<docs, derived>>
    BY <1>3 DEF AnswerCall
  <2>2. call[p].text # NoText => Archived(call[p], docs)
    BY <1>1, <1>3 DEF AnswerCall, Is, RecordIn
  <2>3. AnsweredIsArchived'
    BY <1>1, <1>3, <2>1, <2>2 DEF AnswerCall, AnsweredIsArchived, Archived
  <2> QED BY <1>1, <2>1, <2>3 DEF DerivedBehind, DerivedTyped, derived, Behind, IndexOf
<1>4. ASSUME NEW p \in Archivists, WriteIndex(p) \/ WriteManifest(p) \/ WriteMemory(p)
      PROVE  AnsweredIsArchived' /\ DerivedBehind' /\ DerivedTyped'
  <2>1. report[p] = docs /\ UNCHANGED <<docs, answered>>
    BY <1>1, <1>4 DEF WriteIndex, WriteManifest, WriteMemory, Is, ScanFresh
  <2>2. Behind(docs) /\ IsPrefix(IndexOf(docs), IndexOf(docs)) /\ IndexOf(docs) \in Seq(Keys)
    BY <1>1, GrowsItself, BehindMeaning, IndexMeaning, PrefixItself
  <2>3. (IndexOf(docs))' = IndexOf(docs) /\ \A r : Behind(r)' <=> Behind(r)
    BY <2>1 DEF IndexOf, Behind
  <2>4. AnsweredIsArchived'
    BY <1>1, <2>1 DEF AnsweredIsArchived
  <2>5. CASE WriteIndex(p)
    BY <1>1, <2>1, <2>2, <2>3, <2>4, <2>5 DEF WriteIndex, DerivedBehind, DerivedTyped
  <2>6. CASE WriteManifest(p)
    BY <1>1, <2>1, <2>2, <2>3, <2>4, <2>6 DEF WriteManifest, DerivedBehind, DerivedTyped
  <2>7. CASE WriteMemory(p)
    <3>1. NextRevision \in Nat
      BY <1>1 DEF NextRevision, DerivedTyped
    <3>2. memory'.revision \in Nat /\ memory'.archive = docs /\ UNCHANGED <<index, manifest>>
      BY <2>1, <2>7, <3>1 DEF WriteMemory
    <3> QED BY <1>1, <2>1, <2>2, <2>3, <2>4, <3>2 DEF DerivedBehind, DerivedTyped
  <2> QED BY <1>4, <2>5, <2>6, <2>7
<1>5. CASE DerivedDamaged
  BY <1>1, <1>5 DEF DerivedDamaged, AnsweredIsArchived, DerivedBehind, DerivedTyped, Behind,
     IndexOf
<1> QED BY <1>2, <1>3, <1>4, <1>5
        DEF HANext, Call, TakeDirectory, RefuseTarget, WriteArchive, Rescan, CallFails

LEMMA HABegins == HAInit => HAStrong
<1> SUFFICES ASSUME HAInit PROVE HAStrong
  OBVIOUS
<1>1. HATypeOK /\ OneWorks /\ CallsRight
  BY DEF HAInit, HATypeOK, OneWorks, CallsRight, NoCall, ArchiveCalls
<1>2. OneArchive /\ AnsweredIsArchived /\ RecordedOnce /\ DerivedBehind /\ DerivedTyped
  BY DEF HAInit, OneArchive, AnsweredIsArchived, RecordedOnce, DerivedBehind, DerivedTyped
<1>3. ScanFresh /\ RecordIn /\ DerivedFresh
  BY DEF HAInit, ScanFresh, RecordIn, DerivedFresh
<1> QED BY <1>1, <1>2, <1>3 DEF HAStrong, ArchiveInv

LEMMA HAPreserved == HAStrong /\ [HANext]_havars => HAStrong'
<1> SUFFICES ASSUME HAStrong, [HANext]_havars PROVE HAStrong'
  OBVIOUS
<1>1. CASE HANext
  BY <1>1, DocsStep, FrameStep, FreshStep, FilesStep DEF HAStrong, ArchiveInv, HAFrame, Fresh
<1>2. CASE UNCHANGED havars
  BY <1>2 DEF HAStrong, ArchiveInv, HATypeOK, OneArchive, AnsweredIsArchived, RecordedOnce,
     DerivedBehind, Behind, IndexOf, OneWorks, CallsRight, ScanFresh, RecordIn, Archived,
     DerivedFresh, DerivedTyped, havars, derived
<1> QED BY <1>1, <1>2

LEMMA HAAlways == HASpec => []HAStrong
BY HABegins, HAPreserved, PTL DEF HASpec

\* Two callers never give a session two archives, whatever was answered is in the
\* archive of its session, once, and the derived files lag behind at most; for any
\* archivists, crashes and repetitions (tools/history).
THEOREM ArchiveSafe == HASpec => []ArchiveInv
BY HAAlways, PTL DEF HAStrong

\* An answer goes out with every derived file describing the archives as they
\* are, or lost since; archives and the revision of the state only grow.
THEOREM AnswersStayCurrent == HASpec => AnswersCurrent
<1> DEFINE Answering ==
      /\ \A p \in Archivists : hpc[p] = "answer" /\ hpc'[p] = "idle" =>
           /\ index \in {IndexOf(docs), Damaged} /\ manifest \in {docs, Damaged}
           /\ memory = Damaged \/ memory.archive = docs
      /\ Len(docs) <= Len(docs')
      /\ \A n \in DOMAIN docs : /\ IsPrefix(docs[n].inputs, docs'[n].inputs)
                                /\ IsPrefix(docs[n].turns, docs'[n].turns)
      /\ memory # Damaged /\ memory' # Damaged /\ memory' # memory
           => memory'.revision > memory.revision
<1>1. HAStrong /\ [HANext]_havars => [Answering]_havars
  <2> SUFFICES ASSUME HAStrong, HANext PROVE Answering
    OBVIOUS
  <2>1. DerivedFresh /\ DerivedTyped /\ docs \in Seq(Doc)
    BY DEF HAStrong, ArchiveInv, HATypeOK
  <2>2. ASSUME NEW p \in Archivists, hpc[p] = "answer"
        PROVE  /\ index \in {IndexOf(docs), Damaged} /\ manifest \in {docs, Damaged}
               /\ memory = Damaged \/ memory.archive = docs
    BY <2>1, <2>2 DEF DerivedFresh
  <2>3. /\ Len(docs) <= Len(docs')
        /\ \A n \in DOMAIN docs : /\ IsPrefix(docs[n].inputs, docs'[n].inputs)
                                  /\ IsPrefix(docs[n].turns, docs'[n].turns)
    BY <2>1, DocsStep DEF Grows
  <2>4. \/ memory' = memory \/ memory' = Damaged
        \/ memory'.revision = NextRevision
    <3>1. ASSUME NEW p \in Archivists, WriteMemory(p) PROVE memory'.revision = NextRevision
      BY <3>1 DEF WriteMemory
    <3>2. ASSUME NEW p \in Archivists,
                 \/ Call(p) \/ TakeDirectory(p) \/ RefuseTarget(p) \/ WriteArchive(p)
                 \/ Rescan(p) \/ WriteIndex(p) \/ WriteManifest(p)
                 \/ AnswerCall(p) \/ CallFails(p)
          PROVE  memory' = memory
      BY <3>2 DEF Call, TakeDirectory, RefuseTarget, WriteArchive, Rescan, WriteIndex,
                  WriteManifest, AnswerCall, CallFails, derived
    <3>3. DerivedDamaged => memory' = memory \/ memory' = Damaged
      BY DEF DerivedDamaged
    <3> QED BY <3>1, <3>2, <3>3 DEF HANext
  <2>5. memory # Damaged => NextRevision > memory.revision
    BY <2>1 DEF DerivedTyped, NextRevision
  <2> QED BY <2>2, <2>3, <2>4, <2>5
<1> QED BY <1>1, HAAlways, PTL DEF HASpec, AnswersCurrent

-----------------------------------------------------------------------------
(* Public access: the tunnel's processes, the settings, the code flow.     *)

\* What is counted and saved, and what a code is.
Grant == [code : Nat, visitor : Visitors, at : Nat, number : Nat, password : Nat, base : Nat]

PATyped ==
  /\ kept \in [password : Nat, secret : Nat, url : 0..urls]
  /\ service \in [number : 0..listeners, password : Nat, secret : Nat, base : 0..urls]
  /\ urls \in Nat /\ listeners \in Nat /\ tick \in Nat /\ lost \in Nat /\ made \in Nat
  /\ session \in 0..urls /\ living \subseteq 1..urls
Serving == service.number = 0 <=> service = Down

\* A running listener has the saved secret, or a restart is due, or a secret was saved
\* without one.
SecretSaved == service # Down => service.secret = kept.secret \/ due \/ silent

\* A code is in one place: with the listener, in one exchange, or spent.
CodesTyped ==
  /\ IsFiniteSet(granted) /\ granted \subseteq Grant
  /\ exchanges \in [Visitors -> granted \cup {NoCode}]
  /\ \A a \in granted : a.code \in 1..Cardinality(granted) /\ a.at <= tick
  /\ \A a, b \in granted : a.code = b.code => a = b
CodesOnce ==
  /\ pending \subseteq granted
  /\ \A v \in Visitors : exchanges[v] \notin pending
  /\ \A v, w \in Visitors : exchanges[v] = exchanges[w] /\ exchanges[v] # NoCode => v = w
  /\ \A t \in tokens : \A a \in granted :
       a.code = t.code => a \notin pending /\ \A v \in Visitors : exchanges[v] # a

PAStrong ==
  PATyped /\ Serving /\ SecretSaved /\ CodesTyped /\ CodesOnce /\ TokensEarned /\ ProcessesKnown

LEMMA PABegins == PAInit => PAStrong
<1> SUFFICES ASSUME PAInit PROVE PAStrong
  OBVIOUS
<1>1. PATyped
  BY DEF PAInit, PATyped, Down, NoUrl
<1>4. Serving /\ SecretSaved
  BY DEF PAInit, Serving, SecretSaved, Down
<1>2. CodesTyped /\ CodesOnce /\ TokensEarned
  BY FS_EmptySet DEF PAInit, CodesTyped, CodesOnce, TokensEarned, NoCode
<1>3. ProcessesKnown
  <2>1. living \ {session} = {} /\ lost = 0
    BY DEF PAInit
  <2> QED BY <2>1, FS_EmptySet DEF ProcessesKnown
<1> QED BY <1>1, <1>2, <1>3, <1>4 DEF PAStrong

\* The processes of the tunnel.
LEMMA LivingFinite ==
  ASSUME PATyped
  PROVE  /\ IsFiniteSet(living) /\ IsFiniteSet(living \ {session})
         /\ Cardinality(living \ {session}) \in Nat
         /\ Cardinality(living) \in Nat
<1>1. IsFiniteSet(living)
  <2>1. urls \in Nat /\ living \subseteq 1..urls
    BY DEF PATyped
  <2>2. IsFiniteSet(1..urls)
    BY <2>1, FS_Interval
  <2> QED BY <2>1, <2>2, FS_Subset
<1> QED BY <1>1, FS_RemoveElement, FS_CardinalityType

LEMMA OneMore ==
  ASSUME NEW S, NEW x, IsFiniteSet(S)
  PROVE  /\ IsFiniteSet(S \cup {x}) /\ Cardinality(S \cup {x}) <= Cardinality(S) + 1
         /\ Cardinality(S \cup {x}) \in Nat /\ Cardinality(S) \in Nat
BY FS_AddElement, FS_CardinalityType

\* What a step does to the processes: nothing new is unknown, or one more is lost.
LEMMA UnknownCounted ==
  ASSUME PATyped, ProcessesKnown,
         \/ living' \ {session'} \subseteq living \ {session} /\ lost' = lost
         \/ \E u : /\ living' \ {session'} \subseteq (living \ {session}) \cup {u}
                   /\ lost' = lost + 1
  PROVE  ProcessesKnown'
<1> DEFINE S == living \ {session}
<1>1. IsFiniteSet(S) /\ Cardinality(S) \in Nat /\ Cardinality(S) <= lost /\ lost \in Nat
  BY LivingFinite DEF PATyped, ProcessesKnown
<1>2. CASE living' \ {session'} \subseteq S /\ lost' = lost
  <2>1. Cardinality(living' \ {session'}) <= Cardinality(S)
    BY <1>1, <1>2, FS_Subset
  <2>2. Cardinality(living' \ {session'}) \in Nat
    BY <1>1, <1>2, FS_Subset, FS_CardinalityType
  <2> QED BY <1>1, <1>2, <2>1, <2>2 DEF ProcessesKnown
<1>3. ASSUME NEW u, living' \ {session'} \subseteq S \cup {u}, lost' = lost + 1
      PROVE  ProcessesKnown'
  <2>1. IsFiniteSet(S \cup {u}) /\ Cardinality(S \cup {u}) <= Cardinality(S) + 1
        /\ Cardinality(S \cup {u}) \in Nat
    BY <1>1, OneMore
  <2>2. Cardinality(living' \ {session'}) <= Cardinality(S \cup {u})
    BY <1>3, <2>1, FS_Subset
  <2>3. Cardinality(living' \ {session'}) \in Nat
    BY <1>3, <2>1, FS_Subset, FS_CardinalityType
  <2> QED BY <1>1, <1>3, <2>1, <2>2, <2>3 DEF ProcessesKnown
<1> QED BY <1>2, <1>3
\* Opening and closing the tunnel.
TunnelTyped ==
  /\ kept \in [password : Nat, secret : Nat, url : 0..urls]
  /\ urls \in Nat /\ lost \in Nat /\ session \in 0..urls /\ living \subseteq 1..urls

LEMMA Opened ==
  ASSUME PATyped, ProcessesKnown, OpenTunnel
  PROVE  /\ TunnelTyped' /\ ProcessesKnown' /\ urls <= urls'
         /\ kept'.password = kept.password /\ kept'.secret = kept.secret
<1> DEFINE more == urls + 1
<1>1. /\ kept \in [password : Nat, secret : Nat, url : 0..urls]
      /\ urls \in Nat /\ lost \in Nat /\ session \in 0..urls /\ living \subseteq 1..urls
      /\ more \notin living /\ living \cup {more} \subseteq 1..more
  BY DEF PATyped
<1>2. ASSUME NEW url \in Nat, NEW top \in Nat, urls <= top, url <= top, Saved(url)
      PROVE  /\ kept' \in [password : Nat, secret : Nat, url : 0..top]
             /\ kept'.password = kept.password /\ kept'.secret = kept.secret
  BY <1>1, <1>2 DEF Saved, NoUrl
<1>3. CASE session \in living
  <2>1. UNCHANGED tunnels /\ Saved(session)
    BY <1>3 DEF OpenTunnel
  <2>2. ProcessesKnown'
    BY <2>1, UnknownCounted DEF tunnels
  <2> QED BY <1>1, <1>2, <2>1, <2>2 DEF tunnels, TunnelTyped
<1>4. CASE InTime /\ Saved(session')
  <2>1. /\ urls' = more /\ session' = more /\ living' = living \cup {more} /\ lost' = lost
        /\ session \notin living \/ session \in living
    BY <1>4 DEF InTime
  <2>2. ProcessesKnown'
    <3>1. CASE session \in living
      BY <1>3, <3>1
    <3>2. CASE session \notin living
      <4>1. living' \ {session'} \subseteq living \ {session} /\ lost' = lost
        BY <2>1, <3>2
      <4> QED BY <4>1, UnknownCounted
    <3> QED BY <3>1, <3>2
  <2>3. Saved(more)
    BY <1>4, <2>1
  <2> QED BY <1>1, <1>2, <2>1, <2>2, <2>3 DEF TunnelTyped
<1>5. CASE TooLate /\ Saved(NoUrl)
  <2>1. /\ urls' = more /\ session' = session /\ living' = living \cup {more}
        /\ lost' = lost + 1
    BY <1>5 DEF TooLate
  <2>2. ProcessesKnown'
    BY <2>1, UnknownCounted
  <2> QED BY <1>1, <1>2, <1>5, <2>1, <2>2 DEF TunnelTyped, NoUrl
<1>6. CASE Fails /\ Saved(NoUrl)
  <2>1. UNCHANGED tunnels
    BY <1>6 DEF Fails
  <2>2. ProcessesKnown'
    BY <2>1, UnknownCounted DEF tunnels
  <2> QED BY <1>1, <1>2, <1>6, <2>1, <2>2 DEF tunnels, TunnelTyped, NoUrl
<1> QED BY <1>3, <1>4, <1>5, <1>6 DEF OpenTunnel

LEMMA CloseDoor ==
  ASSUME PATyped, ProcessesKnown, CloseTunnel
  PROVE  /\ session' \in 0..urls' /\ living' \subseteq 1..urls'
         /\ urls' = urls /\ lost' = lost /\ ProcessesKnown'
<1>1. /\ session' = NoUrl /\ urls' = urls /\ lost' = lost /\ living' = living \ {session}
  BY DEF CloseTunnel, Killed
<1>2. living' \ {session'} \subseteq living \ {session} /\ lost' = lost
  BY <1>1
<1>3. ProcessesKnown'
  BY <1>2, UnknownCounted
<1> QED BY <1>1, <1>3 DEF PATyped, NoUrl

\* The settings, the listener and the tunnel in every step.
AccessFrame == PATyped /\ Serving /\ SecretSaved /\ ProcessesKnown

LEMMA AccessStep ==
  ASSUME AccessFrame, PANext
  PROVE  AccessFrame'
<1>1. PATyped /\ Serving /\ SecretSaved /\ ProcessesKnown
  BY DEF AccessFrame
<1> USE DEF TunnelTyped
<1>2. CASE StartTunnel
  BY <1>1, <1>2, Opened DEF StartTunnel, AccessFrame, PATyped, Serving, SecretSaved, renewal, oauth
<1>3. CASE StopTunnel
  <2>1. UNCHANGED <<kept, made, silent, service, due, listeners, tick>> /\ CloseTunnel
    BY <1>3 DEF StopTunnel, settings, renewal
  <2>2. PATyped' /\ ProcessesKnown'
    BY <1>1, <2>1, CloseDoor DEF PATyped
  <2> QED BY <1>1, <2>1, <2>2 DEF AccessFrame, Serving, SecretSaved
<1>4. CASE TestTunnel
  <2> DEFINE more == urls + 1
  <2>1. UNCHANGED <<made, silent, service, due, listeners, tick>>
    BY <1>4 DEF TestTunnel, renewal
  <2>2. CASE /\ urls' = more /\ session' = more /\ living' = Killed \cup {more}
             /\ lost' = lost /\ Saved(more)
    <3>1. living' \ {session'} \subseteq living \ {session} /\ lost' = lost
      BY <2>2 DEF Killed
    <3>2. ProcessesKnown'
      BY <1>1, <3>1, UnknownCounted
    <3>3. PATyped' /\ kept'.secret = kept.secret
      BY <1>1, <2>1, <2>2 DEF PATyped, Killed, Saved, NoUrl
    <3> QED BY <1>1, <2>1, <3>2, <3>3 DEF AccessFrame, Serving, SecretSaved
  <2>3. CASE /\ urls' = more /\ session' = NoUrl /\ living' = Killed
             /\ UNCHANGED <<lost, kept>>
    <3>1. living' \ {session'} \subseteq living \ {session} /\ lost' = lost
      BY <2>3 DEF Killed
    <3>2. ProcessesKnown'
      BY <1>1, <3>1, UnknownCounted
    <3>3. PATyped'
      BY <1>1, <2>1, <2>3 DEF PATyped, Killed, NoUrl
    <3> QED BY <1>1, <2>1, <2>3, <3>2, <3>3 DEF AccessFrame, Serving, SecretSaved
  <2>4. CASE /\ urls' = more /\ session' = NoUrl /\ living' = Killed \cup {more}
             /\ lost' = lost + 1 /\ UNCHANGED kept
    <3>1. /\ living' \ {session'} \subseteq (living \ {session}) \cup {more}
          /\ lost' = lost + 1
      BY <2>4 DEF Killed
    <3>2. ProcessesKnown'
      BY <1>1, <3>1, UnknownCounted
    <3>3. PATyped'
      BY <1>1, <2>1, <2>4 DEF PATyped, Killed, NoUrl
    <3> QED BY <1>1, <2>1, <2>4, <3>2, <3>3 DEF AccessFrame, Serving, SecretSaved
  <2>5. CASE CloseTunnel /\ UNCHANGED kept
    <3>1. PATyped' /\ ProcessesKnown'
      BY <1>1, <2>1, <2>5, CloseDoor DEF PATyped
    <3> QED BY <1>1, <2>1, <2>5, <3>1 DEF AccessFrame, Serving, SecretSaved
  <2> QED BY <1>4, <2>2, <2>3, <2>4, <2>5 DEF TestTunnel
<1>5. CASE TunnelDies
  <2>1. /\ living' \subseteq living
        /\ UNCHANGED <<kept, made, silent, due, service, session, lost, urls, listeners, tick>>
    BY <1>5 DEF TunnelDies, settings, renewal
  <2>2. ProcessesKnown'
    BY <1>1, <2>1, UnknownCounted
  <2> QED BY <1>1, <2>1, <2>2 DEF AccessFrame, PATyped, Serving, SecretSaved
<1>6. CASE StartService
  <2>1. Listen /\ UNCHANGED <<kept, made, due, session, living, lost, urls, tick>>
    BY <1>6 DEF StartService, tunnels
  <2> QED BY <1>1, <2>1 DEF Listen, AccessFrame, PATyped, Serving, SecretSaved, ProcessesKnown,
       Down
<1>7. CASE FinishStart
  BY <1>1, <1>7, Opened DEF FinishStart, renewal, AccessFrame, PATyped, Serving, SecretSaved
<1>8. CASE StopService
  <2>1. UNCHANGED <<kept, made, due, listeners, tick>> /\ CloseTunnel /\ service' = Down
    BY <1>8 DEF StopService, settings, renewal
  <2>2. PATyped' /\ ProcessesKnown'
    BY <1>1, <2>1, CloseDoor DEF PATyped, Down, NoUrl
  <2> QED BY <1>1, <2>1, <2>2 DEF AccessFrame, Serving, SecretSaved, Down
<1>9. CASE Regenerate \/ SetSecret
  <2>1. /\ SecretChosen
        /\ due' = TRUE \/ silent' = TRUE
        /\ UNCHANGED <<service, session, living, lost, urls, listeners, tick>>
    BY <1>9 DEF Regenerate, SetSecret, tunnels
  <2>2. /\ kept' \in [password : Nat, secret : Nat, url : 0..urls] /\ made' \in Nat
        /\ kept'.url = kept.url
    <3>1. PICK n \in 0..made + 1 :
            /\ made' = made + 1
            /\ \/ kept' = [kept EXCEPT !.password = n]
               \/ kept' = [kept EXCEPT !.secret = n]
      BY <2>1 DEF SecretChosen
    <3>2. n \in Nat /\ made \in Nat /\ kept \in [password : Nat, secret : Nat, url : 0..urls]
      BY <1>1 DEF PATyped
    <3> QED BY <3>1, <3>2
  <2>3. PATyped'
    BY <1>1, <2>1, <2>2 DEF PATyped
  <2> QED BY <1>1, <2>1, <2>3 DEF AccessFrame, Serving, SecretSaved, ProcessesKnown
<1>10. CASE ScheduledRestart
  <2>1. due' = FALSE /\ UNCHANGED <<kept, made, tick>>
    BY <1>10 DEF ScheduledRestart
  <2>2. CASE service = Down /\ UNCHANGED <<service, silent, listeners, tunnels>>
    BY <1>1, <2>1, <2>2 DEF tunnels, AccessFrame, PATyped, Serving, SecretSaved, ProcessesKnown
  <2>3. CASE Listen /\ CloseTunnel
    <3>1. SecretSaved' /\ Serving'
      BY <1>1, <2>1, <2>3 DEF Listen, PATyped, SecretSaved, Serving, Down
    <3>2. PATyped' /\ ProcessesKnown'
      BY <1>1, <2>1, <2>3, CloseDoor DEF Listen, PATyped
    <3> QED BY <3>1, <3>2 DEF AccessFrame
  <2>4. CASE service' = Down /\ (CloseTunnel \/ UNCHANGED tunnels) /\ UNCHANGED <<silent, listeners>>
    <3>1. SecretSaved' /\ Serving'
      BY <2>4 DEF SecretSaved, Serving, Down
    <3>2. CASE CloseTunnel
      <4>1. PATyped' /\ ProcessesKnown'
        BY <1>1, <2>1, <2>4, <3>2, CloseDoor DEF PATyped, Down, NoUrl
      <4> QED BY <3>1, <4>1 DEF AccessFrame
    <3>3. CASE UNCHANGED tunnels
      BY <1>1, <2>1, <2>4, <3>1, <3>3
      DEF tunnels, AccessFrame, PATyped, ProcessesKnown, Down, NoUrl
    <3> QED BY <2>4, <3>2, <3>3
  <2> QED BY <1>10, <2>2, <2>3, <2>4 DEF ScheduledRestart
<1>11. CASE ApplicationEnds
  <2>1. /\ service' = Down /\ session' = NoUrl /\ living' = living
        /\ lost' = lost + Cardinality({session} \cap living)
        /\ UNCHANGED <<kept, made, urls, listeners, tick>>
    BY <1>11 DEF ApplicationEnds
  <2>2. ProcessesKnown' /\ lost' \in Nat
    <3>1. lost \in Nat
      BY <1>1 DEF PATyped
    <3>2. CASE session \in living
      <4>1. {session} \cap living = {session}
        BY <3>2
      <4>2. lost' = lost + 1
        BY <2>1, <4>1, FS_Singleton
      <4>3. living' \ {session'} \subseteq (living \ {session}) \cup {session}
        BY <2>1
      <4> QED BY <1>1, <3>1, <4>2, <4>3, UnknownCounted
    <3>3. CASE session \notin living
      <4>1. {session} \cap living = {}
        BY <3>3
      <4>2. lost' = lost
        BY <2>1, <3>1, <4>1, FS_EmptySet
      <4>3. living' \ {session'} \subseteq living \ {session}
        BY <2>1, <3>3
      <4> QED BY <1>1, <3>1, <4>2, <4>3, UnknownCounted
    <3> QED BY <3>2, <3>3
  <2>3. PATyped'
    BY <1>1, <2>1, <2>2 DEF PATyped, NoUrl, Down
  <2> QED BY <2>1, <2>2, <2>3 DEF AccessFrame, Serving, SecretSaved, Down
<1>12. ASSUME NEW v \in Visitors, Authorize(v) \/ TakeCode(v) \/ JudgeCode(v) \/ Dropped(v)
       PROVE  AccessFrame'
  <2>1. UNCHANGED <<kept, made, silent, due, service, session, living, lost, urls, listeners,
                    tick>>
    BY <1>12 DEF Authorize, TakeCode, JudgeCode, Dropped, settings, renewal, tunnels
  <2> QED BY <1>1, <2>1 DEF AccessFrame, PATyped, Serving, SecretSaved, ProcessesKnown
<1>13. CASE Tick
  BY <1>1, <1>13 DEF Tick, settings, renewal, tunnels, AccessFrame, PATyped, Serving, SecretSaved,
     ProcessesKnown
<1> QED BY <1>2, <1>3, <1>4, <1>5, <1>6, <1>7, <1>8, <1>9, <1>10, <1>11, <1>12, <1>13
        DEF PANext
\* The code flow in every step.
LEMMA CodesKept ==
  ASSUME CodesTyped, CodesOnce, TokensEarned, UNCHANGED <<granted, tokens>>,
         tick \in Nat, tick' \in Nat, tick <= tick', pending' \subseteq pending,
         \/ exchanges' = exchanges
         \/ exchanges' = [v \in Visitors |-> NoCode]
         \/ \E w \in Visitors : exchanges' = [exchanges EXCEPT ![w] = NoCode]
  PROVE  CodesTyped' /\ CodesOnce' /\ TokensEarned'
<1>1. /\ exchanges' \in [Visitors -> granted \cup {NoCode}]
      /\ \A v \in Visitors : exchanges'[v] \in {exchanges[v], NoCode}
  BY DEF CodesTyped
<1>2. NoCode \notin granted
  BY DEF CodesTyped, NoCode, Grant
<1>3. \A a \in granted : a.at \in Nat
  BY DEF CodesTyped, Grant
<1>4. CodesTyped'
  BY <1>1, <1>3 DEF CodesTyped
<1>5. CodesOnce'
  BY <1>1, <1>2 DEF CodesOnce
<1>6. TokensEarned'
  BY DEF TokensEarned
<1> QED BY <1>4, <1>5, <1>6

LEMMA CodesStep ==
  ASSUME PAStrong, PANext
  PROVE  CodesTyped' /\ CodesOnce' /\ TokensEarned'
<1>1. /\ CodesTyped /\ CodesOnce /\ TokensEarned /\ tick \in Nat
      /\ service.number \in Nat /\ service.password \in Nat /\ service.base \in Nat
      /\ urls \in Nat /\ living \subseteq Nat /\ PATyped
  BY DEF PAStrong, PATyped
<1>2. NoCode \notin granted /\ NoCode.code = 0
  BY <1>1 DEF CodesTyped, NoCode, Grant
<1>3. ASSUME NEW v \in Visitors, Authorize(v)
      PROVE  CodesTyped' /\ CodesOnce' /\ TokensEarned'
  <2>1. PICK host \in Hosts, password \in 0..made :
          LET grant == [code |-> Cardinality(granted) + 1, visitor |-> v, at |-> tick,
                        number |-> service.number, password |-> password, base |-> Base(host)]
          IN /\ pending' = {c \in pending : tick <= c.at + CodeTtl} \cup {grant}
             /\ granted' = granted \cup {grant}
             /\ UNCHANGED <<exchanges, tokens, tick>>
    BY <1>3 DEF Authorize
  <2> DEFINE code == Cardinality(granted) + 1
             grant == [code |-> code, visitor |-> v, at |-> tick,
                        number |-> service.number, password |-> password, base |-> Base(host)]
  <2>2. pending' \subseteq pending \cup {grant} /\ granted' = granted \cup {grant}
        /\ UNCHANGED <<exchanges, tokens, tick>>
    BY <2>1
  <2>3. grant \in Grant /\ grant.code = code /\ grant.at = tick
    <3>1. Base(host) \in Nat
      BY <1>1 DEF Base, Hosts, NoUrl
    <3>2. password \in Nat
      BY <1>1 DEF PATyped
    <3> QED BY <1>1, <3>1, <3>2, FS_CardinalityType DEF Grant, CodesTyped
  <2>4. grant \notin granted /\ Cardinality(granted) \in Nat
        /\ \A a \in granted : a.code # code /\ a.code \in 1..Cardinality(granted)
    BY <1>1, <2>3, FS_CardinalityType DEF CodesTyped
  <2> HIDE DEF grant
  <2>5. IsFiniteSet(granted') /\ Cardinality(granted') = code
    BY <1>1, <2>2, <2>4, FS_AddElement DEF CodesTyped
  <2>6. CodesTyped'
    <3>1. \A a \in granted' : a.code \in 1..Cardinality(granted') /\ a.at <= tick'
      BY <1>1, <2>2, <2>3, <2>4, <2>5 DEF CodesTyped
    <3>2. \A a, b \in granted' : a.code = b.code => a = b
      BY <1>1, <2>2, <2>3, <2>4 DEF CodesTyped
    <3>3. exchanges' \in [Visitors -> granted' \cup {NoCode}] /\ granted' \subseteq Grant
      BY <1>1, <2>2, <2>3 DEF CodesTyped
    <3> QED BY <2>5, <3>1, <3>2, <3>3 DEF CodesTyped
  <2>7. TokensEarned'
    BY <1>1, <2>2 DEF TokensEarned
  <2>8. CodesOnce'
    <3>1. grant # NoCode /\ grant \notin granted
      BY <1>2, <2>3, <2>4
    <3>2. \A w \in Visitors : exchanges[w] # grant
      BY <1>1, <3>1 DEF CodesTyped
    <3>3. \A t \in tokens : t.code # code
      BY <1>1, <2>4 DEF TokensEarned
    <3> QED BY <1>1, <2>2, <2>3, <3>2, <3>3 DEF CodesOnce
  <2> QED BY <2>6, <2>7, <2>8
<1>4. ASSUME NEW v \in Visitors, TakeCode(v)
      PROVE  CodesTyped' /\ CodesOnce' /\ TokensEarned'
  <2>1. PICK c \in pending : /\ pending' = pending \ {c} /\ exchanges[v] = NoCode
                             /\ exchanges' = [exchanges EXCEPT ![v] = c]
                             /\ UNCHANGED <<granted, tokens, tick>>
    BY <1>4 DEF TakeCode
  <2>2. c \in granted
    BY <1>1 DEF CodesOnce
  <2>3. CodesTyped' /\ TokensEarned'
    BY <1>1, <2>1, <2>2 DEF CodesTyped, TokensEarned
  <2>4. \A w \in Visitors : exchanges'[w] = IF w = v THEN c ELSE exchanges[w]
    BY <1>1, <2>1 DEF CodesTyped
  <2>5. \A w \in Visitors : exchanges[w] # c
    BY <1>1 DEF CodesOnce
  <2>6. CodesOnce'
    BY <1>1, <2>1, <2>2, <2>4, <2>5 DEF CodesOnce
  <2> QED BY <2>3, <2>6
<1>5. ASSUME NEW v \in Visitors, JudgeCode(v)
      PROVE  CodesTyped' /\ CodesOnce' /\ TokensEarned'
  <2> DEFINE c == exchanges[v]
             token == [nth |-> Cardinality(tokens) + 1, code |-> c.code, visitor |-> v,
                       at |-> tick, number |-> service.number, secret |-> service.secret,
                       url |-> c.base]
  <2>1. /\ c # NoCode /\ service.number = c.number
        /\ exchanges' = [exchanges EXCEPT ![v] = NoCode] /\ UNCHANGED <<pending, granted, tick>>
        /\ tokens' = IF tick <= c.at + CodeTtl /\ c.visitor = v THEN tokens \cup {token}
                     ELSE tokens
    BY <1>5 DEF JudgeCode
  <2>2. c \in granted /\ c.at <= tick /\ c \notin pending
    BY <1>1, <2>1 DEF CodesTyped, CodesOnce
  <2>3. CASE tokens' = tokens
    <3> HIDE DEF token, c
    <3>1. /\ UNCHANGED <<granted, tokens>> /\ tick' \in Nat /\ tick <= tick'
          /\ pending' \subseteq pending
      BY <1>1, <2>1, <2>3
    <3>2. \E w \in Visitors : exchanges' = [exchanges EXCEPT ![w] = NoCode]
      BY <2>1
    <3> QED BY <1>1, <3>1, <3>2, CodesKept
  <2>4. CASE tokens' = tokens \cup {token} /\ tick <= c.at + CodeTtl /\ c.visitor = v
    <3>1. \A t \in tokens : t.code # c.code
      BY <1>1, <2>2 DEF CodesOnce
    <3>2. /\ token.code = c.code /\ token.visitor = v /\ token.at = tick
          /\ token.number = service.number /\ token.url = c.base
      OBVIOUS
    <3> HIDE DEF token, c
    <3>3. TokensEarned'
      <4>1. \A t, u \in tokens' : t.code = u.code => t = u
        BY <1>1, <2>4, <3>1, <3>2 DEF TokensEarned
      <4>2. \A t \in tokens' : \E a \in granted :
              /\ a.code = t.code /\ a.visitor = t.visitor /\ a.number = t.number
              /\ a.base = t.url /\ a.at <= t.at /\ t.at <= a.at + CodeTtl
        BY <1>1, <2>1, <2>2, <2>4, <3>2 DEF TokensEarned
      <4> QED BY <2>1, <4>1, <4>2 DEF TokensEarned
    <3>4. /\ CodesTyped'
          /\ \A w \in Visitors : exchanges'[w] = IF w = v THEN NoCode ELSE exchanges[w]
      BY <1>1, <2>1 DEF CodesTyped
    <3>5. \A a \in granted : a.code = c.code => a = c
      BY <1>1, <2>2 DEF CodesTyped
    <3>6. CodesOnce'
      BY <1>1, <1>2, <2>1, <2>2, <2>4, <3>2, <3>4, <3>5 DEF CodesOnce, c
    <3> QED BY <3>3, <3>4, <3>6
  <2> QED BY <2>1, <2>3, <2>4
<1>6. ASSUME \/ StartTunnel \/ StopTunnel \/ TestTunnel \/ TunnelDies \/ StartService
             \/ FinishStart \/ StopService \/ Regenerate \/ SetSecret \/ ScheduledRestart
             \/ ApplicationEnds \/ Tick \/ \E v \in Visitors : Dropped(v)
      PROVE  CodesTyped' /\ CodesOnce' /\ TokensEarned'
  <2>1. UNCHANGED <<granted, tokens>> /\ tick' \in Nat /\ tick <= tick'
    BY <1>1, <1>6
    DEF StartTunnel, StopTunnel, TestTunnel, TunnelDies, StartService, FinishStart,
       StopService, Regenerate, SetSecret, ScheduledRestart, ApplicationEnds, Tick, Dropped, oauth
  <2>2. pending' \subseteq pending
    BY <1>6
    DEF StartTunnel, StopTunnel, TestTunnel, TunnelDies, StartService, FinishStart, Listen,
       StopService, Regenerate, SetSecret, ScheduledRestart, ApplicationEnds, Tick, Dropped, oauth
  <2>3. \/ exchanges' = exchanges
        \/ exchanges' = [v \in Visitors |-> NoCode]
        \/ \E w \in Visitors : exchanges' = [exchanges EXCEPT ![w] = NoCode]
    BY <1>6 DEF StartTunnel, StopTunnel, TestTunnel, TunnelDies, StartService, FinishStart,
       StopService, Regenerate, SetSecret, ScheduledRestart, ApplicationEnds, Tick, Dropped, oauth
  <2> QED BY <1>1, <2>1, <2>2, <2>3, CodesKept
<1> QED BY <1>3, <1>4, <1>5, <1>6 DEF PANext

LEMMA PAPreserved == PAStrong /\ [PANext]_pavars => PAStrong'
<1> SUFFICES ASSUME PAStrong, [PANext]_pavars PROVE PAStrong'
  OBVIOUS
<1>1. CASE PANext
  BY <1>1, AccessStep, CodesStep DEF PAStrong, AccessFrame
<1>2. CASE UNCHANGED pavars
  BY <1>2 DEF PAStrong, PATyped, Serving, SecretSaved, CodesTyped, CodesOnce, TokensEarned,
     ProcessesKnown, pavars
<1> QED BY <1>1, <1>2

\* A code earns at most one token, for the visitor that was authorised, from the
\* listener that issues it; accepted tokens carry the saved secret, or a restart
\* is due, or a secret was saved without one since the listener began; no unknown
\* tunnel process runs but those that were left behind; for any visitors and bounds
\* (oauth_flow.rs, secrets.rs, tunnel/cloudflare.rs).
THEOREM PublicSafe == PASpec => []PublicInv
<1>1. PAStrong => PublicInv
  <2> SUFFICES ASSUME PAStrong PROVE PublicInv
    OBVIOUS
  <2>1. PATyped /\ CodesOnce /\ SecretSaved /\ TokensEarned /\ ProcessesKnown
    BY DEF PAStrong
  <2>2. OldSecretsEnd
    BY <2>1 DEF OldSecretsEnd, Accepts, SecretSaved
  <2>3. /\ service.number \in 0..listeners /\ session \in 0..urls /\ living \subseteq 1..urls
        /\ kept.url \in 0..urls /\ pending \subseteq granted
    BY <2>1 DEF PATyped, CodesOnce
  <2> QED BY <2>1, <2>2, <2>3 DEF PublicInv
<1> QED BY <1>1, PABegins, PAPreserved, PTL DEF PASpec

-----------------------------------------------------------------------------
(* The gate of the commands.                                               *)

Stages == {"idle", "complete", "policy", "locate", "resolve", "launch", "wait", "record"}
Ends == {"none", "policy", "folder", "task", "program", "builtin", "launch", "wait", "stdin",
         "timeout", "ran"}
GateCalls ==
  [at : Stages, want : Wanted \cup {NoWant}, nth : Nat, audited : Folders \cup {NoFolder},
   dir : Folders \cup {NoFolder}, found : {"none", "inside", "installed", "path"},
   started : BOOLEAN, outcome : Ends, changes : Nat, moves : Nat]

GateTyped ==
  /\ cwd \in Folders /\ moving \in Folders \cup {NoFolder}
  /\ changes \in Nat /\ moves \in Nat /\ runs \in Nat
  /\ run \in [Runners -> GateCalls]
  /\ \A d \in done : d.nth \in 1..runs
  /\ \A l \in launched : l.nth \in 1..runs

\* What a preflight would say now, and what it means for an outcome.
Passes(want) ==
  LET f == Completed(want, cwd)
  IN /\ PolicyAccepts(want, f, want.dir # NoFolder \/ f # Root)
     /\ folder[f] = "inside"
     /\ ProgramFound(want, f) # "none"
     /\ want.task => want.durable /\ want.request
Foreseen(want, end) ==
  /\ Passes(want) => end \notin Refusals
  /\ ~Passes(want) /\ want.builtin = "no" => end \in Refusals

\* Nothing was changed or moved since.
Stands(r) == r.changes = changes /\ r.moves = moves
Earlier(r) == r.changes \in 0..changes /\ r.moves \in 0..moves

\* A call that stands has passed what a preflight would look at.
Progress(r) ==
  LET named == r.want.dir # NoFolder \/ r.dir # Root
  IN /\ r.at \in Stages \ {"idle", "complete"} => r.dir = Completed(r.want, cwd)
     /\ r.at \in {"locate", "resolve", "launch", "wait"} => PolicyAccepts(r.want, r.dir, named)
     /\ r.at \in {"resolve", "launch", "wait"} =>
          /\ folder[r.dir] = "inside" /\ r.want.builtin = "no"
          /\ r.want.task => r.want.durable
     /\ r.at \in {"launch", "wait"} =>
          /\ ProgramFound(r.want, r.dir) # "none"
          /\ r.want.task => r.want.request
     /\ r.at = "record" => Foreseen(r.want, r.outcome)

\* The record's directory is the used one, unless the default was moved.
DefaultMoved(r) == r.want.dir = NoFolder /\ ~r.want.task /\ moves > r.moves
Audit(r) ==
  /\ r.at = "complete" => r.audited = Completed(r.want, cwd) \/ DefaultMoved(r)
  /\ r.at \in Stages \ {"idle", "complete"} =>
       r.dir = r.audited \/ DefaultMoved(r)

\* A call's process is known by the call's number.
Begun(r) ==
  /\ r.at # "idle" => (r.started <=> \E l \in launched : l.nth = r.nth)
  /\ r.at \in Stages \ {"wait", "record"} => ~r.started
  /\ r.at = "record" /\ r.started /\ r.outcome # "ran" => Overtaken(r.want, r.outcome)

\* Of one call.
RightlyAt(r) ==
  r.at # "idle" =>
    /\ r.want \in Wanted /\ r.nth \in 1..runs /\ Earlier(r)
    /\ Stands(r) => Progress(r)
    /\ Audit(r) /\ Begun(r)
ServedAll == \A c \in Runners : RightlyAt(run[c])

\* Numbers are given once.
NumbersOnce ==
  /\ \A c, e \in Runners : run[c].at # "idle" /\ run[e].at # "idle" /\ run[c].nth = run[e].nth
       => c = e
  /\ \A c \in Runners, d \in done : run[c].at # "idle" => run[c].nth # d.nth

Done ==
  \A d \in done : /\ d.want \in Wanted /\ Earlier(d)
                  /\ Stands(d) => Foreseen(d.want, d.outcome)

Forecast ==
  forecast.want = NoWant \/
    /\ Earlier(forecast)
    /\ Stands(forecast) =>
         /\ forecast.ok \/ forecast.grant = "granted" => Passes(forecast.want)
         /\ ~forecast.ok => ~Passes(forecast.want)

GateStrong ==
  /\ GateTyped /\ ServedAll /\ NumbersOnce /\ Done /\ Forecast /\ RecordsTrue /\ ErrorsHarmless

LEMMA GateImplies == GateStrong => GateInv
<1> SUFFICES ASSUME GateStrong PROVE GateInv
  OBVIOUS
<1>1. ForecastsHold
  <2> SUFFICES ASSUME NEW d \in done, forecast.want = d.want, forecast.changes = d.changes,
                      forecast.moves = d.moves, d.changes = changes, d.moves = moves
               PROVE  /\ forecast.ok \/ forecast.grant = "granted"
                           => d.outcome \notin Refusals
                      /\ ~forecast.ok /\ d.want.builtin = "no" => d.outcome \in Refusals
    BY DEF ForecastsHold
  <2>1. d.want \in Wanted /\ Foreseen(d.want, d.outcome)
    BY DEF GateStrong, Done, Stands
  <2>2. forecast.want # NoWant
    BY <2>1, GateAssumption
  <2>3. /\ forecast.ok \/ forecast.grant = "granted" => Passes(d.want)
        /\ ~forecast.ok => ~Passes(d.want)
    BY <2>2 DEF GateStrong, Forecast, Stands
  <2> QED BY <2>1, <2>3 DEF Foreseen
<1>2. \A c \in Runners : run[c].audited \in Folders \cup {NoFolder}
  BY DEF GateStrong, GateTyped, GateCalls
<1> QED BY <1>1, <1>2 DEF GateStrong, GateTyped, GateInv

LEMMA UnaskedTyped == Unasked \in GateCalls /\ Unasked.at = "idle"
BY DEF Unasked, GateCalls, Stages, Ends

LEMMA GateBegins == CGInit => GateStrong
<1> SUFFICES ASSUME CGInit PROVE GateStrong
  OBVIOUS
<1>1. run \in [Runners -> GateCalls] /\ \A c \in Runners : run[c].at = "idle"
  BY UnaskedTyped DEF CGInit
<1>2. GateTyped
  BY <1>1, GateAssumption DEF CGInit, GateTyped
<1>3. ServedAll /\ NumbersOnce
  BY <1>1 DEF ServedAll, NumbersOnce, RightlyAt
<1>4. Done /\ Forecast /\ RecordsTrue /\ ErrorsHarmless
  BY DEF CGInit, Done, Forecast, RecordsTrue, ErrorsHarmless
<1> QED BY <1>2, <1>3, <1>4 DEF GateStrong

LEMMA CompletedTyped ==
  ASSUME NEW want \in Wanted, NEW f \in Folders
  PROVE  Completed(want, f) \in Folders
BY GateAssumption DEF Completed
\* What does not depend on the calls.
LEMMA SameSurroundings ==
  ASSUME UNCHANGED <<surroundings, cwd, moves>>
  PROVE  /\ \A w, f, n : PolicyAccepts(w, f, n)' <=> PolicyAccepts(w, f, n)
         /\ \A w, f : ProgramFound(w, f)' = ProgramFound(w, f)
         /\ \A w, e : Foreseen(w, e)' <=> Foreseen(w, e)
         /\ \A w : Passes(w)' <=> Passes(w)
         /\ \A r : DefaultMoved(r)' <=> DefaultMoved(r)
         /\ \A r : Audit(r)' <=> Audit(r)
         /\ \A r : Progress(r)' <=> Progress(r)
         /\ \A r : Stands(r)' <=> Stands(r)
         /\ \A r : Earlier(r)' <=> Earlier(r)
<1>0. folder' = folder /\ entry' = entry /\ changes' = changes /\ cwd' = cwd /\ moves' = moves
  BY DEF surroundings
<1>1. \A w, f, n : PolicyAccepts(w, f, n)' <=> PolicyAccepts(w, f, n)
  BY <1>0 DEF PolicyAccepts, Resolves, Beside, TextAccepted
<1>2. \A w, f : ProgramFound(w, f)' = ProgramFound(w, f)
  BY <1>0 DEF ProgramFound, Beside
<1>3. \A w : Passes(w)' <=> Passes(w)
  BY <1>0, <1>1, <1>2 DEF Passes
<1>4. \A w, e : Foreseen(w, e)' <=> Foreseen(w, e)
  BY <1>3 DEF Foreseen
<1>5. \A r : DefaultMoved(r)' <=> DefaultMoved(r)
  BY <1>0 DEF DefaultMoved
<1>6. \A r : Audit(r)' <=> Audit(r)
  BY <1>0, <1>5 DEF Audit
<1>7. \A r : Progress(r)' <=> Progress(r)
  BY <1>0, <1>1, <1>2, <1>4 DEF Progress
<1>8. \A r : Stands(r)' <=> Stands(r)
  BY <1>0 DEF Stands
<1>9. \A r : Earlier(r)' <=> Earlier(r)
  BY <1>0 DEF Earlier
<1> QED BY <1>1, <1>2, <1>3, <1>4, <1>5, <1>6, <1>7, <1>8, <1>9

\* Once something was changed or moved, no earlier prediction stands.
LEMMA NothingStands ==
  ASSUME changes \in Nat, moves \in Nat, changes' \in Nat, moves' \in Nat,
         changes <= changes', moves <= moves', changes < changes' \/ moves < moves'
  PROVE  \A r : Earlier(r) => Earlier(r)' /\ ~Stands(r)'
BY DEF Earlier, Stands

\* A step of a call under way that starts no other call's process.
LEMMA CallMoves ==
  ASSUME GateStrong, NEW c \in Runners, run[c].at # "idle",
         run' \in [Runners -> GateCalls], \A e \in Runners : e # c => run'[e] = run[e],
         run'[c].nth = run[c].nth, RightlyAt(run[c])',
         UNCHANGED <<RestOfGate, done>>,
         launched' = launched \/ \E l : l.nth = run[c].nth /\ launched' = launched \cup {l}
  PROVE  GateStrong'
<1>1. /\ GateTyped /\ ServedAll /\ NumbersOnce /\ Done /\ Forecast /\ RecordsTrue
      /\ ErrorsHarmless
  BY DEF GateStrong
<1>2. UNCHANGED <<surroundings, cwd, moves>> /\ UNCHANGED <<changes, moving, runs, forecast>>
  BY DEF RestOfGate, surroundings
<1>3. run[c].nth \in 1..runs
  BY <1>1 DEF ServedAll, RightlyAt
<1>4. GateTyped'
  BY <1>1, <1>2, <1>3 DEF GateTyped
<1>5. \A e \in Runners : e # c /\ run[e].at # "idle" =>
        ((\E m \in launched' : m.nth = run[e].nth) <=> (\E m \in launched : m.nth = run[e].nth))
  BY <1>1 DEF NumbersOnce
<1>6. ServedAll'
  <2> SUFFICES ASSUME NEW e \in Runners, e # c PROVE RightlyAt(run[e])'
    BY DEF ServedAll
  <2>1. RightlyAt(run[e]) /\ run'[e] = run[e] /\ runs' = runs
    BY <1>1, <1>2 DEF ServedAll
  <2>2. run[e].at # "idle" => (Begun(run[e]) <=> Begun(run[e])')
    BY <1>5, <2>1 DEF Begun
  <2>3. /\ Stands(run[e])' <=> Stands(run[e])
        /\ Earlier(run[e])' <=> Earlier(run[e])
        /\ Progress(run[e])' <=> Progress(run[e])
        /\ Audit(run[e])' <=> Audit(run[e])
    BY <1>2, <2>1, SameSurroundings
  <2> QED BY <2>1, <2>2, <2>3 DEF RightlyAt
<1>7. NumbersOnce'
  BY <1>1 DEF NumbersOnce
<1>8. Done' /\ Forecast'
  <2>1. /\ \A r : Stands(r)' <=> Stands(r)
        /\ \A r : Earlier(r)' <=> Earlier(r)
        /\ \A w, e : Foreseen(w, e)' <=> Foreseen(w, e)
        /\ \A w : Passes(w)' <=> Passes(w)
    BY <1>2, SameSurroundings
  <2>2. Done'
    BY <1>1, <2>1 DEF Done
  <2>3. Forecast'
    BY <1>1, <1>2, <2>1 DEF Forecast
  <2> QED BY <2>2, <2>3
<1>9. RecordsTrue'
  BY <1>1, <1>2 DEF RecordsTrue
<1>10. ErrorsHarmless'
  BY <1>1 DEF ErrorsHarmless, NumbersOnce
<1> QED BY <1>4, <1>6, <1>7, <1>8, <1>9, <1>10 DEF GateStrong
\* The same, from what the call becomes.
LEMMA GoesOn ==
  ASSUME GateStrong, NEW c \in Runners, NEW q \in GateCalls, run[c].at # "idle", q.at # "idle",
         Become(c, q), q.want = run[c].want, q.nth = run[c].nth,
         q.changes = run[c].changes, q.moves = run[c].moves,
         Stands(q) => Progress(q), Audit(q),
         q.at \in Stages \ {"wait", "record"} => ~q.started,
         q.at = "record" /\ q.started /\ q.outcome # "ran" => Overtaken(q.want, q.outcome),
         \/ launched' = launched /\ (q.started <=> run[c].started)
         \/ q.started /\ \E l : l.nth = q.nth /\ launched' = launched \cup {l},
         UNCHANGED <<RestOfGate, done>>
  PROVE  GateStrong'
<1>1. run \in [Runners -> GateCalls] /\ RightlyAt(run[c])
  BY DEF GateStrong, GateTyped, ServedAll
<1>2. /\ run' \in [Runners -> GateCalls] /\ run'[c] = q
      /\ \A e \in Runners : e # c => run'[e] = run[e]
  BY <1>1 DEF Become
<1>3. UNCHANGED <<surroundings, cwd, moves>> /\ runs' = runs
  BY DEF RestOfGate
<1>4. /\ run[c].want \in Wanted /\ run[c].nth \in 1..runs /\ Earlier(run[c])
      /\ run[c].started <=> \E l \in launched : l.nth = run[c].nth
  BY <1>1 DEF RightlyAt, Begun
<1>5. Earlier(q)
  BY <1>4 DEF Earlier
<1>6. q.started <=> \E l \in launched' : l.nth = q.nth
  BY <1>4
<1>7. Begun(run[c])'
  BY <1>2, <1>6 DEF Begun
<1>8. /\ Stands(run[c])' => Progress(run[c])'
      /\ Audit(run[c])' /\ Earlier(run[c])'
  BY <1>2, <1>3, <1>5, SameSurroundings
<1>9. RightlyAt(run[c])'
  BY <1>2, <1>3, <1>4, <1>7, <1>8 DEF RightlyAt
<1> QED BY <1>2, <1>4, <1>9, CallMoves

LEMMA CallFacts ==
  ASSUME GateStrong, NEW c \in Runners, run[c].at # "idle"
  PROVE  /\ run[c] \in GateCalls /\ run[c].want \in Wanted
         /\ Stands(run[c]) => Progress(run[c])
         /\ Audit(run[c]) /\ Begun(run[c])
         /\ cwd \in Folders
BY DEF GateStrong, GateTyped, ServedAll, RightlyAt

\* A call is refused.
LEMMA Denied ==
  ASSUME GateStrong, NEW c \in Runners,
         NEW end \in Ends \ {"none", "ran"},
         run[c].at \in Stages \ {"idle", "complete", "record"}, DenyCall(c, end),
         Stands(run[c]) => Foreseen(run[c].want, end),
         run[c].started => Overtaken(run[c].want, end),
         UNCHANGED <<RestOfGate, done, launched>>
  PROVE  GateStrong'
<1> DEFINE r == run[c]
           q == [r EXCEPT !.at = "record", !.outcome = end]
<1>1. /\ r \in GateCalls /\ r.want \in Wanted /\ Audit(r)
      /\ Stands(r) => Progress(r)
  BY CallFacts
<1>2. /\ q \in GateCalls /\ q.at = "record" /\ q.outcome = end /\ q.want = r.want
      /\ q.nth = r.nth /\ q.dir = r.dir /\ q.audited = r.audited /\ q.changes = r.changes
      /\ q.moves = r.moves /\ q.started = r.started
  BY <1>1 DEF GateCalls, Stages, Ends
<1>3. Become(c, q)
  BY DEF DenyCall
<1>4. Stands(q) => Progress(q)
  BY <1>1, <1>2 DEF Stands, Progress, Stages
<1>5. Audit(q)
  BY <1>1, <1>2 DEF Audit, DefaultMoved, Stages
<1>6. r.at # "idle" /\ q.at # "idle"
  BY <1>2 DEF Stages
<1> HIDE DEF q
<1> QED BY <1>2, <1>3, <1>4, <1>5, <1>6, GoesOn

\* A call goes on to its next stage.
LEMMA Advanced ==
  ASSUME GateStrong, NEW c \in Runners, NEW q \in GateCalls, Become(c, q),
         run[c].at \in {"policy", "locate", "resolve"},
         q.at \in {"locate", "resolve", "launch"},
         q.want = run[c].want, q.nth = run[c].nth, q.dir = run[c].dir,
         q.audited = run[c].audited, q.changes = run[c].changes, q.moves = run[c].moves,
         q.started = run[c].started,
         Stands(run[c]) => Progress(q),
         UNCHANGED <<RestOfGate, done, launched>>
  PROVE  GateStrong'
<1>1. run[c].at # "idle" /\ q.at # "idle"
  OBVIOUS
<1>2. Audit(run[c]) /\ Begun(run[c])
  BY <1>1, CallFacts
<1>3. Audit(q)
  BY <1>2 DEF Audit, DefaultMoved, Stages
<1>4. ~run[c].started
  BY <1>2 DEF Begun, Stages
<1>5. Stands(q) => Progress(q)
  BY DEF Stands
<1> QED BY <1>1, <1>3, <1>4, <1>5, GoesOn
LEMMA CompleteKeeps ==
  ASSUME GateStrong, NEW c \in Runners, CompleteArguments(c)
  PROVE  GateStrong'
<1> DEFINE r == run[c]
           q == [r EXCEPT !.at = "policy", !.dir = Completed(r.want, cwd)]
<1>1. /\ r.at = "complete" /\ Become(c, q) /\ UNCHANGED <<RestOfGate, done, launched>>
  BY DEF CompleteArguments, Stand
<1>2. /\ r \in GateCalls /\ r.want \in Wanted /\ Audit(r) /\ Begun(r) /\ cwd \in Folders
  BY <1>1, CallFacts
<1>3. Completed(r.want, cwd) \in Folders
  BY <1>2, CompletedTyped
<1>4. /\ q \in GateCalls /\ q.at = "policy" /\ q.outcome = r.outcome /\ q.want = r.want
      /\ q.nth = r.nth /\ q.dir = Completed(r.want, cwd) /\ q.audited = r.audited
      /\ q.changes = r.changes /\ q.moves = r.moves /\ q.started = r.started
  BY <1>2, <1>3 DEF GateCalls, Stages, Ends
<1> HIDE DEF q
<1>5. Progress(q)
  BY <1>4 DEF Progress, Stages
<1>6. Audit(q)
  BY <1>1, <1>2, <1>4 DEF Audit, DefaultMoved, Stages
<1>7. ~r.started
  BY <1>1, <1>2 DEF Begun, Stages
<1> QED BY <1>1, <1>4, <1>5, <1>6, <1>7, GoesOn

LEMMA JudgeKeeps ==
  ASSUME GateStrong, NEW c \in Runners, JudgeCommand(c)
  PROVE  GateStrong'
<1> DEFINE r == run[c]
           accepts == PolicyAccepts(r.want, r.dir, r.want.dir # NoFolder \/ r.dir # Root)
           q == [r EXCEPT !.at = "locate"]
<1>1. r.at = "policy" /\ UNCHANGED <<RestOfGate, done, launched>>
  BY DEF JudgeCommand, Stand
<1>2. /\ r \in GateCalls /\ Begun(r)
      /\ Stands(r) => Progress(r)
  BY <1>1, CallFacts
<1>3. ~r.started /\ (Stands(r) => r.dir = Completed(r.want, cwd))
  BY <1>1, <1>2 DEF Begun, Stages, Progress
<1>4. CASE accepts
  <2>1. Become(c, q)
    BY <1>4 DEF JudgeCommand
  <2>2. /\ q \in GateCalls /\ q.at = "locate" /\ q.outcome = r.outcome /\ q.want = r.want
        /\ q.nth = r.nth /\ q.dir = r.dir /\ q.audited = r.audited
        /\ q.changes = r.changes /\ q.moves = r.moves /\ q.started = r.started
    BY <1>2 DEF GateCalls, Stages, Ends
  <2> HIDE DEF q
  <2>3. Stands(r) => Progress(q)
    BY <1>3, <1>4, <2>2 DEF Progress, Stages
  <2> QED BY <1>1, <2>1, <2>2, <2>3, Advanced
<1>5. CASE ~accepts
  <2>1. DenyCall(c, "policy")
    BY <1>5 DEF JudgeCommand
  <2>2. Stands(r) => Foreseen(r.want, "policy")
    BY <1>3, <1>5 DEF Foreseen, Passes, Refusals
  <2> QED BY <1>1, <1>3, <2>1, <2>2, Denied DEF Stages, Ends
<1> QED BY <1>4, <1>5

LEMMA LocateKeeps ==
  ASSUME GateStrong, NEW c \in Runners, LocateFolder(c)
  PROVE  GateStrong'
<1> DEFINE r == run[c]
<1>1. r.at = "locate" /\ UNCHANGED <<RestOfGate, done>>
  BY DEF LocateFolder, Stand
<1>2. /\ r \in GateCalls /\ Begun(r) /\ Audit(r)
      /\ Stands(r) => Progress(r)
  BY <1>1, CallFacts
<1>3. /\ ~r.started
      /\ Stands(r) => /\ r.dir = Completed(r.want, cwd)
                      /\ PolicyAccepts(r.want, r.dir, r.want.dir # NoFolder \/ r.dir # Root)
  BY <1>1, <1>2 DEF Begun, Stages, Progress
<1>4. CASE folder[r.dir] # "inside"
  <2>1. DenyCall(c, "folder") /\ UNCHANGED launched
    BY <1>4 DEF LocateFolder
  <2>2. Stands(r) => Foreseen(r.want, "folder")
    BY <1>3, <1>4 DEF Foreseen, Passes, Refusals
  <2> QED BY <1>1, <1>3, <2>1, <2>2, Denied DEF Stages, Ends
<1>5. CASE /\ folder[r.dir] = "inside" /\ r.want.builtin # "no"
           /\ DenyCall(c, "builtin") /\ UNCHANGED launched
  <2>1. Stands(r) => Foreseen(r.want, "builtin")
    BY <1>5 DEF Foreseen, Refusals
  <2> QED BY <1>1, <1>3, <1>5, <2>1, Denied DEF Stages, Ends
<1>8. CASE /\ folder[r.dir] = "inside" /\ r.want.builtin # "no"
           /\ ~(DenyCall(c, "builtin") /\ UNCHANGED launched)
  <2> DEFINE q == [r EXCEPT !.at = "record", !.started = TRUE, !.outcome = "ran"]
             l == [nth |-> r.nth, dir |-> r.dir, found |-> "builtin"]
  <2>1. launched' = launched \cup {l} /\ Become(c, q)
    BY <1>8 DEF LocateFolder
  <2>2. /\ q \in GateCalls /\ q.at = "record" /\ q.outcome = "ran" /\ q.want = r.want
        /\ q.nth = r.nth /\ q.dir = r.dir /\ q.audited = r.audited
        /\ q.changes = r.changes /\ q.moves = r.moves /\ q.started
    BY <1>2 DEF GateCalls, Stages, Ends
  <2>3. \E m : m.nth = q.nth /\ launched' = launched \cup {m}
    <3>1. l.nth = q.nth
      BY <2>2
    <3> QED BY <2>1, <3>1
  <2> HIDE DEF q, l
  <2>4. Stands(q) => Progress(q)
    BY <1>3, <1>8, <2>2 DEF Progress, Stages, Stands, Foreseen, Refusals
  <2>5. Audit(q)
    BY <1>1, <1>2, <2>2 DEF Audit, DefaultMoved, Stages
  <2> QED BY <1>1, <2>1, <2>2, <2>3, <2>4, <2>5, GoesOn
<1>6. CASE folder[r.dir] = "inside" /\ r.want.builtin = "no" /\ r.want.task /\ ~r.want.durable
  <2>1. DenyCall(c, "task") /\ UNCHANGED launched
    BY <1>6 DEF LocateFolder
  <2>2. Stands(r) => Foreseen(r.want, "task")
    BY <1>6 DEF Foreseen, Passes, Refusals
  <2> QED BY <1>1, <1>3, <2>1, <2>2, Denied DEF Stages, Ends
<1>7. CASE folder[r.dir] = "inside" /\ r.want.builtin = "no" /\ ~(r.want.task /\ ~r.want.durable)
  <2> DEFINE q == [r EXCEPT !.at = "resolve"]
  <2>1. Become(c, q) /\ UNCHANGED launched
    BY <1>7 DEF LocateFolder
  <2>2. /\ q \in GateCalls /\ q.at = "resolve" /\ q.outcome = r.outcome /\ q.want = r.want
        /\ q.nth = r.nth /\ q.dir = r.dir /\ q.audited = r.audited
        /\ q.changes = r.changes /\ q.moves = r.moves /\ q.started = r.started
    BY <1>2 DEF GateCalls, Stages, Ends
  <2> HIDE DEF q
  <2>3. Stands(r) => Progress(q)
    BY <1>3, <1>7, <2>2 DEF Progress, Stages
  <2> QED BY <1>1, <2>1, <2>2, <2>3, Advanced
<1> QED BY <1>4, <1>5, <1>6, <1>7, <1>8

LEMMA ResolveKeeps ==
  ASSUME GateStrong, NEW c \in Runners, ResolveProgram(c)
  PROVE  GateStrong'
<1> DEFINE r == run[c]
           program == ProgramFound(r.want, r.dir)
<1>1. r.at = "resolve" /\ UNCHANGED <<RestOfGate, done, launched>>
  BY DEF ResolveProgram, Stand
<1>2. /\ r \in GateCalls /\ Begun(r)
      /\ Stands(r) => Progress(r)
  BY <1>1, CallFacts
<1>3. /\ ~r.started
      /\ Stands(r) => /\ r.dir = Completed(r.want, cwd)
                      /\ PolicyAccepts(r.want, r.dir, r.want.dir # NoFolder \/ r.dir # Root)
                      /\ folder[r.dir] = "inside" /\ r.want.builtin = "no"
                      /\ r.want.task => r.want.durable
  BY <1>1, <1>2 DEF Begun, Stages, Progress
<1>4. CASE program = "none"
  <2>1. DenyCall(c, "program")
    BY <1>4 DEF ResolveProgram
  <2>2. Stands(r) => Foreseen(r.want, "program")
    BY <1>3, <1>4 DEF Foreseen, Passes, Refusals
  <2> QED BY <1>1, <1>3, <2>1, <2>2, Denied DEF Stages, Ends
<1>5. CASE program # "none" /\ r.want.task /\ ~r.want.request
  <2>1. DenyCall(c, "task")
    BY <1>5 DEF ResolveProgram
  <2>2. Stands(r) => Foreseen(r.want, "task")
    BY <1>5 DEF Foreseen, Passes, Refusals
  <2> QED BY <1>1, <1>3, <2>1, <2>2, Denied DEF Stages, Ends
<1>6. CASE program # "none" /\ ~(r.want.task /\ ~r.want.request)
  <2> DEFINE q == [r EXCEPT !.at = "launch", !.found = program]
  <2>1. Become(c, q)
    BY <1>6 DEF ResolveProgram
  <2>2. program \in {"inside", "installed", "path"}
    BY <1>6 DEF ProgramFound
  <2> HIDE DEF program
  <2>3. /\ q \in GateCalls /\ q.at = "launch" /\ q.outcome = r.outcome /\ q.want = r.want
        /\ q.nth = r.nth /\ q.dir = r.dir /\ q.audited = r.audited
        /\ q.changes = r.changes /\ q.moves = r.moves /\ q.started = r.started
    BY <1>2, <2>2 DEF GateCalls, Stages, Ends
  <2> HIDE DEF q
  <2>4. Stands(r) => Progress(q)
    BY <1>3, <1>6, <2>3 DEF Progress, Stages, program
  <2> QED BY <1>1, <2>1, <2>3, <2>4, Advanced
<1> QED BY <1>4, <1>5, <1>6
LEMMA LaunchKeeps ==
  ASSUME GateStrong, NEW c \in Runners, LaunchProgram(c)
  PROVE  GateStrong'
<1> DEFINE r == run[c]
           q == [r EXCEPT !.at = "wait", !.started = TRUE]
           l == [nth |-> r.nth, dir |-> r.dir, found |-> r.found]
<1>1. r.at = "launch" /\ UNCHANGED <<RestOfGate, done>>
  BY DEF LaunchProgram, Stand
<1>2. /\ r \in GateCalls /\ Begun(r) /\ Audit(r)
      /\ Stands(r) => Progress(r)
  BY <1>1, CallFacts
<1>3. /\ ~r.started
      /\ Stands(r) => /\ r.dir = Completed(r.want, cwd)
                      /\ PolicyAccepts(r.want, r.dir, r.want.dir # NoFolder \/ r.dir # Root)
                      /\ folder[r.dir] = "inside" /\ r.want.builtin = "no"
                      /\ ProgramFound(r.want, r.dir) # "none"
                      /\ r.want.task => r.want.durable
                      /\ r.want.task => r.want.request
  BY <1>1, <1>2 DEF Begun, Stages, Progress
<1>4. CASE Become(c, q) /\ launched' = launched \cup {l}
  <2>1. /\ q \in GateCalls /\ q.at = "wait" /\ q.outcome = r.outcome /\ q.want = r.want
        /\ q.nth = r.nth /\ q.dir = r.dir /\ q.audited = r.audited
        /\ q.changes = r.changes /\ q.moves = r.moves /\ q.started
    BY <1>2 DEF GateCalls, Stages, Ends
  <2>2. \E m : m.nth = q.nth /\ launched' = launched \cup {m}
    <3>1. l.nth = q.nth
      BY <2>1
    <3> QED BY <1>4, <3>1
  <2> HIDE DEF q, l
  <2>3. Stands(q) => Progress(q)
    BY <1>3, <2>1 DEF Progress, Stages, Stands
  <2>4. Audit(q)
    BY <1>1, <1>2, <2>1 DEF Audit, DefaultMoved, Stages
  <2> QED BY <1>1, <1>4, <2>1, <2>2, <2>3, <2>4, GoesOn
<1>5. CASE DenyCall(c, "launch") /\ UNCHANGED launched
  <2>1. Stands(r) => Foreseen(r.want, "launch")
    BY <1>3 DEF Foreseen, Passes, Refusals
  <2> QED BY <1>1, <1>3, <1>5, <2>1, Denied DEF Stages, Ends
<1> QED BY <1>4, <1>5 DEF LaunchProgram

LEMMA WaitKeeps ==
  ASSUME GateStrong, NEW c \in Runners, FirstWait(c)
  PROVE  GateStrong'
<1> DEFINE r == run[c]
           q == [r EXCEPT !.at = "record", !.outcome = "ran"]
<1>1. r.at = "wait" /\ UNCHANGED <<RestOfGate, done, launched>>
  BY DEF FirstWait, Stand
<1>2. /\ r \in GateCalls /\ Begun(r) /\ Audit(r)
      /\ Stands(r) => Progress(r)
  BY <1>1, CallFacts
<1>3. Stands(r) => Passes(r.want)
  BY <1>1, <1>2 DEF Progress, Passes, Stages
<1>4. CASE Become(c, q)
  <2>1. /\ q \in GateCalls /\ q.at = "record" /\ q.outcome = "ran" /\ q.want = r.want
        /\ q.nth = r.nth /\ q.dir = r.dir /\ q.audited = r.audited
        /\ q.changes = r.changes /\ q.moves = r.moves /\ q.started = r.started
    BY <1>2 DEF GateCalls, Stages, Ends
  <2> HIDE DEF q
  <2>2. Stands(q) => Progress(q)
    BY <1>1, <1>2, <1>3, <2>1 DEF Progress, Stages, Stands, Foreseen, Refusals
  <2>3. Audit(q)
    BY <1>1, <1>2, <2>1 DEF Audit, DefaultMoved, Stages
  <2> QED BY <1>1, <1>4, <2>1, <2>2, <2>3, GoesOn
<1>5. ASSUME NEW end \in {"wait", "stdin", "timeout"}, Overtaken(r.want, end), DenyCall(c, end)
      PROVE  GateStrong'
  <2>1. Stands(r) => Foreseen(r.want, end)
    BY <1>3 DEF Foreseen, Refusals
  <2> QED BY <1>1, <1>5, <2>1, Denied DEF Stages, Ends
<1> QED BY <1>4, <1>5 DEF FirstWait

LEMMA RecordKeeps ==
  ASSUME GateStrong, NEW c \in Runners, RecordCall(c)
  PROVE  GateStrong'
<1> DEFINE r == run[c]
           d == [r EXCEPT !.at = "record"]
<1>1. /\ GateTyped /\ ServedAll /\ NumbersOnce /\ Done /\ Forecast /\ RecordsTrue
      /\ ErrorsHarmless
  BY DEF GateStrong
<1>2. /\ r.at = "record" /\ done' = done \cup {d} /\ run' = [run EXCEPT ![c] = Unasked]
      /\ UNCHANGED <<surroundings, cwd, moves>>
      /\ UNCHANGED <<changes, moving, runs, forecast, launched>>
  BY DEF RecordCall, Stand, Become, RestOfGate, surroundings
<1>3. /\ r \in GateCalls /\ RightlyAt(r) /\ run \in [Runners -> GateCalls]
  BY <1>1 DEF GateTyped, ServedAll
<1>4. d = r
  BY <1>2, <1>3 DEF GateCalls
<1> HIDE DEF d
<1>5. /\ r.want \in Wanted /\ r.nth \in 1..runs /\ Earlier(r) /\ Audit(r) /\ Begun(r)
      /\ Stands(r) => Progress(r)
  BY <1>2, <1>3 DEF RightlyAt
<1>6. /\ run' \in [Runners -> GateCalls] /\ run'[c].at = "idle"
      /\ \A e \in Runners : e # c => run'[e] = run[e]
  BY <1>2, <1>3, UnaskedTyped
<1>7. GateTyped'
  BY <1>1, <1>2, <1>4, <1>5, <1>6 DEF GateTyped
<1>8. ServedAll'
  <2> SUFFICES ASSUME NEW e \in Runners, e # c PROVE RightlyAt(run[e])'
    BY <1>6 DEF ServedAll, RightlyAt
  <2>1. RightlyAt(run[e]) /\ run'[e] = run[e] /\ runs' = runs /\ launched' = launched
    BY <1>1, <1>2, <1>6 DEF ServedAll
  <2>2. Begun(run[e])' <=> Begun(run[e])
    BY <2>1 DEF Begun
  <2>3. /\ Stands(run[e])' <=> Stands(run[e])
        /\ Earlier(run[e])' <=> Earlier(run[e])
        /\ Progress(run[e])' <=> Progress(run[e])
        /\ Audit(run[e])' <=> Audit(run[e])
    BY <1>2, <2>1, SameSurroundings
  <2> QED BY <2>1, <2>2, <2>3 DEF RightlyAt
<1>9. NumbersOnce'
  BY <1>1, <1>2, <1>4, <1>6 DEF NumbersOnce
<1>10. Done' /\ Forecast'
  <2>1. /\ \A x : Stands(x)' <=> Stands(x)
        /\ \A x : Earlier(x)' <=> Earlier(x)
        /\ \A w, e : Foreseen(w, e)' <=> Foreseen(w, e)
        /\ \A w : Passes(w)' <=> Passes(w)
    BY <1>2, SameSurroundings
  <2>2. Stands(r) => Foreseen(r.want, r.outcome)
    BY <1>2, <1>5 DEF Progress
  <2>3. Done'
    BY <1>1, <1>2, <1>4, <1>5, <2>1, <2>2 DEF Done
  <2>4. Forecast'
    BY <1>1, <1>2, <2>1 DEF Forecast
  <2> QED BY <2>3, <2>4
<1>11. RecordsTrue'
  <2>1. r.dir = r.audited \/ DefaultMoved(r)
    BY <1>2, <1>5 DEF Audit, Stages
  <2> QED BY <1>1, <1>2, <1>4, <2>1 DEF RecordsTrue, DefaultMoved
<1>12. ErrorsHarmless'
  <2>1. /\ r.started <=> \E l \in launched : l.nth = r.nth
        /\ r.started /\ r.outcome # "ran" => Overtaken(r.want, r.outcome)
    BY <1>2, <1>5 DEF Begun
  <2> QED BY <1>1, <1>2, <1>4, <2>1 DEF ErrorsHarmless
<1> QED BY <1>7, <1>8, <1>9, <1>10, <1>11, <1>12 DEF GateStrong

LEMMA TakeKeeps ==
  ASSUME GateStrong, NEW c \in Runners, NEW want \in Wanted, TakeArguments(c, want)
  PROVE  GateStrong'
<1> DEFINE nth == runs + 1
           dir == Completed(want, cwd)
           q == [Unasked EXCEPT !.at = "complete", !.want = want, !.nth = runs',
                   !.audited = dir, !.changes = changes, !.moves = moves]
<1>1. /\ GateTyped /\ ServedAll /\ NumbersOnce /\ Done /\ Forecast /\ RecordsTrue
      /\ ErrorsHarmless
  BY DEF GateStrong
<1>2. /\ run[c].at = "idle" /\ run' = [run EXCEPT ![c] = q] /\ runs' = nth
      /\ UNCHANGED <<surroundings, cwd, moves>>
      /\ UNCHANGED <<changes, moving, forecast, launched, done>>
  BY DEF TakeArguments, Stand, Become, surroundings
<1>3. /\ dir \in Folders /\ nth \in Nat /\ changes \in Nat /\ moves \in Nat /\ runs \in Nat
      /\ run \in [Runners -> GateCalls]
  BY <1>1, CompletedTyped DEF GateTyped
<1> HIDE DEF dir
<1>4. /\ q \in GateCalls /\ q.at = "complete" /\ q.want = want /\ q.nth = nth
      /\ q.audited = dir /\ q.changes = changes /\ q.moves = moves /\ q.started = FALSE
  BY <1>2, <1>3 DEF Unasked, GateCalls, Stages, Ends
<1> HIDE DEF q
<1>5. /\ run' \in [Runners -> GateCalls] /\ run'[c] = q
      /\ \A e \in Runners : e # c => run'[e] = run[e]
  BY <1>2, <1>3, <1>4
<1>6. GateTyped'
  BY <1>1, <1>2, <1>3, <1>5 DEF GateTyped
<1>7. ServedAll'
  <2>1. ASSUME NEW e \in Runners, e # c PROVE RightlyAt(run[e])'
    <3>1. /\ RightlyAt(run[e]) /\ run'[e] = run[e] /\ launched' = launched
          /\ run[e].nth \in 1..runs => run[e].nth \in 1..runs'
      BY <1>1, <1>2, <1>3, <1>5, <2>1 DEF ServedAll
    <3>2. Begun(run[e])' <=> Begun(run[e])
      BY <3>1 DEF Begun
    <3>3. /\ Stands(run[e])' <=> Stands(run[e])
          /\ Earlier(run[e])' <=> Earlier(run[e])
          /\ Progress(run[e])' <=> Progress(run[e])
          /\ Audit(run[e])' <=> Audit(run[e])
      BY <1>2, <3>1, SameSurroundings
    <3> QED BY <3>1, <3>2, <3>3 DEF RightlyAt
  <2>2. RightlyAt(run[c])'
    <3>1. Progress(q) /\ Earlier(q)
      BY <1>3, <1>4 DEF Progress, Earlier, Stages
    <3>2. Audit(q)
      BY <1>4 DEF Audit, Stages, dir
    <3>3. \A l \in launched : l.nth # nth
      BY <1>1, <1>3 DEF GateTyped
    <3>4. Begun(run[c])'
      BY <1>2, <1>4, <1>5, <3>3 DEF Begun, Stages
    <3>5. Progress(run[c])' /\ Earlier(run[c])' /\ Audit(run[c])'
      BY <1>2, <1>5, <3>1, <3>2, SameSurroundings
    <3> QED BY <1>2, <1>3, <1>4, <1>5, <3>4, <3>5 DEF RightlyAt
  <2> QED BY <2>1, <2>2 DEF ServedAll
<1>8. NumbersOnce'
  <2>1. \A e \in Runners : run[e].at # "idle" => run[e].nth # nth
    BY <1>1, <1>3 DEF ServedAll, RightlyAt
  <2>2. \A d \in done : d.nth # nth
    BY <1>1, <1>3 DEF GateTyped
  <2> QED BY <1>1, <1>2, <1>4, <1>5, <2>1, <2>2 DEF NumbersOnce
<1>9. Done' /\ Forecast'
  <2>1. /\ \A x : Stands(x)' <=> Stands(x)
        /\ \A x : Earlier(x)' <=> Earlier(x)
        /\ \A w, e : Foreseen(w, e)' <=> Foreseen(w, e)
        /\ \A w : Passes(w)' <=> Passes(w)
    BY <1>2, SameSurroundings
  <2>2. Done'
    BY <1>1, <1>2, <2>1 DEF Done
  <2>3. Forecast'
    BY <1>1, <1>2, <2>1 DEF Forecast
  <2> QED BY <2>2, <2>3
<1>10. RecordsTrue' /\ ErrorsHarmless'
  BY <1>1, <1>2 DEF RecordsTrue, ErrorsHarmless
<1> QED BY <1>6, <1>7, <1>8, <1>9, <1>10 DEF GateStrong

\* The files or the default directory change.
LEMMA ChangeKeeps ==
  ASSUME GateStrong, StoreDefault \/ FolderChanges
  PROVE  GateStrong'
<1>1. /\ GateTyped /\ ServedAll /\ NumbersOnce /\ Done /\ Forecast /\ RecordsTrue
      /\ ErrorsHarmless
  BY DEF GateStrong
<1>2. UNCHANGED <<run, runs, done, launched, forecast>>
  BY DEF StoreDefault, FolderChanges
<1>3. /\ changes \in Nat /\ moves \in Nat /\ changes' \in Nat /\ moves' \in Nat
      /\ changes <= changes' /\ moves <= moves'
      /\ changes < changes' \/ moves < moves'
  BY <1>1 DEF GateTyped, StoreDefault, FolderChanges, surroundings
<1>4. \A r : Earlier(r) => Earlier(r)' /\ ~Stands(r)'
  BY <1>3, NothingStands
<1>5. cwd' \in Folders /\ moving' \in Folders \cup {NoFolder}
      /\ (cwd' = cwd \/ moves' = moves + 1)
  BY <1>1 DEF GateTyped, StoreDefault, FolderChanges
<1>6. GateTyped'
  BY <1>1, <1>2, <1>3, <1>5 DEF GateTyped
<1>7. ServedAll'
  <2> SUFFICES ASSUME NEW c \in Runners, run[c].at # "idle" PROVE RightlyAt(run[c])'
    BY <1>2 DEF ServedAll, RightlyAt
  <2> DEFINE r == run[c]
  <2>1. /\ RightlyAt(r) /\ r \in GateCalls /\ r.changes \in Nat /\ r.moves \in Nat
        /\ Audit(r) /\ Begun(r) /\ Earlier(r)
    BY <1>1 DEF ServedAll, GateTyped, GateCalls, RightlyAt
  <2>2. Earlier(r)' /\ ~Stands(r)'
    BY <1>2, <1>4, <2>1
  <2>3. Begun(r)'
    BY <1>2, <2>1 DEF Begun
  <2>4. Audit(r)'
    <3>1. DefaultMoved(r) => DefaultMoved(r)'
      BY <1>2, <1>3, <2>1 DEF DefaultMoved
    <3>2. Completed(r.want, cwd') = Completed(r.want, cwd) \/ DefaultMoved(r)'
      <4>1. CASE cwd' = cwd
        BY <4>1
      <4>2. CASE moves' = moves + 1
        <5>1. moves' > r.moves
          BY <1>3, <2>1, <4>2 DEF Earlier
        <5> QED BY <1>2, <5>1 DEF Completed, DefaultMoved
      <4> QED BY <1>5, <4>1, <4>2
    <3> QED BY <1>2, <2>1, <3>1, <3>2 DEF Audit
  <2> QED BY <1>2, <2>1, <2>2, <2>3, <2>4 DEF RightlyAt
<1>8. NumbersOnce'
  BY <1>1, <1>2 DEF NumbersOnce
<1>9. Done' /\ Forecast'
  <2>1. Done'
    BY <1>1, <1>2, <1>4 DEF Done
  <2>2. Forecast'
    BY <1>1, <1>2, <1>4 DEF Forecast
  <2> QED BY <2>1, <2>2
<1>10. RecordsTrue'
  BY <1>1, <1>2, <1>3 DEF RecordsTrue, Done, Earlier
<1>11. ErrorsHarmless'
  BY <1>1, <1>2 DEF ErrorsHarmless
<1> QED BY <1>6, <1>7, <1>8, <1>9, <1>10, <1>11 DEF GateStrong

\* A directory is resolved, or an outcome predicted.
LEMMA OutlookKeeps ==
  ASSUME GateStrong, \/ \E f \in Folders : ResolveDefault(f)
                     \/ \E w \in Wanted : Preflight(w)
  PROVE  GateStrong'
<1>1. /\ GateTyped /\ ServedAll /\ NumbersOnce /\ Done /\ Forecast /\ RecordsTrue
      /\ ErrorsHarmless
  BY DEF GateStrong
<1>2. /\ UNCHANGED <<surroundings, cwd, moves>>
      /\ UNCHANGED <<changes, run, runs, done, launched>>
      /\ moving' \in Folders \cup {NoFolder}
  BY <1>1 DEF ResolveDefault, Preflight, GateTyped, surroundings
<1>3. GateTyped'
  BY <1>1, <1>2 DEF GateTyped
<1>4. ServedAll'
  <2> SUFFICES ASSUME NEW e \in Runners PROVE RightlyAt(run[e])'
    BY DEF ServedAll
  <2>1. RightlyAt(run[e]) /\ run' = run /\ runs' = runs /\ launched' = launched
    BY <1>1, <1>2 DEF ServedAll
  <2>2. Begun(run[e])' <=> Begun(run[e])
    BY <2>1 DEF Begun
  <2>3. /\ Stands(run[e])' <=> Stands(run[e])
        /\ Earlier(run[e])' <=> Earlier(run[e])
        /\ Progress(run[e])' <=> Progress(run[e])
        /\ Audit(run[e])' <=> Audit(run[e])
    BY <1>2, <2>1, SameSurroundings
  <2> QED BY <2>1, <2>2, <2>3 DEF RightlyAt
<1>5. NumbersOnce' /\ RecordsTrue' /\ ErrorsHarmless'
  BY <1>1, <1>2 DEF NumbersOnce, RecordsTrue, ErrorsHarmless
<1>6. /\ \A x : Stands(x)' <=> Stands(x)
      /\ \A x : Earlier(x)' <=> Earlier(x)
      /\ \A w, e : Foreseen(w, e)' <=> Foreseen(w, e)
      /\ \A w : Passes(w)' <=> Passes(w)
  BY <1>2, SameSurroundings
<1>7. Done'
  BY <1>1, <1>2, <1>6 DEF Done
<1>8. Forecast'
  <2>1. CASE forecast' = forecast
    BY <1>1, <1>6, <2>1 DEF Forecast
  <2>2. ASSUME NEW want \in Wanted, Preflight(want) PROVE Forecast'
    <3>1. /\ forecast'.want = want /\ (forecast'.ok <=> Passes(want))
          /\ forecast'.grant = Permission(Passes(want))
          /\ forecast'.changes = changes /\ forecast'.moves = moves
      BY <2>2 DEF Preflight, Passes
    <3>2. forecast'.grant = "granted" => Passes(want)
      BY <3>1 DEF Permission
    <3>3. changes \in Nat /\ moves \in Nat
      BY <1>1 DEF GateTyped
    <3> QED BY <1>2, <1>6, <3>1, <3>2, <3>3 DEF Forecast, Earlier
  <2> QED BY <2>1, <2>2 DEF ResolveDefault
<1> QED BY <1>3, <1>4, <1>5, <1>7, <1>8 DEF GateStrong

LEMMA GatePreserved == GateStrong /\ [CGNext]_cgvars => GateStrong'
<1> SUFFICES ASSUME GateStrong, [CGNext]_cgvars PROVE GateStrong'
  OBVIOUS
<1>1. CASE CGNext
  BY <1>1, CompleteKeeps, JudgeKeeps, LocateKeeps, ResolveKeeps, LaunchKeeps, WaitKeeps,
     RecordKeeps, TakeKeeps, ChangeKeeps, OutlookKeeps DEF CGNext
<1>2. CASE UNCHANGED cgvars
  <2>1. UNCHANGED <<surroundings, cwd, moves>>
    BY <1>2 DEF cgvars, surroundings
  <2>2. /\ \A x : Stands(x)' <=> Stands(x)
        /\ \A x : Earlier(x)' <=> Earlier(x)
        /\ \A w, e : Foreseen(w, e)' <=> Foreseen(w, e)
        /\ \A w : Passes(w)' <=> Passes(w)
        /\ \A x : Progress(x)' <=> Progress(x)
        /\ \A x : Audit(x)' <=> Audit(x)
    BY <2>1, SameSurroundings
  <2>3. GateTyped' /\ NumbersOnce' /\ RecordsTrue' /\ ErrorsHarmless'
    BY <1>2 DEF cgvars, GateStrong, GateTyped, NumbersOnce, RecordsTrue, ErrorsHarmless
  <2>4. Done' /\ Forecast'
    BY <1>2, <2>2 DEF cgvars, GateStrong, Done, Forecast
  <2>5. \A x : Begun(x)' <=> Begun(x)
    BY <1>2 DEF cgvars, Begun
  <2>6. ServedAll'
    BY <1>2, <2>2, <2>5 DEF cgvars, GateStrong, ServedAll, RightlyAt
  <2> QED BY <2>3, <2>4, <2>6 DEF GateStrong
<1> QED BY <1>1, <1>2

\* A call whose surroundings stayed ends as a preflight said, its record names the
\* directory that was used unless the default moved, and an error means that nothing
\* of the call began, but for a job whose row could not be read, a child that was
\* given no input and one out of time; for any runners, commands, built-ins and
\* policies (dispatch.rs, policy.rs, exec.rs).
THEOREM GateSafe == CGSpec => []GateInv
BY GateBegins, GatePreserved, GateImplies, PTL DEF CGSpec

-----------------------------------------------------------------------------
(* The record of the tool calls.                                           *)

AnySettings == [enabled : BOOLEAN, retention : Nat, limit : {-1, 0, 1}]
Runs(t) == adpc[t] \in {"swap", "delete", "classify"}

ADTyped ==
  /\ today \in Nat /\ marker \in -1..today
  /\ adpc \in [Threads -> {"new", "swap", "delete", "classify", "done"}]
  /\ serving \in [Threads -> Invocations \cup {NoInvocation}]
  /\ conf \in [Threads -> AnySettings \cup {NoSettings}]
  /\ day \in [Threads -> 0..today]
  /\ asked \in [Threads -> SUBSET Nat]
  /\ owner \in {"idle", "commit", "publish", "delete"}
  /\ saved \in AnySettings /\ snapshot \in AnySettings /\ draft \in AnySettings
  /\ sessions \in Seq(Greps)
  /\ \A r \in records : r.day \in 0..today

\* A call is of today or of yesterday and knows what it was asked to keep.
CallsTimed ==
  \A t \in Threads : Runs(t) =>
    /\ today <= day[t] + 1 /\ conf[t].retention \in asked[t] /\ serving[t] \in Invocations

\* The settings that the threads see are saved, but while they are published.
SettingsSaved ==
  /\ owner # "publish" => snapshot = saved
  /\ owner = "publish" => saved = draft
  /\ owner = "delete" => draft = snapshot

\* Nothing is left that the settings in force call expired.
Clean == \A r \in records : ~Expired(r, today, snapshot.retention)
Settled == owner \in {"idle", "commit"} /\ ~failed
Marked == Settled /\ marker = today /\ (\A t \in Threads : adpc[t] # "delete") => Clean
\* A thread with settings of its own is overtaken by the owner's cleanup.
Superseded ==
  \A t \in Threads :
    Settled /\ Runs(t) /\ day[t] = today /\ conf[t].retention # snapshot.retention => Clean

ADStrong == ADTyped /\ CallsTimed /\ SettingsSaved /\ Marked /\ Superseded /\ KeptAsSaved
            /\ OutcomesTrue

LEMMA NoSettingsTyped == NoSettings \in AnySettings
BY DEF NoSettings, AnySettings

LEMMA ADBegins == ADInit => ADStrong
<1> SUFFICES ASSUME ADInit PROVE ADStrong
  OBVIOUS
<1>1. saved \in AnySettings
  BY AuditAssumption DEF ADInit, AnySettings
<1>2. ADTyped
  BY <1>1, NoSettingsTyped DEF ADInit, ADTyped
<1>3. CallsTimed /\ SettingsSaved
  BY DEF ADInit, CallsTimed, SettingsSaved, Runs
<1>4. Marked /\ Superseded /\ OutcomesTrue
  BY DEF ADInit, Marked, Superseded, Clean, OutcomesTrue
<1>5. KeptAsSaved
  BY DEF ADInit, KeptAsSaved
<1> QED BY <1>2, <1>3, <1>4, <1>5 DEF ADStrong

\* Deleting what is expired leaves nothing expired, and only that goes.
LEMMA Cleaned ==
  ASSUME NEW now, NEW retention, NEW retentions, CleanUp(now, retention, retentions)
  PROVE  /\ records' \subseteq records
         /\ \A r \in records' : ~Expired(r, now, retention)
         /\ (~early /\ retention \in retentions) => ~early'
BY DEF CleanUp, Expired

\* A record is never expired when it is written.
LEMMA FreshRecord ==
  ASSUME NEW d \in Nat, NEW now \in Nat, now <= d + 1, NEW retention \in Nat, NEW r, r.day = d
  PROVE  ~Expired(r, now, retention)
BY DEF Expired

LEMMA RememberedGreps ==
  ASSUME NEW i, sessions \in Seq(Greps)
  PROVE  Remembered(i) \in Seq(Greps)
<1>1. CASE Remembered(i) = sessions
  BY <1>1
<1>2. CASE Remembered(i) # sessions
  <2>1. i.command \in Greps
    BY <1>2 DEF Remembered, IsGrep
  <2>2. CASE Len(sessions) = MaxSessions
    <3>1. Len(sessions) > 0 /\ sessions # <<>>
      BY <2>2, AuditAssumption
    <3>2. Tail(sessions) \in Seq(Greps)
      BY <3>1
    <3>3. Remembered(i) = Append(Tail(sessions), i.command)
      BY <1>2, <2>2 DEF Remembered
    <3> QED BY <2>1, <3>2, <3>3
  <2>3. CASE Len(sessions) # MaxSessions
    <3>1. Remembered(i) = Append(sessions, i.command)
      BY <1>2, <2>3 DEF Remembered
    <3> QED BY <2>1, <3>1
  <2> QED BY <2>2, <2>3
<1> QED BY <1>1, <1>2

\* What became of a call, as its record says.
LEMMA StatusTrue ==
  ASSUME NEW i \in Invocations, sessions \in Seq(Greps)
  PROVE  /\ Status(i) = "success" /\ i.outcome \notin {"ok", "running"} =>
              i.outcome = "no_match" /\ i.command \in Greps
         /\ i.outcome = "no_match" /\ i.tool = "exec" =>
              (Status(i) = "success" <=> i.command \in Greps)
         /\ Status(i) = "rejected" <=> i.outcome = "policy"
<1>1. IsGrep(i) => i.command \in Greps
  <2>1. Contains(sessions, i.command) => i.command \in Greps
    BY DEF Contains
  <2> QED BY <2>1 DEF IsGrep
<1>2. i.tool = "exec" => (IsGrep(i) <=> i.command \in Greps)
  BY DEF IsGrep
<1> QED BY <1>1, <1>2 DEF Status
\* Types in every step.
LEMMA ADTypedStep ==
  ASSUME ADStrong, ADNext
  PROVE  ADTyped'
<1> USE DEF GoOn, AtStep
<1>1. ADTyped /\ CallsTimed
  BY DEF ADStrong
<1>2. ASSUME NEW t \in Threads, NEW i \in Calls[t], Snapshot(t, i) PROVE ADTyped'
  <2>1. i \in Invocations
    BY AuditAssumption
  <2>2. UNCHANGED <<today, records, saved, snapshot, marker, sessions, owner, draft>>
    BY <1>2 DEF Snapshot, adstore, adowner
  <2>3. serving' = [serving EXCEPT ![t] = i]
    BY <1>2 DEF Snapshot
  <2>4. CASE EndCall(t)
    BY <1>1, <2>1, <2>2, <2>3, <2>4, NoSettingsTyped DEF EndCall, ADTyped
  <2>5. CASE /\ conf' = [conf EXCEPT ![t] = snapshot] /\ day' = [day EXCEPT ![t] = today]
             /\ asked' = [asked EXCEPT ![t] = {saved.retention} \cup
                            (IF owner = "publish" THEN {snapshot.retention} ELSE {})]
             /\ GoOn(t, IF snapshot.retention = 0 THEN "classify" ELSE "swap")
    <3>1. saved.retention \in Nat /\ snapshot.retention \in Nat
      BY <1>1 DEF ADTyped, AnySettings
    <3> QED BY <1>1, <2>1, <2>2, <2>3, <2>5, <3>1 DEF ADTyped
  <2> QED BY <1>2, <2>4, <2>5 DEF Snapshot
<1>3. ASSUME NEW t \in Threads, Swap(t) PROVE ADTyped'
  BY <1>1, <1>3 DEF Swap, ADTyped, adowner
<1>4. ASSUME NEW t \in Threads, DeleteExpired(t) PROVE ADTyped'
  <2>1. UNCHANGED <<today, saved, snapshot, sessions, serving, owner, draft>>
    BY <1>4 DEF DeleteExpired, adowner
  <2>2. records' \subseteq records
    BY <1>4 DEF DeleteExpired, CleanUp, SQLFails
  <2>3. CASE marker' = day[t] /\ GoOn(t, "classify") /\ UNCHANGED <<conf, day, asked>>
    BY <1>1, <2>1, <2>2, <2>3 DEF ADTyped
  <2>4. CASE marker' = -1 /\ EndCall(t)
    BY <1>1, <2>1, <2>2, <2>4, NoSettingsTyped DEF ADTyped, EndCall
  <2> QED BY <1>4, <2>3, <2>4 DEF DeleteExpired
<1>5. ASSUME NEW t \in Threads, InsertRecord(t) PROVE ADTyped'
  <2>1. /\ UNCHANGED <<today, saved, snapshot, marker, serving, owner, draft>> /\ EndCall(t)
        /\ sessions' = Remembered(serving[t])
    BY <1>5 DEF InsertRecord, adowner
  <2>2. records' \subseteq records \cup {Record(t)}
    BY <1>5 DEF InsertRecord, SQLFails
  <2>3. Record(t).day = day[t]
    BY DEF Record
  <2>4. sessions' \in Seq(Greps)
    BY <1>1, <2>1, RememberedGreps DEF ADTyped
  <2>5. \A r \in records' : r.day \in 0..today'
    BY <1>1, <2>1, <2>2, <2>3 DEF ADTyped
  <2> QED BY <1>1, <2>1, <2>4, <2>5, NoSettingsTyped DEF ADTyped, EndCall
<1>6. ASSUME NEW s \in Settings, BeginSettings(s) PROVE ADTyped'
  <2>1. s \in AnySettings
    BY AuditAssumption DEF AnySettings
  <2> QED BY <1>1, <1>6, <2>1 DEF BeginSettings, ADTyped, adstore, adthreads
<1>7. CASE CommitSettings
  <2>1. /\ UNCHANGED <<today, snapshot, marker, sessions, records, adpc, serving, conf, day>>
        /\ owner' \in {"publish", "idle"} /\ draft' \in {draft, NoSettings}
        /\ saved' \in {saved, draft}
    BY <1>7 DEF CommitSettings, SQLFails, adthreads
  <2>2. asked' \in [Threads -> SUBSET Nat]
    BY <1>1, <1>7 DEF CommitSettings, ADTyped, AnySettings
  <2>3. draft' \in AnySettings
    BY <1>1, <2>1, NoSettingsTyped DEF ADTyped
  <2>4. saved' \in AnySettings
    BY <1>1, <2>1 DEF ADTyped
  <2> QED BY <1>1, <2>1, <2>2, <2>3, <2>4 DEF ADTyped
<1>8. CASE PublishSettings
  <2>1. draft' \in AnySettings
    BY <1>1, <1>8, NoSettingsTyped DEF PublishSettings, ADTyped
  <2> QED BY <1>1, <1>8, <2>1 DEF PublishSettings, ADTyped, adthreads
<1>9. CASE ForceCleanup
  <2>1. records' \subseteq records /\ marker' \in {today, -1}
    BY <1>9 DEF ForceCleanup, CleanUp, SQLFails
  <2> QED BY <1>1, <1>9, <2>1, NoSettingsTyped DEF ForceCleanup, ADTyped, adthreads
<1>10. CASE ClearRecords
  <2>1. records' \subseteq records
    BY <1>10 DEF ClearRecords
  <2> QED BY <1>1, <1>10, <2>1 DEF ClearRecords, ADTyped, adthreads
<1>11. CASE NextDay
  <2>1. /\ today' = today + 1
        /\ UNCHANGED <<records, saved, snapshot, marker, sessions, adpc, serving, conf, day,
                       owner, draft, asked>>
    BY <1>11 DEF NextDay, adstore, adthreads, adowner
  <2>2. marker' \in -1..today' /\ \A d \in 0..today : d \in 0..today'
    BY <1>1, <2>1 DEF ADTyped
  <2>3. day' \in [Threads -> 0..today']
    BY <1>1, <2>1, <2>2 DEF ADTyped
  <2> QED BY <1>1, <2>1, <2>2, <2>3 DEF ADTyped
<1>12. CASE RestartStore
  <2>1. /\ snapshot' = saved /\ sessions' = <<>> /\ UNCHANGED <<today, saved, serving>>
        /\ adpc' = [t \in Threads |-> IF AtStep(t, "new") THEN "new" ELSE "done"]
        /\ conf' = [t \in Threads |-> NoSettings] /\ day' = [t \in Threads |-> 0]
        /\ asked' = [t \in Threads |-> {}]
        /\ owner' = "idle" /\ draft' = NoSettings
    BY <1>12 DEF RestartStore
  <2>2. records' \subseteq records /\ marker' \in {today, -1}
    BY <1>12 DEF RestartStore, CleanUp
  <2>3. <<>> \in Seq(Greps) /\ today \in Nat
    BY <1>1 DEF ADTyped
  <2> QED BY <1>1, <2>1, <2>2, <2>3, NoSettingsTyped DEF ADTyped
<1> QED BY <1>2, <1>3, <1>4, <1>5, <1>6, <1>7, <1>8, <1>9, <1>10, <1>11, <1>12 DEF ADNext
\* What a call was asked to keep, and which settings are saved.
LEMMA CallsTimedStep ==
  ASSUME ADStrong, ADNext
  PROVE  CallsTimed' /\ SettingsSaved'
<1> USE DEF GoOn, AtStep, Runs
<1>1. ADTyped /\ CallsTimed /\ SettingsSaved
  BY DEF ADStrong
<1>2. ASSUME NEW t \in Threads, NEW i \in Calls[t], Snapshot(t, i)
      PROVE  CallsTimed' /\ SettingsSaved'
  <2>1. i \in Invocations
    BY AuditAssumption
  <2>2. UNCHANGED <<today, saved, snapshot, owner, draft>>
    BY <1>2 DEF Snapshot, adstore, adowner
  <2>3. serving' = [serving EXCEPT ![t] = i]
    BY <1>2 DEF Snapshot
  <2>4. CASE EndCall(t)
    BY <1>1, <2>2, <2>3, <2>4 DEF EndCall, ADTyped, CallsTimed, SettingsSaved
  <2>5. CASE /\ conf' = [conf EXCEPT ![t] = snapshot] /\ day' = [day EXCEPT ![t] = today]
             /\ asked' = [asked EXCEPT ![t] = {saved.retention} \cup
                            (IF owner = "publish" THEN {snapshot.retention} ELSE {})]
             /\ GoOn(t, IF snapshot.retention = 0 THEN "classify" ELSE "swap")
    <3>1. snapshot.retention \in {saved.retention} \cup
                                 (IF owner = "publish" THEN {snapshot.retention} ELSE {})
      BY <1>1 DEF SettingsSaved
    <3>2. conf'[t].retention \in asked'[t] /\ serving'[t] \in Invocations /\ day'[t] = today
      BY <1>1, <2>1, <2>3, <2>5, <3>1 DEF ADTyped
    <3>3. \A u \in Threads : u # t => /\ adpc'[u] = adpc[u] /\ conf'[u] = conf[u]
                                      /\ asked'[u] = asked[u] /\ serving'[u] = serving[u]
                                      /\ day'[u] = day[u]
      BY <1>1, <2>3, <2>5 DEF ADTyped
    <3>4. today \in Nat
      BY <1>1 DEF ADTyped
    <3> QED BY <1>1, <2>2, <3>2, <3>3, <3>4 DEF CallsTimed, SettingsSaved
  <2> QED BY <1>2, <2>4, <2>5 DEF Snapshot
<1>3. ASSUME NEW t \in Threads, Swap(t) PROVE CallsTimed' /\ SettingsSaved'
  BY <1>1, <1>3 DEF Swap, ADTyped, adowner, CallsTimed, SettingsSaved
<1>4. ASSUME NEW t \in Threads, DeleteExpired(t) PROVE CallsTimed' /\ SettingsSaved'
  <2>1. UNCHANGED <<today, saved, snapshot, serving, owner, draft>> /\ adpc[t] = "delete"
    BY <1>4 DEF DeleteExpired, adowner
  <2>2. CASE GoOn(t, "classify") /\ UNCHANGED <<conf, day, asked>>
    BY <1>1, <2>1, <2>2 DEF ADTyped, CallsTimed, SettingsSaved
  <2>3. CASE EndCall(t)
    BY <1>1, <2>1, <2>3 DEF ADTyped, EndCall, CallsTimed, SettingsSaved
  <2> QED BY <1>4, <2>2, <2>3 DEF DeleteExpired
<1>5. ASSUME NEW t \in Threads, InsertRecord(t) PROVE CallsTimed' /\ SettingsSaved'
  BY <1>1, <1>5 DEF InsertRecord, EndCall, adowner, ADTyped, CallsTimed, SettingsSaved
<1>6. ASSUME NEW s \in Settings, BeginSettings(s) PROVE CallsTimed' /\ SettingsSaved'
  BY <1>1, <1>6 DEF BeginSettings, adstore, adthreads, CallsTimed, SettingsSaved
<1>7. CASE CommitSettings
  <2>1. UNCHANGED <<today, snapshot, adpc, serving, conf, day>> /\ owner = "commit"
    BY <1>7 DEF CommitSettings, adthreads
  <2>2. \A t \in Threads : asked[t] \subseteq asked'[t]
    BY <1>1, <1>7 DEF CommitSettings, ADTyped
  <2>3. CallsTimed'
    BY <1>1, <2>1, <2>2 DEF CallsTimed
  <2>4. SettingsSaved'
    <3>1. CASE owner' = "publish" /\ saved' = draft
      <4>1. draft' = draft
        BY <1>7, <3>1 DEF CommitSettings
      <4> QED BY <3>1, <4>1 DEF SettingsSaved
    <3>2. CASE owner' = "idle" /\ saved' = saved
      BY <1>1, <2>1, <3>2 DEF SettingsSaved
    <3> QED BY <1>7, <3>1, <3>2 DEF CommitSettings
  <2> QED BY <2>3, <2>4
<1>8. CASE PublishSettings
  BY <1>1, <1>8 DEF PublishSettings, adthreads, CallsTimed, SettingsSaved
<1>9. CASE ForceCleanup
  BY <1>1, <1>9 DEF ForceCleanup, adthreads, CallsTimed, SettingsSaved
<1>10. CASE ClearRecords
  BY <1>1, <1>10 DEF ClearRecords, adthreads, CallsTimed, SettingsSaved
<1>11. CASE NextDay
  <2>1. /\ today' = today + 1
        /\ \A t \in Threads : adpc[t] \notin {"new", "done"} => day[t] = today
        /\ UNCHANGED <<saved, snapshot, adpc, serving, conf, day, owner, draft, asked>>
    BY <1>11 DEF NextDay, adstore, adthreads, adowner
  <2>2. today \in Nat
    BY <1>1 DEF ADTyped
  <2> QED BY <1>1, <2>1, <2>2 DEF CallsTimed, SettingsSaved
<1>12. CASE RestartStore
  <2>1. /\ snapshot' = saved /\ saved' = saved /\ owner' = "idle"
        /\ adpc' = [t \in Threads |-> IF AtStep(t, "new") THEN "new" ELSE "done"]
    BY <1>12 DEF RestartStore
  <2> QED BY <2>1 DEF CallsTimed, SettingsSaved
<1> QED BY <1>2, <1>3, <1>4, <1>5, <1>6, <1>7, <1>8, <1>9, <1>10, <1>11, <1>12 DEF ADNext

\* What a step does to the records: some go, or one true one comes.
LEMMA RecordsStep ==
  ASSUME ADStrong, ADNext
  PROVE  KeptAsSaved' /\ OutcomesTrue'
<1>1. ADTyped /\ CallsTimed /\ KeptAsSaved /\ OutcomesTrue
  BY DEF ADStrong
<1>2. ASSUME records' \subseteq records PROVE OutcomesTrue'
  BY <1>1, <1>2 DEF OutcomesTrue
<1>3. ASSUME NEW t \in Threads, DeleteExpired(t) PROVE KeptAsSaved' /\ OutcomesTrue'
  <2>1. conf[t].retention \in asked[t]
    BY <1>1, <1>3 DEF DeleteExpired, AtStep, CallsTimed, Runs
  <2>2. CASE CleanUp(day[t], conf[t].retention, asked[t])
    BY <1>1, <1>2, <2>1, <2>2, Cleaned DEF KeptAsSaved
  <2>3. CASE SQLFails
    BY <1>1, <1>2, <2>3 DEF SQLFails, KeptAsSaved
  <2> QED BY <1>3, <2>2, <2>3 DEF DeleteExpired
<1>4. ASSUME NEW t \in Threads, InsertRecord(t) PROVE KeptAsSaved' /\ OutcomesTrue'
  <2>1. early' = early /\ records' \subseteq records \cup {Record(t)}
    BY <1>4 DEF InsertRecord, SQLFails
  <2>2. serving[t] \in Invocations /\ sessions \in Seq(Greps)
    BY <1>1, <1>4 DEF InsertRecord, AtStep, CallsTimed, Runs, ADTyped
  <2>3. Record(t).call = serving[t] /\ Record(t).status = Status(serving[t])
    BY DEF Record
  <2>4. OutcomesTrue'
    BY <1>1, <2>1, <2>2, <2>3, StatusTrue DEF OutcomesTrue
  <2> QED BY <1>1, <2>1, <2>4 DEF KeptAsSaved
<1>5. ASSUME CommitSettings \/ ClearRecords PROVE KeptAsSaved' /\ OutcomesTrue'
  <2>1. records' \subseteq records /\ early' = early
    BY <1>5 DEF CommitSettings, SQLFails, ClearRecords
  <2> QED BY <1>1, <1>2, <2>1 DEF KeptAsSaved
<1>6. CASE ForceCleanup
  <2>1. CASE CleanUp(today, draft.retention, {draft.retention})
    BY <1>1, <1>2, <2>1, Cleaned DEF KeptAsSaved
  <2>2. CASE SQLFails
    BY <1>1, <1>2, <2>2 DEF SQLFails, KeptAsSaved
  <2> QED BY <1>6, <2>1, <2>2 DEF ForceCleanup
<1>7. CASE RestartStore
  <2>1. CASE CleanUp(today, saved.retention, {saved.retention})
    BY <1>1, <1>2, <2>1, Cleaned DEF KeptAsSaved
  <2>2. CASE UNCHANGED <<records, early>>
    BY <1>1, <1>2, <2>2 DEF KeptAsSaved
  <2> QED BY <1>7, <2>1, <2>2 DEF RestartStore
<1>8. ASSUME UNCHANGED <<records, early>> PROVE KeptAsSaved' /\ OutcomesTrue'
  BY <1>1, <1>2, <1>8 DEF KeptAsSaved
<1> QED BY <1>3, <1>4, <1>5, <1>6, <1>7, <1>8
        DEF ADNext, Snapshot, Swap, BeginSettings, PublishSettings, NextDay, adstore

\* Cleanups and what they leave.
LEMMA CleanStays ==
  ASSUME Clean, records' \subseteq records, today' = today,
         snapshot'.retention = snapshot.retention
  PROVE  Clean'
BY DEF Clean, Expired

LEMMA CleanStep ==
  ASSUME ADStrong, ADNext
  PROVE  Marked' /\ Superseded'
<1> USE DEF GoOn, AtStep, Runs
<1>1. ADTyped /\ CallsTimed /\ SettingsSaved /\ Marked /\ Superseded
  BY DEF ADStrong
<1>2. today \in Nat /\ marker \in -1..today /\ \A t \in Threads : day[t] \in 0..today
  BY <1>1 DEF ADTyped
<1>3. ASSUME NEW t \in Threads, NEW i \in Calls[t], Snapshot(t, i) PROVE Marked' /\ Superseded'
  <2>1. /\ UNCHANGED <<today, records, snapshot, marker, owner, failed>> /\ adpc[t] = "new"
        /\ \E l \in {"done", "classify", "swap"} : adpc' = [adpc EXCEPT ![t] = l]
    BY <1>3 DEF Snapshot, adstore, adowner, EndCall
  <2>2. (Settled' <=> Settled) /\ (Clean => Clean')
    BY <2>1, CleanStays DEF Settled
  <2>3. Marked'
    BY <1>1, <2>1, <2>2 DEF Marked, ADTyped
  <2>4. Superseded'
    <3>1. adpc'[t] \in {"classify", "swap"} => conf'[t] = snapshot'
      BY <1>1, <1>3, <2>1 DEF Snapshot, EndCall, ADTyped
    <3>2. \A u \in Threads : u # t =>
            adpc'[u] = adpc[u] /\ conf'[u] = conf[u] /\ day'[u] = day[u]
      BY <1>1, <1>3 DEF Snapshot, EndCall, ADTyped
    <3>3. adpc'[t] \in {"done", "classify", "swap"}
      BY <1>1, <2>1 DEF ADTyped
    <3> QED BY <1>1, <2>1, <2>2, <3>1, <3>2, <3>3 DEF Superseded
  <2> QED BY <2>3, <2>4
<1>4. ASSUME NEW t \in Threads, Swap(t) PROVE Marked' /\ Superseded'
  <2>1. /\ UNCHANGED <<today, records, snapshot, owner, failed, conf, day>> /\ adpc[t] = "swap"
        /\ marker' = day[t]
        /\ adpc' = [adpc EXCEPT ![t] = IF marker = day[t] THEN "classify" ELSE "delete"]
    BY <1>4 DEF Swap, adowner
  <2>2. (Settled' <=> Settled) /\ (Clean => Clean')
    BY <2>1, CleanStays DEF Settled
  <2>3. \A u \in Threads : u # t => adpc'[u] = adpc[u]
    BY <1>1, <2>1 DEF ADTyped
  <2>4. adpc'[t] = IF marker = day[t] THEN "classify" ELSE "delete"
    BY <1>1, <2>1 DEF ADTyped
  <2>5. Marked'
    BY <1>1, <2>1, <2>2, <2>3, <2>4 DEF Marked
  <2>6. Superseded'
    BY <1>1, <2>1, <2>2, <2>3, <2>4 DEF Superseded
  <2> QED BY <2>5, <2>6
<1>5. ASSUME NEW t \in Threads, DeleteExpired(t) PROVE Marked' /\ Superseded'
  <2>1. UNCHANGED <<today, snapshot, owner, failed>> /\ adpc[t] = "delete"
    BY <1>5 DEF DeleteExpired, adowner
  <2>2. records' \subseteq records
    BY <1>5 DEF DeleteExpired, CleanUp, SQLFails
  <2>3. (Settled' <=> Settled) /\ (Clean => Clean')
    BY <2>1, <2>2, CleanStays DEF Settled
  <2>4. CASE /\ CleanUp(day[t], conf[t].retention, asked[t])
             /\ marker' = day[t] /\ GoOn(t, "classify") /\ UNCHANGED <<conf, day>>
    <3>1. \A u \in Threads : adpc'[u] = IF u = t THEN "classify" ELSE adpc[u]
      BY <1>1, <2>4 DEF ADTyped
    <3>2. Settled /\ day[t] = today => Clean'
      <4>1. CASE conf[t].retention = snapshot.retention /\ day[t] = today
        <5>1. \A r \in records' : ~Expired(r, today, snapshot.retention)
          BY <2>4, <4>1, Cleaned
        <5> QED BY <2>1, <5>1 DEF Clean, Expired
      <4>2. CASE conf[t].retention # snapshot.retention
        BY <1>1, <2>1, <2>3, <4>2 DEF Superseded
      <4> QED BY <4>1, <4>2
    <3>3. Marked'
      BY <2>1, <2>3, <2>4, <3>2 DEF Marked
    <3>4. Superseded'
      BY <1>1, <2>1, <2>3, <2>4, <3>1 DEF Superseded
    <3> QED BY <3>3, <3>4
  <2>5. CASE marker' = -1 /\ EndCall(t)
    <3>1. \A u \in Threads : u # t =>
            adpc'[u] = adpc[u] /\ conf'[u] = conf[u] /\ day'[u] = day[u]
      BY <1>1, <2>5 DEF EndCall, ADTyped
    <3>2. adpc'[t] = "done"
      BY <1>1, <2>5 DEF EndCall, ADTyped
    <3>3. Marked'
      BY <1>2, <2>1, <2>5 DEF Marked
    <3>4. Superseded'
      BY <1>1, <2>1, <2>3, <3>1, <3>2 DEF Superseded
    <3> QED BY <3>3, <3>4
  <2> QED BY <1>5, <2>4, <2>5 DEF DeleteExpired
<1>6. ASSUME NEW t \in Threads, InsertRecord(t) PROVE Marked' /\ Superseded'
  <2>1. /\ UNCHANGED <<today, snapshot, marker, owner, failed>> /\ adpc[t] = "classify"
        /\ EndCall(t)
    BY <1>6 DEF InsertRecord, adowner
  <2>2. records' \subseteq records \cup {Record(t)} /\ Record(t).day = day[t]
    BY <1>6 DEF InsertRecord, SQLFails, Record
  <2>3. ~Expired(Record(t), today, snapshot.retention)
    <3>1. snapshot.retention \in Nat /\ day[t] \in Nat /\ today <= day[t] + 1
      BY <1>1, <2>1 DEF ADTyped, AnySettings, CallsTimed
    <3> QED BY <1>2, <2>2, <3>1, FreshRecord
  <2>4. (Settled' <=> Settled) /\ (Clean => Clean')
    BY <2>1, <2>2, <2>3 DEF Settled, Clean, Expired
  <2>5. \A u \in Threads : u # t =>
          adpc'[u] = adpc[u] /\ conf'[u] = conf[u] /\ day'[u] = day[u]
    BY <1>1, <2>1 DEF EndCall, ADTyped
  <2>6. adpc'[t] = "done"
    BY <1>1, <2>1 DEF EndCall, ADTyped
  <2>7. Marked'
    BY <1>1, <2>1, <2>4, <2>5, <2>6 DEF Marked
  <2>8. Superseded'
    BY <1>1, <2>1, <2>4, <2>5, <2>6 DEF Superseded
  <2> QED BY <2>7, <2>8
<1>7. ASSUME NEW s \in Settings, BeginSettings(s) PROVE Marked' /\ Superseded'
  <2>1. UNCHANGED <<today, records, snapshot, marker, failed, adpc, conf, day>>
        /\ owner = "idle" /\ owner' = "commit"
    BY <1>7 DEF BeginSettings, adstore, adthreads
  <2>2. (Settled' <=> Settled) /\ (Clean => Clean')
    BY <2>1, CleanStays DEF Settled
  <2> QED BY <1>1, <2>1, <2>2 DEF Marked, Superseded
<1>8. CASE CommitSettings
  <2>1. UNCHANGED <<today, records, snapshot, marker, failed, adpc, conf, day>>
        /\ owner = "commit" /\ owner' \in {"publish", "idle"}
    BY <1>8 DEF CommitSettings, SQLFails, adthreads
  <2>2. (Settled' => Settled) /\ (Clean => Clean')
    BY <2>1, CleanStays DEF Settled
  <2> QED BY <1>1, <2>1, <2>2 DEF Marked, Superseded
<1>9. CASE PublishSettings
  <2>1. Settled' => Clean'
    <3>1. CASE draft.retention = 0
      <4>1. snapshot'.retention = 0
        BY <1>9, <3>1 DEF PublishSettings
      <4> QED BY <4>1 DEF Clean, Expired
    <3>2. CASE draft.retention # 0
      BY <1>9, <3>2 DEF PublishSettings, Settled
    <3> QED BY <3>1, <3>2
  <2> QED BY <2>1 DEF Marked, Superseded
<1>10. CASE ForceCleanup
  <2>1. Settled' => Clean'
    <3>1. CASE CleanUp(today, draft.retention, {draft.retention})
      <4>1. \A r \in records' : ~Expired(r, today, draft.retention)
        BY <3>1, Cleaned
      <4>2. today' = today /\ snapshot' = snapshot /\ draft = snapshot
        BY <1>1, <1>10 DEF ForceCleanup, SettingsSaved
      <4> QED BY <4>1, <4>2 DEF Clean, Expired
    <3>2. CASE failed' = TRUE
      BY <3>2 DEF Settled
    <3> QED BY <1>10, <3>1, <3>2 DEF ForceCleanup
  <2> QED BY <2>1 DEF Marked, Superseded
<1>11. CASE ClearRecords
  <2>1. UNCHANGED <<today, snapshot, marker, failed, adpc, conf, day, owner>>
        /\ records' \subseteq records
    BY <1>11 DEF ClearRecords, adthreads
  <2>2. (Settled' <=> Settled) /\ (Clean => Clean')
    BY <2>1, CleanStays DEF Settled
  <2> QED BY <1>1, <2>1, <2>2 DEF Marked, Superseded
<1>12. CASE NextDay
  <2>1. today' = today + 1 /\ marker' = marker /\ day' = day
    BY <1>12 DEF NextDay, adstore, adthreads
  <2> QED BY <1>2, <2>1 DEF Marked, Superseded
<1>13. CASE RestartStore
  <2>1. /\ snapshot' = saved /\ today' = today
        /\ adpc' = [t \in Threads |-> IF AtStep(t, "new") THEN "new" ELSE "done"]
    BY <1>13 DEF RestartStore
  <2>2. Superseded'
    BY <2>1 DEF Superseded
  <2>3. CASE marker' = -1
    BY <1>2, <2>1, <2>2, <2>3 DEF Marked
  <2>4. CASE CleanUp(today, saved.retention, {saved.retention})
    <3>1. \A r \in records' : ~Expired(r, today, saved.retention)
      BY <2>4, Cleaned
    <3>2. Clean'
      BY <2>1, <3>1 DEF Clean, Expired
    <3> QED BY <2>2, <3>2 DEF Marked
  <2> QED BY <1>13, <2>3, <2>4 DEF RestartStore
<1> QED BY <1>3, <1>4, <1>5, <1>6, <1>7, <1>8, <1>9, <1>10, <1>11, <1>12, <1>13 DEF ADNext

LEMMA ADPreserved == ADStrong /\ [ADNext]_advars => ADStrong'
<1> SUFFICES ASSUME ADStrong, [ADNext]_advars PROVE ADStrong'
  OBVIOUS
<1>1. CASE ADNext
  BY <1>1, ADTypedStep, CallsTimedStep, RecordsStep, CleanStep DEF ADStrong
<1>2. CASE UNCHANGED advars
  <2>1. ADTyped' /\ CallsTimed' /\ SettingsSaved'
    BY <1>2 DEF ADStrong, ADTyped, CallsTimed, SettingsSaved, Runs, advars, adstore, adthreads,
       adowner
  <2>2. Marked' /\ Superseded'
    BY <1>2 DEF ADStrong, Marked, Superseded, Settled, Clean, Expired, Runs, advars, adstore,
       adthreads, adowner
  <2>3. KeptAsSaved' /\ OutcomesTrue'
    BY <1>2 DEF ADStrong, KeptAsSaved, OutcomesTrue, advars, adstore
  <2> QED BY <2>1, <2>2, <2>3 DEF ADStrong
<1> QED BY <1>1, <1>2

\* Records go by age only under settings that were saved, none that the settings in
\* force call expired is left once the day is marked, and their outcomes are true;
\* for any threads, settings, days and failures (src-tauri/src/audit).
THEOREM AuditSafe == ADSpec => []AuditInv
<1>1. ADStrong => AuditInv
  <2> SUFFICES ASSUME ADStrong PROVE AuditInv
    OBVIOUS
  <2>1. CleanedWhenMarked
    BY DEF ADStrong, Marked, Settled, Clean, CleanedWhenMarked
  <2> QED BY <2>1 DEF ADStrong, AuditInv
<1> QED BY <1>1, ADBegins, ADPreserved, PTL DEF ADSpec

-----------------------------------------------------------------------------
(* The HTTP log (AccessLog).                                               *)

Days == Nat \ {0}
LinesAt(d) == {v \in Visits : visit[v].date = d /\ visit[v].step = "written"}

LogSteps == {"new", "unlogged", "served", "write", "written", "lost"}
Requests == visit \in [Visits -> [step : LogSteps, keep : Nat, date : Nat]]
LogTyped ==
  /\ files \in [DOMAIN files -> DOMAIN inodes] /\ DOMAIN files \subseteq Days
  /\ \E n \in Nat : inodes \in [1..n -> SUBSET Visits]
  /\ writer.open \in [date : Days, inode : DOMAIN inodes] \cup {Closed}
ReaderTyped ==
  /\ reading \in [todo : SUBSET Days, seen : SUBSET Visits, since : SUBSET Visits]
  /\ cleared \subseteq Visits
ALTyped == date \in Days /\ keep \in Nat /\ Requests /\ LogTyped /\ ReaderTyped

\* What is deleted for its age is past, and an answered request has a date.
Past ==
  /\ aged \subseteq 1..(date - 1) /\ sweep \subseteq 1..(date - 1)
  /\ \A v \in Visits : visit[v].step \in {"write", "written"} => visit[v].date \in 1..date

\* The open handle is that of the file of its date, unless that file is deleted,
\* and then of no other.
Handle ==
  writer.open # Closed =>
    /\ \A d \in DOMAIN files : files[d] = writer.open.inode <=> d = writer.open.date
    /\ writer.open.date \in DOMAIN files \/ writer.open.date \in aged

OneEach == \A d, e \in DOMAIN files : files[d] = files[e] => d = e
LinesDone == \A n \in DOMAIN inodes : \A v \in inodes[n] : visit[v].step = "written"

\* A line that a query was to see is seen, cleared, deleted or still ahead.
Ahead(v) == visit[v].date \in reading.todo /\ v \in LinesOf(visit[v].date)
ReadingRight ==
  \A v \in reading.since :
    /\ visit[v].step = "written"
    /\ v \in reading.seen \/ v \in cleared \/ visit[v].date \in aged \/ Ahead(v)

ALStrong ==
  /\ ALTyped /\ Past /\ Handle /\ OneEach /\ LinesDone /\ LinesInPlace /\ ReadingRight

LEMMA ALStart ==
  ASSUME LogAssumption, ALInit
  PROVE  ALStrong
<1> USE LogAssumption, ALInit DEF ALInit, LogAssumption
<1>1. ALTyped
  <2>1. inodes \in [1..0 -> SUBSET Visits] /\ files \in [{} -> {}]
    OBVIOUS
  <2> QED BY <2>1 DEF ALTyped, Days, NoReading, Requests, LogSteps, LogTyped, ReaderTyped
<1>2. /\ Past /\ Handle /\ OneEach /\ LinesDone /\ ReadingRight
  BY DEF Past, Handle, OneEach, LinesDone, ReadingRight, NoReading
<1>3. LinesInPlace
  BY DEF LinesInPlace
<1> QED BY <1>1, <1>2, <1>3 DEF ALStrong

LEMMA ALMeans ==
  ASSUME ALStrong
  PROVE  AccessInv
<1>1. TodayKept
  BY DEF ALStrong, TodayKept, Past, ALTyped, Requests, LogTyped, ReaderTyped, Days
<1>2. ReadingComplete
  BY DEF ALStrong, ReadingComplete, ReadingRight, Ahead, ALTyped, ReaderTyped
<1> QED BY <1>1, <1>2 DEF ALStrong, AccessInv

\* The requests: nothing of the log changes.
LEMMA ALVisits ==
  ASSUME LogAssumption, ALStrong, NEW v \in Visits, Arrive(v) \/ Complete(v)
  PROVE  ALStrong'
<1> USE DEF ALStrong
<1>a. /\ UNCHANGED <<date, keep, files, inodes, writer, sweep, reading, aged, cleared>>
      /\ DOMAIN visit' = Visits
      /\ \A w \in Visits \ {v} : visit'[w] = visit[w]
  BY DEF Arrive, Complete, ALTyped, Requests
<1>b. /\ visit'[v] \in [step : {"unlogged", "served", "write"}, keep : Nat, date : Nat]
      /\ visit[v].step \notin {"write", "written"} /\ visit'[v].step # "written"
      /\ visit'[v].step = "write" => visit'[v].date = date
  <2>1. visit[v] \in [step : LogSteps, keep : Nat, date : Nat]
    BY DEF ALTyped, Requests, LogSteps
  <2>2. keep \in Nat /\ date \in Nat
    BY DEF ALTyped, Days
  <2>3. CASE Arrive(v)
    <3>1. visit'[v] = [step |-> IF logging THEN "served" ELSE "unlogged",
                       keep |-> keep, date |-> 0]
      BY <2>3 DEF Arrive, ALTyped, Requests
    <3> QED BY <2>1, <2>2, <2>3, <3>1 DEF Arrive
  <2>4. CASE Complete(v)
    <3>1. visit'[v] = [step |-> "write", keep |-> visit[v].keep, date |-> date]
      BY <2>4 DEF Complete, ALTyped, Requests
    <3> QED BY <2>1, <2>2, <2>4, <3>1 DEF Complete
  <2> QED BY <2>3, <2>4
<1>c. visit' \in [Visits -> [step : LogSteps, keep : Nat, date : Nat]]
  <2>1. visit' = [w \in Visits |-> visit'[w]]
    BY DEF Arrive, Complete, ALTyped, Requests
  <2> HIDE DEF ALStrong
  <2>2. \A w \in Visits :
          visit'[w] \in [step : LogSteps, keep : Nat, date : Nat]
    BY <1>a, <1>b DEF ALStrong, ALTyped, Requests, LogSteps
  <2> QED BY <2>1, <2>2
<1>1. /\ UNCHANGED <<date, keep, files, inodes, writer, sweep, reading, aged, cleared>>
      /\ \A w \in Visits :
           \/ visit'[w] = visit[w]
           \/ /\ visit[w].step \notin {"write", "written"}
              /\ visit'[w].step \in {"unlogged", "served"}
           \/ /\ visit[w].step \notin {"write", "written"}
              /\ visit'[w].step = "write" /\ visit'[w].date = date
  BY <1>a, <1>b
<1>2. ALTyped'
  <2>1. /\ date' = date /\ keep' = keep /\ files' = files /\ inodes' = inodes
        /\ writer' = writer /\ reading' = reading /\ cleared' = cleared
    BY <1>1
  <2>2. LogTyped'
    BY <2>1 DEF LogTyped, ALTyped
  <2>3. ReaderTyped'
    BY <2>1 DEF ReaderTyped, ALTyped
  <2>4. Requests'
    BY <1>c DEF Requests
  <2> QED BY <2>1, <2>2, <2>3, <2>4 DEF ALTyped
<1>3. Past'
  <2>1. date' = date /\ aged' = aged /\ sweep' = sweep
    BY <1>1
  <2>2. date \in Nat /\ date >= 1
    BY DEF ALTyped, Requests, LogTyped, ReaderTyped, Days
  <2>3. \A w \in Visits : visit'[w].step \in {"write", "written"} => visit'[w].date \in 1..date
    <3> TAKE w \in Visits
    <3>1. CASE visit'[w] = visit[w]
      BY <3>1 DEF Past
    <3>2. CASE visit'[w].step \in {"unlogged", "served"}
      BY <3>2
    <3>3. CASE visit'[w].date = date
      BY <3>3, <2>2
    <3> QED BY <1>1, <3>1, <3>2, <3>3
  <2> QED BY <2>1, <2>3 DEF Past
<1>4. \A w \in Visits : visit[w].step = "written" => visit'[w] = visit[w]
  BY <1>1
<1>5. Handle' /\ OneEach'
  BY <1>1 DEF Handle, OneEach
<1>6. \A n \in DOMAIN inodes : inodes[n] \subseteq Visits
  BY DEF ALTyped, Requests, LogTyped, ReaderTyped
<1>7. LinesDone'
  BY <1>1, <1>4, <1>6 DEF LinesDone
<1>8. \A w \in Visits : \A d \in DOMAIN files : w \in LinesOf(d) => visit[w].step = "written"
  BY DEF LinesDone, LinesOf, ALTyped, Requests, LogTyped, ReaderTyped
<1>9. LinesInPlace'
  <2>1. \A d : LinesOf(d)' = LinesOf(d)
    BY <1>1 DEF LinesOf
  <2>2. \A w \in Visits : visit'[w].step = "written" => visit'[w] = visit[w]
    BY <1>1
  <2> QED BY <1>1, <1>4, <1>8, <2>1, <2>2 DEF LinesInPlace
<1>10. ReadingRight'
  <2>1. \A d : LinesOf(d)' = LinesOf(d)
    BY <1>1 DEF LinesOf
  <2>2. \A w \in reading.since : w \in Visits
    BY DEF ALTyped, Requests, LogTyped, ReaderTyped
  <2> QED BY <1>1, <1>4, <2>1, <2>2 DEF ReadingRight, Ahead
<1> QED BY <1>2, <1>3, <1>5, <1>7, <1>9, <1>10

\* What the writing of a line does to the files and the inodes: the file of its
\* date is that of the handle, if it is still there, and gets the line unless the
\* writing fails.
Written(v, d, h, gone, lines) ==
  /\ lines \subseteq {v}
  /\ visit' = [visit EXCEPT ![v].step = IF v \in lines THEN "written" ELSE "lost"]
  /\ d = visit[v].date /\ d \in Days /\ gone \subseteq DOMAIN files \cap (1..(d - 1))
  /\ DOMAIN files' \subseteq DOMAIN files \cup {d}
  /\ DOMAIN files' \cap gone = {} /\ DOMAIN files \ gone \subseteq DOMAIN files'
  /\ \A e \in DOMAIN files' : files'[e] = IF e = d THEN h ELSE files[e]
  /\ \A e \in DOMAIN files : files[e] = h <=> e = d
  /\ d \in DOMAIN files' \/ d \in aged
  /\ DOMAIN inodes' = DOMAIN inodes \cup {h}
  /\ \A m \in DOMAIN inodes \ {h} : inodes'[m] = inodes[m]
  /\ inodes'[h] = lines \cup (IF h \in DOMAIN inodes THEN inodes[h] ELSE {})
  /\ d \in DOMAIN files' \ DOMAIN files => h \notin DOMAIN inodes
  /\ writer'.open = [date |-> d, inode |-> h] /\ aged' = aged \cup gone

LEMMA WriteLineWrites ==
  ASSUME LogAssumption, ALStrong, NEW v \in Visits, WriteLine(v)
  PROVE  LogTyped' /\ \E d, h, gone, lines : Written(v, d, h, gone, lines)
<1> DEFINE d == visit[v].date
           days == visit[v].keep
<1>1. PICK gone \in SUBSET Deletable(d, days), lines \in {{v}, {}} :
        LET left == [f \in DOMAIN files \ gone |-> files[f]]
            handle == IF HandleFor(d) # Closed THEN HandleFor(d)
                      ELSE [date |-> d, inode |-> IF d \in DOMAIN left THEN left[d]
                                                  ELSE Cardinality(DOMAIN inodes) + 1]
        IN /\ files' = IF HandleFor(d) # Closed THEN left ELSE Entered(left, d, handle.inode)
           /\ inodes' = Entered(inodes, handle.inode, LinesIn(handle.inode) \cup lines)
           /\ writer' = [cleaned |-> d, kept |-> days, open |-> handle]
           /\ aged' = aged \cup gone
           /\ visit' = [visit EXCEPT ![v].step = IF v \in lines THEN "written" ELSE "lost"]
  BY DEF WriteLine
<1> DEFINE left == [f \in DOMAIN files \ gone |-> files[f]]
           handle == IF HandleFor(d) # Closed THEN HandleFor(d)
                     ELSE [date |-> d, inode |-> IF d \in DOMAIN left THEN left[d]
                                                 ELSE Cardinality(DOMAIN inodes) + 1]
           h == handle.inode
<1>2. PICK n \in Nat : inodes \in [1..n -> SUBSET Visits]
  BY DEF ALStrong, ALTyped, LogTyped
<1>3. DOMAIN inodes = 1..n /\ Cardinality(DOMAIN inodes) = n
  BY <1>2, FS_Interval
<1>4. d \in Days /\ days \in Nat /\ visit[v].step = "write"
  <2>1. visit[v].step = "write"
    BY DEF WriteLine
  <2>2. visit[v] \in [step : LogSteps, keep : Nat, date : Nat]
    BY DEF ALStrong, ALTyped, Requests
  <2>3. visit[v].date \in 1..date
    BY <2>1 DEF ALStrong, Past
  <2> QED BY <2>1, <2>2, <2>3 DEF Days
<1>5. gone \subseteq DOMAIN files \cap (1..(d - 1))
  <2>1. \A f \in gone : f \in DOMAIN files /\ TooOld(f, d, days)
    BY DEF Deletable
  <2>2. DOMAIN files \subseteq Days
    BY DEF ALStrong, ALTyped, LogTyped
  <2>3. \A f \in Days : TooOld(f, d, days) => f \in 1..(d - 1)
    BY <1>4 DEF TooOld, Days
  <2> QED BY <2>1, <2>2, <2>3
<1>6. d \notin gone
  BY <1>4, <1>5 DEF Days
<1>7. /\ DOMAIN files \subseteq Days /\ \A e \in DOMAIN files : files[e] \in 1..n
      /\ writer.open \in [date : Days, inode : 1..n] \cup {Closed}
  BY <1>3 DEF ALStrong, ALTyped, LogTyped
<1>8. /\ files' = IF HandleFor(d) # Closed THEN left ELSE Entered(left, d, h)
      /\ inodes' = Entered(inodes, h, LinesIn(h) \cup lines)
      /\ writer'.open = handle
      /\ aged' = aged \cup gone
      /\ lines \subseteq {v}
      /\ visit' = [visit EXCEPT ![v].step = IF v \in lines THEN "written" ELSE "lost"]
  BY <1>1
<1>9. DOMAIN left = DOMAIN files \ gone /\ \A e \in DOMAIN files \ gone : left[e] = files[e]
  OBVIOUS
<1>10. /\ DOMAIN inodes' = DOMAIN inodes \cup {h}
       /\ \A m \in DOMAIN inodes \ {h} : inodes'[m] = inodes[m]
       /\ inodes'[h] = lines \cup (IF h \in DOMAIN inodes THEN inodes[h] ELSE {})
  BY <1>8 DEF Entered, LinesIn
<1>11. ASSUME HandleFor(d) # Closed PROVE Written(v, d, h, gone, lines) /\ h \in 1..n
  <2>1. writer.open # Closed /\ writer.open.date = d /\ handle = writer.open
    BY <1>11 DEF HandleFor
  <2>2. handle = [date |-> d, inode |-> h] /\ h \in 1..n
    BY <1>7, <2>1
  <2>3. files' = left
    BY <1>8, <1>11
  <2>4. /\ \A e \in DOMAIN files : files[e] = h <=> e = d
        /\ d \in DOMAIN files \/ d \in aged
    BY <2>1 DEF ALStrong, Handle
  <2> HIDE DEF h, left, handle, d
  <2>5. Written(v, d, h, gone, lines)
    BY <1>3, <1>4, <1>5, <1>6, <1>8, <1>9, <1>10, <2>2, <2>3, <2>4 DEF Written, d
  <2> QED BY <2>5, <2>2
<1>12. ASSUME HandleFor(d) = Closed
       PROVE  Written(v, d, h, gone, lines) /\ (h \in 1..n \/ h = n + 1)
  <2>1. h = IF d \in DOMAIN files THEN files[d] ELSE n + 1
    BY <1>3, <1>6, <1>9, <1>12
  <2>2. handle = [date |-> d, inode |-> h]
    BY <1>12
  <2>3. files' = Entered(left, d, h)
    BY <1>8, <1>12
  <2>4. \A e \in DOMAIN files : files[e] = h <=> e = d
    BY <1>7, <2>1 DEF ALStrong, OneEach
  <2> HIDE DEF h, left, handle, d
  <2>5. files' = [e \in {d} \cup (DOMAIN files \ gone) |-> IF e = d THEN h ELSE files[e]]
    BY <2>3, <1>9 DEF Entered
  <2>6. d \in DOMAIN files \/ h \notin DOMAIN inodes
    BY <2>1, <1>3
  <2>7. Written(v, d, h, gone, lines)
    BY <1>4, <1>5, <1>6, <1>8, <1>10, <2>2, <2>4, <2>5, <2>6 DEF Written, d
  <2> QED BY <2>7, <2>1, <1>7
<1>13. PICK m \in Nat : DOMAIN inodes' = 1..m
  <2>1. h \in 1..n \/ h = n + 1
    BY <1>11, <1>12
  <2> HIDE DEF h
  <2>2. CASE h \in 1..n
    BY <1>3, <1>10, <2>2
  <2>3. CASE h = n + 1
    <3>1. (1..n) \cup {n + 1} = 1..(n + 1)
      OBVIOUS
    <3> QED BY <1>3, <1>10, <2>3, <3>1
  <2> QED BY <2>1, <2>2, <2>3
<1> HIDE DEF h, left, handle, d
<1>14. inodes' \in [1..m -> SUBSET Visits]
  <2>1. \A i \in DOMAIN inodes' : inodes'[i] \in SUBSET Visits
    BY <1>2, <1>3, <1>8, <1>10
  <2>2. inodes' = [i \in DOMAIN inodes' |-> inodes'[i]]
    BY <1>8 DEF Entered
  <2> QED BY <1>13, <2>1, <2>2
<1>15. files' \in [DOMAIN files' -> DOMAIN inodes'] /\ DOMAIN files' \subseteq Days
  <2>1. files' = [e \in DOMAIN files' |-> files'[e]]
    BY <1>8 DEF Entered, left
  <2>2. /\ DOMAIN files' \subseteq DOMAIN files \cup {d}
        /\ \A e \in DOMAIN files' : files'[e] = IF e = d THEN h ELSE files[e]
    BY <1>11, <1>12 DEF Written
  <2>3. \A e \in DOMAIN files' : files'[e] \in DOMAIN inodes'
    BY <1>3, <1>7, <1>10, <2>2
  <2> QED BY <1>4, <1>7, <2>1, <2>2, <2>3
<1>16. writer'.open \in [date : Days, inode : DOMAIN inodes'] \cup {Closed}
  <2>1. writer'.open = [date |-> d, inode |-> h]
    BY <1>11, <1>12 DEF Written
  <2> QED BY <1>4, <1>10, <2>1
<1>17. LogTyped'
  BY <1>14, <1>15, <1>16 DEF LogTyped
<1> QED BY <1>11, <1>12, <1>17

LEMMA ALWrites ==
  ASSUME LogAssumption, ALStrong, NEW v \in Visits, WriteLine(v)
  PROVE  ALStrong'
<1> USE DEF ALStrong
<1>1. PICK d, h, gone, lines : Written(v, d, h, gone, lines)
  BY WriteLineWrites
<1>2. /\ visit[v].step = "write" /\ lines \subseteq {v}
      /\ visit' = [visit EXCEPT ![v].step = IF v \in lines THEN "written" ELSE "lost"]
      /\ UNCHANGED <<date, keep, logging, sweep, reading, cleared>>
  BY <1>1 DEF WriteLine, Written
<1>3. /\ DOMAIN files \subseteq Days /\ \A e \in DOMAIN files : files[e] \in DOMAIN inodes
      /\ \A m \in DOMAIN inodes : inodes[m] \subseteq Visits
  BY DEF ALTyped, LogTyped
<1>4. /\ visit'[v].step = IF v \in lines THEN "written" ELSE "lost"
      /\ visit'[v].date = visit[v].date
      /\ \A w \in Visits \ {v} : visit'[w] = visit[w]
  BY <1>2 DEF ALTyped, Requests
<1>5. \A w \in Visits : visit'[w].date = visit[w].date
  BY <1>4
<1>6. d = visit[v].date /\ d \in 1..date
  BY <1>1, <1>2 DEF Written, Past
<1>7. \A w \in Visits : visit[w].step = "written" => w # v /\ visit'[w] = visit[w]
  BY <1>2, <1>4
<1>8. v \notin LinesOf(d)
  BY <1>2, <1>3 DEF LinesDone, LinesOf
<1>9. \A e \in DOMAIN files' : LinesOf(e)' = LinesOf(e) \cup (IF e = d THEN lines ELSE {})
  <2> TAKE e \in DOMAIN files'
  <2>1. LinesOf(e)' = inodes'[files'[e]]
    BY DEF LinesOf
  <2>2. CASE e = d
    <3>1. files'[e] = h /\ (e \in DOMAIN files => files[e] = h)
      BY <1>1, <2>2 DEF Written
    <3>2. CASE e \in DOMAIN files
      <4>1. h \in DOMAIN inodes /\ LinesOf(e) = inodes[h]
        BY <1>3, <3>1, <3>2 DEF LinesOf
      <4> QED BY <1>1, <2>1, <2>2, <3>1, <4>1 DEF Written
    <3>3. CASE e \notin DOMAIN files
      <4>1. h \notin DOMAIN inodes /\ LinesOf(e) = {}
        BY <1>1, <2>2, <3>3 DEF LinesOf, Written
      <4> QED BY <1>1, <2>1, <2>2, <3>1, <4>1 DEF Written
    <3> QED BY <3>2, <3>3
  <2>3. CASE e # d
    <3>1. e \in DOMAIN files /\ files'[e] = files[e] /\ files[e] # h
      BY <1>1, <2>3 DEF Written
    <3>2. inodes'[files[e]] = inodes[files[e]]
      BY <1>1, <1>3, <3>1 DEF Written
    <3> QED BY <2>1, <2>3, <3>1, <3>2 DEF LinesOf
  <2> QED BY <2>2, <2>3
<1>10. ALTyped'
  <2>1. LogTyped'
    BY WriteLineWrites
  <2>2. Requests'
    BY <1>2 DEF Requests, LogSteps, ALTyped
  <2>3. ReaderTyped'
    BY <1>2 DEF ReaderTyped, ALTyped
  <2> QED BY <1>2, <2>1, <2>2, <2>3 DEF ALTyped
<1>11. Past'
  <2>1. aged' \subseteq 1..(date - 1)
    <3>1. aged' = aged \cup gone /\ gone \subseteq 1..(d - 1)
      BY <1>1 DEF Written
    <3>2. date \in Nat
      BY DEF ALTyped, Days
    <3>3. 1..(d - 1) \subseteq 1..(date - 1)
      BY <1>6, <3>2
    <3> QED BY <3>1, <3>3 DEF Past
  <2>2. date' = date /\ sweep' = sweep
    BY <1>2
  <2>3. \A w \in Visits : visit'[w].step \in {"write", "written"} => visit'[w].date \in 1..date
    BY <1>2, <1>4 DEF Past
  <2> QED BY <2>1, <2>2, <2>3 DEF Past
<1>12. Handle'
  <2>1. writer'.open = [date |-> d, inode |-> h]
    BY <1>1 DEF Written
  <2>2. \A e \in DOMAIN files' : files'[e] = h <=> e = d
    BY <1>1 DEF Written
  <2>3. d \in DOMAIN files' \/ d \in aged'
    BY <1>1 DEF Written
  <2> QED BY <2>1, <2>2, <2>3 DEF Handle
<1>13. OneEach'
  <2>1. \A e \in DOMAIN files' : files'[e] = IF e = d THEN h ELSE files[e]
    BY <1>1 DEF Written
  <2>2. \A e \in DOMAIN files' \ {d} : e \in DOMAIN files /\ files[e] # h
    BY <1>1 DEF Written
  <2> QED BY <2>1, <2>2 DEF OneEach
<1>14. LinesDone'
  <2>1. \A m \in DOMAIN inodes' : \A w \in inodes'[m] :
          w \in lines \/ (m \in DOMAIN inodes /\ w \in inodes[m])
    BY <1>1 DEF Written
  <2> QED BY <1>2, <1>3, <1>4, <1>7, <2>1 DEF LinesDone
<1>15. LinesInPlace'
  <2>1. \A w \in Visits : \A e \in DOMAIN files' : w \in LinesOf(e)' => e = visit[w].date
    <3>1. \A e : LinesOf(e) # {} => e \in DOMAIN files
      BY DEF LinesOf
    <3> QED BY <1>2, <1>6, <1>9, <3>1 DEF LinesInPlace
  <2>2. \A w \in Visits : \A e : visit[w].step = "written" /\ e = visit[w].date =>
          w \in LinesOf(e)' \cup cleared \/ e \in aged'
    <3> SUFFICES ASSUME NEW w \in Visits, NEW e, visit[w].step = "written", e = visit[w].date
                 PROVE  w \in LinesOf(e)' \cup cleared \/ e \in aged'
      OBVIOUS
    <3>1. w \in LinesOf(e) \cup cleared \/ e \in aged
      BY DEF LinesInPlace
    <3>2. aged' = aged \cup gone
      BY <1>1 DEF Written
    <3>3. ASSUME w \in LinesOf(e) PROVE e \in gone \/ w \in LinesOf(e)'
      <4>1. e \in DOMAIN files
        BY <3>3 DEF LinesOf
      <4>2. e \in gone \/ e \in DOMAIN files'
        BY <1>1, <4>1 DEF Written
      <4> QED BY <1>9, <3>3, <4>2
    <3> QED BY <3>1, <3>2, <3>3
  <2>3. v \in lines => v \in LinesOf(d)' \/ d \in aged'
    BY <1>1, <1>9 DEF Written
  <2> QED BY <1>2, <1>4, <1>5, <1>6, <2>1, <2>2, <2>3 DEF LinesInPlace
<1>16. ReadingRight'
  <2> SUFFICES ASSUME NEW w \in reading.since, NEW e, e = visit'[w].date
               PROVE  /\ visit'[w].step = "written"
                      /\ \/ w \in reading.seen \/ w \in cleared \/ e \in aged'
                         \/ e \in reading.todo /\ w \in LinesOf(e)'
    BY <1>2 DEF ReadingRight, Ahead
  <2>1. w \in Visits
    BY DEF ALTyped, ReaderTyped
  <2>2. visit[w].step = "written" /\ visit'[w] = visit[w]
    BY <1>7, <2>1 DEF ReadingRight
  <2>3. aged' = aged \cup gone
    BY <1>1 DEF Written
  <2>4. ASSUME w \in LinesOf(e) PROVE e \in gone \/ w \in LinesOf(e)'
    <3>1. e \in DOMAIN files
      BY <2>4 DEF LinesOf
    <3>2. e \in gone \/ e \in DOMAIN files'
      BY <1>1, <3>1 DEF Written
    <3> QED BY <1>9, <2>4, <3>2
  <2> QED BY <2>2, <2>3, <2>4 DEF ReadingRight, Ahead
<1> QED BY <1>10, <1>11, <1>12, <1>13, <1>14, <1>15, <1>16

\* A failure before the writing: at most files go, and the handle.
LEMMA ALFails ==
  ASSUME LogAssumption, ALStrong, NEW v \in Visits, WriteFails(v)
  PROVE  ALStrong'
<1> USE DEF ALStrong
<1>1. /\ visit[v].step = "write" /\ visit' = [visit EXCEPT ![v].step = "lost"]
      /\ UNCHANGED <<date, keep, logging, inodes, sweep, reading, cleared>>
  BY DEF WriteFails
<1>2. /\ visit'[v].step = "lost" /\ visit'[v].date = visit[v].date
      /\ \A w \in Visits \ {v} : visit'[w] = visit[w]
      /\ \A w \in Visits : visit'[w].date = visit[w].date
  BY <1>1 DEF ALTyped, Requests
<1>3. PICK gone :
        /\ gone \subseteq DOMAIN files \cap (1..(date - 1))
        /\ files' = [f \in DOMAIN files \ gone |-> files[f]] /\ aged' = aged \cup gone
        /\ writer'.open \in {Closed, writer.open} /\ (writer'.open # Closed => gone = {})
  <2>1. CASE UNCHANGED <<files, writer, aged>>
    <3> WITNESS {}
    <3>1. files = [f \in DOMAIN files |-> files[f]]
      BY DEF ALTyped, LogTyped
    <3> QED BY <2>1, <3>1
  <2>2. ASSUME NEW gone \in SUBSET Deletable(visit[v].date, visit[v].keep),
               files' = [f \in DOMAIN files \ gone |-> files[f]], aged' = aged \cup gone,
               writer' = [cleaned |-> visit[v].date, kept |-> visit[v].keep, open |-> Closed]
        PROVE  gone \subseteq DOMAIN files \cap (1..(date - 1))
    <3>1. \A f \in gone : f \in DOMAIN files /\ TooOld(f, visit[v].date, visit[v].keep)
      BY DEF Deletable
    <3>2. visit[v].date \in 1..date /\ date \in Nat /\ DOMAIN files \subseteq Days
      BY <1>1 DEF Past, ALTyped, LogTyped, Days
    <3>3. visit[v].keep \in Nat
      BY DEF ALTyped, Requests
    <3> QED BY <3>1, <3>2, <3>3 DEF TooOld, Days
  <2>3. ASSUME ~ UNCHANGED <<files, writer, aged>>
        PROVE  \E gone \in SUBSET Deletable(visit[v].date, visit[v].keep) :
                 /\ files' = [f \in DOMAIN files \ gone |-> files[f]] /\ aged' = aged \cup gone
                 /\ writer' = [cleaned |-> visit[v].date, kept |-> visit[v].keep,
                               open |-> Closed]
    BY <2>3 DEF WriteFails
  <2>4. CASE ~ UNCHANGED <<files, writer, aged>>
    <3>1. PICK gone \in SUBSET Deletable(visit[v].date, visit[v].keep) :
            /\ files' = [f \in DOMAIN files \ gone |-> files[f]] /\ aged' = aged \cup gone
            /\ writer' = [cleaned |-> visit[v].date, kept |-> visit[v].keep, open |-> Closed]
      BY <2>3, <2>4
    <3>2. gone \subseteq DOMAIN files \cap (1..(date - 1)) /\ writer'.open = Closed
      BY <2>2, <3>1
    <3> WITNESS gone
    <3> QED BY <3>1, <3>2
  <2> QED BY <2>1, <2>4
<1>4. \A e : LinesOf(e)' = IF e \in gone THEN {} ELSE LinesOf(e)
  BY <1>1, <1>3 DEF LinesOf
<1>5. \A w \in Visits : visit[w].step = "written" => w # v /\ visit'[w] = visit[w]
  BY <1>1, <1>2
<1>6. ALTyped'
  <2>1. LogTyped'
    BY <1>1, <1>3 DEF LogTyped, ALTyped
  <2>2. Requests'
    BY <1>1 DEF Requests, LogSteps, ALTyped
  <2>3. ReaderTyped'
    BY <1>1 DEF ReaderTyped, ALTyped
  <2> QED BY <1>1, <2>1, <2>2, <2>3 DEF ALTyped
<1>7. Past'
  BY <1>1, <1>2, <1>3 DEF Past
<1>8. Handle' /\ OneEach'
  BY <1>3 DEF Handle, OneEach
<1>9. LinesDone'
  <2>1. \A n \in DOMAIN inodes : inodes[n] \subseteq Visits
    BY DEF ALTyped, LogTyped
  <2> QED BY <1>1, <1>5, <2>1 DEF LinesDone
<1>10. LinesInPlace'
  <2> SUFFICES ASSUME NEW w \in Visits, NEW t, t = visit[w].date
               PROVE  /\ \A e \in DOMAIN files' : w \in LinesOf(e)' => e = t
                      /\ visit'[w].step = "written" =>
                           w \in LinesOf(t)' \cup cleared \/ t \in aged'
    BY <1>1, <1>2 DEF LinesInPlace
  <2>1. visit'[w].step = "written" => visit[w].step = "written"
    BY <1>2
  <2> QED BY <1>3, <1>4, <2>1 DEF LinesInPlace
<1>11. ReadingRight'
  <2> SUFFICES ASSUME NEW w \in reading.since, NEW e, e = visit'[w].date
               PROVE  /\ visit'[w].step = "written"
                      /\ \/ w \in reading.seen \/ w \in cleared \/ e \in aged'
                         \/ e \in reading.todo /\ w \in LinesOf(e)'
    BY <1>1 DEF ReadingRight, Ahead
  <2>1. w \in Visits /\ visit'[w] = visit[w]
    BY <1>5 DEF ALTyped, ReaderTyped, ReadingRight
  <2> QED BY <1>3, <1>4, <2>1 DEF ReadingRight, Ahead
<1> QED BY <1>6, <1>7, <1>8, <1>9, <1>10, <1>11

\* The owner and the clock: lines go only into cleared, files only into aged.
LEMMA ALOwner ==
  ASSUME LogAssumption, ALStrong,
         ChangeSettings \/ SweepFile \/ ClearFiles \/ BeginReading \/ ReadLogFile \/ Midnight
  PROVE  ALStrong'
<1> USE DEF ALStrong
<1>1. /\ date \in Nat /\ date >= 1 /\ keep \in Nat
      /\ DOMAIN files \subseteq Days /\ \A e \in DOMAIN files : files[e] \in DOMAIN inodes
      /\ \A m \in DOMAIN inodes : inodes[m] \subseteq Visits
  BY DEF ALTyped, LogTyped, Days
<1>2. CASE ChangeSettings
  <2>1. UNCHANGED <<date, files, inodes, writer, visit, reading, aged, cleared>>
    BY <1>2 DEF ChangeSettings
  <2>2. keep' \in Nat /\ sweep' \subseteq 1..(date - 1)
    <3>1. keep' \in Nat
      BY <1>2 DEF ChangeSettings, LogAssumption
    <3>2. \A k \in Nat : \A f \in Days : TooOld(f, date, k) => f \in 1..(date - 1)
      BY <1>1, <3>1 DEF TooOld, Days
    <3> QED BY <1>1, <1>2, <3>1, <3>2 DEF ChangeSettings
  <2>3. ALTyped'
    <3>1. LogTyped'
      BY <2>1 DEF LogTyped, ALTyped
    <3>2. Requests' /\ ReaderTyped'
      BY <2>1 DEF Requests, ReaderTyped, ALTyped
    <3> QED BY <2>1, <2>2, <3>1, <3>2 DEF ALTyped
  <2>4. Past'
    BY <2>1, <2>2 DEF Past
  <2>5. Handle' /\ OneEach' /\ LinesDone' /\ LinesInPlace'
    BY <2>1 DEF Handle, OneEach, LinesDone, LinesInPlace, LinesOf
  <2>6. ReadingRight'
    BY <2>1 DEF ReadingRight, Ahead, LinesOf
  <2> QED BY <2>3, <2>4, <2>5, <2>6
<1>3. CASE SweepFile
  <2>1. UNCHANGED <<date, keep, logging, inodes, writer, visit, reading, cleared>>
    BY <1>3 DEF SweepFile
  <2>2. PICK gone :
          /\ gone \subseteq DOMAIN files \cap (1..(date - 1)) /\ sweep' \subseteq sweep
          /\ files' = [g \in DOMAIN files \ gone |-> files[g]] /\ aged' = aged \cup gone
    <3>1. PICK f \in sweep :
            IF f \in DOMAIN files
              THEN /\ files' = [g \in DOMAIN files \ {f} |-> files[g]]
                   /\ aged' = aged \cup {f} /\ sweep' = sweep \ {f}
            ELSE sweep' = {} /\ UNCHANGED <<files, aged>>
      BY <1>3 DEF SweepFile
    <3>2. f \in 1..(date - 1)
      BY DEF Past
    <3>3. CASE f \in DOMAIN files
      <4> WITNESS {f}
      <4> QED BY <3>1, <3>2, <3>3
    <3>4. CASE f \notin DOMAIN files
      <4> WITNESS {}
      <4>1. files = [g \in DOMAIN files |-> files[g]]
        BY DEF ALTyped, LogTyped
      <4> QED BY <3>1, <3>4, <4>1
    <3> QED BY <3>3, <3>4
  <2>3. /\ DOMAIN files' = DOMAIN files \ gone
        /\ \A e \in DOMAIN files' : files'[e] = files[e]
    BY <2>2
  <2>4. \A e : LinesOf(e)' = IF e \in gone THEN {} ELSE LinesOf(e)
    BY <2>1, <2>2, <2>3 DEF LinesOf
  <2>5. ALTyped'
    <3>1. files' \in [DOMAIN files' -> DOMAIN inodes'] /\ DOMAIN files' \subseteq Days
      BY <1>1, <2>1, <2>2, <2>3
    <3>2. inodes' = inodes /\ writer' = writer
      BY <2>1
    <3>3. LogTyped'
      BY <3>1, <3>2 DEF LogTyped, ALTyped
    <3>4. Requests' /\ ReaderTyped'
      BY <2>1 DEF Requests, ReaderTyped, ALTyped
    <3> QED BY <2>1, <3>3, <3>4 DEF ALTyped
  <2>6. Past'
    BY <2>1, <2>2 DEF Past
  <2>7. Handle' /\ OneEach'
    BY <2>1, <2>2, <2>3 DEF Handle, OneEach
  <2>8. LinesDone'
    BY <2>1 DEF LinesDone
  <2>9. LinesInPlace'
    <3> SUFFICES ASSUME NEW w \in Visits, NEW t, t = visit[w].date
                 PROVE  /\ \A e \in DOMAIN files' : w \in LinesOf(e)' => e = t
                        /\ visit[w].step = "written" =>
                             w \in LinesOf(t)' \cup cleared \/ t \in aged'
      BY <2>1 DEF LinesInPlace
    <3> QED BY <2>2, <2>3, <2>4 DEF LinesInPlace
  <2>10. ReadingRight'
    <3> SUFFICES ASSUME NEW w \in reading.since, NEW e, e = visit[w].date
                 PROVE  /\ visit[w].step = "written"
                        /\ \/ w \in reading.seen \/ w \in cleared \/ e \in aged'
                           \/ e \in reading.todo /\ w \in LinesOf(e)'
      BY <2>1 DEF ReadingRight, Ahead
    <3> QED BY <2>2, <2>4 DEF ReadingRight, Ahead
  <2> QED BY <2>5, <2>6, <2>7, <2>8, <2>9, <2>10
<1>4. CASE ClearFiles
  <2>1. UNCHANGED <<date, keep, logging, files, writer, visit, sweep, reading, aged>>
    BY <1>4 DEF ClearFiles
  <2>2. /\ DOMAIN inodes' = DOMAIN inodes
        /\ \A m \in DOMAIN inodes :
             inodes'[m] = IF \E d \in DOMAIN files : files[d] = m THEN {} ELSE inodes[m]
        /\ \A e \in DOMAIN files : LinesOf(e) \subseteq cleared'
        /\ cleared \subseteq cleared'
    BY <1>4 DEF ClearFiles
  <2>3. \A e : LinesOf(e)' = {}
    BY <1>1, <2>1, <2>2 DEF LinesOf
  <2>4. \A e : LinesOf(e) \subseteq cleared' /\ LinesOf(e) \subseteq Visits
    BY <1>1, <2>2 DEF LinesOf
  <2>5. ALTyped'
    <3>1. PICK n \in Nat : inodes \in [1..n -> SUBSET Visits]
      BY DEF ALTyped, LogTyped
    <3>2. inodes' = [m \in DOMAIN inodes |-> inodes'[m]]
      BY <1>4 DEF ClearFiles
    <3>3. inodes' \in [1..n -> SUBSET Visits]
      <4>1. \A m \in 1..n : inodes'[m] \in SUBSET Visits
        BY <3>1, <2>2
      <4> QED BY <3>1, <3>2, <4>1
    <3>4. DOMAIN inodes' = DOMAIN inodes /\ files' = files /\ writer' = writer
      BY <2>1, <2>2
    <3>5. LogTyped'
      BY <3>3, <3>4 DEF LogTyped, ALTyped
    <3>6. cleared' \subseteq Visits
      <4>1. cleared \subseteq Visits
        BY DEF ALTyped, ReaderTyped
      <4> QED BY <1>4, <2>4, <4>1 DEF ClearFiles
    <3>7. Requests' /\ ReaderTyped'
      BY <2>1, <3>6 DEF Requests, ReaderTyped, ALTyped
    <3> QED BY <2>1, <3>5, <3>7 DEF ALTyped
  <2>6. Past' /\ Handle' /\ OneEach'
    BY <2>1 DEF Past, Handle, OneEach
  <2>7. LinesDone'
    BY <2>1, <2>2 DEF LinesDone
  <2>8. LinesInPlace'
    <3> SUFFICES ASSUME NEW w \in Visits, NEW t, t = visit[w].date
                 PROVE  /\ \A e \in DOMAIN files' : w \in LinesOf(e)' => e = t
                        /\ visit[w].step = "written" =>
                             w \in LinesOf(t)' \cup cleared' \/ t \in aged
      BY <2>1 DEF LinesInPlace
    <3> QED BY <2>2, <2>3, <2>4 DEF LinesInPlace
  <2>9. ReadingRight'
    <3> SUFFICES ASSUME NEW w \in reading.since, NEW e, e = visit[w].date
                 PROVE  /\ visit[w].step = "written"
                        /\ \/ w \in reading.seen \/ w \in cleared' \/ e \in aged
                           \/ e \in reading.todo /\ w \in LinesOf(e)'
      BY <2>1 DEF ReadingRight, Ahead
    <3> QED BY <2>2, <2>4 DEF ReadingRight, Ahead
  <2> QED BY <2>5, <2>6, <2>7, <2>8, <2>9
<1>5. ASSUME UNCHANGED <<date, keep, logging, files, inodes, writer, visit, sweep, aged,
                         cleared>>,
             reading' \in [todo : SUBSET Days, seen : SUBSET Visits, since : SUBSET Visits]
      PROVE  /\ ALTyped' /\ Past' /\ Handle' /\ OneEach' /\ LinesDone' /\ LinesInPlace'
             /\ \A e : LinesOf(e)' = LinesOf(e)
  <2>1. LogTyped' /\ Requests' /\ ReaderTyped'
    BY <1>5 DEF LogTyped, Requests, ReaderTyped, ALTyped
  <2>2. ALTyped'
    BY <1>5, <2>1 DEF ALTyped
  <2>3. Past' /\ Handle' /\ OneEach' /\ LinesDone'
    BY <1>5 DEF Past, Handle, OneEach, LinesDone
  <2>4. LinesInPlace'
    BY <1>5 DEF LinesInPlace, LinesOf
  <2> QED BY <1>5, <2>2, <2>3, <2>4 DEF LinesOf
<1>6. \A e : LinesOf(e) \subseteq Visits
  BY <1>1 DEF LinesOf
<1>7. CASE BeginReading
  <2>1. /\ UNCHANGED <<date, keep, logging, files, inodes, writer, visit, sweep, aged, cleared>>
        /\ reading' = [todo |-> DOMAIN files, seen |-> {},
                       since |-> UNION {LinesOf(d) : d \in DOMAIN files}]
    BY <1>7 DEF BeginReading
  <2>2. UNION {LinesOf(d) : d \in DOMAIN files} \subseteq Visits
    BY <1>6
  <2>3. reading' \in [todo : SUBSET Days, seen : SUBSET Visits, since : SUBSET Visits]
    BY <1>1, <2>1, <2>2
  <2>4. ReadingRight'
    <3> SUFFICES ASSUME NEW w \in reading'.since, NEW e, e = visit[w].date
                 PROVE  visit[w].step = "written" /\ e \in reading'.todo /\ w \in LinesOf(e)
      BY <1>5, <2>1, <2>3 DEF ReadingRight, Ahead
    <3>1. PICK d \in DOMAIN files : w \in LinesOf(d)
      BY <2>1
    <3>2. w \in Visits /\ d = e
      BY <1>6, <3>1 DEF LinesInPlace
    <3>3. visit[w].step = "written"
      BY <1>1, <3>1 DEF LinesDone, LinesOf
    <3> QED BY <2>1, <3>1, <3>2, <3>3
  <2> QED BY <1>5, <2>1, <2>3, <2>4
<1>8. CASE ReadLogFile
  <2>1. PICK d \in reading.todo :
          reading' = IF d \notin DOMAIN files THEN NoReading
                     ELSE [reading EXCEPT !.todo = @ \ {d}, !.seen = @ \cup LinesOf(d)]
    BY <1>8 DEF ReadLogFile
  <2>2. UNCHANGED <<date, keep, logging, files, inodes, writer, visit, sweep, aged, cleared>>
    BY <1>8 DEF ReadLogFile
  <2>3. reading \in [todo : SUBSET Days, seen : SUBSET Visits, since : SUBSET Visits]
    BY DEF ALTyped, ReaderTyped
  <2>4. CASE d \notin DOMAIN files
    <3>1. reading' \in [todo : SUBSET Days, seen : SUBSET Visits, since : SUBSET Visits]
      BY <2>1, <2>4 DEF NoReading
    <3>2. ReadingRight'
      BY <2>1, <2>4 DEF ReadingRight, NoReading
    <3> QED BY <1>5, <2>2, <3>1, <3>2
  <2>5. CASE d \in DOMAIN files
    <3>1. /\ reading'.todo = reading.todo \ {d} /\ reading'.seen = reading.seen \cup LinesOf(d)
          /\ reading'.since = reading.since
      BY <2>1, <2>3, <2>5
    <3>2. reading' \in [todo : SUBSET Days, seen : SUBSET Visits, since : SUBSET Visits]
      BY <1>6, <2>1, <2>3, <2>5
    <3>3. ReadingRight'
      <4> SUFFICES ASSUME NEW w \in reading.since, NEW e, e = visit[w].date
                   PROVE  /\ visit[w].step = "written"
                          /\ \/ w \in reading'.seen \/ w \in cleared \/ e \in aged
                             \/ e \in reading'.todo /\ w \in LinesOf(e)
        BY <1>5, <2>2, <3>1, <3>2 DEF ReadingRight, Ahead
      <4> QED BY <3>1 DEF ReadingRight, Ahead
    <3> QED BY <1>5, <2>2, <3>2, <3>3
  <2> QED BY <2>4, <2>5
<1>9. CASE Midnight
  <2>1. /\ date' = date + 1
        /\ UNCHANGED <<keep, logging, files, inodes, writer, visit, sweep, reading, aged,
                       cleared>>
    BY <1>9 DEF Midnight
  <2>2. ALTyped'
    <3>1. LogTyped'
      BY <2>1 DEF LogTyped, ALTyped
    <3>2. Requests' /\ ReaderTyped'
      BY <2>1 DEF Requests, ReaderTyped, ALTyped
    <3> QED BY <1>1, <2>1, <3>1, <3>2 DEF ALTyped, Days
  <2>3. Past'
    <3>1. 1..(date - 1) \subseteq 1..(date' - 1) /\ 1..date \subseteq 1..date'
      BY <1>1, <2>1
    <3> QED BY <2>1, <3>1 DEF Past
  <2>4. Handle' /\ OneEach' /\ LinesDone' /\ LinesInPlace'
    BY <2>1 DEF Handle, OneEach, LinesDone, LinesInPlace, LinesOf
  <2>5. ReadingRight'
    BY <2>1 DEF ReadingRight, Ahead, LinesOf
  <2> QED BY <2>2, <2>3, <2>4, <2>5
<1> QED BY <1>2, <1>3, <1>4, <1>7, <1>8, <1>9

LEMMA ALIdle ==
  ASSUME ALStrong, UNCHANGED alvars
  PROVE  ALStrong'
<1>1. /\ date' = date /\ keep' = keep /\ files' = files /\ inodes' = inodes
      /\ writer' = writer /\ visit' = visit /\ sweep' = sweep /\ reading' = reading
      /\ aged' = aged /\ cleared' = cleared
  BY DEF alvars
<1>2. ALTyped'
  <2>1. LogTyped'
    BY <1>1 DEF LogTyped, ALStrong, ALTyped
  <2>2. Requests' /\ ReaderTyped'
    BY <1>1 DEF Requests, ReaderTyped, ALStrong, ALTyped
  <2> QED BY <1>1, <2>1, <2>2 DEF ALStrong, ALTyped
<1>3. Past' /\ Handle' /\ OneEach' /\ LinesDone'
  BY <1>1 DEF ALStrong, Past, Handle, OneEach, LinesDone
<1>4. LinesInPlace' /\ ReadingRight'
  BY <1>1 DEF ALStrong, LinesInPlace, ReadingRight, Ahead, LinesOf
<1> QED BY <1>2, <1>3, <1>4 DEF ALStrong

\* A line is in the file of the day of its answer and in no other, however late
\* it is written; today's file is never deleted for its age; and a query shows
\* what was there, whatever its requests, settings, deletions and the owner do
\* meanwhile (access_log.rs), for any requests, retentions and days.
THEOREM AccessSafe == ALSpec => []AccessInv
<1> USE LogAssumption
<1>1. ALInit => ALStrong
  BY ALStart
<1>2. ALStrong /\ [ALNext]_alvars => ALStrong'
  <2> SUFFICES ASSUME ALStrong, [ALNext]_alvars PROVE ALStrong'
    OBVIOUS
  <2>1. ASSUME NEW v \in Visits, Arrive(v) \/ Complete(v) PROVE ALStrong'
    BY <2>1, ALVisits
  <2>2. ASSUME NEW v \in Visits, WriteLine(v) PROVE ALStrong'
    BY <2>2, ALWrites
  <2>3. ASSUME NEW v \in Visits, WriteFails(v) PROVE ALStrong'
    BY <2>3, ALFails
  <2> QED BY <2>1, <2>2, <2>3, ALOwner, ALIdle DEF ALNext
<1>3. ALStrong => AccessInv
  BY ALMeans
<1> QED BY <1>1, <1>2, <1>3, PTL DEF ALSpec

-----------------------------------------------------------------------------
(* Tasks, checkpoints and receipts (TaskStore).                            *)

OpenKeys == {"task-open"} \X (Owners \cup {Nowhere}) \X (RequestIds \cup {NoId})
CheckKeys == {"task"} \X (1..MaxTasks) \X RequestIds
TaskRecords == [goal : Goals, state : {"active", "completed"}, revision : Nat,
                steps : Deltas, by : OpenKeys]
EventRecords ==
  [task : 1..MaxTasks, kind : {"user_input"}, by : OpenKeys \cup CheckKeys]
  \cup [task : 1..MaxTasks, kind : {"checkpoint"}, by : Nat]

TaskTyped ==
  /\ tasks \in Seq(TaskRecords) /\ Len(tasks) <= MaxTasks
  /\ bindings \in [Owners -> 0..Len(tasks)] /\ unresolved \subseteq DOMAIN tasks
  /\ events \in Seq(EventRecords) /\ \A i \in DOMAIN events : events[i].task \in DOMAIN tasks
  /\ receipts = [k \in DOMAIN receipts |-> receipts[k]]

\* An answer: to an opening or a checkpoint that was sent, and with a receipt if
\* it has a request.
OpenSaid(x) ==
  /\ x.input \in Opens /\ x.key = OpenKey(x.input) /\ x.task \in DOMAIN tasks
  /\ x.revision = 0
  /\ x.input.goal # NoGoal => tasks[x.task].goal = x.input.goal
CheckSaid(x) ==
  /\ x.input \in Checkpoints /\ x.key = CheckKey(x.input) /\ x.task = x.input.task
  /\ x.task \in DOMAIN tasks /\ x.revision \in 1..tasks[x.task].revision
  /\ x.input.expected = x.revision - 1
  /\ x.input.next = "completed" =>
       tasks[x.task].state = "completed" /\ tasks[x.task].revision = x.revision
Receipt(x) == [input |-> x.input, task |-> x.task, revision |-> x.revision]
AnswersRight == \A x \in answers :
  /\ OpenSaid(x) \/ CheckSaid(x)
  /\ x.key[3] # NoId => x.key \in DOMAIN receipts /\ receipts[x.key] = Receipt(x)

\* A receipt repeats an answer, so that a repetition changes nothing.
ReceiptsAnswered == \A key \in DOMAIN receipts :
  /\ key[3] # NoId
  /\ [key |-> key, input |-> receipts[key].input, task |-> receipts[key].task,
      revision |-> receipts[key].revision] \in answers

\* A task and an input belong to a request that has its receipt.
TasksAsked ==
  /\ \A t \in DOMAIN tasks : tasks[t].by[3] # NoId =>
       tasks[t].by \in DOMAIN receipts /\ receipts[tasks[t].by].task = t
  /\ \A i \in DOMAIN events : events[i].kind = "user_input" /\ events[i].by[3] # NoId =>
       events[i].by \in DOMAIN receipts /\ events[i].task = receipts[events[i].by].task
InputsSaved == \A key \in DOMAIN receipts : receipts[key].input.raw =>
  \E i \in DOMAIN events : \A j \in DOMAIN events :
    events[j].kind = "user_input" /\ events[j].by = key <=> j = i

FinalRight == \A t \in DOMAIN tasks :
  tasks[t].state = "completed" => Accepted(tasks[t].steps) /\ t \notin unresolved

TSStrong ==
  /\ TaskTyped /\ AnswersRight /\ ReceiptsAnswered /\ TasksAsked /\ InputsSaved
  /\ CheckpointsChain /\ FinalRight

-----------------------------------------------------------------------------
LEMMA RequestKeys ==
  ASSUME StoreAssumption
  PROVE  /\ \A a \in Opens : /\ OpenKey(a) \in OpenKeys /\ OpenKey(a)[1] = "task-open"
                             /\ OpenKey(a)[3] = a.id
         /\ \A a \in Checkpoints : /\ CheckKey(a) \in CheckKeys /\ CheckKey(a)[1] = "task"
                                   /\ CheckKey(a)[2] = a.task /\ CheckKey(a)[3] = a.id
                                   /\ a.id # NoId
BY DEF StoreAssumption, OpenInputs, CheckInputs, OpenKey, CheckKey, OpenKeys, CheckKeys

LEMMA TSMeans ==
  ASSUME StoreAssumption, TSStrong
  PROVE  TaskInv
<1> USE DEF TSStrong
<1>1. ASSUME NEW x \in answers, NEW y \in answers, x.key = y.key, x.key[3] # NoId
      PROVE  x.input = y.input /\ x.task = y.task /\ x.revision = y.revision
  <2>1. Receipt(x) = Receipt(y)
    BY <1>1 DEF AnswersRight
  <2> QED BY <2>1 DEF Receipt
<1>2. \A t, u \in DOMAIN tasks : tasks[t].by = tasks[u].by /\ tasks[t].by[3] # NoId => t = u
  BY DEF TasksAsked
<1>3. ASSUME NEW x \in answers, x.input.raw, x.key[3] # NoId
      PROVE  \E i \in DOMAIN events : \A j \in DOMAIN events : Brings(j, x) <=> j = i
  <2>1. x.key \in DOMAIN receipts /\ receipts[x.key] = Receipt(x)
    BY <1>3 DEF AnswersRight
  <2>2. receipts[x.key].input = x.input /\ receipts[x.key].task = x.task
    BY <2>1 DEF Receipt
  <2>3. PICK i \in DOMAIN events : \A j \in DOMAIN events :
          events[j].kind = "user_input" /\ events[j].by = x.key <=> j = i
    BY <1>3, <2>1, <2>2 DEF InputsSaved
  <2>4. \A j \in DOMAIN events : events[j].kind = "user_input" /\ events[j].by = x.key
                                   => events[j].task = x.task
    BY <1>3, <2>2 DEF TasksAsked
  <2> QED BY <2>3, <2>4 DEF Brings
<1>4. OpenedOnce
  BY <1>1, <1>2, <1>3 DEF OpenedOnce
<1>5. GoalsKept
  BY RequestKeys DEF GoalsKept, AnswersRight, OpenSaid, CheckSaid
<1>6. CompletedForGood
  BY RequestKeys DEF CompletedForGood, FinalRight, AnswersRight, OpenSaid, CheckSaid
<1> QED BY <1>4, <1>5, <1>6 DEF TaskInv

LEMMA TSStart ==
  ASSUME StoreAssumption, TSInit
  PROVE  TSStrong
<1> USE DEF TSInit
<1>1. TaskTyped
  BY DEF TaskTyped, StoreAssumption
<1>2. AnswersRight /\ ReceiptsAnswered /\ TasksAsked /\ InputsSaved
  BY DEF AnswersRight, ReceiptsAnswered, TasksAsked, InputsSaved
<1>3. CheckpointsChain /\ FinalRight
  BY DEF CheckpointsChain, FinalRight
<1> QED BY <1>1, <1>2, <1>3 DEF TSStrong

\* Nothing changes when a request is repeated that has its receipt.
LEMMA ReplaysAreIdle ==
  ASSUME StoreAssumption, TSStrong
  PROVE  /\ \A a \in Opens : a.id # NoId /\ ReplayOpen(a) => UNCHANGED tsvars
         /\ \A a \in Checkpoints : Known(CheckKey(a)) /\ ReplayCheckpoint(a)
                                     => UNCHANGED tsvars
<1> USE DEF TSStrong
<1>1. ASSUME NEW a \in Opens, a.id # NoId, ReplayOpen(a)
      PROVE  answers' = answers
  <2> DEFINE key == OpenKey(a)
             x == [key |-> key, input |-> receipts[key].input, task |-> receipts[key].task,
                   revision |-> receipts[key].revision]
  <2>1. key \in DOMAIN receipts /\ receipts[key].input = a
    BY <1>1 DEF ReplayOpen, Known
  <2>2. x \in answers
    BY <2>1 DEF ReceiptsAnswered
  <2>3. x.revision = 0
    BY <2>2, RequestKeys DEF AnswersRight, OpenSaid, CheckSaid
  <2>4. answers' = answers \cup {[key |-> key, input |-> a, task |-> receipts[key].task,
                                  revision |-> 0]}
    BY <1>1 DEF ReplayOpen, Reply
  <2> QED BY <2>1, <2>2, <2>3, <2>4
<1>2. ASSUME NEW a \in Checkpoints, Known(CheckKey(a)), ReplayCheckpoint(a)
      PROVE  answers' = answers
  <2> DEFINE key == CheckKey(a)
             x == [key |-> key, input |-> receipts[key].input, task |-> receipts[key].task,
                   revision |-> receipts[key].revision]
  <2>1. key \in DOMAIN receipts /\ receipts[key].input = a
    BY <1>2 DEF ReplayCheckpoint, Known
  <2>2. x \in answers
    BY <2>1 DEF ReceiptsAnswered
  <2>3. x.task = a.task
    BY <2>1, <2>2, RequestKeys DEF AnswersRight, OpenSaid, CheckSaid
  <2>4. answers' = answers \cup {[key |-> key, input |-> a, task |-> a.task,
                                  revision |-> receipts[key].revision]}
    BY <1>2 DEF ReplayCheckpoint, Reply
  <2> QED BY <2>1, <2>2, <2>3, <2>4
<1> QED BY <1>1, <1>2 DEF ReplayOpen, ReplayCheckpoint, tsvars

LEMMA TSIdle ==
  ASSUME TSStrong, UNCHANGED tsvars
  PROVE  TSStrong'
<1>1. /\ tasks' = tasks /\ bindings' = bindings /\ receipts' = receipts /\ events' = events
      /\ unresolved' = unresolved /\ answers' = answers
  BY DEF tsvars
<1>2. TaskTyped' /\ AnswersRight' /\ ReceiptsAnswered' /\ TasksAsked' /\ InputsSaved'
  BY <1>1 DEF TSStrong, TaskTyped, AnswersRight, ReceiptsAnswered, TasksAsked, InputsSaved,
              OpenSaid, CheckSaid
<1>3. CheckpointsChain' /\ FinalRight'
  BY <1>1 DEF TSStrong, CheckpointsChain, SavesOf, UpdatesOf, SaveEvents, FinalRight
<1> QED BY <1>2, <1>3 DEF TSStrong

LEMMA InputAdded ==
  ASSUME NEW pre \in Seq(EventRecords), NEW t \in 1..MaxTasks, NEW a,
         NEW key \in OpenKeys \cup CheckKeys
  PROVE  LET now == pre \o UserInput(t, a, key)
         IN /\ now \in Seq(EventRecords) /\ Len(pre) <= Len(now)
            /\ \A i \in DOMAIN pre : i \in DOMAIN now /\ now[i] = pre[i]
            /\ \A i \in DOMAIN now \ DOMAIN pre :
                 /\ a.raw /\ i = Len(pre) + 1
                 /\ now[i] = [task |-> t, kind |-> "user_input", by |-> key]
            /\ a.raw => Len(pre) + 1 \in DOMAIN now
<1> DEFINE r == [task |-> t, kind |-> "user_input", by |-> key]
<1>1. r \in EventRecords
  BY DEF EventRecords
<1> HIDE DEF r
<1>2. CASE a.raw
  <2>1. UserInput(t, a, key) = <<r>>
    BY <1>2 DEF UserInput, r
  <2>2. /\ <<r>> \in Seq(EventRecords) /\ Len(<<r>>) = 1 /\ <<r>>[1] = r
    BY <1>1
  <2>3. /\ pre \o <<r>> \in Seq(EventRecords) /\ Len(pre \o <<r>>) = Len(pre) + 1
        /\ \A i \in 1..Len(pre) : (pre \o <<r>>)[i] = pre[i]
        /\ (pre \o <<r>>)[Len(pre) + 1] = r
    BY <2>2, ConcatProperties
  <2>4. /\ DOMAIN pre = 1..Len(pre) /\ Len(pre) \in Nat
        /\ DOMAIN (pre \o <<r>>) = 1..(Len(pre) + 1)
    BY <2>3, LenProperties
  <2> QED BY <1>2, <2>1, <2>3, <2>4 DEF r
<1>3. CASE ~a.raw
  <2>1. pre \o UserInput(t, a, key) = pre
    BY <1>3 DEF UserInput
  <2> QED BY <1>3, <2>1
<1> QED BY <1>2, <1>3

\* The receipts of checkpoints.
LEMMA SavesKnown ==
  ASSUME StoreAssumption, TSStrong
  PROVE  \A key \in DOMAIN receipts : key[1] = "task" =>
           /\ receipts[key].input \in Checkpoints /\ key = CheckKey(receipts[key].input)
           /\ receipts[key].task \in DOMAIN tasks
           /\ receipts[key].revision \in 1..tasks[receipts[key].task].revision
<1> SUFFICES ASSUME NEW key \in DOMAIN receipts, key[1] = "task"
             PROVE  /\ receipts[key].input \in Checkpoints
                    /\ key = CheckKey(receipts[key].input)
                    /\ receipts[key].task \in DOMAIN tasks
                    /\ receipts[key].revision \in 1..tasks[receipts[key].task].revision
  OBVIOUS
<1> DEFINE x == [key |-> key, input |-> receipts[key].input, task |-> receipts[key].task,
                 revision |-> receipts[key].revision]
<1>1. x \in answers
  BY DEF TSStrong, ReceiptsAnswered
<1>2. OpenSaid(x) \/ CheckSaid(x)
  BY <1>1 DEF TSStrong, AnswersRight
<1>3. CheckSaid(x)
  BY <1>2, RequestKeys DEF OpenSaid
<1> QED BY <1>3 DEF CheckSaid

-----------------------------------------------------------------------------
LEMMA TSOpens ==
  ASSUME StoreAssumption, TSStrong, NEW a \in Opens, WellFormed(a), RecordOpen(a),
         a.id = NoId \/ ~Known(OpenKey(a))
  PROVE  TSStrong'
<1> USE DEF TSStrong
<1> DEFINE key == OpenKey(a)
           n == Len(tasks)
           t == IF Chosen(a) = 0 THEN n + 1 ELSE Chosen(a)
           fresh == [goal |-> a.goal, state |-> "active", revision |-> 0, steps |-> <<>>,
                     by |-> key]
           x0 == [key |-> key, input |-> a, task |-> t, revision |-> 0]
<1>1. /\ a \in OpenInputs /\ key \in OpenKeys /\ key[1] = "task-open" /\ key[3] = a.id
      /\ NoId \notin RequestIds /\ NoGoal \notin Goals
  BY RequestKeys DEF StoreAssumption
<1>2. /\ n \in Nat /\ DOMAIN tasks = 1..n /\ \A u \in 1..n : tasks[u] \in TaskRecords
      /\ tasks \in Seq(TaskRecords)
  BY DEF TaskTyped
<1>3. Chosen(a) \in 0..n
  BY <1>1, <1>2 DEF WellFormed, Chosen, Prior, TaskTyped, OpenInputs
<1>4. /\ t <= MaxTasks /\ ~GoalConflict(a)
      /\ tasks' = IF Chosen(a) # 0 THEN tasks ELSE Append(tasks, fresh)
      /\ bindings' = IF a.owner = Nowhere THEN bindings ELSE [bindings EXCEPT ![a.owner] = t]
      /\ events' = events \o UserInput(t, a, key)
      /\ IF a.id = NoId THEN UNCHANGED receipts ELSE File(key, a, t, 0)
      /\ answers' = answers \cup {x0} /\ UNCHANGED unresolved
  BY DEF RecordOpen, Reply
<1>5. t \in 1..MaxTasks
  BY <1>2, <1>3, <1>4 DEF StoreAssumption
<1> HIDE DEF key, n, x0
<1>6. /\ tasks' \in Seq(TaskRecords) /\ Len(tasks') >= n /\ Len(tasks') <= MaxTasks
      /\ DOMAIN tasks' = 1..Len(tasks') /\ Len(tasks') \in Nat /\ t \in DOMAIN tasks'
      /\ \A u \in 1..n : u \in DOMAIN tasks' /\ tasks'[u] = tasks[u]
      /\ \A u \in DOMAIN tasks' \ DOMAIN tasks : u = t /\ tasks'[u] = fresh
  <2>1. CASE Chosen(a) # 0
    <3>1. tasks' = tasks
      BY <1>4, <2>1
    <3> QED BY <1>2, <1>3, <2>1, <3>1 DEF TaskTyped, n
  <2>2. CASE Chosen(a) = 0
    <3>1. fresh \in TaskRecords
      <4>1. a.goal \in Goals
        BY <1>1, <2>2 DEF WellFormed, Chosen, OpenInputs
      <4>2. <<>> \in [{} -> {"open", "proved"}]
        OBVIOUS
      <4>3. [{} -> {"open", "proved"}] \in {[s -> {"open", "proved"}] : s \in SUBSET Steps}
        OBVIOUS
      <4>4. <<>> \in Deltas
        BY <4>2, <4>3 DEF Deltas
      <4> QED BY <1>1, <4>1, <4>4 DEF TaskRecords
    <3> HIDE DEF fresh
    <3>2. /\ Append(tasks, fresh) \in Seq(TaskRecords) /\ Len(Append(tasks, fresh)) = n + 1
          /\ \A u \in 1..n : Append(tasks, fresh)[u] = tasks[u]
          /\ Append(tasks, fresh)[n + 1] = fresh
      BY <1>2, <3>1, AppendProperties DEF n
    <3>3. tasks' = Append(tasks, fresh) /\ t = n + 1
      BY <1>4, <2>2
    <3> HIDE DEF t
    <3> QED BY <1>2, <1>4, <3>2, <3>3
  <2> QED BY <2>1, <2>2
<1>7. a.goal # NoGoal => tasks'[t].goal = a.goal
  <2>1. CASE Chosen(a) # 0
    BY <1>3, <1>4, <1>6, <2>1 DEF GoalConflict
  <2>2. CASE Chosen(a) = 0
    BY <1>2, <1>6, <2>2
  <2> QED BY <2>1, <2>2
<1> HIDE DEF t
<1>8. /\ \A k \in DOMAIN receipts : /\ k \in DOMAIN receipts' /\ receipts'[k] = receipts[k]
                                    /\ k # key
      /\ \A k \in DOMAIN receipts' \ DOMAIN receipts :
           k = key /\ a.id # NoId /\ receipts'[k] = [input |-> a, task |-> t, revision |-> 0]
      /\ a.id # NoId => key \in DOMAIN receipts' \ DOMAIN receipts
      /\ receipts' = [k \in DOMAIN receipts' |-> receipts'[k]]
  <2>1. a.id # NoId => key \notin DOMAIN receipts
    BY DEF Known, key
  <2>2. \A k \in DOMAIN receipts : k[3] # NoId
    BY DEF ReceiptsAnswered
  <2>3. CASE a.id = NoId
    BY <1>1, <1>4, <2>2, <2>3 DEF TaskTyped
  <2>4. CASE a.id # NoId
    BY <1>4, <2>1, <2>4 DEF File
  <2> QED BY <2>3, <2>4
<1>9. /\ events' \in Seq(EventRecords) /\ Len(events) <= Len(events')
      /\ \A i \in DOMAIN events : i \in DOMAIN events' /\ events'[i] = events[i]
      /\ \A i \in DOMAIN events' \ DOMAIN events :
           /\ a.raw /\ i = Len(events) + 1
           /\ events'[i] = [task |-> t, kind |-> "user_input", by |-> key]
      /\ a.raw => Len(events) + 1 \in DOMAIN events'
  BY <1>1, <1>4, <1>5, InputAdded DEF TaskTyped
<1>10. Len(events) \in Nat /\ DOMAIN events = 1..Len(events)
  BY DEF TaskTyped
<1>11. TaskTyped'
  <2>1. bindings' \in [Owners -> 0..Len(tasks')]
    <3>1. bindings \in [Owners -> 0..Len(tasks')]
      BY <1>2, <1>6 DEF TaskTyped, n
    <3>2. t \in 0..Len(tasks')
      BY <1>6
    <3> QED BY <1>4, <3>1, <3>2
  <2>2. unresolved' \subseteq DOMAIN tasks'
    BY <1>2, <1>4, <1>6 DEF TaskTyped
  <2>3. \A i \in DOMAIN events' : events'[i].task \in DOMAIN tasks'
    BY <1>2, <1>6, <1>9 DEF TaskTyped
  <2> QED BY <1>6, <1>8, <1>9, <2>1, <2>2, <2>3 DEF TaskTyped
<1>12. AnswersRight'
  <2> SUFFICES ASSUME NEW x \in answers'
               PROVE  /\ OpenSaid(x)' \/ CheckSaid(x)'
                      /\ x.key[3] # NoId => /\ x.key \in DOMAIN receipts'
                                            /\ receipts'[x.key] = Receipt(x)
    BY DEF AnswersRight, Receipt
  <2>1. CASE x \in answers
    <3>1. OpenSaid(x) => OpenSaid(x)'
      BY <1>2, <1>6 DEF OpenSaid
    <3>2. CheckSaid(x) => CheckSaid(x)'
      BY <1>2, <1>6 DEF CheckSaid
    <3> QED BY <1>8, <2>1, <3>1, <3>2 DEF AnswersRight
  <2>2. CASE x = x0
    <3>1. OpenSaid(x)'
      BY <1>6, <1>7, <2>2 DEF OpenSaid, x0, key
    <3> QED BY <1>1, <1>8, <2>2, <3>1 DEF x0, Receipt
  <2> QED BY <1>4, <2>1, <2>2
<1>13. ReceiptsAnswered'
  <2> SUFFICES ASSUME NEW k \in DOMAIN receipts'
               PROVE  /\ k[3] # NoId
                      /\ [key |-> k, input |-> receipts'[k].input, task |-> receipts'[k].task,
                          revision |-> receipts'[k].revision] \in answers'
    BY DEF ReceiptsAnswered
  <2>1. CASE k \in DOMAIN receipts
    BY <1>4, <1>8, <2>1 DEF ReceiptsAnswered
  <2>2. CASE k \notin DOMAIN receipts
    BY <1>1, <1>4, <1>8, <2>2 DEF x0
  <2> QED BY <2>1, <2>2
<1>14. TasksAsked'
  <2>1. ASSUME NEW u \in DOMAIN tasks', tasks'[u].by[3] # NoId
        PROVE  tasks'[u].by \in DOMAIN receipts' /\ receipts'[tasks'[u].by].task = u
    <3>1. CASE u \in DOMAIN tasks
      BY <1>2, <1>6, <1>8, <2>1, <3>1 DEF TasksAsked
    <3>2. CASE u \notin DOMAIN tasks
      <4>1. u = t /\ tasks'[u].by = key
        BY <1>6, <2>1, <3>2
      <4> QED BY <1>1, <1>8, <2>1, <4>1
    <3> QED BY <3>1, <3>2
  <2>2. ASSUME NEW i \in DOMAIN events', events'[i].kind = "user_input",
               events'[i].by[3] # NoId
        PROVE  /\ events'[i].by \in DOMAIN receipts'
               /\ events'[i].task = receipts'[events'[i].by].task
    <3>1. CASE i \in DOMAIN events
      BY <1>8, <1>9, <2>2, <3>1 DEF TasksAsked
    <3>2. CASE i \notin DOMAIN events
      <4>1. events'[i].by = key /\ events'[i].task = t
        BY <1>9, <2>2, <3>2
      <4> QED BY <1>1, <1>8, <2>2, <4>1
    <3> QED BY <3>1, <3>2
  <2> QED BY <2>1, <2>2 DEF TasksAsked
<1>15. InputsSaved'
  <2> SUFFICES ASSUME NEW k \in DOMAIN receipts', receipts'[k].input.raw
               PROVE  \E i \in DOMAIN events' : \A j \in DOMAIN events' :
                        events'[j].kind = "user_input" /\ events'[j].by = k <=> j = i
    BY DEF InputsSaved
  <2>1. CASE k \in DOMAIN receipts
    <3>1. PICK i \in DOMAIN events : \A j \in DOMAIN events :
            events[j].kind = "user_input" /\ events[j].by = k <=> j = i
      BY <1>8, <2>1 DEF InputsSaved
    <3>2. i \in DOMAIN events' /\ k # key
      BY <1>8, <1>9, <2>1
    <3>3. \A j \in DOMAIN events' \ DOMAIN events : events'[j].by # k /\ j # i
      BY <1>9, <3>1, <3>2
    <3>4. \A j \in DOMAIN events : events'[j] = events[j]
      BY <1>9
    <3>5. \A j \in DOMAIN events' :
            events'[j].kind = "user_input" /\ events'[j].by = k <=> j = i
      BY <3>1, <3>3, <3>4
    <3> QED BY <3>2, <3>5
  <2>2. CASE k \notin DOMAIN receipts
    <3>1. k = key /\ a.raw /\ a.id # NoId
      BY <1>8, <2>2
    <3>2. \A j \in DOMAIN events : ~(events[j].kind = "user_input" /\ events[j].by = k)
      BY <1>1, <2>2, <3>1 DEF TasksAsked
    <3>3. /\ Len(events) + 1 \in DOMAIN events' \ DOMAIN events
          /\ \A j \in DOMAIN events' \ DOMAIN events : j = Len(events) + 1
      BY <1>9, <1>10, <3>1
    <3>4. \A j \in DOMAIN events' \ DOMAIN events :
            events'[j].kind = "user_input" /\ events'[j].by = k
      BY <1>9, <3>1
    <3>5. \A j \in DOMAIN events : events'[j] = events[j]
      BY <1>9
    <3> QED BY <3>2, <3>3, <3>4, <3>5
  <2> QED BY <2>1, <2>2
<1>16. CheckpointsChain'
  <2>1. \A u : /\ SavesOf(u)' = SavesOf(u)
               /\ \A k \in SavesOf(u) : receipts'[k] = receipts[k]
    BY <1>1, <1>8 DEF SavesOf
  <2>2. \A u, s : UpdatesOf(u, s)' = UpdatesOf(u, s)
    BY <2>1 DEF UpdatesOf
  <2>3. \A u : /\ SaveEvents(u)' = SaveEvents(u)
               /\ \A i \in SaveEvents(u) : events'[i] = events[i]
    BY <1>9 DEF SaveEvents
  <2>4. ASSUME NEW u \in DOMAIN tasks' \ DOMAIN tasks
        PROVE  /\ SavesOf(u) = {} /\ \A s : UpdatesOf(u, s) = {}
               /\ SaveEvents(u) = {} /\ tasks'[u].revision = 0 /\ DOMAIN tasks'[u].steps = {}
    BY <1>6, SavesKnown DEF SavesOf, UpdatesOf, SaveEvents, TaskTyped
  <2>5. \A u \in DOMAIN tasks : u \in DOMAIN tasks' /\ tasks'[u] = tasks[u]
    BY <1>2, <1>6
  <2> SUFFICES ASSUME NEW u \in DOMAIN tasks'
               PROVE  /\ \A m \in 1..tasks'[u].revision :
                           \E k \in SavesOf(u)' : \A l \in SavesOf(u)' :
                             /\ receipts'[k].input.expected = m - 1
                             /\ (receipts'[l].revision = m <=> l = k)
                      /\ \A s \in Steps :
                           /\ s \in DOMAIN tasks'[u].steps <=> UpdatesOf(u, s)' # {}
                           /\ \A k \in UpdatesOf(u, s)' :
                                (\A l \in UpdatesOf(u, s)' :
                                   receipts'[l].revision <= receipts'[k].revision)
                                => tasks'[u].steps[s] = receipts'[k].input.update[s]
                      /\ \A m \in 1..tasks'[u].revision :
                           \E i \in SaveEvents(u)' : events'[i].by = m
                      /\ \A i, j \in SaveEvents(u)' :
                           /\ events'[i].by \in 1..tasks'[u].revision
                           /\ i < j => events'[i].by < events'[j].by
    BY DEF CheckpointsChain
  <2>6. CASE u \in DOMAIN tasks
    <3>1. \A s : \A k \in UpdatesOf(u, s) : k \in SavesOf(u)
      BY DEF UpdatesOf
    <3> QED BY <2>1, <2>2, <2>3, <2>5, <2>6, <3>1 DEF CheckpointsChain
  <2>7. CASE u \notin DOMAIN tasks
    BY <2>1, <2>2, <2>3, <2>4, <2>7
  <2> QED BY <2>6, <2>7
<1>17. FinalRight'
  BY <1>2, <1>4, <1>6 DEF FinalRight, Accepted
<1> QED BY <1>11, <1>12, <1>13, <1>14, <1>15, <1>16, <1>17

LEMMA TSSaves ==
  ASSUME StoreAssumption, TSStrong, NEW a \in Checkpoints, a.task \in DOMAIN tasks,
         ~Known(CheckKey(a)), a.expected = tasks[a.task].revision, SaveCheckpoint(a)
  PROVE  TSStrong'
<1> USE DEF TSStrong
<1> DEFINE key == CheckKey(a)
           t == a.task
           last == tasks[t].revision
           updated == [goal |-> tasks[t].goal, state |-> a.next, by |-> tasks[t].by,
                     revision |-> last + 1, steps |-> Merged(a)]
           note == [task |-> t, kind |-> "checkpoint", by |-> last + 1]
           x0 == [key |-> key, input |-> a, task |-> t, revision |-> last + 1]
<1>1. /\ a \in CheckInputs /\ key \in CheckKeys /\ key[1] = "task" /\ key[3] = a.id
      /\ a.id # NoId /\ t \in 1..MaxTasks /\ key \notin DOMAIN receipts
  BY RequestKeys DEF StoreAssumption, CheckInputs, Known
<1>2. /\ \A u \in DOMAIN tasks : tasks[u] \in TaskRecords
      /\ tasks \in Seq(TaskRecords) /\ Len(tasks) \in Nat /\ DOMAIN tasks = 1..Len(tasks)
      /\ last \in Nat /\ tasks[t].steps \in Deltas
  <2>1. \A u \in DOMAIN tasks : tasks[u] \in TaskRecords
    BY DEF TaskTyped
  <2>2. tasks[t] \in TaskRecords
    BY <2>1
  <2> QED BY <2>1, <2>2 DEF TaskTyped, TaskRecords
<1>3. /\ tasks[t].state # "completed"
      /\ a.next = "completed" => Accepted(Merged(a)) /\ t \notin unresolved
      /\ tasks' = [tasks EXCEPT ![t] = updated]
      /\ File(key, a, t, last + 1)
      /\ events' = Append(events, note) \o UserInput(t, a, key)
      /\ answers' = answers \cup {x0} /\ UNCHANGED <<bindings, unresolved>>
  BY DEF SaveCheckpoint, Reply
<1>4. /\ Merged(a) \in Deltas
      /\ \A s : s \in DOMAIN Merged(a) <=> s \in DOMAIN tasks[t].steps \cup DOMAIN a.update
      /\ \A s \in DOMAIN Merged(a) :
           Merged(a)[s] = IF s \in DOMAIN a.update THEN a.update[s] ELSE tasks[t].steps[s]
  <2> DEFINE old == tasks[t].steps
  <2>1. PICK so \in SUBSET Steps : old \in [so -> {"open", "proved"}]
    BY <1>2 DEF Deltas
  <2>2. a.update \in Deltas
    BY <1>1 DEF CheckInputs
  <2>3. PICK su \in SUBSET Steps : a.update \in [su -> {"open", "proved"}]
    BY <2>2 DEF Deltas
  <2>4. Merged(a) = [s \in so \cup su |-> IF s \in su THEN a.update[s] ELSE old[s]]
    BY <2>1, <2>3 DEF Merged
  <2> HIDE DEF old
  <2>5. Merged(a) \in [so \cup su -> {"open", "proved"}]
    BY <2>1, <2>3, <2>4
  <2>6. so \cup su \in SUBSET Steps
    OBVIOUS
  <2>7. Merged(a) \in Deltas
    BY <2>5, <2>6 DEF Deltas
  <2> QED BY <2>1, <2>3, <2>4, <2>7 DEF old
<1> HIDE DEF key, last, x0
<1>5. /\ tasks' \in Seq(TaskRecords) /\ Len(tasks') = Len(tasks)
      /\ DOMAIN tasks' = DOMAIN tasks /\ tasks'[t] = updated
      /\ \A u \in DOMAIN tasks : u # t => tasks'[u] = tasks[u]
  <2>1. tasks[t] \in TaskRecords /\ a.next \in {"active", "completed"}
    BY <1>1, <1>2 DEF CheckInputs
  <2>2. updated \in TaskRecords
    BY <1>2, <1>4, <2>1 DEF TaskRecords
  <2> HIDE DEF updated, t
  <2> QED BY <1>2, <1>3, <2>2, ExceptSeq DEF t
<1>6. /\ tasks'[t].goal = tasks[t].goal /\ tasks'[t].by = tasks[t].by
      /\ tasks'[t].state = a.next /\ tasks'[t].revision = last + 1
      /\ tasks'[t].steps = Merged(a)
  BY <1>5
<1> HIDE DEF updated
<1>7. /\ DOMAIN receipts' = DOMAIN receipts \cup {key}
      /\ \A k \in DOMAIN receipts : k # key /\ receipts'[k] = receipts[k]
      /\ receipts'[key] = [input |-> a, task |-> t, revision |-> last + 1]
      /\ receipts' = [k \in DOMAIN receipts' |-> receipts'[k]]
  BY <1>1, <1>3 DEF File
<1>8. /\ note \in EventRecords /\ events \in Seq(EventRecords)
      /\ Len(events) \in Nat /\ DOMAIN events = 1..Len(events)
  BY <1>1, <1>2 DEF EventRecords, TaskTyped
<1>9. /\ Append(events, note) \in Seq(EventRecords)
      /\ Len(Append(events, note)) = Len(events) + 1
      /\ DOMAIN Append(events, note) = 1..(Len(events) + 1)
      /\ \A i \in DOMAIN events : Append(events, note)[i] = events[i]
      /\ Append(events, note)[Len(events) + 1] = note
  <2> HIDE DEF note
  <2> QED BY <1>8, AppendProperties
<1> DEFINE nth == Len(events) + 1
<1>10. /\ events' \in Seq(EventRecords)
       /\ \A i \in DOMAIN events : i \in DOMAIN events' /\ events'[i] = events[i] /\ i < nth
       /\ nth \in DOMAIN events' \ DOMAIN events /\ events'[nth] = note
       /\ \A i \in DOMAIN events' \ DOMAIN events : i # nth =>
            /\ a.raw /\ i = nth + 1
            /\ events'[i] = [task |-> t, kind |-> "user_input", by |-> key]
       /\ a.raw => nth + 1 \in DOMAIN events' \ DOMAIN events
  <2> DEFINE pre == Append(events, note)
  <2>1. /\ pre \in Seq(EventRecords) /\ Len(pre) = nth /\ DOMAIN pre = 1..nth
        /\ \A i \in DOMAIN events : pre[i] = events[i]
        /\ pre[nth] = note /\ events' = pre \o UserInput(t, a, key)
    BY <1>3, <1>9
  <2> HIDE DEF pre, note
  <2>2. /\ events' \in Seq(EventRecords)
        /\ \A i \in DOMAIN pre : i \in DOMAIN events' /\ events'[i] = pre[i]
        /\ \A i \in DOMAIN events' \ DOMAIN pre :
             /\ a.raw /\ i = Len(pre) + 1
             /\ events'[i] = [task |-> t, kind |-> "user_input", by |-> key]
        /\ a.raw => Len(pre) + 1 \in DOMAIN events'
    <3>1. t \in 1..MaxTasks /\ key \in OpenKeys \cup CheckKeys
      BY <1>1
    <3>2. pre \in Seq(EventRecords) /\ events' = pre \o UserInput(t, a, key)
      BY <2>1
    <3> HIDE DEF t
    <3> QED BY ONLY <3>1, <3>2, InputAdded
  <2> QED BY <1>8, <2>1, <2>2
<1>11. TaskTyped'
  <2>1. \A i \in DOMAIN events' : events'[i].task \in DOMAIN tasks'
    BY <1>5, <1>10 DEF TaskTyped
  <2> QED BY <1>3, <1>5, <1>7, <1>10, <2>1 DEF TaskTyped
<1>12. AnswersRight'
  <2> SUFFICES ASSUME NEW x \in answers'
               PROVE  /\ OpenSaid(x)' \/ CheckSaid(x)'
                      /\ x.key[3] # NoId => /\ x.key \in DOMAIN receipts'
                                            /\ receipts'[x.key] = Receipt(x)
    BY DEF AnswersRight, Receipt
  <2>1. CASE x \in answers
    <3>1. OpenSaid(x) => OpenSaid(x)'
      BY <1>5, <1>6 DEF OpenSaid
    <3>2. CheckSaid(x) => CheckSaid(x)'
      BY <1>2, <1>3, <1>5, <1>6 DEF CheckSaid, last
    <3> QED BY <1>7, <2>1, <3>1, <3>2 DEF AnswersRight
  <2>2. CASE x = x0
    <3>1. x.key = key /\ x.input = a /\ x.task = t /\ x.revision = last + 1
      BY <2>2 DEF x0
    <3>2. last + 1 \in 1..tasks'[t].revision /\ a.expected = x.revision - 1
      BY <1>2, <1>6, <3>1 DEF last
    <3>3. CheckSaid(x)'
      BY <1>5, <1>6, <3>1, <3>2 DEF CheckSaid, key
    <3> QED BY <1>1, <1>7, <3>1, <3>3 DEF Receipt
  <2> QED BY <1>3, <2>1, <2>2
<1>13. ReceiptsAnswered'
  <2> SUFFICES ASSUME NEW k \in DOMAIN receipts'
               PROVE  /\ k[3] # NoId
                      /\ [key |-> k, input |-> receipts'[k].input, task |-> receipts'[k].task,
                          revision |-> receipts'[k].revision] \in answers'
    BY DEF ReceiptsAnswered
  <2>1. CASE k \in DOMAIN receipts
    BY <1>3, <1>7, <2>1 DEF ReceiptsAnswered
  <2>2. CASE k = key
    BY <1>1, <1>3, <1>7, <2>2 DEF x0
  <2> QED BY <1>7, <2>1, <2>2
<1>14. TasksAsked'
  <2>1. \A u \in DOMAIN tasks : tasks'[u].by = tasks[u].by
    BY <1>5, <1>6
  <2>2. ASSUME NEW i \in DOMAIN events', events'[i].kind = "user_input",
               events'[i].by[3] # NoId
        PROVE  /\ events'[i].by \in DOMAIN receipts'
               /\ events'[i].task = receipts'[events'[i].by].task
    <3>1. CASE i \in DOMAIN events
      BY <1>7, <1>10, <2>2, <3>1 DEF TasksAsked
    <3>2. CASE i \notin DOMAIN events
      <4>1. events'[i].by = key /\ events'[i].task = t
        BY <1>10, <2>2, <3>2
      <4> QED BY <1>7, <4>1
    <3> QED BY <3>1, <3>2
  <2> QED BY <1>5, <1>7, <2>1, <2>2 DEF TasksAsked
<1>15. InputsSaved'
  <2> SUFFICES ASSUME NEW k \in DOMAIN receipts', receipts'[k].input.raw
               PROVE  \E i \in DOMAIN events' : \A j \in DOMAIN events' :
                        events'[j].kind = "user_input" /\ events'[j].by = k <=> j = i
    BY DEF InputsSaved
  <2>1. \A j \in DOMAIN events : events'[j] = events[j]
    BY <1>10
  <2>2. CASE k \in DOMAIN receipts
    <3>1. PICK i \in DOMAIN events : \A j \in DOMAIN events :
            events[j].kind = "user_input" /\ events[j].by = k <=> j = i
      BY <1>7, <2>2 DEF InputsSaved
    <3>2. i \in DOMAIN events' /\ k # key
      BY <1>7, <1>10, <2>2
    <3>3. \A j \in DOMAIN events' \ DOMAIN events :
            ~(events'[j].kind = "user_input" /\ events'[j].by = k) /\ j # i
      BY <1>10, <3>1, <3>2
    <3>4. \A j \in DOMAIN events' :
            events'[j].kind = "user_input" /\ events'[j].by = k <=> j = i
      BY <2>1, <3>1, <3>3
    <3> QED BY <3>2, <3>4
  <2>3. CASE k = key
    <3>1. a.raw
      BY <1>7, <2>3
    <3>2. \A j \in DOMAIN events : ~(events[j].kind = "user_input" /\ events[j].by = k)
      BY <1>1, <2>3 DEF TasksAsked
    <3>3. /\ nth + 1 \in DOMAIN events' \ DOMAIN events /\ nth \in Nat
          /\ \A j \in DOMAIN events' \ DOMAIN events : j = nth \/ j = nth + 1
      BY <1>8, <1>10, <3>1
    <3>4. events'[nth].kind # "user_input"
      BY <1>10
    <3>5. events'[nth + 1].kind = "user_input" /\ events'[nth + 1].by = k
      BY <1>10, <2>3, <3>3
    <3>6. \A j \in DOMAIN events' :
            events'[j].kind = "user_input" /\ events'[j].by = k <=> j = nth + 1
      BY <2>1, <3>2, <3>3, <3>4, <3>5
    <3> QED BY <3>3, <3>6
  <2> QED BY <1>7, <2>2, <2>3
<1>16. CheckpointsChain'
  <2>1. /\ \A u : SavesOf(u)' = IF u = t THEN SavesOf(u) \cup {key} ELSE SavesOf(u)
        /\ \A u : \A k \in SavesOf(u) :
             k # key /\ receipts'[k] = receipts[k] /\ receipts[k].revision \in Nat
        /\ \A k \in SavesOf(t) : receipts[k].revision < last + 1
    <3>1. \A u : SavesOf(u)' = IF u = t THEN SavesOf(u) \cup {key} ELSE SavesOf(u)
      BY <1>1, <1>7 DEF SavesOf
    <3>2. \A u : \A k \in SavesOf(u) : k # key /\ receipts'[k] = receipts[k]
      BY <1>7 DEF SavesOf
    <3>3. \A u : \A k \in SavesOf(u) : receipts[k].revision \in Nat
      BY SavesKnown DEF SavesOf
    <3>4. \A k \in SavesOf(t) : receipts[k].revision \in 1..last
      BY SavesKnown DEF SavesOf, last
    <3> QED BY <1>2, <3>1, <3>2, <3>3, <3>4
  <2>2. /\ receipts'[key].revision = last + 1 /\ receipts'[key].input = a
        /\ \A u, s : UpdatesOf(u, s)' =
             IF u = t /\ s \in DOMAIN a.update THEN UpdatesOf(u, s) \cup {key}
             ELSE UpdatesOf(u, s)
    BY <1>7, <2>1 DEF UpdatesOf
  <2>3. /\ \A u : SaveEvents(u)' = IF u = t THEN SaveEvents(u) \cup {nth} ELSE SaveEvents(u)
        /\ \A u : \A i \in SaveEvents(u) : events'[i] = events[i] /\ i < nth /\ i \in Nat
        /\ events'[nth].by = last + 1 /\ nth \in Nat
    <3>1. \A i \in DOMAIN events' \ DOMAIN events : i # nth => events'[i].kind # "checkpoint"
      BY <1>10
    <3>2. /\ events'[nth].kind = "checkpoint" /\ events'[nth].task = t
          /\ events'[nth].by = last + 1
      BY <1>10
    <3> HIDE DEF nth, note
    <3>3. \A u : SaveEvents(u)' = IF u = t THEN SaveEvents(u) \cup {nth} ELSE SaveEvents(u)
      BY <1>10, <3>1, <3>2 DEF SaveEvents
    <3>4. \A u : \A i \in SaveEvents(u) : events'[i] = events[i] /\ i < nth /\ i \in Nat
      BY <1>8, <1>10 DEF SaveEvents
    <3> QED BY <1>8, <3>2, <3>3, <3>4 DEF nth
  <2> HIDE DEF nth, note
  <2> SUFFICES ASSUME NEW u \in DOMAIN tasks
               PROVE  /\ \A m \in 1..tasks'[u].revision :
                           \E k \in SavesOf(u)' : \A l \in SavesOf(u)' :
                             /\ receipts'[k].input.expected = m - 1
                             /\ (receipts'[l].revision = m <=> l = k)
                      /\ \A s \in Steps :
                           /\ s \in DOMAIN tasks'[u].steps <=> UpdatesOf(u, s)' # {}
                           /\ \A k \in UpdatesOf(u, s)' :
                                (\A l \in UpdatesOf(u, s)' :
                                   receipts'[l].revision <= receipts'[k].revision)
                                => tasks'[u].steps[s] = receipts'[k].input.update[s]
                      /\ \A m \in 1..tasks'[u].revision :
                           \E i \in SaveEvents(u)' : events'[i].by = m
                      /\ \A i, j \in SaveEvents(u)' :
                           /\ events'[i].by \in 1..tasks'[u].revision
                           /\ i < j => events'[i].by < events'[j].by
    BY <1>5 DEF CheckpointsChain
  <2>4. \A s : \A k \in UpdatesOf(u, s) : k \in SavesOf(u)
    BY DEF UpdatesOf
  <2>5. CASE u # t
    <3>1. /\ tasks'[u] = tasks[u] /\ SavesOf(u)' = SavesOf(u) /\ SaveEvents(u)' = SaveEvents(u)
          /\ \A s : UpdatesOf(u, s)' = UpdatesOf(u, s)
      BY <1>5, <2>1, <2>2, <2>3, <2>5
    <3>2. /\ \A k \in SavesOf(u) : receipts'[k] = receipts[k]
          /\ \A s : \A k \in UpdatesOf(u, s) : receipts'[k] = receipts[k]
          /\ \A i \in SaveEvents(u) : events'[i] = events[i]
      BY <2>1, <2>3, <2>4
    <3>3. \A m \in 1..tasks[u].revision : \E k \in SavesOf(u) : \A l \in SavesOf(u) :
            /\ receipts'[k].input.expected = m - 1
            /\ (receipts'[l].revision = m <=> l = k)
      BY <3>2 DEF CheckpointsChain
    <3>4. \A s \in Steps :
            /\ s \in DOMAIN tasks[u].steps <=> UpdatesOf(u, s) # {}
            /\ \A k \in UpdatesOf(u, s) :
                 (\A l \in UpdatesOf(u, s) : receipts'[l].revision <= receipts'[k].revision)
                 => tasks[u].steps[s] = receipts'[k].input.update[s]
      BY <3>2 DEF CheckpointsChain
    <3>5. /\ \A m \in 1..tasks[u].revision : \E i \in SaveEvents(u) : events'[i].by = m
          /\ \A i, j \in SaveEvents(u) :
               /\ events'[i].by \in 1..tasks[u].revision
               /\ i < j => events'[i].by < events'[j].by
      BY <3>2 DEF CheckpointsChain
    <3> QED BY <3>1, <3>3, <3>4, <3>5
  <2>6. CASE u = t
    <3>1. ASSUME NEW m \in 1..(last + 1)
          PROVE  \E k \in SavesOf(t) \cup {key} : \A l \in SavesOf(t) \cup {key} :
                   /\ receipts'[k].input.expected = m - 1
                   /\ (receipts'[l].revision = m <=> l = k)
      <4>1. CASE m = last + 1
        <5>1. receipts'[key].input.expected = m - 1
          BY <1>2, <2>2, <4>1 DEF last
        <5>2. \A l \in SavesOf(t) \cup {key} : receipts'[l].revision = m <=> l = key
          BY <1>2, <2>1, <2>2, <4>1
        <5> QED BY <5>1, <5>2
      <4>2. CASE m # last + 1
        <5>1. m \in 1..tasks[t].revision
          BY <1>2, <4>2 DEF last
        <5>2. PICK k \in SavesOf(t) : \A l \in SavesOf(t) :
                receipts[k].input.expected = m - 1 /\ (receipts[l].revision = m <=> l = k)
          BY <2>6, <5>1 DEF CheckpointsChain
        <5>3. receipts[k].input.expected = m - 1
          BY <5>2
        <5>4. \A l \in SavesOf(t) \cup {key} : receipts'[l].revision = m <=> l = k
          BY <2>1, <2>2, <4>2, <5>2
        <5> QED BY <2>1, <5>3, <5>4
      <4> QED BY <4>1, <4>2
    <3>2. ASSUME NEW s \in Steps
          PROVE  /\ s \in DOMAIN tasks'[t].steps <=> UpdatesOf(t, s)' # {}
                 /\ \A k \in UpdatesOf(t, s)' :
                      (\A l \in UpdatesOf(t, s)' :
                         receipts'[l].revision <= receipts'[k].revision)
                      => tasks'[t].steps[s] = receipts'[k].input.update[s]
      <4>1. CASE s \in DOMAIN a.update
        <5>1. UpdatesOf(t, s)' = UpdatesOf(t, s) \cup {key}
          BY <2>2, <4>1
        <5>2. \A k \in UpdatesOf(t, s) : ~(receipts'[key].revision <= receipts'[k].revision)
          BY <1>2, <2>1, <2>2, <2>4, <2>6
        <5>3. tasks'[t].steps[s] = receipts'[key].input.update[s]
          BY <1>4, <1>6, <2>2, <4>1
        <5> QED BY <1>4, <1>6, <4>1, <5>1, <5>2, <5>3
      <4>2. CASE s \notin DOMAIN a.update
        <5>1. UpdatesOf(t, s)' = UpdatesOf(t, s)
          BY <2>2, <4>2
        <5>2. s \in DOMAIN tasks[t].steps <=> UpdatesOf(t, s) # {}
          BY <2>6 DEF CheckpointsChain
        <5>3. s \in DOMAIN tasks'[t].steps <=> s \in DOMAIN tasks[t].steps
          BY <1>4, <1>6, <4>2
        <5>4. s \in DOMAIN tasks[t].steps => tasks'[t].steps[s] = tasks[t].steps[s]
          BY <1>4, <1>6, <4>2
        <5>5. \A k \in UpdatesOf(t, s) : receipts'[k] = receipts[k]
          BY <2>1, <2>4, <2>6
        <5>6. \A k \in UpdatesOf(t, s) :
                (\A l \in UpdatesOf(t, s) : receipts[l].revision <= receipts[k].revision)
                => tasks[t].steps[s] = receipts[k].input.update[s]
          BY <2>6 DEF CheckpointsChain
        <5> QED BY <5>1, <5>2, <5>3, <5>4, <5>5, <5>6
      <4> QED BY <4>1, <4>2
    <3>3. /\ \A m \in 1..last : \E i \in SaveEvents(t) : events[i].by = m
          /\ \A i, j \in SaveEvents(t) :
               events[i].by \in 1..last /\ (i < j => events[i].by < events[j].by)
      BY <2>6 DEF CheckpointsChain, last
    <3>4. ASSUME NEW m \in 1..(last + 1)
          PROVE  \E i \in SaveEvents(t) \cup {nth} : events'[i].by = m
      <4>1. CASE m = last + 1
        BY <2>3, <4>1
      <4>2. CASE m # last + 1
        <5>1. m \in 1..last
          BY <1>2, <4>2
        <5> QED BY <2>3, <3>3, <5>1
      <4> QED BY <4>1, <4>2
    <3>5. ASSUME NEW i \in SaveEvents(t) \cup {nth}, NEW j \in SaveEvents(t) \cup {nth}
          PROVE  /\ events'[i].by \in 1..(last + 1)
                 /\ i < j => events'[i].by < events'[j].by
      <4>1. \A l \in SaveEvents(t) : events'[l].by \in 1..last /\ l < nth
        BY <2>3, <3>3
      <4>2. ASSUME i \in SaveEvents(t), j \in SaveEvents(t), i < j
            PROVE  events'[i].by < events'[j].by
        BY <2>3, <3>3, <4>2
      <4> QED BY <1>2, <2>3, <4>1, <4>2
    <3> QED BY <1>6, <2>1, <2>3, <2>6, <3>1, <3>2, <3>4, <3>5
  <2> QED BY <2>5, <2>6
<1>17. FinalRight'
  <2> SUFFICES ASSUME NEW u \in DOMAIN tasks, tasks'[u].state = "completed"
               PROVE  /\ DOMAIN tasks'[u].steps # {} /\ u \notin unresolved
                      /\ \A s \in DOMAIN tasks'[u].steps : tasks'[u].steps[s] = "proved"
    BY <1>3, <1>5 DEF FinalRight, Accepted
  <2>1. CASE u = t
    BY <1>3, <1>6, <2>1 DEF Accepted
  <2>2. CASE u # t
    BY <1>5, <2>2 DEF FinalRight, Accepted
  <2> QED BY <2>1, <2>2
<1> QED BY <1>11, <1>12, <1>13, <1>14, <1>15, <1>16, <1>17

LEMMA TSJobs ==
  ASSUME StoreAssumption, TSStrong, NEW t, AdmitJob(t) \/ ResolveJob(t)
  PROVE  TSStrong'
<1> USE DEF TSStrong
<1>1. /\ tasks' = tasks /\ bindings' = bindings /\ receipts' = receipts /\ events' = events
      /\ answers' = answers
      /\ unresolved' \subseteq DOMAIN tasks
      /\ \A u \in unresolved' \ unresolved : tasks[u].state # "completed"
  BY DEF AdmitJob, ResolveJob, TaskTyped
<1>2. TaskTyped' /\ AnswersRight' /\ ReceiptsAnswered' /\ TasksAsked' /\ InputsSaved'
  BY <1>1 DEF TaskTyped, AnswersRight, ReceiptsAnswered, TasksAsked, InputsSaved, OpenSaid,
              CheckSaid
<1>3. CheckpointsChain' /\ FinalRight'
  BY <1>1 DEF CheckpointsChain, SavesOf, UpdatesOf, SaveEvents, FinalRight
<1> QED BY <1>2, <1>3

\* However often and by whichever way a request is repeated, it opens one task
\* and saves one input, and every answer to it is the first; no conversation is
\* answered with another's goal; no update of a task is lost or applied twice;
\* and a completed task is accepted, has no job left and stays as it is
\* (tasks.rs, task_open.rs), for any number of tasks, requests and clients.
THEOREM TasksSafe == TSSpec => []TaskInv
<1> USE StoreAssumption
<1>1. TSInit => TSStrong
  BY TSStart
<1>2. TSStrong /\ [TSNext]_tsvars => TSStrong'
  <2> SUFFICES ASSUME TSStrong, [TSNext]_tsvars PROVE TSStrong'
    OBVIOUS
  <2>1. ASSUME NEW a \in Opens, OpenTask(a) PROVE TSStrong'
    <3>1. CASE a.id # NoId /\ ReplayOpen(a)
      BY <3>1, ReplaysAreIdle, TSIdle
    <3>2. CASE (a.id = NoId \/ ~Known(OpenKey(a))) /\ RecordOpen(a)
      BY <2>1, <3>2, TSOpens DEF OpenTask
    <3> QED BY <2>1, <3>1, <3>2 DEF OpenTask
  <2>2. ASSUME NEW a \in Checkpoints, Checkpoint(a) PROVE TSStrong'
    <3>1. CASE Known(CheckKey(a))
      BY <2>2, <3>1, ReplaysAreIdle, TSIdle DEF Checkpoint
    <3>2. CASE ~Known(CheckKey(a))
      BY <2>2, <3>2, TSSaves DEF Checkpoint
    <3> QED BY <3>1, <3>2
  <2>3. ASSUME NEW t \in 1..MaxTasks, AdmitJob(t) \/ ResolveJob(t) PROVE TSStrong'
    BY <2>3, TSJobs
  <2> QED BY <2>1, <2>2, <2>3, TSIdle DEF TSNext
<1>3. TSStrong => TaskInv
  BY TSMeans
<1> QED BY <1>1, <1>2, <1>3, PTL DEF TSSpec
=============================================================================
