--------------------------- MODULE HistoryArchive ---------------------------
(***************************************************************************)
(* The archive of chat sessions in docs/history-session: tools/history     *)
(* (mod.rs: bootstrap, checkpoint and validate with repair; storage.rs: the *)
(* directory lock, the scan, the derived files; markdown.rs: the records). *)
(*                                                                         *)
(* The Markdown files N.md are the source of truth; index.json,            *)
(* memory/manifest.json and memory/state.json are derived from a scan of   *)
(* them.  A file is replaced by a rename, so a write happens or does not.  *)
(* Archivists are tool calls of any server process that shares the directory. *)
(***************************************************************************)
EXTENDS Integers, Sequences, FiniteSets, SequencesExt

CONSTANTS
  Keys,       \* session keys
  Turns,      \* turn ids
  Texts,      \* what a record says, once redacted (its content hash)
  NoText,     \* no text, key or turn
  Damaged,    \* a derived file that is missing or is not valid JSON
  Archivists,    \* calls that may run at the same time
  MaxCalls,   \* bound: calls
  MaxFaults   \* bound: crashes, failing writes and damaged derived files

ASSUME ArchiveAssumption ==
  /\ NoText \notin Keys \cup Turns \cup Texts /\ "none" \notin Archivists
  /\ MaxCalls \in Nat /\ MaxFaults \in Nat

VARIABLES
  docs,                    \* N.md: the archives, numbered from 1
  index, manifest, memory, \* the derived files: what they were built from
  holder,                  \* who holds .history.lock
  hpc, call, report,       \* a call: where it is, its arguments, its last scan
  answered,                \* the records of calls that were answered
  calls, faults            \* how much of the bounds is used

derived == <<index, manifest, memory>>
havars == <<docs, derived, holder, hpc, call, report, answered, calls, faults>>

NoCall == [op |-> "none", key |-> NoText, turn |-> NoText, text |-> NoText]

HAInit ==
  /\ docs = <<>> /\ index = Damaged /\ manifest = Damaged /\ memory = Damaged
  /\ holder = "none"
  /\ hpc = [p \in Archivists |-> "idle"] /\ call = [p \in Archivists |-> NoCall]
  /\ report = [p \in Archivists |-> <<>>]
  /\ answered = {} /\ calls = 0 /\ faults = 0

-----------------------------------------------------------------------------
(* Archives and what is derived from them.                                 *)

Numbered(r, key) == {n \in DOMAIN r : r[n].key = key}
IndexOf(r) == [n \in DOMAIN r |-> r[n].key]
NextRevision == IF memory = Damaged THEN 1 ELSE memory.revision + 1

\* What the call writes into its archive, from its scan: the whole file.
Recorded(r, c) ==
  LET n == CHOOSE x \in Numbered(r, c.key) : TRUE
      doc == r[n]
  IN IF c.op = "checkpoint"
       THEN IF \E i \in DOMAIN doc.turns : doc.turns[i] = [turn |-> c.turn, text |-> c.text]
              THEN doc
              ELSE [doc EXCEPT !.turns = Append(@, [turn |-> c.turn, text |-> c.text])]
       ELSE IF c.text = NoText \/ c.text \in Range(doc.inputs)
              THEN doc
              ELSE [doc EXCEPT !.inputs = Append(@, c.text)]
Created(c) == [key |-> c.key, turns |-> <<>>,
               inputs |-> IF c.text = NoText THEN <<>> ELSE <<c.text>>]

-----------------------------------------------------------------------------
(* The calls.                                                              *)

Goes(p, l) == hpc' = [hpc EXCEPT ![p] = l]
Is(p, l) == hpc[p] = l

Call(p) ==
  /\ Is(p, "idle") /\ calls < MaxCalls /\ calls' = calls + 1
  /\ \E op \in {"bootstrap", "checkpoint", "repair"}, k \in Keys,
        t \in Turns, x \in Texts \cup {NoText} :
       /\ op = "checkpoint" => x # NoText
       /\ call' = [call EXCEPT ![p] =
            CASE op = "repair" -> [NoCall EXCEPT !.op = op]
              [] op = "bootstrap" -> [op |-> op, key |-> k, turn |-> NoText, text |-> x]
              [] OTHER -> [op |-> op, key |-> k, turn |-> t, text |-> x]]
  /\ Goes(p, "lock")
  /\ UNCHANGED <<docs, derived, holder, report, answered, faults>>

\* Mutant: the directory is scanned before its lock is waited for.
TakeDirectoryScanned(p) ==
  /\ Is(p, "lock")
  /\ \/ report[p] # docs /\ report' = [report EXCEPT ![p] = docs] /\ UNCHANGED <<holder, hpc>>
     \/ holder = "none" /\ holder' = p /\ Goes(p, "write") /\ UNCHANGED report
  /\ UNCHANGED <<docs, derived, call, answered, calls, faults>>

\* lock_directory waits for the lock; the scan is done with it.
TakeDirectory(p) ==
  /\ Is(p, "lock") /\ holder = "none" /\ holder' = p
  /\ report' = [report EXCEPT ![p] = docs]
  /\ Goes(p, "write")
  /\ UNCHANGED <<docs, derived, call, answered, calls, faults>>

\* A call ends: its lock is free.
Leave(p) ==
  /\ Goes(p, "idle") /\ holder' = "none"
  /\ call' = [call EXCEPT ![p] = NoCall] /\ report' = [report EXCEPT ![p] = <<>>]

\* The session was never bootstrapped and is not to be created, or a checkpoint
\* names another archive than that of its session.
RefuseTarget(p) ==
  /\ Is(p, "write")
  /\ \/ call[p].op # "repair" /\ Numbered(report[p], call[p].key) = {}
     \/ call[p].op = "checkpoint"
  /\ Leave(p)
  /\ UNCHANGED <<docs, derived, answered, calls, faults>>

\* The archive of the session is written, or created under the next number.
WriteArchive(p) ==
  LET r == report[p]
      known == Numbered(r, call[p].key)
  IN /\ Is(p, "write")
     /\ \/ call[p].op = "repair" /\ UNCHANGED docs
        \/ /\ call[p].op # "repair" /\ known # {}
           /\ LET n == CHOOSE x \in known : TRUE
              IN docs' = [docs EXCEPT ![n] = IF Recorded(r, call[p]) = r[n] THEN @
                                             ELSE Recorded(r, call[p])]
        \/ /\ call[p].op = "bootstrap" /\ known = {}
           /\ LET n == Len(r) + 1
              IN docs' = IF n \in DOMAIN docs THEN [docs EXCEPT ![n] = Created(call[p])]
                         ELSE Append(docs, Created(call[p]))
     /\ Goes(p, "scan")
     /\ UNCHANGED <<derived, holder, call, report, answered, calls, faults>>

\* Mutant: the lock is dropped once the archive is written.
RescanUnlocked(p) ==
  /\ Is(p, "scan")
  /\ report' = [report EXCEPT ![p] = docs] /\ holder' = "none"
  /\ Goes(p, "index")
  /\ UNCHANGED <<docs, derived, call, answered, calls, faults>>

\* The second scan, from which everything else is derived.
Rescan(p) ==
  /\ Is(p, "scan")
  /\ report' = [report EXCEPT ![p] = docs]
  /\ Goes(p, "index")
  /\ UNCHANGED <<docs, derived, holder, call, answered, calls, faults>>

WriteIndex(p) ==
  /\ Is(p, "index")
  /\ index' = IndexOf(report[p])
  /\ Goes(p, "manifest")
  /\ UNCHANGED <<docs, manifest, memory, holder, call, report, answered, calls, faults>>

WriteManifest(p) ==
  /\ Is(p, "manifest")
  /\ manifest' = report[p]
  /\ Goes(p, "memory")
  /\ UNCHANGED <<docs, index, memory, holder, call, report, answered, calls, faults>>

\* The state is about the session of the call; a repair takes the latest one.
WriteMemory(p) ==
  LET r == report[p]
      n == IF call[p].op = "repair" THEN Len(r)
           ELSE CHOOSE x \in Numbered(r, call[p].key) : TRUE
  IN /\ Is(p, "memory")
     /\ memory' = [revision |-> NextRevision, archive |-> r, current |-> n]
     /\ Goes(p, "answer")
     /\ UNCHANGED <<docs, index, manifest, holder, call, report, answered, calls, faults>>

\* The answer is out and the lock is dropped.
AnswerCall(p) ==
  /\ Is(p, "answer")
  /\ answered' = answered \cup
       (IF call[p].text = NoText THEN {}
        ELSE {[key |-> call[p].key, turn |-> call[p].turn, text |-> call[p].text]})
  /\ Leave(p)
  /\ UNCHANGED <<docs, derived, calls, faults>>

\* A read or a write fails, or the process ends: the lock is free, files that
\* were written stay, and the caller may call again.
CallFails(p) ==
  /\ hpc[p] \notin {"idle", "lock", "answer"} /\ faults < MaxFaults /\ faults' = faults + 1
  /\ Leave(p)
  /\ UNCHANGED <<docs, derived, answered, calls>>

\* A derived file is lost or damaged.
DerivedDamaged ==
  /\ faults < MaxFaults /\ faults' = faults + 1
  /\ \/ index' = Damaged /\ UNCHANGED <<manifest, memory>>
     \/ manifest' = Damaged /\ UNCHANGED <<index, memory>>
     \/ memory' = Damaged /\ UNCHANGED <<index, manifest>>
  /\ UNCHANGED <<docs, holder, hpc, call, report, answered, calls>>

HANext ==
  \/ \E p \in Archivists :
       \/ Call(p) \/ TakeDirectory(p) \/ RefuseTarget(p) \/ WriteArchive(p)
       \/ Rescan(p) \/ WriteIndex(p) \/ WriteManifest(p) \/ WriteMemory(p)
       \/ AnswerCall(p) \/ CallFails(p)
  \/ DerivedDamaged

HASpec == HAInit /\ [][HANext]_havars

-----------------------------------------------------------------------------
Doc == [key : Keys, inputs : Seq(Texts), turns : Seq([turn : Turns, text : Texts])]

HATypeOK ==
  /\ docs \in Seq(Doc)
  /\ holder \in Archivists \cup {"none"}
  /\ hpc \in [Archivists -> {"idle", "lock", "write", "scan", "index", "manifest", "memory",
                          "answer"}]
  /\ report \in [Archivists -> Seq(Doc)]
  /\ calls \in Nat /\ faults \in Nat

\* Two callers never give a session two archives (concurrent bootstraps).
OneArchive == \A m, n \in DOMAIN docs : docs[m].key = docs[n].key => m = n

\* Whatever was answered is in the archive of its session, once, after any
\* crash and repetition (bootstrap and checkpoint).
AnsweredIsArchived ==
  \A a \in answered : \E n \in DOMAIN docs :
    /\ docs[n].key = a.key
    /\ IF a.turn = NoText THEN a.text \in Range(docs[n].inputs)
       ELSE [turn |-> a.turn, text |-> a.text] \in Range(docs[n].turns)
RecordedOnce ==
  \A n \in DOMAIN docs : IsInjective(docs[n].inputs) /\ IsInjective(docs[n].turns)

\* The derived files lag behind the archives at most: they name no archive
\* under a wrong number and contain no record the archives lack.
Behind(r) ==
  /\ Len(r) <= Len(docs)
  /\ \A n \in DOMAIN r : /\ r[n].key = docs[n].key
                         /\ IsPrefix(r[n].inputs, docs[n].inputs)
                         /\ IsPrefix(r[n].turns, docs[n].turns)
DerivedBehind ==
  /\ index # Damaged => IsPrefix(index, IndexOf(docs))
  /\ manifest # Damaged => Behind(manifest)
  /\ memory # Damaged => Behind(memory.archive)

ArchiveInv == HATypeOK /\ OneArchive /\ AnsweredIsArchived /\ RecordedOnce /\ DerivedBehind

\* When a call is answered the derived files describe the archives as they are
\* (unless they were damaged meanwhile); what is in an archive stays, and the
\* revision of the state only grows.
AnswersCurrent == [][
  /\ \A p \in Archivists : hpc[p] = "answer" /\ hpc'[p] = "idle" =>
       /\ index \in {IndexOf(docs), Damaged} /\ manifest \in {docs, Damaged}
       /\ memory = Damaged \/ memory.archive = docs
  /\ Len(docs) <= Len(docs')
  /\ \A n \in DOMAIN docs : /\ IsPrefix(docs[n].inputs, docs'[n].inputs)
                            /\ IsPrefix(docs[n].turns, docs'[n].turns)
  /\ memory # Damaged /\ memory' # Damaged /\ memory' # memory
       => memory'.revision > memory.revision]_havars
=============================================================================
