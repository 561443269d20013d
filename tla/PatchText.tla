------------------------------ MODULE PatchText ------------------------------
(***************************************************************************)
(* What apply_patch and patch_check do with the text of a patch            *)
(* (tools/patch.rs): a unified diff or the envelope form is read line by   *)
(* line into sections of files and hunks, each section is applied to the   *)
(* text the sections before it left, every hunk at the one place where its *)
(* old lines are, and the whole is replaced or nothing.                    *)
(*                                                                         *)
(* A patch is given by what its author meant, sections of hunks of marked  *)
(* lines, and written out as lines.  The mark and the text of a line can   *)
(* together look like a header: a removed line "-- x" is written "--- x",  *)
(* an added one "++ x" is written "+++ x".  How the files are replaced on  *)
(* the disk, and by whom else, is the subject of ManagedPatch.             *)
(***************************************************************************)
EXTENDS Integers, FiniteSets, SequencesExt

CONSTANTS Texts,     \* of a line
          Blank,     \* the empty one
          Dashes,    \* texts that begin with "-- ", and a path
          Pluses,    \* texts that begin with "++ ", and that path
          Stray,     \* the path in them, of which there is no file
          PatchPaths,
          PathKind,  \* "plain", "critical", "protected", "link" or "outside"
          Requested  \* what is asked: [form, sections, gap, disk, dry, confirm]

ASSUME PatchTextAssumption ==
  /\ Dashes \cup Pluses \cup {Blank} \subseteq Texts
  /\ Stray \in PatchPaths /\ PatchPaths \subseteq Nat \ {0}
  /\ PathKind \in [PatchPaths -> {"plain", "critical", "protected", "link", "outside"}]

VARIABLES
  request,  \* one of Requested
  unparsed, \* lines of the patch
  sections, \* FilePatch: [path, hunks, new, deleted]
  current,  \* the section that is read, or NoSection
  hunk,     \* [open, lines]
  step,     \* "parse", "apply" or "done"
  staged,   \* of a path, the text it shall have, or Gone
  listed,   \* the answer: sequence of [path, did]
  disk,     \* the files
  verdict   \* "none", "refused", "applied"

ptvars == <<request, unparsed, sections, current, hunk, step, staged, listed, disk, verdict>>

NoPath == 0
NoSection == [path |-> NoPath, hunks |-> <<>>, new |-> FALSE, deleted |-> TRUE]
NoHunk == [open |-> FALSE, lines |-> <<>>]
OpenHunk == [open |-> TRUE, lines |-> <<>>]

\* The text of a file: its lines, each with whether a carriage return ends it, and
\* whether the last one is ended.
Gone == [there |-> FALSE, lines |-> <<>>, ended |-> FALSE]
TextOf(lines, ended) == [there |-> TRUE, lines |-> lines, ended |-> ended]
Crs(text) == \E i \in DOMAIN text.lines : text.lines[i].cr
Plainly(lines) == [i \in DOMAIN lines |-> lines[i].t]

-----------------------------------------------------------------------------
(* How a patch is written.  An author's section is [op, path, hunks], a    *)
(* hunk a sequence of [mark, t].                                           *)

Header(what, path) == [what |-> what, path |-> path]
\* A line whose mark and text make a header is that header.
Written1(form, l) ==
  IF form = "unified" /\ l.mark = "-" /\ l.t \in Dashes THEN Header("---", Stray)
  ELSE IF form = "unified" /\ l.mark = "+" /\ l.t \in Pluses THEN Header("+++", Stray)
  ELSE [what |-> l.mark, t |-> l.t]

WrittenHunk(form, at, h) ==
  (IF at THEN <<[what |-> "@@"]>> ELSE <<>>) \o [i \in DOMAIN h |-> Written1(form, h[i])]

WrittenSection(form, s) ==
  (IF form = "unified"
   THEN <<Header("---", IF s.op = "add" THEN NoPath ELSE s.path),
          Header("+++", IF s.op = "delete" THEN NoPath ELSE s.path)>>
   ELSE <<Header(s.op, s.path)>>)
  \o FlattenSeq([i \in DOMAIN s.hunks |->
                   WrittenHunk(form, form = "unified" \/ s.op # "add", s.hunks[i])])

\* An empty line between two sections is what some authors write.
WrittenPatch(r) ==
  (IF r.form = "unified" THEN <<>> ELSE <<[what |-> "begin"]>>)
  \o FlattenSeq([i \in DOMAIN r.sections |->
       WrittenSection(r.form, r.sections[i]) \o
       (IF r.gap /\ i < Len(r.sections) THEN <<[what |-> "empty"]>> ELSE <<>>)])
  \o (IF r.form = "unified" THEN <<>> ELSE <<[what |-> "end"]>>)

PTInit ==
  /\ request \in Requested /\ unparsed = WrittenPatch(request)
  /\ sections = <<>> /\ current = NoSection /\ hunk = NoHunk /\ step = "parse"
  /\ staged = [p \in {} |-> Gone] /\ listed = <<>> /\ disk = request.disk /\ verdict = "none"

-----------------------------------------------------------------------------
(* parse_unified_diff and parse_codex_patch.                               *)

Line == Head(unparsed)
InSection == current # NoSection
\* The open hunk goes to its section, if there is one.
HunkKept == [current EXCEPT !.hunks = IF InSection /\ hunk.open THEN Append(@, hunk.lines) ELSE @]
SectionKept == IF InSection THEN Append(sections, HunkKept) ELSE sections
Marked(l) ==
  IF l.what = "empty" THEN [mark |-> " ", t |-> Blank] ELSE [mark |-> l.what, t |-> l.t]
Content(l) == l.what \in {"+", "-", " ", "empty"}

ParseStep(kept, section, open) ==
  /\ step = "parse" /\ unparsed # <<>> /\ unparsed' = Tail(unparsed)
  /\ sections' = kept /\ current' = section /\ hunk' = open
  /\ UNCHANGED <<request, step, staged, listed, disk, verdict>>

\* A header of a unified diff: the old name begins a section, the new one renames
\* the section that is read, wherever it stands.
OldName ==
  /\ step = "parse" /\ unparsed # <<>> /\ Line.what = "---"
  /\ ParseStep(SectionKept,
       [path |-> Line.path, hunks |-> <<>>, new |-> Line.path = NoPath, deleted |-> FALSE], NoHunk)

NewName ==
  /\ step = "parse" /\ unparsed # <<>> /\ Line.what = "+++"
  /\ ParseStep(sections,
       IF InSection
       THEN [current EXCEPT !.path = IF Line.path # NoPath THEN Line.path ELSE @,
                            !.deleted = @ \/ Line.path = NoPath]
       ELSE current, hunk)

\* A header of the envelope; a new file's lines need no "@@".
FileName ==
  /\ step = "parse" /\ unparsed # <<>> /\ Line.what \in {"add", "update", "delete"}
  /\ ParseStep(SectionKept,
       [path |-> Line.path, hunks |-> <<>>, new |-> Line.what = "add", deleted |-> Line.what = "delete"],
       IF Line.what = "add" THEN OpenHunk ELSE NoHunk)

Frame ==
  /\ step = "parse" /\ unparsed # <<>> /\ Line.what \in {"begin", "end"}
  /\ IF Line.what = "begin" THEN ParseStep(sections, current, hunk)
     ELSE ParseStep(SectionKept, NoSection, NoHunk)

HunkBegins ==
  /\ step = "parse" /\ unparsed # <<>> /\ Line.what = "@@"
  /\ ParseStep(sections, HunkKept, OpenHunk)

\* A unified diff's lines before the first "@@" are skipped, and an envelope's
\* outside of a section that has lines.
HunkLine ==
  /\ step = "parse" /\ unparsed # <<>> /\ Content(Line)
  /\ ParseStep(sections, current,
       IF IF request.form = "unified" THEN hunk.open ELSE InSection /\ ~current.deleted
       THEN [open |-> TRUE, lines |-> Append(hunk.lines, Marked(Line))] ELSE hunk)

-----------------------------------------------------------------------------
(* apply_patch_in.                                                         *)

Finish(how) ==
  /\ verdict' = how /\ step' = "done"
  /\ sections' = <<>> /\ staged' = [p \in {} |-> Gone]
  /\ UNCHANGED <<request, unparsed, current, hunk>>

\* Nothing in it, a protected path, or an important file deleted without confirm.
Inadmissible(files) ==
  \/ files = <<>>
  \/ \E i \in DOMAIN files :
       /\ files[i].path # NoPath
       /\ \/ PathKind[files[i].path] = "protected"
          \/ PathKind[files[i].path] = "critical" /\ files[i].deleted /\ ~request.confirm

ParseEnds ==
  /\ step = "parse" /\ unparsed = <<>>
  /\ IF Inadmissible(SectionKept) THEN Finish("refused") /\ UNCHANGED <<listed, disk>>
     ELSE /\ step' = "apply" /\ sections' = SectionKept /\ current' = NoSection /\ hunk' = NoHunk
          /\ UNCHANGED <<request, unparsed, staged, listed, disk, verdict>>

OldLines(h) == [i \in DOMAIN SelectSeq(h, LAMBDA l : l.mark # "+") |-> SelectSeq(h, LAMBDA l : l.mark # "+")[i].t]

\* Mutant: the first place where the old lines are will do.
PlacesFirst(lines, old) ==
  LET all == {i \in 1..(Len(lines) - Len(old) + 1) : SubSeq(lines, i, i + Len(old) - 1) = old}
  IN IF old = <<>> THEN IF lines = <<>> THEN {1} ELSE {}
     ELSE {i \in all : \A j \in all : i <= j}

\* find_hunk_position: where the old lines are; a hunk without any, in an empty text.
Places(lines, old) ==
  IF old = <<>> THEN IF lines = <<>> THEN {1} ELSE {}
  ELSE {i \in 1..(Len(lines) - Len(old) + 1) : SubSeq(lines, i, i + Len(old) - 1) = old}

\* A hunk's lines, one after the other, from its place on.
HunkApplied(lines, h, place) ==
  FoldLeft(LAMBDA e, l :
             CASE l.mark = " " -> [e EXCEPT !.at = @ + 1]
               [] l.mark = "-" -> [e EXCEPT !.lines = IF e.at <= Len(@) THEN RemoveAt(@, e.at) ELSE @]
               [] OTHER -> [e EXCEPT !.lines = InsertAt(@, e.at, l.t), !.at = @ + 1],
           [lines |-> lines, at |-> place], h).lines

\* A text of these lines: one empty line alone is no text, and a last empty line
\* without an end is none.
Joined(lines, cr, ended) ==
  LET kept == IF lines = <<Blank>> \/ (lines # <<>> /\ ~ended /\ Last(lines) = Blank) THEN Front(lines) ELSE lines
  IN TextOf([i \in DOMAIN kept |-> [t |-> kept[i], cr |-> cr]], kept # <<>> /\ (ended \/ Len(kept) < Len(lines)))

\* apply_hunks: a text is split at its line ends, and joined with one kind of them.
HunksApplied(text, hunks) ==
  LET done == FoldLeft(LAMBDA e, h :
                         LET places == Places(e.lines, OldLines(h)) IN
                         IF ~e.good \/ Cardinality(places) # 1 THEN [e EXCEPT !.good = FALSE]
                         ELSE [e EXCEPT !.lines = HunkApplied(@, h, CHOOSE i \in places : TRUE)],
                       [good |-> TRUE, lines |-> Plainly(text.lines)], hunks)
  IN [good |-> done.good, text |-> Joined(done.lines, Crs(text), text.ended \/ text.lines = <<>>)]

\* The next section, on what the ones before it staged.
StageSection ==
  /\ step = "apply" /\ sections # <<>>
  /\ LET s == Head(sections)
         known == s.path \in DOMAIN staged
         usable == s.path # NoPath /\ PathKind[s.path] \in {"plain", "critical"}
         ready == IF known THEN staged[s.path].there # s.new ELSE s.new \/ disk[s.path].there
         original == IF s.new THEN TextOf(<<>>, FALSE) ELSE IF known THEN staged[s.path] ELSE disk[s.path]
         updated == HunksApplied(original, s.hunks)
         text == IF s.deleted THEN Gone ELSE updated.text
         did == IF s.deleted THEN "delete" ELSE IF disk[s.path].there THEN "update" ELSE "add"
     IN IF usable /\ ready /\ (s.deleted \/ updated.good)
        THEN /\ sections' = Tail(sections)
             /\ staged' = [p \in DOMAIN staged \cup {s.path} |-> IF p = s.path THEN text ELSE staged[p]]
             /\ listed' = Append(listed, [path |-> s.path, did |-> did])
             /\ UNCHANGED <<request, unparsed, current, hunk, step, disk, verdict>>
        ELSE Finish("refused") /\ UNCHANGED <<listed, disk>>

\* A check answers only; what shall go must be there to be replaced.
Commit ==
  /\ step = "apply" /\ sections = <<>> /\ UNCHANGED listed
  /\ IF request.dry THEN Finish("applied") /\ UNCHANGED disk
     ELSE IF \E p \in DOMAIN staged : ~staged[p].there /\ ~disk[p].there
     THEN Finish("refused") /\ UNCHANGED disk
     ELSE Finish("applied") /\ disk' = [p \in DOMAIN disk |-> IF p \in DOMAIN staged THEN staged[p] ELSE disk[p]]

PTNext ==
  \/ OldName \/ NewName \/ FileName \/ Frame \/ HunkBegins \/ HunkLine
  \/ ParseEnds \/ StageSection \/ Commit

PTSpec == PTInit /\ [][PTNext]_ptvars

-----------------------------------------------------------------------------
(* Properties.                                                             *)

\* Headers among the lines.
Imitates ==
  /\ request.form = "unified"
  /\ \E i \in DOMAIN request.sections : \E j \in DOMAIN request.sections[i].hunks :
       LET h == request.sections[i].hunks[j] IN
       \E k \in DOMAIN h : Written1("unified", h[k]).what \in {"---", "+++"}

NewLines(h) == [i \in DOMAIN SelectSeq(h, LAMBDA l : l.mark # "-") |-> SelectSeq(h, LAMBDA l : l.mark # "-")[i].t]

\* What an author means by a hunk: the only occurrence of the old lines becomes the
\* new lines, what is before and after it stays.
Splits(lines, old) ==
  {n \in 0..Len(lines) : n + Len(old) <= Len(lines) /\ SubSeq(lines, n + 1, n + Len(old)) = old}
Meant(lines, h) ==
  LET n == CHOOSE n \in Splits(lines, OldLines(h)) : TRUE
  IN SubSeq(lines, 1, n) \o NewLines(h) \o SubSeq(lines, n + Len(OldLines(h)) + 1, Len(lines))
Clear(lines, h) ==
  IF OldLines(h) = <<>> THEN lines = <<>> ELSE Cardinality(Splits(lines, OldLines(h))) = 1

\* And by a section, on [good, files], files that have only lines.
MeantSection(e, s) ==
  LET text == IF s.op = "add" THEN <<>> ELSE e.files[s.path].lines
      read == FoldLeft(LAMBDA a, h : IF a.good /\ Clear(a.lines, h) THEN [a EXCEPT !.lines = Meant(@, h)]
                                     ELSE [a EXCEPT !.good = FALSE],
                       [good |-> TRUE, lines |-> text], s.hunks)
      free == s.op = "add" => s.path \notin e.touched \/ ~e.files[s.path].there
      gone == s.op = "delete"
  IN [good |-> /\ e.good /\ free /\ (s.op # "add" => e.files[s.path].there) /\ (gone \/ read.good)
               /\ PathKind[s.path] \in {"plain", "critical"}
               /\ gone /\ PathKind[s.path] = "critical" => request.confirm,
      touched |-> e.touched \cup {s.path},
      files |-> [e.files EXCEPT ![s.path] =
                   [there |-> ~gone, lines |-> IF gone THEN <<>> ELSE read.lines]]]

MeantPatch ==
  LET first == [p \in PatchPaths |-> [there |-> request.disk[p].there, lines |-> Plainly(request.disk[p].lines)]]
      end == FoldLeft(MeantSection, [good |-> TRUE, touched |-> {}, files |-> first], request.sections)
  IN [end EXCEPT !.good = /\ @ /\ request.sections # <<>>
                          /\ request.dry \/ \A p \in end.touched : end.files[p].there \/ first[p].there]

\* A last empty line may be lost: see Joined.
SameLines(a, b) == a = b \/ (b # <<>> /\ Last(b) = Blank /\ a = Front(b))

\* A patch is applied as it is meant or nothing is changed, and it is refused only
\* if it has no one meaning, or for an empty line that is taken for context.  A line
\* that imitates a header makes a patch refused or, in a new file, misname it.
AsMeant ==
  CASE verdict = "refused" ->
         disk = request.disk /\ (Imitates \/ request.gap \/ ~MeantPatch.good)
    [] verdict = "applied" /\ request.dry -> disk = request.disk
    [] verdict = "applied" /\ ~Imitates ->
         /\ MeantPatch.good
         /\ \A p \in PatchPaths : /\ disk[p].there = MeantPatch.files[p].there
                                  /\ SameLines(Plainly(disk[p].lines), MeantPatch.files[p].lines)
    [] verdict = "applied" ->
         /\ disk[Stray].there /\ \E i \in DOMAIN request.sections : request.sections[i].op = "add"
         /\ \A p \in PatchPaths \ {Stray} :
              disk[p] # request.disk[p] => \E i \in DOMAIN request.sections : request.sections[i].path = p
    [] OTHER -> disk = request.disk

\* A check answers what applying does: a file is new, changed or gone as it says,
\* its line ends are of the kind the text had, its end as it was.
AnswerTrue ==
  verdict = "applied" => \A i \in DOMAIN listed :
    LET p == listed[i].path  was == request.disk[p]  is == disk[p] IN
    /\ listed[i].did = "add" <=> ~was.there /\ listed[i].did # "delete"
    /\ ~request.dry =>
         /\ (\A j \in DOMAIN listed : j > i => listed[j].path # p) => is.there = (listed[i].did # "delete")
         /\ (\A j \in DOMAIN request.sections : request.sections[j].op = "update") /\ is.lines # <<>> /\ was.lines # <<>> =>
              /\ is.ended = was.ended \/ Plainly(is.lines) # MeantPatch.files[p].lines
              /\ \A k \in DOMAIN is.lines : is.lines[k].cr = Crs(was)

\* Types, and the two above.
PatchTextInv ==
  /\ step \in {"parse", "apply", "done"} /\ verdict \in {"none", "refused", "applied"}
  /\ (verdict = "none") = (step # "done")
  /\ AsMeant /\ AnswerTrue
=============================================================================
