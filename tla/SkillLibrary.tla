---------------------------- MODULE SkillLibrary ----------------------------
(***************************************************************************)
(* The skills of a project: instructions in files that their owner and the *)
(* agents' patches rewrite (skill_write.rs), a catalog that is scanned     *)
(* afresh for every call with a cache of the files' metadata (skill_       *)
(* catalog.rs), lists and texts that are read page by page, and the        *)
(* project's preferences, which turn the automatic use of a skill off      *)
(* (personal-runtime/src/skill_preferences.rs).                            *)
(*                                                                         *)
(* A file's text is a draft: its name, whether it may only be used by      *)
(* hand, and two parts that a reader gets one at a time; its hash stands   *)
(* for all of it.  Which directories a scan walks is not modelled; the     *)
(* patch itself is ManagedPatch.                                           *)
(***************************************************************************)
EXTENDS Integers, FiniteSets, Sequences

CONSTANTS SkillFiles,  \* canonical SKILL.md files, in the order of the walk: 1..n
          Drafts,      \* texts: [name, manual, body]
          Missing,        \* no file
          FirstLibrary, \* the texts of the beginning
          Browsers, Wants, \* who calls, and what each asks for
          CatalogOf,   \* whose catalog each calls, the service's or the desktop's own
          MaxFound, MaxCachedSkills, \* the scan's and the cache's limits
          LookLimit,   \* entries of a page
          RootIds,     \* skill write roots of the service's policy ...
          RootPlace,   \* ... their saved canonical directories
          SkillPlace,  \* the directory of a skill's root
          MaxEdits, MaxToggles, MaxLooks, MaxRootChanges \* bounds; next pages and parts are no looks

ASSUME SkillLibraryAssumption ==
  /\ SkillFiles \subseteq Nat \ {0} /\ IsFiniteSet(SkillFiles)
  /\ Missing \notin Drafts \cup Browsers /\ \A d \in Drafts : d.name \in Nat
  /\ DOMAIN Wants = Browsers /\ DOMAIN CatalogOf = Browsers
  /\ FirstLibrary \in [SkillFiles -> Drafts \cup {Missing}]
  /\ {MaxFound, MaxCachedSkills, LookLimit} \subseteq Nat \ {0}
  /\ {MaxEdits, MaxToggles, MaxLooks, MaxRootChanges} \subseteq Nat

VARIABLES
  library,    \* text of a file
  stamps,     \* identity, length and times of a file, as one number
  blurred,    \* files that were rewritten in place without a new stamp
  metadata,   \* a catalog's cache: of a file, [stamp, draft], for those that are in it
  metaLock,   \* who holds the cache's mutex
  preferences, \* [revision, disabled]
  scans,      \* of a browser, the call under way
  since,      \* of a browser, the texts there were since its call began
  views,      \* of a browser, what it was shown of a list
  readings,   \* of a browser, the parts of a text it was given
  roots,      \* of a directory: "there" or "away" (gone, or linked to another one)
  patched,    \* files that agents' patches changed
  edits, toggles, looks, rootChanges \* how many there were

slvars == <<library, stamps, blurred, metadata, metaLock, preferences, scans, since, views, readings,
            roots, patched, edits, toggles, looks, rootChanges>>
filevars == <<library, stamps, blurred, roots, patched, edits, rootChanges>>

Places1 == {RootPlace[i] : i \in RootIds} \cup {SkillPlace[s] : s \in SkillFiles}
Present == {<<s, library[s]>> : s \in {x \in SkillFiles : library[x] # Missing}}
Catalogs == {CatalogOf[w] : w \in Browsers}
Cached(w) == metadata[CatalogOf[w]]
\* A walk over the files: those to come, those seen, the entries found, whether the
\* limit cut it off, and the metadata that is being read.
Walk(todo, seen, found, cut, meta) ==
  [todo |-> todo, seen |-> seen, found |-> found, cut |-> cut, meta |-> meta]
NoMeta == [stamp |-> 0, draft |-> Missing]
\* A call: its place, what it asks for, the preferences' revision when it began, the
\* skills that are off, and its walk.
Scan(at, ask, before, disabled, walk) ==
  [at |-> at, ask |-> ask, before |-> before, disabled |-> disabled, walk |-> walk]
GoesOn(c, at, walk) == Scan(at, c.ask, c.before, c.disabled, walk)
NoScan == Scan("idle", Missing, 0, {}, Walk({}, {}, {}, FALSE, NoMeta))
NoView == [desk |-> FALSE, revision |-> 0, marks |-> {}, upTo |-> 0, shown |-> {}, over |-> FALSE]
NothingRead == [file |-> 0, parts |-> <<>>]

SLInit ==
  /\ library = FirstLibrary /\ stamps = [s \in SkillFiles |-> 0] /\ blurred = {}
  /\ metadata = [k \in Catalogs |-> [s \in {} |-> 0]] /\ metaLock = [k \in Catalogs |-> Missing]
  /\ preferences = [revision |-> 0, disabled |-> {}]
  /\ scans = [w \in Browsers |-> NoScan] /\ since = [w \in Browsers |-> {}]
  /\ views = [w \in Browsers |-> NoView] /\ readings = [w \in Browsers |-> NothingRead]
  /\ roots = [p \in Places1 |-> "there"] /\ patched = {}
  /\ edits = 0 /\ toggles = 0 /\ looks = 0 /\ rootChanges = 0

-----------------------------------------------------------------------------
(* The files.                                                              *)

Written(s, text, stamp) ==
  /\ edits < MaxEdits /\ edits' = edits + 1
  /\ library' = [library EXCEPT ![s] = text] /\ stamps' = [stamps EXCEPT ![s] = stamp]
  /\ since' = [w \in Browsers |-> IF text = Missing THEN since[w] ELSE since[w] \cup {<<s, text>>}]

\* The owner's editor replaces, writes or removes a file; in place and within one
\* tick of the file system's clock the stamp may stay.
EditSkill(s, text) ==
  /\ text # library[s] /\ (text # Missing => roots[SkillPlace[s]] = "there")
  /\ \/ Written(s, text, edits + 1) /\ UNCHANGED blurred
     \/ /\ Missing \notin {text, library[s]}
        /\ Written(s, text, stamps[s]) /\ blurred' = blurred \cup {s}
  /\ UNCHANGED <<metadata, metaLock, preferences, scans, views, readings, roots, patched, toggles, looks,
                 rootChanges>>

\* A directory of a root without skills disappears, or leads to another place.
RootChanges(p, how) ==
  /\ rootChanges < MaxRootChanges /\ rootChanges' = rootChanges + 1
  /\ \A s \in SkillFiles : SkillPlace[s] = p => library[s] = Missing
  /\ roots[p] # how /\ roots' = [roots EXCEPT ![p] = how]
  /\ UNCHANGED <<library, stamps, blurred, metadata, metaLock, preferences, scans, since, views, readings,
                 patched, edits, toggles, looks>>

\* approved_roots: one root that is gone or leads elsewhere makes all unavailable.
ApprovedRoots ==
  IF \E i \in RootIds : roots[RootPlace[i]] # "there" THEN {} ELSE RootIds

\* apply_skill_patch: arguments without a flaw, an approved root; the patch stays
\* within that root and renames a staged file into place.
ApplySkillPatch(root, flawed, s, text) ==
  /\ ~flawed /\ root \in ApprovedRoots /\ SkillPlace[s] = RootPlace[root]
  /\ text # library[s]
  /\ Written(s, text, edits + 1) /\ patched' = patched \cup {s}
  /\ UNCHANGED <<blurred, metadata, metaLock, preferences, scans, views, readings, roots, toggles, looks, rootChanges>>

-----------------------------------------------------------------------------
(* A scan, for every call.                                                 *)

\* What a call asks for: [kind: "list", automatic, next], pages of a list, for an
\* agent's automatic choice or ("desk") the desktop, next with the cursor of the page
\* before; [kind: "read", file, name, next, hash], parts of a text, by the file's id
\* or its name, the next one with or without the hash; [kind: "prefer", file, on,
\* expected], the revision the desktop shows.  A next page or part follows a first.
Sensible(w, ask) ==
  CASE ask.kind \in {"list", "desk"} ->
         ask.next => views[w].marks # {} /\ ~views[w].over /\ views[w].desk = (ask.kind = "desk")
    [] ask.kind = "read" ->
         IF ask.next THEN readings[w].file = ask.file /\ Len(readings[w].parts) = 1 ELSE ~ask.hash
    [] OTHER -> TRUE

\* The preferences are read before the walk; the desktop reads them once more.
BeginCall(w, ask) ==
  /\ scans[w].at = "idle" /\ Sensible(w, ask)
  /\ IF ask.kind # "prefer" /\ ask.next THEN UNCHANGED looks ELSE looks < MaxLooks /\ looks' = looks + 1
  /\ scans' = [scans EXCEPT ![w] =
       Scan(IF ask.kind = "desk" THEN "open" ELSE "walk", ask, preferences.revision,
            preferences.disabled, Walk(SkillFiles, {}, {}, FALSE, NoMeta))]
  /\ since' = [since EXCEPT ![w] = Present]
  /\ UNCHANGED <<filevars, metadata, metaLock, preferences, views, readings, toggles>>

OpenScan(w) ==
  /\ scans[w].at = "open"
  /\ scans' = [scans EXCEPT ![w] =
       Scan("walk", scans[w].ask, scans[w].before, preferences.disabled, scans[w].walk)]
  /\ UNCHANGED <<filevars, metadata, metaLock, preferences, since, views, readings, toggles, looks>>

NextFile(c) == CHOOSE s \in c.walk.todo : \A t \in c.walk.todo : s <= t

\* A file's metadata is found: an entry more, and the limit of the scan.
Found(c, s, text) ==
  LET found == c.walk.found \cup {[id |-> s, draft |-> text, off |-> s \in c.disabled]}
      cut == Cardinality(found) >= MaxFound
  IN GoesOn(c, "walk", Walk(IF cut THEN {} ELSE c.walk.todo \ {s}, c.walk.seen \cup {s}, found, cut,
                            NoMeta))

\* A file that is gone, or changes while it is read, is passed over.
PassedOver(c, s) ==
  GoesOn(c, "walk", Walk(c.walk.todo \ {s}, c.walk.seen, c.walk.found, c.walk.cut, NoMeta))

Without(cache, s) == [x \in DOMAIN cache \ {s} |-> cache[x]]
WithMeta(cache, s, meta) == [x \in DOMAIN cache \cup {s} |-> IF x = s THEN meta ELSE cache[x]]
\* A full cache loses its first entry.
Room(cache) ==
  IF Cardinality(DOMAIN cache) < MaxCachedSkills THEN cache
  ELSE Without(cache, CHOOSE x \in DOMAIN cache : \A y \in DOMAIN cache : x <= y)

\* Mutant: whatever is cached is used.
CacheHitAny(w, s) == s \in DOMAIN Cached(w)

CacheHit(w, s) == s \in DOMAIN Cached(w) /\ Cached(w)[s].stamp = stamps[s]

\* load_metadata under the cache's mutex: an entry with the file's stamp is used,
\* another one is dropped and the file read.
LoadMetadata(w) ==
  LET c == scans[w]  s == NextFile(c)
  IN /\ c.at = "walk" /\ c.walk.todo # {} /\ metaLock[CatalogOf[w]] = Missing
     /\ IF library[s] = Missing
        THEN scans' = [scans EXCEPT ![w] = PassedOver(c, s)] /\ UNCHANGED <<metadata, metaLock>>
        ELSE IF CacheHit(w, s)
        THEN scans' = [scans EXCEPT ![w] = Found(c, s, Cached(w)[s].draft)]
             /\ UNCHANGED <<metadata, metaLock>>
        ELSE /\ scans' = [scans EXCEPT ![w] = GoesOn(c, "read",
                  Walk(c.walk.todo, c.walk.seen \cup {s}, c.walk.found, c.walk.cut,
                       [stamp |-> stamps[s], draft |-> library[s]]))]
             /\ metadata' = [metadata EXCEPT ![CatalogOf[w]] = Without(@, s)]
             /\ metaLock' = [metaLock EXCEPT ![CatalogOf[w]] = w]
     /\ UNCHANGED <<filevars, preferences, since, views, readings, toggles, looks>>

\* The file was read: its stamp must be what it was.
KeepMetadata(w) ==
  LET c == scans[w]  s == NextFile(c)  meta == c.walk.meta
  IN /\ c.at = "read" /\ metaLock' = [metaLock EXCEPT ![CatalogOf[w]] = Missing]
     /\ IF library[s] # Missing /\ stamps[s] = meta.stamp
        THEN /\ metadata' = [metadata EXCEPT ![CatalogOf[w]] = WithMeta(Room(@), s, meta)]
             /\ scans' = [scans EXCEPT ![w] = Found(c, s, meta.draft)]
        ELSE scans' = [scans EXCEPT ![w] = PassedOver(c, s)] /\ UNCHANGED metadata
     /\ UNCHANGED <<filevars, preferences, since, views, readings, toggles, looks>>

\* A whole scan drops from the cache what it did not see; the list of what it saw.
EndScan(w) ==
  LET c == scans[w]
  IN /\ c.at = "walk" /\ c.walk.todo = {} /\ metaLock[CatalogOf[w]] = Missing
     /\ metadata' = IF c.walk.cut THEN metadata
                    ELSE [metadata EXCEPT ![CatalogOf[w]] = [s \in DOMAIN @ \cap c.walk.seen |-> @[s]]]
     /\ scans' = [scans EXCEPT ![w] = GoesOn(c, "answer", c.walk)]
     /\ UNCHANGED <<filevars, metaLock, preferences, since, views, readings, toggles, looks>>

-----------------------------------------------------------------------------
(* Answers.                                                                *)

Ended(w) == scans' = [scans EXCEPT ![w] = NoScan] /\ since' = [since EXCEPT ![w] = {}]

ByHand(entry) == entry.draft.manual \/ entry.off

\* The entries that are asked for.
Ranked(c) == {entry \in c.walk.found : c.ask.automatic => ~ByHand(entry)}

\* What a cursor's hash has of an entry: the file, its text, and whether it may only be
\* used by hand, for whichever of the two reasons.
Mark(entry) == [id |-> entry.id, draft |-> entry.draft, byHand |-> ByHand(entry)]
Marks(list) == {Mark(entry) : entry \in list}

\* A list has its entries by name; one's rank is its place.
Before(a, b) == a.draft.name < b.draft.name \/ (a.draft.name = b.draft.name /\ a.id < b.id)
Rank(marks, entry) == Cardinality({x \in marks : Before(x, entry)}) + 1

\* Catalog::list: a cursor carries the hash of the list it is of, and the place of the
\* next entry.
AnswerList(w) ==
  LET c == scans[w]  v == views[w]
      marks == Marks(Ranked(c))
      offset == IF c.ask.next THEN v.upTo ELSE 0
      end == IF offset + LookLimit < Cardinality(marks) THEN offset + LookLimit ELSE Cardinality(marks)
      page == {entry \in Ranked(c) : Rank(marks, Mark(entry)) \in (offset + 1)..end}
      stale == c.ask.next /\ v.marks # marks
  IN /\ c.at = "answer" /\ c.ask.kind \in {"list", "desk"}
     /\ scans' = [scans EXCEPT ![w] = GoesOn(c, "listed", c.walk)]
     /\ views' = [views EXCEPT ![w] =
          IF stale THEN NoView
          ELSE [desk |-> c.ask.kind = "desk", revision |-> c.before, marks |-> marks, upTo |-> end,
                shown |-> (IF c.ask.next THEN v.shown ELSE {}) \cup page,
                over |-> end = Cardinality(marks)]]
     /\ UNCHANGED <<filevars, metadata, metaLock, preferences, since, readings, toggles, looks>>

\* The desktop's list is refused when the preferences changed meanwhile.
CallReturns(w) ==
  /\ scans[w].at = "listed" /\ Ended(w)
  /\ views' = [views EXCEPT ![w] =
       IF scans[w].ask.kind = "desk" /\ scans[w].before # preferences.revision THEN NoView ELSE @]
  /\ UNCHANGED <<filevars, metadata, metaLock, preferences, readings, toggles, looks>>

\* Catalog::read: the one entry of that id or name; the text as it is now, of the
\* hash that the scan saw and the caller expects.
AnswerRead(w) ==
  LET c == scans[w]  r == readings[w]
      wanted == {e \in c.walk.found :
                   IF c.ask.file = 0 THEN e.draft.name = c.ask.name ELSE e.id = c.ask.file}
      entry == CHOOSE e \in wanted : TRUE
      text == library[entry.id]
      good == /\ Cardinality(wanted) = 1 /\ (c.ask.file = 0 => ~c.walk.cut)
              /\ text # Missing /\ text = entry.draft
              /\ c.ask.next => c.ask.hash /\ text = r.parts[1]
  IN /\ c.at = "answer" /\ c.ask.kind = "read" /\ Ended(w)
     /\ readings' = [readings EXCEPT ![w] =
          IF ~good THEN NothingRead
          ELSE [file |-> entry.id, parts |-> IF c.ask.next THEN Append(r.parts, text) ELSE <<text>>]]
     /\ UNCHANGED <<filevars, metadata, metaLock, preferences, views, toggles, looks>>

\* taskdock_skill_preference: the skill was found, its source allows automatic use,
\* and the preferences are those the desktop shows.
SetPreference(w) ==
  LET c == scans[w]
      entries == {e \in c.walk.found : e.id = c.ask.file}
      good == /\ entries # {} /\ (c.ask.on => \A e \in entries : ~e.draft.manual)
              /\ c.ask.expected = preferences.revision /\ toggles < MaxToggles
  IN /\ c.at = "answer" /\ c.ask.kind = "prefer" /\ Ended(w)
     /\ IF good
        THEN /\ toggles' = toggles + 1
             /\ preferences' = [revision |-> preferences.revision + 1,
                                disabled |-> IF c.ask.on THEN preferences.disabled \ {c.ask.file}
                                             ELSE preferences.disabled \cup {c.ask.file}]
        ELSE UNCHANGED <<preferences, toggles>>
     /\ UNCHANGED <<filevars, metadata, metaLock, views, readings, looks>>

SLNext ==
  \/ \E s \in SkillFiles, text \in Drafts \cup {Missing} : EditSkill(s, text)
  \/ \E p \in Places1, how \in {"there", "away"} : RootChanges(p, how)
  \/ \E i \in RootIds, flawed \in BOOLEAN, s \in SkillFiles, text \in Drafts : ApplySkillPatch(i, flawed, s, text)
  \/ \E w \in Browsers : \E ask \in Wants[w] : BeginCall(w, ask)
  \/ \E w \in Browsers : OpenScan(w) \/ LoadMetadata(w) \/ KeepMetadata(w) \/ EndScan(w)
  \/ \E w \in Browsers : AnswerList(w) \/ CallReturns(w) \/ AnswerRead(w) \/ SetPreference(w)

SLSpec == SLInit /\ [][SLNext]_slvars

-----------------------------------------------------------------------------
(* Properties.                                                             *)

\* The cache is never wrong about a file whose stamp it has, but for rewriting in
\* place that left no trace.
CacheTrue ==
  \A k \in Catalogs : \A s \in DOMAIN metadata[k] :
    metadata[k][s].stamp = stamps[s] => metadata[k][s].draft = library[s] \/ s \in blurred

\* However warm the cache, a call answers with texts that there were since it began.
ScanCurrent ==
  \A w \in Browsers : scans[w].at = "answer" =>
    \A entry \in scans[w].walk.found : <<entry.id, entry.draft>> \in since[w] \/ entry.id \in blurred

\* The pages of a list are the beginning of one list, no file in it twice, and as a
\* whole when it is over, as far as a cursor's hash tells lists apart; whoever looks at
\* the latest preferences sees them of every skill whose source allows automatic use.
\* What the desktop shows of one for use by hand may be older: turning it off changes
\* no hash.
ListWhole ==
  \A w \in Browsers :
    LET v == views[w] IN
    /\ Marks(v.shown) = {m \in v.marks : Rank(v.marks, m) <= v.upTo}
    /\ v.over => Marks(v.shown) = v.marks
    /\ \A a, b \in v.shown : a.id = b.id => a = b
    /\ v.revision = preferences.revision /\ scans[w].at # "listed" =>
         \A entry \in v.shown : entry.draft.manual \/ (entry.off <=> entry.id \in preferences.disabled)

\* The parts of a text that were read are of one text.
ReadWhole ==
  \A w \in Browsers : \A i, j \in DOMAIN readings[w].parts : readings[w].parts[i] = readings[w].parts[j]

\* Types, and the four above: skill_catalog.rs and its callers beside editors,
\* patches and the desktop.
SkillsInv ==
  /\ \A k \in Catalogs : DOMAIN metadata[k] \subseteq SkillFiles
                         /\ Cardinality(DOMAIN metadata[k]) <= MaxCachedSkills
  /\ \A w \in Browsers : scans[w].at = "read" <=> metaLock[CatalogOf[w]] = w
  /\ CacheTrue /\ ScanCurrent /\ ListWhole /\ ReadWhole
=============================================================================
