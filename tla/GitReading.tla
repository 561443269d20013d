----------------------------- MODULE GitReading -----------------------------
(***************************************************************************)
(* The Git tools (tools/git.rs): status, diff, log, show and blame.  Each  *)
(* call runs several Git processes, one after the other, while a user and  *)
(* other agents edit, stage, commit and break the repository; so an answer *)
(* is put together from readings of different moments.                     *)
(*                                                                         *)
(* A tree gives each path a version or none.  The text of a diff is a set  *)
(* of lines, in an order: per path a header, and unless the change has no  *)
(* text of its own (a binary file, a mode, an empty file that comes or     *)
(* goes, a file that was only moved) the pair of lines that names the path *)
(* and the one it was moved from, and the body.  Git's default settings.   *)
(***************************************************************************)
EXTENDS Integers, Sequences, FiniteSets

CONSTANTS Paths,      \* numbers, in Git's order
          Versions, NoFile,
          Empty,      \* the version without a line
          Alike,      \* pairs of texts of which Git takes one for the other, moved and changed
          Bare,       \* the paths whose changes have no lines
          Names,      \* of paths, and what a line of a body may look like
          ReadAs,     \* how the line that names a path is read: NoName when Git quotes the
                      \* name, another one when a tab follows it because of a space
          LooksLike,  \* the name that one of a path's body looks like, or NoName
          NoName,
          Inquiries,  \* the calls
          FirstRepos, \* the repository at the start: the trees and the history
          SkipCap,    \* the largest skip
          MaxWorks, MaxInquiries,
          Continued   \* a bound: the tools of the calls after the first one

GitTools == {"status", "diff", "log", "show", "blame"}
\* to = 0: no end was given.
InquiryType == [tool : GitTools, untracked : BOOLEAN, unstaged : BOOLEAN, staged : BOOLEAN,
                max : Nat \ {0}, from : Nat \ {0}, to : Nat, ref : {"HEAD", "bad", "unknown"}]

TreeVersions == [Paths -> Versions \cup {NoFile}]
ASSUME GitAssumption ==
  /\ Paths \subseteq Nat /\ IsFiniteSet(Paths) /\ IsFiniteSet(Names) /\ NoFile \notin Versions /\ Bare \subseteq Paths
  /\ Paths \subseteq Names /\ {LooksLike, ReadAs} \subseteq [Paths -> Names \cup {NoName}] /\ NoName \notin Names
  /\ FirstRepos \subseteq [head : TreeVersions, cached : TreeVersions, work : TreeVersions,
                         history : Seq(TreeVersions \X TreeVersions)]
  /\ Inquiries \subseteq InquiryType /\ Inquiries # {} /\ SkipCap \in Nat /\ MaxWorks \in Nat /\ MaxInquiries \in Nat

VARIABLES
  head, cached, work, \* the trees
  history,   \* of each commit, the tree before and its own
  length,    \* lines of the file that is blamed
  health,    \* "repo", "none" (no repository here) or "broken" (Git fails otherwise)
  inquiry,   \* the call, when phase is not "idle"
  phase,     \* "idle", "check", "read", "more"
  diffs,     \* the lines of its diffs until now
  reply,     \* the last answer
  pages,     \* the traversal of the log: [skip, first, last, listed]
  works, inquiries, \* how much of the bounds is used
  moments,   \* what was true while the call ran
  steady     \* the paths that one of the two diffs would have named all the time, of
             \* which no change was taken back or edited

gitvars == <<head, cached, work, history, length, health>>
grvars == <<gitvars, inquiry, phase, diffs, reply, pages, works, inquiries, moments, steady>>

Lesser(a, b) == IF a <= b THEN a ELSE b
Tip == Len(history)

\* What a diff of two trees is about, and its rename detection: a new path has the text
\* of one that is gone, the same or one alike.
Changed(old, new) == {p \in Paths : old[p] # new[p]}
TakenAway(old, new) == {p \in Paths : old[p] # NoFile /\ new[p] = NoFile}
Added(old, new) == {p \in Paths : old[p] = NoFile /\ new[p] # NoFile}
MovedFrom(old, new, p) ==
  LET same == {q \in TakenAway(old, new) : p \in Added(old, new) /\ old[q] = new[p]}
      alike == {q \in TakenAway(old, new) : p \in Added(old, new) /\ <<old[q], new[p]>> \in Alike}
  IN IF same # {} THEN CHOOSE q \in same : TRUE
     ELSE IF alike # {} THEN CHOOSE q \in alike : TRUE ELSE p
\* The paths with an entry of their own.
Entries(old, new) ==
  {p \in Changed(old, new) : \A q \in Added(old, new) : MovedFrom(old, new, q) # p \/ q = p}
\* An entry with lines.
Textual(old, new, p) ==
  LET q == MovedFrom(old, new, p)
  IN p \notin Bare /\ (IF q = p THEN {old[p], new[p]} # {NoFile, Empty} ELSE old[q] # new[p])

\* What git diff and git diff --cached compare; neither knows an untracked file.
KnownFiles == [p \in Paths |-> IF cached[p] = NoFile THEN NoFile ELSE work[p]]
Unstaged == Changed(cached, KnownFiles)
Staged == Changed(head, cached)
\* A file that is no longer in the index but still there has two lines.
StatusLines(untracked) ==
  ((Unstaged \cup Entries(head, cached)) \X {"tracked"}) \cup
  (IF untracked THEN {p \in Paths : cached[p] = NoFile /\ work[p] # NoFile} \X {"untracked"} ELSE {})

\* What a call may see, at this moment.
Moment ==
  [health |-> health, lines |-> StatusLines(inquiry.untracked), length |-> length,
   named |-> IF inquiry.tool # "show" THEN Unstaged \cup Staged
             ELSE IF Tip = 0 THEN {} ELSE Changed(history[Tip][1], history[Tip][2])]
\* The paths that a diff of two trees names, as it reads them.
NamedBy(old, new) ==
  {p \in Paths : ReadAs[p] = p /\ \E q \in Entries(old, new) : Textual(old, new, q) /\ p \in {q, MovedFrom(old, new, q)}}
Showing == NamedBy(cached, KnownFiles) \cup NamedBy(head, cached)

NoReply == [kind |-> "none", clean |-> FALSE, lines |-> {}, names |-> {}, stub |-> FALSE,
          cut |-> FALSE, shown |-> 0]
FirstPages == [skip |-> 0, first |-> 0, last |-> 0, listed |-> {}]

\* A repository at any moment of its life.
GRInit ==
  /\ \E r \in FirstRepos :
       head = r.head /\ cached = r.cached /\ work = r.work /\ history = r.history
  /\ length = 1
  /\ health \in {"repo", "none"}
  /\ inquiry = (CHOOSE q \in Inquiries : TRUE) /\ phase = "idle" /\ diffs = {} /\ reply = NoReply /\ pages = FirstPages
  /\ works = 0 /\ inquiries = 0 /\ moments = {} /\ steady = {}

-----------------------------------------------------------------------------
(* Others at work.  A call in progress remembers what was true meanwhile.  *)

Meanwhile(disturbed) ==
  /\ works < MaxWorks /\ works' = works + 1
  /\ UNCHANGED <<inquiry, phase, diffs, reply, pages, inquiries>>
  /\ IF phase = "idle" THEN UNCHANGED <<moments, steady>>
     ELSE moments' = moments \cup {Moment'} /\ steady' = (steady \cap Showing') \ disturbed

Edit(p, v) ==
  /\ v # work[p] /\ work' = [work EXCEPT ![p] = v]
  /\ UNCHANGED <<head, cached, history, length, health>> /\ Meanwhile({p})

StagePath(p) ==
  /\ cached[p] # work[p] /\ cached' = [cached EXCEPT ![p] = work[p]]
  /\ UNCHANGED <<head, work, history, length, health>> /\ Meanwhile({})

Unstage(p) ==
  /\ cached[p] # head[p] /\ cached' = [cached EXCEPT ![p] = head[p]]
  /\ UNCHANGED <<head, work, history, length, health>> /\ Meanwhile({p})

CommitStaged ==
  /\ Staged # {} /\ head' = cached /\ history' = Append(history, <<head, cached>>)
  /\ UNCHANGED <<cached, work, length, health>> /\ Meanwhile({})

Lengthen(n) ==
  /\ length' = n /\ UNCHANGED <<head, cached, work, history, health>> /\ Meanwhile({})

Upset(h) ==
  /\ h # health /\ health' = h
  /\ UNCHANGED <<head, cached, work, history, length>> /\ Meanwhile({})

-----------------------------------------------------------------------------
(* The calls.                                                              *)

Say(r) == reply' = r /\ phase' = "idle"
Refusal(why) == Say([NoReply EXCEPT !.kind = why])

\* validate_git_ref, which the log asks before anything else.
Inquire(q) ==
  /\ phase = "idle" /\ inquiries < MaxInquiries /\ inquiries' = inquiries + 1
  /\ inquiries > 0 => q.tool \in Continued /\ inquiry.tool = q.tool
  /\ q.tool = "log" => pages.skip <= SkipCap
  /\ inquiry' = q /\ diffs' = {} /\ UNCHANGED <<gitvars, pages, works>>
  /\ moments' = {Moment'} /\ steady' = Showing
  /\ IF q.tool = "log" /\ q.ref = "bad" THEN Refusal("argument") ELSE phase' = "check" /\ reply' = NoReply

callvars == <<gitvars, inquiry, pages, works, inquiries, moments, steady>>

\* is_git_repo, and the first process of a status.
Check ==
  /\ phase = "check"
  /\ CASE health = "repo" -> phase' = "read" /\ UNCHANGED reply
       [] health = "none" -> Refusal("norepo")
       [] OTHER -> Refusal("git")
  /\ UNCHANGED <<callvars, diffs>>

\* Revisions that are refused, and a range of lines.
Declined ==
  \/ inquiry.tool \in {"show", "blame"} /\ inquiry.ref = "bad"
  \/ inquiry.tool = "blame" /\ inquiry.to # 0 /\ inquiry.to < inquiry.from
Decline ==
  /\ phase = "read" /\ Declined
  /\ Refusal("argument") /\ UNCHANGED <<callvars, diffs>>

\* Whether a process is run, which an answer needs: a diff is of two halves, of which
\* the caller may want one, and a status does without its commit.
RunsGit ==
  CASE phase = "read" -> ~Declined /\ (inquiry.tool = "diff" => inquiry.unstaged)
    [] phase = "more" -> inquiry.tool = "diff" /\ inquiry.staged
    [] OTHER -> FALSE
\* A process other than the first, of a repository that is none any more or fails.
ReadFails ==
  /\ RunsGit /\ health # "repo"
  /\ Refusal("git") /\ UNCHANGED <<callvars, diffs>>
Reads(tool, at) == inquiry.tool = tool /\ phase = at /\ ~Declined /\ (RunsGit => health = "repo")

\* The lines after that of the branch, as many as asked for.
ReadStatus ==
  /\ Reads("status", "read")
  /\ LET lines == StatusLines(inquiry.untracked)
         n == Lesser(inquiry.max, Cardinality(lines))
     IN \E listed \in {S \in SUBSET lines : Cardinality(S) = n} :
          reply' = [NoReply EXCEPT !.kind = "part", !.lines = listed, !.clean = listed = {},
                      !.cut = n >= inquiry.max /\ 1 + Cardinality(lines) > inquiry.max + 1]
  /\ phase' = "more" /\ UNCHANGED <<callvars, diffs>>

\* The commit of HEAD, empty when that fails.
ReadHead ==
  /\ inquiry.tool = "status" /\ phase = "more"
  /\ Say([reply EXCEPT !.kind = "status", !.shown = IF health = "repo" THEN Tip ELSE 0])
  /\ UNCHANGED <<callvars, diffs>>

\* The lines of a diff: <<half, path, 1..3, names>>, the names that are read from it,
\* and how a cut of them reads.
Named(S) == S \ {NoName}
DiffLines(old, new, half) ==
  {<<half, p, 1, {}>> : p \in Entries(old, new)} \cup
  UNION {{<<half, p, 2, Named({ReadAs[p], ReadAs[MovedFrom(old, new, p)]})>>,
          <<half, p, 3, Named({LooksLike[p]})>>} : p \in {q \in Entries(old, new) : Textual(old, new, q)}}
Follows(l, m) == \* l comes after m
  \/ l[1] > m[1] \/ (l[1] = m[1] /\ l[2] > m[2])
  \/ l[1] = m[1] /\ l[2] = m[2] /\ l[3] > m[3]
Preceding(l, lines) == Cardinality({m \in lines : Follows(l, m)})
\* parse_diff_files.
NamesIn(lines) == UNION {l[4] : l \in lines}

\* The line that the cut goes through may be as good as whole, or names a path that
\* ends where the cut is.
Deliver(lines) ==
  LET kept == {l \in lines : Preceding(l, lines) < inquiry.max}
      broken == {l \in lines : Preceding(l, lines) = inquiry.max}
  IN \E whole \in SUBSET broken, stub \in BOOLEAN :
       /\ stub => broken # {} /\ whole = {}
       /\ Say([NoReply EXCEPT !.kind = inquiry.tool, !.names = NamesIn(kept \cup whole), !.stub = stub,
                              !.cut = Cardinality(lines) > inquiry.max])

\* Mutant: what is staged is read first.
HalfSwapped(first) ==
  IF first THEN IF inquiry.staged THEN DiffLines(head, cached, 1) ELSE {}
  ELSE IF inquiry.unstaged THEN DiffLines(cached, KnownFiles, 0) ELSE {}
\* git diff, then git diff --cached.
Half(first) ==
  IF first THEN IF inquiry.unstaged THEN DiffLines(cached, KnownFiles, 0) ELSE {}
  ELSE IF inquiry.staged THEN DiffLines(head, cached, 1) ELSE {}

ReadFirst ==
  /\ Reads("diff", "read")
  /\ diffs' = Half(TRUE) /\ phase' = "more"
  /\ UNCHANGED <<callvars, reply>>

ReadSecond ==
  /\ Reads("diff", "more")
  /\ Deliver(diffs \cup Half(FALSE))
  /\ UNCHANGED <<callvars, diffs>>

\* One commit more than asked for tells whether there are more.
ReadLog ==
  /\ Reads("log", "read")
  /\ LET skip == Lesser(pages.skip, SkipCap)
         listed == {c \in 1..Tip : c <= Tip - skip /\ c > Tip - skip - inquiry.max}
         cut == Cardinality({c \in 1..Tip : c <= Tip - skip /\ c > Tip - skip - (inquiry.max + 1)}) > inquiry.max
         first == IF pages.skip = 0 THEN Tip ELSE pages.first
     IN IF inquiry.ref = "unknown" \/ Tip = 0
        THEN Refusal("git") /\ UNCHANGED pages
        ELSE /\ pages' = [skip |-> IF cut THEN pages.skip + inquiry.max ELSE 0, first |-> first, last |-> Tip,
                          listed |-> listed \cup IF pages.skip = 0 THEN {} ELSE pages.listed]
             /\ Say([NoReply EXCEPT !.kind = "log", !.cut = cut])
  /\ UNCHANGED <<gitvars, inquiry, works, inquiries, moments, steady, diffs>>

\* The commit of HEAD when the process runs.
ReadShow ==
  /\ Reads("show", "read")
  /\ IF inquiry.ref = "unknown" \/ Tip = 0 THEN Refusal("git")
     ELSE Deliver(IF inquiry.unstaged THEN DiffLines(history[Tip][1], history[Tip][2], 0) ELSE {})
  /\ UNCHANGED <<callvars, diffs>>

\* Lines from..upto, as many as are there; an error when the first is not.
ReadBlame ==
  /\ Reads("blame", "read")
  /\ LET most == inquiry.from + inquiry.max - 1
         end == IF inquiry.to = 0 THEN most ELSE inquiry.to
         upto == Lesser(end, most)
     IN IF inquiry.ref = "unknown" \/ inquiry.from > length THEN Refusal("git")
        ELSE Say([NoReply EXCEPT !.kind = "blame", !.shown = Lesser(upto, length),
                                 !.cut = end - inquiry.from + 1 > inquiry.max])
  /\ UNCHANGED <<callvars, diffs>>

-----------------------------------------------------------------------------
GRNext ==
  \/ \E p \in Paths : StagePath(p) \/ Unstage(p) \/ (\E v \in Versions \cup {NoFile} : Edit(p, v))
  \/ CommitStaged \/ (\E n \in 1..3 : n # length /\ Lengthen(n)) \/ \E h \in {"repo", "none", "broken"} : Upset(h)
  \/ \E q \in Inquiries : Inquire(q)
  \/ Check \/ Decline \/ ReadFails \/ ReadStatus \/ ReadHead \/ ReadFirst \/ ReadSecond
  \/ ReadLog \/ ReadShow \/ ReadBlame

GRSpec == GRInit /\ [][GRNext]_grvars

-----------------------------------------------------------------------------
(* Properties.  Nothing is said of a history that is rewritten meanwhile.  *)

GRTypeOK ==
  /\ {head, cached, work} \subseteq TreeVersions
  /\ history \in Seq(TreeVersions \X TreeVersions) /\ length \in 1..3 /\ health \in {"repo", "none", "broken"}
  /\ inquiry \in Inquiries /\ phase \in {"idle", "check", "read", "more"}
  /\ diffs \subseteq (0..1) \X Paths \X (1..3) \X SUBSET Names
  /\ reply \in [kind : GitTools \cup {"none", "part", "norepo", "git", "argument"}, clean : BOOLEAN,
                lines : SUBSET (Paths \X {"tracked", "untracked"}), names : SUBSET Names,
                stub : BOOLEAN, cut : BOOLEAN, shown : Nat]
  /\ pages \in [skip : Nat, first : Nat, last : Nat, listed : SUBSET Nat]
  /\ works \in 0..MaxWorks /\ inquiries \in 0..MaxInquiries /\ steady \subseteq Paths
  /\ moments \subseteq [health : {"repo", "none", "broken"}, length : 1..3, named : SUBSET Paths,
                        lines : SUBSET (Paths \X {"tracked", "untracked"})]

\* git.rs:549-558: that there is no repository is only said when Git said so, never
\* because it failed; and that a tree is clean only when a status found nothing.
NeverMistaken ==
  /\ reply.kind = "norepo" => \E m \in moments : m.health = "none"
  /\ reply.kind \in {"part", "status"} =>
       \E m \in moments : m.health = "repo" /\ reply.lines \subseteq m.lines
                        /\ (reply.clean <=> m.lines = {}) /\ (reply.cut <=> reply.lines # m.lines)

\* git.rs:157-164: a diff of both kinds that is not cut names every path that one of
\* the two would have named at each moment while it ran, unless the path was edited or
\* unstaged meanwhile; staging it between the two processes does not hide it.  What
\* neither names are the entries without text (Textual), a name that Git quotes and
\* one with a space (ReadAs): `files` does not list those paths.
NothingHidden ==
  reply.kind = "diff" /\ inquiry.unstaged /\ inquiry.staged /\ ~reply.cut => steady \subseteq reply.names

\* git.rs:616-642: a name is that of a path that was changed at some moment of the
\* call, as the line that names it is read, or what a line of a changed file looks
\* like; only a cut breaks off a name.
NamesTrue ==
  reply.kind \in {"diff", "show"} =>
    /\ reply.stub => reply.cut
    /\ \A n \in reply.names : \E m \in moments : \E p \in m.named : n \in {ReadAs[p], LooksLike[p]}

\* git.rs:195-211, 256: pages of the log, each skipping what those before it listed,
\* list every commit of the history that the first one saw, whatever is committed
\* meanwhile; the page that is not cut ends it.
LogComplete ==
  /\ pages.skip > 0 => {c \in 1..pages.first : c > pages.last - pages.skip} \subseteq pages.listed
  /\ reply.kind = "log" /\ ~reply.cut => 1..pages.first \subseteq pages.listed

\* git.rs:369-412: the lines of a blame are those from the first one asked for to the
\* last one that is asked for, there, and within the limit; all of a range that is
\* not marked as cut.
BlameExact ==
  reply.kind = "blame" => \E m \in moments :
    LET wanted == IF inquiry.to = 0 THEN m.length ELSE Lesser(inquiry.to, m.length)
    IN /\ inquiry.from <= reply.shown
       /\ reply.shown = Lesser(wanted, inquiry.from + inquiry.max - 1)
       /\ inquiry.to # 0 /\ ~reply.cut => reply.shown = wanted

GitInv == GRTypeOK /\ NeverMistaken /\ NothingHidden /\ NamesTrue /\ LogComplete /\ BlameExact
=============================================================================
