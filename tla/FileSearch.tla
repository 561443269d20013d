----------------------------- MODULE FileSearch -----------------------------
(***************************************************************************)
(* What list_dir, list_files and search_text find in a directory (tools/   *)
(* file.rs): a bounded walk that leaves out hidden and ignored entries and *)
(* excluded subtrees, and a search that streams each file line by line and *)
(* gives every match the lines around it, while other processes remove     *)
(* files.                                                                  *)
(*                                                                         *)
(* A tree is its entries in the order of the walk, each after the          *)
(* directory that it is in.  An entry says whether it is hidden, has one   *)
(* of the ignored names, passes the caller's patterns or is excluded by    *)
(* them; a line is a hit, a miss, or bytes that are no text.  Sizes, times *)
(* and the shortening of long lines are not modelled.                      *)
(***************************************************************************)
EXTENDS Integers, FiniteSets, SequencesExt

CONSTANTS Trees,     \* sequences of entries
          Searches,  \* what is asked
          MaxRemoved \* bound of files that disappear

ASSUME FileSearchAssumption == MaxRemoved \in Nat

VARIABLES
  tree,     \* the entries, when the walk began
  vanished,  \* those that disappeared since
  search,   \* [tool, root, hidden, ignored, max, visits, context, depth]
  cursor,   \* the entry that is walked to next, 0 the root itself
  visited,  \* entries that were walked over
  hits,     \* the answer
  cutBy,    \* "nothing", "results" or "visits": what ended the walk early
  stream,   \* the file that is being searched
  unread    \* files that the search left without a word

fsvars == <<tree, vanished, search, cursor, visited, hits, cutBy, stream, unread>>

NoStream == [entry |-> 0, line |-> 0, recent |-> <<>>, pending |-> <<>>]

\* Another process removes a file or a link.
FileRemoved(i) ==
  /\ Cardinality(vanished) < MaxRemoved /\ tree[i].kind # "dir"
  /\ vanished' = vanished \cup {i}
  /\ UNCHANGED <<tree, search, cursor, visited, hits, cutBy, stream, unread>>

-----------------------------------------------------------------------------
(* The walk.                                                               *)

RECURSIVE Above(_)
Above(i) == IF i = 0 THEN {} ELSE {i} \cup Above(tree[i].up)
Depth(i) == Cardinality(Above(i))

\* is_ignored_path: any part of the path below the workspace's root counts, those of
\* the directory that is listed too; outside of it hidden names do not.
Ignored(i) ==
  \/ /\ ~search.hidden /\ search.root # "outside"
     /\ search.root = "hidden" \/ \E k \in Above(i) : tree[k].hidden
  \/ ~search.ignored /\ (search.root = "ignored" \/ \E k \in Above(i) : tree[k].ignored)

\* excluded_scan_directory: a pattern that excludes a whole subtree.
Subtree(i) == tree[i].kind = "dir" /\ tree[i].excluded = "subtree"

\* Entries the walk comes to: list_dir goes into directories as deep as it is asked,
\* the others into all that the filter leaves.
Walked(i) ==
  IF search.tool = "list_dir" THEN ~Ignored(i) /\ Depth(i) <= search.depth
  ELSE ~Ignored(i) /\ \A k \in Above(i) : ~Subtree(k)

After(i) ==
  LET rest == {k \in DOMAIN tree : k > i /\ Walked(k)}
  IN IF rest = {} THEN Len(tree) + 1 ELSE CHOOSE k \in rest : \A j \in rest : k <= j

FSInit ==
  /\ tree \in Trees /\ search \in Searches /\ vanished = {}
  /\ cursor = IF search.tool = "list_dir" THEN After(0) ELSE 0
  /\ visited = 0 /\ hits = <<>> /\ cutBy = "nothing" /\ stream = NoStream /\ unread = {}

\* The patterns of the caller; an excluded subtree excludes what is in it.
Passes(i) == tree[i].wanted /\ tree[i].excluded = "no"

Walking == stream = NoStream /\ cutBy = "nothing" /\ cursor <= Len(tree)
EndWalk(why) == cutBy' = why /\ UNCHANGED cursor
Onward == cursor' = After(cursor) /\ UNCHANGED cutBy

\* The visit that the budget does not allow ends the walk; the root is one, too.
OverBudget ==
  /\ Walking /\ search.tool # "list_dir" /\ visited >= search.visits
  /\ EndWalk("visits") /\ visited' = visited + 1
  /\ UNCHANGED <<tree, vanished, search, hits, stream, unread>>

Visit == Walking /\ (search.tool = "list_dir" \/ visited < search.visits) /\ visited' = visited + 1

VisitRoot ==
  /\ Visit /\ cursor = 0 /\ Onward
  /\ UNCHANGED <<tree, vanished, search, hits, stream, unread>>

\* An entry of the answer more; the limit is looked at when it is in.
Listed(i) ==
  /\ hits' = Append(hits, i)
  /\ IF Len(hits') >= search.max THEN EndWalk("results") ELSE Onward

\* An entry that vanished is listed if its directory was read before.
ListDir ==
  /\ Visit /\ search.tool = "list_dir" /\ cursor # 0
  /\ \/ Listed(cursor)
     \/ cursor \in vanished /\ Onward /\ UNCHANGED hits
  /\ UNCHANGED <<tree, vanished, search, stream, unread>>

ListFiles ==
  /\ Visit /\ search.tool = "list_files" /\ cursor # 0
  /\ IF cursor \notin vanished /\ tree[cursor].kind \in {"file", "link"} /\ Passes(cursor)
     THEN Listed(cursor) ELSE Onward /\ UNCHANGED hits
  /\ UNCHANGED <<tree, vanished, search, stream, unread>>

\* consider_file: the limit comes first; links, large and binary files are left out.
SearchFile ==
  /\ Visit /\ search.tool = "search_text" /\ cursor # 0
  /\ IF tree[cursor].kind # "file" THEN Onward /\ UNCHANGED stream
     ELSE IF Len(hits) >= search.max THEN EndWalk("results") /\ UNCHANGED stream
     ELSE IF cursor \in vanished \/ ~Passes(cursor) \/ tree[cursor].size # "text"
     THEN Onward /\ UNCHANGED stream
     ELSE stream' = [NoStream EXCEPT !.entry = cursor] /\ UNCHANGED <<cursor, cutBy>>
  /\ UNCHANGED <<tree, vanished, search, hits, unread>>

-----------------------------------------------------------------------------
(* search_file_streaming, a line at a time; an open file is read on even   *)
(* when it has vanished.                                                   *)

Lines == tree[stream.entry].lines
Streaming == stream # NoStream
Reading == Streaming /\ stream.line < Len(Lines)

Clip(n) == IF n < 0 THEN 0 ELSE n
Recent(s, n) == SubSeq(s, Clip(Len(s) - n) + 1, Len(s))
\* As many as the answer has room for.
Fitting(s) ==
  LET room == Clip(search.max - Len(hits)) IN SubSeq(s, 1, IF Len(s) < room THEN Len(s) ELSE room)
Full == search.max <= Len(hits')

\* The file is done: the walk goes on, or ends if the answer is full.
FileDone(full) == stream' = NoStream /\ (IF full THEN EndWalk("results") ELSE Onward)

\* Lines go to the matches that wait for the lines after them; those that have all
\* are answered, up to the limit; a new match waits unless nobody asked for lines.
TextLine ==
  /\ Reading /\ Lines[stream.line + 1] # "bad"
  /\ LET n == stream.line + 1
         fed == [k \in DOMAIN stream.pending |-> [stream.pending[k] EXCEPT !.after = Append(@, n)]]
         done == SelectSeq(fed, LAMBDA p : Len(p.after) >= search.context)
         rest == SelectSeq(fed, LAMBDA p : Len(p.after) < search.context)
         found == [entry |-> stream.entry, line |-> n, before |-> stream.recent, after |-> <<>>]
         hit == Lines[n] = "hit"
         out == IF search.context = 0 THEN IF hit THEN <<found>> ELSE <<>>
                ELSE Fitting(done)
     IN /\ hits' = hits \o out
        /\ IF out # <<>> /\ Full THEN FileDone(TRUE)
           ELSE /\ stream' = [stream EXCEPT !.line = n,
                    !.recent = IF search.context = 0 THEN <<>> ELSE Recent(Append(@, n), search.context),
                    !.pending = IF hit /\ search.context > 0 THEN Append(rest, found) ELSE rest]
                /\ UNCHANGED <<cursor, cutBy>>
  /\ UNCHANGED <<tree, vanished, search, visited, unread>>

\* Bytes that are no text: what waits is answered, the rest of the file is not read.
BadLine ==
  /\ Reading /\ Lines[stream.line + 1] = "bad"
  /\ hits' = hits \o Fitting(stream.pending) /\ unread' = unread \cup {stream.entry}
  /\ FileDone(Full)
  /\ UNCHANGED <<tree, vanished, search, visited>>

\* Mutant: what waits for lines at the end of the file is forgotten.
EndOfFileForgets ==
  /\ Streaming /\ ~Reading
  /\ UNCHANGED hits /\ FileDone(FALSE)
  /\ UNCHANGED <<tree, vanished, search, visited, unread>>

\* The end of the file: what waits is answered with the lines there were.
EndOfFile ==
  /\ Streaming /\ ~Reading
  /\ hits' = hits \o Fitting(stream.pending)
  /\ FileDone(stream.pending # <<>> /\ Full)
  /\ UNCHANGED <<tree, vanished, search, visited, unread>>

FSNext ==
  \/ \E i \in DOMAIN tree : FileRemoved(i)
  \/ OverBudget \/ VisitRoot \/ ListDir \/ ListFiles \/ SearchFile
  \/ TextLine \/ BadLine \/ EndOfFile

FSSpec == FSInit /\ [][FSNext]_fsvars

-----------------------------------------------------------------------------
(* Properties.                                                             *)

WalkOver == stream = NoStream /\ (cutBy # "nothing" \/ cursor > Len(tree))

\* The entries that the tree had for this call, and the matches of one of them.
Due ==
  {i \in DOMAIN tree : Walked(i) /\
     CASE search.tool = "list_dir" -> TRUE
       [] search.tool = "list_files" -> tree[i].kind \in {"file", "link"} /\ Passes(i)
       [] OTHER -> tree[i].kind = "file" /\ tree[i].size = "text" /\ Passes(i)}
Text(i) ==
  LET bad == {n \in DOMAIN tree[i].lines : tree[i].lines[n] = "bad"}
  IN IF bad = {} THEN Len(tree[i].lines) ELSE (CHOOSE n \in bad : \A k \in bad : n <= k) - 1
Context(i, n) ==
  [entry |-> i, line |-> n,
   before |-> [k \in 1..(IF n - 1 < search.context THEN n - 1 ELSE search.context) |->
                 k + n - 1 - (IF n - 1 < search.context THEN n - 1 ELSE search.context)],
   after |-> [k \in 1..(IF Text(i) - n < search.context THEN Text(i) - n ELSE search.context) |-> n + k]]
Matches(i) == {Context(i, n) : n \in {k \in 1..Text(i) : tree[i].lines[k] = "hit"}}

EntryOf(h) == IF search.tool = "search_text" THEN h.entry ELSE h
Findable == IF search.tool = "search_text" THEN UNION {Matches(i) : i \in Due} ELSE Due
Before(a, b) ==
  \/ EntryOf(a) < EntryOf(b)
  \/ search.tool = "search_text" /\ EntryOf(a) = EntryOf(b) /\ a.line < b.line

\* What is answered is there, with exactly the lines around it, once and in order;
\* nothing before the last answer is left out but what vanished.
AnswersRight ==
  /\ ToSet(hits) \subseteq Findable /\ \A a, b \in DOMAIN hits : a < b => Before(hits[a], hits[b])
  /\ \A f \in Findable \ ToSet(hits) :
       hits # <<>> => Before(hits[Len(hits)], f) \/ EntryOf(f) \in vanished

\* An answer that says it is whole is, but for files that vanished, and an
\* answer within the limits says so; one that ended early is as long as was asked,
\* with one entry of a list even if none was.
WholeOrSaid ==
  WalkOver =>
    /\ cutBy = "nothing" => \A f \in Findable : EntryOf(f) \in vanished \/ \E k \in DOMAIN hits : hits[k] = f
    /\ cutBy = "results" => Len(hits) = IF search.max = 0 /\ search.tool # "search_text" THEN 1 ELSE search.max
    /\ Cardinality(Findable) < search.max => cutBy # "results"

\* Types, and the two above; nothing but bytes that are no text ends a file silently.
FindsInv ==
  /\ visited <= Len(tree) + 2 /\ cutBy \in {"nothing", "results", "visits"}
  /\ \A i \in unread : Text(i) < Len(tree[i].lines)
  /\ AnswersRight /\ WholeOrSaid
=============================================================================
