----------------------------- MODULE MCServices -----------------------------
(***************************************************************************)
(* What serves a client's calls, side by side: interactive sessions,       *)
(* upstream clients, the request lanes, the reading, searching and         *)
(* patching of files and the paging of output share no state, so a         *)
(* behaviour is about one of them, chosen at its start, and the others     *)
(* stand still in an initial state.                                        *)
(***************************************************************************)
EXTENDS ExecSession, UpstreamClient, RequestLanes, FileReading, FileSearch, PatchText,
        OutputPages, TLC

CONSTANTS Parts,  \* the components that are explored
          ask1, ask2, main

VARIABLE part
mcvars == <<part, esvars, ucvars, rlvars, frvars, fsvars, ptvars,
            opvars>>

\* Two calls on the tools of one upstream, of two.
Same == ask1 :> main @@ ask2 :> main
\* One place in either queue.
OneFrame == [control |-> 1, work |-> 1]

\* A directory with a file before another file or a link, and a file before an
\* ignored directory; every tool with limits that are met, passed and zero.
TreeEntry(parent, kind, how, lines) ==
  [up |-> parent, kind |-> kind, hidden |-> how = "hidden", ignored |-> how = "ignored",
   wanted |-> how # "other", excluded |-> IF how \in {"subtree", "alone"} THEN how ELSE "no",
   size |-> IF how = "large" THEN how ELSE "text", lines |-> lines]
SomeTrees ==
  {<<TreeEntry(0, "dir", d, <<>>), TreeEntry(1, "file", "plain", <<"hit", "hit", "miss">>),
     TreeEntry(0, k, "plain", <<"miss", "hit", "bad", "hit">>)>> :
     d \in {"plain", "hidden", "subtree"}, k \in {"file", "link"}} \cup
  {<<TreeEntry(0, "file", f, <<"hit", "miss", "miss", "hit">>), TreeEntry(0, "dir", "ignored", <<>>),
     TreeEntry(2, "file", "plain", <<"hit">>)>> : f \in {"plain", "other", "large", "alone"}}
PlainTree == <<TreeEntry(0, "dir", "plain", <<>>), TreeEntry(1, "file", "plain", <<"hit", "hit", "miss">>),
               TreeEntry(0, "file", "plain", <<"miss", "hit", "bad", "hit">>)>>
SearchAsk(tool, root, all, max, visits, context, depth) ==
  [tool |-> tool, root |-> root, hidden |-> all /\ tool # "search_text", ignored |-> all, max |-> max,
   visits |-> visits, context |-> context, depth |-> depth]
PlainSearch == SearchAsk("list_files", "plain", TRUE, 1, 9, 0, 0)
SomeSearches ==
  {SearchAsk("list_dir", r, all, m, 0, 0, d) :
     r \in {"plain", "hidden"}, all \in BOOLEAN, m \in 0..2, d \in 1..2} \cup
  {SearchAsk("list_files", r, all, m, v, 0, 0) :
     r \in {"plain", "outside"}, all \in BOOLEAN, m \in 0..2, v \in {2, 9}} \cup
  {SearchAsk("search_text", r, FALSE, m, v, c, 0) :
     r \in {"plain", "ignored"}, m \in 0..3, v \in {3, 9}, c \in 0..2}

\* Files and patches over two lines, and an empty one: one hunk of every kind on
\* every short text; two sections of all operations on the same and other files,
\* with an empty line between them or not, in both forms.
L(c, t) == [mark |-> c, t |-> t]
AText(lines, ended, cr) == TextOf([i \in DOMAIN lines |-> [t |-> lines[i], cr |-> i <= cr]], ended /\ lines # <<>>)
ShortTexts == {AText(s, TRUE, 0) : s \in BoundedSeq({"x", "y"}, 3)} \cup
              {AText(<<"x", "blank">>, TRUE, 1), AText(<<"x", "y", "x">>, FALSE, 1)} \cup {AText(<<"blank", "x">>, e, 0) : e \in BOOLEAN}
MarkedLines == {L(c, t) : c \in {"+", "-", " "}, t \in {"x", "y"}}
ShortHunks == {<<l>> : l \in MarkedLines} \cup {<<k, l>> : k, l \in MarkedLines} \cup
              {<<L(" ", "x"), k, L(" ", "y")>> : k \in MarkedLines} \cup {<<L("-", "blank")>>, <<L("-", "x"), L(" ", "blank")>>}
TheDisk(text) == 1 :> text @@ 2 :> Gone @@ 3 :> AText(<<"y", "x">>, TRUE, 0) @@ 4 :> AText(<<"x">>, TRUE, 0)
                 @@ 5 :> AText(<<"x">>, TRUE, 0) @@ 6 :> Gone
Kinds == <<"plain", "plain", "critical", "protected", "link", "plain">>
Sect(op, path, hs) == [op |-> op, path |-> path, hunks |-> hs]
Mixed == AText(<<"x", "y">>, FALSE, 1)
Update(path, lines) == Sect("update", path, <<lines>>)
SomeSections ==
  {Update(1, lines) : lines \in {<<L("-", "x"), L("+", "y")>>, <<L(" ", "x"), L("+", "x")>>, <<L("+", "x")>>,
                         <<L("-", "dashes"), L("+", "y")>>, <<L(" ", "x"), L("+", "pluses")>>,
                         <<L("-", "y"), L("+", "blank"), L("+", "blank")>>}} \cup
  {Sect("update", 1, <<<<L("-", "x"), L("+", "y"), L("+", "x")>>, <<L(" ", "x"), L("-", "y")>>>>)} \cup
  {Sect("delete", p, <<<<L("-", "x"), L("-", "y")>>>>) : p \in {1, 3}} \cup
  {Sect("add", p, <<lines>>) : p \in {1, 2}, lines \in {<<L("+", "x"), L("+", "pluses")>>, <<L("+", "y")>>}} \cup
  {Update(p, <<L("-", "x"), L("+", "y")>>) : p \in {2, 4, 5}}
Wanted(form, wanted, gap, text) ==
  [form |-> form, sections |-> wanted, gap |-> gap, disk |-> TheDisk(text), dry |-> gap, confirm |-> form = "unified"]
NoPatch == Wanted("envelope", <<>>, FALSE, Mixed)
SomePatches ==
  {Wanted("unified", <<Update(1, lines)>>, FALSE, text) : lines \in ShortHunks, text \in ShortTexts} \cup
  {Wanted(form, <<s, u>>, gap, Mixed) : form \in {"unified", "envelope"}, gap \in BOOLEAN, s, u \in SomeSections} \cup {NoPatch}

\* Characters of one to three bytes; some that are broken off in the middle; the end
\* in the middle of one, where a log's cap may be too.
Char(kind, width) == [i \in 1..width |-> [place |-> i - 1, width |-> width, kind |-> kind]]
SomeOutputs == {Char("good", 1) \o Char("good", 3) \o Char("good", 1),
                Char("short", 2) \o Char("stray", 1) \o SubSeq(Char("good", 3), 1, 2)}

\* What is read and what is found is what the files say, and a patch does to them what
\* its author meant or nothing.
FilesInv == ReadingInv /\ FindsInv /\ PatchTextInv

MCInit ==
  /\ part \in Parts
  /\ (IF part = "patchtext" THEN TRUE ELSE request = NoPatch) /\ PTInit
  /\ (IF part = "search" THEN TRUE ELSE tree = PlainTree /\ search = PlainSearch) /\ FSInit
  /\ (IF part = "reading" THEN TRUE ELSE file = <<>> /\ ask = [from |-> 1, to |-> Open, max |-> 0]) /\ FRInit
  /\ (IF part = "session" THEN TRUE ELSE tty = FALSE) /\ ESInit
  /\ (IF part = "lanes" THEN TRUE ELSE transport = "http") /\ RLInit
  /\ (IF part = "output" THEN TRUE ELSE output = Char("good", 1) \o Char("good", 3) \o Char("good", 1) /\ keeping = "log") /\ OPInit
  /\ UCInit

\* What stands still while one component moves.
OthersOf(p) ==
  /\ UNCHANGED part
  /\ IF p = "session" THEN TRUE ELSE UNCHANGED esvars
  /\ IF p = "upstream" THEN TRUE ELSE UNCHANGED ucvars
  /\ IF p = "lanes" THEN TRUE ELSE UNCHANGED rlvars
  /\ IF p = "reading" THEN TRUE ELSE UNCHANGED frvars
  /\ IF p = "search" THEN TRUE ELSE UNCHANGED fsvars
  /\ IF p = "patchtext" THEN TRUE ELSE UNCHANGED ptvars
  /\ IF p = "output" THEN TRUE ELSE UNCHANGED opvars

MCNext ==
  \/ part = "session" /\ OthersOf("session") /\ ESNext
  \/ part = "upstream" /\ OthersOf("upstream") /\ UCNext
  \/ part = "lanes" /\ OthersOf("lanes") /\ RLNext
  \/ part = "reading" /\ OthersOf("reading") /\ FRNext
  \/ part = "search" /\ OthersOf("search") /\ FSNext
  \/ part = "patchtext" /\ OthersOf("patchtext") /\ PTNext
  \/ part = "output" /\ OthersOf("output") /\ OPNext

\* The fairness of each: none of its steps is enabled in the initial states in
\* which the others keep it.
MCSpec == MCInit /\ [][MCNext]_mcvars /\ ESFairness /\ UCFairness /\ RLFairness

\* session.rs, upstream.rs, listener.rs: a session's process ends and its calls do, a call
\* on an upstream ends, whatever that does, and a control request is served however
\* many long ones there are.
CallsEnd == SessionsEnd /\ UpstreamEnds /\ ControlServed
=============================================================================
