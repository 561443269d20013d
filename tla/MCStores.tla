------------------------------ MODULE MCStores ------------------------------
(***************************************************************************)
(* What keeps, replaces or lists durable data, and a service's listener,   *)
(* side by side: these components share no state, so a behaviour is about  *)
(* one of them, chosen at its start, and the others stand still in one of  *)
(* their initial states.                                                   *)
(***************************************************************************)
EXTENDS ManagedPatch, HistoryArchive, AppUpgrade, TaskStore,
        ServiceActivation, AuditStore, AccessLog, Harness, PublicAccess, DesktopData, ReceiptPages,
        SkillLibrary, Listeners, GitReading, Workbench, TLC

CONSTANTS Parts,  \* the components that are explored
          r1, r2, f1, f2, t1, skill, b, conv, goal1, goal2, id1, id2, th1, th2, k1, k2,
          ws1, ws2, ws3, dom1, dom2, w1, x1, x2, v1, v2, void, d1, d2

VARIABLE part
mcvars == <<part, vars, havars, auvars, tsvars, savars, advars, alvars, hnvars, pavars,
            ddvars, rpvars, slvars, lsvars, grvars, wbvars>>

\* A patch of two files, of a task, and a patch of the second file only, which
\* comes through a Skill root's own gate; no commands.
PairTouches == r1 :> {f1, f2} @@ r2 :> {f2}
PairTask == r1 :> t1 @@ r2 :> NoTask
OtherGate == r1 :> Source @@ r2 :> skill
NoModes == [j \in {} |-> "build"]

\* Openings of a conversation and of a client without one: plain, afresh and
\* with a request that is repeated with the same or another goal, and of a task
\* by its id; updates of two tasks with two requests.
Opening(who, explicit, fresh, request, goal, raw) ==
  [owner |-> who, explicit |-> explicit, fresh |-> fresh, id |-> request, goal |-> goal,
   raw |-> raw]
Openings ==
  {Opening(conv, 0, FALSE, NoId, goal1, TRUE), Opening(conv, 0, TRUE, id1, goal2, TRUE),
   Opening(conv, 0, FALSE, id1, goal1, TRUE), Opening(Nowhere, 0, FALSE, id1, goal1, FALSE),
   Opening(Nowhere, 0, FALSE, id1, goal2, FALSE), Opening(conv, 1, FALSE, NoId, NoGoal, TRUE),
   Opening(conv, 2, FALSE, id2, goal1, TRUE)}
Updates ==
  {a \in [task : 1..2, id : {id1, id2}, expected : 0..1, update : Deltas,
          next : {"active", "completed"}, raw : BOOLEAN] :
     (a.raw <=> a.id = id2) /\ (a.task = 2 => a.id = id1)}

\* The activation of an agent that is loaded and does not run.
Activation == [name |-> "activate", handover |-> FALSE, restart |-> FALSE]

\* A command in two calls, of which the second ends it without a match; another
\* one that is no grep; a query and a call that the policy rejects.
Asked(tool, command, end, size) ==
  [tool |-> tool, command |-> command, outcome |-> end, size |-> size]
ToolCalls ==
  th1 :> {Asked("exec", k1, "running", 2)} @@
  th2 :> {Asked("poll", k1, "no_match", 1), Asked("exec", k2, "no_match", 1),
          Asked("query", k1, "ok", 1), Asked("rejected", k1, "policy", 1)}
TwoSettings == {[enabled |-> TRUE, retention |-> 2, limit |-> 1],
                [enabled |-> TRUE, retention |-> 1, limit |-> -1]}

\* Two workspaces, or one and an entry for it, stopped or running; forms that
\* change a port and the upstream servers, the members, the grant, the domains.
FirstProfile(mport, aport, members) ==
  [port |-> mport, aport |-> aport, domain |-> NoDomain, adomain |-> NoDomain, members |-> members,
   upstream |-> FALSE, grant |-> 0, auth |-> TRUE]
TwoProfiles == ws1 :> FirstProfile(2, 1, {}) @@ ws2 :> FirstProfile(4, 3, {})
AnEntry == ws1 :> FirstProfile(2, 1, {}) @@ ws2 :> FirstProfile(4, 3, {ws1})
FirstDesktops == {[profiles |-> TwoProfiles, served |-> {ws1}],
                  [profiles |-> AnEntry, served |-> {}], [profiles |-> AnEntry, served |-> {ws2}]}
FourForms == {[port |-> 5, upstream |-> TRUE], [members |-> {ws1}], [grant |-> 1],
              [domain |-> dom1, adomain |-> dom2]}

\* Two skills, of which the first is yet to be written, for automatic use or by
\* hand only; an agent reads lists and texts, two windows of the desktop its list,
\* a skill by its name, and the preferences.
AutoDraft == [name |-> 2, manual |-> FALSE, body |-> 1]
HandDraft == [name |-> 1, manual |-> TRUE, body |-> 2]
TwoDrafts == {AutoDraft, HandDraft}
OneSkill == 1 :> Missing @@ 2 :> AutoDraft
EachItsOwn == 1 :> 1 @@ 2 :> 2
ListPage(kind, next) == [kind |-> kind, automatic |-> kind = "list", next |-> next]
TextPart(f, n, next, hash) == [kind |-> "read", file |-> f, name |-> n, next |-> next, hash |-> hash]
Preference(f, on, lastSeen) == [kind |-> "prefer", file |-> f, on |-> on, expected |-> lastSeen]
SkillCalls ==
  w1 :> {ListPage("list", FALSE), ListPage("list", TRUE), TextPart(2, 0, FALSE, FALSE),
         TextPart(0, 2, FALSE, FALSE), TextPart(2, 0, TRUE, TRUE), TextPart(2, 0, TRUE, FALSE)} @@
  x1 :> {ListPage("desk", FALSE), ListPage("desk", TRUE), Preference(1, FALSE, 0), Preference(2, TRUE, 1)} @@
  x2 :> {Preference(2, FALSE, 0), TextPart(0, 2, FALSE, FALSE)}
WhoseCatalog == w1 :> "service" @@ x1 :> "desktop" @@ x2 :> "desktop"

\* The writes of two clients to Actions, two calls of a local MCP server, the write to
\* another repository next to a call without a token, and the starts that are refused.
SavedSetup(s, key, dir, readonly, children, member, approved) ==
  [service |-> s, auth |-> "token", secret |-> key, folder |-> dir, readonly |-> readonly,
   children |-> children, members |-> IF member THEN {"member"} ELSE {}, approved |-> approved]
AskFor(tool, token, where) == [tool |-> tool, token |-> token, repo |-> where]
ActionsSetup == SavedSetup("actions", TRUE, TRUE, FALSE, FALSE, FALSE, TRUE)
WriteAsk == AskFor("write", TRUE, "nothing")
Plans ==
  {<<ActionsSetup, WriteAsk, WriteAsk>>,
   <<SavedSetup("actions", FALSE, TRUE, FALSE, FALSE, FALSE, TRUE), WriteAsk, WriteAsk>>,
   <<SavedSetup("actions", TRUE, FALSE, FALSE, FALSE, FALSE, TRUE), WriteAsk, WriteAsk>>} \cup
  {<<SavedSetup("mcp", TRUE, f, r, TRUE, FALSE, TRUE), AskFor("upstream", TRUE, "nothing"), AskFor("upstream", TRUE, "nothing")>> :
     f, r \in BOOLEAN} \cup
  {<<SavedSetup("mcp", TRUE, TRUE, FALSE, FALSE, TRUE, a), AskFor("write", TRUE, "member"), AskFor("read", FALSE, "nothing")>> :
     a \in BOOLEAN}
SomeSetups == {plan[1] : plan \in Plans}
SomeAsks == {plan[2] : plan \in Plans} \cup {plan[3] : plan \in Plans}
Planned(plan) == setup = plan[1] /\ webcall = <<Unsent(plan[2]), Unsent(plan[3])>>

\* Two paths that are committed, new, changed, staged, deleted or moved, the first with
\* a line that looks like the name of a third, which has a space in it; two texts that
\* are alike; every tool, with limits that cut and others.
Tree(first, second, third) == 1 :> first @@ 2 :> second @@ 3 :> third
NoTree == Tree(NoFile, NoFile, NoFile)
Repo(ofHead, ofIndex, ofWork, old) == [head |-> ofHead, cached |-> ofIndex, work |-> ofWork, history |-> old]
TreesTo(tip) ==
  LET first == Tree(v1, NoFile, NoFile)  second == Tree(v2, v1, NoFile)
  IN <<<<NoTree, first>>, <<first, second>>, <<second, tip>>>>
TwoAlike == {<<v1, v2>>, <<v2, v1>>}
SomeRepos ==
  {Repo(r[1], r[2], r[3], TreesTo(r[1])) :
     r \in {<<Tree(v1, v1, NoFile), Tree(v1, v1, NoFile), Tree(v1, NoFile, NoFile)>>,
            <<Tree(NoFile, v1, NoFile), Tree(v1, NoFile, NoFile), Tree(v1, v1, NoFile)>>,
            <<Tree(NoFile, v1, v1), Tree(v2, NoFile, void), Tree(v2, NoFile, v1)>>}} \cup
  {Repo(NoTree, Tree(void, NoFile, NoFile), Tree(void, v1, NoFile), <<>>)}
ThirdName == 1 :> 3 @@ 2 :> 0 @@ 3 :> 0
WithTab == 1 :> 1 @@ 2 :> 2 @@ 3 :> 4
Inquiry(tool, all, both, max, from, to, ref) ==
  [tool |-> tool, untracked |-> all, unstaged |-> all, staged |-> both, max |-> max, from |-> from, to |-> to, ref |-> ref]
SomeInquiries ==
  {Inquiry("status", all, FALSE, n, 1, 0, "HEAD") : all \in BOOLEAN, n \in 1..2} \cup
  {Inquiry("diff", a[1], a[2], a[3], 1, 0, "HEAD") : a \in {<<TRUE, TRUE, 9>>, <<TRUE, TRUE, 1>>, <<FALSE, TRUE, 4>>}} \cup
  {Inquiry("log", FALSE, FALSE, 2, 1, 0, r) : r \in {"HEAD", "bad"}} \cup
  {Inquiry("show", TRUE, FALSE, 2, 1, 0, r) : r \in {"HEAD", "bad"}} \cup
  {Inquiry("blame", FALSE, FALSE, a[1], a[2], a[3], a[4]) :
     a \in {<<1, 1, 2, "HEAD">>, <<1, 2, 0, "HEAD">>, <<1, 2, 1, "HEAD">>, <<3, 2, 3, "HEAD">>, <<3, 1, 1, "unknown">>}}

\* Three workspaces of two directories, and tasks that were written at the same time.
EveryOther == 1 :> d1 @@ 2 :> d2 @@ 3 :> d1
TaskRow(state) == [state |-> state, changed |-> 1, live |-> "none", jobAt |-> 0, passed |-> 0, failed |-> 0]
SomeRows == {d1 :> (1 :> TaskRow("active") @@ 2 :> TaskRow("active")) @@
             d2 :> (1 :> TaskRow("active") @@ 2 :> TaskRow("completed"))}

MCInit ==
  /\ part \in Parts
  /\ SLInit
  /\ (IF part = "listeners" THEN \E plan \in Plans : Planned(plan) ELSE Planned(<<ActionsSetup, WriteAsk, WriteAsk>>)) /\ LSInit
  /\ RPInit /\ (part # "receipts" => journal = {} /\ \A r \in Patches : proof[r] = "none")
  /\ Init /\ HAInit /\ TSInit
  /\ AUInit /\ (part # "upgrade" => target = b /\ source = b)
  /\ SAInit /\ (part # "activation" => script = Activation /\ listener = None /\ loaded
                                       /\ plist = "ours")
  /\ ADInit /\ (part # "audit" => saved.retention = 2)
  /\ ALInit /\ (part # "access" => keep = 0 /\ logging)
  /\ HNInit /\ PAInit
  /\ GRInit /\ (part # "git" => history = <<>> /\ health = "repo") /\ WBInit
  /\ DDInit /\ (part # "desktop" => served = [w \in Workspaces |-> NotServed])

\* What tells the states of a behaviour apart: the variables of its component,
\* the others keep the initial values that MCInit gives them for it.
ActiveState ==
  <<part, CASE part = "patches" -> vars [] part = "archive" -> havars
            [] part = "upgrade" -> auvars [] part = "tasks" -> tsvars
            [] part = "activation" -> savars [] part = "audit" -> advars [] part = "access" -> alvars
            [] part = "harness" -> hnvars [] part = "public" -> pavars
            [] part = "desktop" -> ddvars [] part = "receipts" -> rpvars
            [] part = "skills" -> slvars [] part = "listeners" -> lsvars
            [] part = "git" -> grvars [] part = "tasklist" -> wbvars>>

\* What stands still while one component moves.
OthersOf(p) ==
  /\ UNCHANGED part
  /\ IF p = "patches" THEN TRUE ELSE UNCHANGED vars
  /\ IF p = "archive" THEN TRUE ELSE UNCHANGED havars
  /\ IF p = "upgrade" THEN TRUE ELSE UNCHANGED auvars
  /\ IF p = "tasks" THEN TRUE ELSE UNCHANGED tsvars
  /\ IF p = "activation" THEN TRUE ELSE UNCHANGED savars
  /\ IF p = "audit" THEN TRUE ELSE UNCHANGED advars
  /\ IF p = "access" THEN TRUE ELSE UNCHANGED alvars
  /\ IF p = "harness" THEN TRUE ELSE UNCHANGED hnvars
  /\ IF p = "public" THEN TRUE ELSE UNCHANGED pavars
  /\ IF p = "desktop" THEN TRUE ELSE UNCHANGED ddvars
  /\ IF p = "receipts" THEN TRUE ELSE UNCHANGED rpvars
  /\ IF p = "skills" THEN TRUE ELSE UNCHANGED slvars
  /\ IF p = "listeners" THEN TRUE ELSE UNCHANGED lsvars
  /\ IF p = "git" THEN TRUE ELSE UNCHANGED grvars
  /\ IF p = "tasklist" THEN TRUE ELSE UNCHANGED wbvars

MCNext ==
  \/ part = "patches" /\ OthersOf("patches") /\ Next
  \/ part = "archive" /\ OthersOf("archive") /\ HANext
  \/ part = "upgrade" /\ OthersOf("upgrade") /\ AUNext
  \/ part = "tasks" /\ OthersOf("tasks") /\ TSNext
  \/ part = "activation" /\ OthersOf("activation") /\ SANext
  \/ part = "audit" /\ OthersOf("audit") /\ ADNext
  \/ part = "access" /\ OthersOf("access") /\ ALNext
  \/ part = "harness" /\ OthersOf("harness") /\ HNNext
  \/ part = "public" /\ OthersOf("public") /\ PANext
  \/ part = "desktop" /\ OthersOf("desktop") /\ DDNext
  \/ part = "receipts" /\ OthersOf("receipts") /\ RPNext
  \/ part = "skills" /\ OthersOf("skills") /\ SLNext
  \/ part = "listeners" /\ OthersOf("listeners") /\ LSNext
  \/ part = "git" /\ OthersOf("git") /\ GRNext
  \/ part = "tasklist" /\ OthersOf("tasklist") /\ WBNext

MCSpec == MCInit /\ [][MCNext]_mcvars
=============================================================================
