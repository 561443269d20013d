---------------------------- MODULE DesktopData ----------------------------
(***************************************************************************)
(* The desktop application's saved data (data/store.rs, migrate.rs): a     *)
(* copy in memory behind one mutex, saved whole after every change, and    *)
(* the file, which services read and write for themselves                  *)
(* (secret/keyring_store.rs).  The commands on workspaces, secrets and FRP *)
(* servers (commands/workspace.rs, secrets.rs, frp_profiles.rs) change it  *)
(* in steps, between which other commands run; ports and subdomains must   *)
(* stay distinct (workspace/resources.rs), and what a shared entry serves  *)
(* must be what is saved (mcp/gateway.rs).                                 *)
(*                                                                         *)
(* A workspace's grant stands for its path, permissions and profile.  Of   *)
(* the seven secrets of a workspace there are the owner's and the Actions  *)
(* one; a subdomain that no FRP tunnel uses is none.                       *)
(***************************************************************************)
EXTENDS Integers, Sequences

CONSTANTS Deskers,      \* concurrent commands
          Workspaces,
          Beginnings,   \* profiles at the start, and which of their MCPs run: [profiles, served]
          NoSecrets,    \* those of an older version, without secrets of their own
          Forms,        \* what a form changes: some fields of a profile
          NoDomain, TornFile, NotServed,
          PortMcp, PortActions, LastPort, \* preferred ports, and the last one
          MaxCommands, MaxMishaps \* bounds: commands; saves that fail or are cut off by an end

ASSUME DesktopAssumption ==
  /\ NoSecrets \subseteq Workspaces
  /\ \A b \in Beginnings : b.served \subseteq DOMAIN b.profiles /\ DOMAIN b.profiles \subseteq Workspaces
  /\ \A e \in Forms : "port" \in DOMAIN e => e["port"] \in 1..LastPort
  /\ {PortMcp, PortActions} \subseteq 1..LastPort /\ LastPort \in Nat
  /\ {MaxCommands, MaxMishaps} \subseteq Nat

SecretKeys == {"mcp", "actions"}

VARIABLES
  held,     \* AppData: profiles, secrets of workspaces, FRP server and its token
  onDisk,   \* data/profiles.json, or TornFile
  alive,    \* the application runs
  served,   \* of a workspace: what its MCP listener was started with
  desk,     \* of a command: where it stands
  commands, saveErrors, deaths, \* how many there were
  unsaved,  \* the last save failed
  aside,    \* a service wrote the file behind the application's back
  undone,   \* an update was taken back
  raced     \* a workspace changed or went in a window another command had left open

ddvars == <<held, onDisk, alive, served, desk, commands, saveErrors, deaths, unsaved, aside,
            undone, raced>>
ghosts == <<aside, undone, raced>>

DeskIdle == [at |-> "idle"]

\* What is saved, and a profile or the secrets of one workspace put into it.
Data(profiles, secrets, frp, token) ==
  [profiles |-> profiles, secrets |-> secrets, frp |-> frp, token |-> token]
WithEntry(f, w, v) == [x \in DOMAIN f \cup {w} |-> IF x = w THEN v ELSE f[x]]
WithoutEntry(f, w) == [x \in DOMAIN f \ {w} |-> f[x]]
WithSecret(data, w, key) ==
  LET old == IF w \in DOMAIN data.secrets THEN data.secrets[w] ELSE {}
  IN Data(data.profiles, WithEntry(data.secrets, w, old \cup {key}), data.frp, data.token)
WithProfile(data, w, p) ==
  Data(WithEntry(data.profiles, w, p), data.secrets, data.frp, data.token)

DDInit ==
  /\ \E b \in Beginnings :
       /\ held = Data(b.profiles,
                      [w \in DOMAIN b.profiles |-> IF w \in NoSecrets THEN {} ELSE SecretKeys],
                      FALSE, FALSE)
       /\ served = [w \in Workspaces |->
            IF w \in b.served
            THEN [profile |-> b.profiles[w], members |-> [m \in b.profiles[w].members |-> b.profiles[m]]]
            ELSE NotServed]
  /\ onDisk = held /\ alive = TRUE
  /\ desk = [c \in Deskers |-> DeskIdle]
  /\ commands = 0 /\ saveErrors = 0 /\ deaths = 0
  /\ unsaved = FALSE /\ aside = FALSE /\ undone = FALSE /\ raced = FALSE

Profiles == held.profiles
Listening(w) == served[w] # NotServed

-----------------------------------------------------------------------------
(* Rules.                                                                  *)

\* service_claims, as [service, port, domain].
Claims(p) == {[service |-> "mcp", port |-> p.port, domain |-> p.domain],
              [service |-> "actions", port |-> p.aport, domain |-> p.adomain]}
Conflict(a, b) == a.port = b.port \/ (a.domain = b.domain /\ a.domain # NoDomain)
ClaimsOfOthers(profiles, w) == UNION {Claims(profiles[v]) : v \in DOMAIN profiles \ {w}}

\* What the application starts from is what it could have saved.
NoClash(profiles) ==
  \A v, w \in DOMAIN profiles : \A a \in Claims(profiles[v]), b \in Claims(profiles[w]) :
    <<v, a>> # <<w, b>> => ~Conflict(a, b)
MembersKnown(profiles) == \A h \in DOMAIN profiles : profiles[h].members \subseteq DOMAIN profiles
PortsTyped(profiles) == \A w \in DOMAIN profiles : profiles[w].port \in 1..LastPort

ASSUME BeginningsAssumption ==
  \A b \in Beginnings : NoClash(b.profiles) /\ MembersKnown(b.profiles) /\ PortsTyped(b.profiles)

\* validate_workspace_resources_update: only what changes must be free.
ResourcesFree(w, current, next) ==
  \A a \in Claims(next) \ Claims(current) :
    \A b \in ClaimsOfOthers(Profiles, w) \cup (Claims(next) \ {a}) : ~Conflict(a, b)

\* validate_service_start, of the MCP.
MayStart(w) ==
  \A a \in Claims(Profiles[w]) : a.service = "mcp" =>
    \A b \in ClaimsOfOthers(Profiles, w) \cup (Claims(Profiles[w]) \ {a}) : ~Conflict(a, b)

\* next_free_port: the preferred port or the first one above it.
FreePort(from, taken) ==
  LET free == (from..LastPort) \ taken
  IN IF free = {} THEN 0 ELSE CHOOSE n \in free : \A o \in free : n <= o

\* validate_members: an entry for several workspaces.
ValidMembers(profiles, host) ==
  LET p == profiles[host]
  IN p.members # {} =>
       /\ p.auth /\ ~p.upstream
       /\ host \notin p.members
       /\ \A m \in p.members : m \in DOMAIN profiles /\ ~profiles[m].upstream

Sensitive(p) == <<p.port, p.members, p.upstream, p.grant, p.auth>>

\* validate_update, with the services that ran a moment ago.
GatewayAllows(w, current, next, ran) ==
  LET updated == [Profiles EXCEPT ![w] = next]
  IN /\ Sensitive(current) # Sensitive(next) =>
          \A h \in ran \cap DOMAIN Profiles :
            /\ w \notin Profiles[h].members
            /\ h = w => current.members = {} /\ next.members = {}
     /\ \A h \in DOMAIN updated :
          h = w \/ w \in updated[h].members => ValidMembers(updated, h)

-----------------------------------------------------------------------------
(* Saving.                                                                 *)

\* Contents that are saved one after the other under the mutex: the change in
\* memory comes first, so a save that fails leaves it there, and the file as it
\* was or cut off (fs::write); the application may die between two saves.
SaveAll(s) ==
  \E k \in 1..Len(s) :
    LET before == IF k = 1 THEN onDisk ELSE s[k - 1] IN
    \/ /\ k = Len(s) /\ held' = s[k] /\ onDisk' = s[k] /\ unsaved' = FALSE
       /\ UNCHANGED <<alive, saveErrors, deaths>>
    \/ /\ saveErrors + deaths < MaxMishaps /\ saveErrors' = saveErrors + 1
       /\ held' = s[k] /\ onDisk' \in {before, TornFile} /\ unsaved' = TRUE
       /\ UNCHANGED <<alive, deaths>>
    \/ /\ saveErrors + deaths < MaxMishaps /\ deaths' = deaths + 1
       /\ alive' = FALSE /\ onDisk' \in {before, TornFile}
       /\ UNCHANGED <<held, saveErrors, unsaved>>

Done(c) == desk' = [desk EXCEPT ![c] = DeskIdle]
StayAt(c, d) == desk' = [desk EXCEPT ![c] = d]
Begin(c) == /\ alive /\ desk[c].at = "idle" /\ commands < MaxCommands
            /\ commands' = commands + 1
StillAt(c, at) == alive /\ desk[c].at = at
NothingSaved == UNCHANGED <<held, onDisk, alive, saveErrors, deaths, unsaved>>
\* A save that did not end the command with an error, in this step.
SaveWorked == alive' /\ ~unsaved'

\* The next start of the application reads the file, which must be whole.
Reopen ==
  /\ ~alive /\ onDisk # TornFile
  /\ alive' = TRUE /\ held' = onDisk /\ unsaved' = FALSE
  /\ desk' = [c \in Deskers |-> DeskIdle]
  /\ served' = [w \in Workspaces |-> NotServed]
  /\ UNCHANGED <<onDisk, commands, saveErrors, deaths, ghosts>>

\* SecretStore::regenerate, when the Actions of an old workspace start: the file
\* is read, completed and written.
ServiceSecret(w) ==
  /\ alive /\ onDisk # TornFile /\ w \in DOMAIN onDisk.profiles
  /\ "actions" \notin onDisk.secrets[w]
  /\ onDisk' = WithSecret(onDisk, w, "actions")
  /\ aside' = TRUE
  /\ UNCHANGED <<held, alive, served, desk, commands, saveErrors, deaths, unsaved, undone, raced>>

-----------------------------------------------------------------------------
(* Workspaces.                                                             *)

\* Mutant: the workspace comes first, its secrets after it.
CreateLate(c, w) ==
  LET taken == {a.port : a \in ClaimsOfOthers(Profiles, w)}
      port == FreePort(PortMcp, taken)
      p == [port |-> port, aport |-> FreePort(PortActions, taken \cup {port}), domain |-> NoDomain,
            adomain |-> NoDomain, members |-> {}, upstream |-> FALSE, grant |-> 0, auth |-> TRUE]
      one == WithProfile(held, w, p)
      two == WithSecret(one, w, "mcp")
  IN /\ Begin(c) /\ w \notin DOMAIN Profiles \cup DOMAIN held.secrets
     /\ SaveAll(<<one, two, WithSecret(two, w, "actions")>>)
     /\ UNCHANGED <<served, desk, ghosts>>

\* create_workspace: free ports, the secrets one by one, then the profile.
Create(c, w) ==
  LET taken == {a.port : a \in ClaimsOfOthers(Profiles, w)}
      port == FreePort(PortMcp, taken)
      aport == FreePort(PortActions, taken \cup {port})
      p == [port |-> port, aport |-> aport, domain |-> NoDomain, adomain |-> NoDomain,
            members |-> {}, upstream |-> FALSE, grant |-> 0, auth |-> TRUE]
      one == WithSecret(held, w, "mcp")
      two == WithSecret(one, w, "actions")
  IN /\ Begin(c) /\ w \notin DOMAIN Profiles \cup DOMAIN held.secrets
     /\ IF port = 0 \/ aport = 0 THEN NothingSaved
        ELSE SaveAll(<<one, two, WithProfile(two, w, p)>>)
     /\ UNCHANGED <<served, desk, ghosts>>

Given(e, field, old) == IF field \in DOMAIN e THEN e[field] ELSE old
FilledIn(p, e) ==
  [port |-> Given(e, "port", p.port), aport |-> Given(e, "aport", p.aport),
   domain |-> Given(e, "domain", p.domain), adomain |-> Given(e, "adomain", p.adomain),
   members |-> Given(e, "members", p.members), upstream |-> Given(e, "upstream", p.upstream),
   grant |-> Given(e, "grant", p.grant), auth |-> Given(e, "auth", p.auth)]

\* update_workspace begins with the form of a profile and what runs now.
BeginUpdate(c, w, e) ==
  /\ Begin(c) /\ w \in DOMAIN Profiles
  /\ StayAt(c, [at |-> "store", w |-> w, next |-> FilledIn(Profiles[w], e),
              ran |-> {h \in DOMAIN Profiles : Listening(h)}])
  /\ NothingSaved /\ UNCHANGED <<served, ghosts>>

\* Under the mutex: the checks, and the new profile.
StoreUpdate(c) ==
  LET d == desk[c]
      current == Profiles[d.w]
  IN /\ StillAt(c, "store")
     /\ IF d.w \in DOMAIN Profiles /\ ResourcesFree(d.w, current, d.next)
           /\ GatewayAllows(d.w, current, d.next, d.ran)
        THEN /\ SaveAll(<<WithProfile(held, d.w, d.next)>>)
             /\ raced' = (raced \/ d.ran # {h \in DOMAIN Profiles : Listening(h)}
                            \/ \E o \in Deskers \ {c} :
                                 desk[o].at \in {"serve", "stop", "remove", "again"})
             /\ IF SaveWorked /\ current.upstream # d.next.upstream
                THEN StayAt(c, [at |-> "running", w |-> d.w, current |-> current])
                ELSE Done(c)
        ELSE NothingSaved /\ Done(c) /\ UNCHANGED raced
     /\ UNCHANGED <<served, commands, aside, undone>>

\* One restart at a time, from its stop to the end of its start.
GateFree(c) ==
  \A o \in Deskers \ {c} :
    desk[o].at # "again" /\ (desk[o].at = "serve" => desk[o].why.at = "idle")

\* A change of upstream servers restarts a service that runs: it stops, ...
StopForUpdate(c) ==
  LET d == desk[c]
  IN /\ StillAt(c, "running") /\ GateFree(c)
     /\ IF Listening(d.w)
        THEN served' = [served EXCEPT ![d.w] = NotServed] /\ StayAt(c, [d EXCEPT !.at = "again"])
        ELSE UNCHANGED served /\ Done(c)
     /\ NothingSaved /\ UNCHANGED <<commands, ghosts>>

\* start_mcp_service, up to its slow part: the rules, and the profile as it is.
BeginStart(c, w, why) ==
  /\ IF w \in DOMAIN Profiles /\ MayStart(w) /\ ~Listening(w)
     THEN StayAt(c, [at |-> "serve", w |-> w, profile |-> Profiles[w], why |-> why])
     ELSE IF why.at = "again" THEN StayAt(c, [why EXCEPT !.at = "back"]) ELSE Done(c)
  /\ NothingSaved /\ UNCHANGED <<served, ghosts>>

StartWorkspace(c, w) == Begin(c) /\ BeginStart(c, w, DeskIdle)

StartAgain(c) ==
  /\ StillAt(c, "again") /\ BeginStart(c, desk[c].w, desk[c]) /\ UNCHANGED commands

\* The listener comes up, or does not: the port is taken, an upstream server does
\* not answer; WorkspaceHub::load reads the members from the file.
ServeProfile(c) ==
  LET d == desk[c]
      valid == d.profile.members # {} =>
                 /\ onDisk # TornFile
                 /\ d.w \in DOMAIN onDisk.profiles
                 /\ ValidMembers(WithEntry(onDisk.profiles, d.w, d.profile), d.w)
  IN /\ StillAt(c, "serve")
     /\ \/ /\ valid /\ ~Listening(d.w)
           /\ \A h \in Workspaces : Listening(h) => served[h].profile.port # d.profile.port
           /\ served' = [served EXCEPT ![d.w] =
                [profile |-> d.profile,
                 members |-> [m \in d.profile.members |-> onDisk.profiles[m]]]]
           /\ Done(c)
        \/ /\ UNCHANGED served
           /\ IF Listening(d.w) \/ d.why.at # "again" THEN Done(c) ELSE StayAt(c, [d.why EXCEPT !.at = "back"])
     /\ NothingSaved /\ UNCHANGED <<commands, ghosts>>

\* The profile from before the update is stored again, as it was, without the
\* checks; then one more start, whose end is not looked at.
TakeBack(c) ==
  LET d == desk[c]
  IN /\ StillAt(c, "back")
     /\ IF d.w \in DOMAIN Profiles
        THEN /\ SaveAll(<<WithProfile(held, d.w, d.current)>>) /\ undone' = TRUE
             /\ IF SaveWorked THEN StayAt(c, [at |-> "once more", w |-> d.w]) ELSE Done(c)
        ELSE NothingSaved /\ Done(c) /\ UNCHANGED undone
     /\ UNCHANGED <<served, commands, aside, raced>>

StartOnceMore(c) ==
  /\ StillAt(c, "once more") /\ GateFree(c)
  /\ BeginStart(c, desk[c].w, desk[c]) /\ UNCHANGED commands

StopWorkspace(c, w) ==
  /\ Begin(c) /\ Listening(w)
  /\ served' = [served EXCEPT ![w] = NotServed]
  /\ NothingSaved /\ UNCHANGED <<desk, ghosts>>

\* delete_workspace: not while an entry refers to it; then its services are
\* stopped, and it is removed with its secrets.
BeginDelete(c, w) ==
  /\ Begin(c) /\ w \in DOMAIN Profiles
  /\ \A h \in DOMAIN Profiles : w \notin Profiles[h].members
  /\ StayAt(c, [at |-> "stop", w |-> w])
  /\ NothingSaved /\ UNCHANGED <<served, ghosts>>

StopForDelete(c) ==
  /\ StillAt(c, "stop")
  /\ served' = [served EXCEPT ![desk[c].w] = NotServed]
  /\ StayAt(c, [desk[c] EXCEPT !.at = "remove"])
  /\ NothingSaved /\ UNCHANGED <<commands, ghosts>>

RemoveWorkspace(c) ==
  LET w == desk[c].w
      gone == Data(WithoutEntry(Profiles, w), WithoutEntry(held.secrets, w), held.frp, held.token)
  IN /\ StillAt(c, "remove")
     /\ IF w \in DOMAIN Profiles
        THEN /\ SaveAll(<<gone, gone>>)
             /\ raced' = (raced \/ Listening(w) \/ (\E h \in DOMAIN Profiles : w \in Profiles[h].members)
                            \/ \E o \in Deskers \ {c} : desk[o].at = "serve")
        ELSE NothingSaved /\ UNCHANGED raced
     /\ Done(c) /\ UNCHANGED <<served, commands, aside, undone>>

-----------------------------------------------------------------------------
(* Secrets and FRP servers.                                                *)

\* set_workspace_secret: the workspace must exist, under one hold of the mutex;
\* the value is stored under the next.
BeginSecret(c, w, key) ==
  /\ Begin(c) /\ w \in DOMAIN Profiles
  /\ StayAt(c, [at |-> "secret", w |-> w, key |-> key])
  /\ NothingSaved /\ UNCHANGED <<served, ghosts>>

StoreSecret(c) ==
  /\ StillAt(c, "secret")
  /\ SaveAll(<<WithSecret(held, desk[c].w, desk[c].key)>>)
  /\ Done(c) /\ UNCHANGED <<served, commands, ghosts>>

\* save_frp_profile and delete_frp_profile: the server, then its token.
SaveFrp(c) ==
  /\ Begin(c)
  /\ SaveAll(<<Data(Profiles, held.secrets, TRUE, held.token), Data(Profiles, held.secrets, TRUE, TRUE)>>)
  /\ UNCHANGED <<served, desk, ghosts>>

DeleteFrp(c) ==
  /\ Begin(c) /\ held.frp
  /\ SaveAll(<<Data(Profiles, held.secrets, FALSE, held.token), Data(Profiles, held.secrets, FALSE, FALSE)>>)
  /\ UNCHANGED <<served, desk, ghosts>>

DDNext ==
  \/ Reopen
  \/ \E w \in Workspaces : ServiceSecret(w)
  \/ \E c \in Deskers :
       \/ \E w \in Workspaces :
            \/ Create(c, w) \/ StartWorkspace(c, w) \/ StopWorkspace(c, w) \/ BeginDelete(c, w)
            \/ \E e \in Forms : BeginUpdate(c, w, e)
            \/ \E key \in SecretKeys : BeginSecret(c, w, key)
       \/ StoreUpdate(c) \/ StopForUpdate(c) \/ StartAgain(c) \/ ServeProfile(c) \/ TakeBack(c)
       \/ StartOnceMore(c) \/ StopForDelete(c) \/ RemoveWorkspace(c) \/ StoreSecret(c)
       \/ SaveFrp(c) \/ DeleteFrp(c)

DDSpec == DDInit /\ [][DDNext]_ddvars

-----------------------------------------------------------------------------
(* Properties.                                                             *)

\* The file holds what the application holds, unless the last save failed or a
\* service wrote the file for itself.
FileFollows == alive => onDisk = held \/ unsaved \/ aside

\* A workspace that the application knows has all its secrets, also after a
\* creation that failed or was cut off.
SecretsComplete ==
  \A w \in DOMAIN Profiles \ NoSecrets :
    w \in DOMAIN held.secrets /\ held.secrets[w] = SecretKeys

\* No two services share a port or a subdomain, but for an update taken back
\* after another workspace was given what it had.
ResourcesDistinct == undone \/ NoClash(Profiles)

\* The members of an entry exist, and what a running entry serves is what is
\* saved, unless a start or a deletion fell into the steps of an update, an update
\* was taken back, or a save failed (the members are read from the file).
EntriesTrue ==
  \/ raced \/ undone \/ saveErrors > 0 \/ ~alive
  \/ /\ MembersKnown(Profiles)
     /\ \A h \in Workspaces : Listening(h) /\ served[h].profile.members # {} =>
          /\ h \in DOMAIN Profiles
          /\ Sensitive(served[h].profile) = Sensitive(Profiles[h])
          /\ \A m \in served[h].profile.members :
               Sensitive(served[h].members[m]) = Sensitive(Profiles[m])

\* A token belongs to a server, unless saving failed in between.
TokenOwned == held.token => held.frp \/ saveErrors + deaths > 0

\* Types, and the five above: store.rs:31-230, workspace.rs:27-160, secrets.rs:57-66,
\* frp_profiles.rs and gateway.rs:17-78, whatever fails, dies or runs beside.
DesktopInv ==
  /\ DOMAIN Profiles \subseteq Workspaces /\ PortsTyped(Profiles)
  /\ FileFollows /\ SecretsComplete /\ ResourcesDistinct /\ EntriesTrue /\ TokenOwned
=============================================================================
