--------------------------- MODULE PublicAccess ---------------------------
(***************************************************************************)
(* How a client reaches a service from outside and is let in: a quick      *)
(* Cloudflare tunnel, whose every process gets a URL of its own            *)
(* (tunnel/cloudflare.rs, tunnel/supervisor.rs), the URL that is saved in  *)
(* the profile and read by the next start of the listener, and the OAuth   *)
(* code flow of the listener (auth/oauth_flow.rs), whose secrets may be    *)
(* replaced while it runs: with a restart that is scheduled, or without    *)
(* one (commands/secrets.rs, commands/workspace.rs).                       *)
(*                                                                         *)
(* One command runs at a time; how the commands of several services        *)
(* interleave is ServiceTunnels.  A client stands for its id, its          *)
(* redirect URI and its code verifier; passwords, token secrets and URLs   *)
(* are numbered, and URL 0 is none.  A tunnel's process outlives the       *)
(* application, and one whose URL comes too late is not known to it.       *)
(***************************************************************************)
EXTENDS Integers, FiniteSets

CONSTANTS Visitors,
          CodeTtl, TokenTtl,
          LastTick, MaxUrls, MaxCodes, MaxRenewals, MaxListeners \* bounds

ASSUME PublicAssumption ==
  {CodeTtl, TokenTtl, LastTick, MaxUrls, MaxCodes, MaxRenewals, MaxListeners} \subseteq Nat

NoUrl == 0
Down == [number |-> 0, password |-> 0, secret |-> 0, base |-> NoUrl]

VARIABLES
  kept,      \* the saved settings: [password, secret, url]
  service,   \* the listener's settings, read when it started, or Down
  opening,   \* a start waits for its tunnel
  session,   \* the URL of the tunnel the supervisor knows, or NoUrl
  living,    \* the URLs of the tunnel processes that run
  lost,      \* how often a process was left behind
  made,      \* how often a password or token secret was replaced
  due,       \* a restart after a new secret has been scheduled
  silent,    \* secrets were saved without that, since the listener started
  pending,   \* the listener's authorization codes
  exchanges, \* of a visitor: the code it took from them, or none
  granted,   \* every authorization: [code, visitor, at, number, password, base]
  tokens,    \* every token: [nth, code, visitor, at, number, secret, url]
  urls, listeners, tick  \* how many of each there were

pavars == <<kept, made, service, opening, session, living, lost, due, silent, pending, exchanges,
            granted, tokens, urls, listeners, tick>>
renewal == <<made, due, silent>>
settings == <<kept, renewal>>
tunnels == <<session, living, lost, urls>>
oauth == <<pending, exchanges, granted, tokens>>

NoCode == [code |-> 0]

PAInit ==
  /\ kept = [password |-> 0, secret |-> 0, url |-> NoUrl]
  /\ service = Down /\ opening = FALSE /\ session = NoUrl /\ living = {} /\ lost = 0
  /\ made = 0 /\ due = FALSE /\ silent = FALSE
  /\ pending = {} /\ exchanges = [v \in Visitors |-> NoCode]
  /\ granted = {} /\ tokens = {} /\ urls = 0 /\ listeners = 0 /\ tick = 0

NotStarting == ~opening

-----------------------------------------------------------------------------
(* The tunnel.  Opening it takes a process that is known and alive, or     *)
(* starts one: its URL comes in time, comes too late, or the process ends. *)

Saved(url) == kept' = IF url = NoUrl THEN kept ELSE [kept EXCEPT !.url = url]

InTime ==
  /\ urls < MaxUrls /\ urls' = urls + 1
  /\ session' = urls' /\ living' = living \cup {urls'}
  /\ UNCHANGED lost

TooLate ==
  /\ urls < MaxUrls /\ urls' = urls + 1
  /\ living' = living \cup {urls'} /\ lost' = lost + 1
  /\ UNCHANGED session

Fails == UNCHANGED tunnels

\* With the answer's URL: none when it fails.
OpenTunnel ==
  IF session \in living THEN UNCHANGED tunnels /\ Saved(session)
  ELSE \/ InTime /\ Saved(session')
       \/ (TooLate \/ Fails) /\ Saved(NoUrl)

\* The supervisor kills the process it knows.
Killed == living \ {session}
CloseTunnel ==
  /\ session' = NoUrl /\ living' = Killed /\ UNCHANGED <<lost, urls>>

StartTunnel ==
  /\ NotStarting /\ OpenTunnel
  /\ UNCHANGED <<service, opening, renewal, oauth, listeners, tick>>

StopTunnel ==
  /\ NotStarting /\ CloseTunnel
  /\ UNCHANGED <<settings, service, opening, oauth, listeners, tick>>

\* test_tunnel: closed and opened again; kept, and its URL saved, only when
\* something listens on the service's port.
TestTunnel ==
  /\ NotStarting
  /\ \/ /\ urls < MaxUrls /\ urls' = urls + 1
        /\ \/ /\ service # Down
              /\ session' = urls' /\ living' = Killed \cup {urls'} /\ UNCHANGED lost
              /\ Saved(urls')
           \/ /\ service = Down
              /\ session' = NoUrl /\ living' = Killed /\ UNCHANGED <<lost, kept>>
           \/ /\ session' = NoUrl /\ living' = Killed \cup {urls'} /\ lost' = lost + 1
              /\ UNCHANGED kept
     \/ CloseTunnel /\ UNCHANGED kept
  /\ UNCHANGED <<service, opening, renewal, oauth, listeners, tick>>

TunnelDies ==
  /\ \E u \in living : living' = living \ {u}
  /\ UNCHANGED <<settings, service, opening, session, lost, oauth, urls, listeners, tick>>

-----------------------------------------------------------------------------
(* The listener, with the settings that are saved when it starts.          *)

Listen ==
  /\ listeners < MaxListeners /\ listeners' = listeners + 1
  /\ service' = [number |-> listeners', password |-> kept.password, secret |-> kept.secret,
                 base |-> kept.url]
  /\ pending' = {} /\ opening' = TRUE /\ silent' = FALSE

StartService ==
  /\ NotStarting /\ service = Down /\ Listen
  /\ UNCHANGED <<kept, made, due, tunnels, exchanges, granted, tokens, tick>>

\* The rest of a start: a tunnel that does not come is only logged.
FinishStart ==
  /\ opening /\ opening' = FALSE /\ OpenTunnel
  /\ UNCHANGED <<service, renewal, oauth, listeners, tick>>

StopService ==
  /\ NotStarting /\ service # Down
  /\ service' = Down /\ pending' = {} /\ CloseTunnel
  /\ UNCHANGED <<settings, opening, exchanges, granted, tokens, listeners, tick>>

\* Another password or token secret is saved: a new one or an earlier one.
SecretChosen ==
  \E n \in 0..made + 1 :
    /\ made < MaxRenewals /\ made' = made + 1
    /\ kept' = [kept EXCEPT !.password = n] \/ kept' = [kept EXCEPT !.secret = n]

\* By a regeneration, or as a shared one: a restart is scheduled.
Regenerate ==
  /\ SecretChosen /\ due' = TRUE
  /\ UNCHANGED <<silent, service, opening, tunnels, oauth, listeners, tick>>

\* By set_workspace_secret, or by a profile that changes between its own secrets
\* and the shared ones: no restart is.
SetSecret ==
  /\ SecretChosen /\ silent' = TRUE
  /\ UNCHANGED <<due, service, opening, tunnels, oauth, listeners, tick>>

\* It finds the service running, stops and starts it; or not running.  What fails
\* is only logged: the start, or, when the listener is gone, the rest of the stop.
ScheduledRestart ==
  /\ due /\ NotStarting /\ due' = FALSE
  /\ \/ service = Down /\ UNCHANGED <<service, opening, pending, silent, listeners, tunnels>>
     \/ service # Down /\ Listen /\ CloseTunnel
     \/ /\ service # Down /\ service' = Down /\ pending' = {}
        /\ CloseTunnel \/ UNCHANGED tunnels
        /\ UNCHANGED <<opening, silent, listeners>>
  /\ UNCHANGED <<kept, made, exchanges, granted, tokens, tick>>

\* The process ends: the tunnel's goes on.
ApplicationEnds ==
  /\ service # Down
  /\ service' = Down /\ opening' = FALSE /\ due' = FALSE /\ session' = NoUrl
  /\ lost' = lost + Cardinality({session} \cap living)
  /\ pending' = {} /\ exchanges' = [v \in Visitors |-> NoCode]
  /\ UNCHANGED <<kept, made, silent, living, granted, tokens, urls, listeners, tick>>

-----------------------------------------------------------------------------
(* The code flow.  Requests come through any tunnel process that runs, or  *)
(* locally (host 0).                                                       *)

Hosts == living \cup {NoUrl}
\* external_base_url: the URL the listener started with, before the request's.
Base(host) == IF service.base # NoUrl THEN service.base ELSE host

\* authorize_post with the password the visitor knows, which may be an old one.
Authorize(v) ==
  \E host \in Hosts, password \in 0..made :
    LET code == Cardinality(granted) + 1
        grant == [code |-> code, visitor |-> v, at |-> tick, number |-> service.number,
                  password |-> password, base |-> Base(host)]
    IN /\ service # Down /\ password = service.password /\ code <= MaxCodes
       /\ pending' = {c \in pending : tick <= c.at + CodeTtl} \cup {grant}
       /\ granted' = granted \cup {grant}
       /\ UNCHANGED <<settings, service, opening, tunnels, exchanges, tokens, listeners, tick>>

\* Mutant: the code is removed only when it has been judged.
LookAtCode(v) ==
  \E c \in pending :
    /\ service # Down /\ exchanges[v] = NoCode
    /\ exchanges' = [exchanges EXCEPT ![v] = c]
    /\ UNCHANGED <<settings, service, opening, tunnels, pending, granted, tokens, listeners,
                   tick>>

\* token_exchange, up to the removal of the code under the lock.
TakeCode(v) ==
  \E c \in pending :
    /\ service # Down /\ exchanges[v] = NoCode
    /\ pending' = pending \ {c}
    /\ exchanges' = [exchanges EXCEPT ![v] = c]
    /\ UNCHANGED <<settings, service, opening, tunnels, granted, tokens, listeners, tick>>

\* Its rest: expired, or another visitor's, the code is spent all the same.
JudgeCode(v) ==
  LET c == exchanges[v]
  IN /\ c # NoCode /\ service.number = c.number
     /\ exchanges' = [exchanges EXCEPT ![v] = NoCode]
     /\ tokens' = IF tick <= c.at + CodeTtl /\ c.visitor = v
                  THEN tokens \cup {[nth |-> Cardinality(tokens) + 1, code |-> c.code,
                                     visitor |-> v, at |-> tick, number |-> service.number,
                                     secret |-> service.secret, url |-> c.base]}
                  ELSE tokens
     /\ UNCHANGED <<settings, service, opening, tunnels, pending, granted, listeners, tick>>

\* The listener that would have answered is gone.
Dropped(v) ==
  /\ exchanges[v] # NoCode /\ service.number # exchanges[v].number
  /\ exchanges' = [exchanges EXCEPT ![v] = NoCode]
  /\ UNCHANGED <<settings, service, opening, tunnels, pending, granted, tokens, listeners, tick>>

\* verify_access_token, for a request to a host.
Accepts(t, host) ==
  /\ service # Down /\ t.secret = service.secret /\ t.url = Base(host)
  /\ tick <= t.at + TokenTtl

Tick ==
  /\ tick < LastTick /\ tick' = tick + 1
  /\ UNCHANGED <<settings, service, opening, tunnels, oauth, listeners>>

PANext ==
  \/ StartTunnel \/ StopTunnel \/ TestTunnel \/ TunnelDies
  \/ StartService \/ FinishStart \/ StopService
  \/ Regenerate \/ SetSecret \/ ScheduledRestart \/ ApplicationEnds
  \/ \E v \in Visitors : Authorize(v) \/ TakeCode(v) \/ JudgeCode(v) \/ Dropped(v)
  \/ Tick

PASpec == PAInit /\ [][PANext]_pavars

-----------------------------------------------------------------------------
(* Properties.                                                             *)

\* A code gives at most one token, and a token goes to the visitor that was
\* authorised, in time, by the listener that issues it: neither a restart nor
\* a regenerated password lets an older authorisation through.
TokensEarned ==
  /\ \A t, u \in tokens : t.code = u.code => t = u
  /\ \A t \in tokens : \E a \in granted :
       /\ a.code = t.code /\ a.visitor = t.visitor /\ a.number = t.number
       /\ a.base = t.url /\ a.at <= t.at /\ t.at <= a.at + CodeTtl

\* A token that is accepted carries the saved secret, or a restart is due, or else
\* the listener runs since before a secret was saved without one.
OldSecretsEnd ==
  \A t \in tokens, host \in Hosts :
    Accepts(t, host) => t.secret = kept.secret \/ due \/ silent

\* No tunnel process runs unknown but for those that answered too late or that
\* an end of the application left behind.
ProcessesKnown == Cardinality(living \ {session}) <= lost

\* Types, and the three above: the tunnel, the saved settings and the code flow
\* (oauth_flow.rs:173-314, secrets.rs:50-220, cloudflare.rs:232-353) together.
PublicInv ==
  /\ service.number \in 0..listeners /\ session \in 0..urls /\ living \subseteq 1..urls
  /\ kept.url \in 0..urls /\ pending \subseteq granted
  /\ TokensEarned /\ OldSecretsEnd /\ ProcessesKnown
=============================================================================
