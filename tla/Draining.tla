------------------------------ MODULE Draining ------------------------------
(* The proxy service of services/proxy-server.js as far as it counts, limits  *)
(* and ends connections: the WebSockets and HTTP requests of one site, the    *)
(* draining of the site and of its upstreams with their timers, and close.    *)
(* Every socket closes by an event of its own, after whoever destroyed it.    *)
(*                                                                            *)
(* Retries while a site drains are in ProxyRequests, as are the breakers.     *)
EXTENDS Naturals, FiniteSets

CONSTANTS Clients, WebSockets,   \* connections, one request each; those that ask for an upgrade
          Upstreams,
          MaxConnections,        \* websocket.maxConnections of the site
          MaxOps                 \* bound: acts of administrators

ASSUME DrainingAssumption == WebSockets \subseteq Clients /\ MaxConnections \in Nat \ {0} /\ "none" \notin Upstreams

VARIABLES conn,        \* per connection: where it is, its upstream, its two sockets
          registered,  \* websocketConnections
          stats,       \* siteWebsocketStats
          site,        \* in the configuration, and #drainingSites
          drained,     \* upstreams that are draining
          siteTimer, upTimers,  \* drainTimers that have not fired
          running,     \* the service
          hist         \* history: acts, and what the properties ask for

vars == <<conn, registered, stats, site, drained, siteTimer, upTimers, running, hist>>
ws == <<registered, stats>>
drain == <<site, drained, siteTimer, upTimers>>

Idle == [pc |-> "idle", up |-> "none", client |-> "up", server |-> "none"]
Gone == [Idle EXCEPT !.pc = "gone"]

Init ==
  /\ conn = [c \in Clients |-> Idle] /\ registered = {}
  /\ stats = [active |-> 0, accepted |-> 0, rejected |-> 0, completed |-> 0]
  /\ site = [present |-> TRUE, draining |-> FALSE] /\ drained = {} /\ siteTimer = FALSE /\ upTimers = {}
  /\ running = TRUE
  /\ hist = [ops |-> 0, raced |-> FALSE, over |-> FALSE, late |-> {}, early |-> FALSE, removed |-> FALSE]

Dialing == {c \in Clients : conn[c].pc = "dialing"}

----------------------------------------------------------------------------
(* Requests.                                                                  *)

\* selectRoute: the upstreams a request may go to; none refuses it.
Routes == IF site.present /\ ~site.draining THEN Upstreams \ drained ELSE {}
Refused(c) ==
  /\ running /\ conn[c].pc = "idle" /\ Routes = {}
  /\ conn' = [conn EXCEPT ![c] = Gone]
  /\ UNCHANGED <<ws, drain, running, hist>>
Request(c) ==
  /\ running /\ conn[c].pc = "idle" /\ c \notin WebSockets
  /\ \E u \in Routes : conn' = [conn EXCEPT ![c] = [Idle EXCEPT !.pc = "http", !.up = u]]
  /\ UNCHANGED <<ws, drain, running, hist>>
\* attempt: a failed request goes to another upstream.
Moves(c) ==
  /\ conn[c].pc = "http" /\ conn[c].client = "up" /\ ~site.draining
  /\ \E u \in Routes \ {conn[c].up} : conn' = [conn EXCEPT ![c].up = u]
  /\ UNCHANGED <<ws, drain, running, hist>>
Ends(c) ==
  /\ conn[c].pc = "http" /\ conn' = [conn EXCEPT ![c] = Gone]
  /\ UNCHANGED <<ws, drain, running, hist>>

Full == stats.active >= MaxConnections
Upgrade(c) ==
  /\ running /\ conn[c].pc = "idle" /\ c \in WebSockets
  /\ Routes # {} /\ conn' = [conn EXCEPT ![c] = IF Full THEN Gone ELSE [Idle EXCEPT !.pc = "dialing"]]
  /\ stats' = IF Full THEN [stats EXCEPT !.rejected = @ + 1] ELSE stats
  /\ hist' = [hist EXCEPT !.raced = @ \/ (~Full /\ Dialing # {})]
  /\ UNCHANGED <<registered, drain, running>>
Upgraded(c) ==
  /\ c \in Dialing
  /\ conn' = [conn EXCEPT ![c].pc = "open", ![c].server = "up"]
  /\ registered' = registered \cup {c}
  /\ stats' = [stats EXCEPT !.active = @ + 1, !.accepted = @ + 1]
  /\ UNCHANGED <<drain, running, hist>>
\* An error or a timeout ends the client; an answer that is no upgrade has no listener.
Unanswered(c) ==
  /\ c \in Dialing /\ conn' = [conn EXCEPT ![c].pc = "hung"]
  /\ UNCHANGED <<ws, drain, running, hist>>
DialFails(c) ==
  /\ c \in Dialing /\ conn' = [conn EXCEPT ![c] = Gone]
  /\ UNCHANGED <<ws, drain, running, hist>>

----------------------------------------------------------------------------
(* Sockets.                                                                   *)

\* finalize, at the first close of either socket.
FinalizedTwice(c) ==
  /\ registered' = registered \ {c}
  /\ stats' = [stats EXCEPT !.active = @ - 1, !.completed = @ + 1]
Finalized(c) ==
  /\ registered' = registered \ {c}
  /\ stats' = IF c \notin registered THEN stats
              ELSE [stats EXCEPT !.active = IF @ = 0 THEN 0 ELSE @ - 1, !.completed = @ + 1]

ClientCloses(c) ==
  /\ conn[c].pc \notin {"idle", "gone"} /\ conn[c].client # "closed"
  /\ conn' = [conn EXCEPT ![c] = IF @.pc \in {"http", "hung"} \/ @.server = "closed" THEN Gone ELSE [@ EXCEPT !.client = "closed"]]
  /\ IF conn[c].pc = "open" THEN Finalized(c) ELSE UNCHANGED ws
  /\ UNCHANGED <<drain, running, hist>>
ServerCloses(c) ==
  /\ conn[c].pc = "open" /\ conn[c].server # "closed"
  /\ conn' = [conn EXCEPT ![c] = IF @.client = "closed" THEN Gone ELSE [@ EXCEPT !.server = "closed"]]
  /\ Finalized(c)
  /\ UNCHANGED <<drain, running, hist>>

Destroyed(state) == IF state = "up" THEN "destroyed" ELSE state
BothDestroyed(r) == [r EXCEPT !.client = Destroyed(@), !.server = Destroyed(@)]

\* Both sockets have the idle timeout; it destroys the two.
TimedByClient(c) == conn[c].client = "up"
Timed(c) == "up" \in {conn[c].client, conn[c].server}
TimesOut(c) ==
  /\ conn[c].pc = "open" /\ Timed(c)
  /\ conn' = [conn EXCEPT ![c] = BothDestroyed(@)]
  /\ UNCHANGED <<ws, drain, running, hist>>

----------------------------------------------------------------------------
(* Draining.                                                                  *)

\* abortSite: the upgraded connections and the HTTP requests.
AbortedRequests == [c \in Clients |-> IF conn[c].pc = "http" THEN BothDestroyed(conn[c]) ELSE conn[c]]
Aborted == [c \in Clients |-> IF conn[c].pc = "http" \/ c \in registered THEN BothDestroyed(conn[c]) ELSE conn[c]]

Act == hist.ops < MaxOps /\ running
Grace(h) == [h EXCEPT !.ops = @ + 1, !.over = FALSE, !.late = {}]

SetSiteDraining(value) == site' = IF site.present THEN [site EXCEPT !.draining = value] ELSE site
SetUpstreamDraining(u, value) ==
  drained' = IF ~site.present THEN drained ELSE IF value THEN drained \cup {u} ELSE drained \ {u}

DrainSiteUntimed ==
  /\ Act /\ site.present /\ SetSiteDraining(TRUE) /\ hist' = Grace(hist)
  /\ UNCHANGED <<conn, ws, drained, siteTimer, upTimers, running>>
DrainSite ==
  /\ Act /\ site.present
  /\ SetSiteDraining(TRUE) /\ siteTimer' = TRUE /\ hist' = Grace(hist)
  /\ UNCHANGED <<conn, ws, drained, upTimers, running>>
ResumeOnly ==
  /\ Act /\ SetSiteDraining(FALSE) /\ hist' = Grace(hist)
  /\ UNCHANGED <<conn, ws, drained, siteTimer, upTimers, running>>
ResumeSite ==
  /\ Act /\ siteTimer' = FALSE /\ SetSiteDraining(FALSE) /\ hist' = Grace(hist)
  /\ UNCHANGED <<conn, ws, drained, upTimers, running>>
AbortSite ==
  /\ Act /\ conn' = Aborted /\ hist' = [hist EXCEPT !.ops = @ + 1]
  /\ UNCHANGED <<ws, drain, running>>
SiteTimer ==
  /\ siteTimer /\ siteTimer' = FALSE /\ conn' = Aborted
  /\ hist' = [hist EXCEPT !.over = site.draining, !.late = Dialing, !.early = @ \/ ~site.draining]
  /\ UNCHANGED <<ws, site, drained, upTimers, running>>

DrainUpstream(u) ==
  /\ Act /\ site.present
  /\ SetUpstreamDraining(u, TRUE) /\ upTimers' = upTimers \cup {u} /\ hist' = [hist EXCEPT !.ops = @ + 1]
  /\ UNCHANGED <<conn, ws, site, siteTimer, running>>
ResumeUpstream(u) ==
  /\ Act /\ upTimers' = upTimers \ {u} /\ SetUpstreamDraining(u, FALSE) /\ hist' = [hist EXCEPT !.ops = @ + 1]
  /\ UNCHANGED <<conn, ws, site, siteTimer, running>>
\* Only HTTP requests are ended, not WebSockets.
UpTimer(u) ==
  /\ u \in upTimers /\ upTimers' = upTimers \ {u}
  /\ conn' = [c \in Clients |-> IF conn[c].pc = "http" /\ conn[c].up = u THEN BothDestroyed(conn[c]) ELSE conn[c]]
  /\ hist' = [hist EXCEPT !.early = @ \/ u \notin drained]
  /\ UNCHANGED <<ws, site, drained, siteTimer, running>>

\* replace: a site that leaves the configuration loses its draining, and so do
\* its upstreams; the timers stay.
Replace ==
  /\ Act /\ site' = [present |-> ~site.present, draining |-> FALSE] /\ drained' = {}
  /\ hist' = [Grace(hist) EXCEPT !.removed = TRUE]
  /\ UNCHANGED <<conn, ws, siteTimer, upTimers, running>>

Close ==
  /\ running /\ running' = FALSE /\ siteTimer' = FALSE /\ upTimers' = {}
  /\ conn' = [c \in Clients |-> IF conn[c].pc \in {"idle", "gone"} THEN conn[c] ELSE BothDestroyed(conn[c])]
  /\ UNCHANGED <<ws, site, drained, hist>>

SocketCloses(c) ==
  \/ conn[c].client = "destroyed" /\ ClientCloses(c)
  \/ conn[c].server = "destroyed" /\ ServerCloses(c)
Connection(c) ==
  \/ Refused(c) \/ Request(c) \/ Moves(c) \/ Ends(c)
  \/ Upgrade(c) \/ Upgraded(c) \/ Unanswered(c) \/ DialFails(c)
  \/ ClientCloses(c) \/ ServerCloses(c) \/ TimesOut(c)
Site == DrainSite \/ ResumeSite \/ AbortSite \/ SiteTimer \/ Replace
Upstream(u) == DrainUpstream(u) \/ ResumeUpstream(u) \/ UpTimer(u)

Next == (\E c \in Clients : Connection(c)) \/ Site \/ (\E u \in Upstreams : Upstream(u)) \/ Close

\* Timers fire; a destroyed socket closes; what has lost its other end is idle
\* until it times out.
Fairness ==
  /\ WF_vars(SiteTimer)
  /\ \A c \in WebSockets : WF_vars(SocketCloses(c)) /\ WF_vars(TimesOut(c) /\ "closed" \in {conn[c].client, conn[c].server})
Spec == Init /\ [][Next]_vars /\ Fairness

----------------------------------------------------------------------------
(* Properties.                                                                *)

\* Types.
TypeOK ==
  /\ conn \in [Clients -> [pc : {"idle", "http", "dialing", "hung", "open", "gone"}, up : Upstreams \cup {"none"},
                           client : {"up", "destroyed", "closed"}, server : {"none", "up", "destroyed", "closed"}]]
  /\ registered \subseteq WebSockets /\ stats \in [active : Nat, accepted : Nat, rejected : Nat, completed : Nat]
  /\ drained \subseteq Upstreams /\ upTimers \subseteq Upstreams

\* Whichever socket of a WebSocket closes first, and however it was ended, it is
\* counted once as accepted and once as completed.
StatsAgree == stats.active = Cardinality(registered) /\ stats.accepted = stats.active + stats.completed

\* A site has at most maxConnections WebSockets, as long as no upgrade was
\* admitted while another waited for its upstream.
LimitHeld == ~hist.raced => stats.active <= MaxConnections

\* The counters agree with the connections and the limit.
CountsAgree == TypeOK /\ StatsAgree /\ LimitHeld

\* When the grace of a draining site is over, only upgrades that were waiting
\* for the upstream then may still come to life.
GraceEnds ==
  hist.over => \A c \in Clients \ hist.late : conn[c].pc = "http" \/ c \in registered => conn[c].client # "up"

\* A timer ends the connections only of what is draining, unless the site was
\* taken out of the configuration meanwhile.
AbortsOnlyDrains == hist.early => hist.removed

\* A drain ends what was there when its grace is over, and no timer ends
\* anything else.
GraceIsExact == GraceEnds /\ AbortsOnlyDrains

\* What has to end, ends: a WebSocket that has lost one end is closed at the
\* other, and the grace of a draining site is over one day.
Released ==
  /\ \A c \in WebSockets :
       (conn[c].pc = "open" /\ "closed" \in {conn[c].client, conn[c].server}) ~> conn[c].pc = "gone"
  /\ site.draining ~> (hist.over \/ ~site.draining \/ ~running)
=============================================================================
