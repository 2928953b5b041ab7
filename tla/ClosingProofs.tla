--------------------------- MODULE ClosingProofs ----------------------------
(* What is closed for maintenance, and what must not be lost or left behind   *)
(* then: the connections of the proxy with their counters, their limit and    *)
(* the grace of a drain (Draining), for every number of connections,          *)
(* upstreams and acts; and the telemetry pipeline with its counters, its log  *)
(* and its webhook jobs (Telemetry), for all events, flushes and delays.      *)
EXTENDS Draining, Telemetry, FiniteSetTheorems, WellFoundedInduction, TLAPS

(* Draining.                                                                  *)

Conn == [pc : {"idle", "http", "dialing", "hung", "open", "gone"}, up : Upstreams \cup {"none"},
         client : {"up", "destroyed", "closed"}, server : {"none", "up", "destroyed", "closed"}]
History == [ops : Nat, raced : BOOLEAN, over : BOOLEAN, late : SUBSET Clients, early : BOOLEAN, removed : BOOLEAN]

Types ==
  /\ conn \in [Clients -> Conn]
  /\ registered \subseteq WebSockets /\ stats \in [active : Nat, accepted : Nat, rejected : Nat, completed : Nat]
  /\ site \in [present : BOOLEAN, draining : BOOLEAN] /\ drained \subseteq Upstreams
  /\ siteTimer \in BOOLEAN /\ upTimers \subseteq Upstreams /\ running \in BOOLEAN /\ hist \in History

\* Only open WebSockets are registered, and only they ask for an upgrade.
Kinds ==
  /\ \A c \in registered : conn[c].pc = "open"
  /\ \A c \in Clients : conn[c].pc = "dialing" => c \in WebSockets

ConnectionsCounted == IsFiniteSet(registered) /\ StatsAgree

\* As long as no upgrade was admitted while another waited, at most one waits,
\* and there is room for it.
Limited ==
  ~hist.raced =>
    /\ stats.active <= MaxConnections
    /\ \A c \in Clients : conn[c].pc = "dialing" => stats.active < MaxConnections
    /\ \A c, d \in Clients : conn[c].pc = "dialing" /\ conn[d].pc = "dialing" => c = d

\* A timer belongs to something that drains, until the site leaves the configuration.
Timers ==
  /\ hist.early => hist.removed
  /\ ~hist.removed => site.present /\ (siteTimer => site.draining) /\ upTimers \subseteq drained

\* A grace that is over is that of a site that still drains; who waits for an
\* upstream then did so when it ended.
Over ==
  hist.over =>
    /\ site.draining
    /\ \A c \in Clients \ hist.late :
         /\ conn[c].pc # "dialing"
         /\ conn[c].pc = "http" \/ c \in registered => conn[c].client # "up"

DrainingInv == Types /\ Kinds /\ ConnectionsCounted /\ Limited /\ Timers /\ Over

LEMMA IdleIs ==
  /\ Idle \in Conn /\ Idle.pc = "idle"
  /\ Gone \in Conn /\ Gone.pc = "gone"
BY DEF Idle, Gone, Conn

LEMMA InitHolds == Init => DrainingInv
<1> SUFFICES ASSUME Init PROVE DrainingInv
  OBVIOUS
<1>1. conn \in [Clients -> Conn] /\ \A c \in Clients : conn[c].pc = "idle"
  BY IdleIs DEF Init
<1>2. Types
  BY <1>1 DEF Init, Types, History
<1>3. ConnectionsCounted
  BY FS_EmptySet DEF Init, ConnectionsCounted, StatsAgree
<1>4. Kinds /\ Limited /\ Timers /\ Over
  BY <1>1, DrainingAssumption DEF Init, Kinds, Limited, Timers, Over
<1> QED BY <1>2, <1>3, <1>4 DEF DrainingInv

----------------------------------------------------------------------------
(* One connection changes.                                                    *)

LEMMA ConnAt ==
  ASSUME Types, NEW c \in Clients, NEW r \in Conn, conn' = [conn EXCEPT ![c] = r]
  PROVE  /\ conn' \in [Clients -> Conn] /\ conn'[c] = r
         /\ \A d \in Clients : d # c => conn'[d] = conn[d]
BY DEF Types

LEMMA DestroyedIs ==
  ASSUME NEW r \in Conn
  PROVE  /\ BothDestroyed(r) \in Conn /\ BothDestroyed(r).pc = r.pc /\ BothDestroyed(r).client # "up"
<1>1. Destroyed(r.client) \in {"destroyed", "closed"} /\ Destroyed(r.server) \in {"none", "destroyed", "closed"}
  BY DEF Destroyed, Conn
<1>2. BothDestroyed(r) = [[r EXCEPT !.client = Destroyed(r.client)] EXCEPT !.server = Destroyed(r.server)]
  BY DEF BothDestroyed, Conn
<1> QED BY <1>1, <1>2 DEF Conn

\* finalize counts a connection down, once.
LEMMA FinalizedDoes ==
  ASSUME DrainingInv, NEW c \in Clients, Finalized(c)
  PROVE  /\ registered' = registered \ {c} /\ stats' \in [active : Nat, accepted : Nat, rejected : Nat, completed : Nat]
         /\ ConnectionsCounted' /\ stats'.active <= stats.active
<1>1. registered' = registered \ {c}
  BY DEF Finalized
<1>2. CASE c \notin registered
  <2>1. stats' = stats /\ registered' = registered
    BY <1>1, <1>2 DEF Finalized
  <2> QED BY <1>1, <2>1 DEF DrainingInv, Types, ConnectionsCounted, StatsAgree
<1>3. CASE c \in registered
  <2>1. IsFiniteSet(registered') /\ Cardinality(registered') = Cardinality(registered) - 1 /\ Cardinality(registered') \in Nat
    BY <1>1, <1>3, FS_RemoveElement, FS_CardinalityType DEF DrainingInv, ConnectionsCounted
  <2>2. stats.active # 0
    BY <2>1 DEF DrainingInv, Types, ConnectionsCounted, StatsAgree
  <2>3. stats' = [[stats EXCEPT !.active = @ - 1] EXCEPT !.completed = @ + 1]
    BY <1>3, <2>2 DEF Finalized, DrainingInv, Types
  <2>4. stats.active - 1 \in Nat
    BY <2>2 DEF DrainingInv, Types
  <2>5. /\ stats' \in [active : Nat, accepted : Nat, rejected : Nat, completed : Nat]
        /\ stats'.active = stats.active - 1 /\ stats'.accepted = stats.accepted /\ stats'.completed = stats.completed + 1
    <3> DEFINE fewer == [stats EXCEPT !.active = @ - 1]
    <3>1. /\ fewer \in [active : Nat, accepted : Nat, rejected : Nat, completed : Nat]
          /\ fewer.active = stats.active - 1 /\ fewer.accepted = stats.accepted /\ fewer.completed = stats.completed
      BY <2>4 DEF DrainingInv, Types
    <3>2. stats' = [fewer EXCEPT !.completed = @ + 1]
      BY <2>3
    <3> HIDE DEF fewer
    <3> QED BY <3>1, <3>2
  <2> QED BY <1>1, <2>1, <2>4, <2>5 DEF DrainingInv, Types, ConnectionsCounted, StatsAgree
<1> QED BY <1>2, <1>3

\* A connection that goes its way without being admitted or upgraded.
LEMMA ConnectionKeeps ==
  ASSUME DrainingInv, NEW c \in Clients, NEW r \in Conn, conn' = [conn EXCEPT ![c] = r],
         Finalized(c) \/ UNCHANGED ws, UNCHANGED <<site, drained, siteTimer, upTimers, running, hist>>,
         c \in registered' => r.pc = "open",
         r.pc = "dialing" => conn[c].pc = "dialing",
         hist.over /\ c \notin hist.late /\ (r.pc = "http" \/ c \in registered') => r.client # "up"
  PROVE  DrainingInv'
<1>1. /\ conn' \in [Clients -> Conn] /\ conn'[c] = r
      /\ \A d \in Clients : d # c => conn'[d] = conn[d]
  BY ConnAt DEF DrainingInv
<1>2. /\ registered' \subseteq registered /\ stats' \in [active : Nat, accepted : Nat, rejected : Nat, completed : Nat]
      /\ ConnectionsCounted' /\ stats'.active <= stats.active
  <2>1. CASE Finalized(c)
    BY <2>1, FinalizedDoes
  <2>2. CASE UNCHANGED ws
    BY <2>2 DEF ws, DrainingInv, Types, ConnectionsCounted, StatsAgree
  <2> QED BY <2>1, <2>2
<1>3. Types'
  BY <1>1, <1>2 DEF DrainingInv, Types
<1>4. Kinds'
  BY <1>1, <1>2, DrainingAssumption DEF DrainingInv, Kinds, Types
<1>5. Limited'
  BY <1>1, <1>2, DrainingAssumption DEF DrainingInv, Limited, Types
<1>6. Timers'
  BY DEF DrainingInv, Timers
<1>7. Over'
  BY <1>1, <1>2 DEF DrainingInv, Over
<1> QED BY <1>2, <1>3, <1>4, <1>5, <1>6, <1>7 DEF DrainingInv

LEMMA NotRegistered ==
  ASSUME DrainingInv, NEW c \in Clients, conn[c].pc # "open"
  PROVE  c \notin registered
BY DEF DrainingInv, Kinds

LEMMA RequestsKeep ==
  ASSUME DrainingInv, NEW c \in Clients, Refused(c) \/ Request(c) \/ Moves(c) \/ Ends(c)
  PROVE  DrainingInv'
<1>1. UNCHANGED ws /\ UNCHANGED <<site, drained, siteTimer, upTimers, running, hist>> /\ registered' = registered
  BY DEF Refused, Request, Moves, Ends, drain, ws
<1>2. conn[c] \in Conn /\ c \notin registered
  BY NotRegistered DEF DrainingInv, Types, Refused, Request, Moves, Ends
<1>3. hist.over => Routes = {} /\ site.draining
  BY DEF DrainingInv, Over, Routes
<1>4. CASE Refused(c) \/ Ends(c)
  BY <1>1, <1>2, <1>4, IdleIs, ConnectionKeeps DEF Refused, Ends
<1>5. CASE Request(c)
  <2>1. PICK u \in Routes : conn' = [conn EXCEPT ![c] = [Idle EXCEPT !.pc = "http", !.up = u]]
    BY <1>5 DEF Request
  <2> DEFINE r == [Idle EXCEPT !.pc = "http", !.up = u]
  <2>2. r \in Conn /\ r.pc = "http"
    BY <2>1 DEF Idle, Conn, Routes
  <2>3. ~hist.over
    BY <1>3, <2>1
  <2> HIDE DEF r
  <2>4. conn' = [conn EXCEPT ![c] = r]
    BY <2>1 DEF r
  <2> QED BY <1>1, <1>2, <2>2, <2>3, <2>4, ConnectionKeeps
<1>6. CASE Moves(c)
  <2>1. PICK u \in Routes : conn' = [conn EXCEPT ![c].up = u]
    BY <1>6 DEF Moves
  <2> DEFINE r == [conn[c] EXCEPT !.up = u]
  <2>2. r \in Conn /\ r.pc = "http"
    BY <1>2, <1>6, <2>1 DEF Moves, Conn, Routes
  <2>3. ~hist.over
    BY <1>3, <2>1
  <2>4. conn' = [conn EXCEPT ![c] = r]
    BY <2>1 DEF DrainingInv, Types
  <2> HIDE DEF r
  <2> QED BY <1>1, <1>2, <2>2, <2>3, <2>4, ConnectionKeeps
<1> QED BY <1>4, <1>5, <1>6

LEMMA UnansweredKeeps ==
  ASSUME DrainingInv, NEW c \in Clients, Unanswered(c) \/ DialFails(c)
  PROVE  DrainingInv'
<1>1. UNCHANGED ws /\ UNCHANGED <<site, drained, siteTimer, upTimers, running, hist>> /\ registered' = registered
  BY DEF Unanswered, DialFails, drain, ws
<1>2. conn[c] \in Conn /\ c \notin registered
  BY NotRegistered DEF DrainingInv, Types, Unanswered, DialFails, Dialing
<1>3. CASE Unanswered(c)
  <2> DEFINE r == [conn[c] EXCEPT !.pc = "hung"]
  <2>1. r \in Conn /\ r.pc = "hung"
    BY <1>2 DEF Conn
  <2>2. conn' = [conn EXCEPT ![c] = r]
    BY <1>3 DEF Unanswered, DrainingInv, Types
  <2> HIDE DEF r
  <2> QED BY <1>1, <1>2, <2>1, <2>2, ConnectionKeeps
<1>4. CASE DialFails(c)
  BY <1>1, <1>2, <1>4, IdleIs, ConnectionKeeps DEF DialFails
<1> QED BY <1>3, <1>4

----------------------------------------------------------------------------
(* Sockets.                                                                   *)

LEMMA ClosesKeep ==
  ASSUME DrainingInv, NEW c \in Clients, ClientCloses(c) \/ ServerCloses(c)
  PROVE  DrainingInv'
<1>1. UNCHANGED <<site, drained, siteTimer, upTimers, running, hist>> /\ conn[c] \in Conn
  BY DEF ClientCloses, ServerCloses, drain, DrainingInv, Types
<1>2. (Finalized(c) \/ UNCHANGED ws) /\ c \notin registered'
  BY NotRegistered DEF ClientCloses, ServerCloses, Finalized, ws
<1>3. CASE ClientCloses(c)
  <2> DEFINE r == IF conn[c].pc \in {"http", "hung"} \/ conn[c].server = "closed" THEN Gone ELSE [conn[c] EXCEPT !.client = "closed"]
  <2>1. conn' = [conn EXCEPT ![c] = r]
    BY <1>3 DEF ClientCloses, DrainingInv, Types
  <2>2. r \in Conn /\ (r.pc = "dialing" => conn[c].pc = "dialing") /\ (r.pc = "http" => r.client # "up")
    BY <1>1, IdleIs DEF Conn
  <2> HIDE DEF r
  <2> QED BY <1>1, <1>2, <2>1, <2>2, ConnectionKeeps
<1>4. CASE ServerCloses(c)
  <2> DEFINE r == IF conn[c].client = "closed" THEN Gone ELSE [conn[c] EXCEPT !.server = "closed"]
  <2>1. conn' = [conn EXCEPT ![c] = r]
    BY <1>4 DEF ServerCloses, DrainingInv, Types
  <2>2. r \in Conn /\ r.pc \in {"open", "gone"}
    BY <1>1, <1>4, IdleIs DEF Conn, ServerCloses
  <2> HIDE DEF r
  <2> QED BY <1>1, <1>2, <2>1, <2>2, ConnectionKeeps
<1> QED BY <1>3, <1>4

LEMMA TimesOutKeeps ==
  ASSUME DrainingInv, NEW c \in Clients, TimesOut(c)
  PROVE  DrainingInv'
<1>1. /\ UNCHANGED ws /\ UNCHANGED <<site, drained, siteTimer, upTimers, running, hist>>
      /\ conn[c] \in Conn /\ conn[c].pc = "open" /\ conn' = [conn EXCEPT ![c] = BothDestroyed(conn[c])]
  BY DEF TimesOut, drain, DrainingInv, Types
<1> QED BY <1>1, DestroyedIs, ConnectionKeeps

----------------------------------------------------------------------------
(* Upgrades.                                                                  *)

LEMMA UpgradeKeeps ==
  ASSUME DrainingInv, NEW c \in Clients, Upgrade(c)
  PROVE  DrainingInv'
<1>1. /\ conn[c].pc = "idle" /\ c \in WebSockets /\ ~hist.over /\ c \notin registered
      /\ UNCHANGED <<registered, site, drained, siteTimer, upTimers, running>>
  BY NotRegistered DEF Upgrade, drain, DrainingInv, Over, Routes
<1>2. /\ hist' \in History /\ hist'.raced = (hist.raced \/ (~Full /\ Dialing # {}))
      /\ hist'.over = hist.over /\ hist'.early = hist.early /\ hist'.removed = hist.removed
  BY DEF Upgrade, DrainingInv, Types, History
<1>3. Timers'
  BY <1>1, <1>2 DEF DrainingInv, Timers
<1>4. Over'
  BY <1>1, <1>2 DEF Over
<1>5. CASE Full
  <2>1. /\ conn' = [conn EXCEPT ![c] = Gone]
        /\ stats' \in [active : Nat, accepted : Nat, rejected : Nat, completed : Nat]
        /\ stats'.active = stats.active /\ stats'.accepted = stats.accepted /\ stats'.completed = stats.completed
    BY <1>5 DEF Upgrade, DrainingInv, Types
  <2>2. conn' \in [Clients -> Conn] /\ conn'[c] = Gone /\ \A d \in Clients : d # c => conn'[d] = conn[d]
    BY <2>1, ConnAt, IdleIs DEF DrainingInv
  <2>3. Types'
    BY <1>1, <1>2, <2>1, <2>2 DEF DrainingInv, Types
  <2>4. Kinds' /\ ConnectionsCounted'
    BY <1>1, <2>1, <2>2, IdleIs, DrainingAssumption DEF DrainingInv, Types, Kinds, ConnectionsCounted, StatsAgree
  <2>5. Limited'
    BY <1>2, <1>5, <2>1, <2>2, IdleIs DEF DrainingInv, Limited
  <2> QED BY <1>3, <1>4, <2>3, <2>4, <2>5 DEF DrainingInv
<1>6. CASE ~Full
  <2> DEFINE r == [Idle EXCEPT !.pc = "dialing"]
  <2>1. conn' = [conn EXCEPT ![c] = r] /\ stats' = stats
    BY <1>6 DEF Upgrade
  <2>2. r \in Conn /\ r.pc = "dialing"
    BY DEF Idle, Conn
  <2> HIDE DEF r
  <2>3. conn' \in [Clients -> Conn] /\ conn'[c] = r /\ \A d \in Clients : d # c => conn'[d] = conn[d]
    BY <2>1, <2>2, ConnAt DEF DrainingInv
  <2>4. Types'
    BY <1>1, <1>2, <2>1, <2>3 DEF DrainingInv, Types
  <2>5. Kinds' /\ ConnectionsCounted'
    BY <1>1, <2>1, <2>2, <2>3, DrainingAssumption DEF DrainingInv, Types, Kinds, ConnectionsCounted, StatsAgree
  <2>6. Limited'
    <3>1. stats.active < MaxConnections
      BY <1>6, DrainingAssumption DEF Full, DrainingInv, Types
    <3>2. ~hist'.raced => \A d \in Clients : conn[d].pc # "dialing"
      BY <1>2, <1>6 DEF Dialing
    <3> QED BY <1>2, <2>1, <2>2, <2>3, <3>1, <3>2 DEF DrainingInv, Limited
  <2> QED BY <1>3, <1>4, <2>4, <2>5, <2>6 DEF DrainingInv
<1> QED BY <1>5, <1>6

LEMMA UpgradedKeeps ==
  ASSUME DrainingInv, NEW c \in Clients, Upgraded(c)
  PROVE  DrainingInv'
<1>1. /\ conn[c] \in Conn /\ conn[c].pc = "dialing" /\ c \in WebSockets /\ c \notin registered
      /\ UNCHANGED <<site, drained, siteTimer, upTimers, running, hist>> /\ registered' = registered \cup {c}
  BY NotRegistered DEF Upgraded, Dialing, drain, DrainingInv, Types, Kinds
<1> DEFINE r == [[conn[c] EXCEPT !.pc = "open"] EXCEPT !.server = "up"]
<1>2. conn' = [conn EXCEPT ![c] = r]
  BY DEF Upgraded, DrainingInv, Types
<1>3. r \in Conn /\ r.pc = "open"
  BY <1>1 DEF Conn
<1> HIDE DEF r
<1>4. conn' \in [Clients -> Conn] /\ conn'[c] = r /\ \A d \in Clients : d # c => conn'[d] = conn[d]
  BY <1>2, <1>3, ConnAt DEF DrainingInv
<1>5. /\ stats' \in [active : Nat, accepted : Nat, rejected : Nat, completed : Nat]
      /\ stats'.active = stats.active + 1 /\ stats'.accepted = stats.accepted + 1 /\ stats'.completed = stats.completed
  <2> DEFINE more == [stats EXCEPT !.active = @ + 1]
  <2>1. /\ more \in [active : Nat, accepted : Nat, rejected : Nat, completed : Nat]
        /\ more.active = stats.active + 1 /\ more.accepted = stats.accepted /\ more.completed = stats.completed
    BY DEF DrainingInv, Types
  <2>2. stats' = [more EXCEPT !.accepted = @ + 1]
    BY DEF Upgraded, DrainingInv, Types
  <2> HIDE DEF more
  <2> QED BY <2>1, <2>2
<1>6. Types'
  BY <1>1, <1>4, <1>5 DEF DrainingInv, Types
<1>7. Kinds'
  BY <1>1, <1>3, <1>4, DrainingAssumption DEF DrainingInv, Types, Kinds
<1>8. ConnectionsCounted'
  <2>1. IsFiniteSet(registered') /\ Cardinality(registered') = Cardinality(registered) + 1
    BY <1>1, FS_AddElement DEF DrainingInv, ConnectionsCounted
  <2> QED BY <1>5, <2>1 DEF DrainingInv, Types, ConnectionsCounted, StatsAgree
<1>9. Limited'
  BY <1>1, <1>3, <1>4, <1>5, DrainingAssumption DEF DrainingInv, Types, Limited
<1>10. Timers'
  BY <1>1 DEF DrainingInv, Timers
<1>11. Over'
  BY <1>1, <1>3, <1>4 DEF DrainingInv, Over
<1> QED BY <1>6, <1>7, <1>8, <1>9, <1>10, <1>11 DEF DrainingInv

----------------------------------------------------------------------------
(* Draining.                                                                  *)

\* What a step does that only destroys sockets, or touches no connection.
LEMMA BulkKeeps ==
  ASSUME DrainingInv, UNCHANGED ws, hist'.raced = hist.raced,
         conn' \in [Clients -> Conn], \A c \in Clients : conn'[c].pc = conn[c].pc
  PROVE  Kinds' /\ ConnectionsCounted' /\ Limited'
<1>1. UNCHANGED <<registered, stats>>
  BY DEF ws
<1>2. Kinds'
  BY <1>1, DrainingAssumption DEF DrainingInv, Types, Kinds
<1>3. ConnectionsCounted'
  BY <1>1 DEF DrainingInv, ConnectionsCounted, StatsAgree
<1>4. Limited'
  BY <1>1 DEF DrainingInv, Limited
<1> QED BY <1>2, <1>3, <1>4

LEMMA GraceIs ==
  ASSUME Types
  PROVE  /\ Grace(hist) \in History /\ ~Grace(hist).over
         /\ Grace(hist).raced = hist.raced /\ Grace(hist).early = hist.early /\ Grace(hist).removed = hist.removed
<1> DEFINE a == [hist EXCEPT !.ops = @ + 1]
           b == [a EXCEPT !.over = FALSE]
<1>1. a \in History /\ a.raced = hist.raced /\ a.early = hist.early /\ a.removed = hist.removed
  BY DEF Types, History
<1>2. Grace(hist) = [b EXCEPT !.late = {}]
  BY DEF Grace
<1> HIDE DEF a
<1>3. b \in History /\ ~b.over /\ b.raced = a.raced /\ b.early = a.early /\ b.removed = a.removed
  BY <1>1 DEF History
<1> HIDE DEF b
<1> QED BY <1>1, <1>2, <1>3 DEF History

LEMMA SiteKeeps ==
  ASSUME DrainingInv, DrainSite \/ ResumeSite
  PROVE  DrainingInv'
<1>1. UNCHANGED conn /\ UNCHANGED ws /\ UNCHANGED <<drained, upTimers, running>> /\ hist' = Grace(hist)
  BY DEF DrainSite, ResumeSite
<1>2. /\ hist' \in History /\ ~hist'.over
      /\ hist'.raced = hist.raced /\ hist'.early = hist.early /\ hist'.removed = hist.removed
  BY <1>1, GraceIs DEF DrainingInv
<1>3. /\ site' \in [present : BOOLEAN, draining : BOOLEAN] /\ site'.present = site.present /\ siteTimer' \in BOOLEAN
      /\ siteTimer' => site'.draining
  <2>1. CASE DrainSite
    BY <2>1 DEF DrainSite, SetSiteDraining, DrainingInv, Types
  <2>2. CASE ResumeSite
    BY <2>2 DEF ResumeSite, SetSiteDraining, DrainingInv, Types
  <2> QED BY <2>1, <2>2
<1>4. Types'
  BY <1>1, <1>2, <1>3 DEF DrainingInv, Types, ws
<1>5. Timers' /\ Over'
  BY <1>1, <1>2, <1>3 DEF DrainingInv, Timers, Over
<1>6. conn' \in [Clients -> Conn] /\ \A c \in Clients : conn'[c].pc = conn[c].pc
  BY <1>1 DEF DrainingInv, Types
<1> QED BY <1>1, <1>2, <1>4, <1>5, <1>6, BulkKeeps DEF DrainingInv

LEMMA UpstreamKeeps ==
  ASSUME DrainingInv, NEW u \in Upstreams, DrainUpstream(u) \/ ResumeUpstream(u)
  PROVE  DrainingInv'
<1>1. UNCHANGED conn /\ UNCHANGED ws /\ UNCHANGED <<site, siteTimer, running>> /\ hist' = [hist EXCEPT !.ops = @ + 1]
  BY DEF DrainUpstream, ResumeUpstream
<1>2. /\ hist' \in History /\ hist'.over = hist.over /\ hist'.late = hist.late
      /\ hist'.raced = hist.raced /\ hist'.early = hist.early /\ hist'.removed = hist.removed
  BY <1>1 DEF DrainingInv, Types, History
<1>3. /\ drained' \subseteq Upstreams /\ upTimers' \subseteq Upstreams
      /\ site.present /\ upTimers \subseteq drained => upTimers' \subseteq drained'
  BY DEF DrainUpstream, ResumeUpstream, SetUpstreamDraining, DrainingInv, Types
<1>4. Types'
  BY <1>1, <1>2, <1>3 DEF DrainingInv, Types, ws
<1>5. Timers'
  BY <1>1, <1>2, <1>3 DEF DrainingInv, Timers
<1>6. Over'
  BY <1>1, <1>2 DEF DrainingInv, Over, ws
<1>7. conn' \in [Clients -> Conn] /\ \A c \in Clients : conn'[c].pc = conn[c].pc
  BY <1>1 DEF DrainingInv, Types
<1> QED BY <1>1, <1>2, <1>4, <1>5, <1>6, <1>7, BulkKeeps DEF DrainingInv

LEMMA ReplaceKeeps == ASSUME DrainingInv, Replace PROVE DrainingInv'
<1>1. UNCHANGED conn /\ UNCHANGED ws /\ UNCHANGED <<siteTimer, upTimers, running>>
  BY DEF Replace
<1>2. hist' = [Grace(hist) EXCEPT !.removed = TRUE]
  BY DEF Replace
<1>3. hist' \in History /\ ~hist'.over /\ hist'.removed /\ hist'.raced = hist.raced
  <2> DEFINE g == Grace(hist)
  <2>1. g \in History /\ ~g.over /\ g.raced = hist.raced
    BY GraceIs DEF DrainingInv
  <2> HIDE DEF g
  <2>2. hist' = [g EXCEPT !.removed = TRUE]
    BY <1>2 DEF g
  <2> QED BY <2>1, <2>2 DEF History
<1>4. site' \in [present : BOOLEAN, draining : BOOLEAN] /\ drained' = {}
  BY DEF Replace, DrainingInv, Types
<1>5. Types'
  BY <1>1, <1>3, <1>4 DEF DrainingInv, Types, ws
<1>6. Timers' /\ Over'
  BY <1>3 DEF Timers, Over
<1>7. conn' \in [Clients -> Conn] /\ \A c \in Clients : conn'[c].pc = conn[c].pc
  BY <1>1 DEF DrainingInv, Types
<1> QED BY <1>1, <1>3, <1>5, <1>6, <1>7, BulkKeeps DEF DrainingInv

\* abortSite moves nobody, and leaves no registered or plain connection up.
LEMMA AbortedIs ==
  ASSUME DrainingInv
  PROVE  /\ Aborted \in [Clients -> Conn] /\ \A c \in Clients : Aborted[c].pc = conn[c].pc
         /\ \A c \in Clients : conn[c].pc = "http" \/ c \in registered => Aborted[c].client # "up"
         /\ \A c \in Clients : Aborted[c].client = "up" => conn[c].client = "up"
<1>1. \A c \in Clients : conn[c] \in Conn
  BY DEF DrainingInv, Types
<1> QED BY <1>1, DestroyedIs DEF Aborted

LEMMA AbortKeeps == ASSUME DrainingInv, AbortSite PROVE DrainingInv'
<1>1. /\ conn' = Aborted /\ UNCHANGED ws /\ UNCHANGED <<site, drained, siteTimer, upTimers, running>>
      /\ hist' = [hist EXCEPT !.ops = @ + 1] /\ UNCHANGED <<registered, stats>>
  BY DEF AbortSite, drain, ws
<1>2. /\ hist' \in History /\ hist'.over = hist.over /\ hist'.late = hist.late
      /\ hist'.raced = hist.raced /\ hist'.early = hist.early /\ hist'.removed = hist.removed
  BY <1>1 DEF DrainingInv, Types, History
<1>3. Types'
  BY <1>1, <1>2, AbortedIs DEF DrainingInv, Types
<1>4. Timers'
  BY <1>1, <1>2 DEF DrainingInv, Timers
<1>5. Over'
  BY <1>1, <1>2, AbortedIs DEF DrainingInv, Over
<1> QED BY <1>1, <1>2, <1>3, <1>4, <1>5, AbortedIs, BulkKeeps DEF DrainingInv

LEMMA SiteTimerKeeps == ASSUME DrainingInv, SiteTimer PROVE DrainingInv'
<1>1. /\ siteTimer /\ ~siteTimer' /\ siteTimer' \in BOOLEAN /\ conn' = Aborted
      /\ UNCHANGED ws /\ UNCHANGED <<site, drained, upTimers, running>> /\ UNCHANGED <<registered, stats>>
  BY DEF SiteTimer, ws
<1>2. /\ hist' \in History /\ hist'.over = site.draining /\ hist'.late = Dialing
      /\ hist'.raced = hist.raced /\ hist'.early = (hist.early \/ ~site.draining) /\ hist'.removed = hist.removed
  <2> DEFINE a == [hist EXCEPT !.over = site.draining]
             b == [a EXCEPT !.late = Dialing]
  <2>1. a \in History /\ a.over = site.draining /\ a.raced = hist.raced /\ a.early = hist.early /\ a.removed = hist.removed
    BY DEF DrainingInv, Types, History
  <2>2. hist' = [b EXCEPT !.early = @ \/ ~site.draining]
    BY DEF SiteTimer
  <2> HIDE DEF a
  <2>3. b \in History /\ b.over = a.over /\ b.late = Dialing /\ b.raced = a.raced /\ b.early = a.early /\ b.removed = a.removed
    BY <2>1 DEF History, Dialing
  <2> HIDE DEF b
  <2> QED BY <2>1, <2>2, <2>3 DEF History, DrainingInv, Types
<1>3. Types'
  BY <1>1, <1>2, AbortedIs DEF DrainingInv, Types
<1>4. Timers'
  BY <1>1, <1>2 DEF DrainingInv, Timers
<1>5. Over'
  BY <1>1, <1>2, AbortedIs DEF DrainingInv, Over, Dialing
<1> QED BY <1>1, <1>2, <1>3, <1>4, <1>5, AbortedIs, BulkKeeps DEF DrainingInv

LEMMA UpTimerKeeps == ASSUME DrainingInv, NEW u \in Upstreams, UpTimer(u) PROVE DrainingInv'
<1>1. /\ u \in upTimers /\ upTimers' = upTimers \ {u}
      /\ UNCHANGED ws /\ UNCHANGED <<site, drained, siteTimer, running>> /\ UNCHANGED <<registered, stats>>
  BY DEF UpTimer, ws
<1>2. /\ hist' \in History /\ hist'.over = hist.over /\ hist'.late = hist.late
      /\ hist'.raced = hist.raced /\ hist'.early = (hist.early \/ u \notin drained) /\ hist'.removed = hist.removed
  BY DEF UpTimer, DrainingInv, Types, History
<1>3. /\ conn' \in [Clients -> Conn] /\ \A c \in Clients : conn'[c].pc = conn[c].pc
      /\ \A c \in Clients : conn'[c].client = "up" => conn[c].client = "up"
  <2>1. \A c \in Clients : conn[c] \in Conn
    BY DEF DrainingInv, Types
  <2> QED BY <2>1, DestroyedIs DEF UpTimer
<1>4. Types'
  BY <1>1, <1>2, <1>3 DEF DrainingInv, Types
<1>5. Timers'
  BY <1>1, <1>2 DEF DrainingInv, Timers
<1>6. Over'
  BY <1>1, <1>2, <1>3 DEF DrainingInv, Over
<1> QED BY <1>1, <1>2, <1>3, <1>4, <1>5, <1>6, BulkKeeps DEF DrainingInv

LEMMA CloseKeeps == ASSUME DrainingInv, Close PROVE DrainingInv'
<1>1. /\ UNCHANGED ws /\ UNCHANGED <<site, drained, hist>> /\ UNCHANGED <<registered, stats>>
      /\ running' \in BOOLEAN /\ siteTimer' = FALSE /\ upTimers' = {}
  BY DEF Close, ws
<1>2. /\ conn' \in [Clients -> Conn] /\ \A c \in Clients : conn'[c].pc = conn[c].pc
      /\ \A c \in Clients : conn'[c].client = "up" => conn[c].client = "up"
  <2>1. \A c \in Clients : conn[c] \in Conn
    BY DEF DrainingInv, Types
  <2> QED BY <2>1, DestroyedIs DEF Close
<1>3. Types'
  BY <1>1, <1>2 DEF DrainingInv, Types
<1>4. Timers'
  BY <1>1 DEF DrainingInv, Timers
<1>5. Over'
  BY <1>1, <1>2 DEF DrainingInv, Over
<1> QED BY <1>1, <1>2, <1>3, <1>4, <1>5, BulkKeeps DEF DrainingInv

----------------------------------------------------------------------------
LEMMA StutterKeeps == ASSUME DrainingInv, UNCHANGED vars PROVE DrainingInv'
<1>1. UNCHANGED <<conn, registered, stats, site, drained, siteTimer, upTimers, running, hist>>
  BY DEF vars
<1> QED BY <1>1 DEF DrainingInv, Types, Kinds, ConnectionsCounted, StatsAgree, Limited, Timers, Over

LEMMA StepKeeps == DrainingInv /\ [Next]_vars => DrainingInv'
<1> SUFFICES ASSUME DrainingInv, [Next]_vars PROVE DrainingInv'
  OBVIOUS
<1>1. CASE \E c \in Clients : Connection(c)
  BY <1>1, RequestsKeep, UpgradeKeeps, UpgradedKeeps, UnansweredKeeps, ClosesKeep, TimesOutKeeps DEF Connection
<1>2. CASE Site
  BY <1>2, SiteKeeps, AbortKeeps, SiteTimerKeeps, ReplaceKeeps DEF Site
<1>3. CASE \E u \in Upstreams : Upstream(u)
  BY <1>3, UpstreamKeeps, UpTimerKeeps DEF Upstream
<1>4. CASE Close
  BY <1>4, CloseKeeps
<1>5. CASE UNCHANGED vars
  BY <1>5, StutterKeeps
<1> QED BY <1>1, <1>2, <1>3, <1>4, <1>5 DEF Next

\* The whole invariant, for any sets of connections and upstreams.
LEMMA DrainingInvariance == Spec => []DrainingInv
BY InitHolds, StepKeeps, PTL DEF Spec

\* WebSockets are counted once, and within maxConnections as long as no two
\* upgrades wait together (finalize, the upgrade handler).
THEOREM CountsAlwaysAgree == Spec => []CountsAgree
<1>1. DrainingInv => CountsAgree
  BY DEF DrainingInv, Types, Conn, ConnectionsCounted, Limited, CountsAgree, TypeOK, LimitHeld
<1> QED BY <1>1, DrainingInvariance, PTL

\* A drain ends what was there when its grace is over, but for the upgrades
\* that were waiting, and a timer ends nothing that does not drain, unless the
\* site was taken out of the configuration (abortSite, drainSite, resumeSite,
\* drainUpstream, resumeUpstream).
THEOREM DrainsAreExact == Spec => []GraceIsExact
<1>1. DrainingInv => GraceEnds
  BY DEF DrainingInv, Over, GraceEnds
<1>2. DrainingInv => AbortsOnlyDrains
  BY DEF DrainingInv, Timers, AbortsOnlyDrains
<1> QED BY <1>1, <1>2, DrainingInvariance, PTL DEF GraceIsExact

----------------------------------------------------------------------------
(* Telemetry.                                                                 *)

Job == [state : {"none", "pending", "delivered", "dead-letter"}, attempts : 0 .. MaxDelay,
        wait : 0 .. MaxDelay, age : 0 .. DeadAfter]
Due == [event : Events, attempts : 0 .. MaxDelay, expired : BOOLEAN]
Items == [event : Events, logger : Nat]

TelemetryTypes ==
  /\ TelemetryTypeOK /\ logger \in Nat /\ queue \in Seq(Items) /\ log \in Seq(Items)
  /\ flush \in [Flushes -> [pc : {"rest", "wait", "post"}, waits : SUBSET Items, due : Seq(Due), lag : 0 .. MaxDelay]]
  /\ past \in [order : Seq(Items), received : SUBSET Events, lost : SUBSET Events, faults : Nat]

Happened == {past.order[i].event : i \in DOMAIN past.order}

\* An event happens once, and only what happened has a job.
Once ==
  /\ \A i, j \in DOMAIN past.order : past.order[i].event = past.order[j].event => i = j
  /\ \A e \in Events : jobs[e].state # "none" => e \in Happened

\* What happened is in one of the three places where it is counted.
Sums ==
  \A e \in Counted : stored[e] + (IF e \in window THEN 1 ELSE 0) + (IF e \in past.lost THEN 1 ELSE 0)
                    = IF e \in Happened THEN 1 ELSE 0

\* What a flush has listed are jobs, and those it takes for expired are.
Listed ==
  \A f \in Flushes : flush[f].pc = "post" =>
    /\ flush[f].due # <<>>
    /\ \A i \in DOMAIN flush[f].due :
         /\ jobs[flush[f].due[i].event].state # "none"
         /\ flush[f].due[i].expired => jobs[flush[f].due[i].event].age = DeadAfter

\* In the order o: a is before b.
Before(o, a, b) == \E k, l \in DOMAIN o : k < l /\ a = o[k] /\ b = o[l]
IsPast(o, a) == \E k \in DOMAIN o : a = o[k]

\* The queue is in the order of the events, and what is written of a logger is
\* ahead of what it has yet to write.
Ordered ==
  /\ \A i \in DOMAIN log : IsPast(past.order, log[i])
  /\ \A i \in DOMAIN queue : IsPast(past.order, queue[i])
  /\ \A i, j \in DOMAIN queue : i < j => Before(past.order, queue[i], queue[j])
  /\ \A i, j \in DOMAIN log : i < j /\ log[i].logger = log[j].logger => Before(past.order, log[i], log[j])
  /\ \A i \in DOMAIN log, j \in DOMAIN queue : log[i].logger = queue[j].logger => Before(past.order, log[i], queue[j])

Settled == DeliveredIsTrue /\ DeadAfterADay

TelemetryInv == TelemetryTypes /\ Once /\ Sums /\ Listed /\ Settled /\ Ordered

----------------------------------------------------------------------------
LEMMA LeastNumber ==
  ASSUME NEW S \in SUBSET Nat, S # {}
  PROVE  \E m \in S : \A k \in S : m <= k
<1> DEFINE R == {ss \in Nat \X Nat : ss[1] < ss[2]}
<1>1. IsWellFoundedOn(R, Nat)
  BY NatLessThanWellFounded DEF OpToRel
<1>2. PICK m \in S : \A k \in S : ~(<<k, m>> \in R)
  <2> HIDE DEF R
  <2> QED BY <1>1, WFMin, S \subseteq Nat
<1>3. ASSUME NEW k \in S PROVE m <= k
  <2>1. k \in Nat /\ m \in Nat /\ <<k, m>> \in Nat \X Nat /\ <<k, m>>[1] = k /\ <<k, m>>[2] = m
    OBVIOUS
  <2>2. ~(k < m)
    BY <1>2, <2>1
  <2> QED BY <2>1, <2>2
<1> QED BY <1>3

\* The delay before a retry is never more than the longest.
LEMMA DelayType == \A n \in 0 .. MaxDelay : Delay[n] \in 1 .. MaxDelay
<1> DEFINE Step(h, n) == IF n <= 1 THEN 1 ELSE Smaller(2 * h[n - 1], MaxDelay)
           Row(h, m) == \A n \in 0 .. m : h[n] = Step(h, n)
           Stuck == {m \in 0 .. MaxDelay : ~\E h \in [0 .. m -> 1 .. MaxDelay] : Row(h, m)}
           f == CHOOSE h : h = [n \in 0 .. MaxDelay |-> Step(h, n)]
           Wrong == {n \in 0 .. MaxDelay : f[n] \notin 1 .. MaxDelay}
<1>1. MaxDelay \in Nat \ {0}
  BY TelemetryAssumption
<1>2. Stuck = {}
  <2>1. SUFFICES ASSUME Stuck # {} PROVE FALSE
    OBVIOUS
  <2>2. Stuck \in SUBSET Nat
    OBVIOUS
  <2>3. PICK m \in Stuck : \A k \in Stuck : m <= k
    <3> HIDE DEF Stuck
    <3> QED BY <2>1, <2>2, LeastNumber
  <2>4. m \in 0 .. MaxDelay /\ ~\E h \in [0 .. m -> 1 .. MaxDelay] : Row(h, m)
    OBVIOUS
  <2>5. m # 0
    <3> DEFINE h == [n \in 0 .. 0 |-> 1]
    <3>1. h \in [0 .. 0 -> 1 .. MaxDelay] /\ Row(h, 0)
      BY <1>1
    <3> HIDE DEF h, Row
    <3> QED BY <2>4, <3>1
  <2>6. m - 1 \in 0 .. MaxDelay /\ m - 1 \notin Stuck
    <3>1. m - 1 \in 0 .. MaxDelay /\ ~(m <= m - 1)
      BY <1>1, <2>4, <2>5
    <3> HIDE DEF Stuck
    <3> QED BY <2>3, <3>1
  <2>7. PICK g \in [0 .. m - 1 -> 1 .. MaxDelay] : Row(g, m - 1)
    BY <2>6
  <2> DEFINE h == [n \in 0 .. m |-> IF n = m THEN Step(g, m) ELSE g[n]]
  <2>8. Step(g, m) \in 1 .. MaxDelay
    BY <1>1, <2>4, <2>5 DEF Smaller
  <2>9. h \in [0 .. m -> 1 .. MaxDelay]
    <3> HIDE DEF Step
    <3> QED BY <2>4, <2>5, <2>8
  <2>10. ASSUME NEW n \in 0 .. m PROVE h[n] = Step(h, n)
    <3>1. n > 1 => h[n - 1] = g[n - 1]
      <4> HIDE DEF Step
      <4> QED BY <2>4
    <3>2. CASE n = m
      BY <3>1, <3>2
    <3>3. CASE n # m
      BY <2>7, <3>1, <3>3, <2>4
    <3> QED BY <3>2, <3>3
  <2> QED BY <2>4, <2>9, <2>10
<1>3. f = [n \in 0 .. MaxDelay |-> Step(f, n)]
  <2>1. PICK g \in [0 .. MaxDelay -> 1 .. MaxDelay] : Row(g, MaxDelay)
    <3>1. MaxDelay \in 0 .. MaxDelay
      BY <1>1
    <3>2. MaxDelay \notin Stuck
      BY <1>2 DEF Stuck
    <3> QED BY <3>1, <3>2
  <2>2. g = [n \in 0 .. MaxDelay |-> Step(g, n)]
    BY <2>1
  <2> HIDE DEF Step
  <2> QED BY <2>2
<1>4. Delay = f
  BY DEF Delay
<1>5. Wrong = {}
  <2>1. SUFFICES ASSUME Wrong # {} PROVE FALSE
    OBVIOUS
  <2>2. Wrong \in SUBSET Nat
    OBVIOUS
  <2>3. PICK n \in Wrong : \A k \in Wrong : n <= k
    <3> HIDE DEF Wrong
    <3> QED BY <2>1, <2>2, LeastNumber
  <2> HIDE DEF f
  <2>4. f[n] = Step(f, n)
    BY <1>3
  <2>5. n > 1 => f[n - 1] \in 1 .. MaxDelay
    <3>1. n > 1 => n - 1 \in 0 .. MaxDelay /\ ~(n <= n - 1)
      BY <1>1
    <3>2. n > 1 => n - 1 \notin Wrong
      <4> HIDE DEF Wrong
      <4> QED BY <2>3, <3>1
    <3> QED BY <3>1, <3>2
  <2> QED BY <1>1, <2>4, <2>5 DEF Smaller
<1> HIDE DEF f
<1> QED BY <1>4, <1>5

----------------------------------------------------------------------------
(* Beginning and parts of the steps.                                          *)

LEMMA RestIs == Rest.pc = "rest" /\ Rest \in [pc : {"rest", "wait", "post"}, waits : SUBSET Items, due : Seq(Due), lag : 0 .. MaxDelay]
BY TelemetryAssumption DEF Rest

LEMMA NoJobIs == NoJob \in Job /\ NoJob.state = "none" /\ NoJob.age = 0
BY TelemetryAssumption DEF NoJob, Job

LEMMA TelemetryInitHolds == TelemetryInit => TelemetryInv
<1> SUFFICES ASSUME TelemetryInit PROVE TelemetryInv
  OBVIOUS
<1>1. jobs \in [Events -> Job] /\ \A e \in Events : jobs[e].state = "none"
  BY NoJobIs DEF TelemetryInit
<1>2. TelemetryTypes
  BY <1>1, RestIs DEF TelemetryInit, TelemetryTypes, TelemetryTypeOK, Job
<1>3. Once /\ Ordered /\ Settled
  BY <1>1 DEF TelemetryInit, Once, Happened, Ordered, Settled, DeliveredIsTrue, DeadAfterADay
<1>4. Sums
  BY TelemetryAssumption DEF TelemetryInit, Sums, Happened
<1>5. Listed
  BY RestIs DEF TelemetryInit, Listed
<1> QED BY <1>2, <1>3, <1>4, <1>5 DEF TelemetryInv

\* What the job of an event may do: it stays, and stays a day old.
JobsMove ==
  /\ jobs' \in [Events -> Job]
  /\ \A e \in Events : jobs'[e].state = "none" <=> jobs[e].state = "none"
  /\ \A e \in Events : jobs[e].age = DeadAfter => jobs'[e].age = DeadAfter

LEMMA OnceKept ==
  ASSUME TelemetryInv, JobsMove \/ UNCHANGED jobs, past'.order = past.order
  PROVE  Once' /\ Happened' = Happened
BY DEF TelemetryInv, Once, Happened, JobsMove

LEMMA ListedKept ==
  ASSUME TelemetryInv, JobsMove \/ UNCHANGED jobs,
         \A f \in Flushes : \/ flush'[f].pc = "post" => flush[f].pc = "post" /\ flush'[f].due = flush[f].due
  PROVE  Listed'
<1> SUFFICES ASSUME NEW f \in Flushes, flush'[f].pc = "post"
             PROVE  /\ flush'[f].due # <<>>
                    /\ \A i \in DOMAIN flush'[f].due :
                         /\ jobs'[flush'[f].due[i].event].state # "none"
                         /\ flush'[f].due[i].expired => jobs'[flush'[f].due[i].event].age = DeadAfter
  BY DEF Listed
<1>1. flush[f].pc = "post" /\ flush'[f].due = flush[f].due /\ flush[f].due \in Seq(Due)
  BY DEF TelemetryInv, TelemetryTypes
<1>2. ASSUME NEW i \in DOMAIN flush[f].due PROVE flush[f].due[i].event \in Events
  <2>1. flush[f].due[i] \in Due
    BY <1>1, <1>2
  <2> QED BY <2>1 DEF Due
<1> QED BY <1>1, <1>2 DEF TelemetryInv, Listed, JobsMove

LEMMA OrderedKept ==
  ASSUME TelemetryInv, UNCHANGED <<log, queue>>, past'.order = past.order
  PROVE  Ordered'
BY DEF TelemetryInv, Ordered, IsPast, Before

LEMMA SumsKept ==
  ASSUME TelemetryInv, UNCHANGED <<window, stored>>, past'.order = past.order, past'.lost = past.lost
  PROVE  Sums'
BY DEF TelemetryInv, Sums, Happened

----------------------------------------------------------------------------
(* Recording.                                                                 *)

LEMMA RecordKeeps ==
  ASSUME TelemetryInv, NEW e \in Events, Record(e)
  PROVE  TelemetryInv'
<1> DEFINE n == Len(past.order)
<1>1. /\ past.order \in Seq(Items) /\ n \in Nat /\ Item(e) \in Items /\ Item(e).event = e /\ Item(e).logger = logger
      /\ logger \in Nat /\ queue \in Seq(Items) /\ log \in Seq(Items)
  BY DEF TelemetryInv, TelemetryTypes, Item, Items
<1>2. past' = [past EXCEPT !.order = Append(@, Item(e))] /\ queue' = Append(queue, Item(e))
  BY DEF Record
<1>3. /\ past'.order = Append(past.order, Item(e)) /\ past'.received = past.received /\ past'.lost = past.lost
      /\ past' \in [order : Seq(Items), received : SUBSET Events, lost : SUBSET Events, faults : Nat]
  <2> DEFINE o == Append(past.order, Item(e))
  <2>1. o \in Seq(Items) /\ past' = [past EXCEPT !.order = o]
    BY <1>1, <1>2
  <2> HIDE DEF o
  <2>2. past' \in [order : Seq(Items), received : SUBSET Events, lost : SUBSET Events, faults : Nat] /\ past'.order = o
    BY <2>1 DEF TelemetryInv, TelemetryTypes
  <2>3. past'.received = past.received /\ past'.lost = past.lost
    BY <2>1 DEF TelemetryInv, TelemetryTypes
  <2> QED BY <2>2, <2>3 DEF o
<1>4. /\ DOMAIN past'.order = 1 .. n + 1 /\ past'.order[n + 1] = Item(e)
      /\ DOMAIN past.order = 1 .. n /\ \A i \in 1 .. n : past'.order[i] = past.order[i]
  BY <1>1, <1>3
<1>5. e \notin Happened /\ Happened' = Happened \cup {e}
  <2>1. e \notin Happened
    BY DEF Record, Happened
  <2>2. ASSUME NEW x \in Happened' PROVE x \in Happened \/ x = e
    <3>1. PICK i \in 1 .. n + 1 : x = past'.order[i].event
      BY <1>4 DEF Happened
    <3>2. i \in 1 .. n \/ i = n + 1
      BY <1>1
    <3>3. CASE i \in 1 .. n
      BY <1>4, <3>1, <3>3 DEF Happened
    <3>4. CASE i = n + 1
      BY <1>1, <1>4, <3>1, <3>4
    <3> QED BY <3>2, <3>3, <3>4
  <2>3. ASSUME NEW x \in Happened PROVE x \in Happened'
    <3>1. PICK i \in 1 .. n : x = past.order[i].event
      BY <1>4 DEF Happened
    <3>2. i \in DOMAIN past'.order /\ x = past'.order[i].event
      BY <3>1, <1>1, <1>4
    <3> QED BY <3>2 DEF Happened
  <2>4. e \in Happened'
    <3>1. n + 1 \in DOMAIN past'.order /\ e = past'.order[n + 1].event
      BY <1>1, <1>4
    <3> QED BY <3>1 DEF Happened
  <2> QED BY <2>1, <2>2, <2>3, <2>4
<1>6. jobs[e].state = "none"
  BY <1>5 DEF TelemetryInv, Once
<1>7. /\ jobs' \in [Events -> Job] /\ \A x \in Events \ {e} : jobs'[x] = jobs[x]
      /\ jobs'[e].state \in {"none", "pending"}
  <2>1. jobs \in [Events -> Job]
    BY DEF TelemetryInv, TelemetryTypes, TelemetryTypeOK, Job
  <2>2. [NoJob EXCEPT !.state = "pending"] \in Job /\ [NoJob EXCEPT !.state = "pending"].state = "pending"
    BY NoJobIs DEF Job
  <2>3. jobs' = Enqueued(e) \/ jobs' = jobs
    BY DEF Record
  <2> QED BY <1>6, <2>1, <2>2, <2>3 DEF Enqueued
<1>8. TelemetryTypes'
  <2>1. window' \subseteq Events /\ UNCHANGED <<stored, mode, logger, log, flush>>
    BY DEF Record, Observed, TelemetryInv, TelemetryTypes, TelemetryTypeOK
  <2>2. queue' \in Seq(Items)
    BY <1>1, <1>2
  <2> QED BY <1>3, <1>7, <2>1, <2>2 DEF TelemetryInv, TelemetryTypes, TelemetryTypeOK, Job
<1>9. Once'
  <2>1. ASSUME NEW i \in 1 .. n + 1, NEW j \in 1 .. n + 1, past'.order[i].event = past'.order[j].event PROVE i = j
    <3>1. ASSUME NEW k \in 1 .. n PROVE past'.order[k].event # e
      BY <1>4, <1>5, <3>1 DEF Happened
    <3> HIDE DEF n
    <3>2. n \in Nat
      BY <1>1
    <3>3. (i \in 1 .. n \/ i = n + 1) /\ (j \in 1 .. n \/ j = n + 1)
      BY <3>2
    <3> QED BY <2>1, <3>1, <3>3, <1>1, <1>4 DEF TelemetryInv, Once
  <2>2. ASSUME NEW x \in Events, jobs'[x].state # "none" PROVE x \in Happened'
    BY <1>5, <1>7, <2>2 DEF TelemetryInv, Once
  <2> HIDE DEF n
  <2> QED BY <1>4, <2>1, <2>2 DEF Once
<1>10. Sums'
  <2> SUFFICES ASSUME NEW x \in Counted
               PROVE  stored'[x] + (IF x \in window' THEN 1 ELSE 0) + (IF x \in past'.lost THEN 1 ELSE 0)
                      = IF x \in Happened' THEN 1 ELSE 0
    BY DEF Sums
  <2>1. stored' = stored /\ window' = window \cup ({e} \cap Counted)
    BY DEF Record, Observed
  <2>2. x \in Events /\ stored[x] \in Nat
    BY TelemetryAssumption DEF TelemetryInv, TelemetryTypes, TelemetryTypeOK
  <2>3. stored[x] + (IF x \in window THEN 1 ELSE 0) + (IF x \in past.lost THEN 1 ELSE 0)
                    = IF x \in Happened THEN 1 ELSE 0
    BY DEF TelemetryInv, Sums
  <2>4. CASE x = e
    BY <1>3, <1>5, <2>1, <2>2, <2>3, <2>4
  <2>5. CASE x # e
    <3>1. (x \in window' <=> x \in window) /\ (x \in Happened' <=> x \in Happened)
      BY <1>5, <2>1, <2>5
    <3> QED BY <1>3, <2>1, <2>2, <2>3, <3>1
  <2> QED BY <2>4, <2>5
<1>11. Listed'
  <2> SUFFICES ASSUME NEW f \in Flushes, flush[f].pc = "post"
               PROVE  /\ flush[f].due # <<>>
                      /\ \A i \in DOMAIN flush[f].due :
                           /\ jobs'[flush[f].due[i].event].state # "none"
                           /\ flush[f].due[i].expired => jobs'[flush[f].due[i].event].age = DeadAfter
    BY DEF Listed, Record
  <2>1. ASSUME NEW i \in DOMAIN flush[f].due
        PROVE  flush[f].due[i].event \in Events /\ flush[f].due[i].event # e
    <3>1. flush[f].due[i] \in Due
      BY <2>1 DEF TelemetryInv, TelemetryTypes
    <3> QED BY <1>6, <3>1, <2>1 DEF Due, TelemetryInv, Listed
  <2> QED BY <1>7, <2>1 DEF TelemetryInv, Listed
<1>12. Settled'
  BY <1>3, <1>7 DEF TelemetryInv, Settled, DeliveredIsTrue, DeadAfterADay
<1>13. Ordered'
  <2> DEFINE o == past.order  p == past'.order
  <2>1. ASSUME NEW a, IsPast(o, a) PROVE IsPast(p, a) /\ Before(p, a, Item(e))
    <3>1. PICK k \in 1 .. n : a = past.order[k]
      BY <1>4, <2>1 DEF IsPast
    <3>2. k \in 1 .. n + 1 /\ n + 1 \in 1 .. n + 1 /\ k < n + 1
      BY <1>1
    <3> HIDE DEF n
    <3> QED BY <1>4, <3>1, <3>2 DEF IsPast, Before
  <2>2. \A a, b : Before(o, a, b) => Before(p, a, b)
    <3> HIDE DEF n
    <3> QED BY <1>1, <1>4 DEF Before
  <2>3. IsPast(p, Item(e))
    <3>1. n + 1 \in 1 .. n + 1
      BY <1>1
    <3> HIDE DEF n
    <3> QED BY <1>4, <3>1 DEF IsPast
  <2> DEFINE m == Len(queue)
  <2>4. /\ log' = log /\ m \in Nat /\ DOMAIN queue' = 1 .. m + 1 /\ queue'[m + 1] = Item(e)
        /\ DOMAIN queue = 1 .. m /\ \A i \in 1 .. m : queue'[i] = queue[i]
    BY <1>1, <1>2 DEF Record
  <2>5. \A i \in 1 .. m + 1 : i \in 1 .. m \/ i = m + 1
    BY <2>4
  <2> HIDE DEF m, n
  <2>6. Ordered
    BY DEF TelemetryInv
  <2>7. ASSUME NEW i \in DOMAIN queue' PROVE IsPast(p, queue'[i])
    BY <2>1, <2>3, <2>4, <2>5, <2>6 DEF Ordered
  <2>8. ASSUME NEW i \in DOMAIN queue', NEW j \in DOMAIN queue', i < j PROVE Before(p, queue'[i], queue'[j])
    <3>1. i \in 1 .. m
      BY <2>4, <2>8
    <3>2. IsPast(o, queue[i]) /\ queue'[i] = queue[i]
      BY <2>4, <2>6, <3>1 DEF Ordered
    <3>3. CASE j = m + 1
      BY <2>1, <2>4, <3>2, <3>3
    <3>4. CASE j \in 1 .. m
      BY <2>2, <2>4, <2>6, <2>8, <3>1, <3>4 DEF Ordered
    <3> QED BY <2>4, <2>5, <3>3, <3>4
  <2>9. ASSUME NEW i \in DOMAIN log, NEW j \in DOMAIN queue', log[i].logger = queue'[j].logger
        PROVE  Before(p, log[i], queue'[j])
    <3>1. CASE j = m + 1
      BY <2>1, <2>4, <2>6, <3>1 DEF Ordered
    <3>2. CASE j \in 1 .. m
      BY <2>2, <2>4, <2>6, <2>9, <3>2 DEF Ordered
    <3> QED BY <2>4, <2>5, <3>1, <3>2
  <2>10. /\ \A i \in DOMAIN log : IsPast(p, log[i])
         /\ \A i, j \in DOMAIN log : i < j /\ log[i].logger = log[j].logger => Before(p, log[i], log[j])
    BY <2>1, <2>2, <2>6 DEF Ordered
  <2>11. log' = log
    BY <2>4
  <2> QED BY <2>7, <2>8, <2>9, <2>10, <2>11 DEF Ordered
<1> QED BY <1>8, <1>9, <1>10, <1>11, <1>12, <1>13 DEF TelemetryInv

----------------------------------------------------------------------------
(* Writing.                                                                   *)

\* What RemoveAt leaves of a sequence: its elements in their order.
LEMMA RemoveAtIs ==
  ASSUME NEW S, NEW s \in Seq(S), NEW i \in DOMAIN s
  PROVE  /\ RemoveAt(s, i) \in Seq(S) /\ DOMAIN RemoveAt(s, i) = 1 .. Len(s) - 1
         /\ \A k \in 1 .. Len(s) - 1 : RemoveAt(s, i)[k] = s[IF k < i THEN k ELSE k + 1]
<1> DEFINE a == SubSeq(s, 1, i - 1)
           b == SubSeq(s, i + 1, Len(s))
           n == Len(s)
<1>1. n \in Nat /\ i \in 1 .. n
  OBVIOUS
<1>2. a \in Seq(S) /\ Len(a) = i - 1 /\ \A k \in 1 .. i - 1 : a[k] = s[k]
  BY <1>1
<1>3. b \in Seq(S) /\ Len(b) = n - i /\ \A k \in 1 .. n - i : b[k] = s[i + k]
  BY <1>1
<1> HIDE DEF a, b
<1>4. a \o b \in Seq(S) /\ Len(a \o b) = n - 1
  BY <1>1, <1>2, <1>3
<1>5. ASSUME NEW k \in 1 .. n - 1 PROVE (a \o b)[k] = s[IF k < i THEN k ELSE k + 1]
  <2>1. CASE k < i
    BY <1>1, <1>2, <1>3, <2>1
  <2>2. CASE ~(k < i)
    <3>1. k - (i - 1) \in 1 .. n - i /\ i + (k - (i - 1)) = k + 1
      BY <1>1, <2>2
    <3> DEFINE la == Len(a)
               lb == Len(b)
    <3>2. la = i - 1 /\ k \in la + 1 .. la + lb
      BY <1>1, <1>2, <1>3, <2>2
    <3>3. \A j \in la + 1 .. la + lb : (a \o b)[j] = b[j - la]
      <4>1. a \in Seq(S) /\ b \in Seq(S) /\ la \in Nat /\ lb \in Nat
        BY <1>2, <1>3
      <4> QED BY <4>1
    <3>4. (a \o b)[k] = b[k - (i - 1)]
      BY <3>2, <3>3
    <3> QED BY <1>3, <2>2, <3>1, <3>4
  <2> QED BY <2>1, <2>2
<1>6. RemoveAt(s, i) = a \o b
  BY DEF RemoveAt, a, b
<1>7. DOMAIN (a \o b) = 1 .. n - 1
  BY <1>1, <1>4
<1> HIDE DEF n
<1>8. /\ RemoveAt(s, i) \in Seq(S) /\ DOMAIN RemoveAt(s, i) = 1 .. n - 1
      /\ \A k \in 1 .. n - 1 : RemoveAt(s, i)[k] = s[IF k < i THEN k ELSE k + 1]
  BY <1>4, <1>5, <1>6, <1>7
<1> QED BY <1>8 DEF n

LEMMA WriteLogKeeps ==
  ASSUME TelemetryInv, WriteLog
  PROVE  TelemetryInv'
<1>1. PICK i \in NextWrite :
        /\ queue' = RemoveAt(queue, i)
        /\ log' = log \/ log' = Append(log, queue[i])
  BY DEF WriteLog
<1> DEFINE o == past.order
           m == Len(queue)
           at(k) == IF k < i THEN k ELSE k + 1
<1>2. /\ queue \in Seq(Items) /\ log \in Seq(Items) /\ i \in DOMAIN queue /\ m \in Nat /\ DOMAIN queue = 1 .. m
      /\ queue[i] \in Items
  BY DEF TelemetryInv, TelemetryTypes, NextWrite
<1>3. queue' \in Seq(Items) /\ DOMAIN queue' = 1 .. m - 1 /\ \A k \in 1 .. m - 1 : queue'[k] = queue[at(k)]
  BY <1>1, <1>2, RemoveAtIs
<1>4. \A k \in 1 .. m - 1 : at(k) \in 1 .. m /\ at(k) # i
  BY <1>2
<1>5. \A j, k \in 1 .. m - 1 : j < k => at(j) < at(k)
  BY <1>2
<1>6. \A k \in 1 .. m - 1 : queue[at(k)].logger = queue[i].logger => i < at(k)
  <2> SUFFICES ASSUME NEW k \in 1 .. m - 1, queue[at(k)].logger = queue[i].logger PROVE i < at(k)
    OBVIOUS
  <2>1. \A j \in 1 .. i - 1 : queue[j].logger # queue[i].logger
    BY DEF NextWrite
  <2>2. at(k) \in Nat /\ at(k) >= 1 /\ i \in Nat
    BY <1>2
  <2> QED BY <1>4, <2>1, <2>2
<1>7. past' = past /\ UNCHANGED <<window, stored, logger, jobs, webhook, flush, mode>>
  BY DEF WriteLog
<1>8. log' \in Seq(Items)
  BY <1>1, <1>2
<1>9. TelemetryTypes'
  BY <1>3, <1>7, <1>8 DEF TelemetryInv, TelemetryTypes, TelemetryTypeOK
<1>10. Once' /\ Listed' /\ Sums' /\ Settled'
  BY <1>7 DEF TelemetryInv, Once, Happened, Listed, Sums, Settled, DeliveredIsTrue, DeadAfterADay
<1>11. Ordered'
  <2>1. Ordered
    BY DEF TelemetryInv
  <2>2. ASSUME NEW j \in DOMAIN queue' PROVE IsPast(o, queue'[j])
    BY <1>2, <1>3, <1>4, <2>1 DEF Ordered
  <2>3. ASSUME NEW j \in DOMAIN queue', NEW k \in DOMAIN queue', j < k PROVE Before(o, queue'[j], queue'[k])
    <3>1. at(j) \in 1 .. m /\ at(k) \in 1 .. m /\ at(j) < at(k) /\ queue'[j] = queue[at(j)] /\ queue'[k] = queue[at(k)]
      BY <1>3, <1>4, <1>5, <2>3
    <3> HIDE DEF at
    <3> QED BY <1>2, <2>1, <3>1 DEF Ordered
  <2>4. ASSUME NEW k \in DOMAIN queue', queue[i].logger = queue'[k].logger PROVE Before(o, queue[i], queue'[k])
    <3>1. at(k) \in 1 .. m /\ i < at(k) /\ queue'[k] = queue[at(k)]
      BY <1>3, <1>4, <1>6, <2>4
    <3> HIDE DEF at
    <3> QED BY <1>2, <2>1, <3>1 DEF Ordered
  <2>5. ASSUME NEW j \in DOMAIN log, NEW k \in DOMAIN queue', log[j].logger = queue'[k].logger
        PROVE  Before(o, log[j], queue'[k])
    <3>1. at(k) \in 1 .. m /\ queue'[k] = queue[at(k)]
      BY <1>3, <1>4
    <3> HIDE DEF at
    <3> QED BY <1>2, <2>1, <2>5, <3>1 DEF Ordered
  <2>6. CASE log' = log
    BY <1>7, <2>1, <2>2, <2>3, <2>5, <2>6 DEF Ordered
  <2>7. CASE log' = Append(log, queue[i])
    <3> DEFINE n == Len(log)
    <3>1. /\ n \in Nat /\ DOMAIN log = 1 .. n /\ DOMAIN log' = 1 .. n + 1
          /\ log'[n + 1] = queue[i] /\ \A j \in 1 .. n : log'[j] = log[j]
      BY <1>2, <2>7
    <3>2. \A j \in 1 .. n + 1 : j \in 1 .. n \/ j = n + 1
      BY <3>1
    <3> HIDE DEF n
    <3>3. ASSUME NEW j \in DOMAIN log' PROVE IsPast(o, log'[j])
      BY <1>2, <2>1, <3>1, <3>2 DEF Ordered
    <3>4. ASSUME NEW j \in DOMAIN log', NEW k \in DOMAIN log', j < k, log'[j].logger = log'[k].logger
          PROVE  Before(o, log'[j], log'[k])
      <4>1. j \in 1 .. n
        BY <3>1, <3>4
      <4>2. CASE k \in 1 .. n
        BY <2>1, <3>1, <3>4, <4>1, <4>2 DEF Ordered
      <4>3. CASE k = n + 1
        BY <1>2, <2>1, <3>1, <3>4, <4>1, <4>3 DEF Ordered
      <4> QED BY <3>1, <3>2, <4>2, <4>3
    <3>5. ASSUME NEW j \in DOMAIN log', NEW k \in DOMAIN queue', log'[j].logger = queue'[k].logger
          PROVE  Before(o, log'[j], queue'[k])
      <4>1. CASE j \in 1 .. n
        BY <2>5, <3>1, <3>5, <4>1
      <4>2. CASE j = n + 1
        BY <2>4, <3>1, <3>5, <4>2
      <4> QED BY <3>1, <3>2, <4>1, <4>2
    <3> QED BY <1>7, <2>2, <2>3, <3>3, <3>4, <3>5 DEF Ordered
  <2> QED BY <1>1, <2>6, <2>7
<1> QED BY <1>9, <1>10, <1>11 DEF TelemetryInv
----------------------------------------------------------------------------
(* Flushes.                                                                   *)

\* Draining moves what the window counts to the storage, or loses it.
LEMMA DrainKeeps ==
  ASSUME TelemetryInv, NEW written \in BOOLEAN, Drain(written)
  PROVE  /\ window' \subseteq Events /\ stored' \in [Events -> Nat]
         /\ past' \in [order : Seq(Items), received : SUBSET Events, lost : SUBSET Events, faults : Nat]
         /\ past'.order = past.order /\ past'.received = past.received
         /\ Sums'
<1>1. window \subseteq Events /\ stored \in [Events -> Nat]
  BY DEF TelemetryInv, TelemetryTypes, TelemetryTypeOK
<1>2. Recorded \in [Events -> Nat] /\ \A e \in Events : Recorded[e] = IF e \in window THEN stored[e] + 1 ELSE stored[e]
  BY <1>1 DEF Recorded
<1>3. /\ window' = {} /\ stored' = IF written THEN Recorded ELSE stored
      /\ past' \in [order : Seq(Items), received : SUBSET Events, lost : SUBSET Events, faults : Nat]
      /\ past'.order = past.order /\ past'.received = past.received
      /\ past'.lost = IF written THEN past.lost ELSE past.lost \cup window
  BY <1>1 DEF Drain, TelemetryInv, TelemetryTypes
<1>4. Happened' = Happened
  BY <1>3 DEF Happened
<1>5. Sums'
  <2> SUFFICES ASSUME NEW e \in Counted
               PROVE  stored'[e] + (IF e \in window' THEN 1 ELSE 0) + (IF e \in past'.lost THEN 1 ELSE 0)
                      = IF e \in Happened' THEN 1 ELSE 0
    BY DEF Sums
  <2>1. e \in Events /\ stored[e] \in Nat
    BY <1>1, TelemetryAssumption
  <2>2. stored[e] + (IF e \in window THEN 1 ELSE 0) + (IF e \in past.lost THEN 1 ELSE 0) = IF e \in Happened THEN 1 ELSE 0
    BY DEF TelemetryInv, Sums
  <2>3. e \notin window'
    BY <1>3
  <2>4. CASE written
    BY <1>2, <1>3, <1>4, <2>1, <2>2, <2>3, <2>4
  <2>5. CASE ~written
    BY <1>3, <1>4, <2>1, <2>2, <2>3, <2>5
  <2> QED BY <2>4, <2>5
<1> QED BY <1>1, <1>2, <1>3, <1>5

LEMMA FlushBeginsKeeps ==
  ASSUME TelemetryInv, NEW f \in Flushes, FlushBegins(f)
  PROVE  TelemetryInv'
<1> DEFINE row == [Rest EXCEPT !.pc = "wait", !.waits = ToSet(queue)]
<1>1. ToSet(queue) \subseteq Items
  BY DEF TelemetryInv, TelemetryTypes, ToSet
<1>2. row.pc = "wait" /\ row \in [pc : {"rest", "wait", "post"}, waits : SUBSET Items, due : Seq(Due), lag : 0 .. MaxDelay]
  BY <1>1, RestIs
<1>3. /\ flush' = [flush EXCEPT ![f] = row]
      /\ UNCHANGED <<window, stored, logger, queue, log, jobs, mode, past>>
  BY DEF FlushBegins
<1>4. TelemetryTypes'
  BY <1>2, <1>3 DEF TelemetryInv, TelemetryTypes, TelemetryTypeOK
<1>5. Listed'
  BY <1>2, <1>3, ListedKept DEF TelemetryInv, TelemetryTypes
<1>6. Once' /\ Sums' /\ Ordered' /\ Settled'
  BY <1>3, OnceKept, SumsKept, OrderedKept DEF TelemetryInv, Settled, DeliveredIsTrue, DeadAfterADay
<1> QED BY <1>4, <1>5, <1>6 DEF TelemetryInv

\* What a flush lists are due jobs.
LEMMA DueListIs ==
  ASSUME TelemetryInv, NEW order \in DueOrders
  PROVE  /\ DueList(order) \in Seq(Due) /\ (DueJobs # {} => DueList(order) # <<>>)
         /\ \A i \in DOMAIN DueList(order) :
              /\ jobs[DueList(order)[i].event].state # "none"
              /\ DueList(order)[i].expired => jobs[DueList(order)[i].event].age = DeadAfter
<1>1. DueJobs \subseteq Events /\ IsFiniteSet(DueJobs) /\ \A e \in DueJobs : jobs[e].state = "pending"
  BY TelemetryAssumption, FS_Subset DEF DueJobs
<1>2. Cardinality(DueJobs) \in Nat /\ (DueJobs # {} => Cardinality(DueJobs) # 0)
  BY <1>1, FS_CardinalityType, FS_EmptySet
<1> DEFINE n == Cardinality(DueJobs)
           entry(e) == [event |-> e, attempts |-> jobs[e].attempts, expired |-> Expired(jobs[e])]
<1>3. order \in [1 .. n -> DueJobs]
  BY DEF DueOrders
<1>4. \A e \in DueJobs : entry(e) \in Due /\ (entry(e).expired => jobs[e].age = DeadAfter)
  <2> SUFFICES ASSUME NEW e \in DueJobs PROVE entry(e) \in Due /\ (entry(e).expired => jobs[e].age = DeadAfter)
    OBVIOUS
  <2>1. e \in Events /\ jobs[e] \in Job
    BY <1>1 DEF TelemetryInv, TelemetryTypes, TelemetryTypeOK, Job
  <2>2. Expired(jobs[e]) \in BOOLEAN /\ (Expired(jobs[e]) => jobs[e].age = DeadAfter)
    BY <2>1, TelemetryAssumption DEF Expired, Job
  <2> QED BY <2>1, <2>2 DEF Due, Job
<1>5. DueList(order) = [i \in 1 .. n |-> entry(order[i])]
  BY <1>3 DEF DueList
<1> HIDE DEF n
<1>6. DueList(order) \in [1 .. n -> Due]
  BY <1>3, <1>4, <1>5
<1>7. DueList(order) \in Seq(Due) /\ DOMAIN DueList(order) = 1 .. n
  BY <1>2, <1>6 DEF n
<1>8. DueJobs # {} => DueList(order) # <<>>
  BY <1>2, <1>7 DEF n
<1>9. ASSUME NEW i \in 1 .. n
      PROVE  /\ jobs[DueList(order)[i].event].state # "none"
             /\ DueList(order)[i].expired => jobs[DueList(order)[i].event].age = DeadAfter
  <2>1. order[i] \in DueJobs /\ DueList(order)[i] = entry(order[i]) /\ entry(order[i]).event = order[i]
    BY <1>3, <1>5
  <2>2. jobs[order[i]].state # "none"
    BY <1>1, <2>1
  <2> HIDE DEF entry
  <2> QED BY <1>4, <2>1, <2>2
<1> QED BY <1>7, <1>8, <1>9

LEMMA FlushDrainsKeeps ==
  ASSUME TelemetryInv, NEW f \in Flushes, FlushDrains(f)
  PROVE  TelemetryInv'
<1> DEFINE Rows == [pc : {"rest", "wait", "post"}, waits : SUBSET Items, due : Seq(Due), lag : 0 .. MaxDelay]
           full(order) == [Rest EXCEPT !.pc = "post", !.due = DueList(order)]
<1>1. Drain(StorageOpen) /\ StorageOpen \in BOOLEAN /\ UNCHANGED <<logger, queue, log, jobs, mode>>
  BY DEF FlushDrains, StorageOpen
<1>2. PICK order \in DueOrders :
        flush' = [flush EXCEPT ![f] = IF webhook /\ StorageOpen /\ DueJobs # {} THEN full(order) ELSE Rest]
  BY DEF FlushDrains
<1>3. full(order) \in Rows /\ full(order).due = DueList(order)
  BY DueListIs, RestIs
<1>4. PICK row \in Rows : /\ flush' = [flush EXCEPT ![f] = row]
                          /\ row.pc = "post" => DueJobs # {} /\ row.due = DueList(order)
  BY <1>2, <1>3, RestIs
<1>5. /\ flush' \in [Flushes -> Rows] /\ flush'[f] = row /\ \A g \in Flushes \ {f} : flush'[g] = flush[g]
  BY <1>4 DEF TelemetryInv, TelemetryTypes
<1>6. /\ window' \subseteq Events /\ stored' \in [Events -> Nat]
      /\ past' \in [order : Seq(Items), received : SUBSET Events, lost : SUBSET Events, faults : Nat]
      /\ past'.order = past.order /\ past'.received = past.received
      /\ Sums'
  BY <1>1, DrainKeeps
<1>7. TelemetryTypes'
  BY <1>1, <1>5, <1>6 DEF TelemetryInv, TelemetryTypes, TelemetryTypeOK
<1>8. Once' /\ Ordered' /\ Settled'
  BY <1>1, <1>6, OnceKept, OrderedKept DEF TelemetryInv, Settled, DeliveredIsTrue, DeadAfterADay
<1>9. Listed'
  <2> SUFFICES ASSUME NEW g \in Flushes, flush'[g].pc = "post"
               PROVE  /\ flush'[g].due # <<>>
                      /\ \A i \in DOMAIN flush'[g].due :
                           /\ jobs[flush'[g].due[i].event].state # "none"
                           /\ flush'[g].due[i].expired => jobs[flush'[g].due[i].event].age = DeadAfter
    BY <1>1 DEF Listed
  <2>1. CASE g = f
    BY <1>4, <1>5, <2>1, DueListIs
  <2>2. CASE g # f
    BY <1>5, <2>2 DEF TelemetryInv, Listed
  <2> QED BY <2>1, <2>2
<1> QED BY <1>6, <1>7, <1>8, <1>9 DEF TelemetryInv

\* A row that is written from a listed one.
LEMMA RowsAre ==
  ASSUME NEW job \in Job, NEW due \in Due, NEW lag \in 0 .. MaxDelay
  PROVE  /\ Delivered(job, due) \in Job /\ Delivered(job, due).age = job.age
         /\ Failed(job, due, lag) \in Job /\ Failed(job, due, lag).age = job.age
         /\ Delivered(job, due).state = "delivered"
         /\ Failed(job, due, lag).state = IF due.expired THEN "dead-letter" ELSE "pending"
<1> DEFINE attempts == Smaller(due.attempts + 1, MaxDelay)
           wait == IF Delay[attempts] > lag THEN Delay[attempts] - lag ELSE 0
<1>1. attempts \in 0 .. MaxDelay
  BY TelemetryAssumption DEF Smaller, Due
<1>2. wait \in 0 .. MaxDelay
  <2>1. Delay[attempts] \in 1 .. MaxDelay
    <3> HIDE DEF attempts
    <3> QED BY <1>1, DelayType
  <2> QED BY <2>1, TelemetryAssumption
<1>3. Failed(job, due, lag) = IF due.expired THEN [job EXCEPT !.state = "dead-letter", !.attempts = attempts]
                              ELSE [job EXCEPT !.state = "pending", !.attempts = attempts, !.wait = wait]
  BY DEF Failed
<1>4. Delivered(job, due) = [job EXCEPT !.state = "delivered", !.attempts = attempts]
  BY DEF Delivered
<1> HIDE DEF attempts, wait
<1> QED BY <1>1, <1>2, <1>3, <1>4 DEF Job

LEMMA AnsweredKeeps ==
  ASSUME TelemetryInv, NEW f \in Flushes, NEW taken \in BOOLEAN, Answered(f, taken)
  PROVE  TelemetryInv'
<1> DEFINE Rows == [pc : {"rest", "wait", "post"}, waits : SUBSET Items, due : Seq(Due), lag : 0 .. MaxDelay]
           list == flush[f].due
           due == Head(list)
           e == due.event
           job == jobs[e]
<1>1. flush[f] \in Rows /\ list # <<>> /\ flush[f].lag \in 0 .. MaxDelay
  BY DEF TelemetryInv, TelemetryTypes, Listed, Answered
<1>2. due \in Due /\ e \in Events /\ job \in Job /\ due = list[1] /\ 1 \in DOMAIN list /\ list \in Seq(Due)
  <2>1. list \in Seq(Due) /\ due = list[1] /\ 1 \in DOMAIN list /\ due \in Due
    BY <1>1
  <2> QED BY <2>1 DEF Due, TelemetryInv, TelemetryTypes, TelemetryTypeOK, Job
<1>3. job.state # "none" /\ (due.expired => job.age = DeadAfter)
  BY <1>2 DEF TelemetryInv, Listed, Answered
<1>4. PICK ok \in Answers(taken) :
        /\ jobs' = Updated(e, IF ok THEN Delivered(job, due) ELSE Failed(job, due, flush[f].lag))
        /\ flush' = [flush EXCEPT ![f] = IF Tail(list) = <<>> \/ ~StorageOpen THEN Rest ELSE [@ EXCEPT !.due = Tail(list)]]
        /\ past' = IF taken THEN [past EXCEPT !.received = @ \cup {e}] ELSE past
  BY DEF Answered
<1>5. ok => taken
  BY DEF Answers
<1> DEFINE row == IF ok THEN Delivered(job, due) ELSE Failed(job, due, flush[f].lag)
<1>6. row \in Job /\ row.age = job.age /\ row.state \in {"delivered", "dead-letter", "pending"}
  <2>1. CASE ok
    BY <1>1, <1>2, <2>1, RowsAre
  <2>2. CASE ~ok
    <3> DEFINE lag == flush[f].lag
    <3>1. lag \in 0 .. MaxDelay
      BY <1>1
    <3>2. row = Failed(job, due, lag)
      BY <2>2
    <3> HIDE DEF row, lag, job, due
    <3>3. /\ Failed(job, due, lag) \in Job /\ Failed(job, due, lag).age = job.age
          /\ Failed(job, due, lag).state \in {"dead-letter", "pending"}
      BY <1>2, <3>1, RowsAre
    <3> QED BY <3>2, <3>3
  <2> QED BY <2>1, <2>2
<1>7. (row.state = "delivered" => taken) /\ (row.state = "dead-letter" => due.expired)
  BY <1>1, <1>2, <1>5, RowsAre
<1>8. /\ UNCHANGED <<window, stored, logger, queue, log, webhook, mode>>
      /\ past'.order = past.order /\ past'.lost = past.lost /\ past.received \subseteq past'.received
      /\ taken => e \in past'.received
      /\ past' \in [order : Seq(Items), received : SUBSET Events, lost : SUBSET Events, faults : Nat]
  BY <1>2, <1>4 DEF Answered, TelemetryInv, TelemetryTypes
<1> HIDE DEF row, job, e, due
<1>9. jobs' = jobs \/ jobs' = [jobs EXCEPT ![e] = row]
  BY <1>4 DEF Updated, row
<1>10. /\ jobs' \in [Events -> Job] /\ \A x \in Events \ {e} : jobs'[x] = jobs[x]
       /\ jobs'[e] = job \/ jobs'[e] = row
  <2>1. jobs \in [Events -> Job]
    BY DEF TelemetryInv, TelemetryTypes, TelemetryTypeOK, Job
  <2>2. CASE jobs' = jobs
    BY <2>1, <2>2 DEF job
  <2>3. CASE jobs' = [jobs EXCEPT ![e] = row]
    BY <1>2, <1>6, <2>1, <2>3
  <2> QED BY <1>9, <2>2, <2>3
<1>11. JobsMove
  BY <1>3, <1>6, <1>10 DEF JobsMove, job
<1>12. /\ flush' \in [Flushes -> Rows] /\ \A g \in Flushes \ {f} : flush'[g] = flush[g]
       /\ \/ flush'[f] = Rest
          \/ Tail(list) # <<>> /\ flush'[f].due = Tail(list)
  <2>1. Tail(list) \in Seq(Due)
    BY <1>1, <1>2
  <2>2. [flush[f] EXCEPT !.due = Tail(list)] \in Rows /\ [flush[f] EXCEPT !.due = Tail(list)].due = Tail(list)
    <3> HIDE DEF list
    <3> QED BY <1>1, <2>1
  <2> QED BY <1>4, <2>2, RestIs DEF TelemetryInv, TelemetryTypes
<1>13. TelemetryTypes'
  BY <1>8, <1>10, <1>12 DEF TelemetryInv, TelemetryTypes, TelemetryTypeOK, Job
<1>14. Once' /\ Sums' /\ Ordered'
  BY <1>8, <1>11, OnceKept, SumsKept, OrderedKept
<1>15. Settled'
  BY <1>3, <1>6, <1>7, <1>8, <1>10 DEF TelemetryInv, Settled, DeliveredIsTrue, DeadAfterADay, job
<1>16. Listed'
  <2> SUFFICES ASSUME NEW g \in Flushes, flush'[g].pc = "post"
               PROVE  /\ flush'[g].due # <<>>
                      /\ \A i \in DOMAIN flush'[g].due :
                           /\ jobs'[flush'[g].due[i].event].state # "none"
                           /\ flush'[g].due[i].expired => jobs'[flush'[g].due[i].event].age = DeadAfter
    BY DEF Listed
  <2>1. CASE g = f
    <3>1. flush'[f].due = Tail(list) /\ Tail(list) # <<>>
      BY <1>12, <2>1, RestIs
    <3>2. ASSUME NEW i \in DOMAIN Tail(list) PROVE i + 1 \in DOMAIN list /\ Tail(list)[i] = list[i + 1]
      BY <1>1, <1>2
    <3>3. ASSUME NEW i \in DOMAIN list
          PROVE  /\ list[i].event \in Events /\ jobs[list[i].event].state # "none"
                 /\ list[i].expired => jobs[list[i].event].age = DeadAfter
      <4>1. list[i] \in Due
        BY <1>2
      <4> QED BY <4>1, <3>3 DEF Due, TelemetryInv, Listed, Answered
    <3> HIDE DEF list
    <3> QED BY <1>11, <2>1, <3>1, <3>2, <3>3 DEF JobsMove
  <2>2. CASE g # f
    <3>1. flush'[g] = flush[g] /\ flush[g].due \in Seq(Due)
      BY <1>12, <2>2 DEF TelemetryInv, TelemetryTypes
    <3>2. ASSUME NEW i \in DOMAIN flush[g].due PROVE flush[g].due[i].event \in Events
      <4>1. flush[g].due[i] \in Due
        BY <3>1, <3>2
      <4> QED BY <4>1 DEF Due
    <3> QED BY <1>11, <3>1, <3>2 DEF TelemetryInv, Listed, JobsMove
  <2> QED BY <2>1, <2>2
<1> QED BY <1>13, <1>14, <1>15, <1>16 DEF TelemetryInv

----------------------------------------------------------------------------
(* The other steps.                                                           *)

LEMMA FaultCounted ==
  ASSUME TelemetryInv, past' = [past EXCEPT !.faults = @ + 1]
  PROVE  /\ past'.order = past.order /\ past'.lost = past.lost /\ past'.received = past.received
         /\ past' \in [order : Seq(Items), received : SUBSET Events, lost : SUBSET Events, faults : Nat]
<1>1. past.faults + 1 \in Nat
  BY DEF TelemetryInv, TelemetryTypes
<1> QED BY <1>1 DEF TelemetryInv, TelemetryTypes

LEMMA RetryKeeps ==
  ASSUME TelemetryInv, NEW e \in Events, Retry(e)
  PROVE  TelemetryInv'
<1> DEFINE row == [jobs[e] EXCEPT !.state = "pending", !.attempts = 0, !.wait = 0]
<1>1. jobs[e] \in Job /\ jobs[e].state # "none"
  BY DEF Retry, TelemetryInv, TelemetryTypes, TelemetryTypeOK, Job
<1>2. row \in Job /\ row.age = jobs[e].age /\ row.state = "pending"
  <2>1. 0 \in 0 .. MaxDelay
    BY TelemetryAssumption
  <2> QED BY <1>1, <2>1 DEF Job
<1> HIDE DEF row
<1>3. /\ jobs' = [jobs EXCEPT ![e] = row]
      /\ UNCHANGED <<window, stored, logger, queue, log, flush, mode>>
      /\ past'.order = past.order /\ past'.lost = past.lost /\ past'.received = past.received
      /\ past' \in [order : Seq(Items), received : SUBSET Events, lost : SUBSET Events, faults : Nat]
  <2>1. past' = [past EXCEPT !.faults = @ + 1]
    BY DEF Retry
  <2> QED BY <2>1, FaultCounted DEF row, Retry
<1>4. jobs' \in [Events -> Job] /\ jobs'[e] = row /\ \A x \in Events \ {e} : jobs'[x] = jobs[x]
  BY <1>2, <1>3 DEF TelemetryInv, TelemetryTypes, TelemetryTypeOK, Job
<1>5. JobsMove
  BY <1>1, <1>2, <1>4 DEF JobsMove
<1>6. TelemetryTypes'
  BY <1>3, <1>4 DEF TelemetryInv, TelemetryTypes, TelemetryTypeOK, Job
<1>7. Once' /\ Sums' /\ Ordered' /\ Listed'
  BY <1>3, <1>5, OnceKept, SumsKept, OrderedKept, ListedKept
<1>8. Settled'
  BY <1>2, <1>3, <1>4 DEF TelemetryInv, Settled, DeliveredIsTrue, DeadAfterADay
<1> QED BY <1>6, <1>7, <1>8 DEF TelemetryInv

LEMMA TelemetryTickKeeps ==
  ASSUME TelemetryInv, Tick
  PROVE  TelemetryInv'
<1> DEFINE older(job) == [job EXCEPT !.age = Smaller(@ + 1, DeadAfter), !.wait = IF @ = 0 THEN 0 ELSE @ - 1]
           later(row) == [row EXCEPT !.lag = Smaller(@ + 1, MaxDelay)]
           Rows == [pc : {"rest", "wait", "post"}, waits : SUBSET Items, due : Seq(Due), lag : 0 .. MaxDelay]
<1>1. jobs' = [e \in Events |-> IF jobs[e].state = "none" THEN jobs[e] ELSE older(jobs[e])]
  BY DEF Tick
<1>2. flush' = [f \in Flushes |-> IF flush[f].pc # "post" THEN flush[f] ELSE later(flush[f])]
  BY DEF Tick
<1>3. \A job \in Job : /\ older(job) \in Job /\ older(job).state = job.state
                       /\ job.age = DeadAfter => older(job).age = DeadAfter
  <2> SUFFICES ASSUME NEW job \in Job
               PROVE  /\ older(job) \in Job /\ older(job).state = job.state
                      /\ job.age = DeadAfter => older(job).age = DeadAfter
    OBVIOUS
  <2>1. Smaller(job.age + 1, DeadAfter) \in 0 .. DeadAfter /\ (job.age = DeadAfter => Smaller(job.age + 1, DeadAfter) = DeadAfter)
    BY TelemetryAssumption DEF Smaller, Job
  <2>2. (IF job.wait = 0 THEN 0 ELSE job.wait - 1) \in 0 .. MaxDelay
    BY TelemetryAssumption DEF Job
  <2> QED BY <2>1, <2>2 DEF Job
<1>4. \A row \in Rows : later(row) \in Rows /\ later(row).pc = row.pc /\ later(row).due = row.due
  <2> SUFFICES ASSUME NEW row \in Rows PROVE later(row) \in Rows /\ later(row).pc = row.pc /\ later(row).due = row.due
    OBVIOUS
  <2>1. Smaller(row.lag + 1, MaxDelay) \in 0 .. MaxDelay
    BY TelemetryAssumption DEF Smaller
  <2> QED BY <2>1
<1> HIDE DEF older, later
<1>5. jobs \in [Events -> Job] /\ flush \in [Flushes -> Rows]
  BY DEF TelemetryInv, TelemetryTypes, TelemetryTypeOK, Job
<1>6. JobsMove /\ \A e \in Events : jobs'[e].state = jobs[e].state
  BY <1>1, <1>3, <1>5 DEF JobsMove
<1>7. flush' \in [Flushes -> Rows] /\ \A f \in Flushes : flush'[f].pc = flush[f].pc /\ flush'[f].due = flush[f].due
  BY <1>2, <1>4, <1>5
<1>8. UNCHANGED <<window, stored, logger, queue, log, webhook, mode, past>>
  BY DEF Tick
<1>9. TelemetryTypes'
  BY <1>6, <1>7, <1>8 DEF JobsMove, TelemetryInv, TelemetryTypes, TelemetryTypeOK, Job
<1>10. Once' /\ Sums' /\ Ordered' /\ Listed'
  BY <1>6, <1>7, <1>8, OnceKept, SumsKept, OrderedKept, ListedKept
<1>11. Settled'
  BY <1>6, <1>8 DEF TelemetryInv, Settled, DeliveredIsTrue, DeadAfterADay, JobsMove
<1> QED BY <1>9, <1>10, <1>11 DEF TelemetryInv

\* The steps of closing and opening, but for the last drain.
LEMMA ClosingKeeps ==
  ASSUME TelemetryInv, SetWebhook \/ CloseBegins \/ LoggerCloses \/ StorageCloses \/ Reload
  PROVE  TelemetryInv'
<1>1. /\ UNCHANGED <<window, stored, queue, log, jobs, flush>>
      /\ mode' \in {"open", "closing", "logger", "closed", "restoring", "stuck"} /\ logger' \in Nat
      /\ past'.order = past.order /\ past'.lost = past.lost /\ past'.received = past.received
      /\ past' \in [order : Seq(Items), received : SUBSET Events, lost : SUBSET Events, faults : Nat]
  <2>1. past' = past \/ past' = [past EXCEPT !.faults = @ + 1]
    BY DEF SetWebhook, CloseBegins, LoggerCloses, StorageCloses, Reload
  <2>2. /\ UNCHANGED <<window, stored, queue, log, jobs, flush>> /\ (logger' = logger \/ logger' = logger + 1)
        /\ mode' = mode \/ mode' \in {"open", "closing", "logger", "closed", "restoring", "stuck"}
    BY DEF SetWebhook, CloseBegins, LoggerCloses, StorageCloses, Reload
  <2> QED BY <2>1, <2>2, FaultCounted DEF TelemetryInv, TelemetryTypes, TelemetryTypeOK
<1>2. TelemetryTypes'
  BY <1>1 DEF TelemetryInv, TelemetryTypes, TelemetryTypeOK
<1>3. Once' /\ Sums' /\ Ordered' /\ Listed'
  BY <1>1, OnceKept, SumsKept, OrderedKept, ListedKept
<1>4. Settled'
  BY <1>1 DEF TelemetryInv, Settled, DeliveredIsTrue, DeadAfterADay
<1> QED BY <1>2, <1>3, <1>4 DEF TelemetryInv

LEMMA CloseDrainsKeeps ==
  ASSUME TelemetryInv, CloseDrains
  PROVE  TelemetryInv'
<1>1. Drain(TRUE) /\ mode' = "logger" /\ UNCHANGED <<logger, queue, log, jobs, webhook, flush>>
  BY DEF CloseDrains
<1>2. /\ window' \subseteq Events /\ stored' \in [Events -> Nat]
      /\ past' \in [order : Seq(Items), received : SUBSET Events, lost : SUBSET Events, faults : Nat]
      /\ past'.order = past.order /\ past'.received = past.received
      /\ Sums'
  BY <1>1, DrainKeeps
<1>3. TelemetryTypes'
  BY <1>1, <1>2 DEF TelemetryInv, TelemetryTypes, TelemetryTypeOK
<1>4. Once' /\ Ordered' /\ Listed'
  BY <1>1, <1>2, OnceKept, OrderedKept, ListedKept
<1>5. Settled'
  BY <1>1, <1>2 DEF TelemetryInv, Settled, DeliveredIsTrue, DeadAfterADay
<1> QED BY <1>2, <1>3, <1>4, <1>5 DEF TelemetryInv

LEMMA CrashKeeps ==
  ASSUME TelemetryInv, Crash
  PROVE  TelemetryInv'
<1>1. /\ window' = {} /\ queue' = <<>> /\ mode' = "open" /\ flush' = [f \in Flushes |-> Rest]
      /\ UNCHANGED <<stored, logger, log, jobs, webhook>>
      /\ past'.order = past.order /\ past'.received = past.received /\ past'.lost = past.lost \cup window
      /\ past' \in [order : Seq(Items), received : SUBSET Events, lost : SUBSET Events, faults : Nat]
  <2>1. past' = [past EXCEPT !.faults = @ + 1, !.lost = @ \cup window] /\ window \subseteq Events
    BY DEF Crash, TelemetryInv, TelemetryTypes, TelemetryTypeOK
  <2>2. past.faults + 1 \in Nat /\ past.lost \cup window \in SUBSET Events
    BY <2>1 DEF TelemetryInv, TelemetryTypes
  <2> QED BY <2>1, <2>2 DEF Crash, TelemetryInv, TelemetryTypes
<1>2. TelemetryTypes'
  BY <1>1, RestIs DEF TelemetryInv, TelemetryTypes, TelemetryTypeOK
<1>3. Once' /\ Listed'
  BY <1>1, OnceKept, ListedKept, RestIs
<1>4. Settled'
  BY <1>1 DEF TelemetryInv, Settled, DeliveredIsTrue, DeadAfterADay
<1>5. Sums'
  <2> SUFFICES ASSUME NEW e \in Counted
               PROVE  stored'[e] + (IF e \in window' THEN 1 ELSE 0) + (IF e \in past'.lost THEN 1 ELSE 0)
                      = IF e \in Happened' THEN 1 ELSE 0
    BY DEF Sums
  <2>1. e \in Events /\ stored[e] \in Nat
    BY TelemetryAssumption DEF TelemetryInv, TelemetryTypes, TelemetryTypeOK
  <2>2. stored[e] + (IF e \in window THEN 1 ELSE 0) + (IF e \in past.lost THEN 1 ELSE 0) = IF e \in Happened THEN 1 ELSE 0
    BY DEF TelemetryInv, Sums
  <2>3. e \notin window' /\ Happened' = Happened
    BY <1>1 DEF Happened
  <2> QED BY <1>1, <2>1, <2>2, <2>3
<1>6. Ordered'
  BY <1>1 DEF TelemetryInv, Ordered
<1> QED BY <1>2, <1>3, <1>4, <1>5, <1>6 DEF TelemetryInv

LEMMA TelemetryStepKeeps == TelemetryInv /\ [TelemetryNext]_telemetryVars => TelemetryInv'
<1> SUFFICES ASSUME TelemetryInv, [TelemetryNext]_telemetryVars PROVE TelemetryInv'
  OBVIOUS
<1>1. CASE WriteLog
  BY <1>1, WriteLogKeeps
<1>2. CASE Closing
  BY <1>2, ClosingKeeps, CloseDrainsKeeps DEF Closing
<1>3. ASSUME NEW f \in Flushes, FlushStep(f) PROVE TelemetryInv'
  BY <1>3, FlushBeginsKeeps, FlushDrainsKeeps, AnsweredKeeps DEF FlushStep
<1>4. ASSUME NEW e \in Events, Record(e) \/ Retry(e) PROVE TelemetryInv'
  BY <1>4, RecordKeeps, RetryKeeps
<1>5. CASE SetWebhook \/ CloseBegins
  BY <1>5, ClosingKeeps
<1>6. CASE Tick \/ Crash
  BY <1>6, TelemetryTickKeeps, CrashKeeps
<1>7. CASE UNCHANGED telemetryVars
  <2>1. UNCHANGED <<window, stored, logger, queue, log, jobs, flush, mode, past>>
    BY <1>7 DEF telemetryVars
  <2> QED BY <2>1, OnceKept, SumsKept, OrderedKept, ListedKept
          DEF TelemetryInv, TelemetryTypes, TelemetryTypeOK, Settled, DeliveredIsTrue, DeadAfterADay
<1> QED BY <1>1, <1>2, <1>3, <1>4, <1>5, <1>6, <1>7 DEF TelemetryNext

\* An event that happened once is counted once.
LEMMA SumsMean == TelemetryInv => CountedOnce
<1> SUFFICES ASSUME TelemetryInv, NEW e \in Counted
             PROVE  stored[e] + (IF e \in window THEN 1 ELSE 0) + (IF e \in past.lost THEN 1 ELSE 0)
                    = Cardinality({i \in DOMAIN past.order : past.order[i].event = e})
  BY DEF CountedOnce
<1> DEFINE places == {i \in DOMAIN past.order : past.order[i].event = e}
<1>1. CASE e \in Happened
  <2>1. PICK i \in DOMAIN past.order : past.order[i].event = e
    BY <1>1 DEF Happened
  <2>2. places = {i}
    BY <2>1 DEF TelemetryInv, Once
  <2>3. Cardinality(places) = 1
    BY <2>2, FS_Singleton
  <2> QED BY <1>1, <2>3 DEF TelemetryInv, Sums
<1>2. CASE e \notin Happened
  <2>1. places = {}
    BY <1>2 DEF Happened
  <2>2. Cardinality(places) = 0
    BY <2>1, FS_EmptySet
  <2> QED BY <1>2, <2>2 DEF TelemetryInv, Sums
<1> QED BY <1>1, <1>2

LEMMA TelemetryInvariance == TelemetrySpec => []TelemetryInv
<1>1. TelemetryInit /\ [][TelemetryNext]_telemetryVars => []TelemetryInv
  BY TelemetryInitHolds, TelemetryStepKeeps, PTL
<1>2. TelemetrySpec => TelemetryInit /\ [][TelemetryNext]_telemetryVars
  BY PTL DEF TelemetrySpec
<1> QED BY <1>1, <1>2, PTL

\* What SQLite says of alerts and counts is what happened to them: whichever
\* flushes, maintenances and crashes overlap, a delivered alert was received, a
\* dead letter is a day old, and no event is counted twice or forgotten.
THEOREM StorageStaysTrue == TelemetrySpec => []StorageIsTrue
<1>1. TelemetryInv => StorageIsTrue
  BY SumsMean DEF TelemetryInv, TelemetryTypes, Settled, StorageIsTrue
<1> QED BY <1>1, TelemetryInvariance, PTL

\* The log has the events of each pipeline in the order in which they happened,
\* though writes fail one by one and the next pipeline starts before they end.
THEOREM LogKeepsOrder == TelemetrySpec => []LogInOrder
<1>1. TelemetryInv => LogInOrder
  BY DEF TelemetryInv, Ordered, Before, LogInOrder
<1> QED BY <1>1, TelemetryInvariance, PTL
=============================================================================
