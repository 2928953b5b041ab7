------------------------- MODULE PolicySubscriptions -------------------------
(***************************************************************************)
(* class PolicySubscriptionManager of src/src/dns/policy-subscriptions.js  *)
(* with one subscription id, and the policy store it publishes to.         *)
(*                                                                         *)
(* Calls of start, pause, replace, refresh and close come from the runtime *)
(* in any order, and replace is not awaited by its caller, so calls of     *)
(* start and replace overlap: awaiting holds those that wait for the disk. *)
(* A list is told by the URL it was fetched from.  A subscription object   *)
(* is its URL: the one a timer was armed with may be an old one.           *)
(***************************************************************************)
EXTENDS Naturals, FiniteSets

CONSTANTS
    Urls,    \* URLs the subscription is configured with
    None,    \* no list, no timer, no refresh
    Slots    \* bound: calls of start and replace under way at a time

ASSUME NoneAssumption == None \notin Urls

VARIABLES
    subscription, \* this.subscriptions: the one of this id
    active,       \* this.active
    closed,       \* this.closed
    cached,       \* this.cached: where the list in memory is from
    file,         \* where the list in the cache file is from
    published,    \* where the list in the policy store is from
    refresh,      \* this.refreshes: URL of the operation under way
    timer,        \* this.timers: the subscription the armed timer is for
    callbacks,    \* subscriptions of timer callbacks that await a refresh
    awaiting      \* calls of start and replace that await the disk

listVars == <<subscription, active, closed, cached, file, published, refresh, timer, callbacks, awaiting>>

Lists == Urls \union {None}

\* Not configured, disabled, or enabled with a URL.
Absent == [url |-> None, enabled |-> FALSE]
Configurations == [url: Urls, enabled: BOOLEAN] \union {Absent}

NoTask == [stage |-> "none"]

\* A call awaits mkdir, or the cache file of a subscription, or holds what it
\* read from it.
Calls == {"start", "replace"}
Task ==
    {NoTask}
    \union [stage: {"mkdir"}, call: Calls, restart: BOOLEAN]
    \union [stage: {"load"}, call: Calls, restart: BOOLEAN, for: Lists]
    \union [stage: {"read"}, call: Calls, restart: BOOLEAN, for: Lists, good: BOOLEAN]

ListsInit ==
    /\ subscription \in Configurations
    /\ active = FALSE
    /\ closed = FALSE
    /\ cached = None
    /\ file \in Lists   \* left by an earlier process
    /\ published = None
    /\ refresh = None
    /\ timer = None
    /\ callbacks = {}
    /\ awaiting = [s \in Slots |-> NoTask]

-----------------------------------------------------------------------------
(* Parts of the operations.                                                *)

Free(s) == awaiting[s] = NoTask
Becomes(s, t) == awaiting' = [awaiting EXCEPT ![s] = t]

\* rebuild() with the list c in memory.
Rebuilt(c) == IF subscription.enabled THEN c ELSE None

\* Faulty variant: a manager that is paused or closed is not noticed.
ArrangedAlways(u, isActive) == u

\* arrange(subscription): the armed timer is replaced.
Arranged(u, isActive) == IF isActive /\ ~closed THEN u ELSE timer

\* refresh(id): join the operation under way or start one for the current
\* configuration, enabled or not; without one it throws at once.
Refreshed == IF refresh # None THEN refresh ELSE subscription.url

\* start() throws when closed and returns when active.
MayStart == ~closed /\ ~active

StartTask == [stage |-> "mkdir", call |-> "start", restart |-> FALSE]

-----------------------------------------------------------------------------
(* The calls of the runtime and the administration.                        *)

Start(s) ==
    /\ Free(s)
    /\ MayStart
    /\ active' = TRUE
    /\ Becomes(s, StartTask)
    /\ UNCHANGED <<subscription, closed, cached, file, published, refresh, timer, callbacks>>

Pause ==
    /\ active
    /\ active' = FALSE
    /\ timer' = None
    /\ UNCHANGED <<subscription, closed, cached, file, published, refresh, callbacks, awaiting>>

\* The listener of a configuration change publishes the local rules alone and
\* calls replace(), which pauses the manager and forgets the lists.
Replace(s, c) ==
    /\ Free(s)
    /\ subscription' = c
    /\ active' = FALSE
    /\ timer' = None
    /\ cached' = None
    /\ published' = None
    /\ Becomes(s, [stage |-> "mkdir", call |-> "replace", restart |-> active])
    /\ UNCHANGED <<closed, file, refresh, callbacks>>

ManualRefresh ==
    /\ refresh = None
    /\ subscription # Absent
    /\ refresh' = Refreshed
    /\ UNCHANGED <<subscription, active, closed, cached, file, published, timer, callbacks, awaiting>>

Close ==
    /\ ~closed
    /\ closed' = TRUE
    /\ active' = FALSE
    /\ timer' = None
    /\ UNCHANGED <<subscription, cached, file, published, refresh, callbacks, awaiting>>

-----------------------------------------------------------------------------
(* start and replace after each of their awaits.                           *)

\* The directory exists; loadCache is called for an enabled subscription.
MkdirDone(s) ==
    /\ awaiting[s].stage = "mkdir"
    /\ LET t == awaiting[s]
       IN  Becomes(s, [ stage |-> "load", call |-> t.call, restart |-> t.restart,
                        for |-> IF subscription.enabled THEN subscription.url ELSE None ])
    /\ UNCHANGED <<subscription, active, closed, cached, file, published, refresh, timer, callbacks>>

\* readFile has taken what the file holds; its result is handled later.
\* loadCache accepts a file of the URL it was called for only.
FileRead(s) ==
    /\ awaiting[s].stage = "load"
    /\ LET t == awaiting[s]
       IN  Becomes(s, [ stage |-> "read", call |-> t.call, restart |-> t.restart,
                        for |-> t.for, good |-> t.for # None /\ file = t.for ])
    /\ UNCHANGED <<subscription, active, closed, cached, file, published, refresh, timer, callbacks>>

Loaded(t) == IF t.good THEN t.for ELSE cached

\* start(): rebuild, then arrange and refresh the enabled subscription; a
\* manager that was paused meanwhile refreshes all the same.
StartDone(s) ==
    /\ awaiting[s].stage = "read"
    /\ awaiting[s].call = "start"
    /\ cached' = Loaded(awaiting[s])
    /\ published' = Rebuilt(cached')
    /\ IF subscription.enabled
       THEN timer' = Arranged(subscription.url, active) /\ refresh' = Refreshed
       ELSE UNCHANGED <<timer, refresh>>
    /\ Becomes(s, NoTask)
    /\ UNCHANGED <<subscription, active, closed, file, callbacks>>

\* replace(): rebuild, then start() if the manager was active.
ReplaceDone(s) ==
    /\ awaiting[s].stage = "read"
    /\ awaiting[s].call = "replace"
    /\ cached' = Loaded(awaiting[s])
    /\ published' = Rebuilt(cached')
    /\ IF awaiting[s].restart /\ MayStart
       THEN active' = TRUE /\ Becomes(s, StartTask)
       ELSE Becomes(s, NoTask) /\ UNCHANGED active
    /\ UNCHANGED <<subscription, closed, file, refresh, timer, callbacks>>

-----------------------------------------------------------------------------
(* Timers and refreshes.                                                   *)

\* The callback awaits the refresh; without a configured subscription that
\* throws at once and the callback arms the timer again.
TimerFires ==
    /\ timer # None
    /\ Refreshed # None
    /\ refresh' = Refreshed
    /\ callbacks' = callbacks \union {timer}
    /\ timer' = None
    /\ UNCHANGED <<subscription, active, closed, cached, file, published, awaiting>>

\* Faulty variant: the timer is not armed again.
NotRearmed == timer' = timer

\* The callbacks that awaited the refresh arrange their own subscription, one
\* after the other; the last of them has the timer.
Rearmed ==
    IF callbacks = {} THEN timer' = timer
    ELSE \E u \in callbacks : timer' = Arranged(u, active)

RefreshOver ==
    /\ refresh # None
    /\ refresh' = None
    /\ callbacks' = {}
    /\ Rearmed
    /\ UNCHANGED <<subscription, active, closed, awaiting>>

\* Faulty variant: the new list is not published.
PublishedLater == published

\* The list was fetched and written: it becomes the list in memory whatever
\* the subscription has become since.
PublishedNow == Rebuilt(refresh)

RefreshSucceeds ==
    /\ RefreshOver
    /\ file' = refresh
    /\ cached' = refresh
    /\ published' = PublishedNow

\* The fetch failed, or writing the file did.
RefreshFails == RefreshOver /\ UNCHANGED <<file, cached, published>>

-----------------------------------------------------------------------------

ListsNext ==
    \/ \E s \in Slots :
          \/ Start(s)
          \/ \E c \in Configurations : Replace(s, c)
          \/ MkdirDone(s)
          \/ FileRead(s)
          \/ StartDone(s)
          \/ ReplaceDone(s)
    \/ Pause
    \/ ManualRefresh
    \/ Close
    \/ TimerFires
    \/ RefreshSucceeds
    \/ RefreshFails

ListsSpec == ListsInit /\ [][ListsNext]_listVars

Continue(s) == MkdirDone(s) \/ FileRead(s) \/ StartDone(s) \/ ReplaceDone(s)

\* The file system answers, timers fire, fetch has its own timeouts, and a
\* list that is asked for again and again is delivered in the end.
ListsFairSpec ==
    /\ ListsSpec
    /\ \A s \in Slots : WF_listVars(Continue(s))
    /\ WF_listVars(TimerFires)
    /\ WF_listVars(RefreshSucceeds \/ RefreshFails)
    /\ SF_listVars(RefreshSucceeds)

-----------------------------------------------------------------------------

ListsTypeOK ==
    /\ subscription \in Configurations
    /\ active \in BOOLEAN /\ closed \in BOOLEAN
    /\ {cached, file, published, refresh, timer} \subseteq Lists
    /\ callbacks \subseteq Urls
    /\ awaiting \in [Slots -> Task]

\* A manager that is paused or closed has no timer, whatever was under way
\* when it was paused.
QuietUnlessActive == ~active \/ closed => timer = None

\* close() is final: no call that was under way brings the manager back.
ClosedStaysClosed == closed => ~active

\* An active manager never stops refreshing an enabled subscription: a timer
\* is armed, or a callback that will arm it awaits a refresh, or a start is
\* about to.
KeepsRefreshing ==
    active /\ subscription.enabled =>
        \/ timer # None
        \/ callbacks # {} /\ refresh # None
        \/ \E s \in Slots : ~Free(s) /\ awaiting[s].call = "start"

\* Once the configuration is left alone, the list of its URL is published in
\* the end and stays published, whatever calls overlapped before.
SettledConfigurationIsServed ==
    \A u \in Urls :
        <>[](active /\ subscription.enabled /\ subscription.url = u) => <>[](published = u)

\* The list in the policy store is one of the configured URL.
\* Not true of this code (README, section 6); no run checks it.
PublishedIsConfigured == published # None => published = subscription.url
=============================================================================
