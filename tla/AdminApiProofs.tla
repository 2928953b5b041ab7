--------------------------- MODULE AdminApiProofs ---------------------------
(* Three results about administration requests, for every set of clients,     *)
(* keys and requests and every bound: idempotency keys act once and are never *)
(* left behind; the audit chain verifies; the configuration in memory, the    *)
(* one in the file and the ones being written agree, keep what was            *)
(* acknowledged and never take a serial back.                                 *)
EXTENDS AdminApi, WellFoundedInduction, SequenceTheorems, TLAPS

----------------------------------------------------------------------------
(* Idempotency keys.  What a request does to the configuration plays no part  *)
(* here: the configurations are not looked into.                              *)


Named == Keys \cup {"none"}

ReqShape ==
  /\ req = [c \in Clients |-> req[c]]
  /\ \A c \in Clients :
       \/ req[c] = Idle
       \/ req[c].pc = "holding" /\ req[c].r \in Requests /\ req[c].r.key = "none"
       \/ /\ req[c] = [pc |-> req[c].pc, r |-> req[c].r, next |-> req[c].next]
          /\ req[c].pc \in {"writing", "renamed"} /\ req[c].r \in Requests

KeysShape ==
  /\ keys = [k \in Keys |-> keys[k]]
  /\ \A k \in Keys : \/ keys[k] = NoKey
                     \/ /\ keys[k] = [state |-> keys[k].state, fp |-> keys[k].fp, since |-> keys[k].since]
                        /\ keys[k].state \in {"pending", "completed"} /\ keys[k].since \in Nat

HistShape ==
  /\ hist \in [requests : Nat, faults : Nat, crashes : Nat, effects : [Keys -> Nat],
               excused : SUBSET Named, orphans : SUBSET Named,
               acked : SUBSET {r.zone : r \in Requests}, races : SUBSET {"overlap", "stale"}]
  /\ day \in Nat

Shape == ReqShape /\ KeysShape /\ HistShape

\* A request under way holds the pending row of its key, of today, alone.
Held(c) == LET k == req[c].r.key IN k \in Keys => keys[k].state = "pending" /\ keys[k].since = day
Owned == \A c \in InFlight : Held(c)
Single == \A c, d \in InFlight : req[c].r.key \in Keys /\ req[c].r.key = req[d].r.key => c = d

\* What is not excused has no row of an earlier day, and its row says whether
\* the operation took effect.
Fresh == \A k \in Keys \ hist.excused : keys[k].state # "none" => keys[k].since = day
Counted == \A k \in Keys \ hist.excused : hist.effects[k] = IF keys[k].state = "completed" THEN 1 ELSE 0

IInv == Shape /\ Owned /\ Single /\ Fresh /\ Counted /\ PendingHasOwner

\* At first nothing is under way.
LEMMA InitHolds == Init => IInv
BY DEF Init, IInv, Shape, ReqShape, KeysShape, HistShape, Owned, Held, Single, Fresh, Counted, PendingHasOwner,
       InFlight, Idle, NoKey, Named

\* Requests that are neither begun nor ended by a step leave what they hold.
LEMMA AskHolds ==
  ASSUME IInv, NEW c \in Clients, NEW r \in Requests, Ask(c, r)
  PROVE  IInv'
<1>1. r.key = "none" /\ req[c].pc = "idle"
  BY RequestsAssumption DEF Ask
<1>2. InFlight' = InFlight /\ \A d \in InFlight : req'[d] = req[d]
  BY <1>1 DEF Ask, IInv, Shape, ReqShape, InFlight
<1>3. Shape'
  <2>1. ReqShape'
    BY <1>1 DEF Ask, IInv, Shape, ReqShape, Idle
  <2>2. KeysShape'
    BY DEF Ask, IInv, Shape, KeysShape
  <2>3. HistShape'
    BY DEF Ask, IInv, Shape, HistShape
  <2> QED BY <2>1, <2>2, <2>3 DEF Shape
<1>4. /\ keys' = keys /\ day' = day /\ hist'.excused = hist.excused /\ hist'.effects = hist.effects
      /\ hist'.orphans = hist.orphans
  BY DEF Ask, IInv, Shape, HistShape
<1> QED BY <1>2, <1>3, <1>4 DEF IInv, Owned, Held, Single, Fresh, Counted, PendingHasOwner

\* Two facts the actions share.
LEMMA ShapeOfRequest ==
  ASSUME IInv, NEW c \in InFlight
  PROVE  /\ c \in Clients /\ req[c].r \in Requests /\ req[c].r.key \in Keys \cup {"none"}
         /\ req[c] = [pc |-> req[c].pc, r |-> req[c].r, next |-> req[c].next]
BY RequestsAssumption DEF IInv, Shape, ReqShape, InFlight, Idle

\* A client whose request ended has none under way.
LEMMA Ends ==
  ASSUME IInv, NEW c \in Clients, req' = [req EXCEPT ![c] = Idle]
  PROVE  ReqShape' /\ InFlight' = InFlight \ {c} /\ \A d \in InFlight \ {c} : req'[d] = req[d]
BY DEF IInv, Shape, ReqShape, InFlight, Idle

\* A change without a key.
LEMMA GoingShape ==
  ASSUME NEW h, NEW r, NEW base,
         h \in [requests : Nat, faults : Nat, crashes : Nat, effects : [Keys -> Nat], excused : SUBSET Named,
                orphans : SUBSET Named, acked : SUBSET {q.zone : q \in Requests}, races : SUBSET {"overlap", "stale"}]
  PROVE  /\ Going(h, r, base) \in [requests : Nat, faults : Nat, crashes : Nat, effects : [Keys -> Nat],
                excused : SUBSET Named, orphans : SUBSET Named, acked : SUBSET {q.zone : q \in Requests},
                races : SUBSET {"overlap", "stale"}]
         /\ Going(h, r, base).effects = h.effects /\ Going(h, r, base).excused = h.excused
         /\ Going(h, r, base).orphans = h.orphans /\ Going(h, r, base).requests = h.requests
         /\ Going(h, r, base).races = h.races \cup Racing(base)
         /\ Going(h, r, base).acked = h.acked \ Removed(r, base)
<1>1. Racing(base) \subseteq {"overlap", "stale"}
  BY DEF Racing
<1> QED BY <1>1 DEF Going

\* A request that held the configuration writes or is refused.
LEMMA SubmitHolds ==
  ASSUME IInv, NEW c \in Clients, Submit(c)
  PROVE  IInv'
<1> DEFINE r == req[c].r
<1>1. r \in Requests /\ r.key = "none" /\ req[c].pc = "holding" /\ c \notin InFlight
  BY DEF Submit, IInv, Shape, ReqShape, Idle, InFlight
<1>2. keys' = keys /\ day' = day
  BY DEF Submit
<1>3. CASE Acceptable(req[c].base, r)
  <2>1. req' = [req EXCEPT ![c] = [pc |-> "writing", r |-> r, next |-> Updated(req[c].base, r)]]
    BY <1>3 DEF Submit, Writing
  <2>2. hist' = Going(hist, r, req[c].base)
    BY <1>3 DEF Submit
  <2>3. /\ HistShape' /\ hist'.effects = hist.effects /\ hist'.excused = hist.excused
        /\ hist'.orphans = hist.orphans
    BY <1>2, <2>2, GoingShape DEF IInv, Shape, HistShape
  <2>4. /\ ReqShape' /\ InFlight' = InFlight \cup {c} /\ req'[c].r = r
        /\ \A d \in InFlight : req'[d] = req[d]
    BY <1>1, <2>1 DEF IInv, Shape, ReqShape, InFlight, Idle
  <2>5. KeysShape'
    BY <1>2 DEF IInv, Shape, KeysShape
  <2>6. Owned' /\ Single'
    BY <1>1, <1>2, <2>4, KeysAssumption DEF IInv, Owned, Held, Single
  <2>7. Fresh' /\ Counted'
    BY <1>2, <2>3 DEF IInv, Fresh, Counted
  <2>8. PendingHasOwner'
    BY <1>2, <2>3, <2>4 DEF IInv, PendingHasOwner
  <2> QED BY <2>3, <2>4, <2>5, <2>6, <2>7, <2>8 DEF IInv, Shape
<1>4. CASE ~Acceptable(req[c].base, r)
  <2>1. req' = [req EXCEPT ![c] = Idle] /\ hist' = hist
    BY <1>4 DEF Submit
  <2>2. ReqShape' /\ InFlight' = InFlight /\ \A d \in InFlight : req'[d] = req[d]
    BY <1>1, <2>1, Ends
  <2>3. Shape'
    BY <1>2, <2>1, <2>2 DEF IInv, Shape, KeysShape, HistShape
  <2> QED BY <1>2, <2>1, <2>2, <2>3 DEF IInv, Owned, Held, Single, Fresh, Counted, PendingHasOwner
<1> QED BY <1>3, <1>4

LEMMA PostHolds ==
  ASSUME IInv, NEW c \in Clients, NEW r \in Requests, Post(c, r)
  PROVE  IInv'
<1>1. r.key = "none" /\ req[c].pc = "idle" /\ keys' = keys /\ day' = day
  BY DEF Post
<1>2. req' = [req EXCEPT ![c] = [pc |-> "writing", r |-> r, next |-> Updated(conf, r)]]
  BY DEF Post, Writing
<1> DEFINE h == [hist EXCEPT !.requests = @ + 1]
<1>3. /\ h \in [requests : Nat, faults : Nat, crashes : Nat, effects : [Keys -> Nat], excused : SUBSET Named,
                orphans : SUBSET Named, acked : SUBSET {q.zone : q \in Requests}, races : SUBSET {"overlap", "stale"}]
      /\ h.effects = hist.effects /\ h.excused = hist.excused /\ h.orphans = hist.orphans
  BY DEF IInv, Shape, HistShape
<1>4. hist' = Going(h, r, conf)
  BY DEF Post
<1> HIDE DEF h
<1>5. /\ HistShape' /\ hist'.effects = hist.effects /\ hist'.excused = hist.excused
      /\ hist'.orphans = hist.orphans
  BY <1>1, <1>3, <1>4, GoingShape DEF IInv, Shape, HistShape
<1>6. /\ ReqShape' /\ InFlight' = InFlight \cup {c} /\ req'[c].r = r
      /\ \A d \in InFlight : req'[d] = req[d]
  BY <1>1, <1>2 DEF IInv, Shape, ReqShape, InFlight, Idle
<1>7. KeysShape'
  BY <1>1 DEF IInv, Shape, KeysShape
<1>8. Owned' /\ Single'
  BY <1>1, <1>6, KeysAssumption DEF IInv, Owned, Held, Single
<1>9. Fresh' /\ Counted' /\ PendingHasOwner'
  BY <1>1, <1>5, <1>6 DEF IInv, Fresh, Counted, PendingHasOwner
<1> QED BY <1>5, <1>6, <1>7, <1>8, <1>9 DEF IInv, Shape

\* The key of the request had no row or one of another day: nothing under way holds it.
LEMMA ExecuteHolds ==
  ASSUME IInv, NEW c \in Clients, NEW r \in Requests, Execute(c, r)
  PROVE  IInv'
<1>1. r.key \in Keys /\ req[c].pc = "idle" /\ day' = day
  BY RequestsAssumption DEF Execute
<1>2. req' = [req EXCEPT ![c] = [pc |-> "writing", r |-> r, next |-> Updated(conf, r)]]
  BY DEF Execute, Writing
<1> DEFINE h == [hist EXCEPT !.requests = @ + 1, !.orphans = @ \ {r.key}]
<1>3. /\ h \in [requests : Nat, faults : Nat, crashes : Nat, effects : [Keys -> Nat], excused : SUBSET Named,
                orphans : SUBSET Named, acked : SUBSET {q.zone : q \in Requests}, races : SUBSET {"overlap", "stale"}]
      /\ h.effects = hist.effects /\ h.excused = hist.excused /\ h.orphans = hist.orphans \ {r.key}
  <2>1. [hist EXCEPT !.requests = @ + 1, !.orphans = @ \ {r.key}]
          = [[hist EXCEPT !.requests = hist.requests + 1] EXCEPT !.orphans = hist.orphans \ {r.key}]
    BY DEF IInv, Shape, HistShape
  <2>2. hist.requests + 1 \in Nat /\ hist.orphans \ {r.key} \in SUBSET Named
    BY DEF IInv, Shape, HistShape
  <2> QED BY <2>1, <2>2 DEF IInv, Shape, HistShape
<1>4. hist' = Going(h, r, conf)
  BY DEF Execute
<1> HIDE DEF h
<1>5. /\ HistShape' /\ hist'.effects = hist.effects /\ hist'.excused = hist.excused
      /\ hist'.orphans = hist.orphans \ {r.key}
  BY <1>1, <1>3, <1>4, GoingShape DEF IInv, Shape, HistShape
<1>6. /\ ReqShape' /\ InFlight' = InFlight \cup {c} /\ req'[c].r = r
      /\ \A d \in InFlight : req'[d] = req[d]
  BY <1>1, <1>2 DEF IInv, Shape, ReqShape, InFlight, Idle
<1>7. \A k \in Keys : Unexpired[k] = IF keys[k].state # "none" /\ day > keys[k].since THEN NoKey ELSE keys[k]
  BY DEF Unexpired
<1>8. /\ keys' = [k \in Keys |-> keys'[k]]
      /\ keys'[r.key] = [state |-> "pending", fp |-> r, since |-> day]
      /\ \A k \in Keys \ {r.key} : keys'[k] = Unexpired[k]
  BY <1>1 DEF Execute, Reserved, Unexpired
<1>9. KeysShape'
  <2>1. \A k \in Keys \ {r.key} : \/ keys'[k] = NoKey
                                 \/ keys'[k] = keys[k]
    BY <1>7, <1>8
  <2>2. day \in Nat
    BY DEF IInv, Shape, HistShape
  <2> QED BY <1>8, <2>1, <2>2 DEF IInv, Shape, KeysShape
<1>10. \A d \in InFlight : req[d].r.key # r.key
  <2>1. Unexpired[r.key].state = "none"
    BY DEF Execute, Started
  <2>2. keys[r.key].state = "none" \/ day > keys[r.key].since
    BY <1>1, <1>7, <2>1
  <2> QED BY <1>1, <2>2 DEF IInv, Owned, Held, Shape, HistShape
<1>11. Owned' /\ Single'
  <2>1. \A d \in InFlight : req[d].r.key \in Keys =>
          keys'[req[d].r.key].state = "pending" /\ keys'[req[d].r.key].since = day
    BY <1>7, <1>8, <1>10 DEF IInv, Owned, Held, Shape, HistShape
  <2> QED BY <1>1, <1>6, <1>8, <1>10, <2>1 DEF IInv, Owned, Held, Single
<1>12. Fresh' /\ Counted'
  <2>1. \A k \in Keys \ hist.excused : Unexpired[k] = keys[k]
    BY <1>7 DEF IInv, Fresh, Shape, HistShape
  <2>2. r.key \notin hist.excused => keys[r.key].state = "none"
    BY <1>1, <2>1 DEF Execute, Started
  <2> QED BY <1>1, <1>5, <1>8, <2>1, <2>2 DEF IInv, Fresh, Counted
<1>13. PendingHasOwner'
  <2>1. \A k \in Keys \ {r.key} : keys'[k].state = "pending" => keys[k].state = "pending"
    BY <1>7, <1>8 DEF NoKey
  <2> QED BY <1>5, <1>6, <2>1 DEF IInv, PendingHasOwner
<1> QED BY <1>5, <1>6, <1>9, <1>11, <1>12, <1>13 DEF IInv, Shape

\* Only rows of earlier days go, and nothing under way holds one.
LEMMA SweepHolds ==
  ASSUME IInv, keys' = Unexpired, UNCHANGED <<req, day, hist>>
  PROVE  IInv'
<1>1. keys' = [k \in Keys |-> IF keys[k].state # "none" /\ day > keys[k].since THEN NoKey ELSE keys[k]]
  BY DEF Unexpired
<1>2. Shape'
  BY <1>1 DEF IInv, Shape, ReqShape, KeysShape, HistShape
<1>3. InFlight' = InFlight /\ req' = req
  BY DEF InFlight
<1>4. Owned' /\ Single'
  BY <1>1, <1>3 DEF IInv, Owned, Held, Single, Shape, HistShape
<1>5. Fresh' /\ Counted'
  <2>1. \A k \in Keys \ hist.excused : keys'[k] = keys[k]
    BY <1>1 DEF IInv, Fresh, Shape, HistShape
  <2> QED BY <2>1 DEF IInv, Fresh, Counted
<1>6. PendingHasOwner'
  BY <1>1, <1>3 DEF IInv, PendingHasOwner, NoKey
<1> QED BY <1>2, <1>4, <1>5, <1>6 DEF IInv

\* The rename touches no key.
LEMMA RenameHolds ==
  ASSUME IInv, NEW c \in Clients, Rename(c)
  PROVE  IInv'
<1>1. c \in InFlight /\ keys' = keys /\ day' = day /\ hist' = hist
  BY DEF Rename, InFlight
<1>2. req' = [req EXCEPT ![c] = [pc |-> "renamed", r |-> req[c].r, next |-> req[c].next]]
  <2>1. req[c] = [pc |-> "writing", r |-> req[c].r, next |-> req[c].next]
    BY <1>1, ShapeOfRequest DEF Rename
  <2>2. [req[c] EXCEPT !.pc = "renamed"] = [pc |-> "renamed", r |-> req[c].r, next |-> req[c].next]
    BY <2>1
  <2> QED BY <2>2 DEF Rename
<1>3. InFlight' = InFlight /\ \A d \in InFlight : req'[d].r = req[d].r
  BY <1>1, <1>2 DEF InFlight, IInv, Shape, ReqShape
<1>4. Shape'
  BY <1>1, <1>2, ShapeOfRequest DEF IInv, Shape, ReqShape, KeysShape, HistShape
<1> QED BY <1>1, <1>3, <1>4 DEF IInv, Owned, Held, Single, Fresh, Counted, PendingHasOwner

\* What giving up or completing the key of a request leaves behind.
LEMMA AbandonedFacts ==
  ASSUME IInv, NEW k \in Named, keys' = Abandoned(k)
  PROVE  /\ KeysShape' /\ \A j \in Keys \ {k} : keys'[j] = keys[j]
         /\ k \in Keys /\ keys[k].state = "pending" => keys'[k].state = "none"
         /\ k \in Keys /\ keys[k].state # "pending" => keys'[k] = keys[k]
BY DEF IInv, Shape, KeysShape, Abandoned, NoKey

LEMMA CompletedFacts ==
  ASSUME IInv, NEW k \in Keys, keys[k].state = "pending", keys' = Completed(k)
  PROVE  /\ KeysShape' /\ \A j \in Keys \ {k} : keys'[j] = keys[j]
         /\ keys'[k].state = "completed" /\ keys'[k].since = keys[k].since
BY DEF IInv, Shape, KeysShape, Completed, NoKey

\* The key of a write that failed is given up.
LEMMA WriteFailsHolds ==
  ASSUME IInv, NEW c \in Clients, WriteFails(c)
  PROVE  IInv'
<1> DEFINE k == req[c].r.key
<1>1. c \in InFlight /\ day' = day /\ req' = [req EXCEPT ![c] = Idle] /\ keys' = Abandoned(k)
  BY DEF WriteFails, InFlight
<1>2. k \in Named
  BY <1>1, ShapeOfRequest DEF Named
<1>3. /\ HistShape' /\ hist'.effects = hist.effects /\ hist'.excused = hist.excused
      /\ hist'.orphans = hist.orphans
  BY <1>1 DEF WriteFails, IInv, Shape, HistShape
<1>4. ReqShape' /\ InFlight' = InFlight \ {c} /\ \A d \in InFlight \ {c} : req'[d] = req[d]
  BY <1>1, Ends
<1>5. k \in Keys => keys[k].state = "pending"
  BY <1>1 DEF IInv, Owned, Held
<1>6. /\ KeysShape' /\ \A j \in Keys \ {k} : keys'[j] = keys[j]
      /\ k \in Keys => keys'[k].state = "none"
  BY <1>1, <1>2, <1>5, AbandonedFacts
<1>7. \A d \in InFlight \ {c} : req[d].r.key \in Keys => req[d].r.key # k
  BY <1>1 DEF IInv, Single
<1> HIDE DEF k
<1>8. Owned' /\ Single'
  BY <1>1, <1>4, <1>6, <1>7 DEF IInv, Owned, Held, Single
<1>9. Fresh' /\ Counted'
  BY <1>1, <1>3, <1>5, <1>6 DEF IInv, Fresh, Counted
<1>10. PendingHasOwner'
  BY <1>3, <1>4, <1>6 DEF IInv, PendingHasOwner, k
<1> QED BY <1>3, <1>4, <1>6, <1>8, <1>9, <1>10 DEF IInv, Shape

\* The effect of a request is counted under its key alone.
LEMMA TakesEffectFacts ==
  ASSUME IInv, NEW r \in Requests
  PROVE  /\ TakesEffect(hist, r) \in
              [requests : Nat, faults : Nat, crashes : Nat, effects : [Keys -> Nat], excused : SUBSET Named,
               orphans : SUBSET Named, acked : SUBSET {q.zone : q \in Requests}, races : SUBSET {"overlap", "stale"}]
         /\ TakesEffect(hist, r).excused = hist.excused /\ TakesEffect(hist, r).orphans = hist.orphans
         /\ TakesEffect(hist, r).races = hist.races /\ TakesEffect(hist, r).acked = hist.acked
         /\ \A j \in Keys \ {r.key} : TakesEffect(hist, r).effects[j] = hist.effects[j]
         /\ r.key \in Keys => TakesEffect(hist, r).effects[r.key] = hist.effects[r.key] + 1
<1>1. CASE r.key = "none"
  BY <1>1, KeysAssumption DEF TakesEffect, IInv, Shape, HistShape
<1>2. CASE r.key # "none"
  <2>1. r.key \in Keys
    BY <1>2, RequestsAssumption
  <2>2. [hist.effects EXCEPT ![r.key] = @ + 1] \in [Keys -> Nat]
    BY <2>1 DEF IInv, Shape, HistShape
  <2>3. TakesEffect(hist, r) = [hist EXCEPT !.effects = [hist.effects EXCEPT ![r.key] = @ + 1]]
    BY <1>2 DEF TakesEffect
  <2> QED BY <2>1, <2>2, <2>3 DEF IInv, Shape, HistShape
<1> QED BY <1>1, <1>2

\* The effect and the completion of the key go together.
LEMMA ApplyHolds ==
  ASSUME IInv, NEW c \in Clients, Apply(c)
  PROVE  IInv'
<1> DEFINE k == req[c].r.key
           r == req[c].r
<1>1. /\ c \in InFlight /\ day' = day /\ req' = [req EXCEPT ![c] = Idle]
      /\ keys' = (IF k = "none" THEN keys ELSE Completed(k)) /\ hist' = Acknowledged(TakesEffect(hist, r), r)
  BY DEF Apply, InFlight
<1>2. k \in Named /\ r \in Requests
  BY <1>1, ShapeOfRequest DEF Named
<1>3. /\ HistShape' /\ hist'.excused = hist.excused /\ hist'.orphans = hist.orphans
      /\ \A j \in Keys \ {k} : hist'.effects[j] = hist.effects[j]
      /\ k \in Keys => hist'.effects[k] = hist.effects[k] + 1
  <2> DEFINE h == TakesEffect(hist, r)
  <2>1. /\ h \in [requests : Nat, faults : Nat, crashes : Nat, effects : [Keys -> Nat], excused : SUBSET Named,
               orphans : SUBSET Named, acked : SUBSET {q.zone : q \in Requests}, races : SUBSET {"overlap", "stale"}]
        /\ h.excused = hist.excused /\ h.orphans = hist.orphans
        /\ \A j \in Keys \ {k} : h.effects[j] = hist.effects[j]
        /\ k \in Keys => h.effects[k] = hist.effects[k] + 1
    BY <1>2, TakesEffectFacts
  <2>2. hist' = IF r.op = "create" THEN [h EXCEPT !.acked = @ \cup {r.zone}] ELSE h
    BY <1>1 DEF Acknowledged
  <2>3. r.zone \in {q.zone : q \in Requests}
    BY <1>2
  <2>4. day' \in Nat
    BY <1>1 DEF IInv, Shape, HistShape
  <2> HIDE DEF h, r, k
  <2> QED BY <2>1, <2>2, <2>3, <2>4 DEF HistShape
<1>4. ReqShape' /\ InFlight' = InFlight \ {c} /\ \A d \in InFlight \ {c} : req'[d] = req[d]
  BY <1>1, Ends
<1>5. k \in Keys => keys[k].state = "pending" /\ keys[k].since = day
  BY <1>1 DEF IInv, Owned, Held
<1>6. /\ KeysShape' /\ \A j \in Keys \ {k} : keys'[j] = keys[j]
      /\ k \in Keys => keys'[k].state = "completed" /\ keys'[k].since = keys[k].since
  <2>1. CASE k = "none"
    BY <1>1, <2>1, KeysAssumption DEF IInv, Shape, KeysShape
  <2>2. CASE k # "none"
    <3>1. k \in Keys /\ keys' = Completed(k)
      BY <1>1, <1>2, <2>2 DEF Named
    <3> QED BY <3>1, <1>5, CompletedFacts
  <2> QED BY <2>1, <2>2
<1>7. \A d \in InFlight \ {c} : req[d].r.key \in Keys => req[d].r.key # k
  BY <1>1 DEF IInv, Single
<1>8. Owned' /\ Single'
  <2> HIDE DEF k
  <2> QED BY <1>1, <1>4, <1>6, <1>7 DEF IInv, Owned, Held, Single
<1>9. Fresh' /\ Counted'
  <2> HIDE DEF k, r
  <2>1. Fresh'
    BY <1>1, <1>3, <1>5, <1>6 DEF IInv, Fresh
  <2>2. Counted'
    BY <1>1, <1>3, <1>5, <1>6 DEF IInv, Counted
  <2> QED BY <2>1, <2>2
<1>10. PendingHasOwner'
  BY <1>3, <1>4, <1>6 DEF IInv, PendingHasOwner
<1> QED BY <1>3, <1>4, <1>6, <1>8, <1>9, <1>10 DEF IInv, Shape

\* Without the completion, the key is excused.
LEMMA ApplyFailsHolds ==
  ASSUME IInv, NEW c \in Clients, ApplyFails(c)
  PROVE  IInv'
<1> DEFINE k == req[c].r.key
           r == req[c].r
           failed == [TakesEffect(hist, r) EXCEPT !.faults = @ + 1, !.excused = @ \cup {k}]
<1>1. /\ c \in InFlight /\ day' = day /\ req' = [req EXCEPT ![c] = Idle]
  BY DEF ApplyFails, InFlight
<1>2. k \in Named /\ r \in Requests
  BY <1>1, ShapeOfRequest DEF Named
<1>3. PICK freed \in {TRUE, FALSE} :
        /\ keys' = IF freed THEN Abandoned(k) ELSE keys
        /\ hist' = IF freed THEN failed ELSE [failed EXCEPT !.orphans = @ \cup {k}]
  BY DEF ApplyFails
<1>4. /\ HistShape' /\ hist'.excused = hist.excused \cup {k}
      /\ \A j \in Keys \ {k} : hist'.effects[j] = hist.effects[j]
      /\ hist'.orphans = IF freed THEN hist.orphans ELSE hist.orphans \cup {k}
  <2> DEFINE h == TakesEffect(hist, r)
  <2>1. /\ h \in [requests : Nat, faults : Nat, crashes : Nat, effects : [Keys -> Nat], excused : SUBSET Named,
               orphans : SUBSET Named, acked : SUBSET {q.zone : q \in Requests}, races : SUBSET {"overlap", "stale"}]
        /\ h.excused = hist.excused /\ h.orphans = hist.orphans
        /\ \A j \in Keys \ {k} : h.effects[j] = hist.effects[j]
    BY <1>2, TakesEffectFacts
  <2>2. day' \in Nat
    BY <1>1 DEF IInv, Shape, HistShape
  <2> HIDE DEF h
  <2>3. /\ failed \in [requests : Nat, faults : Nat, crashes : Nat, effects : [Keys -> Nat], excused : SUBSET Named,
               orphans : SUBSET Named, acked : SUBSET {q.zone : q \in Requests}, races : SUBSET {"overlap", "stale"}]
        /\ failed.excused = h.excused \cup {k} /\ failed.orphans = h.orphans /\ failed.effects = h.effects
    <3>1. failed = [h EXCEPT !.faults = @ + 1, !.excused = @ \cup {k}]
      BY DEF h
    <3> HIDE DEF failed, k
    <3>2. failed = [[h EXCEPT !.faults = h.faults + 1] EXCEPT !.excused = h.excused \cup {k}]
      BY <2>1, <3>1
    <3>3. h.faults + 1 \in Nat /\ h.excused \cup {k} \in SUBSET Named
      BY <1>2, <2>1
    <3> QED BY <2>1, <3>2, <3>3
  <2> HIDE DEF failed, k
  <2> QED BY <1>2, <1>3, <2>1, <2>2, <2>3 DEF HistShape
<1>5. ReqShape' /\ InFlight' = InFlight \ {c} /\ \A d \in InFlight \ {c} : req'[d] = req[d]
  BY <1>1, Ends
<1> HIDE DEF failed
<1>6. k \in Keys => keys[k].state = "pending"
  BY <1>1 DEF IInv, Owned, Held
<1>7. /\ KeysShape' /\ \A j \in Keys \ {k} : keys'[j] = keys[j]
      /\ freed /\ k \in Keys => keys'[k].state = "none"
  <2>1. CASE freed
    <3>1. keys' = Abandoned(k)
      BY <1>3, <2>1
    <3> QED BY <1>2, <1>6, <3>1, AbandonedFacts
  <2>2. CASE ~freed
    BY <1>3, <2>2 DEF IInv, Shape, KeysShape
  <2> QED BY <2>1, <2>2
<1>8. \A d \in InFlight \ {c} : req[d].r.key \in Keys => req[d].r.key # k
  BY <1>1 DEF IInv, Single
<1>9. Owned' /\ Single'
  <2> HIDE DEF k
  <2> QED BY <1>1, <1>5, <1>7, <1>8 DEF IInv, Owned, Held, Single
<1>10. Fresh' /\ Counted'
  <2> HIDE DEF k, r
  <2> QED BY <1>1, <1>4, <1>7 DEF IInv, Fresh, Counted
<1>11. PendingHasOwner'
  BY <1>4, <1>5, <1>7 DEF IInv, PendingHasOwner
<1> QED BY <1>4, <1>5, <1>7, <1>9, <1>10, <1>11 DEF IInv, Shape

\* What was under way is excused, and its keys are left pending.
LEMMA RestartHolds ==
  ASSUME IInv, Restart
  PROVE  IInv'
<1> DEFINE lost == {req[c].r.key : c \in InFlight}
<1>1. keys' = keys /\ day' = day /\ req' = [c \in Clients |-> Idle]
  BY DEF Restart
<1>2. lost \in SUBSET Named
  BY ShapeOfRequest DEF Named
<1>3. hist' = [hist EXCEPT !.crashes = @ + 1, !.excused = @ \cup lost, !.orphans = @ \cup lost]
  BY DEF Restart
<1> HIDE DEF lost
<1>4. /\ HistShape' /\ hist'.excused = hist.excused \cup lost /\ hist'.orphans = hist.orphans \cup lost
      /\ hist'.effects = hist.effects
  <2>1. hist.crashes + 1 \in Nat /\ hist.excused \cup lost \in SUBSET Named /\ hist.orphans \cup lost \in SUBSET Named
    BY <1>2 DEF IInv, Shape, HistShape
  <2>2. hist' = [[[hist EXCEPT !.crashes = hist.crashes + 1] EXCEPT !.excused = hist.excused \cup lost]
                   EXCEPT !.orphans = hist.orphans \cup lost]
    BY <1>3 DEF IInv, Shape, HistShape
  <2> QED BY <1>1, <2>1, <2>2 DEF IInv, Shape, HistShape
<1>5. ReqShape' /\ InFlight' = {}
  BY <1>1 DEF ReqShape, InFlight, Idle
<1>6. KeysShape' /\ Fresh' /\ Counted'
  BY <1>1, <1>4 DEF IInv, Shape, KeysShape, Fresh, Counted
<1>7. PendingHasOwner'
  BY <1>1, <1>4, <1>5 DEF IInv, PendingHasOwner, lost
<1> QED BY <1>4, <1>5, <1>6, <1>7 DEF IInv, Shape, Owned, Single

\* The rows of the day that ends are excused.
LEMMA NextDayHolds ==
  ASSUME IInv, NextDay
  PROVE  IInv'
<1> DEFINE old == {k \in Keys : keys[k].state # "none"}
<1>1. /\ keys' = keys /\ day' = day + 1 /\ req' = req /\ InFlight = {}
      /\ hist' = [hist EXCEPT !.excused = @ \cup old]
  BY DEF NextDay
<1>2. old \in SUBSET Named
  BY DEF Named
<1> HIDE DEF old
<1>3. /\ HistShape' /\ hist'.excused = hist.excused \cup old /\ hist'.orphans = hist.orphans
      /\ hist'.effects = hist.effects
  BY <1>1, <1>2 DEF IInv, Shape, HistShape
<1>4. ReqShape' /\ KeysShape' /\ InFlight' = {}
  BY <1>1 DEF IInv, Shape, ReqShape, KeysShape, InFlight
<1>5. Fresh' /\ Counted'
  BY <1>1, <1>3 DEF IInv, Fresh, Counted, old
<1>6. PendingHasOwner'
  BY <1>1, <1>3 DEF IInv, PendingHasOwner
<1> QED BY <1>3, <1>4, <1>5, <1>6 DEF IInv, Shape, Owned, Single

\* Every step keeps the invariant.
LEMMA StepHolds == IInv /\ [Next]_vars => IInv'
<1> SUFFICES ASSUME IInv, [Next]_vars PROVE IInv'
  OBVIOUS
<1>1. CASE UNCHANGED vars
  BY <1>1 DEF vars, IInv, Shape, ReqShape, KeysShape, HistShape, Owned, Held, Single, Fresh, Counted,
              PendingHasOwner, InFlight
<1>2. CASE \E c \in Clients : Submit(c) \/ Rename(c) \/ WriteFails(c) \/ Apply(c) \/ ApplyFails(c)
  BY <1>2, SubmitHolds, RenameHolds, WriteFailsHolds, ApplyHolds, ApplyFailsHolds
<1>3. CASE \E c \in Clients, r \in Requests : Ask(c, r) \/ Post(c, r) \/ Execute(c, r) \/ Sweep(c, r)
  <2> PICK c \in Clients, r \in Requests : Ask(c, r) \/ Post(c, r) \/ Execute(c, r) \/ Sweep(c, r)
    BY <1>3
  <2>1. CASE Sweep(c, r)
    BY <2>1, SweepHolds DEF Sweep
  <2> QED BY <2>1, AskHolds, PostHolds, ExecuteHolds
<1>4. CASE Restart \/ NextDay
  BY <1>4, RestartHolds, NextDayHolds
<1> QED BY <1>1, <1>2, <1>3, <1>4 DEF Next, Done

\* The inductive invariant about keys holds throughout.
THEOREM Invariance == Spec => []IInv
BY InitHolds, StepHolds, PTL DEF Spec

\* The operation of a key takes effect at most once, unless an attempt failed
\* after its effect, the process died or a day passed.
THEOREM KeysActOnce == Spec => []AtMostOnce
<1>1. IInv => AtMostOnce
  BY DEF IInv, Counted, AtMostOnce
<1> QED BY <1>1, Invariance, PTL

\* A key that is still processing belongs to a request under way, unless the
\* process died or giving it up failed.
THEOREM PendingKeysAreOwned == Spec => []PendingHasOwner
<1>1. IInv => PendingHasOwner
  BY DEF IInv
<1> QED BY <1>1, Invariance, PTL

----------------------------------------------------------------------------
(* The audit chain.  An induction up to n is done on the set of the numbers   *)
(* for which what is claimed holds.                                           *)

\* A set of naturals that is not empty has a least one.

LEMMA LeastNatural ==
  ASSUME NEW T \in SUBSET Nat, T # {}
  PROVE  \E m \in T : \A k \in T : m <= k
<1> DEFINE R == {ss \in Nat \X Nat : ss[1] < ss[2]}
<1>1. IsWellFoundedOn(R, Nat)
  BY NatLessThanWellFounded DEF OpToRel
<1>2. PICK m \in T : \A k \in T : ~(<<k, m>> \in R)
  <2> HIDE DEF R
  <2> QED BY <1>1, WFMin, T \subseteq Nat
<1>3. ASSUME NEW k \in T PROVE m <= k
  <2>1. k \in Nat /\ m \in Nat
    OBVIOUS
  <2>2. <<k, m>> \in Nat \X Nat /\ <<k, m>>[1] = k /\ <<k, m>>[2] = m
    BY <2>1
  <2>3. ~(k < m)
    BY <1>2, <2>2
  <2> QED BY <2>1, <2>3
<1> QED BY <1>3

\* What holds of 0, and of k + 1 when it holds of k, holds up to n.
LEMMA UpTo ==
  ASSUME NEW n \in Nat, NEW S, 0 \in S, \A k \in 0 .. n - 1 : k \in S => k + 1 \in S
  PROVE  0 .. n \subseteq S
<1> DEFINE Out == {k \in 0 .. n : k \notin S}
<1>1. SUFFICES ASSUME Out # {} PROVE FALSE
  OBVIOUS
<1>2. PICK k \in Out : \A j \in Out : k <= j
  <2>1. Out \in SUBSET Nat
    OBVIOUS
  <2> HIDE DEF Out
  <2> QED BY <1>1, <2>1, LeastNatural
<1>3. k \in 1 .. n /\ k - 1 \in 0 .. n - 1
  OBVIOUS
<1>4. k - 1 \notin Out
  BY <1>2, <1>3
<1> QED BY <1>3, <1>4

Entry(P) == [at : Nat, what : Nat, prev : P, hash : P]
IsLog(log) == \E P : log \in Seq(Entry(P))

IsChain(h, log, n) == h = [i \in 0 .. n |-> IF i = 0 THEN Genesis ELSE Hash(log[i], h[i - 1])]

\* The hash chain of #rebuildAuditChain exists: its recursive definition has a value.
LEMMA ChainExists ==
  ASSUME NEW n \in Nat, NEW log
  PROVE  \E h : IsChain(h, log, n)
<1> DEFINE S == {k \in 0 .. n : \E h : IsChain(h, log, k)}
<1>1. 0 \in S
  <2>1. IsChain([i \in 0 .. 0 |-> Genesis], log, 0)
    BY DEF IsChain
  <2> QED BY <2>1
<1>2. ASSUME NEW k \in 0 .. n - 1, k \in S PROVE k + 1 \in S
  <2>1. PICK g : IsChain(g, log, k)
    BY <1>2
  <2> DEFINE h == [i \in 0 .. k + 1 |-> IF i = k + 1 THEN Hash(log[k + 1], g[k]) ELSE g[i]]
  <2>2. IsChain(h, log, k + 1)
    <3>1. ASSUME NEW i \in 0 .. k + 1
          PROVE h[i] = IF i = 0 THEN Genesis ELSE Hash(log[i], h[i - 1])
      <4>1. CASE i = k + 1
        BY <4>1
      <4>2. CASE i # k + 1
        <5>1. i \in 0 .. k /\ (i # 0 => i - 1 \in 0 .. k)
          BY <4>2
        <5> QED BY <2>1, <5>1 DEF IsChain
      <4> QED BY <4>1, <4>2
    <3> HIDE DEF h
    <3>2. h = [i \in 0 .. k + 1 |-> h[i]]
      BY DEF h
    <3> QED BY <3>1, <3>2 DEF IsChain
  <2> QED BY <2>2
<1>3. 0 .. n \subseteq S
  <2> HIDE DEF S
  <2> QED BY <1>1, <1>2, UpTo
<1> QED BY <1>3

\* An entry that is chained anew.
Chained(e, p, h) == [e EXCEPT !.prev = p, !.hash = h]

\* The two fields of the chain change and nothing else of the entry.
LEMMA EntryUpdate ==
  ASSUME NEW P, NEW e \in Entry(P), NEW Q, NEW p \in Q, NEW h \in Q
  PROVE  /\ Chained(e, p, h) \in Entry(Q) /\ Chained(e, p, h).at = e.at /\ Chained(e, p, h).what = e.what
         /\ Chained(e, p, h).prev = p /\ Chained(e, p, h).hash = h
<1> DEFINE e1 == [e EXCEPT !.prev = p]
           f == Chained(e, p, h)
<1>1. e1 \in [at : Nat, what : Nat, prev : Q, hash : P] /\ e1.at = e.at /\ e1.what = e.what /\ e1.prev = p
  BY DEF Entry
<1>2. f = [e1 EXCEPT !.hash = h]
  BY DEF Entry, Chained
<1> HIDE DEF e1, f
<1>3. f \in Entry(Q) /\ f.at = e.at /\ f.what = e.what /\ f.prev = p /\ f.hash = h
  BY <1>1, <1>2 DEF Entry
<1> QED BY <1>3 DEF f

\* #rebuildAuditChain makes a chain that verifies, of entries of the same shape.
LEMMA RebuiltVerifies ==
  ASSUME NEW log, IsLog(log)
  PROVE  Verified(Rebuilt(log)) /\ IsLog(Rebuilt(log))
<1>1. PICK P : log \in Seq(Entry(P))
  BY DEF IsLog
<1> DEFINE n == Len(log)
           h == CHOOSE g : IsChain(g, log, n)
           r == [i \in 1 .. n |-> Chained(log[i], h[i - 1], h[i])]
           Q == {h[i] : i \in 0 .. n}
<1>2. n \in Nat /\ \A i \in 1 .. n : log[i] \in Entry(P)
  BY <1>1
<1>3. IsChain(h, log, n)
  BY <1>2, ChainExists
<1>4. Rebuilt(log) = r
  BY DEF Rebuilt, IsChain, Chained
<1> HIDE DEF h, n
<1>5. h[0] = Genesis /\ \A i \in 1 .. n : h[i] = Hash(log[i], h[i - 1])
  BY <1>2, <1>3 DEF IsChain
<1>6. ASSUME NEW i \in 1 .. n
      PROVE  /\ r[i] \in Entry(Q) /\ r[i].at = log[i].at /\ r[i].what = log[i].what
             /\ r[i].prev = h[i - 1] /\ r[i].hash = h[i]
  <2>1. h[i] \in Q /\ h[i - 1] \in Q
    <3>1. i \in 0 .. n /\ i - 1 \in 0 .. n
      BY <1>2
    <3> QED BY <3>1
  <2>2. log[i] \in Entry(P)
    BY <1>2
  <2>3. r[i] = Chained(log[i], h[i - 1], h[i])
    OBVIOUS
  <2> DEFINE f == Chained(log[i], h[i - 1], h[i])
  <2> HIDE DEF r, Q
  <2>4. f \in Entry(Q) /\ f.at = log[i].at /\ f.what = log[i].what /\ f.prev = h[i - 1] /\ f.hash = h[i]
    <3> DEFINE e == log[i]
               p == h[i - 1]
               g == h[i]
    <3> HIDE DEF e, p, g
    <3>1. e \in Entry(P) /\ p \in Q /\ g \in Q
      BY <2>1, <2>2 DEF e, p, g
    <3>2. LET c == Chained(e, p, g) IN c \in Entry(Q) /\ c.at = e.at /\ c.what = e.what /\ c.prev = p /\ c.hash = g
      BY <3>1, EntryUpdate
    <3> QED BY <3>2 DEF e, p, g
  <2> HIDE DEF f
  <2> QED BY <2>3, <2>4 DEF f
<1>7. DOMAIN r = 1 .. n /\ r \in Seq(Entry(Q))
  <2>1. r = [i \in 1 .. n |-> r[i]]
    OBVIOUS
  <2> HIDE DEF r, Q
  <2>2. r \in [1 .. n -> Entry(Q)]
    BY <1>6, <2>1
  <2> QED BY <1>2, <2>2
<1> HIDE DEF r, Q
<1>8. Verified(r)
  <2> SUFFICES ASSUME NEW i \in 1 .. n
               PROVE  LET prev == IF i = 1 THEN Genesis ELSE r[i - 1].hash IN
                      r[i].prev = prev /\ r[i].hash = Hash(r[i], prev)
    BY <1>7 DEF Verified
  <2>1. (IF i = 1 THEN Genesis ELSE r[i - 1].hash) = h[i - 1]
    <3>1. i # 1 => i - 1 \in 1 .. n
      BY <1>2
    <3>2. i # 1 => r[i - 1].hash = h[i - 1]
      BY <1>6, <3>1
    <3> QED BY <1>5, <3>2
  <2>2. Hash(r[i], h[i - 1]) = Hash(log[i], h[i - 1])
    BY <1>6 DEF Hash
  <2>3. r[i].prev = h[i - 1] /\ r[i].hash = Hash(r[i], h[i - 1])
    BY <1>5, <1>6, <2>2
  <2> QED BY <2>1, <2>3
<1> QED BY <1>4, <1>7, <1>8 DEF IsLog

IsKept(k, log, n) ==
  k = [i \in 0 .. n |-> IF i = 0 THEN <<>> ELSE IF Expired(log[i]) THEN k[i - 1] ELSE Append(k[i - 1], log[i])]

\* So does the value of Kept.
LEMMA KeptExists ==
  ASSUME NEW n \in Nat, NEW E, NEW log, \A i \in 1 .. n : log[i] \in E
  PROVE  \E k \in [0 .. n -> Seq(E)] : IsKept(k, log, n)
<1> DEFINE S == {m \in 0 .. n : \E k \in [0 .. m -> Seq(E)] : IsKept(k, log, m)}
<1>1. 0 \in S
  <2>1. IsKept([i \in 0 .. 0 |-> <<>>], log, 0) /\ [i \in 0 .. 0 |-> <<>>] \in [0 .. 0 -> Seq(E)]
    BY DEF IsKept
  <2> QED BY <2>1
<1>2. ASSUME NEW m \in 0 .. n - 1, m \in S PROVE m + 1 \in S
  <2>1. PICK g \in [0 .. m -> Seq(E)] : IsKept(g, log, m)
    BY <1>2
  <2> DEFINE new == IF Expired(log[m + 1]) THEN g[m] ELSE Append(g[m], log[m + 1])
             k == [i \in 0 .. m + 1 |-> IF i = m + 1 THEN new ELSE g[i]]
  <2>2. new \in Seq(E)
    <3>1. g[m] \in Seq(E) /\ log[m + 1] \in E
      OBVIOUS
    <3> QED BY <3>1
  <2> HIDE DEF new
  <2>3. k \in [0 .. m + 1 -> Seq(E)]
    BY <2>2
  <2>4. IsKept(k, log, m + 1)
    <3>1. ASSUME NEW i \in 0 .. m + 1
          PROVE k[i] = IF i = 0 THEN <<>> ELSE IF Expired(log[i]) THEN k[i - 1] ELSE Append(k[i - 1], log[i])
      <4>1. CASE i = m + 1
        BY <4>1 DEF new
      <4>2. CASE i # m + 1
        <5>1. i \in 0 .. m /\ (i # 0 => i - 1 \in 0 .. m)
          BY <4>2
        <5>2. g[i] = IF i = 0 THEN <<>> ELSE IF Expired(log[i]) THEN g[i - 1] ELSE Append(g[i - 1], log[i])
          BY <2>1, <5>1 DEF IsKept
        <5>3. k[i] = g[i] /\ (i # 0 => k[i - 1] = g[i - 1])
          BY <4>2, <5>1
        <5> HIDE DEF k
        <5> QED BY <5>2, <5>3
      <4> QED BY <4>1, <4>2
    <3> HIDE DEF k
    <3>2. k = [i \in 0 .. m + 1 |-> k[i]]
      BY DEF k
    <3> QED BY <3>1, <3>2 DEF IsKept
  <2> HIDE DEF k
  <2>5. m + 1 \in 0 .. n
    BY <1>2
  <2> QED BY <2>3, <2>4, <2>5
<1>3. 0 .. n \subseteq S
  <2> HIDE DEF S
  <2> QED BY <1>1, <1>2, UpTo
<1> QED BY <1>3

\* What pruning keeps are entries.
LEMMA KeptIsLog ==
  ASSUME NEW log, IsLog(log)
  PROVE  IsLog(Kept(log))
<1>1. PICK P : log \in Seq(Entry(P))
  BY DEF IsLog
<1> DEFINE n == Len(log)
           E == Entry(P)
           k == CHOOSE g : IsKept(g, log, n)
<1>2. n \in Nat /\ \A i \in 1 .. n : log[i] \in E
  BY <1>1
<1>3. PICK g \in [0 .. n -> Seq(E)] : IsKept(g, log, n)
  <2> HIDE DEF n, E
  <2> QED BY <1>2, KeptExists
<1>4. IsKept(k, log, n)
  BY <1>3
<1>5. Kept(log) = k[n]
  BY DEF Kept, IsKept
<1> HIDE DEF k, n, E
<1>a. k[0] = <<>> /\ \A i \in 1 .. n : k[i] = IF Expired(log[i]) THEN k[i - 1] ELSE Append(k[i - 1], log[i])
  <2>1. \A i \in 0 .. n : k[i] = IF i = 0 THEN <<>> ELSE IF Expired(log[i]) THEN k[i - 1] ELSE Append(k[i - 1], log[i])
    BY <1>4 DEF IsKept
  <2> QED BY <1>2, <2>1
<1>6. \A i \in 0 .. n : k[i] \in Seq(E)
  <2> DEFINE S == {i \in 0 .. n : k[i] \in Seq(E)}
  <2>1. 0 \in S
    BY <1>2, <1>4 DEF IsKept
  <2>2. ASSUME NEW i \in 0 .. n - 1, i \in S PROVE i + 1 \in S
    <3>1. i + 1 \in 1 .. n /\ (i + 1) - 1 = i /\ i + 1 \in 0 .. n
      BY <1>2
    <3>2. k[i + 1] = IF Expired(log[i + 1]) THEN k[i] ELSE Append(k[i], log[i + 1])
      BY <1>a, <3>1
    <3>3. log[i + 1] \in E /\ k[i] \in Seq(E)
      BY <1>2, <2>2, <3>1
    <3>4. k[i + 1] \in Seq(E)
      <4> HIDE DEF S
      <4> QED BY <3>2, <3>3
    <3> QED BY <3>1, <3>4
  <2> HIDE DEF S
  <2>3. 0 .. n \subseteq S
    BY <1>2, <2>1, <2>2, UpTo
  <2> QED BY <2>3 DEF S
<1> QED BY <1>2, <1>5, <1>6 DEF IsLog, E

\* appendAuditEntry keeps the chain.
LEMMA LoggedVerifies ==
  ASSUME IsLog(audit), Verified(audit), day \in Nat, NEW what \in Nat
  PROVE  IsLog(Logged(what)) /\ Verified(Logged(what))
<1> DEFINE log == Pruned(audit)
           prev == IF log = <<>> THEN Genesis ELSE Last(log).hash
           hash == <<day, what, prev>>
           e == [at |-> day, what |-> what, prev |-> prev, hash |-> hash]
<1>1. IsLog(log) /\ Verified(log)
  BY KeptIsLog, RebuiltVerifies DEF Pruned
<1>2. Logged(what) = Append(log, e)
  BY DEF Logged, Hash
<1> HIDE DEF log
<1>3. PICK P : log \in Seq(Entry(P))
  BY <1>1 DEF IsLog
<1> DEFINE Q == P \cup {prev, hash}
           n == Len(log)
<1>4. e \in Entry(Q) /\ Hash(e, prev) = e.hash /\ e.prev = prev
  BY DEF Entry, Hash
<1>5. log \in Seq(Entry(Q))
  <2>1. Entry(P) \subseteq Entry(Q)
    BY DEF Entry
  <2> QED BY <1>3, <2>1, SeqMonotonic
<1>6. n \in Nat /\ (n = 0 <=> log = <<>>) /\ DOMAIN log = 1 .. n
  BY <1>3
<1>7. prev = IF n = 0 THEN Genesis ELSE log[n].hash
  BY <1>6 DEF Last
<1> HIDE DEF e, prev, Q, n, hash
<1>8. /\ Append(log, e) \in Seq(Entry(Q)) /\ DOMAIN Append(log, e) = 1 .. n + 1
      /\ \A i \in 1 .. n : Append(log, e)[i] = log[i]
      /\ Append(log, e)[n + 1] = e
  BY <1>4, <1>5 DEF n
<1>9. Verified(Append(log, e))
  <2> DEFINE a == Append(log, e)
  <2> HIDE DEF a
  <2> SUFFICES ASSUME NEW i \in 1 .. n + 1
               PROVE  LET p == IF i = 1 THEN Genesis ELSE a[i - 1].hash IN
                      a[i].prev = p /\ a[i].hash = Hash(a[i], p)
    BY <1>8 DEF Verified, a
  <2>1. CASE i = n + 1
    <3>1. (IF i = 1 THEN Genesis ELSE a[i - 1].hash) = prev
      <4>1. i # 1 => i - 1 = n /\ n \in 1 .. n /\ n # 0
        BY <1>6, <2>1
      <4> QED BY <1>6, <1>7, <1>8, <2>1, <4>1 DEF a
    <3>2. a[i] = e
      BY <1>8, <2>1 DEF a
    <3> QED BY <1>4, <3>1, <3>2
  <2>2. CASE i # n + 1
    <3>1. i \in 1 .. n /\ (i # 1 => i - 1 \in 1 .. n)
      BY <1>6, <2>2
    <3>2. a[i] = log[i] /\ (i # 1 => a[i - 1] = log[i - 1])
      BY <1>8, <3>1 DEF a
    <3> QED BY <1>1, <1>6, <3>1, <3>2 DEF Verified
  <2> QED BY <2>1, <2>2
<1> QED BY <1>2, <1>8, <1>9 DEF IsLog

----------------------------------------------------------------------------
(* What a request makes of a configuration.                                   *)


\* A configuration as a member of a set of records.
Confs(D, O, R) == [zones : [D -> [serial : 0 .. MaxSerial, opts : O]], recs : R]

\* A configuration is a member of such a set.
LEMMA ConfHasType ==
  ASSUME NEW cf, IsConf(cf)
  PROVE  \E O : cf \in Confs(DOMAIN cf.zones, O, {cf.recs})
<1> DEFINE O == {cf.zones[z].opts : z \in DOMAIN cf.zones}
           D == DOMAIN cf.zones
           zs == cf.zones
           rs == cf.recs
<1>1. cf = [zones |-> zs, recs |-> rs] /\ zs = [z \in D |-> [serial |-> zs[z].serial, opts |-> zs[z].opts]]
  BY DEF IsConf
<1>2. \A z \in D : zs[z].serial \in 0 .. MaxSerial /\ zs[z].opts \in O
  BY DEF IsConf
<1> HIDE DEF O, D, zs, rs
<1>3. zs \in [D -> [serial : 0 .. MaxSerial, opts : O]]
  BY <1>1, <1>2
<1>4. cf \in Confs(D, O, {rs})
  BY <1>1, <1>3 DEF Confs
<1> QED BY <1>4 DEF D, rs

\* A member of such a set is a configuration.
LEMMA TypeIsConf ==
  ASSUME NEW D, NEW O, NEW R, NEW cf \in Confs(D, O, R)
  PROVE  IsConf(cf) /\ DOMAIN cf.zones = D
<1>1. cf = [zones |-> cf.zones, recs |-> cf.recs] /\ cf.zones \in [D -> [serial : 0 .. MaxSerial, opts : O]]
  BY DEF Confs
<1>2. \A z \in D : cf.zones[z] = [serial |-> cf.zones[z].serial, opts |-> cf.zones[z].opts] /\ cf.zones[z].serial \in 0 .. MaxSerial
  BY <1>1
<1> QED BY <1>1, <1>2 DEF IsConf

\* The serial of the day fits.
LEMMA DateBaseType == day \in 0 .. MaxDays => DateBase \in 0 .. MaxSerial
BY SerialsAssumption DEF DateBase

\* What a request makes of a configuration is one.
LEMMA CreatedIsConf ==
  ASSUME NEW cf, IsConf(cf), NEW r \in Requests, r.op = "create", day \in 0 .. MaxDays
  PROVE  IsConf(Created(cf, r)) /\ DOMAIN Created(cf, r).zones = DOMAIN cf.zones \cup {r.zone}
<1> DEFINE D == DOMAIN cf.zones
           s == IF r.serial < 0 THEN DateBase ELSE r.serial
           R == cf.recs \cup r.add
<1>1. PICK O : cf \in Confs(D, O, {cf.recs})
  BY ConfHasType
<1>2. s \in 0 .. MaxSerial
  BY DateBaseType, RequestsAssumption, SerialsAssumption
<1>3. Created(cf, r) = [zones |-> [y \in D \cup {r.zone} |-> IF y = r.zone THEN [serial |-> s, opts |-> 0] ELSE cf.zones[y]],
                        recs |-> R]
  BY DEF Created
<1> HIDE DEF D, s, R
<1>4. cf.zones \in [D -> [serial : 0 .. MaxSerial, opts : O]]
  BY <1>1 DEF Confs
<1>5. Created(cf, r) \in Confs(D \cup {r.zone}, O \cup {0}, {R})
  BY <1>2, <1>3, <1>4 DEF Confs
<1> QED BY <1>5, TypeIsConf DEF D

LEMMA WithoutIsConf ==
  ASSUME NEW cf, IsConf(cf), NEW z
  PROVE  IsConf(Without(cf, z)) /\ DOMAIN Without(cf, z).zones \subseteq DOMAIN cf.zones
<1> DEFINE D == DOMAIN cf.zones
           E == {y \in D : ~BelongsTo(y, z)}
           R == {r \in cf.recs : ~BelongsTo(r.name, z)}
<1>1. PICK O : cf \in Confs(D, O, {cf.recs})
  BY ConfHasType
<1>2. Without(cf, z) = [zones |-> [y \in E |-> cf.zones[y]], recs |-> R]
  BY DEF Without
<1>3. E \subseteq D
  OBVIOUS
<1> HIDE DEF D, E, R
<1>4. cf.zones \in [D -> [serial : 0 .. MaxSerial, opts : O]]
  BY <1>1 DEF Confs
<1>5. Without(cf, z) \in Confs(E, O, {R})
  BY <1>2, <1>3, <1>4 DEF Confs
<1> QED BY <1>3, <1>5, TypeIsConf DEF D

LEMMA RenamedIsConf ==
  ASSUME NEW cf, IsConf(cf), NEW r
  PROVE  IsConf(Renamed(cf, r))
<1> DEFINE D == DOMAIN cf.zones
           moved == [y \in D |-> Rewritten(y, r.zone, r.to)]
           old(y) == CHOOSE x \in D : moved[x] = y
           names == {moved[x] : x \in D}
           R == {[x EXCEPT !.name = Rewritten(x.name, r.zone, r.to)] : x \in cf.recs}
           new(y) == IF y = r.to THEN [cf.zones[old(y)] EXCEPT !.opts = r.opts] ELSE cf.zones[old(y)]
<1>1. PICK O : cf \in Confs(D, O, {cf.recs})
  BY ConfHasType
<1>2. Renamed(cf, r) = [zones |-> [y \in names |-> new(y)], recs |-> R]
  BY DEF Renamed
<1> HIDE DEF R
<1>3. cf.zones \in [D -> [serial : 0 .. MaxSerial, opts : O]]
  BY <1>1 DEF Confs
<1>4. \A y \in names : old(y) \in D
  OBVIOUS
<1> DEFINE Q == O \cup {r.opts}
<1>5. ASSUME NEW y \in names PROVE new(y) \in [serial : 0 .. MaxSerial, opts : Q]
  <2>1. cf.zones[old(y)] \in [serial : 0 .. MaxSerial, opts : Q]
    BY <1>3, <1>4
  <2> DEFINE v == cf.zones[old(y)]
  <2>2. new(y) = IF y = r.to THEN [v EXCEPT !.opts = r.opts] ELSE v
    OBVIOUS
  <2>3. r.opts \in Q
    OBVIOUS
  <2> HIDE DEF v, new, Q, names
  <2> QED BY <2>1, <2>2, <2>3 DEF v
<1> HIDE DEF new, names, Q
<1>7. Renamed(cf, r) \in Confs(names, Q, {R})
  BY <1>2, <1>5 DEF Confs
<1> QED BY <1>7, TypeIsConf

LEMMA ImportedIsConf ==
  ASSUME NEW cf, IsConf(cf), NEW r, r.zone \in DOMAIN cf.zones
  PROVE  IsConf(Imported(cf, r)) /\ DOMAIN Imported(cf, r).zones = DOMAIN cf.zones
<1> DEFINE D == DOMAIN cf.zones
           R == (IF r.replace THEN cf.recs \ Direct(cf, r.zone) ELSE cf.recs) \cup r.add
           o == IF r.serial < 0 THEN cf.zones[r.zone].opts ELSE r.opts
<1>1. PICK O : cf \in Confs(D, O, {cf.recs})
  BY ConfHasType
<1>2. cf = [zones |-> cf.zones, recs |-> cf.recs] /\ cf.zones \in [D -> [serial : 0 .. MaxSerial, opts : O]]
  BY <1>1 DEF Confs
<1> DEFINE a == [cf EXCEPT !.recs = R]
<1>3. Imported(cf, r) = [a EXCEPT !.zones = [cf.zones EXCEPT ![r.zone] = [cf.zones[r.zone] EXCEPT !.opts = o]]]
  BY <1>1 DEF Imported, Confs
<1>4. a = [zones |-> cf.zones, recs |-> R]
  <2> DEFINE zs == cf.zones
             rs == cf.recs
  <2>1. cf \in [zones : {zs}, recs : {rs}]
    BY <1>2
  <2> HIDE DEF R, zs, rs
  <2>2. a = [zones |-> zs, recs |-> R]
    BY <2>1
  <2> QED BY <2>2 DEF zs
<1> DEFINE zs == [cf.zones EXCEPT ![r.zone] = [cf.zones[r.zone] EXCEPT !.opts = o]]
<1>5. zs \in [D -> [serial : 0 .. MaxSerial, opts : O \cup {o}]]
  <2> DEFINE Q == O \cup {o}
  <2>1. cf.zones \in [D -> [serial : 0 .. MaxSerial, opts : Q]] /\ o \in Q
    BY <1>2
  <2>2. r.zone \in D
    OBVIOUS
  <2> HIDE DEF o, Q, D
  <2> QED BY <2>1, <2>2 DEF Q
<1> HIDE DEF R, zs, o, a, D
<1>6. Imported(cf, r) = [zones |-> zs, recs |-> R]
  <2>1. a \in [zones : {cf.zones}, recs : {R}]
    BY <1>4
  <2>2. Imported(cf, r) = [a EXCEPT !.zones = zs]
    BY <1>3 DEF zs
  <2> QED BY <1>4, <2>1, <2>2
<1>7. Imported(cf, r) \in Confs(D, O \cup {o}, {R})
  BY <1>5, <1>6 DEF Confs
<1> QED BY <1>7, TypeIsConf DEF D

LEMMA BatchedIsConf ==
  ASSUME NEW cf, IsConf(cf), NEW r
  PROVE  IsConf(Batched(cf, r)) /\ DOMAIN Batched(cf, r).zones = DOMAIN cf.zones
<1> DEFINE D == DOMAIN cf.zones
           R == (cf.recs \ r.del) \cup r.add
           zs == cf.zones
           rs == cf.recs
<1>1. PICK O : cf \in Confs(D, O, {cf.recs})
  BY ConfHasType
<1>2. cf \in [zones : {zs}, recs : {rs}] /\ zs \in [D -> [serial : 0 .. MaxSerial, opts : O]]
  BY <1>1 DEF Confs
<1>3. Batched(cf, r) = [cf EXCEPT !.recs = R]
  BY DEF Batched
<1> HIDE DEF R, zs, rs, D
<1>4. Batched(cf, r) = [zones |-> zs, recs |-> R]
  BY <1>2, <1>3
<1>5. Batched(cf, r) \in Confs(D, O, {R})
  BY <1>2, <1>4 DEF Confs
<1> QED BY <1>5, TypeIsConf DEF D

\* Whatever the operation; no operation but two takes a zone away.
LEMMA PlannedIsConf ==
  ASSUME NEW cf, IsConf(cf), NEW r \in Requests, Plannable(cf, r), day \in 0 .. MaxDays
  PROVE  /\ IsConf(Planned(cf, r))
         /\ r.op = "create" => r.zone \in DOMAIN Planned(cf, r).zones
         /\ r.op \notin {"delete", "update"} => DOMAIN cf.zones \subseteq DOMAIN Planned(cf, r).zones
         /\ r.op = "import" => r.zone \in DOMAIN Planned(cf, r).zones
<1>1. CASE r.op = "create"
  <2>1. Planned(cf, r) = Created(cf, r)
    BY <1>1 DEF Planned
  <2> QED BY <1>1, <2>1, CreatedIsConf
<1>2. CASE r.op = "delete"
  <2>1. Planned(cf, r) = Without(cf, r.zone)
    BY <1>2 DEF Planned
  <2> QED BY <1>2, <2>1, WithoutIsConf
<1>3. CASE r.op = "update"
  <2>1. Planned(cf, r) = Renamed(cf, r)
    BY <1>3 DEF Planned
  <2> QED BY <1>3, <2>1, RenamedIsConf
<1>4. CASE r.op = "import"
  <2>1. Planned(cf, r) = Imported(cf, r)
    BY <1>4 DEF Planned
  <2>2. r.zone \in DOMAIN cf.zones
    BY <1>4 DEF Plannable
  <2> QED BY <1>4, <2>1, <2>2, ImportedIsConf
<1>5. CASE r.op \in {"batch", "put"}
  <2>1. Planned(cf, r) = Batched(cf, r)
    BY <1>5 DEF Planned
  <2> QED BY <1>5, <2>1, BatchedIsConf
<1> QED BY <1>1, <1>2, <1>3, <1>4, <1>5, RequestsAssumption

\* ConfigStore.update raises the serials of what it touches.
LEMMA BumpedIsConf ==
  ASSUME NEW next, IsConf(next), IsConf(conf), \A z \in Touched(next) : CanBump(conf.zones[z].serial), day \in 0 .. MaxDays
  PROVE  LET b == Bumped(next) IN
         /\ IsConf(b) /\ DOMAIN b.zones = DOMAIN next.zones /\ b.recs = next.recs
         /\ \A z \in DOMAIN next.zones : b.zones[z].opts = next.zones[z].opts
         /\ \A z \in DOMAIN conf.zones \cap DOMAIN next.zones :
              b.zones[z].serial = IF z \in Touched(next) THEN AnySerial(conf.zones[z].serial) ELSE conf.zones[z].serial
<1> DEFINE D == DOMAIN next.zones
           C == DOMAIN conf.zones
           zs == next.zones
           rs == next.recs
           T == Touched(next)
           s(z) == IF z \in T THEN AnySerial(conf.zones[z].serial) ELSE conf.zones[z].serial
           new(z) == IF z \notin C THEN zs[z] ELSE [zs[z] EXCEPT !.serial = s(z)]
           b == Bumped(next)
<1>1. PICK O : next \in Confs(D, O, {next.recs})
  BY ConfHasType
<1>2. next \in [zones : {zs}, recs : {rs}] /\ zs \in [D -> [serial : 0 .. MaxSerial, opts : O]]
  BY <1>1 DEF Confs
<1>3. b = [next EXCEPT !.zones = [z \in D |-> new(z)]]
  BY DEF Bumped
<1>4. ASSUME NEW z \in C PROVE s(z) \in 0 .. MaxSerial
  <2>1. conf.zones[z].serial \in 0 .. MaxSerial
    BY DEF IsConf
  <2>2. DateBase \in 0 .. MaxSerial
    BY DateBaseType
  <2> QED BY <2>1, <2>2, SerialsAssumption DEF AnySerial, CanBump
<1> HIDE DEF T, s, zs, rs, D, C, b
<1>5. ASSUME NEW z \in D PROVE /\ new(z) \in [serial : 0 .. MaxSerial, opts : O]
                               /\ new(z).opts = zs[z].opts
                               /\ z \in C => new(z).serial = s(z)
  <2> DEFINE v == zs[z]
  <2>1. v \in [serial : 0 .. MaxSerial, opts : O]
    BY <1>2
  <2>2. new(z) = IF z \notin C THEN v ELSE [v EXCEPT !.serial = s(z)]
    OBVIOUS
  <2> HIDE DEF v, new
  <2> QED BY <1>4, <2>1, <2>2 DEF v
<1> HIDE DEF new
<1>6. b = [zones |-> [z \in D |-> new(z)], recs |-> rs]
  BY <1>2, <1>3
<1>7. b \in Confs(D, O, {rs})
  BY <1>5, <1>6 DEF Confs
<1>8. IsConf(b) /\ DOMAIN b.zones = D /\ b.recs = rs
  BY <1>6, <1>7, TypeIsConf
<1>9. \A z \in D : /\ b.zones[z].opts = zs[z].opts
                   /\ z \in C => b.zones[z].serial = s(z)
  BY <1>5, <1>6
<1>10. IsConf(Bumped(next)) /\ DOMAIN Bumped(next).zones = DOMAIN next.zones /\ Bumped(next).recs = next.recs
  BY <1>8 DEF b, D, rs
<1>11. \A z \in DOMAIN next.zones : Bumped(next).zones[z].opts = next.zones[z].opts
  BY <1>9 DEF b, D, zs
<1>12. \A z \in DOMAIN conf.zones \cap DOMAIN next.zones : Bumped(next).zones[z].serial = s(z)
  BY <1>9 DEF b, D, C
<1> QED BY <1>10, <1>11, <1>12 DEF s, T

\* The configuration a request writes: the plan with its serials moved.
LEMMA UpdatedIsConf ==
  ASSUME NEW cf, IsConf(cf), IsConf(conf), NEW r \in Requests, Acceptable(cf, r), day \in 0 .. MaxDays
  PROVE  /\ IsConf(Updated(cf, r)) /\ DOMAIN Updated(cf, r).zones = DOMAIN Planned(cf, r).zones
         /\ Updated(cf, r).recs = Planned(cf, r).recs
         /\ \A z \in DOMAIN Planned(cf, r).zones : Updated(cf, r).zones[z].opts = Planned(cf, r).zones[z].opts
         /\ \A z \in DOMAIN conf.zones \cap DOMAIN Planned(cf, r).zones :
              /\ Updated(cf, r).zones[z].serial >= conf.zones[z].serial
              /\ z \in Touched(Planned(cf, r)) => Updated(cf, r).zones[z].serial > conf.zones[z].serial
<1> DEFINE p == Planned(cf, r)
           b == Bumped(p)
           u == Updated(cf, r)
<1>1. Plannable(cf, r) /\ \A z \in Touched(p) : CanBump(conf.zones[z].serial)
  BY DEF Acceptable
<1>2. IsConf(p) /\ (r.op = "import" => r.zone \in DOMAIN p.zones)
  BY <1>1, PlannedIsConf
<1> HIDE DEF p
<1>3. /\ IsConf(b) /\ DOMAIN b.zones = DOMAIN p.zones /\ b.recs = p.recs
      /\ \A z \in DOMAIN p.zones : b.zones[z].opts = p.zones[z].opts
      /\ \A z \in DOMAIN conf.zones \cap DOMAIN p.zones :
           b.zones[z].serial = IF z \in Touched(p) THEN AnySerial(conf.zones[z].serial) ELSE conf.zones[z].serial
  BY <1>1, <1>2, BumpedIsConf
<1>4. \A z \in DOMAIN conf.zones \cap DOMAIN p.zones :
        /\ b.zones[z].serial >= conf.zones[z].serial
        /\ z \in Touched(p) => b.zones[z].serial > conf.zones[z].serial
  <2>1. \A z \in DOMAIN conf.zones : conf.zones[z].serial \in Nat
    BY SerialsAssumption DEF IsConf
  <2>2. DateBase \in Nat
    BY DateBaseType, SerialsAssumption
  <2> QED BY <1>3, <2>1, <2>2 DEF AnySerial
<1>5. u = WithImported(b, r)
  BY DEF Updated, p
<1> HIDE DEF b, u
<1>6. CASE r.op # "import" \/ r.serial < 0
  <2>1. u = b
    BY <1>5, <1>6 DEF WithImported
  <2> QED BY <1>3, <1>4, <2>1 DEF u, p
<1>7. CASE ~(r.op # "import" \/ r.serial < 0)
  <2> DEFINE D == DOMAIN b.zones
             o == Larger(b.zones[r.zone].serial, r.serial)
             new == [b.zones[r.zone] EXCEPT !.serial = o]
             zs == [b.zones EXCEPT ![r.zone] = new]
  <2>1. PICK O : b \in Confs(D, O, {b.recs})
    BY <1>3, ConfHasType
  <2>2. r.zone \in D /\ r.serial \in 0 .. MaxSerial
    BY <1>2, <1>3, <1>7, RequestsAssumption, SerialsAssumption
  <2>3. b.zones \in [D -> [serial : 0 .. MaxSerial, opts : O]] /\ b \in [zones : {b.zones}, recs : {b.recs}]
    BY <2>1 DEF Confs
  <2>4. u = [b EXCEPT !.zones = zs]
    <3>1. u = [b EXCEPT !.zones[r.zone].serial = o]
      BY <1>5, <1>7 DEF WithImported
    <3> HIDE DEF o
    <3> QED BY <3>1, <2>2, <2>3
  <2> HIDE DEF zs, D
  <2>5. o \in 0 .. MaxSerial /\ o >= b.zones[r.zone].serial
    <3> DEFINE v == b.zones[r.zone].serial
    <3>1. v \in 0 .. MaxSerial
      BY <2>2, <2>3
    <3> HIDE DEF v
    <3>2. Larger(v, r.serial) \in 0 .. MaxSerial /\ Larger(v, r.serial) >= v
      BY <2>2, <3>1, SerialsAssumption DEF Larger
    <3> QED BY <3>2 DEF v
  <2> HIDE DEF o
  <2>6. new \in [serial : 0 .. MaxSerial, opts : O] /\ new.opts = b.zones[r.zone].opts /\ new.serial = o
    <3> DEFINE v == b.zones[r.zone]
    <3>1. v \in [serial : 0 .. MaxSerial, opts : O]
      BY <2>2, <2>3
    <3>2. new = [v EXCEPT !.serial = o]
      OBVIOUS
    <3> HIDE DEF v, new
    <3> QED BY <2>5, <3>1, <3>2 DEF v
  <2> HIDE DEF new
  <2>7. /\ zs \in [D -> [serial : 0 .. MaxSerial, opts : O]] /\ zs[r.zone] = new
        /\ \A z \in D \ {r.zone} : zs[z] = b.zones[z]
    BY <2>2, <2>3, <2>6 DEF zs
  <2>8. u = [zones |-> zs, recs |-> b.recs]
    <3> DEFINE y == b.zones
               x == b.recs
    <3>1. b \in [zones : {y}, recs : {x}]
      BY <2>3
    <3> HIDE DEF y, x
    <3>2. u = [zones |-> zs, recs |-> x]
      BY <2>4, <3>1
    <3> QED BY <3>2 DEF x
  <2>9. IsConf(u) /\ DOMAIN u.zones = D /\ u.recs = b.recs /\ u.zones = zs
    <3>1. u \in Confs(D, O, {b.recs})
      BY <2>7, <2>8 DEF Confs
    <3> QED BY <2>8, <3>1, TypeIsConf
  <2>10. \A z \in D : /\ zs[z].opts = b.zones[z].opts /\ zs[z].serial >= b.zones[z].serial
                      /\ zs[z].serial \in Int /\ b.zones[z].serial \in Int
    BY <2>3, <2>5, <2>6, <2>7, SerialsAssumption
  <2>11. \A z \in DOMAIN conf.zones : conf.zones[z].serial \in Nat
    BY SerialsAssumption DEF IsConf
  <2>12. /\ IsConf(u) /\ DOMAIN u.zones = DOMAIN p.zones /\ u.recs = p.recs
         /\ \A z \in DOMAIN p.zones : u.zones[z].opts = p.zones[z].opts
         /\ \A z \in DOMAIN conf.zones \cap DOMAIN p.zones :
              /\ u.zones[z].serial >= conf.zones[z].serial
              /\ z \in Touched(p) => u.zones[z].serial > conf.zones[z].serial
    BY <1>3, <1>4, <2>9, <2>10, <2>11 DEF D
  <2> QED BY <2>12 DEF u, p
<1> QED BY <1>6, <1>7

\* Serials never go back, and grow with what their zone answers.
Moves(old, new) ==
  \A z \in DOMAIN old.zones \cap DOMAIN new.zones :
    /\ new.zones[z].serial >= old.zones[z].serial
    /\ Authority(old, z) # Authority(new, z) => new.zones[z].serial > old.zones[z].serial

\* What a zone answers does not depend on the serials.
LEMMA SameAuthority ==
  ASSUME NEW a, NEW b, DOMAIN a.zones = DOMAIN b.zones, a.recs = b.recs, NEW z, a.zones[z].opts = b.zones[z].opts
  PROVE  Authority(a, z) = Authority(b, z)
<1>1. \A n : Zone(a, n) = Zone(b, n)
  BY DEF Zone
<1>2. Direct(a, z) = Direct(b, z)
  BY <1>1 DEF Direct
<1> QED BY <1>2 DEF Authority

\* What a request writes moves the serials of memory, whatever configuration it had read.
LEMMA UpdatedMoves ==
  ASSUME NEW cf, IsConf(cf), IsConf(conf), NEW r \in Requests, Acceptable(cf, r), day \in 0 .. MaxDays
  PROVE  Moves(conf, Updated(cf, r))
<1> DEFINE p == Planned(cf, r)
           u == Updated(cf, r)
<1>1. /\ DOMAIN u.zones = DOMAIN p.zones /\ u.recs = p.recs
      /\ \A z \in DOMAIN p.zones : u.zones[z].opts = p.zones[z].opts
      /\ \A z \in DOMAIN conf.zones \cap DOMAIN p.zones :
           /\ u.zones[z].serial >= conf.zones[z].serial
           /\ z \in Touched(p) => u.zones[z].serial > conf.zones[z].serial
  BY UpdatedIsConf
<1> HIDE DEF p, u
<1>2. \A z \in DOMAIN p.zones : Authority(u, z) = Authority(p, z)
  BY <1>1, SameAuthority
<1>3. Moves(conf, u)
  BY <1>1, <1>2 DEF Moves, Touched
<1> QED BY <1>3 DEF u

----------------------------------------------------------------------------
(* Memory, the file and the configurations being written.                     *)

\* Everything that is or may become the configuration is one, and a zone that
\* is being created is in what is being written.
Typed ==
  /\ IsConf(conf) /\ IsConf(disk) /\ day \in 0 .. MaxDays
  /\ \A c \in Clients : req[c].pc = "holding" => IsConf(req[c].base)
  /\ \A c \in InFlight : /\ IsConf(req[c].next)
                         /\ req[c].r.op = "create" => req[c].r.zone \in DOMAIN req[c].next.zones

\* As long as no two changes overlapped: one at most is under way, the file is
\* what memory says or what that one has renamed, and it moves the serials of
\* memory as it is now.
Alone ==
  "overlap" \notin hist.races =>
    /\ \A c, d \in InFlight : c = d
    /\ InFlight = {} => disk = conf
    /\ \A c \in InFlight : /\ disk = (IF req[c].pc = "writing" THEN conf ELSE req[c].next)
                           /\ Moves(conf, req[c].next)

\* What was acknowledged is in memory and in what is under way.
AckedEverywhere ==
  hist.races = {} => /\ hist.acked \subseteq DOMAIN conf.zones
                     /\ \A c \in InFlight : hist.acked \subseteq DOMAIN req[c].next.zones

Chain == IsLog(audit) /\ Verified(audit)

CInv == Typed /\ Alone /\ AckedEverywhere /\ Chain

\* The first configuration is in memory and in the file.
LEMMA CInitHolds == Init => CInv
<1> SUFFICES ASSUME Init PROVE CInv
  OBVIOUS
<1>1. InFlight = {} /\ \A c \in Clients : req[c].pc = "idle"
  BY DEF Init, InFlight, Idle
<1>2. conf = FirstConf /\ disk = FirstConf /\ day = 0 /\ audit = <<>> /\ hist.acked = {}
  BY DEF Init
<1>3. Typed
  BY <1>1, <1>2, FirstConfAssumption, SerialsAssumption DEF Typed
<1>4. Chain
  BY <1>2 DEF Chain, IsLog, Verified
<1> QED BY <1>1, <1>2, <1>3, <1>4 DEF CInv, Alone, AckedEverywhere

\* A write begins, of what r makes of the configuration base it has read.
LEMMA Begins ==
  ASSUME IInv, CInv, NEW c \in Clients, c \notin InFlight, NEW r \in Requests, NEW base, IsConf(base),
         Acceptable(base, r), req' = [req EXCEPT ![c] = Writing(r, base)],
         hist'.races = hist.races \cup Racing(base), hist'.acked = hist.acked \ Removed(r, base),
         UNCHANGED <<conf, disk, audit, day>>
  PROVE  CInv'
<1> DEFINE next == Updated(base, r)
           p == Planned(base, r)
<1>1. /\ InFlight' = InFlight \cup {c} /\ \A d \in Clients \ {c} : req'[d] = req[d]
      /\ req'[c].pc = "writing" /\ req'[c].r = r /\ req'[c].next = next
  BY DEF Writing, InFlight, IInv, Shape, ReqShape
<1>2. day \in 0 .. MaxDays /\ IsConf(conf) /\ Plannable(base, r)
  BY DEF CInv, Typed, Acceptable
<1>3. IsConf(next) /\ DOMAIN next.zones = DOMAIN p.zones
  BY <1>2, UpdatedIsConf
<1>4. /\ r.op = "create" => r.zone \in DOMAIN p.zones
      /\ r.op \notin {"delete", "update"} => DOMAIN base.zones \subseteq DOMAIN p.zones
  BY <1>2, PlannedIsConf
<1>5. Moves(conf, next)
  BY <1>2, UpdatedMoves
<1> HIDE DEF next, p
<1>6. Typed'
  BY <1>1, <1>3, <1>4 DEF CInv, Typed, InFlight
<1>7. Alone'
  <2> SUFFICES ASSUME "overlap" \notin hist'.races PROVE Alone'
    BY DEF Alone
  <2>1. InFlight = {} /\ "overlap" \notin hist.races
    BY DEF Racing
  <2>2. disk = conf
    BY <2>1 DEF CInv, Alone
  <2> QED BY <1>1, <1>5, <2>1, <2>2 DEF Alone
<1>8. AckedEverywhere'
  <2> SUFFICES ASSUME hist'.races = {} PROVE AckedEverywhere'
    BY DEF AckedEverywhere
  <2>1. InFlight = {} /\ base = conf /\ hist.races = {}
    BY DEF Racing
  <2>2. hist.acked \subseteq DOMAIN conf.zones
    BY <2>1 DEF CInv, AckedEverywhere
  <2>3. hist'.acked \subseteq DOMAIN p.zones
    BY <1>4, <2>1, <2>2 DEF Removed, p
  <2> QED BY <1>1, <1>3, <2>1, <2>2, <2>3 DEF AckedEverywhere
<1>9. Chain'
  BY DEF CInv, Chain, IsLog, Verified
<1> QED BY <1>6, <1>7, <1>8, <1>9 DEF CInv

\* A write ends: with the configuration replaced after the rename, or without.
LEMMA Finishes ==
  ASSUME IInv, CInv, NEW c \in InFlight, req' = [req EXCEPT ![c] = Idle],
         \/ req[c].pc = "writing" /\ conf' = conf /\ hist'.acked = hist.acked
         \/ /\ req[c].pc = "renamed" /\ conf' = req[c].next
            /\ \/ hist'.acked = hist.acked
               \/ req[c].r.op = "create" /\ hist'.acked = hist.acked \cup {req[c].r.zone},
         hist'.races = hist.races, UNCHANGED <<disk, day>>
  PROVE  Typed' /\ Alone' /\ AckedEverywhere'
<1>1. InFlight' = InFlight \ {c} /\ \A d \in Clients \ {c} : req'[d] = req[d]
  BY Ends DEF InFlight, IInv, Shape, ReqShape
<1>2. req'[c].pc = "idle"
  BY DEF Idle, InFlight, IInv, Shape, ReqShape
<1>3. Typed'
  BY <1>1, <1>2 DEF CInv, Typed, InFlight
<1>4. Alone'
  BY <1>1 DEF CInv, Alone
<1>5. AckedEverywhere'
  <2> SUFFICES ASSUME hist'.races = {} PROVE AckedEverywhere'
    BY DEF AckedEverywhere
  <2>1. "overlap" \notin hist.races
    OBVIOUS
  <2>2. InFlight' = {}
    BY <1>1, <2>1 DEF CInv, Alone
  <2>3. hist'.acked \subseteq DOMAIN conf'.zones
    BY DEF CInv, AckedEverywhere, Typed
  <2> QED BY <2>2, <2>3 DEF AckedEverywhere
<1> QED BY <1>3, <1>4, <1>5

\* A client reads the configuration: it holds one that is.
LEMMA CAsk ==
  ASSUME IInv, CInv, NEW c \in Clients, NEW r \in Requests, Ask(c, r)
  PROVE  CInv'
<1>1. /\ req[c].pc = "idle" /\ req' = [req EXCEPT ![c] = [pc |-> "holding", r |-> r, base |-> conf]]
      /\ conf' = conf /\ disk' = disk /\ audit' = audit /\ day' = day
      /\ hist'.races = hist.races /\ hist'.acked = hist.acked
  BY DEF Ask, IInv, Shape, HistShape
<1>2. InFlight' = InFlight /\ \A d \in InFlight : req'[d] = req[d]
  BY <1>1 DEF InFlight, IInv, Shape, ReqShape
<1>3. \A d \in Clients : req'[d].pc = "holding" => IsConf(req'[d].base)
  BY <1>1 DEF CInv, Typed, IInv, Shape, ReqShape
<1> QED BY <1>1, <1>2, <1>3 DEF CInv, Typed, Alone, AckedEverywhere, Chain

\* It writes what it makes of it.
LEMMA CSubmit ==
  ASSUME IInv, CInv, NEW c \in Clients, Submit(c)
  PROVE  CInv'
<1> DEFINE r == req[c].r
           base == req[c].base
<1>1. /\ r \in Requests /\ req[c].pc = "holding" /\ c \notin InFlight
      /\ conf' = conf /\ disk' = disk /\ audit' = audit /\ day' = day
  BY DEF Submit, IInv, Shape, ReqShape, Idle, InFlight
<1>2. IsConf(base)
  BY <1>1 DEF CInv, Typed
<1>3. CASE Acceptable(base, r)
  <2>1. req' = [req EXCEPT ![c] = Writing(r, base)] /\ hist' = Going(hist, r, base)
    BY <1>3 DEF Submit
  <2>2. hist'.races = hist.races \cup Racing(base) /\ hist'.acked = hist.acked \ Removed(r, base)
    BY <2>1, GoingShape DEF IInv, Shape, HistShape
  <2> HIDE DEF r, base
  <2> QED BY <1>1, <1>2, <1>3, <2>1, <2>2, Begins
<1>4. CASE ~Acceptable(base, r)
  <2>1. req' = [req EXCEPT ![c] = Idle] /\ hist' = hist
    BY <1>4 DEF Submit
  <2>2. InFlight' = InFlight /\ \A d \in InFlight : req'[d] = req[d]
    BY <1>1, <2>1, Ends
  <2>3. \A d \in Clients : req'[d].pc = "holding" => IsConf(req'[d].base)
    BY <2>1 DEF CInv, Typed, IInv, Shape, ReqShape, Idle
  <2> QED BY <1>1, <2>1, <2>2, <2>3 DEF CInv, Typed, Alone, AckedEverywhere, Chain
<1> QED BY <1>3, <1>4

LEMMA CPost ==
  ASSUME IInv, CInv, NEW c \in Clients, NEW r \in Requests, Post(c, r)
  PROVE  CInv'
<1> DEFINE h == [hist EXCEPT !.requests = @ + 1]
<1>1. /\ c \notin InFlight /\ Acceptable(conf, r) /\ req' = [req EXCEPT ![c] = Writing(r, conf)]
      /\ conf' = conf /\ disk' = disk /\ audit' = audit /\ day' = day
  BY DEF Post, InFlight
<1>2. /\ h \in [requests : Nat, faults : Nat, crashes : Nat, effects : [Keys -> Nat], excused : SUBSET Named,
                orphans : SUBSET Named, acked : SUBSET {q.zone : q \in Requests}, races : SUBSET {"overlap", "stale"}]
      /\ h.races = hist.races /\ h.acked = hist.acked
  BY DEF IInv, Shape, HistShape
<1>3. hist' = Going(h, r, conf)
  BY DEF Post
<1> HIDE DEF h
<1>4. hist'.races = hist.races \cup Racing(conf) /\ hist'.acked = hist.acked \ Removed(r, conf)
  BY <1>2, <1>3, GoingShape
<1>5. IsConf(conf)
  BY DEF CInv, Typed
<1> QED BY <1>1, <1>4, <1>5, Begins

LEMMA CExecute ==
  ASSUME IInv, CInv, NEW c \in Clients, NEW r \in Requests, Execute(c, r)
  PROVE  CInv'
<1> DEFINE h == [hist EXCEPT !.requests = @ + 1, !.orphans = @ \ {r.key}]
<1>1. /\ c \notin InFlight /\ Acceptable(conf, r) /\ req' = [req EXCEPT ![c] = Writing(r, conf)]
      /\ conf' = conf /\ disk' = disk /\ audit' = audit /\ day' = day
  BY DEF Execute, InFlight
<1>2. /\ h \in [requests : Nat, faults : Nat, crashes : Nat, effects : [Keys -> Nat], excused : SUBSET Named,
                orphans : SUBSET Named, acked : SUBSET {q.zone : q \in Requests}, races : SUBSET {"overlap", "stale"}]
      /\ h.races = hist.races /\ h.acked = hist.acked
  <2>1. h = [[hist EXCEPT !.requests = hist.requests + 1] EXCEPT !.orphans = hist.orphans \ {r.key}]
    BY DEF IInv, Shape, HistShape
  <2>2. hist.requests + 1 \in Nat /\ hist.orphans \ {r.key} \in SUBSET Named
    BY DEF IInv, Shape, HistShape
  <2> HIDE DEF h
  <2> QED BY <2>1, <2>2 DEF IInv, Shape, HistShape
<1>3. hist' = Going(h, r, conf)
  BY DEF Execute
<1> HIDE DEF h
<1>4. hist'.races = hist.races \cup Racing(conf) /\ hist'.acked = hist.acked \ Removed(r, conf)
  BY <1>2, <1>3, GoingShape
<1>5. IsConf(conf)
  BY DEF CInv, Typed
<1> QED BY <1>1, <1>4, <1>5, Begins

\* The file is now what the write has in hand.
LEMMA CRename ==
  ASSUME IInv, CInv, NEW c \in Clients, Rename(c)
  PROVE  CInv'
<1>1. /\ c \in InFlight /\ req[c].pc = "writing" /\ disk' = req[c].next
      /\ conf' = conf /\ audit' = audit /\ day' = day /\ hist' = hist
  BY DEF Rename, InFlight
<1>2. req' = [req EXCEPT ![c] = [pc |-> "renamed", r |-> req[c].r, next |-> req[c].next]]
  <2>1. req[c] = [pc |-> "writing", r |-> req[c].r, next |-> req[c].next]
    BY <1>1, ShapeOfRequest
  <2>2. [req[c] EXCEPT !.pc = "renamed"] = [pc |-> "renamed", r |-> req[c].r, next |-> req[c].next]
    BY <2>1
  <2> QED BY <2>2 DEF Rename
<1>3. /\ InFlight' = InFlight /\ \A d \in Clients \ {c} : req'[d] = req[d]
      /\ req'[c].pc = "renamed" /\ req'[c].r = req[c].r /\ req'[c].next = req[c].next
  BY <1>1, <1>2 DEF InFlight, IInv, Shape, ReqShape
<1>4. Typed'
  BY <1>1, <1>3 DEF CInv, Typed, InFlight
<1>5. Alone'
  BY <1>1, <1>3 DEF CInv, Alone
<1>6. AckedEverywhere'
  BY <1>1, <1>3 DEF CInv, AckedEverywhere, InFlight
<1> QED BY <1>1, <1>4, <1>5, <1>6 DEF CInv, Chain

\* Nothing was written and memory stays.
LEMMA CWriteFails ==
  ASSUME IInv, CInv, NEW c \in Clients, WriteFails(c)
  PROVE  CInv'
<1>1. /\ c \in InFlight /\ req[c].pc = "writing" /\ req' = [req EXCEPT ![c] = Idle]
      /\ conf' = conf /\ disk' = disk /\ audit' = audit /\ day' = day
      /\ hist'.races = hist.races /\ hist'.acked = hist.acked
  BY DEF WriteFails, InFlight, IInv, Shape, HistShape
<1>2. Typed' /\ Alone' /\ AckedEverywhere'
  BY <1>1, Finishes
<1> QED BY <1>1, <1>2 DEF CInv, Chain

\* An entry that may be added keeps the chain.
LEMMA LoggedChain ==
  ASSUME IInv, CInv, audit' = audit \/ audit' = Logged(hist.requests)
  PROVE  Chain'
<1>1. CASE audit' = audit
  BY <1>1 DEF CInv, Chain
<1>2. CASE audit' = Logged(hist.requests)
  <2>1. day \in Nat /\ hist.requests \in Nat
    BY DEF IInv, Shape, HistShape
  <2>2. IsLog(Logged(hist.requests)) /\ Verified(Logged(hist.requests))
    BY <2>1, LoggedVerifies DEF CInv, Chain
  <2> QED BY <1>2, <2>2 DEF Chain
<1> QED BY <1>1, <1>2

\* What the end of a write leaves of the history of races and of what was
\* acknowledged.
LEMMA ApplyHist ==
  ASSUME IInv, NEW c \in Clients, Apply(c)
  PROVE  /\ hist'.races = hist.races
         /\ \/ hist'.acked = hist.acked
            \/ req[c].r.op = "create" /\ hist'.acked = hist.acked \cup {req[c].r.zone}
<1> DEFINE r == req[c].r
           h == TakesEffect(hist, r)
<1>1. c \in InFlight /\ hist' = IF r.op = "create" THEN [h EXCEPT !.acked = @ \cup {r.zone}] ELSE h
  BY DEF Apply, InFlight, Acknowledged
<1>2. /\ h \in [requests : Nat, faults : Nat, crashes : Nat, effects : [Keys -> Nat], excused : SUBSET Named,
               orphans : SUBSET Named, acked : SUBSET {q.zone : q \in Requests}, races : SUBSET {"overlap", "stale"}]
      /\ h.races = hist.races /\ h.acked = hist.acked
  BY <1>1, ShapeOfRequest, TakesEffectFacts
<1> HIDE DEF h
<1> QED BY <1>1, <1>2

LEMMA ApplyFailsHist ==
  ASSUME IInv, NEW c \in Clients, ApplyFails(c)
  PROVE  hist'.races = hist.races /\ hist'.acked = hist.acked
<1> DEFINE r == req[c].r
           h == TakesEffect(hist, r)
           failed == [h EXCEPT !.faults = @ + 1, !.excused = @ \cup {r.key}]
<1>1. c \in InFlight /\ (hist' = failed \/ hist' = [failed EXCEPT !.orphans = @ \cup {r.key}])
  BY DEF ApplyFails, InFlight
<1>2. /\ h \in [requests : Nat, faults : Nat, crashes : Nat, effects : [Keys -> Nat], excused : SUBSET Named,
               orphans : SUBSET Named, acked : SUBSET {q.zone : q \in Requests}, races : SUBSET {"overlap", "stale"}]
      /\ h.races = hist.races /\ h.acked = hist.acked
  BY <1>1, ShapeOfRequest, TakesEffectFacts
<1>3. r.key \in Named
  BY <1>1, ShapeOfRequest DEF Named
<1> HIDE DEF h, r
<1>4. /\ failed \in [requests : Nat, faults : Nat, crashes : Nat, effects : [Keys -> Nat], excused : SUBSET Named,
               orphans : SUBSET Named, acked : SUBSET {q.zone : q \in Requests}, races : SUBSET {"overlap", "stale"}]
      /\ failed.races = hist.races /\ failed.acked = hist.acked
  <2>1. failed = [[h EXCEPT !.faults = h.faults + 1] EXCEPT !.excused = h.excused \cup {r.key}]
    BY <1>2
  <2>2. h.faults + 1 \in Nat /\ h.excused \cup {r.key} \in SUBSET Named
    BY <1>2, <1>3
  <2> HIDE DEF failed
  <2> QED BY <1>2, <2>1, <2>2
<1> HIDE DEF failed
<1> QED BY <1>1, <1>4

\* Memory becomes what the file is.
LEMMA CApply ==
  ASSUME IInv, CInv, NEW c \in Clients, Apply(c)
  PROVE  CInv'
<1>1. /\ c \in InFlight /\ req[c].pc = "renamed" /\ req' = [req EXCEPT ![c] = Idle]
      /\ conf' = req[c].next /\ disk' = disk /\ day' = day
      /\ audit' = Logged(hist.requests) \/ audit' = audit
  BY DEF Apply, InFlight
<1>2. Typed' /\ Alone' /\ AckedEverywhere'
  BY <1>1, ApplyHist, Finishes
<1>3. Chain'
  BY <1>1, LoggedChain
<1> QED BY <1>2, <1>3 DEF CInv

LEMMA CApplyFails ==
  ASSUME IInv, CInv, NEW c \in Clients, ApplyFails(c)
  PROVE  CInv'
<1>1. /\ c \in InFlight /\ req[c].pc = "renamed" /\ req' = [req EXCEPT ![c] = Idle]
      /\ conf' = req[c].next /\ disk' = disk /\ day' = day
      /\ audit' = Logged(hist.requests) \/ audit' = audit
  BY DEF ApplyFails, InFlight
<1>2. Typed' /\ Alone' /\ AckedEverywhere'
  BY <1>1, ApplyFailsHist, Finishes
<1>3. Chain'
  BY <1>1, LoggedChain
<1> QED BY <1>2, <1>3 DEF CInv

\* Memory becomes the file, with every write gone.
LEMMA CRestart ==
  ASSUME IInv, CInv, Restart
  PROVE  CInv'
<1> DEFINE lost == {req[c].r.key : c \in InFlight}
<1>1. /\ conf' = disk /\ disk' = disk /\ req' = [c \in Clients |-> Idle] /\ audit' = audit /\ day' = day
      /\ hist' = [hist EXCEPT !.crashes = @ + 1, !.excused = @ \cup lost, !.orphans = @ \cup lost]
  BY DEF Restart
<1> HIDE DEF lost
<1>2. hist'.races = hist.races /\ hist'.acked = hist.acked
  BY <1>1 DEF IInv, Shape, HistShape
<1>3. InFlight' = {} /\ \A c \in Clients : req'[c].pc = "idle"
  BY <1>1 DEF InFlight, Idle
<1>4. AckedEverywhere'
  <2> SUFFICES ASSUME hist.races = {} PROVE hist.acked \subseteq DOMAIN disk.zones
    BY <1>1, <1>2, <1>3 DEF AckedEverywhere
  <2> QED BY DEF CInv, AckedEverywhere, Alone
<1> QED BY <1>1, <1>3, <1>4 DEF CInv, Typed, Alone, Chain

\* Nothing is being written when the day changes.
LEMMA CNextDay ==
  ASSUME IInv, CInv, NextDay
  PROVE  CInv'
<1>1. /\ conf' = conf /\ disk' = disk /\ req' = req /\ audit' = audit /\ InFlight = {}
      /\ day < MaxDays /\ day' = day + 1
      /\ hist'.races = hist.races /\ hist'.acked = hist.acked
  BY DEF NextDay, IInv, Shape, HistShape
<1>2. InFlight' = {}
  BY <1>1 DEF InFlight
<1>3. Typed'
  BY <1>1, <1>2, SerialsAssumption DEF CInv, Typed
<1>4. Chain'
  BY <1>1 DEF CInv, Chain
<1> QED BY <1>1, <1>2, <1>3, <1>4 DEF CInv, Alone, AckedEverywhere

\* Every step keeps both invariants.
LEMMA CStepHolds == IInv /\ CInv /\ [Next]_vars => CInv'
<1> SUFFICES ASSUME IInv, CInv, [Next]_vars PROVE CInv'
  OBVIOUS
<1>1. CASE UNCHANGED <<conf, disk, req, audit, day, hist>>
  <2>1. InFlight' = InFlight
    BY <1>1 DEF InFlight
  <2> QED BY <1>1, <2>1 DEF CInv, Typed, Alone, AckedEverywhere, Chain
<1>2. CASE \E c \in Clients : Submit(c) \/ Rename(c) \/ WriteFails(c) \/ Apply(c) \/ ApplyFails(c)
  BY <1>2, CSubmit, CRename, CWriteFails, CApply, CApplyFails
<1>3. CASE \E c \in Clients, r \in Requests : Ask(c, r) \/ Post(c, r) \/ Execute(c, r) \/ Sweep(c, r)
  <2> PICK c \in Clients, r \in Requests : Ask(c, r) \/ Post(c, r) \/ Execute(c, r) \/ Sweep(c, r)
    BY <1>3
  <2>1. CASE Sweep(c, r)
    BY <1>1, <2>1 DEF Sweep
  <2> QED BY <2>1, CAsk, CPost, CExecute
<1>4. CASE Restart \/ NextDay
  BY <1>4, CRestart, CNextDay
<1>5. CASE UNCHANGED vars
  BY <1>1, <1>5 DEF vars
<1> QED BY <1>2, <1>3, <1>4, <1>5 DEF Next, Done

\* The inductive invariant about the configurations and the chain holds throughout.
THEOREM ConfInvariance == Spec => []CInv
BY CInitHolds, CStepHolds, Invariance, PTL DEF Spec

\* The audit chain verifies whatever has been pruned from its head, whichever
\* entries failed to be written and wherever the process died.
THEOREM ChainAlwaysVerifies == Spec => []ChainVerifies
<1>1. CInv => ChainVerifies
  BY DEF CInv, Chain, ChainVerifies
<1> QED BY <1>1, ConfInvariance, PTL

\* A zone whose creation was answered 201 stays in memory and in the file
\* until a request removes it, through failures and crashes, when no two
\* changes overlapped and none started from a configuration gone stale.
THEOREM AcknowledgedIsKept == Spec => []AckedIsKept
<1>1. CInv => AckedIsKept
  <2> SUFFICES ASSUME CInv, hist.races = {} PROVE hist.acked \subseteq DOMAIN conf.zones /\ hist.acked \subseteq DOMAIN disk.zones
    BY DEF AckedIsKept
  <2>1. hist.acked \subseteq DOMAIN conf.zones /\ \A c \in InFlight : hist.acked \subseteq DOMAIN req[c].next.zones
    BY DEF CInv, AckedEverywhere
  <2>2. disk = conf \/ \E c \in InFlight : disk = req[c].next
    BY DEF CInv, Alone
  <2> QED BY <2>1, <2>2
<1> QED BY <1>1, ConfInvariance, PTL

\* Memory, the file and the rows of the keys agree between requests.
THEOREM StaysConsistent == Spec => []Consistent
<1>1. IInv /\ CInv => Consistent
  <2> SUFFICES ASSUME IInv, CInv PROVE Consistent
    OBVIOUS
  <2>1. \A c \in Clients : req[c].pc \in {"idle", "holding", "writing", "renamed"}
    BY DEF IInv, Shape, ReqShape, Idle
  <2>2. \A k \in Keys : keys[k].state \in Row
    BY DEF IInv, Shape, KeysShape, NoKey, Row
  <2>3. TypeOK
    BY <2>1, <2>2 DEF TypeOK, CInv, Typed
  <2> QED BY <2>3 DEF Consistent, IInv, CInv, Alone, FileIsMemory
<1> QED BY <1>1, Invariance, ConfInvariance, PTL

\* Secondaries never see the serial of a zone go back, and see it grow with
\* what the zone answers, when no two changes overlapped.
THEOREM SerialsOnlyMove == Spec => SerialsMove
<1> DEFINE A == "overlap" \notin hist'.races =>
      \A z \in DOMAIN conf.zones \cap DOMAIN conf'.zones :
        /\ conf'.zones[z].serial >= conf.zones[z].serial
        /\ Authority(conf, z) # Authority(conf', z) => conf'.zones[z].serial > conf.zones[z].serial
<1>1. IInv /\ CInv /\ [Next]_vars => A
  <2> SUFFICES ASSUME IInv, CInv, [Next]_vars, "overlap" \notin hist'.races PROVE Moves(conf, conf')
    BY DEF Moves
  <2>1. Moves(conf, conf)
    <3>1. \A z \in DOMAIN conf.zones : conf.zones[z].serial \in Nat
      BY SerialsAssumption DEF CInv, Typed, IsConf
    <3> QED BY <3>1 DEF Moves
  <2>2. CASE conf' = conf
    BY <2>1, <2>2
  <2>3. "overlap" \notin hist.races => Moves(conf, disk) /\ \A c \in InFlight : Moves(conf, req[c].next)
    BY <2>1 DEF CInv, Alone
  <2>4. ASSUME NEW c \in Clients, Apply(c) \/ ApplyFails(c) PROVE Moves(conf, conf')
    <3>1. c \in InFlight /\ conf' = req[c].next
      BY <2>4 DEF Apply, ApplyFails, InFlight
    <3>2. hist'.races = hist.races
      BY <2>4, ApplyHist, ApplyFailsHist
    <3> QED BY <2>3, <3>1, <3>2
  <2>5. CASE Restart
    <3>1. conf' = disk /\ hist'.races = hist.races
      BY <2>5 DEF Restart, IInv, Shape, HistShape
    <3> QED BY <2>3, <3>1
  <2> QED BY <2>2, <2>4, <2>5 DEF Next, Done, vars, Submit, Rename, WriteFails, Ask, Post, Execute, Sweep, NextDay
<1> QED BY <1>1, Invariance, ConfInvariance, PTL DEF Spec, SerialsMove
=============================================================================
