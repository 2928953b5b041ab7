-------------------------- MODULE IdentitiesProofs --------------------------
(* An owner remains, sessions are revoked, accounts are kept and invitations  *)
(* are not lost: for every set of users, sessions, invitations and changes.   *)
EXTENDS Identities, TLAPS

Roles == DOMAIN Fixed \cup DOMAIN Custom \cup {"none"}
User == [role : Roles, enabled : BOOLEAN, by : Invitations \cup {"none", "setup"}]
Session == [user : Names, role : Roles, until : Nat, revoked : BOOLEAN]
Invitation == [user : Names, role : Roles, until : Nat, used : BOOLEAN]

UsersShape == users \in [Names -> User] /\ \A n \in Names : ~Exists(n) => ~users[n].enabled
SessionsShape == /\ sessions = [s \in Sessions |-> sessions[s]]
                 /\ \A s \in Sessions : sessions[s] # None => sessions[s] \in Session
InvitationsShape == /\ invitations = [i \in Invitations |-> invitations[i]]
                    /\ \A i \in Invitations : invitations[i] # None => invitations[i] \in Invitation
ReqShape ==
  /\ req = [c \in Clients |-> req[c]]
  /\ \A c \in Clients :
       \/ req[c].pc \in {"idle", "setup"}
       \/ req[c].pc = "login" /\ req[c].user \in Names /\ req[c].role \in Roles
       \/ req[c].pc = "accept" /\ req[c].inv \in Invitations /\ invitations[req[c].inv] # None
       \/ req[c].pc = "body" /\ req[c].op \in Ops
HistShape == hist \in [faults : Nat, ops : Nat, owned : BOOLEAN, spared : SUBSET Sessions] /\ now \in Nat
RolesShape == DOMAIN roles \subseteq Roles

Shape == UsersShape /\ SessionsShape /\ InvitationsShape /\ ReqShape /\ HistShape /\ RolesShape
IInv == Shape /\ OwnerRemains /\ SessionsRevoked /\ NoInvitationLost

LEMMA InitHolds == Init => IInv
<1> SUFFICES ASSUME Init PROVE IInv
  OBVIOUS
<1>1. UsersShape /\ ~hist.owned
  BY DEF Init, UsersShape, User, Roles, NoUser, Exists
<1>2. SessionsShape /\ InvitationsShape /\ ReqShape /\ HistShape /\ RolesShape
  BY DEF Init, SessionsShape, InvitationsShape, ReqShape, HistShape, RolesShape, Roles, Idle
<1>3. SessionsRevoked /\ NoInvitationLost
  BY DEF Init, SessionsRevoked, NoInvitationLost
<1> QED BY <1>1, <1>2, <1>3 DEF IInv, Shape, OwnerRemains

----------------------------------------------------------------------------
(* What the tables' operations do.                                            *)

\* Creating a user adds an enabled one where there was none, or changes nothing.
LEMMA CreatedKeeps ==
  ASSUME IInv, NEW n \in Names, NEW role \in Roles, NEW by \in Invitations \cup {"setup"},
         users' = Created(n, role, by)
  PROVE  /\ UsersShape'
         /\ \A m \in Names : Exists(m) => users'[m] = users[m]
         /\ ~Exists(n) => users'[n].by = by
         /\ IsConfigured(users) => IsConfigured(users')
<1>1. CASE Exists(n)
  BY <1>1 DEF Created, IInv, Shape, UsersShape, Exists
<1>2. CASE ~Exists(n)
  <2>1. users' = [users EXCEPT ![n] = [role |-> role, enabled |-> TRUE, by |-> by]]
    BY <1>2 DEF Created
  <2>2. users'[n] = [role |-> role, enabled |-> TRUE, by |-> by] /\ \A m \in Names \ {n} : users'[m] = users[m]
    BY <2>1 DEF IInv, Shape, UsersShape
  <2>3. [role |-> role, enabled |-> TRUE, by |-> by] \in User /\ by # "none"
    BY BoundsAssumption DEF User
  <2>4. UsersShape'
    BY <2>1, <2>2, <2>3 DEF IInv, Shape, UsersShape, Exists
  <2>5. \A m \in Names : users[m].enabled => users'[m] = users[m]
    BY <1>2, <2>2 DEF IInv, Shape, UsersShape
  <2> QED BY <1>2, <2>2, <2>4, <2>5 DEF Exists, IsConfigured, Owners
<1> QED BY <1>1, <1>2

\* Revoking keeps the table and leaves no valid session of the user.
LEMMA RevokedAllKeeps ==
  ASSUME IInv, NEW n \in Names, sessions' = RevokedAll(n)
  PROVE  /\ SessionsShape'
         /\ \A s \in Sessions : sessions'[s] # None /\ ~sessions'[s].revoked =>
              sessions'[s] = sessions[s] /\ sessions[s].user # n
<1>1. \A s \in Sessions : sessions'[s] = IF sessions[s] # None /\ sessions[s].user = n
                                         THEN [sessions[s] EXCEPT !.revoked = TRUE] ELSE sessions[s]
  BY DEF RevokedAll
<1>2. \A s \in Sessions : sessions[s] # None => [sessions[s] EXCEPT !.revoked = TRUE] \in Session
                                               /\ [sessions[s] EXCEPT !.revoked = TRUE].revoked
  BY DEF IInv, Shape, SessionsShape, Session
<1>3. SessionsShape'
  BY <1>1, <1>2 DEF SessionsShape, RevokedAll, IInv, Shape
<1> QED BY <1>1, <1>2, <1>3

\* Valid sessions stay sound while the accounts that exist stay as they are.
LEMMA SessionsStay ==
  ASSUME IInv, UNCHANGED sessions, hist.spared \subseteq hist'.spared, \A m \in Names : Exists(m) => users'[m] = users[m]
  PROVE  SessionsShape' /\ SessionsRevoked'
<1>1. SessionsShape'
  BY DEF IInv, Shape, SessionsShape
<1>2. \A m \in Names : users[m].enabled => users'[m] = users[m]
  BY DEF IInv, Shape, UsersShape
<1>3. \A s \in Sessions : sessions[s] # None => sessions[s].user \in Names
  BY DEF IInv, Shape, SessionsShape, Session
<1> QED BY <1>1, <1>2, <1>3 DEF IInv, SessionsRevoked

\* Whoever signs in does so with the role the account has, or is among those
\* excepted.
LEMMA SignInKeeps ==
  ASSUME IInv, NEW n \in Names, NEW role \in Roles, SignIn(n, role), UNCHANGED now,
         \A m \in Names : Exists(m) => users'[m] = users[m],
         IsConfigured(users) => IsConfigured(users')
  PROVE  SessionsShape' /\ SessionsRevoked' /\ HistShape' /\ OwnerRemains'
<1> DEFINE fresh == [user |-> n, role |-> role, until |-> now + IdleTtl, revoked |-> FALSE]
<1>1. PICK t \in Sessions :
        /\ sessions' = [sessions EXCEPT ![t] = fresh]
        /\ hist' = [hist EXCEPT !.spared = @ \cup {u \in {t} : ~users'[n].enabled \/ users'[n].role # role},
                                !.owned = @ \/ IsConfigured(users')]
  BY DEF SignIn
<1>2. PICK more \in SUBSET Sessions : more = {u \in {t} : ~users'[n].enabled \/ users'[n].role # role}
  OBVIOUS
<1>3. PICK owned \in BOOLEAN : owned = (hist.owned \/ IsConfigured(users'))
  OBVIOUS
<1>4. PICK h : h = [hist EXCEPT !.spared = @ \cup more]
  OBVIOUS
<1>5. h \in [faults : Nat, ops : Nat, owned : BOOLEAN, spared : SUBSET Sessions] /\ h.spared = hist.spared \cup more
      /\ h.owned = hist.owned
  BY <1>4 DEF IInv, Shape, HistShape
<1>6. hist' = [h EXCEPT !.owned = owned]
  BY <1>1, <1>2, <1>3, <1>4, <1>5
<1>7. HistShape' /\ hist'.spared = hist.spared \cup more /\ hist'.owned = owned
  BY <1>5, <1>6 DEF IInv, Shape, HistShape
<1>8. fresh \in Session
  BY BoundsAssumption DEF IInv, Shape, HistShape, Session
<1>9. fresh.user = n /\ fresh.role = role
  OBVIOUS
<1>10. \A m \in Names : users[m].enabled => users'[m] = users[m]
  BY DEF IInv, Shape, UsersShape
<1>11. \A s \in Sessions : sessions[s] # None => sessions[s].user \in Names
  BY DEF IInv, Shape, SessionsShape, Session
<1> HIDE DEF fresh
<1>12. sessions'[t] = fresh /\ \A s \in Sessions \ {t} : sessions'[s] = sessions[s]
  BY <1>1 DEF IInv, Shape, SessionsShape
<1>13. SessionsShape'
  BY <1>1, <1>8, <1>12 DEF IInv, Shape, SessionsShape
<1>14. t \in hist'.spared \/ (users'[n].enabled /\ users'[n].role = role)
  BY <1>2, <1>7
<1>15. SessionsRevoked'
  BY <1>7, <1>9, <1>10, <1>11, <1>12, <1>14 DEF IInv, SessionsRevoked
<1> QED BY <1>3, <1>7, <1>13, <1>15 DEF IInv, OwnerRemains

\* A user that stays as it was keeps what its invitation says of it.
LEMMA SpentStays ==
  ASSUME IInv, UNCHANGED invitations, \A m \in Names : Exists(m) => users'[m].by = users[m].by
  PROVE  NoInvitationLost'
<1>1. \A i \in Invitations : invitations[i] # None /\ invitations[i].used =>
        users[invitations[i].user].by = i /\ invitations[i].user \in Names /\ i # "none"
  BY BoundsAssumption DEF IInv, NoInvitationLost, Shape, InvitationsShape, Invitation
<1> QED BY <1>1 DEF NoInvitationLost, Exists

\* A request that moves on to a sound place leaves the requests sound.
LEMMA ReqKeeps ==
  ASSUME IInv, NEW c \in Clients, NEW r, req' = [req EXCEPT ![c] = r],
         \A i \in Invitations : invitations[i] # None => invitations'[i] # None,
         \/ r.pc \in {"idle", "setup"}
         \/ r.pc = "login" /\ r.user \in Names /\ r.role \in Roles
         \/ r.pc = "accept" /\ r.inv \in Invitations /\ invitations[r.inv] # None
         \/ r.pc = "body" /\ r.op \in Ops
  PROVE  ReqShape'
<1>1. req'[c] = r /\ \A d \in Clients \ {c} : req'[d] = req[d]
  BY DEF IInv, Shape, ReqShape
<1>2. req' = [d \in Clients |-> req'[d]]
  BY DEF IInv, Shape, ReqShape
<1> QED BY <1>1, <1>2 DEF IInv, Shape, ReqShape

----------------------------------------------------------------------------
(* One lemma per action.                                                      *)

\* Only a request or the clock moves.
LEMMA RequestMoves ==
  ASSUME IInv, ReqShape', HistShape', UNCHANGED <<users, invitations, sessions, roles>>,
         hist'.spared = hist.spared, hist'.owned = hist.owned
  PROVE  IInv'
<1>1. UsersShape' /\ SessionsShape' /\ InvitationsShape' /\ RolesShape'
  BY DEF IInv, Shape, UsersShape, SessionsShape, InvitationsShape, RolesShape, Exists
<1>2. OwnerRemains' /\ SessionsRevoked' /\ NoInvitationLost'
  BY DEF IInv, OwnerRemains, IsConfigured, Owners, SessionsRevoked, NoInvitationLost
<1> QED BY <1>1, <1>2 DEF IInv, Shape

LEMMA BeginningsKeep ==
  ASSUME IInv, NEW c \in Clients,
         \/ SetupBegins(c)
         \/ \E n \in Names : LoginBegins(c, n)
         \/ \E i \in Invitations : AcceptBegins(c, i)
         \/ \E by \in Sessions \cup Tokens, op \in Ops : Authorize(c, by, op)
         \/ Refuse(c)
  PROVE  IInv'
<1>1. UNCHANGED <<users, invitations, sessions, roles, now>> /\ hist'.spared = hist.spared /\ hist'.owned = hist.owned
  BY DEF SetupBegins, LoginBegins, AcceptBegins, Authorize, Refuse, IInv, Shape, HistShape
<1>2. HistShape'
  BY <1>1 DEF SetupBegins, LoginBegins, AcceptBegins, Authorize, Refuse, IInv, Shape, HistShape
<1>3. ReqShape'
  <2>1. CASE UNCHANGED req
    BY <1>1, <2>1 DEF IInv, Shape, ReqShape
  <2>2. CASE req' = [req EXCEPT ![c] = [pc |-> "setup"]] \/ req' = [req EXCEPT ![c] = Idle]
    BY <1>1, <2>2, ReqKeeps DEF Idle
  <2>3. ASSUME NEW n \in Names, LoginBegins(c, n) PROVE ReqShape'
    <3>1. users[n].role \in Roles
      BY DEF IInv, Shape, UsersShape, User
    <3> QED BY <1>1, <2>3, <3>1, ReqKeeps DEF LoginBegins
  <2>4. ASSUME NEW i \in Invitations, AcceptBegins(c, i) PROVE ReqShape'
    BY <1>1, <2>4, ReqKeeps DEF AcceptBegins, Open
  <2>5. ASSUME NEW by \in Sessions \cup Tokens, NEW op \in Ops, Authorize(c, by, op) PROVE ReqShape'
    BY <1>1, <2>5, ReqKeeps DEF Authorize
  <2> QED BY <2>1, <2>2, <2>3, <2>4, <2>5 DEF SetupBegins, Refuse
<1> QED BY <1>1, <1>2, <1>3, RequestMoves

LEMMA TickKeeps ==
  ASSUME IInv, Tick
  PROVE  IInv'
<1>1. ReqShape' /\ HistShape'
  BY DEF Tick, IInv, Shape, ReqShape, HistShape
<1> QED BY <1>1, RequestMoves DEF Tick

\* The first owner comes with a session.
LEMMA SetupEndsKeeps ==
  ASSUME IInv, NEW c \in Clients, SetupEnds(c)
  PROVE  IInv'
<1> USE RolesAssumption
<1>1. "admin" \in Names /\ "owner" \in Roles /\ "setup" \in Invitations \cup {"setup"}
  BY DEF Roles
<1>2. UsersShape' /\ (\A m \in Names : Exists(m) => users'[m] = users[m]) /\ (IsConfigured(users) => IsConfigured(users'))
  BY <1>1, CreatedKeeps DEF SetupEnds
<1>3. SessionsShape' /\ SessionsRevoked' /\ HistShape' /\ OwnerRemains'
  BY <1>1, <1>2, SignInKeeps DEF SetupEnds
<1>4. ReqShape' /\ InvitationsShape' /\ RolesShape'
  BY ReqKeeps DEF SetupEnds, Idle, IInv, Shape, InvitationsShape, RolesShape
<1>5. NoInvitationLost'
  BY <1>2, SpentStays DEF SetupEnds
<1> QED BY <1>2, <1>3, <1>4, <1>5 DEF IInv, Shape

LEMMA LoginEndsKeeps ==
  ASSUME IInv, NEW c \in Clients, LoginEnds(c)
  PROVE  IInv'
<1>1. req[c].user \in Names /\ req[c].role \in Roles
  BY DEF LoginEnds, IInv, Shape, ReqShape
<1>2. SessionsShape' /\ SessionsRevoked' /\ HistShape' /\ OwnerRemains'
  BY <1>1, SignInKeeps DEF LoginEnds, IsConfigured
<1>3. ReqShape'
  BY ReqKeeps DEF LoginEnds, Idle
<1>4. UsersShape' /\ InvitationsShape' /\ RolesShape' /\ NoInvitationLost'
  BY DEF LoginEnds, IInv, Shape, UsersShape, Exists, InvitationsShape, RolesShape, NoInvitationLost
<1> QED BY <1>2, <1>3, <1>4 DEF IInv, Shape

\* Nothing but users, invitations and requests is written by an acceptance.
LEMMA AcceptEndsKeeps ==
  ASSUME IInv, NEW c \in Clients, AcceptEnds(c)
  PROVE  IInv'
<1> DEFINE i == req[c].inv
<1> DEFINE u == invitations[i].user
<1>1. i \in Invitations /\ invitations[i] \in Invitation
  BY DEF AcceptEnds, IInv, Shape, ReqShape, InvitationsShape
<1>2. u \in Names /\ invitations[i].role \in Roles /\ users' = Created(u, invitations[i].role, i)
  BY <1>1 DEF AcceptEnds, Invitation
<1>3. /\ UsersShape' /\ \A m \in Names : Exists(m) => users'[m] = users[m]
      /\ ~Exists(u) => users'[u].by = i
      /\ IsConfigured(users) => IsConfigured(users')
  BY <1>1, <1>2, CreatedKeeps
<1>4. ~Exists(u) /\ invitations' = [invitations EXCEPT ![i].used = TRUE]
  BY DEF AcceptEnds
<1>5. \A j \in Invitations \ {i} : invitations'[j] = invitations[j]
  BY <1>1, <1>4 DEF IInv, Shape, InvitationsShape
<1>6. invitations' = [invitations EXCEPT ![i] = [invitations[i] EXCEPT !.used = TRUE]]
  BY <1>4
<1>7. [invitations[i] EXCEPT !.used = TRUE] \in Invitation /\ [invitations[i] EXCEPT !.used = TRUE].user = u
  BY <1>1 DEF Invitation
<1>8. invitations'[i] = [invitations[i] EXCEPT !.used = TRUE]
  BY <1>1, <1>6 DEF IInv, Shape, InvitationsShape
<1>9. InvitationsShape'
  BY <1>5, <1>6, <1>7, <1>8 DEF IInv, Shape, InvitationsShape
<1>10. None \notin Invitation
  BY DEF None, Invitation
<1>11. ReqShape'
  <2>1. \A j \in Invitations : invitations[j] # None => invitations'[j] # None
    BY <1>5, <1>7, <1>8, <1>10
  <2> QED BY <2>1, ReqKeeps DEF AcceptEnds, Idle
<1>12. NoInvitationLost'
  <2>1. \A j \in Invitations \ {i} : invitations[j] # None /\ invitations[j].used =>
          users[invitations[j].user].by = j /\ invitations[j].user \in Names /\ j # "none"
    BY BoundsAssumption DEF IInv, NoInvitationLost, Shape, InvitationsShape, Invitation
  <2>2. \A j \in Invitations \ {i} : invitations[j] # None /\ invitations[j].used => users'[invitations[j].user].by = j
    BY <1>3, <2>1 DEF Exists
  <2>3. users'[invitations'[i].user].by = i
    BY <1>3, <1>4, <1>7, <1>8
  <2> QED BY <1>5, <2>2, <2>3 DEF NoInvitationLost
<1>13. SessionsShape' /\ SessionsRevoked'
  BY <1>3, SessionsStay DEF AcceptEnds
<1>14. HistShape' /\ RolesShape' /\ OwnerRemains'
  BY <1>3 DEF AcceptEnds, IInv, Shape, HistShape, RolesShape, OwnerRemains
<1> QED BY <1>3, <1>9, <1>11, <1>12, <1>13, <1>14 DEF IInv, Shape

\* What an update writes: the user read with the new role and state; an owner
\* that ceases to be one leaves another behind.
LEMMA UsersUpdated ==
  ASSUME IInv, NEW op \in Ops, MayUpdate(op), users' = UpdatedUsers(op)
  PROVE  /\ UsersShape' /\ op.user \in Names /\ op.enabled \in BOOLEAN
         /\ \A m \in Names : users'[m].by = users[m].by
         /\ \A m \in Names \ {op.user} : users'[m] = users[m]
         /\ users'[op.user].role = NewRole(op) /\ users'[op.user].enabled = op.enabled
         /\ IsConfigured(users) => IsConfigured(users')
<1> DEFINE n == op.user
<1> DEFINE role == NewRole(op)
<1>1. n \in Names /\ op.enabled \in BOOLEAN
  BY OpsAssumption
<1>2. role \in Roles
  BY DEF MayUpdate, IInv, Shape, RolesShape
<1> HIDE DEF role
<1>3. users' = [users EXCEPT ![n].role = role, ![n].enabled = op.enabled]
  BY DEF UpdatedUsers, role
<1>4. /\ users' \in [Names -> User]
      /\ users'[n].role = role /\ users'[n].enabled = op.enabled /\ users'[n].by = users[n].by
      /\ \A m \in Names \ {n} : users'[m] = users[m]
  <2>1. [users[n] EXCEPT !.role = role] \in User
    BY <1>1, <1>2 DEF IInv, Shape, UsersShape, User
  <2>2. [[users[n] EXCEPT !.role = role] EXCEPT !.enabled = op.enabled] \in User
    BY <1>1, <2>1 DEF User
  <2>3. users' = [users EXCEPT ![n] = [[users[n] EXCEPT !.role = role] EXCEPT !.enabled = op.enabled]]
    BY <1>1, <1>3 DEF IInv, Shape, UsersShape
  <2>4. users[n] \in User
    BY <1>1 DEF IInv, Shape, UsersShape
  <2>5. users'[n] = [[users[n] EXCEPT !.role = role] EXCEPT !.enabled = op.enabled]
    BY <1>1, <2>3 DEF IInv, Shape, UsersShape
  <2>6. users'[n].role = role /\ users'[n].enabled = op.enabled /\ users'[n].by = users[n].by
    BY <2>4, <2>5 DEF User
  <2>7. users' \in [Names -> User] /\ \A m \in Names \ {n} : users'[m] = users[m]
    BY <1>1, <2>2, <2>3 DEF IInv, Shape, UsersShape
  <2> QED BY <2>6, <2>7
<1>5. UsersShape' /\ \A m \in Names : users'[m].by = users[m].by
  BY <1>1, <1>4 DEF MayUpdate, Exists, IInv, Shape, UsersShape
<1>6. IsConfigured(users) => IsConfigured(users')
  <2>1. ASSUME NEW m \in Owners(users) PROVE Owners(users') # {}
    <3>1. CASE m # n
      BY <1>4, <2>1, <3>1 DEF Owners
    <3>2. CASE m = n /\ op.enabled /\ role = "owner"
      BY <1>1, <1>4, <3>2 DEF Owners
    <3>3. CASE m = n /\ ~(op.enabled /\ role = "owner")
      <4>1. PICK other \in OtherOwners(n) : TRUE
        BY <2>1, <3>3 DEF MayUpdate, LastOwner, role
      <4> QED BY <1>4, <4>1 DEF OtherOwners, Owners
    <3> QED BY <3>1, <3>2, <3>3
  <2> QED BY <2>1 DEF IsConfigured
<1> QED BY <1>1, <1>4, <1>5, <1>6 DEF role

\* A role that changes, or a state that ends, leaves no valid session.
LEMMA UpdateUserKeeps ==
  ASSUME IInv, NEW op \in Ops, UpdateUser(op), ReqShape', UNCHANGED now
  PROVE  IInv'
<1> DEFINE n == op.user
<1>1. /\ UsersShape' /\ n \in Names /\ op.enabled \in BOOLEAN
      /\ \A m \in Names : users'[m].by = users[m].by
      /\ \A m \in Names \ {n} : users'[m] = users[m]
      /\ users'[n].role = NewRole(op) /\ users'[n].enabled = op.enabled
      /\ IsConfigured(users) => IsConfigured(users')
  BY UsersUpdated DEF UpdateUser
<1>2. \A s \in Sessions : sessions[s] # None => sessions[s].user \in Names
  BY DEF IInv, Shape, SessionsShape, Session
<1>3. UNCHANGED <<invitations, roles, hist>>
  BY DEF UpdateUser
<1>4. SessionsShape' /\ SessionsRevoked'
  <2>1. CASE Revokes(n, NewRole(op), op.enabled)
    <3>1. sessions' = RevokedAll(n)
      BY <2>1 DEF UpdateUser
    <3>2. SessionsShape' /\ \A s \in Sessions : sessions'[s] # None /\ ~sessions'[s].revoked =>
                                  sessions'[s] = sessions[s] /\ sessions[s].user # n
      BY <1>1, <3>1, RevokedAllKeeps
    <3> HIDE DEF n
    <3> QED BY <1>1, <1>2, <1>3, <3>2 DEF IInv, SessionsRevoked
  <2>2. CASE ~Revokes(n, NewRole(op), op.enabled)
    <3>1. UNCHANGED sessions /\ users'[n].role = users[n].role /\ users'[n].enabled
      BY <1>1, <2>2 DEF UpdateUser, Revokes
    <3> HIDE DEF n
    <3> QED BY <1>1, <1>2, <1>3, <3>1 DEF IInv, Shape, SessionsShape, SessionsRevoked
  <2> QED BY <2>1, <2>2
<1>5. InvitationsShape' /\ RolesShape' /\ HistShape' /\ NoInvitationLost' /\ OwnerRemains'
  BY <1>1, <1>3, SpentStays DEF IInv, Shape, InvitationsShape, RolesShape, HistShape, OwnerRemains
<1> QED BY <1>1, <1>4, <1>5 DEF IInv, Shape

\* The sessions that wait for the second write of an update are those excepted.
LEMMA FirstWriteKeeps ==
  ASSUME IInv, NEW c \in Clients, FirstWrite(c), UNCHANGED <<sessions, roles, now>>, ReqShape'
  PROVE  IInv'
<1>1. InvitationsShape' /\ RolesShape' /\ UNCHANGED invitations
  BY DEF FirstWrite, IInv, Shape, InvitationsShape, RolesShape
<1>2. hist \in [faults : Nat, ops : Nat, owned : BOOLEAN, spared : SUBSET Sessions]
  BY DEF IInv, Shape, HistShape
<1>3. PICK h : h = [hist EXCEPT !.faults = @ + 1]
  OBVIOUS
<1>4. h \in [faults : Nat, ops : Nat, owned : BOOLEAN, spared : SUBSET Sessions] /\ h.spared = hist.spared /\ h.owned = hist.owned
  BY <1>2, <1>3
<1>5. CASE req[c].pc = "accept" \/ req[c].pc = "setup"
  <2>1. ASSUME NEW n \in Names, NEW role \in Roles, NEW by \in Invitations \cup {"setup"}, users' = Created(n, role, by)
        PROVE  UsersShape' /\ (\A m \in Names : Exists(m) => users'[m] = users[m]) /\ (IsConfigured(users) => IsConfigured(users'))
    BY <2>1, CreatedKeeps
  <2>2. UsersShape' /\ (\A m \in Names : Exists(m) => users'[m] = users[m]) /\ (IsConfigured(users) => IsConfigured(users'))
    <3>1. CASE req[c].pc = "setup"
      BY <2>1, <3>1, RolesAssumption DEF FirstWrite, Roles
    <3>2. CASE req[c].pc = "accept"
      <4>1. req[c].inv \in Invitations /\ invitations[req[c].inv] \in Invitation
        BY <3>2 DEF IInv, Shape, ReqShape, InvitationsShape
      <4> QED BY <2>1, <3>2, <4>1 DEF FirstWrite, Invitation
    <3> QED BY <1>5, <3>1, <3>2
  <2>3. PICK owned \in BOOLEAN : owned = (hist.owned \/ IsConfigured(users'))
    OBVIOUS
  <2>4. hist' = h \/ hist' = [h EXCEPT !.owned = owned]
    BY <1>3, <1>4, <1>5, <2>3 DEF FirstWrite
  <2>5. HistShape' /\ hist'.spared = hist.spared /\ (hist'.owned => hist.owned \/ IsConfigured(users'))
    <3>1. CASE hist' = h
      BY <1>4, <3>1 DEF IInv, Shape, HistShape
    <3>2. CASE hist' = [h EXCEPT !.owned = owned]
      BY <1>4, <2>3, <3>2 DEF IInv, Shape, HistShape
    <3> QED BY <2>4, <3>1, <3>2
  <2>6. SessionsShape' /\ SessionsRevoked' /\ NoInvitationLost'
    BY <1>1, <2>2, <2>5, SessionsStay, SpentStays
  <2> QED BY <1>1, <2>2, <2>5, <2>6 DEF IInv, Shape, OwnerRemains
<1>6. CASE req[c].pc = "body"
  <2> DEFINE op == req[c].op
  <2>1. op \in Ops /\ MayUpdate(op) /\ users' = UpdatedUsers(op) /\ hist' = [hist EXCEPT !.faults = @ + 1, !.spared = @ \cup Left(op)]
    BY <1>6 DEF FirstWrite, IInv, Shape, ReqShape
  <2>2. PICK more \in SUBSET Sessions : more = Left(op)
    BY DEF Left
  <2>3. hist' = [h EXCEPT !.spared = @ \cup more]
    BY <1>3, <1>4, <2>1, <2>2
  <2>4. HistShape' /\ hist'.spared = hist.spared \cup more /\ hist'.owned = hist.owned
    BY <1>4, <2>3 DEF IInv, Shape, HistShape
  <2>5. /\ UsersShape' /\ op.user \in Names
        /\ \A m \in Names : users'[m].by = users[m].by
        /\ \A m \in Names \ {op.user} : users'[m] = users[m]
        /\ IsConfigured(users) => IsConfigured(users')
    BY <2>1, UsersUpdated
  <2>6. SessionsShape'
    BY DEF IInv, Shape, SessionsShape
  <2>7. \A s \in Sessions : sessions[s] # None => sessions[s].user \in Names
    BY DEF IInv, Shape, SessionsShape, Session
  <2>8. \A s \in Sessions \ more : sessions[s] # None /\ ~sessions[s].revoked => sessions[s].user # op.user
    BY <2>2 DEF Left
  <2> HIDE DEF op
  <2>9. SessionsRevoked'
    BY <2>4, <2>5, <2>7, <2>8 DEF IInv, SessionsRevoked
  <2>10. NoInvitationLost' /\ OwnerRemains'
    BY <1>1, <2>4, <2>5, SpentStays DEF IInv, OwnerRemains
  <2> QED BY <1>1, <2>4, <2>5, <2>6, <2>9, <2>10 DEF IInv, Shape
<1> QED BY <1>5, <1>6 DEF FirstWrite

\* At worst the first of two writes is done.
LEMMA CrashKeeps ==
  ASSUME IInv, Crash
  PROVE  IInv'
<1>1. UNCHANGED <<sessions, roles, now>> /\ req' = [c \in Clients |-> Idle]
  BY DEF Crash
<1>2. ReqShape'
  BY <1>1 DEF ReqShape, Idle
<1>3. CASE hist' = [hist EXCEPT !.faults = @ + 1] /\ UNCHANGED <<users, invitations>>
  <2>1. HistShape' /\ hist'.spared = hist.spared /\ hist'.owned = hist.owned
    BY <1>1, <1>3 DEF IInv, Shape, HistShape
  <2> QED BY <1>1, <1>2, <1>3, <2>1, RequestMoves
<1>4. CASE \E c \in Clients : FirstWrite(c)
  BY <1>1, <1>2, <1>4, FirstWriteKeeps
<1> QED BY <1>3, <1>4 DEF Crash

LEMMA SecondWriteFailsKeeps ==
  ASSUME IInv, NEW c \in Clients, SecondWriteFails(c)
  PROVE  IInv'
<1>1. UNCHANGED invitations
  BY DEF SecondWriteFails, FirstWrite
<1>2. ReqShape'
  BY <1>1, ReqKeeps DEF SecondWriteFails, Idle
<1> QED BY <1>2, FirstWriteKeeps DEF SecondWriteFails

LEMMA CreateInvitationKeeps ==
  ASSUME IInv, NEW op \in Ops, CreateInvitation(op), NEW c \in Clients, req' = [req EXCEPT ![c] = Idle], UNCHANGED now
  PROVE  IInv'
<1> DEFINE fresh == [user |-> op.user, role |-> op.role, until |-> now + IdleTtl, used |-> FALSE]
<1>1. PICK i \in Invitations : invitations[i] = None /\ invitations' = [invitations EXCEPT ![i] = fresh]
  BY DEF CreateInvitation
<1>2. fresh \in Invitation /\ ~fresh.used
  BY OpsAssumption, BoundsAssumption DEF CreateInvitation, IInv, Shape, HistShape, RolesShape, Invitation
<1>3. fresh # None
  BY <1>2 DEF None, Invitation
<1> HIDE DEF fresh
<1>4. invitations'[i] = fresh /\ \A j \in Invitations \ {i} : invitations'[j] = invitations[j]
  BY <1>1 DEF IInv, Shape, InvitationsShape
<1>5. InvitationsShape'
  BY <1>1, <1>2, <1>4 DEF IInv, Shape, InvitationsShape
<1>6. ReqShape'
  BY <1>1, <1>4, ReqKeeps DEF Idle
<1>7. NoInvitationLost'
  BY <1>2, <1>4 DEF CreateInvitation, IInv, NoInvitationLost
<1>8. UsersShape' /\ SessionsShape' /\ HistShape' /\ RolesShape' /\ OwnerRemains' /\ SessionsRevoked'
  BY DEF CreateInvitation, IInv, Shape, UsersShape, Exists, SessionsShape, HistShape, RolesShape, OwnerRemains, IsConfigured,
     Owners, SessionsRevoked
<1> QED BY <1>5, <1>6, <1>7, <1>8 DEF IInv, Shape

\* Roles are added, never changed.
LEMMA CreateRoleKeeps ==
  ASSUME IInv, NEW op \in Ops, CreateRole(op), op.role \in DOMAIN Custom, ReqShape', UNCHANGED now
  PROVE  IInv'
<1>1. DOMAIN roles' \subseteq DOMAIN roles \cup {op.role}
  BY DEF CreateRole
<1>2. RolesShape'
  BY <1>1 DEF IInv, Shape, RolesShape, Roles
<1>3. UsersShape' /\ SessionsShape' /\ InvitationsShape' /\ HistShape'
  BY DEF CreateRole, IInv, Shape, UsersShape, Exists, SessionsShape, InvitationsShape, HistShape
<1>4. OwnerRemains' /\ SessionsRevoked' /\ NoInvitationLost'
  BY DEF CreateRole, IInv, OwnerRemains, IsConfigured, Owners, SessionsRevoked, NoInvitationLost
<1> QED BY <1>2, <1>3, <1>4 DEF IInv, Shape

LEMMA TokensKeep ==
  ASSUME IInv, UNCHANGED <<users, invitations, sessions, roles, hist, now>>, ReqShape'
  PROVE  IInv'
<1>1. HistShape'
  BY DEF IInv, Shape, HistShape
<1> QED BY <1>1, RequestMoves

LEMMA SessionsRevokedKeep ==
  ASSUME IInv, NEW n \in Names, sessions' = RevokedAll(n), UNCHANGED <<users, invitations, roles, hist, now>>, ReqShape'
  PROVE  IInv'
<1>1. SessionsShape' /\ SessionsRevoked'
  <2>1. SessionsShape' /\ \A s \in Sessions : sessions'[s] # None /\ ~sessions'[s].revoked => sessions'[s] = sessions[s]
    BY RevokedAllKeeps
  <2> QED BY <2>1 DEF IInv, SessionsRevoked
<1> QED BY <1>1 DEF IInv, Shape, UsersShape, Exists, InvitationsShape, HistShape, RolesShape, OwnerRemains, IsConfigured,
     Owners, NoInvitationLost

LEMMA LogoutKeeps ==
  ASSUME IInv, NEW s \in Sessions, Logout(s)
  PROVE  IInv'
<1> DEFINE gone == [sessions[s] EXCEPT !.revoked = TRUE]
<1>1. sessions[s] \in Session
  BY DEF Logout, LiveSession, IInv, Shape, SessionsShape
<1>2. gone \in Session /\ gone.revoked
  BY <1>1 DEF Session
<1>3. sessions' = [sessions EXCEPT ![s] = gone]
  BY DEF Logout
<1> HIDE DEF gone
<1>4. sessions'[s] = gone /\ \A t \in Sessions \ {s} : sessions'[t] = sessions[t]
  BY <1>3 DEF IInv, Shape, SessionsShape
<1>5. SessionsShape'
  BY <1>2, <1>3, <1>4 DEF IInv, Shape, SessionsShape
<1>6. SessionsRevoked'
  BY <1>2, <1>4 DEF Logout, IInv, SessionsRevoked
<1> QED BY <1>5, <1>6 DEF Logout, IInv, Shape, UsersShape, Exists, InvitationsShape, ReqShape, HistShape, RolesShape,
     OwnerRemains, IsConfigured, Owners, NoInvitationLost

LEMMA PerformKeeps ==
  ASSUME IInv, NEW c \in Clients, Perform(c)
  PROVE  IInv'
<1> DEFINE op == req[c].op
<1>1. op \in Ops /\ req' = [req EXCEPT ![c] = Idle] /\ UNCHANGED now
  BY DEF Perform, IInv, Shape, ReqShape
<1>2. ASSUME UNCHANGED invitations PROVE ReqShape'
  BY <1>1, <1>2, ReqKeeps DEF Idle
<1>3. CASE op.kind = "update" /\ UpdateUser(op)
  BY <1>1, <1>2, <1>3, UpdateUserKeeps DEF UpdateUser
<1>4. CASE op.kind = "invite" /\ CreateInvitation(op)
  BY <1>1, <1>4, CreateInvitationKeeps
<1>5. CASE op.kind = "role" /\ CreateRole(op)
  BY <1>1, <1>2, <1>5, CreateRoleKeeps, OpsAssumption DEF CreateRole
<1>6. CASE op.kind = "token" /\ CreateToken(req[c].actor, op)
  BY <1>1, <1>2, <1>6, TokensKeep DEF CreateToken
<1> QED BY <1>3, <1>4, <1>5, <1>6 DEF Perform, Change

LEMMA RevokeKeeps ==
  ASSUME IInv, NEW by, NEW op \in Ops, Revoke(by, op)
  PROVE  IInv'
<1>1. UNCHANGED <<users, invitations, roles, hist, now, req>>
  BY DEF Revoke, RevokeSessions, RevokeToken
<1>2. ReqShape'
  BY <1>1 DEF IInv, Shape, ReqShape
<1>3. CASE RevokeSessions(op)
  BY <1>1, <1>2, <1>3, SessionsRevokedKeep, OpsAssumption DEF RevokeSessions
<1>4. CASE RevokeToken
  BY <1>1, <1>2, <1>4, TokensKeep DEF RevokeToken
<1> QED BY <1>3, <1>4 DEF Revoke

----------------------------------------------------------------------------
(* Theorems.                                                                  *)

LEMMA Inductive == Spec => []IInv
<1>1. Init => IInv
  BY InitHolds
<1>2. IInv /\ [Next]_vars => IInv'
  <2> SUFFICES ASSUME IInv, [Next]_vars PROVE IInv'
    OBVIOUS
  <2>1. CASE UNCHANGED vars
    <3>1. ReqShape' /\ HistShape'
      BY <2>1 DEF vars, IInv, Shape, ReqShape, HistShape
    <3> QED BY <2>1, <3>1, RequestMoves DEF vars
  <2>2. ASSUME NEW c \in Clients,
               \/ SetupBegins(c) \/ SetupEnds(c)
               \/ (\E n \in Names : LoginBegins(c, n)) \/ LoginEnds(c)
               \/ (\E i \in Invitations : AcceptBegins(c, i)) \/ AcceptEnds(c)
               \/ \E by \in Sessions \cup Tokens, op \in Ops : Authorize(c, by, op)
               \/ Perform(c) \/ Refuse(c) \/ SecondWriteFails(c)
        PROVE  IInv'
    BY <2>2, BeginningsKeep, SetupEndsKeeps, LoginEndsKeeps, AcceptEndsKeeps, PerformKeeps, SecondWriteFailsKeeps
  <2>3. CASE Crash \/ Tick \/ \E s \in Sessions : Logout(s)
    BY <2>3, CrashKeeps, TickKeeps, LogoutKeeps
  <2>4. CASE \E by \in Sessions \cup Tokens, op \in Ops : Revoke(by, op)
    BY <2>4, RevokeKeeps
  <2> QED BY <2>1, <2>2, <2>3, <2>4 DEF Next
<1> QED BY <1>1, <1>2, PTL DEF Spec

\* Types, for the tables and the requests (createUser, createSession,
\* createInvitation).
THEOREM TypesHold == Spec => []TypeOK
<1>1. IInv => TypeOK
  <2> SUFFICES ASSUME IInv PROVE TypeOK
    OBVIOUS
  <2>1. users \in [Names -> User]
    BY DEF IInv, Shape, UsersShape
  <2>2. \A s \in Sessions : sessions[s] # None => sessions[s].user \in Names
    BY DEF IInv, Shape, SessionsShape, Session
  <2>3. \A i \in Invitations : invitations[i] # None => invitations[i].user \in Names
    BY DEF IInv, Shape, InvitationsShape, Invitation
  <2>4. \A c \in Clients : req[c].pc \in {"idle", "setup", "login", "accept", "body"}
    BY DEF IInv, Shape, ReqShape
  <2> QED BY <2>1, <2>2, <2>3, <2>4 DEF TypeOK, User, Roles
<1> QED BY <1>1, Inductive, PTL

\* Once set up, the server keeps an enabled owner, for every set of users and
\* changes (updateUser).
THEOREM AnOwnerRemains == Spec => []OwnerRemains
<1>1. IInv => OwnerRemains
  BY DEF IInv
<1> QED BY <1>1, Inductive, PTL

\* A valid session is of an enabled user with the role it signed in with, but
\* for those a missing second write or an overtaken login excepts (updateUser,
\* revokeUserSessions, login).
THEOREM OldSessionsAreRevoked == Spec => []SessionsRevoked
<1>1. IInv => SessionsRevoked
  BY DEF IInv
<1> QED BY <1>1, Inductive, PTL

\* An invitation used up has made its user, whenever the process dies
\* (acceptInvitation).
THEOREM InvitationsAreKept == Spec => []NoInvitationLost
<1>1. IInv => NoInvitationLost
  BY DEF IInv
<1> QED BY <1>1, Inductive, PTL

\* Accounts are kept: a setup or an acceptance of a name that is taken changes
\* nothing, an update changes its user only (createUser, updateUser).
THEOREM AccountsAreKept == Spec => AccountsKept
<1>1. IInv /\ [Next]_vars => AccountStep
  <2> SUFFICES ASSUME IInv, [Next]_vars PROVE AccountStep
    OBVIOUS
  <2>1. CASE UNCHANGED users
    BY <2>1 DEF AccountStep
  <2>2. ASSUME NEW c \in Clients, SetupEnds(c) PROVE AccountStep
    <3>1. "owner" \in Roles /\ "admin" \in Names
      BY RolesAssumption DEF Roles
    <3>2. \A n \in Names : Exists(n) => users'[n] = users[n]
      BY <2>2, <3>1, CreatedKeeps DEF SetupEnds
    <3> QED BY <3>2 DEF AccountStep
  <2>3. ASSUME NEW i \in Invitations, invitations[i] # None, users' = Created(invitations[i].user, invitations[i].role, i)
        PROVE  AccountStep
    <3>1. invitations[i].user \in Names /\ invitations[i].role \in Roles
      BY <2>3 DEF IInv, Shape, InvitationsShape, Invitation
    <3>2. \A n \in Names : Exists(n) => users'[n] = users[n]
      BY <2>3, <3>1, CreatedKeeps
    <3> QED BY <3>2 DEF AccountStep
  <2>4. ASSUME NEW c \in Clients, AcceptEnds(c) PROVE AccountStep
    BY <2>3, <2>4 DEF AcceptEnds, IInv, Shape, ReqShape
  <2>5. ASSUME NEW c \in Clients, FirstWrite(c), req'[c].pc = "idle" PROVE AccountStep
    <3>1. CASE req[c].pc = "setup"
      <4>1. "owner" \in Roles /\ "admin" \in Names
        BY RolesAssumption DEF Roles
      <4>2. \A n \in Names : Exists(n) => users'[n] = users[n]
        BY <2>5, <3>1, <4>1, CreatedKeeps DEF FirstWrite
      <4> QED BY <4>2 DEF AccountStep
    <3>2. CASE req[c].pc = "accept"
      BY <2>3, <2>5, <3>2 DEF FirstWrite, IInv, Shape, ReqShape
    <3>3. CASE req[c].pc = "body"
      <4>1. req[c].op \in Ops /\ req[c].op.kind = "update" /\ MayUpdate(req[c].op) /\ users' = UpdatedUsers(req[c].op)
        BY <2>5, <3>3 DEF FirstWrite, IInv, Shape, ReqShape
      <4>2. (\A n \in Names : users'[n].by = users[n].by) /\ \A n \in Names \ {req[c].op.user} : users'[n] = users[n]
        BY <4>1, UsersUpdated
      <4> QED BY <2>5, <3>3, <4>1, <4>2 DEF AccountStep, Updated
    <3> QED BY <2>5, <3>1, <3>2, <3>3 DEF FirstWrite
  <2>9. CASE Crash
    <3>1. \A c \in Clients : req'[c].pc = "idle"
      BY <2>9 DEF Crash, Idle
    <3> QED BY <2>1, <2>5, <2>9, <3>1 DEF Crash
  <2>10. ASSUME NEW c \in Clients, SecondWriteFails(c) PROVE AccountStep
    <3>1. req'[c].pc = "idle"
      BY <2>10 DEF SecondWriteFails, Idle, IInv, Shape, ReqShape
    <3> QED BY <2>5, <2>10, <3>1 DEF SecondWriteFails
  <2>6. ASSUME NEW c \in Clients, Perform(c), req[c].op.kind = "update", UpdateUser(req[c].op) PROVE AccountStep
    <3>1. req[c].op \in Ops /\ req[c].op.user \in Names /\ req[c].pc = "body"
      BY <2>6, OpsAssumption DEF Perform, IInv, Shape, ReqShape
    <3>2. req'[c].pc = "idle"
      BY <2>6 DEF Perform, Idle, IInv, Shape, ReqShape
    <3>3. (\A n \in Names : users'[n].by = users[n].by) /\ \A n \in Names \ {req[c].op.user} : users'[n] = users[n]
      BY <2>6, <3>1, UsersUpdated DEF UpdateUser
    <3> QED BY <2>6, <3>1, <3>2, <3>3 DEF AccountStep, Updated
  <2>7. ASSUME NEW c \in Clients, Perform(c) PROVE AccountStep
    BY <2>1, <2>6, <2>7 DEF Perform, Change, CreateInvitation, CreateRole, CreateToken
  <2> QED BY <2>1, <2>2, <2>4, <2>7, <2>9, <2>10 DEF Next, SetupBegins, LoginBegins, LoginEnds, AcceptBegins, Authorize, Refuse,
       Revoke, RevokeSessions, RevokeToken, Logout, Tick, vars
<1> QED BY <1>1, Inductive, PTL DEF AccountsKept, Spec
=============================================================================
