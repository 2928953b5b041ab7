----------------------------- MODULE Identities -----------------------------
(* Who may administer the server: the setup token, users, roles, invitations, *)
(* sessions and API tokens of admin/identity-manager.js with their tables in  *)
(* SQLite, the permissions of admin/access-control.js and admin-access.js,    *)
(* and the handlers of admin/server.js that change them.                      *)
(*                                                                            *)
(* Passwords are hashed and verified in another thread: setup, login and the  *)
(* acceptance of an invitation read the tables, wait, and write them.  A      *)
(* change is authorised before its body has arrived and made with the         *)
(* identity of that moment.  A setup, an acceptance and an update of a user   *)
(* write two rows one after the other, not in one transaction: the process    *)
(* may die, or the second write fail, in between.  Users, invitations,        *)
(* sessions and API tokens are in SQLite and remain.                          *)
EXTENDS Naturals, FiniteSets, TLC

CONSTANTS Clients,       \* requests under way at once
          Names,         \* user names; the first user is "admin"
          Sessions, Invitations, Tokens,   \* what may be created
          Fixed,         \* permissions of the fixed roles
          Custom,        \* roles an administrator may add, with their permissions
          Ops,           \* changes administrators ask for
          IdleTtl,       \* life of a session, of a setup token and of an invitation
          MaxTime, MaxOps,
          MaxFaults      \* bounds: process ends and second writes that fail, together

OwnerOnly == {"backup:download-sensitive", "logs:read-sensitive"}

ASSUME RolesAssumption ==
  /\ {"owner", "admin"} \subseteq DOMAIN Fixed /\ DOMAIN Fixed \cap DOMAIN Custom = {}
  /\ "admin" \in Names
  /\ \A r \in DOMAIN Custom : Custom[r] \cap OwnerOnly = {}
ASSUME OpsAssumption == \A op \in Ops : /\ op.user \in Names /\ op.enabled \in BOOLEAN
                                        /\ op.kind = "role" => op.role \in DOMAIN Custom
ASSUME BoundsAssumption == IdleTtl \in Nat /\ Invitations \cap {"none", "setup"} = {}

VARIABLES setup,     \* the setup token in memory
          users, invitations, sessions, tokens, roles,   \* tables
          req,       \* per client: where its request is
          now,
          hist       \* history: bounds; was there ever an owner; sessions no revocation reached

vars == <<setup, users, invitations, sessions, tokens, roles, req, now, hist>>

None == [is |-> "none"]
Idle == [pc |-> "idle"]
NoUser == [role |-> "none", enabled |-> FALSE, by |-> "none"]

Owners(us) == {n \in Names : us[n].role = "owner" /\ us[n].enabled}
IsConfigured(us) == Owners(us) # {}
Exists(n) == users[n].by # "none"

\* load, then createSetupToken when there is no owner.
Setup(us, t) == IF IsConfigured(us) THEN None ELSE [is |-> "token", until |-> t + IdleTtl]

Init ==
  /\ users = [n \in Names |-> NoUser] /\ setup = Setup(users, 0)
  /\ invitations = [i \in Invitations |-> None] /\ sessions = [s \in Sessions |-> None]
  /\ tokens = [t \in Tokens |-> None] /\ roles = Fixed
  /\ req = [c \in Clients |-> Idle] /\ now = 0
  /\ hist = [faults |-> 0, ops |-> 0, owned |-> FALSE, spared |-> {}]

----------------------------------------------------------------------------
(* Tables.                                                                    *)

\* The user name is UNIQUE: the second insertion throws.
Created(n, role, by) == IF Exists(n) THEN users ELSE [users EXCEPT ![n] = [role |-> role, enabled |-> TRUE, by |-> by]]

RevokedAll(n) == [s \in Sessions |-> IF sessions[s] # None /\ sessions[s].user = n
                                     THEN [sessions[s] EXCEPT !.revoked = TRUE] ELSE sessions[s]]

\* #createSession, in a row not used yet, for the user as it was read: it may
\* have been disabled or given another role since.
SignIn(n, role) ==
  \E s \in Sessions :
    /\ sessions[s] = None
    /\ sessions' = [sessions EXCEPT ![s] = [user |-> n, role |-> role, until |-> now + IdleTtl, revoked |-> FALSE]]
    /\ hist' = [hist EXCEPT !.spared = @ \cup {t \in {s} : ~users'[n].enabled \/ users'[n].role # role},
                            !.owned = @ \/ IsConfigured(users')]

----------------------------------------------------------------------------
(* Permissions.                                                               *)

Permissions(role) == IF role \in DOMAIN roles THEN roles[role] ELSE {}
Identity(n) == [user |-> n, role |-> users[n].role, perms |-> Permissions(users[n].role)]
IsAllowed(id, p) ==
  \/ id.role = "owner"
  \/ p \notin OwnerOnly /\ p \in id.perms

\* authenticate; the idle limit is no longer than the life and so adds nothing.
LiveSession(s) ==
  /\ sessions[s] # None /\ ~sessions[s].revoked /\ sessions[s].until > now
  /\ users[sessions[s].user].enabled
LiveToken(t) == tokens[t] # None /\ ~tokens[t].revoked /\ users[tokens[t].user].enabled

----------------------------------------------------------------------------
(* Setup, login and invitations.                                              *)

SetupBegins(c) ==
  /\ req[c].pc = "idle" /\ ~IsConfigured(users) /\ setup # None
  /\ IF now > setup.until THEN setup' = None /\ UNCHANGED req
     ELSE req' = [req EXCEPT ![c] = [pc |-> "setup"]] /\ UNCHANGED setup
  /\ UNCHANGED <<users, invitations, sessions, tokens, roles, now, hist>>

\* The owner is created and signed in.
SetupEnds(c) ==
  /\ req[c].pc = "setup" /\ ~Exists("admin")
  /\ req' = [req EXCEPT ![c] = Idle]
  /\ users' = Created("admin", "owner", "setup") /\ SignIn("admin", "owner")
  /\ setup' = None
  /\ UNCHANGED <<invitations, tokens, roles, now>>

LoginBegins(c, n) ==
  /\ req[c].pc = "idle" /\ users[n].enabled
  /\ req' = [req EXCEPT ![c] = [pc |-> "login", user |-> n, role |-> users[n].role]]
  /\ UNCHANGED <<setup, users, invitations, sessions, tokens, roles, now, hist>>

\* The session is made for the user read before the password was verified.
LoginEnds(c) ==
  /\ req[c].pc = "login"
  /\ req' = [req EXCEPT ![c] = Idle]
  /\ UNCHANGED <<setup, users, invitations, tokens, roles, now>>
  /\ SignIn(req[c].user, req[c].role)

Open(i) == invitations[i] # None /\ ~invitations[i].used /\ invitations[i].until > now

AcceptBegins(c, i) ==
  /\ req[c].pc = "idle" /\ Open(i)
  /\ req' = [req EXCEPT ![c] = [pc |-> "accept", inv |-> i]]
  /\ UNCHANGED <<setup, users, invitations, sessions, tokens, roles, now, hist>>

\* The user is created first, the invitation consumed next.
AcceptEnds(c) ==
  /\ req[c].pc = "accept"
  /\ LET i == req[c].inv IN
     /\ ~Exists(invitations[i].user)
     /\ users' = Created(invitations[i].user, invitations[i].role, i)
     /\ invitations' = [invitations EXCEPT ![i].used = TRUE]
  /\ req' = [req EXCEPT ![c] = Idle]
  /\ UNCHANGED <<setup, sessions, tokens, roles, now, hist>>

----------------------------------------------------------------------------
(* Changes by administrators.                                                 *)

PermissionFor(op) == IF op.kind = "role" THEN "roles:write" ELSE "users:write"

\* accessForRequest, authorize and the checks of handleApi: the body is read next.
MayAsk(by, op) ==
  \/ /\ by \in Sessions /\ LiveSession(by)
     /\ IsAllowed(Identity(sessions[by].user), PermissionFor(op))
  \/ /\ by \in Tokens /\ LiveToken(by)
     /\ IsAllowed(Identity(tokens[by].user), PermissionFor(op))
     /\ PermissionFor(op) \in tokens[by].scopes
Holder(by) == IF by \in Sessions THEN sessions[by].user ELSE tokens[by].user

Bodiless == {"sessions", "revoke"}

Authorize(c, by, op) ==
  /\ req[c].pc = "idle" /\ hist.ops < MaxOps /\ op.kind \notin Bodiless /\ MayAsk(by, op)
  /\ req' = [req EXCEPT ![c] = [pc |-> "body", by |-> by, actor |-> Identity(Holder(by)), op |-> op]]
  /\ hist' = [hist EXCEPT !.ops = @ + 1]
  /\ UNCHANGED <<setup, users, invitations, sessions, tokens, roles, now>>

\* updateUser
OtherOwnersEver(n) == {m \in Names \ {n} : users[m].role = "owner"}
OtherOwners(n) == Owners(users) \ {n}
LastOwner(n, role, enabled) ==
  n \in Owners(users) /\ (~enabled \/ role # "owner") /\ OtherOwners(n) = {}
RevokesIfDisabled(n, role, enabled) == ~enabled
Revokes(n, role, enabled) == ~enabled \/ role # users[n].role

\* The role after the update, and the users; the sessions are revoked next.
NewRole(op) == IF op.role = "same" THEN users[op.user].role ELSE op.role
MayUpdate(op) == Exists(op.user) /\ NewRole(op) \in DOMAIN roles /\ ~LastOwner(op.user, NewRole(op), op.enabled)
UpdatedUsers(op) == [users EXCEPT ![op.user].role = NewRole(op), ![op.user].enabled = op.enabled]

UpdateUser(op) ==
  /\ MayUpdate(op) /\ users' = UpdatedUsers(op)
  /\ sessions' = IF Revokes(op.user, NewRole(op), op.enabled) THEN RevokedAll(op.user) ELSE sessions
  /\ UNCHANGED <<invitations, tokens, roles, hist>>

CreateInvitation(op) ==
  /\ op.role \in DOMAIN roles /\ ~Exists(op.user)
  /\ \E i \in Invitations :
       /\ invitations[i] = None
       /\ invitations' = [invitations EXCEPT ![i] = [user |-> op.user, role |-> op.role, until |-> now + IdleTtl, used |-> FALSE]]
  /\ UNCHANGED <<users, sessions, tokens, roles, hist>>

CreateRole(op) ==
  /\ op.role \notin DOMAIN roles
  /\ roles' = [r \in DOMAIN roles \cup {op.role} |-> IF r = op.role THEN Custom[r] ELSE roles[r]]
  /\ UNCHANGED <<users, invitations, sessions, tokens, hist>>

\* Scopes stay within the permissions the actor had when it was authorised.
CreateToken(actor, op) ==
  /\ op.scopes \subseteq actor.perms
  /\ \E t \in Tokens : tokens[t] = None /\ tokens' = [tokens EXCEPT ![t] = [user |-> actor.user, scopes |-> op.scopes, revoked |-> FALSE]]
  /\ UNCHANGED <<users, invitations, sessions, roles, hist>>

RevokeSessions(op) ==
  /\ Exists(op.user) /\ sessions' = RevokedAll(op.user)
  /\ UNCHANGED <<users, invitations, tokens, roles, hist>>

RevokeToken ==
  /\ \E t \in Tokens : tokens[t] # None /\ ~tokens[t].revoked /\ tokens' = [tokens EXCEPT ![t].revoked = TRUE]
  /\ UNCHANGED <<users, invitations, sessions, roles, hist>>

Change(actor, op) ==
  \/ op.kind = "update" /\ UpdateUser(op)
  \/ op.kind = "invite" /\ CreateInvitation(op)
  \/ op.kind = "role" /\ CreateRole(op)
  \/ op.kind = "token" /\ CreateToken(actor, op)

\* Revocations have no body to wait for.
Revoke(by, op) ==
  /\ MayAsk(by, op)
  /\ \/ op.kind = "sessions" /\ RevokeSessions(op)
     \/ op.kind = "revoke" /\ RevokeToken
  /\ UNCHANGED <<setup, req, now>>

\* The body is there and the change possible; or it is not, or a password is
\* wrong or a name taken: an answer of 400 or 401.
Perform(c) ==
  /\ req[c].pc = "body"
  /\ Change(req[c].actor, req[c].op)
  /\ req' = [req EXCEPT ![c] = Idle] /\ UNCHANGED <<setup, now>>
Refuse(c) ==
  /\ req[c].pc # "idle"
  /\ req' = [req EXCEPT ![c] = Idle]
  /\ UNCHANGED <<setup, users, invitations, sessions, tokens, roles, now, hist>>

----------------------------------------------------------------------------
(* The first of two writes only.                                              *)

\* The sessions an update of which only the first write is done leaves valid.
Left(op) == {s \in Sessions : sessions[s] # None /\ sessions[s].user = op.user /\ ~sessions[s].revoked}

FirstWriteSpends(c) ==
  /\ req[c].pc = "accept" /\ ~Exists(invitations[req[c].inv].user)
  /\ invitations' = [invitations EXCEPT ![req[c].inv].used = TRUE]
  /\ hist' = [hist EXCEPT !.faults = @ + 1] /\ UNCHANGED users
FirstWrite(c) ==
  /\ hist.faults < MaxFaults
  /\ \/ /\ req[c].pc = "setup" /\ ~Exists("admin")
        /\ users' = Created("admin", "owner", "setup")
        /\ hist' = [hist EXCEPT !.faults = @ + 1, !.owned = @ \/ IsConfigured(users')]
     \/ /\ req[c].pc = "accept" /\ ~Exists(invitations[req[c].inv].user)
        /\ users' = Created(invitations[req[c].inv].user, invitations[req[c].inv].role, req[c].inv)
        /\ hist' = [hist EXCEPT !.faults = @ + 1]
     \/ /\ req[c].pc = "body" /\ req[c].op.kind = "update"
        /\ MayUpdate(req[c].op) /\ Revokes(req[c].op.user, NewRole(req[c].op), req[c].op.enabled)
        /\ users' = UpdatedUsers(req[c].op)
        /\ hist' = [hist EXCEPT !.faults = @ + 1, !.spared = @ \cup Left(req[c].op)]
  /\ UNCHANGED invitations

\* The second write fails: the request is answered with an error.
SecondWriteFails(c) ==
  /\ FirstWrite(c)
  /\ setup' = IF req[c].pc = "setup" THEN None ELSE setup
  /\ req' = [req EXCEPT ![c] = Idle]
  /\ UNCHANGED <<sessions, tokens, roles, now>>

\* The process dies, between two writes at worst, and starts again.
Crash ==
  /\ \/ /\ hist.faults < MaxFaults /\ hist' = [hist EXCEPT !.faults = @ + 1]
        /\ UNCHANGED <<users, invitations>>
     \/ \E c \in Clients : FirstWrite(c)
  /\ setup' = Setup(users', now)
  /\ req' = [c \in Clients |-> Idle]
  /\ UNCHANGED <<sessions, tokens, roles, now>>

----------------------------------------------------------------------------

Logout(s) ==
  /\ LiveSession(s) /\ sessions' = [sessions EXCEPT ![s].revoked = TRUE]
  /\ UNCHANGED <<setup, users, invitations, tokens, roles, req, now, hist>>

Tick == now < MaxTime /\ now' = now + 1 /\ UNCHANGED <<setup, users, invitations, sessions, tokens, roles, req, hist>>

Next ==
  \/ \E c \in Clients :
       \/ SetupBegins(c) \/ SetupEnds(c)
       \/ (\E n \in Names : LoginBegins(c, n)) \/ LoginEnds(c)
       \/ (\E i \in Invitations : AcceptBegins(c, i)) \/ AcceptEnds(c)
       \/ \E by \in Sessions \cup Tokens, op \in Ops : Authorize(c, by, op)
       \/ Perform(c) \/ Refuse(c) \/ SecondWriteFails(c)
  \/ \E by \in Sessions \cup Tokens, op \in Ops : Revoke(by, op)
  \/ \E s \in Sessions : Logout(s)
  \/ Crash \/ Tick

Spec == Init /\ [][Next]_vars

----------------------------------------------------------------------------
(* Properties.                                                                *)

\* Types: who is in the tables, and what waits.
TypeOK ==
  /\ users \in [Names -> [role : DOMAIN Fixed \cup DOMAIN Custom \cup {"none"}, enabled : BOOLEAN,
                        by : Invitations \cup {"none", "setup"}]]
  /\ \A s \in Sessions : sessions[s] # None => sessions[s].user \in Names
  /\ \A i \in Invitations : invitations[i] # None => invitations[i].user \in Names
  /\ \A c \in Clients : req[c].pc \in {"idle", "setup", "login", "accept", "body"}

\* Once set up, the server has an enabled owner, whichever changes of roles and
\* states administrators make at the same time.
OwnerRemains == hist.owned => IsConfigured(users)

\* A valid session is of a user who is enabled and has the role it signed in
\* with: whoever is disabled or given another role is signed out, also for the
\* time after it is enabled again.  Excepted are the sessions that were there
\* when only the first write of an update was done, and those of a login that
\* the update overtook while the password was verified.
SessionsRevoked ==
  \A s \in Sessions \ hist.spared :
    sessions[s] # None /\ ~sessions[s].revoked =>
      users[sessions[s].user].enabled /\ users[sessions[s].user].role = sessions[s].role

\* Whether the step is an update of the user.
Updated(n) ==
  \E c \in Clients : req[c].pc = "body" /\ req'[c].pc = "idle" /\ req[c].op.kind = "update" /\ req[c].op.user = n

\* What a step may do to an account.
AccountStep ==
  \A n \in Names : Exists(n) /\ users'[n] # users[n] => users'[n].by = users[n].by /\ Updated(n)

\* An account is never replaced or dropped: a second setup or invitation for a
\* name, hashing its password at the same time, fails, and only an update of a
\* user changes it.
AccountsKept == [][AccountStep]_vars

\* An invitation that is used up has made its user, though the process may die
\* between the two writes.
NoInvitationLost ==
  \A i \in Invitations : invitations[i] # None /\ invitations[i].used => users[invitations[i].user].by = i

=============================================================================
