------------------------------ MODULE Accounts ------------------------------
(***************************************************************************)
(* Accounts, sessions and invites of the server (server/src/app.ts), over  *)
(* the SQLite tables they live in. One HTTP request runs without           *)
(* interruption except where it awaits a password hash (crypto.ts):        *)
(* everything between two awaits is one step, and a transaction is atomic. *)
(*                                                                         *)
(* Ids are random in the code. A request creates at most one account, one  *)
(* profile, one session and one invite, so each row is named after the     *)
(* request that created it; the default profile of account r is profile r. *)
(***************************************************************************)
EXTENDS Naturals, FiniteSets

CONSTANTS
  Requests,    \* the requests that create rows or await a hash
  Handlers,    \* the handlers an instance lets the clients call
  Passwords,   \* what an account's password may be
  MaxUses,     \* uses of one invite
  PublicMode,  \* config.publicMode: every profile is guarded by a password
  None, Gone   \* no row yet, a deleted row

ASSUME MarksAreApart == None # Gone /\ {None, Gone} \cap Requests = {}
ASSUME PublicModeAssumption == PublicMode \in BOOLEAN
ASSUME MaxUsesAssumption == MaxUses \in Nat \ {0}

VARIABLES
  users,    \* table users
  profiles, \* table profiles, with the profile_password_hash of each
  sessions, \* table sessions; `ended' is revoked or expired
  invites,  \* table invites; `ended' is revoked or expired
  call      \* the requests begun: what each does and where it awaits

tables == <<users, profiles, sessions, invites>>
vars == <<tables, call>>

Roles == {"owner", "admin", "member", "restricted"}
AdminTier == {"owner", "admin"}
Operations == {"setup", "login", "invite", "account", "password",
               "profile", "switch", "gate", "inviting"}

Gates == {"none", "password", "pin"}

UserRow == [role: Roles, disabled: BOOLEAN, password: Passwords]
ProfileRow == [user: Requests, disabled: BOOLEAN, kid: BOOLEAN, gated: BOOLEAN]
SessionRow == [user: Requests, active: Requests \cup {None}, ended: BOOLEAN]
InviteRow == [role: Roles \ {"owner"}, used: 0 .. MaxUses, ended: BOOLEAN]
AuthContext == [session: Requests, user: Requests, role: Roles,
                profile: Requests, kid: BOOLEAN]
Call == [op: Operations, at: {"hash", "verify", "done"},
         auth: AuthContext \cup {None}, on: Requests \cup {None},
         arg: Roles \cup Passwords \cup Gates \cup {None}]

ASSUME RowsAreNotMarks ==
  /\ None \notin UserRow /\ None \notin ProfileRow /\ Gone \notin ProfileRow
  /\ None \notin SessionRow /\ None \notin InviteRow
  /\ None \notin AuthContext /\ None \notin Call

TypeOK ==
  /\ users \in [Requests -> UserRow \cup {None}]
  /\ profiles \in [Requests -> ProfileRow \cup {None, Gone}]
  /\ sessions \in [Requests -> SessionRow \cup {None}]
  /\ invites \in [Requests -> InviteRow \cup {None}]
  /\ call \in [Requests -> Call \cup {None}]

Init ==
  /\ users = [r \in Requests |-> None]
  /\ profiles = [r \in Requests |-> None]
  /\ sessions = [r \in Requests |-> None]
  /\ invites = [r \in Requests |-> None]
  /\ call = [r \in Requests |-> None]

-----------------------------------------------------------------------------
(* Reading the tables. *)

HasUsers == \E u \in Requests : users[u] # None
Stored(p) == profiles[p] \notin {None, Gone}
IsDefault(p) == users[p] # None
ProfilesOf(u) == {p \in Requests : Stored(p) /\ profiles[p].user = u}
LiveProfiles(u) == {p \in ProfilesOf(u) : ~profiles[p].disabled}

\* An account whose sessions authenticate.
CanSignIn(u) ==
  users[u] # None /\ ~users[u].disabled /\ ~profiles[u].disabled

Authenticated(s) ==
  /\ sessions[s] # None
  /\ ~sessions[s].ended
  /\ CanSignIn(sessions[s].user)

\* The profile a session acts as: its active one while that is live, else the
\* default profile of the account.
ActingProfile(s) ==
  IF sessions[s].active \in LiveProfiles(sessions[s].user)
  THEN sessions[s].active
  ELSE sessions[s].user

readAuth(s) ==
  LET u == sessions[s].user
      p == ActingProfile(s)
  IN  [session |-> s, user |-> u, role |-> users[u].role, profile |-> p,
       kid |-> profiles[p].kid]

Admin(auth) == ~auth.kid /\ auth.role \in AdminTier
NotRestricted(auth) == ~auth.kid /\ auth.role # "restricted"

\* Mutant: off by one in the uses of an invite.
Mut_InviteOpenOnceMore(i) ==
  /\ invites[i] # None
  /\ ~invites[i].ended
  /\ invites[i].used <= MaxUses

InviteOpen(i) ==
  /\ invites[i] # None
  /\ ~invites[i].ended
  /\ invites[i].used < MaxUses

\* What audit() needs of its actor: audit_log.actor_profile_id is a foreign key.
AuditAccepts(auth) == Stored(auth.profile)

-----------------------------------------------------------------------------
(* The life of a request that awaits. *)

Arrives(r, op) == op \in Handlers /\ call[r] = None

Suspend(r, op, at, auth, on, arg) ==
  call' = [call EXCEPT ![r] =
    [op |-> op, at |-> at, auth |-> auth, on |-> on, arg |-> arg]]

Resumed(r, op, at) == call[r] # None /\ call[r].op = op /\ call[r].at = at

\* The answer is sent, successful or not. What was captured is dropped.
Answered(c) == [op |-> c.op, at |-> "done", auth |-> None, on |-> c.on, arg |-> None]

Answer(r) == call' = [call EXCEPT ![r] = Answered(@)]

Fails(r) == Answer(r) /\ UNCHANGED tables

createUserAndProfile(r, role, password) ==
  /\ users' = [users EXCEPT ![r] =
       [role |-> role, disabled |-> FALSE, password |-> password]]
  /\ profiles' = [profiles EXCEPT ![r] =
       [user |-> r, disabled |-> FALSE, kid |-> FALSE, gated |-> PublicMode]]

createSession(r, u) ==
  sessions' = [sessions EXCEPT ![r] =
    [user |-> u, active |-> None, ended |-> FALSE]]

-----------------------------------------------------------------------------
(* Owner set-up, invite acceptance, account creation and login: check, await *)
(* the hash, write.                                                          *)

SetupOwner(r, password) ==
  /\ Arrives(r, "setup")
  /\ ~HasUsers
  /\ Suspend(r, "setup", "hash", None, None, password)
  /\ UNCHANGED tables

\* Mutant: no second look at the users inside the transaction.
Mut_FinishSetupUnchecked(r) ==
  /\ Resumed(r, "setup", "hash")
  /\ createUserAndProfile(r, "owner", call[r].arg)
  /\ createSession(r, r)
  /\ Answer(r)
  /\ UNCHANGED invites

FinishSetup(r) ==
  /\ Resumed(r, "setup", "hash")
  /\ ~HasUsers
  /\ createUserAndProfile(r, "owner", call[r].arg)
  /\ createSession(r, r)
  /\ Answer(r)
  /\ UNCHANGED invites

SetupTooLate(r) ==
  /\ Resumed(r, "setup", "hash")
  /\ HasUsers
  /\ Fails(r)

AcceptInvite(r, i, password) ==
  /\ Arrives(r, "invite")
  /\ HasUsers
  /\ InviteOpen(i)
  /\ Suspend(r, "invite", "hash", None, i, password)
  /\ UNCHANGED tables

\* Mutant: the use is counted from the row read before the hash.
Mut_FinishInviteStale(r) ==
  LET i == call[r].on IN
  /\ Resumed(r, "invite", "hash")
  /\ createUserAndProfile(r, invites[i].role, call[r].arg)
  /\ invites' = [invites EXCEPT ![i].used = 1]
  /\ createSession(r, r)
  /\ Answer(r)

FinishInvite(r) ==
  LET i == call[r].on IN
  /\ Resumed(r, "invite", "hash")
  /\ InviteOpen(i)
  /\ createUserAndProfile(r, invites[i].role, call[r].arg)
  /\ invites' = [invites EXCEPT ![i].used = @ + 1]
  /\ createSession(r, r)
  /\ Answer(r)

InviteTooLate(r) ==
  /\ Resumed(r, "invite", "hash")
  /\ ~InviteOpen(call[r].on)
  /\ Fails(r)

CreateAccount(r, s, role) ==
  /\ Arrives(r, "account")
  /\ Authenticated(s)
  /\ Admin(readAuth(s))
  /\ role # "owner"
  /\ role = "admin" => readAuth(s).role = "owner"
  /\ Suspend(r, "account", "hash", readAuth(s), None, role)
  /\ UNCHANGED tables

FinishAccount(r) ==
  /\ Resumed(r, "account", "hash")
  /\ AuditAccepts(call[r].auth)
  /\ \E password \in Passwords : createUserAndProfile(r, call[r].arg, password)
  /\ Answer(r)
  /\ UNCHANGED <<sessions, invites>>

\* The password is compared with the row read before the await. (An attempt
\* that does not match changes none of these tables.)
Login(r, u) ==
  /\ Arrives(r, "login")
  /\ users[u] # None
  /\ ~users[u].disabled
  /\ Suspend(r, "login", "verify", None, u, users[u].password)
  /\ UNCHANGED tables

FinishLogin(r) ==
  /\ Resumed(r, "login", "verify")
  /\ ~profiles[call[r].on].disabled
  /\ createSession(r, call[r].on)
  /\ Answer(r)
  /\ UNCHANGED <<users, profiles, invites>>

LoginRefused(r) ==
  /\ Resumed(r, "login", "verify")
  /\ profiles[call[r].on].disabled
  /\ Fails(r)

\* Verifying the old password and hashing the new one are two awaits with
\* nothing read or written in between: one here.
ChangePassword(r, s, password) ==
  /\ Arrives(r, "password")
  /\ Authenticated(s)
  /\ Suspend(r, "password", "verify", readAuth(s), None, password)
  /\ UNCHANGED tables

FinishPassword(r) ==
  LET auth == call[r].auth IN
  /\ Resumed(r, "password", "verify")
  /\ AuditAccepts(auth)
  /\ users' = [users EXCEPT ![auth.user].password = call[r].arg]
  /\ sessions' = [t \in Requests |->
       IF sessions[t] # None /\ sessions[t].user = auth.user /\ t # auth.session
       THEN [sessions[t] EXCEPT !.ended = TRUE]
       ELSE sessions[t]]
  /\ Answer(r)
  /\ UNCHANGED <<profiles, invites>>

\* The transaction's audit row names a profile that was deleted meanwhile: the
\* foreign key refuses it and everything the transaction did is rolled back.
ActorDeleted(r) ==
  /\ call[r] # None
  /\ call[r].op \in {"account", "password"} /\ call[r].at # "done"
  /\ ~AuditAccepts(call[r].auth)
  /\ Fails(r)

-----------------------------------------------------------------------------
(* Handlers without an await. *)

EndSessions(S) ==
  /\ sessions' = [t \in Requests |->
       IF t \in S THEN [sessions[t] EXCEPT !.ended = TRUE] ELSE sessions[t]]
  /\ UNCHANGED <<users, profiles, invites, call>>

SessionsOf(u) == {t \in Requests : sessions[t] # None /\ sessions[t].user = u}

\* Sign-out needs the cookie only; a session also ends when its time is over,
\* or when its user agent changes and config.bindSessionUserAgent is set.
Logout(s) ==
  /\ sessions[s] # None
  /\ EndSessions({s})

RevokeSession(s, t) ==
  /\ Authenticated(s)
  /\ t \in SessionsOf(sessions[s].user)
  /\ EndSessions({t})

RevokeAllSessions(s, includeCurrent) ==
  /\ Authenticated(s)
  /\ EndSessions(SessionsOf(sessions[s].user) \ (IF includeCurrent THEN {} ELSE {s}))

\* Mutant: owners may be disabled.
Mut_SetDisabledAnyone(s, p, disabled) ==
  LET u == profiles[p].user IN
  /\ Authenticated(s)
  /\ Admin(readAuth(s))
  /\ Stored(p)
  /\ profiles' = [profiles EXCEPT ![p].disabled = disabled]
  /\ users' = [users EXCEPT ![u].disabled = disabled]
  /\ UNCHANGED <<sessions, invites, call>>

\* "Disabled" is a flag of the given profile and one of its account.
SetDisabled(s, p, disabled) ==
  LET u == profiles[p].user IN
  /\ Authenticated(s)
  /\ Admin(readAuth(s))
  /\ Stored(p)
  /\ users[u].role # "owner"
  /\ profiles' = [profiles EXCEPT ![p].disabled = disabled]
  /\ users' = [users EXCEPT ![u].disabled = disabled]
  /\ UNCHANGED <<sessions, invites, call>>

PatchDisabled(s, p, disabled) ==
  /\ "disable" \in Handlers
  /\ SetDisabled(s, p, disabled)

DeleteProfile(s, p) ==
  /\ "disable" \in Handlers
  /\ SetDisabled(s, p, TRUE)

EnabledOwners == {u \in Requests :
  users[u] # None /\ users[u].role = "owner" /\ ~users[u].disabled}

SetRole(s, p, role) ==
  LET auth == readAuth(s)
      u == profiles[p].user
  IN
  /\ "role" \in Handlers
  /\ Authenticated(s)
  /\ Admin(auth)
  /\ Stored(p)
  /\ auth.role # "owner" => {users[u].role, role} \cap AdminTier = {}
  /\ u # auth.user
  /\ users[u].role = "owner" /\ role # "owner" => Cardinality(EnabledOwners) > 1
  /\ users' = [users EXCEPT ![u].role = role]
  /\ UNCHANGED <<profiles, sessions, invites, call>>

\* The recovery command: with the server stopped (a request that awaits ends
\* with it) an enabled owner gets a new password, and all its sessions end.
RecoverOwner(u, password) ==
  /\ "recovery" \in Handlers
  /\ u \in EnabledOwners
  /\ users' = [users EXCEPT ![u].password = password]
  /\ sessions' = [t \in Requests |->
       IF t \in SessionsOf(u) THEN [sessions[t] EXCEPT !.ended = TRUE] ELSE sessions[t]]
  /\ call' = [r \in Requests |->
       IF call[r] = None \/ call[r].at = "done" THEN call[r] ELSE Answered(call[r])]
  /\ UNCHANGED <<profiles, invites>>

CreateInvite(r, s, role) ==
  /\ Arrives(r, "inviting")
  /\ Authenticated(s)
  /\ Admin(readAuth(s))
  /\ role = "admin" => readAuth(s).role = "owner"
  /\ call' = [call EXCEPT ![r] = [op |-> "inviting", at |-> "done",
                                  auth |-> None, on |-> None, arg |-> None]]
  /\ invites' = [invites EXCEPT ![r] =
       [role |-> role, used |-> 0, ended |-> FALSE]]
  /\ UNCHANGED <<users, profiles, sessions>>

EndInvite(i) ==
  /\ invites[i] # None
  /\ ~invites[i].ended
  /\ invites' = [invites EXCEPT ![i].ended = TRUE]
  /\ UNCHANGED <<users, profiles, sessions, call>>

RevokeInvite(s, i) ==
  /\ Authenticated(s)
  /\ Admin(readAuth(s))
  /\ EndInvite(i)

InviteExpires(i) == EndInvite(i)

-----------------------------------------------------------------------------
AwaitedStep(r) ==
  \/ FinishSetup(r) \/ SetupTooLate(r)
  \/ FinishInvite(r) \/ InviteTooLate(r)
  \/ FinishAccount(r) \/ FinishPassword(r) \/ ActorDeleted(r)
  \/ FinishLogin(r) \/ LoginRefused(r)

AccountRequest(r) ==
  \/ \E password \in Passwords : SetupOwner(r, password)
  \/ \E i \in Requests, password \in Passwords : AcceptInvite(r, i, password)
  \/ \E u \in Requests : Login(r, u)
  \/ \E s \in Requests, role \in Roles : CreateAccount(r, s, role)
  \/ \E s \in Requests, password \in Passwords : ChangePassword(r, s, password)
  \/ \E s \in Requests, role \in Roles \ {"owner"} : CreateInvite(r, s, role)

AccountStep(s) ==
  \/ Logout(s)
  \/ InviteExpires(s)
  \/ \E includeCurrent \in BOOLEAN : RevokeAllSessions(s, includeCurrent)
  \/ \E t \in Requests : RevokeSession(s, t) \/ RevokeInvite(s, t)
  \/ \E p \in Requests, disabled \in BOOLEAN : PatchDisabled(s, p, disabled)
  \/ \E p \in Requests : DeleteProfile(s, p)
  \/ \E p \in Requests, role \in Roles : SetRole(s, p, role)
  \/ \E password \in Passwords : RecoverOwner(s, password)

Next == \E r \in Requests : AwaitedStep(r) \/ AccountRequest(r) \/ AccountStep(r)

Spec == Init /\ [][Next]_vars

-----------------------------------------------------------------------------
\* Two first visitors may both pass the check before the hash; the check inside
\* the transaction lets one of them create the owner.
OneSetupOwner ==
  Cardinality({r \in Requests : Resumed(r, "setup", "done") /\ users[r] # None}) <= 1

\* However many people accept an invite at once, the accounts made with it are
\* the uses it counts, and no more than it allows.
InviteUsesCounted ==
  \A i \in Requests : invites[i] # None =>
    /\ Cardinality({r \in Requests : Resumed(r, "invite", "done") /\ call[r].on = i
                                     /\ users[r] # None}) = invites[i].used
    /\ invites[i].used <= MaxUses

\* "Keep at least one active owner, always" (app.ts 2937): some owner can
\* always sign in, whatever becomes of roles and disabled profiles. The guard
\* counts owners that are not disabled, which is not enough by itself: the
\* default profile of an enabled owner may be disabled.
AnOwnerCanSignIn ==
  HasUsers => \E u \in Requests : CanSignIn(u) /\ users[u].role = "owner"

\* An owner "cannot be disabled" (docs/multi-user-and-profiles.md 75).
OwnersAreEnabled ==
  \A u \in Requests : users[u] # None /\ users[u].role = "owner" =>
    ~users[u].disabled
=============================================================================
