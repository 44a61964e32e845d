--------------------------- MODULE HouseholdProofs ---------------------------
(***************************************************************************)
(* Theorems about Household, and so about Accounts, for any sets of        *)
(* requests and passwords, any limits, and with or without the public      *)
(* mode: the clients may send any number of requests in any order.         *)
(***************************************************************************)
EXTENDS Household, FiniteSetTheorems, TLAPS

\* An account is created with its default profile, which stays its own, and
\* every profile belongs to an account.
DefaultsStay ==
  \A u \in Requests :
    /\ users[u] # None => Stored(u) /\ profiles[u].user = u
    /\ Stored(u) => users[profiles[u].user] # None

\* A request makes its rows when it is answered, never before.
RowsAreMadeLast ==
  \A r \in Requests :
    (users[r] # None \/ profiles[r] # None \/ sessions[r] # None \/ invites[r] # None)
      => call[r] # None /\ call[r].at = "done"

\* What a request captured before it awaits still names rows that exist, or
\* existed: accounts, sessions and invites are never deleted.
CaptureOK(c) ==
  /\ c.op \in {"setup", "invite", "password"} => c.arg \in Passwords
  /\ c.op = "invite" => c.on \in Requests /\ invites[c.on] # None
  /\ c.op = "login" => c.on \in Requests /\ users[c.on] # None
  /\ c.op = "account" => c.arg \in Roles
  /\ c.op \in {"account", "password", "profile", "switch", "gate"} =>
       /\ c.auth \in AuthContext
       /\ users[c.auth.user] # None
       /\ sessions[c.auth.session] # None
       /\ sessions[c.auth.session].user = c.auth.user
  /\ c.op \in {"switch", "gate"} => c.on \in Requests /\ profiles[c.on] # None
  /\ c.op = "switch" /\ Stored(c.on) => profiles[c.on].user = c.auth.user
  /\ c.op = "profile" => c.arg \in Gates \ {"pin"}
  /\ c.op = "profile" /\ PublicMode => c.arg = "password"

CapturesHold ==
  \A r \in Requests : call[r] # None /\ call[r].at # "done" => CaptureOK(call[r])

Sound == TypeOK /\ DefaultsStay /\ RowsAreMadeLast /\ CapturesHold

-----------------------------------------------------------------------------
LEMMA InitSound == Init => Sound
  BY DEF Init, Sound, TypeOK, DefaultsStay, RowsAreMadeLast, CapturesHold, Stored

\* Who is signed in is an account with its own profile in use.
LEMMA SignedIn ==
  ASSUME TypeOK, DefaultsStay, NEW s \in Requests, Authenticated(s)
  PROVE  /\ sessions[s] \in SessionRow
         /\ sessions[s].user \in Requests
         /\ users[sessions[s].user] \in UserRow
         /\ users[sessions[s].user] # None
         /\ ActingProfile(s) \in ProfilesOf(sessions[s].user)
         /\ readAuth(s) \in AuthContext
         /\ readAuth(s).user = sessions[s].user
         /\ readAuth(s).session = s
         /\ readAuth(s).role = users[sessions[s].user].role
  <1>1. sessions[s] \in SessionRow /\ sessions[s].user \in Requests
    BY DEF TypeOK, Authenticated, SessionRow
  <1>2. /\ users[sessions[s].user] \in UserRow
        /\ users[sessions[s].user] # None
        /\ users[sessions[s].user].role \in Roles
    BY <1>1 DEF TypeOK, Authenticated, CanSignIn, UserRow
  <1>3. ActingProfile(s) \in ProfilesOf(sessions[s].user)
    BY <1>1, <1>2 DEF DefaultsStay, ActingProfile, LiveProfiles, ProfilesOf
  <1>4. ActingProfile(s) \in Requests /\ profiles[ActingProfile(s)].kid \in BOOLEAN
    BY <1>3 DEF ProfilesOf, Stored, TypeOK, ProfileRow
  <1>5. QED
    BY <1>1, <1>2, <1>3, <1>4 DEF readAuth, AuthContext

LEMMA ProfileOwner ==
  ASSUME Sound, NEW p \in Requests, Stored(p)
  PROVE  /\ profiles[p] \in ProfileRow
         /\ profiles[p].user \in Requests
         /\ users[profiles[p].user] # None
         /\ users[profiles[p].user] \in UserRow
  <1>1. profiles[p] \in ProfileRow /\ profiles[p].user \in Requests
    BY DEF Sound, TypeOK, Stored, ProfileRow
  <1>2. QED
    BY <1>1 DEF Sound, TypeOK, DefaultsStay

-----------------------------------------------------------------------------
(* Requests that begin or end without a change to the tables. *)

LEMMA SuspendSound ==
  ASSUME Sound, NEW r \in Requests, call[r] = None, UNCHANGED tables,
         NEW op \in Operations, NEW at \in {"hash", "verify"},
         NEW auth \in AuthContext \cup {None}, NEW on \in Requests \cup {None},
         NEW arg \in Roles \cup Passwords \cup Gates \cup {None},
         Suspend(r, op, at, auth, on, arg),
         CaptureOK([op |-> op, at |-> at, auth |-> auth, on |-> on, arg |-> arg])
  PROVE  Sound'
  <1> DEFINE c == [op |-> op, at |-> at, auth |-> auth, on |-> on, arg |-> arg]
  <1>1. c \in Call
    BY DEF Call
  <1>2. call' = [call EXCEPT ![r] = c]
    BY DEF Suspend
  <1>3. TypeOK'
    BY <1>1, <1>2 DEF Sound, TypeOK, tables
  <1>4. DefaultsStay'
    BY DEF Sound, DefaultsStay, tables, Stored
  <1>5. RowsAreMadeLast'
    BY <1>2 DEF Sound, TypeOK, RowsAreMadeLast, tables
  <1>6. ASSUME NEW q \in Requests, call'[q] # None, call'[q].at # "done"
        PROVE  CaptureOK(call[q])'
    <2>1. CaptureOK(call'[q])
      BY <1>2, <1>6 DEF Sound, TypeOK, CapturesHold
    <2>2. QED
      BY <2>1 DEF CaptureOK, tables, Stored
  <1>7. QED
    BY <1>3, <1>4, <1>5, <1>6 DEF Sound, CapturesHold

LEMMA AnsweredCall ==
  ASSUME NEW c \in Call
  PROVE  /\ Answered(c) \in Call
         /\ Answered(c) # None
         /\ Answered(c).at = "done"
         /\ Answered(c).op = c.op
         /\ Answered(c).on = c.on
  <1>1. Answered(c) \in Call
    BY DEF Answered, Call
  <1>2. QED
    BY <1>1, RowsAreNotMarks DEF Answered

LEMMA AnswerCalls ==
  ASSUME Sound, NEW r \in Requests, call[r] # None, Answer(r)
  PROVE  /\ call' \in [Requests -> Call \cup {None}]
         /\ call'[r] # None
         /\ call'[r].at = "done"
         /\ call'[r].op = call[r].op
         /\ call'[r].on = call[r].on
         /\ \A q \in Requests \ {r} : call'[q] = call[q]
  <1>1. call[r] \in Call /\ call \in [Requests -> Call \cup {None}]
    BY DEF Sound, TypeOK
  <1>2. call' = [call EXCEPT ![r] = Answered(call[r])]
    BY DEF Answer
  <1>3. QED
    BY <1>1, <1>2, AnsweredCall

LEMMA FailsSound ==
  ASSUME Sound, NEW r \in Requests, call[r] # None, Fails(r)
  PROVE  Sound'
  <1>1. Answer(r) /\ UNCHANGED tables
    BY DEF Fails
  <1>2. TypeOK'
    BY <1>1, AnswerCalls DEF Sound, TypeOK, tables
  <1>3. DefaultsStay'
    BY <1>1 DEF Sound, DefaultsStay, tables, Stored
  <1>4. RowsAreMadeLast'
    BY <1>1, AnswerCalls DEF Sound, RowsAreMadeLast, tables
  <1>5. CapturesHold'
    BY <1>1, AnswerCalls DEF Sound, CapturesHold, CaptureOK, tables, Stored
  <1>6. QED
    BY <1>2, <1>3, <1>4, <1>5 DEF Sound

-----------------------------------------------------------------------------
(* Rows persist: accounts, sessions and invites for good, profiles until they *)
(* are deleted, and each keeps its account.                                   *)

RowsPersist ==
  /\ \A u \in Requests : users[u] # None => users'[u] # None
  /\ \A s \in Requests : sessions[s] # None =>
       sessions'[s] # None /\ sessions'[s].user = sessions[s].user
  /\ \A i \in Requests : invites[i] # None => invites'[i] # None
  /\ \A p \in Requests : profiles[p] # None =>
       /\ profiles'[p] # None
       /\ Stored(p)' => Stored(p) /\ profiles'[p].user = profiles[p].user

LEMMA CapturesKept ==
  ASSUME Sound, RowsPersist,
         \A q \in Requests : call'[q] # None /\ call'[q].at # "done" => call'[q] = call[q]
  PROVE  CapturesHold'
  <1> SUFFICES ASSUME NEW q \in Requests, call'[q] # None, call'[q].at # "done"
               PROVE  CaptureOK(call[q])'
    BY DEF CapturesHold
  <1>1. CaptureOK(call[q]) /\ call'[q] = call[q]
    BY DEF Sound, CapturesHold
  <1>2. call[q].auth \in AuthContext =>
          call[q].auth.user \in Requests /\ call[q].auth.session \in Requests
    BY DEF AuthContext
  <1>3. QED
    BY <1>1, <1>2 DEF CaptureOK, RowsPersist

\* No row is new, or none but those of a request that is answered.
LEMMA ChangeSound ==
  ASSUME Sound, TypeOK', DefaultsStay', RowsPersist, UNCHANGED call,
         \A q \in Requests :
           /\ users'[q] # None => users[q] # None
           /\ profiles'[q] # None => profiles[q] # None
           /\ sessions'[q] # None => sessions[q] # None
           /\ invites'[q] # None => invites[q] # None
  PROVE  Sound'
  BY CapturesKept DEF Sound, RowsAreMadeLast

LEMMA AnswerSound ==
  ASSUME Sound, NEW r \in Requests, call[r] # None, Answer(r),
         TypeOK', DefaultsStay', RowsPersist,
         \A q \in Requests \ {r} :
           /\ users'[q] # None => users[q] # None
           /\ profiles'[q] # None => profiles[q] # None
           /\ sessions'[q] # None => sessions[q] # None
           /\ invites'[q] # None => invites[q] # None
  PROVE  Sound'
  <1>1. RowsAreMadeLast'
    BY AnswerCalls DEF Sound, RowsAreMadeLast
  <1>2. CapturesHold'
    BY AnswerCalls, CapturesKept
  <1>3. QED
    BY <1>1, <1>2 DEF Sound

-----------------------------------------------------------------------------
(* Sound is kept by every step: first the requests that begin. *)

LEMMA RequestSound ==
  ASSUME Sound, NEW r \in Requests, AccountRequest(r)
  PROVE  Sound'
  <1>1. ASSUME NEW password \in Passwords, SetupOwner(r, password)
        PROVE  Sound'
    <2>1. CaptureOK([op |-> "setup", at |-> "hash", auth |-> None, on |-> None, arg |-> password])
      BY DEF CaptureOK
    <2>2. QED
      BY <1>1, <2>1, SuspendSound DEF SetupOwner, Arrives, Operations
  <1>2. ASSUME NEW i \in Requests, NEW password \in Passwords, AcceptInvite(r, i, password)
        PROVE  Sound'
    <2>1. CaptureOK([op |-> "invite", at |-> "hash", auth |-> None, on |-> i, arg |-> password])
      BY <1>2 DEF CaptureOK, AcceptInvite, InviteOpen
    <2>2. QED
      BY <1>2, <2>1, SuspendSound DEF AcceptInvite, Arrives, Operations
  <1>3. ASSUME NEW u \in Requests, Login(r, u)
        PROVE  Sound'
    <2>1. CaptureOK([op |-> "login", at |-> "verify", auth |-> None, on |-> u,
                     arg |-> users[u].password])
      BY <1>3 DEF CaptureOK, Login
    <2>2. users[u].password \in Passwords
      BY <1>3 DEF Login, Sound, TypeOK, UserRow
    <2>3. QED
      BY <1>3, <2>1, <2>2, SuspendSound DEF Login, Arrives, Operations
  <1>4. ASSUME NEW s \in Requests, NEW role \in Roles, CreateAccount(r, s, role)
        PROVE  Sound'
    <2>1. readAuth(s) \in AuthContext
      BY <1>4, SignedIn DEF CreateAccount, Sound
    <2>2. CaptureOK([op |-> "account", at |-> "hash", auth |-> readAuth(s), on |-> None,
                     arg |-> role])
      BY <1>4, <2>1, SignedIn DEF CaptureOK, CreateAccount, Sound, Authenticated
    <2>3. QED
      BY <1>4, <2>1, <2>2, SuspendSound DEF CreateAccount, Arrives, Operations
  <1>5. ASSUME NEW s \in Requests, NEW password \in Passwords, ChangePassword(r, s, password)
        PROVE  Sound'
    <2>1. readAuth(s) \in AuthContext
      BY <1>5, SignedIn DEF ChangePassword, Sound
    <2>2. CaptureOK([op |-> "password", at |-> "verify", auth |-> readAuth(s), on |-> None,
                     arg |-> password])
      BY <1>5, <2>1, SignedIn DEF CaptureOK, ChangePassword, Sound, Authenticated
    <2>3. QED
      BY <1>5, <2>1, <2>2, SuspendSound DEF ChangePassword, Arrives, Operations
  <1>6. ASSUME NEW s \in Requests, NEW role \in Roles \ {"owner"}, CreateInvite(r, s, role)
        PROVE  Sound'
    <2>1. [role |-> role, used |-> 0, ended |-> FALSE] \in InviteRow
      BY MaxUsesAssumption DEF InviteRow
    <2>2. [op |-> "inviting", at |-> "done", auth |-> None, on |-> None, arg |-> None] \in Call
      BY DEF Call, Operations
    <2>3. call[r] = None /\ invites[r] = None
      BY <1>6 DEF CreateInvite, Arrives, Sound, RowsAreMadeLast
    <2>4. TypeOK'
      BY <1>6, <2>1, <2>2 DEF CreateInvite, Sound, TypeOK
    <2>5. DefaultsStay'
      BY <1>6 DEF CreateInvite, Sound, DefaultsStay, Stored
    <2>6. /\ call'[r] # None /\ call'[r].at = "done"
          /\ \A q \in Requests \ {r} : call'[q] = call[q] /\ invites'[q] = invites[q]
      BY <1>6, <2>2, RowsAreNotMarks DEF CreateInvite, Sound, TypeOK
    <2>7. RowsPersist
      BY <1>6, <2>3, <2>6 DEF CreateInvite, RowsPersist, Stored
    <2>8. RowsAreMadeLast'
      BY <1>6, <2>6 DEF CreateInvite, Sound, RowsAreMadeLast
    <2>9. CapturesHold'
      BY <2>6, <2>7, CapturesKept
    <2>10. QED
      BY <2>4, <2>5, <2>8, <2>9 DEF Sound
  <1>7. QED
    BY <1>1, <1>2, <1>3, <1>4, <1>5, <1>6 DEF AccountRequest

LEMMA HouseholdRequestSound ==
  ASSUME Sound, NEW r \in Requests, HouseholdRequest(r)
  PROVE  Sound'
  <1>1. ASSUME NEW s \in Requests, NEW gate \in Gates, CreateProfile(r, s, gate)
        PROVE  Sound'
    <2>1. readAuth(s) \in AuthContext
      BY <1>1, SignedIn DEF CreateProfile, Sound
    <2>2. CaptureOK([op |-> "profile", at |-> "hash", auth |-> readAuth(s), on |-> None,
                     arg |-> gate])
      BY <1>1, <2>1, SignedIn DEF CaptureOK, CreateProfile, Sound, Authenticated
    <2>3. QED
      BY <1>1, <2>1, <2>2, SuspendSound DEF CreateProfile, Arrives, Operations
  <1>2. ASSUME NEW s \in Requests, NEW p \in Requests, SwitchProfile(r, s, p)
        PROVE  Sound'
    <2>1. readAuth(s) \in AuthContext
      BY <1>2, SignedIn DEF SwitchProfile, Sound
    <2>2. CaptureOK([op |-> "switch", at |-> "verify", auth |-> readAuth(s), on |-> p,
                     arg |-> None])
      BY <1>2, <2>1, SignedIn
      DEF CaptureOK, SwitchProfile, Sound, Authenticated, LiveProfiles, ProfilesOf, Stored
    <2>3. QED
      BY <1>2, <2>1, <2>2, SuspendSound DEF SwitchProfile, Arrives, Operations
  <1>3. ASSUME NEW s \in Requests, NEW p \in Requests, NEW gate \in Gates,
               GuardProfile(r, s, p, gate)
        PROVE  Sound'
    <2>1. Authenticated(s) /\ readAuth(s) \in AuthContext
      BY <1>3, SignedIn DEF GuardProfile, MayGuard, Sound
    <2>2. CaptureOK([op |-> "gate", at |-> "hash", auth |-> readAuth(s), on |-> p,
                     arg |-> gate])
      BY <1>3, <2>1, SignedIn
      DEF CaptureOK, GuardProfile, MayGuard, Sound, Authenticated, LiveProfiles, ProfilesOf, Stored
    <2>3. QED
      BY <1>3, <2>1, <2>2, SuspendSound DEF GuardProfile, Arrives, Operations
  <1>4. QED
    BY <1>1, <1>2, <1>3 DEF HouseholdRequest

-----------------------------------------------------------------------------
(* The requests that are answered. *)

\* A request that has not been answered has made no row.
LEMMA NothingMadeYet ==
  ASSUME Sound, NEW r \in Requests, call[r] # None, call[r].at # "done"
  PROVE  /\ users[r] = None /\ profiles[r] = None
         /\ sessions[r] = None /\ invites[r] = None
         /\ CaptureOK(call[r])
  BY DEF Sound, RowsAreMadeLast, CapturesHold

LEMMA AccountMade ==
  ASSUME Sound, NEW r \in Requests, call[r] # None, call[r].at # "done",
         NEW role \in Roles, NEW password \in Passwords,
         createUserAndProfile(r, role, password)
  PROVE  /\ users' \in [Requests -> UserRow \cup {None}]
         /\ profiles' \in [Requests -> ProfileRow \cup {None, Gone}]
         /\ users'[r] \in UserRow /\ users'[r] # None /\ users'[r].role = role
         /\ ~users'[r].disabled
         /\ profiles'[r] \in ProfileRow /\ profiles'[r] \notin {None, Gone}
         /\ profiles'[r].user = r /\ ~profiles'[r].disabled
         /\ profiles'[r].gated = PublicMode
         /\ \A q \in Requests \ {r} : users'[q] = users[q] /\ profiles'[q] = profiles[q]
         /\ users[r] = None /\ profiles[r] = None
         /\ DefaultsStay'
  <1> DEFINE user == [role |-> role, disabled |-> FALSE, password |-> password]
             profile == [user |-> r, disabled |-> FALSE, kid |-> FALSE, gated |-> PublicMode]
  <1>1. user \in UserRow /\ profile \in ProfileRow
    BY PublicModeAssumption DEF UserRow, ProfileRow
  <1>2. users' = [users EXCEPT ![r] = user] /\ profiles' = [profiles EXCEPT ![r] = profile]
    BY DEF createUserAndProfile
  <1>3. /\ users'[r] = user /\ profiles'[r] = profile
        /\ users' \in [Requests -> UserRow \cup {None}]
        /\ profiles' \in [Requests -> ProfileRow \cup {None, Gone}]
        /\ \A q \in Requests \ {r} : users'[q] = users[q] /\ profiles'[q] = profiles[q]
    BY <1>1, <1>2 DEF Sound, TypeOK
  <1>4. user # None /\ profile \notin {None, Gone}
    BY <1>1, RowsAreNotMarks
  <1>5. users[r] = None /\ profiles[r] = None
    BY NothingMadeYet
  <1>6. DefaultsStay'
    <2> SUFFICES ASSUME NEW u \in Requests
                 PROVE  /\ users'[u] # None =>
                             profiles'[u] \notin {None, Gone} /\ profiles'[u].user = u
                        /\ profiles'[u] \notin {None, Gone} => users'[profiles'[u].user] # None
      BY DEF DefaultsStay, Stored
    <2>1. CASE u = r
      BY <1>3, <1>4, <2>1
    <2>2. CASE u # r
      <3>1. profiles[u] \notin {None, Gone} => profiles[u].user \in Requests
        BY DEF Sound, TypeOK, ProfileRow
      <3>2. QED
        BY <1>3, <1>4, <2>2, <3>1 DEF Sound, DefaultsStay, Stored
    <2>3. QED
      BY <2>1, <2>2
  <1>7. QED
    BY <1>1, <1>3, <1>4, <1>5, <1>6

LEMMA SessionMade ==
  ASSUME Sound, NEW r \in Requests, call[r] # None, call[r].at # "done",
         NEW u \in Requests, createSession(r, u)
  PROVE  /\ sessions' \in [Requests -> SessionRow \cup {None}]
         /\ sessions'[r] # None /\ sessions'[r].user = u /\ sessions'[r].active = None
         /\ \A q \in Requests \ {r} : sessions'[q] = sessions[q]
         /\ sessions[r] = None
  <1>1. [user |-> u, active |-> None, ended |-> FALSE] \in SessionRow
    BY DEF SessionRow
  <1>2. QED
    BY <1>1, NothingMadeYet, RowsAreNotMarks DEF createSession, Sound, TypeOK

LEMMA SetupSound ==
  ASSUME Sound, NEW r \in Requests, FinishSetup(r)
  PROVE  Sound'
  <1>1. call[r] # None /\ call[r].at # "done" /\ call[r].arg \in Passwords
    BY NothingMadeYet DEF FinishSetup, Resumed, CaptureOK
  <1>2. createUserAndProfile(r, "owner", call[r].arg) /\ createSession(r, r)
    BY DEF FinishSetup
  <1>3. Answer(r) /\ UNCHANGED invites /\ "owner" \in Roles
    BY DEF FinishSetup, Roles
  <1>4. TypeOK'
    BY <1>1, <1>2, <1>3, AccountMade, SessionMade, AnswerCalls DEF Sound, TypeOK
  <1>5. RowsPersist
    BY <1>1, <1>2, <1>3, AccountMade, SessionMade DEF RowsPersist, Stored
  <1>6. QED
    BY <1>1, <1>2, <1>3, <1>4, <1>5, AccountMade, SessionMade, AnswerSound

LEMMA InviteSound ==
  ASSUME Sound, NEW r \in Requests, FinishInvite(r)
  PROVE  Sound'
  <1> DEFINE i == call[r].on
  <1>1. /\ call[r] # None /\ call[r].at # "done" /\ call[r].arg \in Passwords
        /\ i \in Requests /\ invites[i] # None
    BY NothingMadeYet DEF FinishInvite, Resumed, CaptureOK
  <1>2. /\ invites[i] \in InviteRow /\ invites[i].role \in Roles
        /\ invites[i].used + 1 \in 0 .. MaxUses
    BY <1>1, MaxUsesAssumption DEF Sound, TypeOK, InviteRow, FinishInvite, InviteOpen
  <1>3. createUserAndProfile(r, invites[i].role, call[r].arg) /\ createSession(r, r)
    BY DEF FinishInvite
  <1>4. Answer(r) /\ invites' = [invites EXCEPT ![i].used = @ + 1]
    BY DEF FinishInvite
  <1>5. invites' \in [Requests -> InviteRow \cup {None}] /\ invites'[i] # None
    <2>1. [invites[i] EXCEPT !.used = @ + 1] \in InviteRow
      BY <1>2 DEF InviteRow
    <2>2. QED
      BY <1>1, <1>4, <2>1, RowsAreNotMarks DEF Sound, TypeOK
  <1>6. \A q \in Requests \ {i} : invites'[q] = invites[q]
    BY <1>1, <1>4 DEF Sound, TypeOK
  <1>7. TypeOK'
    BY <1>1, <1>2, <1>3, <1>4, <1>5, AccountMade, SessionMade, AnswerCalls DEF Sound, TypeOK
  <1>8. RowsPersist
    BY <1>1, <1>2, <1>3, <1>5, <1>6, AccountMade, SessionMade DEF RowsPersist, Stored
  <1>9. QED
    BY <1>1, <1>2, <1>3, <1>4, <1>5, <1>6, <1>7, <1>8, AccountMade, SessionMade, AnswerSound

LEMMA FinishAccountSound ==
  ASSUME Sound, NEW r \in Requests, FinishAccount(r)
  PROVE  Sound'
  <1>1. call[r] # None /\ call[r].at # "done" /\ call[r].arg \in Roles
    BY NothingMadeYet DEF FinishAccount, Resumed, CaptureOK
  <1>2. PICK password \in Passwords : createUserAndProfile(r, call[r].arg, password)
    BY DEF FinishAccount
  <1>3. Answer(r) /\ UNCHANGED <<sessions, invites>>
    BY DEF FinishAccount
  <1>4. TypeOK'
    BY <1>1, <1>2, <1>3, AccountMade, AnswerCalls DEF Sound, TypeOK
  <1>5. RowsPersist
    BY <1>1, <1>2, <1>3, AccountMade DEF RowsPersist, Stored
  <1>6. QED
    BY <1>1, <1>2, <1>3, <1>4, <1>5, AccountMade, AnswerSound

LEMMA FinishLoginSound ==
  ASSUME Sound, NEW r \in Requests, FinishLogin(r)
  PROVE  Sound'
  <1>1. call[r] # None /\ call[r].at # "done" /\ call[r].on \in Requests
    BY NothingMadeYet DEF FinishLogin, Resumed, CaptureOK
  <1>2. createSession(r, call[r].on) /\ Answer(r) /\ UNCHANGED <<users, profiles, invites>>
    BY DEF FinishLogin
  <1>3. TypeOK' /\ DefaultsStay'
    BY <1>1, <1>2, SessionMade, AnswerCalls DEF Sound, TypeOK, DefaultsStay, Stored
  <1>4. RowsPersist
    BY <1>1, <1>2, SessionMade DEF RowsPersist, Stored
  <1>5. QED
    BY <1>1, <1>2, <1>3, <1>4, SessionMade, AnswerSound

LEMMA PasswordSound ==
  ASSUME Sound, NEW r \in Requests, FinishPassword(r)
  PROVE  Sound'
  <1> DEFINE u == call[r].auth.user
  <1>1. /\ call[r] # None /\ call[r].at # "done" /\ call[r].arg \in Passwords
        /\ u \in Requests /\ users[u] # None
    BY NothingMadeYet DEF FinishPassword, Resumed, CaptureOK, AuthContext
  <1>2. Answer(r) /\ UNCHANGED <<profiles, invites>>
    BY DEF FinishPassword
  <1>3. users' = [users EXCEPT ![u].password = call[r].arg]
    BY DEF FinishPassword
  <1>4. sessions' \in [Requests -> SessionRow \cup {None}] /\ \A t \in Requests :
          /\ sessions[t] = None => sessions'[t] = None
          /\ sessions[t] # None => sessions'[t] # None /\ sessions'[t].user = sessions[t].user
    <2> SUFFICES ASSUME NEW t \in Requests
                 PROVE  /\ sessions'[t] \in SessionRow \cup {None}
                        /\ sessions[t] = None => sessions'[t] = None
                        /\ sessions[t] # None =>
                             sessions'[t] # None /\ sessions'[t].user = sessions[t].user
      BY DEF FinishPassword
    <2>1. sessions[t] \in SessionRow \cup {None}
      BY DEF Sound, TypeOK
    <2>2. sessions[t] # None => [sessions[t] EXCEPT !.ended = TRUE] \in SessionRow
      BY <2>1 DEF SessionRow
    <2>3. sessions'[t] \in {sessions[t], [sessions[t] EXCEPT !.ended = TRUE]}
          /\ (sessions[t] = None => sessions'[t] = None)
      BY DEF FinishPassword
    <2>4. QED
      BY <2>1, <2>2, <2>3, RowsAreNotMarks DEF SessionRow
  <1>5. /\ users' \in [Requests -> UserRow \cup {None}] /\ users'[u] # None
        /\ \A q \in Requests \ {u} : users'[q] = users[q]
    <2>1. [users[u] EXCEPT !.password = call[r].arg] \in UserRow
      BY <1>1 DEF Sound, TypeOK, UserRow
    <2>2. QED
      BY <1>1, <1>3, <2>1, RowsAreNotMarks DEF Sound, TypeOK
  <1>6. TypeOK' /\ DefaultsStay'
    <2>1. TypeOK'
      BY <1>1, <1>2, <1>4, <1>5, AnswerCalls DEF Sound, TypeOK
    <2>2. DefaultsStay'
      BY <1>1, <1>2, <1>5, ProfileOwner DEF Sound, DefaultsStay, Stored
    <2>3. QED
      BY <2>1, <2>2
  <1>7. RowsPersist
    BY <1>1, <1>2, <1>4, <1>5 DEF RowsPersist, Stored
  <1>8. QED
    BY <1>1, <1>2, <1>4, <1>5, <1>6, <1>7, AnswerSound

LEMMA AwaitedSound ==
  ASSUME Sound, NEW r \in Requests, AwaitedStep(r)
  PROVE  Sound'
  <1>1. CASE FinishSetup(r)
    BY <1>1, SetupSound
  <1>2. CASE SetupTooLate(r)
    BY <1>2, FailsSound DEF SetupTooLate, Resumed
  <1>3. CASE FinishInvite(r)
    BY <1>3, InviteSound
  <1>4. CASE InviteTooLate(r)
    BY <1>4, FailsSound DEF InviteTooLate, Resumed
  <1>5. CASE FinishAccount(r)
    BY <1>5, FinishAccountSound
  <1>6. CASE FinishPassword(r)
    BY <1>6, PasswordSound
  <1>7. CASE ActorDeleted(r)
    BY <1>7, FailsSound DEF ActorDeleted
  <1>8. CASE FinishLogin(r)
    BY <1>8, FinishLoginSound
  <1>9. CASE LoginRefused(r)
    BY <1>9, FailsSound DEF LoginRefused, Resumed
  <1>10. QED
    BY <1>1, <1>2, <1>3, <1>4, <1>5, <1>6, <1>7, <1>8, <1>9 DEF AwaitedStep

LEMMA HouseholdStepSound ==
  ASSUME Sound, NEW r \in Requests, HouseholdStep(r)
  PROVE  Sound'
  <1>1. CASE FinishProfile(r)
    <2> DEFINE auth == call[r].auth
               profile == [user |-> auth.user, disabled |-> FALSE, kid |-> FALSE,
                           gated |-> call[r].arg # "none"]
    <2>1. call[r] # None /\ call[r].at # "done" /\ auth.user \in Requests
      BY <1>1, NothingMadeYet DEF FinishProfile, Resumed, CaptureOK, AuthContext
    <2>2. profile \in ProfileRow
      <3>1. ASSUME NEW b \in BOOLEAN
            PROVE  [user |-> auth.user, disabled |-> FALSE, kid |-> FALSE, gated |-> b]
                     \in ProfileRow
        BY <2>1 DEF ProfileRow
      <3>2. (call[r].arg # "none") \in BOOLEAN
        OBVIOUS
      <3>3. QED
        BY <3>1, <3>2, Zenon
    <2>3. Answer(r) /\ UNCHANGED <<users, sessions, invites>>
      BY <1>1 DEF FinishProfile
    <2>4. profiles' = [profiles EXCEPT ![r] = profile]
      BY <1>1 DEF FinishProfile
    <2>5. /\ profiles' \in [Requests -> ProfileRow \cup {None, Gone}]
          /\ \A q \in Requests \ {r} : profiles'[q] = profiles[q]
      BY <2>2, <2>4 DEF Sound, TypeOK
    <2>6. users[r] = None /\ profiles[r] = None
      BY <2>1, NothingMadeYet
    <2>7. TypeOK' /\ DefaultsStay'
      <3>1. profiles'[r] = profile /\ users[auth.user] # None
        BY <1>1, <2>2, <2>4, NothingMadeYet DEF Sound, TypeOK, FinishProfile, Resumed, CaptureOK
      <3>2. TypeOK'
        BY <2>1, <2>3, <2>5, AnswerCalls DEF Sound, TypeOK
      <3>3. DefaultsStay'
        BY <2>3, <2>5, <2>6, <3>1 DEF Sound, DefaultsStay, Stored
      <3>4. QED
        BY <3>2, <3>3
    <2>8. RowsPersist
      BY <2>3, <2>5, <2>6 DEF RowsPersist, Stored
    <2>9. QED
      BY <2>1, <2>3, <2>5, <2>7, <2>8, AnswerSound
  <1>2. CASE ProfileRefused(r)
    BY <1>2, FailsSound DEF ProfileRefused, Resumed
  <1>3. CASE FinishSwitch(r)
    <2> DEFINE s == call[r].auth.session
               p == call[r].on
    <2>1. /\ call[r] # None /\ call[r].at # "done" /\ s \in Requests /\ p \in Requests
          /\ sessions[s] # None
      BY <1>3, NothingMadeYet DEF FinishSwitch, Resumed, CaptureOK, AuthContext
    <2>2. [sessions[s] EXCEPT !.active = p] \in SessionRow
      BY <2>1 DEF Sound, TypeOK, SessionRow
    <2>3. sessions' = [sessions EXCEPT ![s].active = p]
      BY <1>3 DEF FinishSwitch, Activate
    <2>4. Answer(r) /\ UNCHANGED <<users, profiles, invites>>
      BY <1>3 DEF FinishSwitch, Activate
    <2>5. /\ sessions' \in [Requests -> SessionRow \cup {None}]
          /\ sessions'[s] # None /\ sessions'[s].user = sessions[s].user
          /\ \A q \in Requests \ {s} : sessions'[q] = sessions[q]
      BY <2>1, <2>2, <2>3, RowsAreNotMarks DEF Sound, TypeOK, SessionRow
    <2>6. TypeOK' /\ DefaultsStay'
      BY <2>1, <2>4, <2>5, AnswerCalls DEF Sound, TypeOK, DefaultsStay, Stored
    <2>7. RowsPersist
      BY <2>4, <2>5 DEF RowsPersist, Stored
    <2>8. QED
      BY <2>1, <2>4, <2>5, <2>6, <2>7, AnswerSound
  <1>4. CASE FinishGuard(r)
    <2> DEFINE p == call[r].on
    <2>1. /\ call[r] # None /\ call[r].at # "done" /\ p \in Requests /\ Stored(p)
      BY <1>4, NothingMadeYet DEF FinishGuard, Resumed, CaptureOK
    <2>2. [profiles[p] EXCEPT !.gated = TRUE] \in ProfileRow
      BY <2>1 DEF Sound, TypeOK, ProfileRow, Stored
    <2>3. profiles' = [profiles EXCEPT ![p].gated = TRUE]
      BY <1>4 DEF FinishGuard
    <2>4. Answer(r) /\ UNCHANGED <<users, sessions, invites>>
      BY <1>4 DEF FinishGuard
    <2>5. /\ profiles' \in [Requests -> ProfileRow \cup {None, Gone}]
          /\ profiles'[p] \notin {None, Gone} /\ profiles'[p].user = profiles[p].user
          /\ \A q \in Requests \ {p} : profiles'[q] = profiles[q]
      BY <2>1, <2>2, <2>3, RowsAreNotMarks DEF Sound, TypeOK, ProfileRow, Stored
    <2>6. TypeOK' /\ DefaultsStay'
      BY <2>1, <2>4, <2>5, AnswerCalls DEF Sound, TypeOK, DefaultsStay, Stored
    <2>7. RowsPersist
      BY <2>1, <2>4, <2>5 DEF RowsPersist, Stored
    <2>8. QED
      BY <2>1, <2>4, <2>5, <2>6, <2>7, AnswerSound DEF Stored
  <1>5. CASE ProfileDeleted(r)
    BY <1>5, FailsSound DEF ProfileDeleted, Resumed
  <1>6. QED
    BY <1>1, <1>2, <1>3, <1>4, <1>5 DEF HouseholdStep

-----------------------------------------------------------------------------
(* The handlers that do not await. *)

\* Sessions are changed in place: each keeps its account.
SessionsKept ==
  /\ sessions' \in [Requests -> SessionRow \cup {None}]
  /\ \A t \in Requests :
       /\ sessions[t] = None => sessions'[t] = None
       /\ sessions[t] # None => sessions'[t] # None /\ sessions'[t].user = sessions[t].user

LEMMA SessionChange ==
  ASSUME Sound, SessionsKept, UNCHANGED <<users, profiles, invites, call>>
  PROVE  Sound'
  <1>1. TypeOK' /\ DefaultsStay'
    BY DEF Sound, TypeOK, DefaultsStay, Stored, SessionsKept
  <1>2. RowsPersist
    BY DEF RowsPersist, SessionsKept, Stored
  <1>3. QED
    BY <1>1, <1>2, ChangeSound DEF SessionsKept

LEMMA EndSessionsSound ==
  ASSUME Sound, NEW S, \A t \in S : t \in Requests => sessions[t] # None, EndSessions(S)
  PROVE  Sound'
  <1>1. ASSUME NEW t \in Requests
        PROVE  /\ sessions'[t] \in SessionRow \cup {None}
               /\ sessions[t] = None => sessions'[t] = None
               /\ sessions[t] # None =>
                    sessions'[t] # None /\ sessions'[t].user = sessions[t].user
    <2>1. sessions[t] \in SessionRow \cup {None}
      BY DEF Sound, TypeOK
    <2>2. sessions[t] # None => [sessions[t] EXCEPT !.ended = TRUE] \in SessionRow
      BY <2>1 DEF SessionRow
    <2>3. /\ sessions'[t] \in {sessions[t], [sessions[t] EXCEPT !.ended = TRUE]}
          /\ sessions[t] = None => sessions'[t] = None
      BY DEF EndSessions
    <2>4. QED
      BY <2>1, <2>2, <2>3, RowsAreNotMarks DEF SessionRow
  <1>2. SessionsKept
    BY <1>1 DEF SessionsKept, EndSessions
  <1>3. QED
    BY <1>2, SessionChange DEF EndSessions

\* Profiles are changed in place or deleted.
ProfilesKept ==
  /\ profiles' \in [Requests -> ProfileRow \cup {None, Gone}]
  /\ \A p \in Requests :
       /\ profiles[p] = None => profiles'[p] = None
       /\ profiles[p] # None => profiles'[p] # None
       /\ Stored(p)' => Stored(p) /\ profiles'[p].user = profiles[p].user

LEMMA ProfileChanged ==
  ASSUME Sound, NEW p \in Requests, Stored(p), NEW row \in ProfileRow,
         row.user = profiles[p].user, profiles' = [profiles EXCEPT ![p] = row]
  PROVE  /\ ProfilesKept
         /\ Stored(p)' /\ profiles'[p] = row
         /\ \A q \in Requests \ {p} : profiles'[q] = profiles[q]
  BY RowsAreNotMarks DEF Sound, TypeOK, ProfilesKept, Stored

LEMMA ProfileChange ==
  ASSUME Sound, ProfilesKept, UNCHANGED <<users, sessions, invites, call>>,
         \A p \in Requests : Stored(p) => Stored(p)'
  PROVE  Sound'
  <1>1. TypeOK'
    BY DEF Sound, TypeOK, ProfilesKept
  <1>2. DefaultsStay'
    BY DEF Sound, DefaultsStay, ProfilesKept
  <1>3. RowsPersist
    BY DEF RowsPersist, ProfilesKept
  <1>4. QED
    BY <1>1, <1>2, <1>3, ChangeSound DEF ProfilesKept

\* A single account is changed in place.
LEMMA UserChanged ==
  ASSUME Sound, NEW u \in Requests, users[u] # None, NEW row \in UserRow,
         users' = [users EXCEPT ![u] = row]
  PROVE  /\ users' \in [Requests -> UserRow \cup {None}]
         /\ users'[u] = row /\ users'[u] # None
         /\ \A q \in Requests \ {u} : users'[q] = users[q]
  BY RowsAreNotMarks DEF Sound, TypeOK

LEMMA UserSound ==
  ASSUME Sound, ProfilesKept, \A p \in Requests : Stored(p) => Stored(p)',
         users' \in [Requests -> UserRow \cup {None}],
         \A u \in Requests : users[u] # None <=> users'[u] # None,
         UNCHANGED <<sessions, invites, call>>
  PROVE  Sound'
  <1>1. TypeOK'
    BY DEF Sound, TypeOK, ProfilesKept
  <1>2. DefaultsStay'
    BY ProfileOwner DEF Sound, DefaultsStay, ProfilesKept
  <1>3. RowsPersist
    BY DEF RowsPersist, ProfilesKept
  <1>4. QED
    BY <1>1, <1>2, <1>3, ChangeSound DEF ProfilesKept

\* What SetDisabled does to both rows.
LEMMA DisabledSet ==
  ASSUME Sound, NEW s \in Requests, NEW p \in Requests, NEW disabled \in BOOLEAN,
         SetDisabled(s, p, disabled)
  PROVE  /\ Sound' /\ ProfilesKept
         /\ Stored(p)' /\ Stored(p)
         /\ profiles'[p].gated = profiles[p].gated
         /\ \A q \in Requests \ {p} : profiles'[q] = profiles[q]
         /\ users'[profiles[p].user].role = users[profiles[p].user].role
         /\ \A u \in Requests \ {profiles[p].user} : users'[u] = users[u]
         /\ \A u \in Requests : users[u] # None <=> users'[u] # None
  <1> DEFINE u == profiles[p].user
             row == [profiles[p] EXCEPT !.disabled = disabled]
             user == [users[u] EXCEPT !.disabled = disabled]
  <1>1. /\ Stored(p) /\ profiles' = [profiles EXCEPT ![p].disabled = disabled]
        /\ users' = [users EXCEPT ![u].disabled = disabled]
        /\ UNCHANGED <<sessions, invites, call>>
    BY DEF SetDisabled
  <1>2. row \in ProfileRow /\ row.user = profiles[p].user /\ row.gated = profiles[p].gated
    BY <1>1, ProfileOwner DEF ProfileRow
  <1>3. user \in UserRow /\ user.role = users[u].role
    BY <1>1, ProfileOwner DEF UserRow
  <1>4. /\ ProfilesKept /\ Stored(p)' /\ profiles'[p] = row
        /\ \A q \in Requests \ {p} : profiles'[q] = profiles[q]
    BY <1>1, <1>2, ProfileChanged
  <1>5. /\ users' \in [Requests -> UserRow \cup {None}]
        /\ users'[u] = user /\ users'[u] # None
        /\ \A q \in Requests \ {u} : users'[q] = users[q]
    BY <1>1, <1>3, ProfileOwner, UserChanged
  <1>6. \A q \in Requests : users[q] # None <=> users'[q] # None
    BY <1>1, <1>5, ProfileOwner
  <1>7. Sound'
    BY <1>1, <1>4, <1>5, <1>6, UserSound DEF Stored
  <1>8. QED
    BY <1>1, <1>2, <1>3, <1>4, <1>5, <1>6, <1>7

LEMMA RoleSet ==
  ASSUME Sound, NEW s \in Requests, NEW p \in Requests, NEW role \in Roles, SetRole(s, p, role)
  PROVE  /\ Sound'
         /\ users'[profiles[p].user].role = role
         /\ users'[profiles[p].user].disabled = users[profiles[p].user].disabled
         /\ \A u \in Requests \ {profiles[p].user} : users'[u] = users[u]
         /\ \A u \in Requests : users[u] # None <=> users'[u] # None
  <1> DEFINE u == profiles[p].user
             user == [users[u] EXCEPT !.role = role]
  <1>1. /\ Stored(p) /\ users' = [users EXCEPT ![u].role = role]
        /\ UNCHANGED <<profiles, sessions, invites, call>>
    BY DEF SetRole
  <1>2. user \in UserRow /\ user.role = role /\ user.disabled = users[u].disabled
    BY <1>1, ProfileOwner DEF UserRow
  <1>3. /\ users' \in [Requests -> UserRow \cup {None}]
        /\ users'[u] = user /\ users'[u] # None
        /\ \A q \in Requests \ {u} : users'[q] = users[q]
    BY <1>1, <1>2, ProfileOwner, UserChanged
  <1>4. \A q \in Requests : users[q] # None <=> users'[q] # None
    BY <1>1, <1>3, ProfileOwner
  <1>5. ProfilesKept /\ \A q \in Requests : Stored(q) => Stored(q)'
    BY <1>1 DEF ProfilesKept, Sound, TypeOK, Stored
  <1>6. Sound'
    BY <1>1, <1>3, <1>4, <1>5, UserSound
  <1>7. QED
    BY <1>2, <1>3, <1>4, <1>6

LEMMA RecoverSound ==
  ASSUME Sound, NEW u \in Requests, NEW password \in Passwords, RecoverOwner(u, password)
  PROVE  /\ Sound'
         /\ users'[u].role = users[u].role
         /\ users'[u].disabled = users[u].disabled
         /\ \A q \in Requests \ {u} : users'[q] = users[q]
         /\ \A q \in Requests : users[q] # None <=> users'[q] # None
  <1> DEFINE user == [users[u] EXCEPT !.password = password]
  <1>1. /\ users[u] # None /\ users' = [users EXCEPT ![u].password = password]
        /\ UNCHANGED <<profiles, invites>>
    BY DEF RecoverOwner, EnabledOwners
  <1>2. user \in UserRow /\ user.role = users[u].role /\ user.disabled = users[u].disabled
    BY <1>1 DEF Sound, TypeOK, UserRow
  <1>3. /\ users' \in [Requests -> UserRow \cup {None}]
        /\ users'[u] = user /\ users'[u] # None
        /\ \A q \in Requests \ {u} : users'[q] = users[q]
    BY <1>1, <1>2, UserChanged
  <1>4. ASSUME NEW t \in Requests
        PROVE  /\ sessions'[t] \in SessionRow \cup {None}
               /\ sessions[t] = None => sessions'[t] = None
               /\ sessions[t] # None =>
                    sessions'[t] # None /\ sessions'[t].user = sessions[t].user
    <2>1. sessions[t] \in SessionRow \cup {None}
      BY DEF Sound, TypeOK
    <2>2. sessions[t] # None => [sessions[t] EXCEPT !.ended = TRUE] \in SessionRow
      BY <2>1 DEF SessionRow
    <2>3. /\ sessions'[t] \in {sessions[t], [sessions[t] EXCEPT !.ended = TRUE]}
          /\ sessions[t] = None => sessions'[t] = None
      BY DEF RecoverOwner, SessionsOf
    <2>4. QED
      BY <2>1, <2>2, <2>3, RowsAreNotMarks DEF SessionRow
  <1>5. sessions' \in [Requests -> SessionRow \cup {None}]
    BY <1>4 DEF RecoverOwner
  <1>6. ASSUME NEW r \in Requests
        PROVE  /\ call'[r] \in Call \cup {None}
               /\ call[r] = None => call'[r] = None
               /\ call[r] # None => /\ call'[r] # None /\ call'[r].at = "done"
                                    /\ call'[r].op = call[r].op /\ call'[r].on = call[r].on
    <2>1. call[r] \in Call \cup {None}
      BY DEF Sound, TypeOK
    <2>2. CASE call[r] = None \/ call[r].at = "done"
      BY <2>1, <2>2 DEF RecoverOwner
    <2>3. CASE ~(call[r] = None \/ call[r].at = "done")
      BY <2>1, <2>3, AnsweredCall DEF RecoverOwner
    <2>4. QED
      BY <2>2, <2>3
  <1>7. call' \in [Requests -> Call \cup {None}]
    BY <1>6 DEF RecoverOwner
  <1>8. TypeOK'
    BY <1>1, <1>3, <1>5, <1>7 DEF Sound, TypeOK
  <1>9. DefaultsStay'
    BY <1>1, <1>3, ProfileOwner DEF Sound, DefaultsStay, Stored
  <1>10. RowsAreMadeLast'
    BY <1>1, <1>3, <1>4, <1>6 DEF Sound, RowsAreMadeLast
  <1>11. CapturesHold'
    BY <1>6 DEF CapturesHold
  <1>12. QED
    BY <1>1, <1>2, <1>3, <1>8, <1>9, <1>10, <1>11 DEF Sound

LEMMA EndInviteSound ==
  ASSUME Sound, NEW i \in Requests, EndInvite(i)
  PROVE  /\ Sound'
         /\ invites'[i] # None /\ invites'[i].used = invites[i].used
         /\ \A q \in Requests \ {i} : invites'[q] = invites[q]
  <1> DEFINE row == [invites[i] EXCEPT !.ended = TRUE]
  <1>1. /\ invites[i] # None /\ invites' = [invites EXCEPT ![i].ended = TRUE]
        /\ UNCHANGED <<users, profiles, sessions, call>>
    BY DEF EndInvite
  <1>2. row \in InviteRow /\ row.used = invites[i].used
    BY <1>1 DEF Sound, TypeOK, InviteRow
  <1>3. /\ invites' \in [Requests -> InviteRow \cup {None}]
        /\ invites'[i] = row /\ invites'[i] # None
        /\ \A q \in Requests \ {i} : invites'[q] = invites[q]
    BY <1>1, <1>2, RowsAreNotMarks DEF Sound, TypeOK
  <1>4. TypeOK' /\ DefaultsStay' /\ RowsPersist
    BY <1>1, <1>3 DEF Sound, TypeOK, DefaultsStay, Stored, RowsPersist
  <1>5. QED
    BY <1>1, <1>2, <1>3, <1>4, ChangeSound

LEMMA AccountStepSound ==
  ASSUME Sound, NEW s \in Requests, AccountStep(s)
  PROVE  Sound'
  <1>1. CASE Logout(s)
    BY <1>1, EndSessionsSound DEF Logout
  <1>2. CASE InviteExpires(s)
    BY <1>2, EndInviteSound DEF InviteExpires
  <1>3. ASSUME NEW includeCurrent \in BOOLEAN, RevokeAllSessions(s, includeCurrent)
        PROVE  Sound'
    BY <1>3, EndSessionsSound DEF RevokeAllSessions, SessionsOf
  <1>4. ASSUME NEW t \in Requests, RevokeSession(s, t)
        PROVE  Sound'
    BY <1>4, EndSessionsSound DEF RevokeSession, SessionsOf
  <1>5. ASSUME NEW t \in Requests, RevokeInvite(s, t)
        PROVE  Sound'
    BY <1>5, EndInviteSound DEF RevokeInvite
  <1>6. ASSUME NEW p \in Requests, NEW disabled \in BOOLEAN, PatchDisabled(s, p, disabled)
        PROVE  Sound'
    BY <1>6, DisabledSet DEF PatchDisabled
  <1>7. ASSUME NEW p \in Requests, DeleteProfile(s, p)
        PROVE  Sound'
    BY <1>7, DisabledSet DEF DeleteProfile
  <1>8. ASSUME NEW p \in Requests, NEW role \in Roles, SetRole(s, p, role)
        PROVE  Sound'
    BY <1>8, RoleSet
  <1>9. ASSUME NEW password \in Passwords, RecoverOwner(s, password)
        PROVE  Sound'
    BY <1>9, RecoverSound
  <1>10. QED
    BY <1>1, <1>2, <1>3, <1>4, <1>5, <1>6, <1>7, <1>8, <1>9 DEF AccountStep

\* What deleting a profile does to both tables.
LEMMA ProfileGone ==
  ASSUME Sound, NEW s \in Requests, NEW p \in Requests, DeleteAccountProfile(s, p)
  PROVE  /\ Sound'
         /\ SessionsKept /\ ProfilesKept
         /\ \A q \in Requests \ {p} : profiles'[q] = profiles[q]
         /\ profiles'[p] = Gone
         /\ \A t \in Requests : sessions'[t] # None =>
              \/ sessions'[t].active = None
              \/ sessions'[t] = sessions[t] /\ sessions[t].active # p
  <1>1. /\ users[p] = None /\ profiles[p] # None
        /\ profiles' = [profiles EXCEPT ![p] = Gone]
        /\ UNCHANGED <<users, invites, call>>
    BY DEF DeleteAccountProfile, IsDefault, LiveProfiles, ProfilesOf, Stored
  <1>2. /\ profiles' \in [Requests -> ProfileRow \cup {None, Gone}]
        /\ profiles'[p] = Gone /\ \A q \in Requests \ {p} : profiles'[q] = profiles[q]
    BY <1>1 DEF Sound, TypeOK
  <1>3. ASSUME NEW t \in Requests
        PROVE  /\ sessions'[t] \in SessionRow \cup {None}
               /\ sessions[t] = None => sessions'[t] = None
               /\ sessions[t] # None =>
                    sessions'[t] # None /\ sessions'[t].user = sessions[t].user
               /\ sessions'[t] # None =>
                    \/ sessions'[t].active = None
                    \/ sessions'[t] = sessions[t] /\ sessions[t].active # p
    <2>1. sessions[t] \in SessionRow \cup {None}
      BY DEF Sound, TypeOK
    <2>2. sessions[t] # None => [sessions[t] EXCEPT !.active = None] \in SessionRow
      BY <2>1 DEF SessionRow
    <2>3. CASE sessions[t] # None /\ sessions[t].active = p
      <3>1. sessions'[t] = [sessions[t] EXCEPT !.active = None]
        BY <2>3 DEF DeleteAccountProfile
      <3>2. QED
        BY <2>1, <2>2, <2>3, <3>1, RowsAreNotMarks DEF SessionRow
    <2>4. CASE ~(sessions[t] # None /\ sessions[t].active = p)
      <3>1. sessions'[t] = sessions[t]
        BY <2>4 DEF DeleteAccountProfile
      <3>2. QED
        BY <2>1, <2>4, <3>1
    <2>5. QED
      BY <2>3, <2>4
  <1>4. SessionsKept
    BY <1>3 DEF SessionsKept, DeleteAccountProfile
  <1>5. ProfilesKept
    BY <1>1, <1>2, MarksAreApart DEF ProfilesKept, Stored
  <1>6. TypeOK'
    BY <1>1, <1>2, <1>4 DEF Sound, TypeOK, SessionsKept
  <1>7. DefaultsStay'
    BY <1>1, <1>2, ProfileOwner DEF Sound, DefaultsStay, Stored
  <1>8. RowsPersist
    BY <1>1, <1>4, <1>5 DEF RowsPersist, SessionsKept, ProfilesKept
  <1>9. Sound'
    BY <1>1, <1>4, <1>5, <1>6, <1>7, <1>8, ChangeSound DEF SessionsKept, ProfilesKept
  <1>10. QED
    BY <1>2, <1>3, <1>4, <1>5, <1>9

LEMMA Activated ==
  ASSUME Sound, NEW s \in Requests, NEW p \in Requests, sessions[s] # None, Activate(s, p)
  PROVE  /\ SessionsKept
         /\ sessions'[s].active = p
         /\ \A q \in Requests \ {s} : sessions'[q] = sessions[q]
  <1>1. [sessions[s] EXCEPT !.active = p] \in SessionRow
    BY DEF Sound, TypeOK, SessionRow
  <1>2. QED
    BY <1>1, RowsAreNotMarks DEF Activate, SessionsKept, Sound, TypeOK, SessionRow

LEMMA GateCleared ==
  ASSUME Sound, NEW s \in Requests, NEW p \in Requests, ClearPin(s, p)
  PROVE  /\ Sound' /\ ProfilesKept /\ \A q \in Requests : Stored(q) => Stored(q)'
         /\ profiles'[p].disabled = profiles[p].disabled
         /\ \A q \in Requests \ {p} : profiles'[q] = profiles[q]
  <1>1. /\ Stored(p) /\ profiles' = [profiles EXCEPT ![p].gated = FALSE]
        /\ UNCHANGED <<users, sessions, invites, call>>
    BY DEF ClearPin, MayGuard, LiveProfiles, ProfilesOf
  <1>2. /\ [profiles[p] EXCEPT !.gated = FALSE] \in ProfileRow
        /\ [profiles[p] EXCEPT !.gated = FALSE].user = profiles[p].user
        /\ [profiles[p] EXCEPT !.gated = FALSE].disabled = profiles[p].disabled
    BY <1>1, ProfileOwner DEF ProfileRow
  <1>3. /\ ProfilesKept /\ \A q \in Requests : Stored(q) => Stored(q)'
        /\ profiles'[p] = [profiles[p] EXCEPT !.gated = FALSE]
        /\ \A q \in Requests \ {p} : profiles'[q] = profiles[q]
    BY <1>1, <1>2, ProfileChanged DEF Stored
  <1>4. QED
    BY <1>1, <1>2, <1>3, ProfileChange

LEMMA MaturitySet ==
  ASSUME Sound, NEW s \in Requests, NEW p \in Requests, NEW kid \in BOOLEAN,
         SetMaturity(s, p, kid)
  PROVE  /\ Sound' /\ ProfilesKept /\ \A q \in Requests : Stored(q) => Stored(q)'
         /\ profiles'[p].gated = profiles[p].gated
         /\ profiles'[p].disabled = profiles[p].disabled
         /\ \A q \in Requests \ {p} : profiles'[q] = profiles[q]
  <1>1. /\ Stored(p) /\ profiles' = [profiles EXCEPT ![p].kid = kid]
        /\ UNCHANGED <<users, sessions, invites, call>>
    BY DEF SetMaturity, LiveProfiles, ProfilesOf
  <1>2. /\ [profiles[p] EXCEPT !.kid = kid] \in ProfileRow
        /\ [profiles[p] EXCEPT !.kid = kid].user = profiles[p].user
        /\ [profiles[p] EXCEPT !.kid = kid].gated = profiles[p].gated
        /\ [profiles[p] EXCEPT !.kid = kid].disabled = profiles[p].disabled
    BY <1>1, ProfileOwner DEF ProfileRow
  <1>3. /\ ProfilesKept /\ \A q \in Requests : Stored(q) => Stored(q)'
        /\ profiles'[p] = [profiles[p] EXCEPT !.kid = kid]
        /\ \A q \in Requests \ {p} : profiles'[q] = profiles[q]
    BY <1>1, <1>2, ProfileChanged DEF Stored
  <1>4. QED
    BY <1>1, <1>2, <1>3, ProfileChange

LEMMA HouseholdChangeSound ==
  ASSUME Sound, NEW s \in Requests, HouseholdChange(s)
  PROVE  Sound'
  <1>1. PICK p \in Requests :
          \/ DeleteAccountProfile(s, p)
          \/ SwitchFreely(s, p)
          \/ ClearPin(s, p)
          \/ \E kid \in BOOLEAN : SetMaturity(s, p, kid)
    BY DEF HouseholdChange
  <1>2. CASE DeleteAccountProfile(s, p)
    BY <1>2, ProfileGone
  <1>3. CASE SwitchFreely(s, p)
    <2>1. sessions[s] # None /\ Activate(s, p) /\ UNCHANGED call
      BY <1>3 DEF SwitchFreely, Authenticated
    <2>2. QED
      BY <2>1, Activated, SessionChange DEF Activate
  <1>4. CASE ClearPin(s, p)
    BY <1>4, GateCleared
  <1>5. ASSUME NEW kid \in BOOLEAN, SetMaturity(s, p, kid)
        PROVE  Sound'
    BY <1>5, MaturitySet
  <1>6. QED
    BY <1>1, <1>2, <1>3, <1>4, <1>5

LEMMA StepSound ==
  ASSUME Sound, [HouseholdNext]_vars
  PROVE  Sound'
  <1>1. CASE UNCHANGED vars
    BY <1>1 DEF Sound, TypeOK, DefaultsStay, RowsAreMadeLast, CapturesHold, CaptureOK,
                Stored, vars, tables
  <1>2. CASE HouseholdNext
    <2>1. \/ \E r \in Requests : HouseholdStep(r)
          \/ \E r \in Requests : AwaitedStep(r) \/ AccountRequest(r) \/ AccountStep(r)
          \/ \E r \in Requests : HouseholdRequest(r) \/ HouseholdChange(r)
      BY <1>2 DEF HouseholdNext, Next
    <2>2. QED
      BY <2>1, HouseholdStepSound, AwaitedSound, RequestSound, AccountStepSound,
         HouseholdRequestSound, HouseholdChangeSound
  <1>3. QED
    BY <1>1, <1>2

LEMMA AlwaysSound == HouseholdSpec => []Sound
  <1>1. QED
    BY InitSound, StepSound, PTL DEF HouseholdSpec

\* The tables and the captures of the requests keep their types, whatever
\* overlaps.
THEOREM TypeCorrect == HouseholdSpec => []TypeOK
  <1>1. Sound => TypeOK
    BY DEF Sound
  <1>2. QED
    BY <1>1, AlwaysSound, PTL

-----------------------------------------------------------------------------
(* What a step may do to accounts, invites and the owners among them. *)

CallsKept ==
  \A q \in Requests : call[q] # None =>
    call'[q] # None /\ call'[q].op = call[q].op /\ call'[q].on = call[q].on

\* The default profile of an account is disabled or enabled with it only.
DefaultsKept ==
  \A u \in Requests : users[u] # None => profiles'[u].disabled = profiles[u].disabled

SignedInOwner(u) == CanSignIn(u) /\ users[u].role = "owner"

Effects ==
  /\ CallsKept
  /\ \A q \in Requests : users[q] # None => users'[q] # None
  /\ \A q \in Requests : users[q] = None /\ users'[q] # None =>
       FinishSetup(q) \/ FinishInvite(q) \/ FinishAccount(q)
  /\ \A i \in Requests : invites[i] # None =>
       /\ invites'[i] # None
       /\ \/ invites'[i].used = invites[i].used
          \/ \E r \in Requests : FinishInvite(r) /\ call[r].on = i
  /\ \A i \in Requests : invites[i] = None /\ invites'[i] # None =>
       invites'[i].used = 0 /\ HasUsers
  /\ \A u \in Requests : SignedInOwner(u) =>
       \/ SignedInOwner(u)'
       \/ \E s \in Requests, p \in Requests, role \in Roles :
            SetRole(s, p, role) /\ profiles[p].user = u

LEMMA QuietEffects ==
  ASSUME Sound, UNCHANGED <<users, invites>>, CallsKept, DefaultsKept
  PROVE  Effects
  BY DEF Effects, SignedInOwner, CanSignIn, DefaultsKept

LEMMA SuspendKeepsCalls ==
  ASSUME Sound, NEW r \in Requests, call[r] = None, NEW op, NEW at, NEW auth, NEW on, NEW arg,
         Suspend(r, op, at, auth, on, arg)
  PROVE  CallsKept
  BY DEF CallsKept, Suspend, Sound, TypeOK

LEMMA AnswerKeepsCalls ==
  ASSUME Sound, NEW r \in Requests, call[r] # None, Answer(r)
  PROVE  CallsKept
  BY AnswerCalls DEF CallsKept

LEMMA FailsEffects ==
  ASSUME Sound, NEW r \in Requests, call[r] # None, Fails(r)
  PROVE  Effects
  BY AnswerKeepsCalls, QuietEffects DEF Fails, tables, DefaultsKept

LEMMA RequestEffects ==
  ASSUME Sound, NEW r \in Requests, AccountRequest(r) \/ HouseholdRequest(r)
  PROVE  Effects
  <1>1. ASSUME CallsKept, UNCHANGED tables
        PROVE  Effects
    BY <1>1, QuietEffects DEF tables, DefaultsKept
  <1>2. ASSUME NEW s \in Requests, NEW role \in Roles \ {"owner"}, CreateInvite(r, s, role)
        PROVE  Effects
    <2>1. call[r] = None /\ invites[r] = None /\ HasUsers
      BY <1>2, SignedIn DEF CreateInvite, Arrives, Sound, RowsAreMadeLast, HasUsers
    <2>2. invites'[r].used = 0 /\ \A q \in Requests \ {r} : invites'[q] = invites[q]
      BY <1>2 DEF CreateInvite, Sound, TypeOK
    <2>3. CallsKept
      BY <1>2, <2>1 DEF CreateInvite, CallsKept, Sound, TypeOK
    <2>4. UNCHANGED <<users, profiles>>
      BY <1>2 DEF CreateInvite
    <2>5. QED
      BY <2>1, <2>2, <2>3, <2>4 DEF Effects, SignedInOwner, CanSignIn
  <1>3. CASE AccountRequest(r)
    <2>1. ASSUME NEW password \in Passwords, SetupOwner(r, password)
          PROVE  Effects
      BY <1>1, <2>1, SuspendKeepsCalls DEF SetupOwner, Arrives
    <2>2. ASSUME NEW i \in Requests, NEW password \in Passwords, AcceptInvite(r, i, password)
          PROVE  Effects
      BY <1>1, <2>2, SuspendKeepsCalls DEF AcceptInvite, Arrives
    <2>3. ASSUME NEW u \in Requests, Login(r, u)
          PROVE  Effects
      BY <1>1, <2>3, SuspendKeepsCalls DEF Login, Arrives
    <2>4. ASSUME NEW s \in Requests, NEW role \in Roles, CreateAccount(r, s, role)
          PROVE  Effects
      BY <1>1, <2>4, SuspendKeepsCalls DEF CreateAccount, Arrives
    <2>5. ASSUME NEW s \in Requests, NEW password \in Passwords, ChangePassword(r, s, password)
          PROVE  Effects
      BY <1>1, <2>5, SuspendKeepsCalls DEF ChangePassword, Arrives
    <2>6. QED
      BY <1>2, <1>3, <2>1, <2>2, <2>3, <2>4, <2>5 DEF AccountRequest
  <1>4. CASE HouseholdRequest(r)
    <2>1. ASSUME NEW s \in Requests, NEW gate \in Gates, CreateProfile(r, s, gate)
          PROVE  Effects
      BY <1>1, <2>1, SuspendKeepsCalls DEF CreateProfile, Arrives
    <2>2. ASSUME NEW s \in Requests, NEW p \in Requests, SwitchProfile(r, s, p)
          PROVE  Effects
      BY <1>1, <2>2, SuspendKeepsCalls DEF SwitchProfile, Arrives
    <2>3. ASSUME NEW s \in Requests, NEW p \in Requests, NEW gate \in Gates,
                 GuardProfile(r, s, p, gate)
          PROVE  Effects
      BY <1>1, <2>3, SuspendKeepsCalls DEF GuardProfile, Arrives
    <2>4. QED
      BY <1>4, <2>1, <2>2, <2>3 DEF HouseholdRequest
  <1>5. QED
    BY <1>3, <1>4

LEMMA MakingAccounts ==
  ASSUME Sound, NEW r \in Requests, FinishSetup(r) \/ FinishInvite(r) \/ FinishAccount(r)
  PROVE  \E role \in Roles, password \in Passwords : createUserAndProfile(r, role, password)
  <1>1. CaptureOK(call[r])
    BY NothingMadeYet DEF FinishSetup, FinishInvite, FinishAccount, Resumed
  <1>2. CASE FinishSetup(r)
    BY <1>1, <1>2 DEF FinishSetup, Resumed, CaptureOK, Roles
  <1>3. CASE FinishInvite(r)
    <2>1. invites[call[r].on].role \in Roles
      BY <1>1, <1>3 DEF FinishInvite, Resumed, CaptureOK, Sound, TypeOK, InviteRow
    <2>2. QED
      BY <1>1, <1>3, <2>1 DEF FinishInvite, Resumed, CaptureOK
  <1>4. CASE FinishAccount(r)
    BY <1>1, <1>4 DEF FinishAccount, Resumed, CaptureOK
  <1>5. QED
    BY <1>2, <1>3, <1>4

\* The three ways to make an account leave every other row of users alone.
LEMMA MakingEffects ==
  ASSUME Sound, NEW r \in Requests, FinishSetup(r) \/ FinishInvite(r) \/ FinishAccount(r)
  PROVE  /\ Effects
         /\ users[r] = None /\ users'[r] # None
         /\ \A q \in Requests \ {r} : users'[q] = users[q]
         /\ FinishInvite(r) =>
              invites'[call[r].on].used = invites[call[r].on].used + 1
         /\ FinishSetup(r) => SignedInOwner(r)'
  <1>1. /\ call[r] # None /\ call[r].at # "done" /\ Answer(r)
        /\ CaptureOK(call[r])
    BY NothingMadeYet DEF FinishSetup, FinishInvite, FinishAccount, Resumed
  <1>2. \E role \in Roles, password \in Passwords : createUserAndProfile(r, role, password)
    BY <1>1, MakingAccounts
  <1>3. /\ users[r] = None /\ users'[r] # None
        /\ \A q \in Requests \ {r} : users'[q] = users[q] /\ profiles'[q] = profiles[q]
    BY <1>1, <1>2, AccountMade
  <1>4. ASSUME FinishInvite(r)
        PROVE  Effects /\ invites'[call[r].on].used = invites[call[r].on].used + 1
    <2> DEFINE i == call[r].on
    <2>1. /\ i \in Requests /\ invites[i] # None
          /\ invites' = [invites EXCEPT ![i].used = @ + 1]
      BY <1>1, <1>4 DEF FinishInvite, Resumed, CaptureOK
    <2>2. /\ invites'[i] # None /\ invites'[i].used = invites[i].used + 1
          /\ \A q \in Requests \ {i} : invites'[q] = invites[q]
      <3>1. /\ [invites[i] EXCEPT !.used = @ + 1] \in InviteRow
            /\ [invites[i] EXCEPT !.used = @ + 1].used = invites[i].used + 1
        BY <1>4, <2>1, MaxUsesAssumption DEF FinishInvite, InviteOpen, Sound, TypeOK, InviteRow
      <3>2. QED
        BY <2>1, <3>1, RowsAreNotMarks DEF Sound, TypeOK
    <2>3. Effects
      BY <1>1, <1>3, <1>4, <2>1, <2>2, AnswerKeepsCalls DEF Effects, SignedInOwner, CanSignIn
    <2>4. QED
      BY <2>2, <2>3
  <1>5. ASSUME FinishSetup(r) \/ FinishAccount(r)
        PROVE  Effects
    <2>1. UNCHANGED invites
      BY <1>5 DEF FinishSetup, FinishAccount
    <2>2. QED
      BY <1>1, <1>3, <1>5, <2>1, AnswerKeepsCalls DEF Effects, SignedInOwner, CanSignIn
  <1>6. ASSUME FinishSetup(r)
        PROVE  SignedInOwner(r)'
    <2>1. createUserAndProfile(r, "owner", call[r].arg) /\ call[r].arg \in Passwords
          /\ "owner" \in Roles
      BY <1>1, <1>6 DEF FinishSetup, Resumed, CaptureOK, Roles
    <2>2. QED
      BY <1>1, <2>1, AccountMade DEF SignedInOwner, CanSignIn
  <1>7. QED
    BY <1>3, <1>4, <1>5, <1>6

\* A change that makes no account and leaves roles, disabled accounts and the
\* disabled default profiles alone.
LEMMA SameOwnersEffects ==
  ASSUME Sound, CallsKept, DefaultsKept, UNCHANGED invites,
         \A u \in Requests :
           /\ users[u] = None => users'[u] = None
           /\ users[u] # None =>
                /\ users'[u] # None
                /\ users'[u].role = users[u].role
                /\ users'[u].disabled = users[u].disabled
  PROVE  Effects
  BY DEF Effects, SignedInOwner, CanSignIn, DefaultsKept

LEMMA AwaitedEffects ==
  ASSUME Sound, NEW r \in Requests, AwaitedStep(r)
  PROVE  Effects
  <1>1. CASE FinishSetup(r) \/ FinishInvite(r) \/ FinishAccount(r)
    BY <1>1, MakingEffects
  <1>2. CASE SetupTooLate(r) \/ InviteTooLate(r) \/ ActorDeleted(r) \/ LoginRefused(r)
    BY <1>2, FailsEffects DEF SetupTooLate, InviteTooLate, ActorDeleted, LoginRefused, Resumed
  <1>3. CASE FinishLogin(r)
    BY <1>3, QuietEffects, AnswerKeepsCalls DEF FinishLogin, Resumed, DefaultsKept
  <1>4. CASE FinishPassword(r)
    <2> DEFINE u == call[r].auth.user
               row == [users[u] EXCEPT !.password = call[r].arg]
    <2>1. /\ call[r] # None /\ call[r].arg \in Passwords
          /\ u \in Requests /\ users[u] # None
      BY <1>4, NothingMadeYet DEF FinishPassword, Resumed, CaptureOK, AuthContext
    <2>2. /\ Answer(r) /\ UNCHANGED <<profiles, invites>>
          /\ users' = [users EXCEPT ![u].password = call[r].arg]
      BY <1>4 DEF FinishPassword
    <2>3. row \in UserRow /\ row.role = users[u].role /\ row.disabled = users[u].disabled
      BY <2>1 DEF Sound, TypeOK, UserRow
    <2>4. /\ users'[u] = row /\ users'[u] # None
          /\ \A q \in Requests \ {u} : users'[q] = users[q]
      BY <2>1, <2>2, <2>3, UserChanged
    <2>5. QED
      BY <2>1, <2>2, <2>3, <2>4, AnswerKeepsCalls, SameOwnersEffects DEF DefaultsKept
  <1>5. QED
    BY <1>1, <1>2, <1>3, <1>4 DEF AwaitedStep

LEMMA HouseholdStepEffects ==
  ASSUME Sound, NEW r \in Requests, HouseholdStep(r)
  PROVE  Effects
  <1>1. CASE FinishProfile(r)
    <2>1. call[r] # None /\ Answer(r) /\ UNCHANGED <<users, invites>> /\ users[r] = None
      BY <1>1, NothingMadeYet DEF FinishProfile, Resumed
    <2>2. \A q \in Requests \ {r} : profiles'[q] = profiles[q]
      BY <1>1 DEF FinishProfile, Sound, TypeOK
    <2>3. QED
      BY <2>1, <2>2, QuietEffects, AnswerKeepsCalls DEF DefaultsKept
  <1>2. CASE ProfileRefused(r) \/ ProfileDeleted(r)
    BY <1>2, FailsEffects DEF ProfileRefused, ProfileDeleted, Resumed
  <1>3. CASE FinishSwitch(r)
    BY <1>3, QuietEffects, AnswerKeepsCalls DEF FinishSwitch, Activate, Resumed, DefaultsKept
  <1>4. CASE FinishGuard(r)
    <2> DEFINE p == call[r].on
               row == [profiles[p] EXCEPT !.gated = TRUE]
    <2>1. /\ call[r] # None /\ p \in Requests /\ Stored(p)
          /\ Answer(r) /\ UNCHANGED <<users, invites>>
          /\ profiles' = [profiles EXCEPT ![p].gated = TRUE]
      BY <1>4, NothingMadeYet DEF FinishGuard, Resumed, CaptureOK
    <2>2. /\ row \in ProfileRow /\ row.user = profiles[p].user
          /\ row.disabled = profiles[p].disabled
      BY <2>1, ProfileOwner DEF ProfileRow
    <2>3. profiles'[p] = row /\ \A q \in Requests \ {p} : profiles'[q] = profiles[q]
      BY <2>1, <2>2, ProfileChanged
    <2>4. QED
      BY <2>1, <2>2, <2>3, QuietEffects, AnswerKeepsCalls DEF DefaultsKept
  <1>5. QED
    BY <1>1, <1>2, <1>3, <1>4 DEF HouseholdStep

\* Nobody disables an owner, so only a change of role takes one away.
LEMMA DisabledEffects ==
  ASSUME Sound, NEW s \in Requests, NEW p \in Requests, NEW disabled \in BOOLEAN,
         SetDisabled(s, p, disabled)
  PROVE  Effects
  <1>1. /\ users[profiles[p].user].role # "owner"
        /\ UNCHANGED <<sessions, invites, call>>
    BY DEF SetDisabled
  <1>2. ASSUME NEW u \in Requests, SignedInOwner(u)
        PROVE  SignedInOwner(u)'
    <2>1. users[u] # None /\ users[u].role = "owner" /\ profiles[u].user = u
      BY <1>2 DEF SignedInOwner, CanSignIn, Sound, DefaultsStay
    <2>2. u # profiles[p].user /\ u # p
      BY <1>1, <2>1
    <2>3. users'[u] = users[u] /\ profiles'[u] = profiles[u]
      BY <2>2, DisabledSet
    <2>4. QED
      BY <1>2, <2>3 DEF SignedInOwner, CanSignIn
  <1>3. QED
    BY <1>1, <1>2, DisabledSet DEF Effects, CallsKept

LEMMA AccountStepEffects ==
  ASSUME Sound, NEW s \in Requests, AccountStep(s)
  PROVE  Effects
  <1>1. ASSUME NEW S, EndSessions(S)
        PROVE  Effects
    BY <1>1, QuietEffects DEF EndSessions, CallsKept, DefaultsKept
  <1>2. ASSUME NEW i \in Requests, EndInvite(i)
        PROVE  Effects
    <2>1. invites[i] # None /\ UNCHANGED <<users, profiles, sessions, call>>
      BY <1>2 DEF EndInvite
    <2>2. QED
      BY <1>2, <2>1, EndInviteSound DEF Effects, CallsKept, SignedInOwner, CanSignIn
  <1>3. CASE Logout(s)
    BY <1>1, <1>3 DEF Logout
  <1>4. CASE InviteExpires(s)
    BY <1>2, <1>4 DEF InviteExpires
  <1>5. ASSUME NEW includeCurrent \in BOOLEAN, RevokeAllSessions(s, includeCurrent)
        PROVE  Effects
    BY <1>1, <1>5 DEF RevokeAllSessions
  <1>6. ASSUME NEW t \in Requests, RevokeSession(s, t) \/ RevokeInvite(s, t)
        PROVE  Effects
    BY <1>1, <1>2, <1>6 DEF RevokeSession, RevokeInvite
  <1>7. ASSUME NEW p \in Requests, NEW disabled \in BOOLEAN, PatchDisabled(s, p, disabled)
        PROVE  Effects
    BY <1>7, DisabledEffects DEF PatchDisabled
  <1>8. ASSUME NEW p \in Requests, DeleteProfile(s, p)
        PROVE  Effects
    BY <1>8, DisabledEffects DEF DeleteProfile
  <1>9. ASSUME NEW p \in Requests, NEW role \in Roles, SetRole(s, p, role)
        PROVE  Effects
    <2>1. UNCHANGED <<profiles, sessions, invites, call>>
      BY <1>9 DEF SetRole
    <2>2. QED
      BY <1>9, <2>1, RoleSet DEF Effects, CallsKept, SignedInOwner, CanSignIn
  <1>10. ASSUME NEW password \in Passwords, RecoverOwner(s, password)
         PROVE  Effects
    <2>1. CallsKept
      <3> SUFFICES ASSUME NEW q \in Requests, call[q] # None
                   PROVE  /\ call'[q] # None
                          /\ call'[q].op = call[q].op /\ call'[q].on = call[q].on
        BY DEF CallsKept
      <3>1. call[q] \in Call
        BY DEF Sound, TypeOK
      <3>2. call'[q] \in {call[q], Answered(call[q])}
        BY <1>10 DEF RecoverOwner
      <3>3. QED
        BY <3>1, <3>2, AnsweredCall
    <2>2. UNCHANGED <<profiles, invites>>
      BY <1>10 DEF RecoverOwner
    <2>3. QED
      BY <1>10, <2>1, <2>2, RecoverSound, SameOwnersEffects DEF DefaultsKept
  <1>11. QED
    BY <1>3, <1>4, <1>5, <1>6, <1>7, <1>8, <1>9, <1>10 DEF AccountStep

LEMMA HouseholdChangeEffects ==
  ASSUME Sound, NEW s \in Requests, HouseholdChange(s)
  PROVE  Effects
  <1>1. PICK p \in Requests :
          \/ DeleteAccountProfile(s, p)
          \/ SwitchFreely(s, p)
          \/ ClearPin(s, p)
          \/ \E kid \in BOOLEAN : SetMaturity(s, p, kid)
    BY DEF HouseholdChange
  <1>2. CASE DeleteAccountProfile(s, p)
    <2>1. UNCHANGED <<users, invites, call>> /\ users[p] = None
      BY <1>2 DEF DeleteAccountProfile, IsDefault
    <2>2. QED
      BY <1>2, <2>1, ProfileGone, QuietEffects DEF CallsKept, DefaultsKept
  <1>3. CASE SwitchFreely(s, p)
    BY <1>3, QuietEffects DEF SwitchFreely, Activate, CallsKept, DefaultsKept
  <1>4. CASE ClearPin(s, p)
    <2>1. UNCHANGED <<users, invites, call>>
      BY <1>4 DEF ClearPin
    <2>2. QED
      BY <1>4, <2>1, GateCleared, QuietEffects DEF CallsKept, DefaultsKept
  <1>5. ASSUME NEW kid \in BOOLEAN, SetMaturity(s, p, kid)
        PROVE  Effects
    <2>1. UNCHANGED <<users, invites, call>>
      BY <1>5 DEF SetMaturity
    <2>2. QED
      BY <1>5, <2>1, MaturitySet, QuietEffects DEF CallsKept, DefaultsKept
  <1>6. QED
    BY <1>1, <1>2, <1>3, <1>4, <1>5

LEMMA StepEffects ==
  ASSUME Sound, [HouseholdNext]_vars
  PROVE  Effects
  <1>1. CASE UNCHANGED vars
    BY <1>1, QuietEffects DEF vars, tables, CallsKept, DefaultsKept
  <1>2. CASE HouseholdNext
    <2>1. \/ \E r \in Requests : HouseholdStep(r)
          \/ \E r \in Requests : AwaitedStep(r) \/ AccountRequest(r) \/ AccountStep(r)
          \/ \E r \in Requests : HouseholdRequest(r) \/ HouseholdChange(r)
      BY <1>2 DEF HouseholdNext, Next
    <2>2. QED
      BY <2>1, HouseholdStepEffects, AwaitedEffects, RequestEffects, AccountStepEffects,
         HouseholdChangeEffects
  <1>3. QED
    BY <1>1, <1>2

-----------------------------------------------------------------------------
(* One owner is set up. *)

SetUp(r) == Resumed(r, "setup", "done") /\ users[r] # None

SetupUnique == \A q, r \in Requests : SetUp(q) /\ SetUp(r) => q = r

LEMMA SetupStep ==
  ASSUME Sound, SetupUnique, [HouseholdNext]_vars
  PROVE  SetupUnique'
  <1>1. Effects
    BY StepEffects
  <1>2. ASSUME NEW q \in Requests, SetUp(q)', users[q] # None
        PROVE  SetUp(q)
    BY <1>1, <1>2 DEF Sound, RowsAreMadeLast, SetUp, Resumed, Effects, CallsKept
  <1>3. ASSUME NEW q \in Requests, SetUp(q)', users[q] = None
        PROVE  \A r \in Requests : users'[r] # None => r = q
    <2>1. FinishSetup(q) \/ FinishInvite(q) \/ FinishAccount(q)
      BY <1>1, <1>3 DEF Effects, SetUp
    <2>2. call[q] # None /\ call[q].op = "setup"
      BY <1>1, <1>3, <2>1
      DEF FinishSetup, FinishInvite, FinishAccount, SetUp, Resumed, Effects, CallsKept
    <2>3. FinishSetup(q) /\ ~HasUsers
      BY <2>1, <2>2 DEF FinishSetup, FinishInvite, FinishAccount, Resumed
    <2>4. QED
      BY <2>3, MakingEffects DEF HasUsers
  <1>4. QED
    BY <1>2, <1>3 DEF SetupUnique, SetUp

\* However many first visitors overlap, one of them becomes the owner.
THEOREM OneOwnerIsSetUp == HouseholdSpec => []OneSetupOwner
  <1>1. Init => SetupUnique
    BY DEF Init, SetupUnique, SetUp
  <1>2. Sound /\ SetupUnique /\ [HouseholdNext]_vars => SetupUnique'
    BY SetupStep
  <1>3. SetupUnique => OneSetupOwner
    <2> SUFFICES ASSUME SetupUnique
                 PROVE  Cardinality({r \in Requests : SetUp(r)}) <= 1
      BY DEF OneSetupOwner, SetUp
    <2>1. CASE {r \in Requests : SetUp(r)} = {}
      BY <2>1, FS_EmptySet
    <2>2. ASSUME NEW q \in Requests, SetUp(q)
          PROVE  Cardinality({r \in Requests : SetUp(r)}) <= 1
      <3>1. {r \in Requests : SetUp(r)} = {q}
        BY <2>2 DEF SetupUnique
      <3>2. Cardinality({q}) = 1
        BY FS_Singleton
      <3>3. QED
        BY <3>1, <3>2
    <2>3. QED
      BY <2>1, <2>2
  <1>4. QED
    BY <1>1, <1>2, <1>3, AlwaysSound, PTL DEF HouseholdSpec

-----------------------------------------------------------------------------
(* The uses of an invite. *)

AcceptedWith(i) ==
  {r \in Requests : Resumed(r, "invite", "done") /\ call[r].on = i /\ users[r] # None}

UsesOf(i) ==
  /\ IsFiniteSet(AcceptedWith(i))
  /\ invites[i] = None => AcceptedWith(i) = {}
  /\ invites[i] # None => Cardinality(AcceptedWith(i)) = invites[i].used

LEMMA UsesStep ==
  ASSUME Sound, [HouseholdNext]_vars, NEW i \in Requests, UsesOf(i)
  PROVE  UsesOf(i)'
  <1>1. Effects /\ Sound'
    BY StepEffects, StepSound
  <1>2. ASSUME NEW q \in AcceptedWith(i)
        PROVE  q \in AcceptedWith(i)'
    BY <1>1 DEF Sound, RowsAreMadeLast, AcceptedWith, Resumed, Effects, CallsKept
  <1>3. ASSUME NEW q \in Requests, q \in AcceptedWith(i)', users[q] # None
        PROVE  q \in AcceptedWith(i)
    BY <1>1, <1>3 DEF Sound, RowsAreMadeLast, AcceptedWith, Resumed, Effects, CallsKept
  <1>4. ASSUME NEW q \in Requests, q \in AcceptedWith(i)', users[q] = None
        PROVE  FinishInvite(q) /\ call[q].on = i
    <2>1. FinishSetup(q) \/ FinishInvite(q) \/ FinishAccount(q)
      BY <1>1, <1>4 DEF Effects, AcceptedWith
    <2>2. call[q] # None /\ call[q].op = "invite" /\ call[q].on = i
      BY <1>1, <1>4, <2>1
      DEF FinishSetup, FinishInvite, FinishAccount, AcceptedWith, Resumed, Effects, CallsKept
    <2>3. QED
      BY <2>1, <2>2 DEF FinishSetup, FinishAccount, Resumed
  <1>5. ASSUME NEW r \in Requests, FinishInvite(r), call[r].on = i
        PROVE  UsesOf(i)'
    <2>1. /\ users[r] = None /\ users'[r] # None
          /\ \A q \in Requests \ {r} : users'[q] = users[q]
          /\ invites'[i].used = invites[i].used + 1
      BY <1>5, MakingEffects
    <2>2. invites[i] # None /\ invites'[i] # None /\ invites[i].used \in Nat
      BY <1>1, <1>5, MaxUsesAssumption
      DEF FinishInvite, InviteOpen, Effects, Sound, TypeOK, InviteRow
    <2>3. r \in AcceptedWith(i)' /\ r \notin AcceptedWith(i)
      BY <1>1, <1>5, <2>1
      DEF AcceptedWith, FinishInvite, Resumed, Effects, CallsKept, Sound, RowsAreMadeLast
    <2>4. AcceptedWith(i)' = AcceptedWith(i) \cup {r}
      <3>1. AcceptedWith(i)' \subseteq Requests
        BY DEF AcceptedWith
      <3>2. ASSUME NEW q \in AcceptedWith(i)'
            PROVE  q \in AcceptedWith(i) \cup {r}
        <4>1. q \in Requests /\ users'[q] # None
          BY <3>1 DEF AcceptedWith
        <4>2. QED
          BY <1>3, <2>1, <4>1
      <3>3. QED
        BY <1>2, <2>3, <3>2
    <2>5. /\ IsFiniteSet(AcceptedWith(i) \cup {r})
          /\ Cardinality(AcceptedWith(i) \cup {r}) = Cardinality(AcceptedWith(i)) + 1
      <3>1. IsFiniteSet(AcceptedWith(i))
        BY DEF UsesOf
      <3>2. QED
        BY <2>3, <3>1, FS_AddElement, Zenon
    <2>6. Cardinality(AcceptedWith(i)) = invites[i].used
      BY <2>2 DEF UsesOf
    <2>7. QED
      BY <2>1, <2>2, <2>4, <2>5, <2>6 DEF UsesOf
  <1>6. ASSUME \A r \in Requests : ~(FinishInvite(r) /\ call[r].on = i)
        PROVE  UsesOf(i)'
    <2>1. AcceptedWith(i)' = AcceptedWith(i)
      <3>1. AcceptedWith(i)' \subseteq Requests
        BY DEF AcceptedWith
      <3>2. QED
        BY <1>2, <1>3, <1>4, <1>6, <3>1
    <2>2. CASE invites[i] # None
      <3>1. invites'[i] # None /\ invites'[i].used = invites[i].used
        BY <1>1, <1>6, <2>2 DEF Effects
      <3>2. QED
        BY <2>1, <2>2, <3>1 DEF UsesOf
    <2>3. CASE invites[i] = None
      <3>1. AcceptedWith(i) = {} /\ Cardinality(AcceptedWith(i)) = 0
        BY <2>3, FS_EmptySet DEF UsesOf
      <3>2. invites'[i] # None => invites'[i].used = 0
        BY <1>1, <2>3 DEF Effects
      <3>3. QED
        BY <2>1, <3>1, <3>2 DEF UsesOf
    <2>4. QED
      BY <2>2, <2>3
  <1>7. QED
    BY <1>5, <1>6

\* The accounts made with an invite are the uses it counts, at most MaxUses.
THEOREM UsesCounted == HouseholdSpec => []InviteUsesCounted
  <1> DEFINE Counted == \A i \in Requests : UsesOf(i)
  <1>1. Init => Counted
    <2> SUFFICES ASSUME Init, NEW i \in Requests
                 PROVE  UsesOf(i)
      OBVIOUS
    <2>1. AcceptedWith(i) = {}
      BY DEF Init, AcceptedWith
    <2>2. QED
      BY <2>1, FS_EmptySet DEF Init, UsesOf
  <1>2. Sound /\ Counted /\ [HouseholdNext]_vars => Counted'
    BY UsesStep
  <1>3. Sound /\ Counted => InviteUsesCounted
    <2> SUFFICES ASSUME Sound, Counted, NEW i \in Requests, invites[i] # None
                 PROVE  /\ Cardinality(AcceptedWith(i)) = invites[i].used
                        /\ invites[i].used <= MaxUses
      BY DEF InviteUsesCounted, AcceptedWith
    <2>1. invites[i].used \in 0 .. MaxUses
      BY DEF Sound, TypeOK, InviteRow
    <2>2. QED
      BY <2>1, MaxUsesAssumption DEF UsesOf
  <1> HIDE DEF Counted
  <1>4. QED
    BY <1>1, <1>2, <1>3, AlwaysSound, PTL DEF HouseholdSpec

-----------------------------------------------------------------------------
(* There is always an owner who can sign in. *)

\* Before the owner is set up there is no invite.
InvitesNeedUsers == (\E i \in Requests : invites[i] # None) => HasUsers

OwnerStays == AnOwnerCanSignIn /\ InvitesNeedUsers

LEMMA OwnerStep ==
  ASSUME Sound, OwnerStays, [HouseholdNext]_vars
  PROVE  OwnerStays'
  <1>1. Effects
    BY StepEffects
  <1>2. InvitesNeedUsers'
    BY <1>1 DEF OwnerStays, InvitesNeedUsers, Effects, HasUsers
  <1>3. ASSUME NEW u \in Requests, SignedInOwner(u)
        PROVE  \E v \in Requests : SignedInOwner(v)'
    <2>1. CASE SignedInOwner(u)'
      BY <2>1
    <2>2. ASSUME NEW s \in Requests, NEW p \in Requests, NEW role \in Roles,
                 SetRole(s, p, role), profiles[p].user = u
          PROVE  \E v \in Requests : SignedInOwner(v)'
      <3> PICK v \in Requests : v = sessions[s].user
        BY <2>2, SignedIn DEF SetRole, Sound
      <3>1. Authenticated(s) /\ UNCHANGED profiles
        BY <2>2 DEF SetRole
      <3>2. readAuth(s).role = users[v].role /\ readAuth(s).user = v
        BY <3>1, SignedIn DEF Sound
      <3>3. v # u
        BY <2>2, <3>2 DEF SetRole
      <3>4. users[v].role = "owner"
        BY <1>3, <2>2, <3>2 DEF SetRole, SignedInOwner, AdminTier
      <3>5. SignedInOwner(v)
        BY <3>1, <3>4 DEF Authenticated, SignedInOwner
      <3>6. users'[v] = users[v]
        BY <2>2, <3>2, <3>3, RoleSet
      <3>7. SignedInOwner(v)'
        BY <3>1, <3>5, <3>6 DEF SignedInOwner, CanSignIn
      <3>8. QED
        BY <3>7
    <2>3. QED
      BY <1>1, <1>3, <2>1, <2>2 DEF Effects
  <1>4. ASSUME ~HasUsers, NEW q \in Requests, users'[q] # None
        PROVE  SignedInOwner(q)'
    <2>1. FinishSetup(q) \/ FinishInvite(q) \/ FinishAccount(q)
      BY <1>1, <1>4 DEF Effects, HasUsers
    <2>2. ~FinishInvite(q)
      <3>1. \A i \in Requests : invites[i] = None
        BY <1>4 DEF OwnerStays, InvitesNeedUsers
      <3>2. QED
        BY <3>1, NothingMadeYet DEF FinishInvite, Resumed, CaptureOK
    <2>3. ~FinishAccount(q)
      BY <1>4, NothingMadeYet DEF FinishAccount, Resumed, CaptureOK, HasUsers, AuthContext
    <2>4. QED
      BY <2>1, <2>2, <2>3, MakingEffects
  <1>5. AnOwnerCanSignIn'
    <2>1. CASE HasUsers
      BY <1>3, <2>1 DEF OwnerStays, AnOwnerCanSignIn, SignedInOwner
    <2>2. CASE ~HasUsers
      BY <1>4, <2>2 DEF AnOwnerCanSignIn, SignedInOwner, HasUsers
    <2>3. QED
      BY <2>1, <2>2
  <1>6. QED
    BY <1>2, <1>5 DEF OwnerStays

\* Whatever becomes of roles, accounts and profiles, an owner can sign in.
THEOREM OwnerCanSignIn == HouseholdSpec => []AnOwnerCanSignIn
  <1>1. Init => OwnerStays
    BY DEF Init, OwnerStays, AnOwnerCanSignIn, InvitesNeedUsers, HasUsers
  <1>2. Sound /\ OwnerStays /\ [HouseholdNext]_vars => OwnerStays'
    BY OwnerStep
  <1>3. OwnerStays => AnOwnerCanSignIn
    BY DEF OwnerStays
  <1>4. QED
    BY <1>1, <1>2, <1>3, AlwaysSound, PTL DEF HouseholdSpec

-----------------------------------------------------------------------------
(* In public mode every profile is guarded. *)

Guarded(p) == Stored(p) => profiles[p].gated

AllGuarded == \A p \in Requests : Guarded(p)

\* The account that is made comes with a guarded profile.
LEMMA MakingGuards ==
  ASSUME Sound, AllGuarded, PublicMode, NEW r \in Requests,
         FinishSetup(r) \/ FinishInvite(r) \/ FinishAccount(r)
  PROVE  AllGuarded'
  <1>1. call[r] # None /\ call[r].at # "done" /\ CaptureOK(call[r])
    BY NothingMadeYet DEF FinishSetup, FinishInvite, FinishAccount, Resumed
  <1>2. \E role \in Roles, password \in Passwords : createUserAndProfile(r, role, password)
    BY <1>1, MakingAccounts
  <1>3. /\ profiles'[r].gated = PublicMode
        /\ \A q \in Requests \ {r} : profiles'[q] = profiles[q]
    BY <1>1, <1>2, AccountMade
  <1>4. profiles'[r].gated
    BY <1>3
  <1>5. QED
    BY <1>3, <1>4 DEF AllGuarded, Guarded, Stored

LEMMA GuardStep ==
  ASSUME Sound, AllGuarded, PublicMode, [HouseholdNext]_vars
  PROVE  AllGuarded'
  <1>1. ASSUME UNCHANGED profiles
        PROVE  AllGuarded'
    BY <1>1 DEF AllGuarded, Guarded, Stored
  <1>2. ASSUME NEW p \in Requests, profiles'[p].gated = profiles[p].gated, Stored(p),
               \A q \in Requests \ {p} : profiles'[q] = profiles[q]
        PROVE  AllGuarded'
    <2>1. profiles'[p].gated
      BY <1>2 DEF AllGuarded, Guarded
    <2>2. QED
      BY <1>2, <2>1 DEF AllGuarded, Guarded, Stored
  <1>3. ASSUME NEW r \in Requests, HouseholdStep(r)
        PROVE  AllGuarded'
    <2>1. CASE FinishProfile(r)
      <3> DEFINE profile == [user |-> call[r].auth.user, disabled |-> FALSE, kid |-> FALSE,
                             gated |-> call[r].arg # "none"]
      <3>1. profiles' = [profiles EXCEPT ![r] = profile]
        BY <2>1 DEF FinishProfile
      <3>2. call[r].arg = "password"
        BY <2>1, NothingMadeYet DEF FinishProfile, Resumed, CaptureOK
      <3>3. profile.gated
        BY <3>2
      <3>4. profiles'[r] = profile /\ \A q \in Requests \ {r} : profiles'[q] = profiles[q]
        BY <3>1 DEF Sound, TypeOK
      <3>5. QED
        BY <3>3, <3>4 DEF AllGuarded, Guarded, Stored
    <2>2. CASE FinishGuard(r)
      <3> DEFINE p == call[r].on
                 row == [profiles[p] EXCEPT !.gated = TRUE]
      <3>1. /\ p \in Requests /\ Stored(p)
            /\ profiles' = [profiles EXCEPT ![p].gated = TRUE]
        BY <2>2, NothingMadeYet DEF FinishGuard, Resumed, CaptureOK
      <3>2. row \in ProfileRow /\ row.user = profiles[p].user /\ row.gated
        BY <3>1, ProfileOwner DEF ProfileRow
      <3>3. profiles'[p] = row /\ \A q \in Requests \ {p} : profiles'[q] = profiles[q]
        BY <3>1, <3>2, ProfileChanged
      <3>4. QED
        BY <3>2, <3>3 DEF AllGuarded, Guarded, Stored
    <2>3. CASE ProfileRefused(r) \/ FinishSwitch(r) \/ ProfileDeleted(r)
      BY <1>1, <2>3
      DEF ProfileRefused, FinishSwitch, ProfileDeleted, Fails, Activate, tables
    <2>4. QED
      BY <1>3, <2>1, <2>2, <2>3 DEF HouseholdStep
  <1>4. ASSUME NEW r \in Requests, AwaitedStep(r)
        PROVE  AllGuarded'
    <2>1. CASE FinishSetup(r) \/ FinishInvite(r) \/ FinishAccount(r)
      BY <2>1, MakingGuards
    <2>2. CASE ~(FinishSetup(r) \/ FinishInvite(r) \/ FinishAccount(r))
      BY <1>1, <1>4, <2>2
      DEF AwaitedStep, SetupTooLate, InviteTooLate, ActorDeleted, LoginRefused, Fails, tables,
          FinishLogin, FinishPassword
    <2>3. QED
      BY <2>1, <2>2
  <1>5. ASSUME NEW r \in Requests, AccountRequest(r) \/ HouseholdRequest(r)
        PROVE  AllGuarded'
    BY <1>1, <1>5
    DEF AccountRequest, HouseholdRequest, SetupOwner, AcceptInvite, Login, CreateAccount,
        ChangePassword, CreateInvite, CreateProfile, SwitchProfile, GuardProfile, tables
  <1>6. ASSUME NEW s \in Requests, AccountStep(s)
        PROVE  AllGuarded'
    <2>1. ASSUME NEW p \in Requests, NEW disabled \in BOOLEAN, SetDisabled(s, p, disabled)
          PROVE  AllGuarded'
      BY <1>2, <2>1, DisabledSet
    <2>2. \/ UNCHANGED profiles
          \/ \E p \in Requests, disabled \in BOOLEAN : SetDisabled(s, p, disabled)
      BY <1>6
      DEF AccountStep, Logout, InviteExpires, RevokeAllSessions, RevokeSession, RevokeInvite,
          EndSessions, EndInvite, PatchDisabled, DeleteProfile, SetRole, RecoverOwner
    <2>3. QED
      BY <1>1, <2>1, <2>2
  <1>7. ASSUME NEW s \in Requests, HouseholdChange(s)
        PROVE  AllGuarded'
    <2>1. PICK p \in Requests :
            \/ DeleteAccountProfile(s, p)
            \/ SwitchFreely(s, p)
            \/ ClearPin(s, p)
            \/ \E kid \in BOOLEAN : SetMaturity(s, p, kid)
      BY <1>7 DEF HouseholdChange
    <2>2. CASE DeleteAccountProfile(s, p)
      BY <2>2, ProfileGone DEF AllGuarded, Guarded, Stored
    <2>3. CASE SwitchFreely(s, p)
      BY <1>1, <2>3 DEF SwitchFreely, Activate
    <2>4. CASE ClearPin(s, p)
      BY <2>4 DEF ClearPin
    <2>5. ASSUME NEW kid \in BOOLEAN, SetMaturity(s, p, kid)
          PROVE  AllGuarded'
      <3>1. Stored(p)
        BY <2>5 DEF SetMaturity, LiveProfiles, ProfilesOf
      <3>2. QED
        BY <1>2, <2>5, <3>1, MaturitySet
    <2>6. QED
      BY <2>1, <2>2, <2>3, <2>4, <2>5
  <1>8. CASE UNCHANGED vars
    BY <1>1, <1>8 DEF vars, tables
  <1>9. CASE HouseholdNext
    BY <1>3, <1>4, <1>5, <1>6, <1>7, <1>9 DEF HouseholdNext, Next
  <1>10. QED
    BY <1>8, <1>9

\* In public mode every profile is guarded, whatever overlaps.
THEOREM PublicGuarded == HouseholdSpec => []PublicProfilesAreGuarded
  <1> DEFINE Public == PublicMode => AllGuarded
  <1>1. Init => Public
    BY DEF Init, AllGuarded, Guarded, Stored
  <1>2. Sound /\ Public /\ [HouseholdNext]_vars => Public'
    BY GuardStep
  <1>3. Public => PublicProfilesAreGuarded
    BY DEF AllGuarded, Guarded, PublicProfilesAreGuarded
  <1> HIDE DEF Public
  <1>4. QED
    BY <1>1, <1>2, <1>3, AlwaysSound, PTL DEF HouseholdSpec

-----------------------------------------------------------------------------
(* The profile a session acts as. *)

\* A session's active profile is stored and its account's.
ActiveOK(s) ==
  sessions[s] # None /\ sessions[s].active # None =>
    sessions[s].active \in ProfilesOf(sessions[s].user)

ActivesHold == \A s \in Requests : ActiveOK(s)

\* Sessions keep the active profile they have, while stored profiles stay.
ActivesStay ==
  /\ \A s \in Requests : sessions'[s] # None /\ sessions'[s].active # None =>
       /\ sessions[s] # None
       /\ sessions'[s].active = sessions[s].active /\ sessions'[s].user = sessions[s].user
  /\ \A p \in Requests : Stored(p) => Stored(p)' /\ profiles'[p].user = profiles[p].user

LEMMA StayHolds ==
  ASSUME Sound, ActivesHold, ActivesStay
  PROVE  ActivesHold'
  BY DEF ActivesHold, ActiveOK, ActivesStay, ProfilesOf

\* A session switches to a profile of its account.
LEMMA SwitchHolds ==
  ASSUME Sound, ActivesHold, NEW s \in Requests, NEW p \in Requests, sessions[s] # None,
         Activate(s, p), profiles[p].user = sessions[s].user
  PROVE  ActivesHold'
  <1>1. Stored(p) /\ UNCHANGED profiles
    BY DEF Activate
  <1>2. sessions'[s].user = sessions[s].user
    BY Activated DEF SessionsKept
  <1>3. QED
    BY <1>1, <1>2, Activated DEF ActivesHold, ActiveOK, ProfilesOf, Stored

\* Ending sessions changes neither their account nor their profile.
LEMMA EndingStays ==
  ASSUME Sound, UNCHANGED profiles,
         \A t \in Requests :
           /\ sessions[t] = None => sessions'[t] = None
           /\ sessions'[t] \in {sessions[t], [sessions[t] EXCEPT !.ended = TRUE]}
  PROVE  ActivesStay
  <1>1. ASSUME NEW t \in Requests, sessions'[t] # None
        PROVE  /\ sessions[t] # None
               /\ sessions'[t].active = sessions[t].active
               /\ sessions'[t].user = sessions[t].user
    <2>1. sessions[t] # None /\ sessions[t] \in SessionRow
      BY <1>1 DEF Sound, TypeOK
    <2>2. QED
      BY <2>1 DEF SessionRow
  <1>2. QED
    BY <1>1 DEF ActivesStay, Stored

LEMMA ActiveStep ==
  ASSUME Sound, ActivesHold, [HouseholdNext]_vars
  PROVE  ActivesHold'
  <1>1. ASSUME UNCHANGED <<profiles, sessions>>
        PROVE  ActivesHold'
    BY <1>1, StayHolds DEF ActivesStay, Stored
  <1>2. ASSUME UNCHANGED sessions, \A p \in Requests : Stored(p) => Stored(p)',
               ProfilesKept
        PROVE  ActivesHold'
    BY <1>2, StayHolds DEF ActivesStay, ProfilesKept
  <1>3. ASSUME NEW r \in Requests, HouseholdStep(r)
        PROVE  ActivesHold'
    <2>1. CASE FinishProfile(r)
      <3>1. profiles[r] = None /\ UNCHANGED sessions
        BY <2>1, NothingMadeYet DEF FinishProfile, Resumed
      <3>2. \A q \in Requests \ {r} : profiles'[q] = profiles[q]
        BY <2>1 DEF FinishProfile, Sound, TypeOK
      <3>3. QED
        BY <3>1, <3>2, StayHolds DEF ActivesStay, Stored
    <2>2. CASE FinishGuard(r)
      <3> DEFINE p == call[r].on
                 row == [profiles[p] EXCEPT !.gated = TRUE]
      <3>1. /\ p \in Requests /\ Stored(p) /\ UNCHANGED sessions
            /\ profiles' = [profiles EXCEPT ![p].gated = TRUE]
        BY <2>2, NothingMadeYet DEF FinishGuard, Resumed, CaptureOK
      <3>2. row \in ProfileRow /\ row.user = profiles[p].user
        BY <3>1, ProfileOwner DEF ProfileRow
      <3>3. ProfilesKept /\ \A q \in Requests : Stored(q) => Stored(q)'
        BY <3>1, <3>2, ProfileChanged DEF Stored
      <3>4. QED
        BY <1>2, <3>1, <3>3
    <2>3. CASE FinishSwitch(r)
      <3>1. /\ call[r].auth.session \in Requests /\ call[r].on \in Requests
            /\ sessions[call[r].auth.session] # None
            /\ Activate(call[r].auth.session, call[r].on)
            /\ Stored(call[r].on) =>
                 profiles[call[r].on].user = sessions[call[r].auth.session].user
        BY <2>3, NothingMadeYet DEF FinishSwitch, Resumed, CaptureOK, AuthContext
      <3>2. QED
        BY <3>1, SwitchHolds DEF Activate
    <2>4. CASE ProfileRefused(r) \/ ProfileDeleted(r)
      BY <1>1, <2>4 DEF ProfileRefused, ProfileDeleted, Fails, tables
    <2>5. QED
      BY <1>3, <2>1, <2>2, <2>3, <2>4 DEF HouseholdStep
  <1>4. ASSUME NEW r \in Requests, AwaitedStep(r)
        PROVE  ActivesHold'
    <2>1. CASE FinishSetup(r) \/ FinishInvite(r) \/ FinishAccount(r)
      <3>1. call[r] # None /\ call[r].at # "done" /\ CaptureOK(call[r])
        BY <2>1, NothingMadeYet DEF FinishSetup, FinishInvite, FinishAccount, Resumed
      <3>2. \E role \in Roles, password \in Passwords : createUserAndProfile(r, role, password)
        BY <2>1, <3>1, MakingAccounts
      <3>3. profiles[r] = None /\ \A q \in Requests \ {r} : profiles'[q] = profiles[q]
        BY <3>1, <3>2, AccountMade
      <3>4. createSession(r, r) \/ UNCHANGED sessions
        BY <2>1 DEF FinishSetup, FinishInvite, FinishAccount
      <3>5. QED
        BY <3>1, <3>3, <3>4, SessionMade, StayHolds DEF ActivesStay, Stored
    <2>2. CASE FinishLogin(r)
      <3>1. /\ call[r] # None /\ call[r].at # "done" /\ call[r].on \in Requests
            /\ createSession(r, call[r].on) /\ UNCHANGED profiles
        BY <2>2, NothingMadeYet DEF FinishLogin, Resumed, CaptureOK
      <3>2. QED
        BY <3>1, SessionMade, StayHolds DEF ActivesStay, Stored
    <2>3. CASE FinishPassword(r)
      <3>1. \A t \in Requests :
              /\ sessions[t] = None => sessions'[t] = None
              /\ sessions'[t] \in {sessions[t], [sessions[t] EXCEPT !.ended = TRUE]}
        BY <2>3 DEF FinishPassword
      <3>2. UNCHANGED profiles
        BY <2>3 DEF FinishPassword
      <3>3. QED
        BY <3>1, <3>2, EndingStays, StayHolds
    <2>4. CASE SetupTooLate(r) \/ InviteTooLate(r) \/ ActorDeleted(r) \/ LoginRefused(r)
      BY <1>1, <2>4 DEF SetupTooLate, InviteTooLate, ActorDeleted, LoginRefused, Fails, tables
    <2>5. QED
      BY <1>4, <2>1, <2>2, <2>3, <2>4 DEF AwaitedStep
  <1>5. ASSUME NEW r \in Requests, AccountRequest(r) \/ HouseholdRequest(r)
        PROVE  ActivesHold'
    BY <1>1, <1>5
    DEF AccountRequest, HouseholdRequest, SetupOwner, AcceptInvite, Login, CreateAccount,
        ChangePassword, CreateInvite, CreateProfile, SwitchProfile, GuardProfile, tables
  <1>6. ASSUME NEW s \in Requests, AccountStep(s)
        PROVE  ActivesHold'
    <2>1. ASSUME NEW S, EndSessions(S), \A t \in S : t \in Requests => sessions[t] # None
          PROVE  ActivesHold'
      <3>1. \A t \in Requests :
              /\ sessions[t] = None => sessions'[t] = None
              /\ sessions'[t] \in {sessions[t], [sessions[t] EXCEPT !.ended = TRUE]}
        BY <2>1 DEF EndSessions
      <3>2. QED
        BY <2>1, <3>1, EndingStays, StayHolds DEF EndSessions
    <2>2. ASSUME NEW u \in Requests, NEW password \in Passwords, RecoverOwner(u, password)
          PROVE  ActivesHold'
      <3>1. \A t \in Requests :
              /\ sessions[t] = None => sessions'[t] = None
              /\ sessions'[t] \in {sessions[t], [sessions[t] EXCEPT !.ended = TRUE]}
        BY <2>2 DEF RecoverOwner, SessionsOf
      <3>2. UNCHANGED profiles
        BY <2>2 DEF RecoverOwner
      <3>3. QED
        BY <3>1, <3>2, EndingStays, StayHolds
    <2>3. CASE Logout(s) \/ (\E b \in BOOLEAN : RevokeAllSessions(s, b))
               \/ \E t \in Requests : RevokeSession(s, t)
      BY <2>1, <2>3 DEF Logout, RevokeAllSessions, RevokeSession, SessionsOf
    <2>4. ASSUME NEW p \in Requests, NEW disabled \in BOOLEAN, SetDisabled(s, p, disabled)
          PROVE  ActivesHold'
      <3>1. UNCHANGED sessions
        BY <2>4 DEF SetDisabled
      <3>2. ProfilesKept /\ \A q \in Requests : Stored(q) => Stored(q)'
        BY <2>4, DisabledSet DEF Stored
      <3>3. QED
        BY <1>2, <3>1, <3>2
    <2>5. CASE InviteExpires(s) \/ (\E i \in Requests : RevokeInvite(s, i))
               \/ \E p \in Requests, role \in Roles : SetRole(s, p, role)
      BY <1>1, <2>5 DEF InviteExpires, RevokeInvite, EndInvite, SetRole
    <2>6. QED
      BY <1>6, <2>2, <2>3, <2>4, <2>5 DEF AccountStep, PatchDisabled, DeleteProfile
  <1>7. ASSUME NEW s \in Requests, HouseholdChange(s)
        PROVE  ActivesHold'
    <2>1. PICK p \in Requests :
            \/ DeleteAccountProfile(s, p)
            \/ SwitchFreely(s, p)
            \/ ClearPin(s, p)
            \/ \E kid \in BOOLEAN : SetMaturity(s, p, kid)
      BY <1>7 DEF HouseholdChange
    <2>2. CASE DeleteAccountProfile(s, p)
      BY <2>2, ProfileGone DEF ActivesHold, ActiveOK, ProfilesOf, Stored, SessionsKept
    <2>3. CASE SwitchFreely(s, p)
      <3>1. /\ sessions[s] # None /\ Activate(s, p)
            /\ profiles[p].user = sessions[s].user
        BY <2>3 DEF SwitchFreely, Authenticated, LiveProfiles, ProfilesOf
      <3>2. QED
        BY <3>1, SwitchHolds
    <2>4. CASE ClearPin(s, p)
      <3>1. UNCHANGED sessions
        BY <2>4 DEF ClearPin
      <3>2. QED
        BY <1>2, <2>4, <3>1, GateCleared
    <2>5. ASSUME NEW kid \in BOOLEAN, SetMaturity(s, p, kid)
          PROVE  ActivesHold'
      <3>1. UNCHANGED sessions
        BY <2>5 DEF SetMaturity
      <3>2. QED
        BY <1>2, <2>5, <3>1, MaturitySet
    <2>6. QED
      BY <2>1, <2>2, <2>3, <2>4, <2>5
  <1>8. CASE UNCHANGED vars
    BY <1>1, <1>8 DEF vars, tables
  <1>9. CASE HouseholdNext
    BY <1>3, <1>4, <1>5, <1>6, <1>7, <1>9 DEF HouseholdNext, Next
  <1>10. QED
    BY <1>8, <1>9

\* No session acts as a profile that is gone or another account's, and every
\* account has its default profile to fall back to.
THEOREM ActivesExist == HouseholdSpec => []ActiveProfilesExist
  <1>1. Init => ActivesHold
    BY DEF Init, ActivesHold, ActiveOK
  <1>2. Sound /\ ActivesHold /\ [HouseholdNext]_vars => ActivesHold'
    BY ActiveStep
  <1>3. Sound /\ ActivesHold => ActiveProfilesExist
    BY DEF Sound, DefaultsStay, ActivesHold, ActiveOK, ActiveProfilesExist, ProfilesOf
  <1>4. QED
    BY <1>1, <1>2, <1>3, AlwaysSound, PTL DEF HouseholdSpec

-----------------------------------------------------------------------------
(* The limit of profiles. *)

\* A step adds a live profile to an account only where there is room, or by
\* enabling one it has.
LiveStep(u) ==
  \/ LiveProfiles(u)' \subseteq LiveProfiles(u)
  \/ \E p \in Requests :
       /\ LiveProfiles(u)' \subseteq LiveProfiles(u) \cup {p}
       /\ \/ RoomForProfile(u)
          \/ p \in ProfilesOf(u) /\ profiles[p].disabled /\ ~profiles'[p].disabled

LEMMA OneRowLive ==
  ASSUME NEW u \in Requests, NEW p \in Requests,
         \A q \in Requests \ {p} : profiles'[q] = profiles[q]
  PROVE  /\ LiveProfiles(u)' \subseteq LiveProfiles(u) \cup {p}
         /\ p \in LiveProfiles(u)' =>
              Stored(p)' /\ profiles'[p].user = u /\ ~profiles'[p].disabled
  BY DEF LiveProfiles, ProfilesOf, Stored

\* A profile that is changed in place and neither enabled nor disabled.
LEMMA SameRowLive ==
  ASSUME NEW u \in Requests, NEW p \in Requests, ProfilesKept,
         \A q \in Requests \ {p} : profiles'[q] = profiles[q],
         Stored(p)' => profiles'[p].disabled = profiles[p].disabled
  PROVE  LiveProfiles(u)' \subseteq LiveProfiles(u)
  BY OneRowLive DEF ProfilesKept, LiveProfiles, ProfilesOf

\* An account that is made has no profile yet.
LEMMA MakingLive ==
  ASSUME Sound, NEW u \in Requests, NEW r \in Requests,
         FinishSetup(r) \/ FinishInvite(r) \/ FinishAccount(r)
  PROVE  LiveStep(u)
  <1>1. call[r] # None /\ call[r].at # "done"
    BY DEF FinishSetup, FinishInvite, FinishAccount, Resumed
  <1>2. \E role \in Roles, password \in Passwords : createUserAndProfile(r, role, password)
    BY MakingAccounts
  <1>3. /\ profiles'[r].user = r /\ users[r] = None
        /\ \A q \in Requests \ {r} : profiles'[q] = profiles[q]
    BY <1>1, <1>2, AccountMade
  <1>4. CASE u = r
    <2>1. LiveProfiles(u) = {}
      BY <1>3, <1>4, ProfileOwner DEF LiveProfiles, ProfilesOf
    <2>2. Cardinality(LiveProfiles(u)) = 0
      BY <2>1, FS_EmptySet
    <2>3. RoomForProfile(u)
      BY <2>2, ProfileLimitAssumption DEF RoomForProfile
    <2>4. QED
      BY <1>3, <2>3, OneRowLive DEF LiveStep
  <1>5. CASE u # r
    BY <1>3, <1>5, OneRowLive DEF LiveStep
  <1>6. QED
    BY <1>4, <1>5

LEMMA LiveSteps ==
  ASSUME Sound, [HouseholdNext]_vars, NEW u \in Requests
  PROVE  LiveStep(u)
  <1>1. ASSUME UNCHANGED profiles
        PROVE  LiveStep(u)
    BY <1>1 DEF LiveStep, LiveProfiles, ProfilesOf, Stored
  <1>3. ASSUME NEW r \in Requests, HouseholdStep(r)
        PROVE  LiveStep(u)
    <2>1. CASE FinishProfile(r)
      <3> DEFINE profile == [user |-> call[r].auth.user, disabled |-> FALSE, kid |-> FALSE,
                             gated |-> call[r].arg # "none"]
      <3>1. /\ profiles' = [profiles EXCEPT ![r] = profile]
            /\ RoomForProfile(call[r].auth.user)
        BY <2>1 DEF FinishProfile
      <3>2. profiles'[r] = profile /\ \A q \in Requests \ {r} : profiles'[q] = profiles[q]
        BY <3>1 DEF Sound, TypeOK
      <3>3. CASE call[r].auth.user = u
        BY <3>1, <3>2, <3>3, OneRowLive DEF LiveStep
      <3>4. CASE call[r].auth.user # u
        BY <3>2, <3>4, OneRowLive DEF LiveStep
      <3>5. QED
        BY <3>3, <3>4
    <2>2. CASE FinishGuard(r)
      <3> DEFINE p == call[r].on
                 row == [profiles[p] EXCEPT !.gated = TRUE]
      <3>1. /\ p \in Requests /\ Stored(p)
            /\ profiles' = [profiles EXCEPT ![p].gated = TRUE]
        BY <2>2, NothingMadeYet DEF FinishGuard, Resumed, CaptureOK
      <3>2. /\ row \in ProfileRow /\ row.user = profiles[p].user
            /\ row.disabled = profiles[p].disabled
        BY <3>1, ProfileOwner DEF ProfileRow
      <3>3. /\ profiles'[p] = row /\ ProfilesKept
            /\ \A q \in Requests \ {p} : profiles'[q] = profiles[q]
        BY <3>1, <3>2, ProfileChanged
      <3>4. PICK q \in Requests : q = p
        BY <3>1
      <3>5. LiveProfiles(u)' \subseteq LiveProfiles(u)
        BY <3>2, <3>3, <3>4, SameRowLive
      <3>6. QED
        BY <3>5 DEF LiveStep
    <2>3. CASE ProfileRefused(r) \/ FinishSwitch(r) \/ ProfileDeleted(r)
      BY <1>1, <2>3
      DEF ProfileRefused, FinishSwitch, ProfileDeleted, Fails, Activate, tables
    <2>4. QED
      BY <1>3, <2>1, <2>2, <2>3 DEF HouseholdStep
  <1>4. ASSUME NEW r \in Requests, AwaitedStep(r)
        PROVE  LiveStep(u)
    <2>1. CASE FinishSetup(r) \/ FinishInvite(r) \/ FinishAccount(r)
      BY <2>1, MakingLive
    <2>2. CASE ~(FinishSetup(r) \/ FinishInvite(r) \/ FinishAccount(r))
      BY <1>1, <1>4, <2>2
      DEF AwaitedStep, SetupTooLate, InviteTooLate, ActorDeleted, LoginRefused, Fails, tables,
          FinishLogin, FinishPassword
    <2>3. QED
      BY <2>1, <2>2
  <1>5. ASSUME NEW r \in Requests, AccountRequest(r) \/ HouseholdRequest(r)
        PROVE  LiveStep(u)
    BY <1>1, <1>5
    DEF AccountRequest, HouseholdRequest, SetupOwner, AcceptInvite, Login, CreateAccount,
        ChangePassword, CreateInvite, CreateProfile, SwitchProfile, GuardProfile, tables
  <1>6. ASSUME NEW s \in Requests, AccountStep(s)
        PROVE  LiveStep(u)
    <2>1. ASSUME NEW p \in Requests, NEW disabled \in BOOLEAN, SetDisabled(s, p, disabled)
          PROVE  LiveStep(u)
      <3>1. /\ Stored(p) /\ ProfilesKept /\ profiles[p].disabled \in BOOLEAN
            /\ \A q \in Requests \ {p} : profiles'[q] = profiles[q]
        BY <2>1, DisabledSet, ProfileOwner DEF ProfileRow
      <3>2. CASE p \in LiveProfiles(u)' /\ p \notin LiveProfiles(u)
        <4>1. p \in ProfilesOf(u) /\ profiles[p].disabled /\ ~profiles'[p].disabled
          BY <3>1, <3>2 DEF ProfilesKept, LiveProfiles, ProfilesOf
        <4>2. QED
          BY <3>1, <4>1, OneRowLive DEF LiveStep
      <3>3. CASE ~(p \in LiveProfiles(u)' /\ p \notin LiveProfiles(u))
        BY <3>1, <3>3, OneRowLive DEF LiveStep
      <3>4. QED
        BY <3>2, <3>3
    <2>2. \/ UNCHANGED profiles
          \/ \E p \in Requests, disabled \in BOOLEAN : SetDisabled(s, p, disabled)
      BY <1>6
      DEF AccountStep, Logout, InviteExpires, RevokeAllSessions, RevokeSession, RevokeInvite,
          EndSessions, EndInvite, PatchDisabled, DeleteProfile, SetRole, RecoverOwner
    <2>3. QED
      BY <1>1, <2>1, <2>2
  <1>7. ASSUME NEW s \in Requests, HouseholdChange(s)
        PROVE  LiveStep(u)
    <2>1. PICK p \in Requests :
            \/ DeleteAccountProfile(s, p)
            \/ SwitchFreely(s, p)
            \/ ClearPin(s, p)
            \/ \E kid \in BOOLEAN : SetMaturity(s, p, kid)
      BY <1>7 DEF HouseholdChange
    <2>2. CASE DeleteAccountProfile(s, p)
      BY <2>2, ProfileGone, SameRowLive DEF LiveStep, Stored
    <2>3. CASE SwitchFreely(s, p)
      BY <1>1, <2>3 DEF SwitchFreely, Activate
    <2>4. CASE ClearPin(s, p)
      BY <2>4, GateCleared, SameRowLive DEF LiveStep
    <2>5. ASSUME NEW kid \in BOOLEAN, SetMaturity(s, p, kid)
          PROVE  LiveStep(u)
      BY <2>5, MaturitySet, SameRowLive DEF LiveStep
    <2>6. QED
      BY <2>1, <2>2, <2>3, <2>4, <2>5
  <1>8. CASE UNCHANGED vars
    BY <1>1, <1>8 DEF vars, tables
  <1>9. CASE HouseholdNext
    BY <1>3, <1>4, <1>5, <1>6, <1>7, <1>9 DEF HouseholdNext, Next
  <1>10. QED
    BY <1>8, <1>9

\* However many requests there are, an account has finitely many profiles.
FewProfiles == \A u \in Requests : IsFiniteSet(LiveProfiles(u))

LEMMA FewStay ==
  ASSUME Sound, FewProfiles, [HouseholdNext]_vars
  PROVE  FewProfiles'
  <1> SUFFICES ASSUME NEW u \in Requests
               PROVE  IsFiniteSet(LiveProfiles(u)')
    BY DEF FewProfiles
  <1>1. IsFiniteSet(LiveProfiles(u))
    BY DEF FewProfiles
  <1>2. \A p \in Requests : IsFiniteSet(LiveProfiles(u) \cup {p})
    BY <1>1, FS_AddElement
  <1>3. QED
    BY <1>1, <1>2, LiveSteps, FS_Subset DEF LiveStep

\* The limit counts what is there when the profile is written, not when it was
\* asked for: creations that overlap across their password hashes stay within.
THEOREM ProfilesWithinLimit == HouseholdSpec => LimitHolds
  <1> DEFINE Within ==
        \A u \in Requests :
          Cardinality(LiveProfiles(u))' > ProfileLimit =>
            \/ Cardinality(LiveProfiles(u))' <= Cardinality(LiveProfiles(u))
            \/ \E p \in ProfilesOf(u) : profiles[p].disabled /\ ~profiles'[p].disabled
  <1>1. Init => FewProfiles
    <2> SUFFICES ASSUME Init, NEW u \in Requests
                 PROVE  IsFiniteSet(LiveProfiles(u))
      BY DEF FewProfiles
    <2>1. LiveProfiles(u) = {}
      BY DEF Init, LiveProfiles, ProfilesOf, Stored
    <2>2. QED
      BY <2>1, FS_EmptySet
  <1>2. Sound /\ FewProfiles /\ [HouseholdNext]_vars => FewProfiles'
    BY FewStay
  <1>3. Sound /\ FewProfiles /\ [HouseholdNext]_vars => Within
    <2> SUFFICES ASSUME Sound, FewProfiles, [HouseholdNext]_vars, NEW u \in Requests,
                        Cardinality(LiveProfiles(u))' > ProfileLimit
                 PROVE  \/ Cardinality(LiveProfiles(u))' <= Cardinality(LiveProfiles(u))
                        \/ \E p \in ProfilesOf(u) :
                             profiles[p].disabled /\ ~profiles'[p].disabled
      OBVIOUS
    <2>1. LiveStep(u) /\ IsFiniteSet(LiveProfiles(u))
      BY LiveSteps DEF FewProfiles
    <2>2. CASE LiveProfiles(u)' \subseteq LiveProfiles(u)
      BY <2>1, <2>2, FS_Subset
    <2>3. ASSUME NEW p \in Requests, RoomForProfile(u),
                 LiveProfiles(u)' \subseteq LiveProfiles(u) \cup {p}
          PROVE  FALSE
      <3>1. /\ IsFiniteSet(LiveProfiles(u) \cup {p})
            /\ Cardinality(LiveProfiles(u) \cup {p}) <= Cardinality(LiveProfiles(u)) + 1
            /\ Cardinality(LiveProfiles(u)) \in Nat
        <4>1. /\ IsFiniteSet(LiveProfiles(u) \cup {p}) /\ Cardinality(LiveProfiles(u)) \in Nat
              /\ Cardinality(LiveProfiles(u) \cup {p}) =
                   IF p \in LiveProfiles(u) THEN Cardinality(LiveProfiles(u))
                   ELSE Cardinality(LiveProfiles(u)) + 1
          BY <2>1, FS_AddElement, FS_CardinalityType
        <4>2. CASE p \in LiveProfiles(u)
          BY <4>1, <4>2
        <4>3. CASE p \notin LiveProfiles(u)
          BY <4>1, <4>3
        <4>4. QED
          BY <4>1, <4>2, <4>3
      <3>2. /\ Cardinality(LiveProfiles(u)') <= Cardinality(LiveProfiles(u) \cup {p})
            /\ Cardinality(LiveProfiles(u)') \in Nat
            /\ Cardinality(LiveProfiles(u) \cup {p}) \in Nat
        BY <2>3, <3>1, FS_Subset, FS_CardinalityType
      <3>3. QED
        BY <2>3, <3>1, <3>2, ProfileLimitAssumption DEF RoomForProfile
    <2>4. QED
      BY <2>1, <2>2, <2>3 DEF LiveStep
  <1>4. QED
    BY <1>1, <1>2, <1>3, AlwaysSound, PTL DEF HouseholdSpec, LimitHolds
=============================================================================
