------------------------------ MODULE Household -----------------------------
(***************************************************************************)
(* The household profiles of an account (server/src/app.ts 2976-3374) on   *)
(* top of Accounts: who is watching, with a password or PIN on a profile,  *)
(* kid profiles, and sessions that switch between them.                    *)
(***************************************************************************)
EXTENDS Accounts

CONSTANT ProfileLimit \* live profiles of one account (12)

ASSUME ProfileLimitAssumption == ProfileLimit \in Nat \ {0}

-----------------------------------------------------------------------------
CreateProfile(r, s, gate) ==
  LET auth == readAuth(s) IN
  /\ Arrives(r, "profile")
  /\ Authenticated(s)
  /\ NotRestricted(auth)
  /\ PublicMode => gate = "password"
  /\ gate # "pin"
  /\ Suspend(r, "profile", "hash", auth, None, gate)
  /\ UNCHANGED tables

RoomForProfile(u) == Cardinality(LiveProfiles(u)) < ProfileLimit

\* Mutant: the profiles were counted before the hash only.
Mut_FinishProfileUncounted(r) ==
  LET auth == call[r].auth IN
  /\ Resumed(r, "profile", "hash")
  /\ AuditAccepts(auth)
  /\ profiles' = [profiles EXCEPT ![r] =
       [user |-> auth.user, disabled |-> FALSE, kid |-> FALSE,
        gated |-> call[r].arg # "none"]]
  /\ Answer(r)
  /\ UNCHANGED <<users, sessions, invites>>

\* Without a password the handler does not await: Immediate below lets
\* nothing else happen first.
FinishProfile(r) ==
  LET auth == call[r].auth IN
  /\ Resumed(r, "profile", "hash")
  /\ RoomForProfile(auth.user)
  /\ AuditAccepts(auth)
  /\ profiles' = [profiles EXCEPT ![r] =
       [user |-> auth.user, disabled |-> FALSE, kid |-> FALSE,
        gated |-> call[r].arg # "none"]]
  /\ Answer(r)
  /\ UNCHANGED <<users, sessions, invites>>

ProfileRefused(r) ==
  LET auth == call[r].auth IN
  /\ Resumed(r, "profile", "hash")
  /\ ~RoomForProfile(auth.user) \/ ~AuditAccepts(auth)
  /\ Fails(r)

\* The maturity route is the admin's: a kid cannot lift its own cap.
SetMaturity(s, p, kid) ==
  /\ "maturity" \in Handlers
  /\ Authenticated(s)
  /\ Admin(readAuth(s))
  /\ p \in LiveProfiles(sessions[s].user)
  /\ profiles' = [profiles EXCEPT ![p].kid = kid]
  /\ UNCHANGED <<users, sessions, invites, call>>

\* Mutant: sessions keep pointing at the deleted profile.
Mut_DeleteAccountProfileOnly(s, p) ==
  /\ Authenticated(s)
  /\ NotRestricted(readAuth(s))
  /\ p \in LiveProfiles(sessions[s].user)
  /\ ~IsDefault(p)
  /\ profiles' = [profiles EXCEPT ![p] = Gone]
  /\ UNCHANGED <<users, sessions, invites, call>>

\* Sessions that act as the deleted profile fall back to the default one.
DeleteAccountProfile(s, p) ==
  /\ Authenticated(s)
  /\ NotRestricted(readAuth(s))
  /\ p \in LiveProfiles(sessions[s].user)
  /\ ~IsDefault(p)
  /\ Cardinality(LiveProfiles(sessions[s].user)) > 1
  /\ sessions' = [t \in Requests |->
       IF sessions[t] # None /\ sessions[t].active = p
       THEN [sessions[t] EXCEPT !.active = None]
       ELSE sessions[t]]
  /\ profiles' = [profiles EXCEPT ![p] = Gone]
  /\ UNCHANGED <<users, invites, call>>

-----------------------------------------------------------------------------
(* Switching. Leaving a kid profile takes the account's password, entering a *)
(* guarded one takes its own: verified with an await in between. An attempt  *)
(* with a wrong password ends without effect.                                *)

NeedsVerification(auth, p) ==
  /\ p # auth.profile
  /\ auth.kid \/ profiles[p].gated

\* sessions.active_profile_id is a foreign key: a deleted profile is refused.
Activate(s, p) ==
  /\ Stored(p)
  /\ sessions' = [sessions EXCEPT ![s].active = p]
  /\ UNCHANGED <<users, profiles, invites>>

SwitchFreely(s, p) ==
  /\ "switch" \in Handlers
  /\ Authenticated(s)
  /\ p \in LiveProfiles(sessions[s].user)
  /\ ~NeedsVerification(readAuth(s), p)
  /\ Activate(s, p)
  /\ UNCHANGED call

SwitchProfile(r, s, p) ==
  /\ Arrives(r, "switch")
  /\ Authenticated(s)
  /\ p \in LiveProfiles(sessions[s].user)
  /\ NeedsVerification(readAuth(s), p)
  /\ Suspend(r, "switch", "verify", readAuth(s), p, None)
  /\ UNCHANGED tables

FinishSwitch(r) ==
  /\ Resumed(r, "switch", "verify")
  /\ Activate(call[r].auth.session, call[r].on)
  /\ Answer(r)

-----------------------------------------------------------------------------
(* Guarding a profile with a password or a PIN. *)

MayGuard(s, p) ==
  LET auth == readAuth(s) IN
  /\ Authenticated(s)
  /\ p \in LiveProfiles(auth.user)
  /\ p = auth.profile \/ auth.role \in AdminTier

GuardProfile(r, s, p, gate) ==
  /\ Arrives(r, "gate")
  /\ MayGuard(s, p)
  /\ gate # "none"
  /\ Suspend(r, "gate", "hash", readAuth(s), p, gate)
  /\ UNCHANGED tables

\* Both write two settings of the profile, a foreign key; the password route
\* writes them in one transaction with its audit row, the PIN route does not.
FinishGuard(r) ==
  LET p == call[r].on IN
  /\ Resumed(r, "gate", "hash")
  /\ Stored(p)
  /\ call[r].arg = "password" => AuditAccepts(call[r].auth)
  /\ profiles' = [profiles EXCEPT ![p].gated = TRUE]
  /\ Answer(r)
  /\ UNCHANGED <<users, sessions, invites>>

\* Mutant: a PIN may be cleared in public mode.
Mut_ClearPinAnywhere(s, p) ==
  /\ "gate" \in Handlers
  /\ MayGuard(s, p)
  /\ profiles' = [profiles EXCEPT ![p].gated = FALSE]
  /\ UNCHANGED <<users, sessions, invites, call>>

ClearPin(s, p) ==
  /\ "gate" \in Handlers
  /\ MayGuard(s, p)
  /\ ~PublicMode
  /\ profiles' = [profiles EXCEPT ![p].gated = FALSE]
  /\ UNCHANGED <<users, sessions, invites, call>>

\* A profile deleted during the await.
ProfileDeleted(r) ==
  /\ \/ Resumed(r, "switch", "verify") /\ ~Stored(call[r].on)
     \/ /\ Resumed(r, "gate", "hash")
        /\ \/ ~Stored(call[r].on)
           \/ call[r].arg = "password" /\ ~AuditAccepts(call[r].auth)
  /\ Fails(r)

-----------------------------------------------------------------------------
\* A request that has nothing to await goes on before anything else happens.
Immediate(r) == Resumed(r, "profile", "hash") /\ call[r].arg = "none"

HouseholdStep(r) == FinishProfile(r) \/ ProfileRefused(r) \/ FinishSwitch(r)
                    \/ FinishGuard(r) \/ ProfileDeleted(r)

HouseholdRequest(r) ==
  \E s \in Requests :
    \/ \E gate \in Gates : CreateProfile(r, s, gate)
    \/ \E p \in Requests : SwitchProfile(r, s, p)
    \/ \E p \in Requests, gate \in Gates : GuardProfile(r, s, p, gate)

HouseholdChange(s) ==
  \E p \in Requests :
    \/ DeleteAccountProfile(s, p)
    \/ SwitchFreely(s, p)
    \/ ClearPin(s, p)
    \/ \E kid \in BOOLEAN : SetMaturity(s, p, kid)

HouseholdNext ==
  \/ \E r \in Requests : HouseholdStep(r)
  \/ /\ \A r \in Requests : ~Immediate(r)
     /\ \/ Next
        \/ \E r \in Requests : HouseholdRequest(r) \/ HouseholdChange(r)

HouseholdSpec == Init /\ [][HouseholdNext]_vars

-----------------------------------------------------------------------------
\* Deleting a profile, switching to it and guarding it overlap: a session never
\* keeps a profile that is gone or another account's, and every account keeps
\* its default profile to fall back to.
ActiveProfilesExist ==
  /\ \A s \in Requests : sessions[s] # None =>
       sessions[s].active \in ProfilesOf(sessions[s].user) \cup {None}
  /\ \A u \in Requests : users[u] # None => u \in ProfilesOf(u)

\* With config.publicMode every profile is guarded, however requests overlap.
PublicProfilesAreGuarded ==
  PublicMode => \A p \in Requests : Stored(p) => profiles[p].gated

\* Creations that overlap never pass the limit: only re-enabling a profile
\* that did not count while it was disabled takes an account beyond it.
LimitHolds ==
  [][\A u \in Requests :
       Cardinality(LiveProfiles(u))' > ProfileLimit =>
         \/ Cardinality(LiveProfiles(u))' <= Cardinality(LiveProfiles(u))
         \/ \E p \in ProfilesOf(u) : profiles[p].disabled /\ ~profiles'[p].disabled]_vars

\* "LEAVING a kid profile requires the ACCOUNT password" (app.ts 3190): while
\* that profile stays a kid's and stays there, a session leaves it only by a
\* switch that was asked for the account's password.
KidProfileIsLocked ==
  [][\A s \in Requests :
       /\ Authenticated(s) /\ readAuth(s).kid
       /\ Authenticated(s)' /\ ActingProfile(s)' # ActingProfile(s)
       /\ ActingProfile(s) \in LiveProfiles(sessions[s].user)'
       => \E r \in Requests : Resumed(r, "switch", "verify") /\ call[r].auth.kid]_vars
=============================================================================
