------------------------------ MODULE Sessions ------------------------------
(***************************************************************************)
(* How one identity signs in and how its sessions live and end:            *)
(* UnifiedAuthenticationService (login, lockout, selection of a context),  *)
(* AuthenticationService (validation, logout), RefreshTokenRotation-       *)
(* Service, and the administrative operations that end sessions or take    *)
(* access away.                                                            *)
(*                                                                         *)
(* A request runs through several statements, each in a transaction of its *)
(* own, so other requests of the same identity and administrators act      *)
(* between them.  One action is one such statement with the code around    *)
(* it.  The queries by which a request reads the usable contexts follow    *)
(* each other without a write between them and are one step.               *)
(*                                                                         *)
(* A signed token has no random part: it is determined by its claims and   *)
(* by the second it is issued in.  The token of the login names the        *)
(* membership, those of later rotations do not.  So within a session a     *)
(* token is 0 for the login's and n for the n-th second in which the       *)
(* session's token was rotated.                                            *)
(***************************************************************************)
EXTENDS Naturals, FiniteSets

CONSTANTS Requests,     \* sign-ins in progress at the same time
          Tenants,      \* the identity's memberships in tenants
          Platform,     \* its platform memberships
          Challenges,   \* challenges that may be created
          SessionIds,   \* sessions that may be created
          Direct,       \* the origin of a session without a challenge
          Nobody,       \* no user owns the login identifiers
          MaxFailed,    \* AUTH_MAX_FAILED_ATTEMPTS
          MaxVersion,   \* bound: version of the identity's users
          MaxSecond     \* bound: seconds in which a session's token rotates

Contexts == Tenants \cup Platform

ASSUME SessionsAssumption ==
    /\ MaxFailed \in Nat \ {0}
    /\ MaxVersion \in Nat \ {0}
    /\ MaxSecond \in Nat \ {0}
    /\ Tenants \cap Platform = {}
    /\ Direct \notin Challenges
    /\ Nobody \notin Contexts

VARIABLES identity,    \* whether identities.status is active
          context,     \* memberships and the users they belong to
          owner,       \* the user whose login identifiers are active
          credential,  \* failed attempts and the lock
          challenge,   \* pending_login_challenges
          session,     \* user_sessions
          history,     \* refresh_token_history, per session
          request,     \* where each request is
          wrong,       \* wrong passwords since the last right one
          replayed     \* sessions of which a replaced token was presented

vars == <<identity, context, owner, credential, challenge, session, history,
          request, wrong, replayed>>

accessVars == <<identity, context, owner>>

\* user_sessions: is_active, expires_at and termination_reason as a status
\* (an expired session is still active; reused: ended by refresh_token_reuse,
\* revoked: by anything else), what the session is for, the challenge it was
\* obtained with and its current refresh token.
Session == [status : {"none", "active", "expired", "revoked", "reused"},
            context : Contexts \cup {Nobody},
            origin : Challenges \cup {Direct}, token : 0 .. MaxSecond]

NoSession == [status |-> "none", context |-> Nobody, origin |-> Direct, token |-> 0]

\* The sessions that are over for good.
Ended(s) == session[s].status \in {"revoked", "reused"}

\* pending_login_challenges: offer is the snapshot, 0 for what is not offered.
Challenge == [status : {"none", "pending", "consumed", "expired"},
              offer : [Contexts -> 0 .. MaxVersion]]

\* What a login context rests on: a membership that counts (and, with a
\* tenant, one that is open), an active user, and the user's version.
Context == [member : BOOLEAN, user : BOOLEAN, version : 1 .. MaxVersion]

\* identity_credentials; locked: locked_until has not passed.
Credential == [failures : 0 .. MaxFailed + 1, locked : BOOLEAN]

Idle == [at |-> "idle", context |-> Nobody, origin |-> Direct]

TypeOK ==
    /\ identity \in BOOLEAN
    /\ context \in [Contexts -> Context]
    /\ owner \in Tenants \cup {Nobody}
    /\ credential \in Credential
    /\ challenge \in [Challenges -> Challenge]
    /\ session \in [SessionIds -> Session]
    /\ history \in [SessionIds -> SUBSET (0 .. MaxSecond)]
    /\ request \in [Requests -> [at : {"idle", "found", "verified", "selected", "chosen",
                                       "authorized"},
                                 context : Contexts \cup {Nobody},
                                 origin : Challenges \cup {Direct}]]
    /\ \A r \in Requests : request[r].at \in {"idle", "found", "verified"} =>
           request[r].context = Nobody /\ request[r].origin = Direct
    /\ wrong \in 0 .. MaxFailed + 1
    /\ replayed \subseteq SessionIds

\* The identity has access everywhere, or an administrator of a tenant took
\* it before the behaviour begins (TakeAccess).
Init ==
    /\ \E taken \in SUBSET Tenants :
         /\ Cardinality(taken) <= 1
         /\ identity = (taken = {})
         /\ context = [c \in Contexts |-> [member |-> c \notin taken, user |-> c \notin taken,
                                           version |-> 1]]
         /\ owner \in IF taken = Tenants THEN {Nobody} ELSE Tenants \ taken
    /\ credential = [failures |-> 0, locked |-> FALSE]
    /\ challenge = [c \in Challenges |-> [status |-> "none", offer |-> [x \in Contexts |-> 0]]]
    /\ session = [s \in SessionIds |-> NoSession]
    /\ history = [s \in SessionIds |-> {}]
    /\ request = [r \in Requests |-> Idle]
    /\ wrong = 0
    /\ replayed = {}

-----------------------------------------------------------------------------
(* What the queries answer. *)

\* findLoginIdentity: the identifier is active and so is its identity.
Found == identity /\ owner # Nobody

\* Membership, tenant and user of a context allow a sign-in.  A platform
\* context has no user of a tenant: its user stays TRUE.
Usable(c) == context[c].member /\ context[c].user

\* The contexts that resolveUsableLoginContexts answers.
UsableContexts == IF identity /\ owner # Nobody THEN {c \in Contexts : Usable(c)} ELSE {}

\* makeSnapshot: every usable context with its versions.
Snapshot == [c \in Contexts |-> IF c \in UsableContexts THEN context[c].version ELSE 0]

\* validateSession of a tenant session looks at the session and, through
\* findById, at the user and the identity; not at membership or tenant.
TenantSessionValid(s) ==
    /\ session[s].status = "active"
    /\ session[s].context \in Tenants
    /\ context[session[s].context].user /\ identity

\* validateContext of a platform session.
PlatformSessionValid(s) ==
    /\ session[s].status = "active"
    /\ session[s].context \in Platform
    /\ context[session[s].context].member /\ identity

\* requireAuth and requirePlatformContext.
Authenticated(s) == TenantSessionValid(s) \/ PlatformSessionValid(s)

-----------------------------------------------------------------------------
(* POST /auth/login: UnifiedAuthenticationService.authenticate. *)

Goto(r, at) == request' = [request EXCEPT ![r].at = at]

Leave(r) == request' = [request EXCEPT ![r] = Idle]

\* The credential is read: a request goes on when it is not locked.
FindCredential(r) ==
    /\ request[r].at = "idle" /\ Found /\ ~credential.locked
    /\ Goto(r, "found")
    /\ UNCHANGED <<accessVars, credential, challenge, session, history, wrong, replayed>>

\* recordFailedIdentityLogin: one UPDATE counts and locks.
\* mutant: the count starts anew with the lock
CountRestarts(old) ==
    IF old.failures + 1 >= MaxFailed THEN [failures |-> 0, locked |-> TRUE]
    ELSE [failures |-> old.failures + 1, locked |-> FALSE]

AfterFailure(old) == [failures |-> old.failures + 1,
                      locked |-> old.failures + 1 >= MaxFailed]

WrongPassword(r) ==
    /\ request[r].at = "found"
    /\ wrong <= MaxFailed
    /\ credential' = AfterFailure(credential)
    /\ wrong' = wrong + 1
    /\ Leave(r)
    /\ UNCHANGED <<accessVars, challenge, session, history, replayed>>

\* resetFailedIdentityLogin also ends a lock that began after FindCredential.
RightPassword(r) ==
    /\ request[r].at = "found"
    /\ credential' = [failures |-> 0, locked |-> FALSE]
    /\ wrong' = 0
    /\ Goto(r, "verified")
    /\ UNCHANGED <<accessVars, challenge, session, history, replayed>>

\* lockedUntil passes; the count stays.
LockEnds ==
    /\ credential.locked
    /\ credential' = [credential EXCEPT !.locked = FALSE]
    /\ UNCHANGED <<accessVars, challenge, session, history, request, wrong, replayed>>

NoUsableContext(r) ==
    /\ request[r].at = "verified" /\ UsableContexts = {}
    /\ Leave(r)
    /\ UNCHANGED <<accessVars, credential, challenge, session, history, wrong, replayed>>

OneUsableContext(r) ==
    /\ request[r].at = "verified"
    /\ \E c \in Contexts :
         /\ UsableContexts = {c}
         /\ request' = [request EXCEPT ![r] = [at |-> "chosen", context |-> c, origin |-> Direct]]
    /\ UNCHANGED <<accessVars, credential, challenge, session, history, wrong, replayed>>

\* createPendingLoginChallenge.
Pending(offer) == [status |-> "pending", offer |-> offer]

\* Several contexts: the answer is a challenge with a snapshot of them.
OfferContexts(r, ch) ==
    /\ request[r].at = "verified" /\ Cardinality(UsableContexts) > 1
    /\ challenge[ch].status = "none"
    /\ challenge' = [challenge EXCEPT ![ch] = Pending(Snapshot)]
    /\ Leave(r)
    /\ UNCHANGED <<accessVars, credential, session, history, wrong, replayed>>

-----------------------------------------------------------------------------
(* POST /auth/select-context: UnifiedAuthenticationService.selectContext. *)

\* consumePendingLoginChallenge: one UPDATE of an unconsumed row.

\* mutant: the UPDATE does not ask for consumed_at IS NULL
ConsumeAgain(r, ch) ==
    /\ request[r].at = "idle" /\ challenge[ch].status \in {"pending", "consumed"}
    /\ challenge' = [challenge EXCEPT ![ch].status = "consumed"]
    /\ request' = [request EXCEPT ![r] = [at |-> "selected", context |-> Nobody, origin |-> ch]]
    /\ UNCHANGED <<accessVars, credential, session, history, wrong, replayed>>

ConsumeChallenge(r, ch) ==
    /\ request[r].at = "idle" /\ challenge[ch].status = "pending"
    /\ challenge' = [challenge EXCEPT ![ch].status = "consumed"]
    /\ request' = [request EXCEPT ![r] = [at |-> "selected", context |-> Nobody, origin |-> ch]]
    /\ UNCHANGED <<accessVars, credential, session, history, wrong, replayed>>

\* The chosen context was offered and nothing of what was offered changed.
SelectContext(r, c) ==
    /\ request[r].at = "selected"
    /\ LET offer == challenge[request[r].origin].offer
       IN offer[c] # 0 /\ offer = Snapshot
    /\ request' = [request EXCEPT ![r] = [at |-> "chosen", context |-> c, origin |-> @.origin]]
    /\ UNCHANGED <<accessVars, credential, challenge, session, history, wrong, replayed>>

\* A reference that was not offered, or an offer that is out of date: the
\* challenge stays consumed.
SelectionRefused(r) ==
    /\ request[r].at = "selected"
    /\ Leave(r)
    /\ UNCHANGED <<accessVars, credential, challenge, session, history, wrong, replayed>>

ChallengeExpires(ch) ==
    /\ challenge[ch].status = "pending"
    /\ challenge' = [challenge EXCEPT ![ch].status = "expired"]
    /\ UNCHANGED <<accessVars, credential, session, history, request, wrong, replayed>>

-----------------------------------------------------------------------------
(* issueContext: the context is authorized once more, then, in another
   transaction, the session is inserted. *)

\* authorizeTenantLoginContext; no login identifier is needed here.
TenantAuthorized(c) == c \in Tenants /\ identity /\ Usable(c)

\* authorizePlatformLoginContext.
PlatformAuthorized(c) == c \in Platform /\ identity /\ context[c].member

Authorize(r) ==
    /\ request[r].at = "chosen"
    /\ IF TenantAuthorized(request[r].context) \/ PlatformAuthorized(request[r].context)
       THEN Goto(r, "authorized")
       ELSE Leave(r)
    /\ UNCHANGED <<accessVars, credential, challenge, session, history, wrong, replayed>>

\* A session that starts with the login's refresh token.
Opened(c, origin) == [status |-> "active", context |-> c, origin |-> origin, token |-> 0]

\* createSession of authenticateTenantContext.
CreateTenantSession(r, s) ==
    /\ request[r].at = "authorized" /\ request[r].context \in Tenants
    /\ session[s].status = "none"
    /\ session' = [session EXCEPT ![s] = Opened(request[r].context, request[r].origin)]
    /\ Leave(r)
    /\ UNCHANGED <<accessVars, credential, challenge, history, wrong, replayed>>

\* createPlatformSession of issuePlatformContext.
CreatePlatformSession(r, s) ==
    /\ request[r].at = "authorized" /\ request[r].context \in Platform
    /\ session[s].status = "none"
    /\ session' = [session EXCEPT ![s] = Opened(request[r].context, request[r].origin)]
    /\ Leave(r)
    /\ UNCHANGED <<accessVars, credential, challenge, history, wrong, replayed>>

\* POST /auth/platform-login checks the password against the credential of an
\* active platform member; it neither reads the lock nor counts a failure.
PlatformLogin(r, c) ==
    /\ request[r].at = "idle" /\ c \in Platform /\ Found /\ context[c].member
    /\ request' = [request EXCEPT ![r] = [at |-> "authorized", context |-> c, origin |-> Direct]]
    /\ UNCHANGED <<accessVars, credential, challenge, session, history, wrong, replayed>>

-----------------------------------------------------------------------------
(* Sessions. *)

\* The refresh tokens of a session that were handed out.
Issued(s) == history[s] \cup {session[s].token}

\* The tokens that the next rotation may sign: createRefreshToken puts the
\* same claims under the second of the last rotation or a later one.
SignedNext(s) == {session[s].token, session[s].token + 1} \cap 1 .. MaxSecond

End(x) == [x EXCEPT !.status = "revoked"]

Reused(x) == [x EXCEPT !.status = "reused"]

\* rotate, a replaced token: it is in the history, the session is revoked.

\* mutant: the refusal is thrown inside the transaction, which rolls back
ReplayOnlyRefused(s, t) ==
    /\ session[s].context \in Tenants
    /\ t \in Issued(s) /\ t # session[s].token
    /\ replayed' = replayed \cup {s}
    /\ UNCHANGED <<accessVars, credential, challenge, session, history, request, wrong>>

RefreshReplayed(s, t) ==
    /\ session[s].context \in Tenants
    /\ t \in Issued(s) /\ t # session[s].token
    /\ session' = [session EXCEPT ![s] = Reused(@)]
    /\ replayed' = replayed \cup {s}
    /\ UNCHANGED <<accessVars, credential, challenge, history, request, wrong>>

\* rotate, the current token: its replacement is signed in the second of the
\* last rotation or in a later one.  The history refuses a token it holds
\* already, which ends the session.

\* mutant: rotation does not look whether the session is active
RotateEnded(s) ==
    /\ session[s].context \in Tenants
    /\ context[session[s].context].user
    /\ IF session[s].token \in history[s]
       THEN /\ session' = [session EXCEPT ![s] = Reused(@)]
            /\ UNCHANGED history
       ELSE /\ \E t \in SignedNext(s) :
                 session' = [session EXCEPT ![s].token = t]
            /\ history' = [history EXCEPT ![s] = @ \cup {session[s].token}]
    /\ UNCHANGED <<accessVars, credential, challenge, request, wrong, replayed>>

RefreshRotated(s) ==
    /\ session[s].context \in Tenants
    /\ session[s].status = "active"
    /\ context[session[s].context].user
    /\ IF session[s].token \in history[s]
       THEN /\ session' = [session EXCEPT ![s] = Reused(@)]
            /\ UNCHANGED history
       ELSE /\ \E t \in SignedNext(s) :
                 session' = [session EXCEPT ![s].token = t]
            /\ history' = [history EXCEPT ![s] = @ \cup {session[s].token}]
    /\ UNCHANGED <<accessVars, credential, challenge, request, wrong, replayed>>

\* invalidateSession does not look whether the session is still active.
Logout(s) ==
    /\ TenantSessionValid(s)
    /\ session' = [session EXCEPT ![s] = End(@)]
    /\ UNCHANGED <<accessVars, credential, challenge, history, request, wrong, replayed>>

\* POST /security/sessions/:id/revoke by an administrator of the tenant.
RevokeSession(s) ==
    /\ session[s].status # "none" /\ session[s].context \in Tenants
    /\ session' = [session EXCEPT ![s] = End(@)]
    /\ UNCHANGED <<accessVars, credential, challenge, history, request, wrong, replayed>>

\* The sessions with those of c that are active ended, the excepted one apart.
EndAll(c, except) ==
    [s \in SessionIds |->
        IF session[s].context = c /\ session[s].status \in {"active", "expired"} /\ s \notin except
        THEN End(session[s]) ELSE session[s]]

\* POST /security/users/:id/sessions/revoke-all; the actor's own session stays.
RevokeAllSessions(c) ==
    /\ c \in Tenants
    /\ \E except \in {{}} \cup {{s} : s \in SessionIds} :
         /\ \A s \in except : TenantSessionValid(s) /\ session[s].context = c
         /\ session' = EndAll(c, except)
    /\ UNCHANGED <<accessVars, credential, challenge, history, request, wrong, replayed>>

SessionExpires(s) ==
    /\ session[s].status = "active"
    /\ session' = [session EXCEPT ![s].status = "expired"]
    /\ UNCHANGED <<accessVars, credential, challenge, history, request, wrong, replayed>>

-----------------------------------------------------------------------------
(* Administrators and the owner of the account. *)

\* sync_auth_login_identifiers, after an update of users.status: an active
\* user takes the identifiers over, any other status gives its own up.
Identifiers(c, active) ==
    IF active THEN c ELSE IF owner = c THEN Nobody ELSE owner

\* The user's row is updated and its version grows.
NextVersion(x) == [x EXCEPT !.version = @ + 1]

\* consumePasswordResetToken ends the sessions with the password.
ResetPassword(c) ==
    /\ c \in Tenants /\ context[c].version < MaxVersion
    /\ context' = [context EXCEPT ![c] = NextVersion(@)]
    /\ session' = EndAll(c, {})
    /\ UNCHANGED <<identity, owner, credential, challenge, history, request, wrong, replayed>>

\* activateUser and deactivateUser leave the version and the sessions alone.
SetUserStatus(c, active) ==
    /\ c \in Tenants
    /\ context' = [context EXCEPT ![c].user = active]
    /\ owner' = Identifiers(c, active)
    /\ UNCHANGED <<identity, credential, challenge, session, history, request, wrong, replayed>>

\* changeEmployeeAccess, SUSPEND and REVOKE.
TakeAccess(c) ==
    /\ c \in Tenants /\ context[c].version < MaxVersion
    /\ context' = [context EXCEPT ![c] = [NextVersion(@) EXCEPT !.member = FALSE, !.user = FALSE]]
    /\ identity' = FALSE
    /\ owner' = Identifiers(c, FALSE)
    /\ session' = EndAll(c, {})
    /\ UNCHANGED <<credential, challenge, history, request, wrong, replayed>>

\* changeEmployeeAccess, RESTORE: sessions are not restored.
RestoreAccess(c) ==
    /\ c \in Tenants /\ context[c].version < MaxVersion
    /\ context' = [context EXCEPT ![c] = [NextVersion(@) EXCEPT !.member = TRUE, !.user = TRUE]]
    /\ identity' = TRUE
    /\ owner' = Identifiers(c, TRUE)
    /\ UNCHANGED <<credential, challenge, session, history, request, wrong, replayed>>

\* PATCH /platform/members/:id ends the member's sessions by is_active alone.
SetPlatformMember(c, active) ==
    /\ c \in Platform
    /\ context' = [context EXCEPT ![c].member = active]
    /\ session' = IF active THEN session ELSE EndAll(c, {})
    /\ UNCHANGED <<identity, owner, credential, challenge, history, request, wrong, replayed>>

-----------------------------------------------------------------------------
SignIn(r) ==
    \/ FindCredential(r)
    \/ WrongPassword(r)
    \/ RightPassword(r)
    \/ NoUsableContext(r)
    \/ OneUsableContext(r)
    \/ \E ch \in Challenges : OfferContexts(r, ch) \/ ConsumeChallenge(r, ch)
    \/ \E c \in Contexts : SelectContext(r, c) \/ PlatformLogin(r, c)
    \/ SelectionRefused(r)
    \/ Authorize(r)
    \/ \E s \in SessionIds : CreateTenantSession(r, s) \/ CreatePlatformSession(r, s)

UseSession(s) ==
    \/ \E t \in 0 .. MaxSecond : RefreshReplayed(s, t)
    \/ RefreshRotated(s)
    \/ Logout(s)
    \/ RevokeSession(s)
    \/ SessionExpires(s)

Administer(c) ==
    \/ RevokeAllSessions(c)
    \/ ResetPassword(c)
    \/ \E active \in BOOLEAN : SetUserStatus(c, active) \/ SetPlatformMember(c, active)
    \/ TakeAccess(c)
    \/ RestoreAccess(c)

Next ==
    \/ \E r \in Requests : SignIn(r)
    \/ \E s \in SessionIds : UseSession(s)
    \/ \E c \in Contexts : Administer(c)
    \/ \E ch \in Challenges : ChallengeExpires(ch)
    \/ LockEnds

Spec == Init /\ [][Next]_vars

-----------------------------------------------------------------------------
(* Properties *)

\* A challenge yields at most one session, of a context it offered, however
\* many requests present it at the same time
\* (consumePendingLoginChallenge, selectContext).
ChallengeYieldsOneSession ==
    \A ch \in Challenges :
        LET opened == {s \in SessionIds : session[s].status # "none" /\ session[s].origin = ch}
            inProgress == {r \in Requests : request[r].origin = ch}
        IN /\ Cardinality(opened) + Cardinality(inProgress) <= 1
           /\ \A s \in opened : challenge[ch].offer[session[s].context] # 0
           /\ opened \cup inProgress # {} => challenge[ch].status = "consumed"

\* Once a replaced refresh token was presented, its session never serves a
\* request again (rotate keeps the revocation although it refuses the token).
ReplayEndsSession == \A s \in replayed : Ended(s)

\* Every wrong password counts until a right one, and while the count is
\* below the limit there is no lock (recordFailedIdentityLogin counts in the
\* row, not from what the request read before).
FailuresCounted ==
    /\ credential.failures = wrong
    /\ credential.locked => credential.failures >= MaxFailed

\* What ended a session is final: it neither becomes active again nor gets
\* another refresh token, whoever refreshes it at the same time.
EndIsFinal ==
    [][\A s \in SessionIds : Ended(s) =>
           /\ Ended(s)'
           /\ session'[s].token = session[s].token
           /\ history'[s] = history[s]]_vars

=============================================================================
