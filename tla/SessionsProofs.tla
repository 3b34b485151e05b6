--------------------------- MODULE SessionsProofs ---------------------------
(***************************************************************************)
(* Theorems about who may act, in the order of a request: Sessions, for    *)
(* any number of requests, memberships, challenges and sessions, any       *)
(* lockout limit and any number of rotations; Access, for any requests,    *)
(* roles, keys and branches; and AccountSecurity, for any requests, codes  *)
(* of a batch, enrollments and links. The components share no variable.    *)
(***************************************************************************)
EXTENDS Sessions, Access, AccountSecurity, FiniteSetTheorems, TLAPS

\* Where a request may stand: it selects only with a challenge, and only a
\* request that chose goes on with a context.
Placed ==
    \A r \in Requests :
        /\ request[r].at = "selected" => request[r].origin \in Challenges
        /\ request[r].at \in {"chosen", "authorized"} => request[r].context \in Contexts

\* What holds a challenge consumed it, and its context was on offer.
Claimed ==
    /\ \A r \in Requests : request[r].origin # Direct =>
           /\ challenge[request[r].origin].status = "consumed"
           /\ request[r].at # "selected" =>
                  challenge[request[r].origin].offer[request[r].context] # 0
    /\ \A s \in SessionIds : session[s].origin # Direct =>
           /\ challenge[session[s].origin].status = "consumed"
           /\ challenge[session[s].origin].offer[session[s].context] # 0

\* A session that was not created has no owner and no origin.
Fresh == \A s \in SessionIds : session[s].status = "none" => session[s] = NoSession

\* No two requests, no two sessions, and no request and session, hold the
\* same challenge.
Exclusive ==
    /\ \A r1, r2 \in Requests :
           request[r1].origin = request[r2].origin /\ request[r1].origin # Direct => r1 = r2
    /\ \A s1, s2 \in SessionIds :
           session[s1].origin = session[s2].origin /\ session[s1].origin # Direct => s1 = s2
    /\ \A r \in Requests, s \in SessionIds :
           request[r].origin = session[s].origin => request[r].origin = Direct

\* The inductive invariant.  TypeOK alone is not one: the count of failures
\* stays in its range only because it equals the wrong passwords.
IInv == TypeOK /\ FailuresCounted /\ ReplayEndsSession /\ Placed /\ Claimed /\ Fresh /\ Exclusive

-----------------------------------------------------------------------------
(* The operators on a session. *)

\* A session that opens belongs to its context and origin.
LEMMA OpenedSession ==
    ASSUME NEW c \in Contexts, NEW o \in Challenges \cup {Direct}
    PROVE  /\ Opened(c, o) \in Session
           /\ Opened(c, o).status = "active"
           /\ Opened(c, o).context = c
           /\ Opened(c, o).origin = o
<1>1. Opened(c, o) = [status |-> "active", context |-> c, origin |-> o, token |-> 0]
  BY DEF Opened
<1>2. 0 \in 0 .. MaxSecond
  BY SessionsAssumption
<1>3. QED
  BY <1>1, <1>2 DEF Session

\* Both ways to end a session change its status only.
LEMMA EndedSession ==
    ASSUME NEW x \in Session
    PROVE  /\ End(x) \in Session /\ End(x).status = "revoked"
           /\ Reused(x) \in Session /\ Reused(x).status = "reused"
           /\ \A y \in {End(x), Reused(x)} :
                  y.context = x.context /\ y.origin = x.origin /\ y.token = x.token
  BY DEF End, Reused, Session

\* What a step that creates no session leaves of the sessions.
Touched ==
    /\ session' \in [SessionIds -> Session]
    /\ \A s \in SessionIds :
           /\ session'[s].context = session[s].context
           /\ session'[s].origin = session[s].origin
           /\ session[s].status = "none" => session'[s] = session[s]
           /\ session'[s].status = "none" => session[s].status = "none"

\* EndAll ends sessions that are active or expired.
LEMMA EndAllTouches ==
    ASSUME session \in [SessionIds -> Session], NEW c, NEW except, session' = EndAll(c, except)
    PROVE  Touched /\ \A s \in SessionIds : Ended(s) => session'[s] = session[s]
<1>1. ASSUME NEW s \in SessionIds
      PROVE  /\ session'[s] \in {session[s], End(session[s])}
             /\ session[s].status \notin {"active", "expired"} => session'[s] = session[s]
  BY DEF EndAll
<1>2. \A s \in SessionIds : session[s] \in Session
  OBVIOUS
<1>3. session' \in [SessionIds -> Session]
  BY <1>1, <1>2, EndedSession DEF EndAll
<1>4. \A s \in SessionIds : End(session[s]).status = "revoked"
                            /\ End(session[s]).context = session[s].context
                            /\ End(session[s]).origin = session[s].origin
  BY <1>2, EndedSession
<1>5. \A s \in SessionIds : session'[s].context = session[s].context
                            /\ session'[s].origin = session[s].origin
  BY <1>1, <1>4
<1>6. \A s \in SessionIds : session'[s].status = "none" => session[s].status = "none"
  BY <1>1, <1>4
<1>7. \A s \in SessionIds : session[s].status = "none" => session'[s] = session[s]
  BY <1>1
<1>8. \A s \in SessionIds : Ended(s) => session'[s] = session[s]
  BY <1>1 DEF Ended
<1>9. QED
  BY <1>3, <1>5, <1>6, <1>7, <1>8 DEF Touched

\* One existing session changes and keeps its context and origin.
LEMMA UpdateTouches ==
    ASSUME session \in [SessionIds -> Session], NEW s \in SessionIds, NEW x \in Session,
           session' = [session EXCEPT ![s] = x], session[s].status # "none",
           x.status # "none", x.context = session[s].context, x.origin = session[s].origin
    PROVE  Touched
<1>1. session' \in [SessionIds -> Session]
  OBVIOUS
<1>2. session'[s] = x /\ \A q \in SessionIds \ {s} : session'[q] = session[q]
  OBVIOUS
<1>3. QED
  BY <1>1, <1>2 DEF Touched

\* Challenges stay claimed once, and by what was offered, while requests and
\* challenges stand still and no session is created.
LEMMA ClaimsKept ==
    ASSUME IInv, Touched, UNCHANGED <<challenge, request>>
    PROVE  Placed' /\ Claimed' /\ Fresh' /\ Exclusive'
<1>1. Placed'
  BY DEF IInv, Placed
<1>2. Claimed'
  BY DEF IInv, Claimed, Touched
<1>3. Fresh'
  BY DEF IInv, Fresh, Touched
<1>4. Exclusive'
  BY DEF IInv, Exclusive, Touched
<1>5. QED
  BY <1>1, <1>2, <1>3, <1>4

-----------------------------------------------------------------------------
(* The steps of a session. *)

\* What an end of a session leaves for good.
StaysEnded ==
    \A s \in SessionIds : Ended(s) =>
        /\ Ended(s)'
        /\ session'[s].token = session[s].token
        /\ history'[s] = history[s]

\* A status that a session is given by a step of its own.
LEMMA SessionEnds ==
    ASSUME IInv, NEW s \in SessionIds, session[s].status # "none",
           NEW x \in {End(session[s]), Reused(session[s])},
           session' = [session EXCEPT ![s] = x], UNCHANGED history
    PROVE  Touched /\ StaysEnded /\ Ended(s)'
<1>1. session[s] \in Session /\ session \in [SessionIds -> Session]
  BY DEF IInv, TypeOK
<1>2. /\ x \in Session /\ x.status \in {"revoked", "reused"}
      /\ x.context = session[s].context /\ x.origin = session[s].origin
      /\ x.token = session[s].token
  BY <1>1, EndedSession
<1>3. Touched
  BY <1>1, <1>2, UpdateTouches
<1>4. session'[s] = x /\ \A q \in SessionIds \ {s} : session'[q] = session[q]
  BY <1>1
<1>5. QED
  BY <1>2, <1>3, <1>4 DEF StaysEnded, Ended

\* A step of one session keeps the invariant and what ended stays so.
LEMMA UseSessionKeeps ==
    ASSUME IInv, NEW s \in SessionIds, UseSession(s)
    PROVE  IInv' /\ StaysEnded
<1> DEFINE Rest == UNCHANGED <<identity, context, owner, credential, challenge, request, wrong>>
<1>1. TypeOK /\ session[s] \in Session
  BY DEF IInv, TypeOK
<1>2. session[s].context \in Tenants => session[s].status # "none"
  BY SessionsAssumption DEF IInv, Fresh, NoSession, Contexts
<1>3. ASSUME Touched, StaysEnded, Rest, history' \in [SessionIds -> SUBSET (0 .. MaxSecond)],
             replayed' \subseteq replayed \cup {s}, s \in replayed' => Ended(s)'
      PROVE  IInv' /\ StaysEnded
  <2>1. Placed' /\ Claimed' /\ Fresh' /\ Exclusive'
    BY <1>3, ClaimsKept
  <2>2. TypeOK'
    BY <1>1, <1>3 DEF TypeOK, Touched
  <2>3. FailuresCounted'
    BY <1>3 DEF IInv, FailuresCounted
  <2>4. ReplayEndsSession'
    <3>1. \A q \in replayed' : q = s \/ q \in replayed
      BY <1>3
    <3>2. \A q \in replayed : q \in SessionIds /\ Ended(q)
      BY <1>1 DEF IInv, TypeOK, ReplayEndsSession
    <3>3. \A q \in replayed : Ended(q)'
      BY <1>3, <3>2 DEF StaysEnded
    <3>4. QED
      BY <1>3, <3>1, <3>3 DEF ReplayEndsSession
  <2>5. QED
    BY <1>3, <2>1, <2>2, <2>3, <2>4 DEF IInv
<1>4. ASSUME NEW t \in 0 .. MaxSecond, RefreshReplayed(s, t) PROVE IInv' /\ StaysEnded
  <2>1. Touched /\ StaysEnded /\ Ended(s)'
    BY <1>2, <1>4, SessionEnds DEF RefreshReplayed
  <2>2. QED
    BY <1>1, <1>3, <1>4, <2>1 DEF RefreshReplayed, accessVars, TypeOK
<1>5. CASE RefreshRotated(s)
  <2>1. Rest /\ UNCHANGED replayed
    BY <1>5 DEF RefreshRotated, accessVars
  <2>2. CASE session[s].token \in history[s]
    <3>1. Touched /\ StaysEnded /\ Ended(s)'
      BY <1>2, <1>5, <2>2, SessionEnds DEF RefreshRotated
    <3>2. QED
      BY <1>1, <1>3, <1>5, <2>1, <2>2, <3>1 DEF RefreshRotated, TypeOK
  <2>3. CASE session[s].token \notin history[s]
    <3>1. PICK t \in SignedNext(s) : session' = [session EXCEPT ![s].token = t]
      BY <1>5, <2>3 DEF RefreshRotated
    <3> DEFINE x == [session[s] EXCEPT !.token = t]
    <3>2. /\ x \in Session /\ x.status = "active"
          /\ x.context = session[s].context /\ x.origin = session[s].origin
      <4>1. t \in 0 .. MaxSecond
        BY DEF SignedNext
      <4>2. QED
        BY <1>1, <1>5, <4>1 DEF RefreshRotated, Session
    <3>3. session' = [session EXCEPT ![s] = x]
      BY <3>1
    <3>4. Touched
      BY <1>1, <1>2, <1>5, <3>2, <3>3, UpdateTouches DEF RefreshRotated, TypeOK
    <3>5. history' = [history EXCEPT ![s] = @ \cup {session[s].token}]
      BY <1>5, <2>3 DEF RefreshRotated
    <3>6. history' \in [SessionIds -> SUBSET (0 .. MaxSecond)]
      BY <1>1, <3>5 DEF TypeOK, Session
    <3>7. \A q \in SessionIds \ {s} : session'[q] = session[q] /\ history'[q] = history[q]
      BY <1>1, <3>3, <3>5 DEF TypeOK
    <3>8. ~Ended(s)
      BY <1>5 DEF RefreshRotated, Ended
    <3>9. StaysEnded
      BY <3>7, <3>8 DEF StaysEnded, Ended
    <3>10. s \notin replayed
      BY <3>8 DEF IInv, ReplayEndsSession
    <3>11. QED
      BY <1>3, <2>1, <3>4, <3>6, <3>9, <3>10
  <2>4. QED
    BY <2>2, <2>3
<1>6. CASE Logout(s) \/ RevokeSession(s)
  <2>1. session[s].status # "none"
    BY <1>6 DEF Logout, RevokeSession, TenantSessionValid
  <2>2. Touched /\ StaysEnded /\ Ended(s)'
    BY <1>6, <2>1, SessionEnds DEF Logout, RevokeSession
  <2>3. QED
    BY <1>1, <1>3, <1>6, <2>2 DEF Logout, RevokeSession, accessVars, TypeOK
<1>7. CASE SessionExpires(s)
  <2> DEFINE x == [session[s] EXCEPT !.status = "expired"]
  <2>1. /\ x \in Session /\ x.status = "expired"
        /\ x.context = session[s].context /\ x.origin = session[s].origin
    BY <1>1 DEF Session
  <2>2. session[s].status = "active" /\ session' = [session EXCEPT ![s] = x]
    BY <1>7 DEF SessionExpires
  <2>3. Touched
    BY <1>1, <2>1, <2>2, UpdateTouches DEF TypeOK
  <2>4. ~Ended(s) /\ \A q \in SessionIds \ {s} : session'[q] = session[q]
    BY <1>1, <2>2 DEF Ended, TypeOK
  <2>5. StaysEnded
    BY <1>7, <2>4 DEF StaysEnded, Ended, SessionExpires
  <2>6. s \notin replayed
    BY <2>4 DEF IInv, ReplayEndsSession
  <2>7. QED
    BY <1>1, <1>3, <1>7, <2>3, <2>5, <2>6 DEF SessionExpires, accessVars, TypeOK
<1>8. QED
  BY <1>4, <1>5, <1>6, <1>7 DEF UseSession

-----------------------------------------------------------------------------
(* The steps of a sign-in. *)

\* The values of a request that TypeOK allows.
Placement ==
    {x \in [at : {"idle", "found", "verified", "selected", "chosen", "authorized"},
            context : Contexts \cup {Nobody}, origin : Challenges \cup {Direct}] :
        x.at \in {"idle", "found", "verified"} => x.context = Nobody /\ x.origin = Direct}

\* One request moves on: it keeps its challenge, or holds none from now on.
LEMMA RequestMoves ==
    ASSUME IInv, NEW r \in Requests, NEW x \in Placement,
           request' = [request EXCEPT ![r] = x],
           UNCHANGED <<accessVars, challenge, session, history, replayed>>,
           x.at = "selected" => x.origin \in Challenges,
           x.at \in {"chosen", "authorized"} => x.context \in Contexts,
           x.origin # Direct =>
               /\ x.origin = request[r].origin
               /\ x.at # "selected" => challenge[x.origin].offer[x.context] # 0,
           FailuresCounted', credential' \in Credential, wrong' \in 0 .. MaxFailed + 1
    PROVE  IInv' /\ StaysEnded
<1>1. TypeOK /\ Placed /\ Claimed /\ Fresh /\ Exclusive /\ ReplayEndsSession
  BY DEF IInv
<1>2. request'[r] = x /\ \A q \in Requests \ {r} : request'[q] = request[q]
  BY <1>1 DEF TypeOK
<1>3. TypeOK'
  BY <1>1, <1>2 DEF TypeOK, accessVars, Placement
<1>4. Placed'
  BY <1>1, <1>2 DEF Placed
<1>5. Claimed'
  BY <1>1, <1>2 DEF Claimed
<1>6. Exclusive'
  BY <1>1, <1>2 DEF Exclusive
<1>7. Fresh' /\ ReplayEndsSession' /\ StaysEnded
  BY <1>1 DEF Fresh, ReplayEndsSession, StaysEnded, Ended
<1>8. QED
  BY <1>3, <1>4, <1>5, <1>6, <1>7 DEF IInv

\* The idle request holds nothing.
LEMMA IdlePlacement == Idle \in Placement /\ Idle.at = "idle" /\ Idle.origin = Direct
  BY DEF Idle, Placement

\* Steps of a sign-in that neither create nor consume.
LEMMA MovesKeep ==
    ASSUME IInv, NEW r \in Requests,
           \/ FindCredential(r) \/ WrongPassword(r) \/ RightPassword(r)
           \/ NoUsableContext(r) \/ OneUsableContext(r) \/ SelectionRefused(r) \/ Authorize(r)
           \/ \E c \in Contexts : SelectContext(r, c) \/ PlatformLogin(r, c)
    PROVE  IInv' /\ StaysEnded
<1>1. TypeOK /\ request[r] \in Placement /\ FailuresCounted /\ Placed /\ Claimed
  BY DEF IInv, TypeOK, Placement
<1>2. ASSUME UNCHANGED <<credential, wrong>>
      PROVE  FailuresCounted' /\ credential' \in Credential /\ wrong' \in 0 .. MaxFailed + 1
  BY <1>1, <1>2 DEF FailuresCounted, TypeOK
<1>3. CASE FindCredential(r)
  <2> DEFINE x == [request[r] EXCEPT !.at = "found"]
  <2>1. request' = [request EXCEPT ![r] = x] /\ request[r].at = "idle"
    BY <1>3 DEF FindCredential, Goto
  <2>2. x \in Placement /\ x.at = "found" /\ x.origin = Direct
    BY <1>1, <2>1 DEF Placement
  <2>3. QED
    BY <1>2, <1>3, <2>1, <2>2, RequestMoves DEF FindCredential
<1>4. CASE WrongPassword(r)
  <2>1. wrong' = credential.failures + 1 /\ credential' = AfterFailure(credential)
        /\ wrong \in Nat /\ wrong <= MaxFailed
    BY <1>1, <1>4 DEF WrongPassword, FailuresCounted, TypeOK
  <2> DEFINE n == credential.failures + 1
             full == n >= MaxFailed
  <2>2. wrong' \in 0 .. MaxFailed + 1 /\ n = wrong'
    BY <1>1, <1>4, <2>1, SessionsAssumption DEF WrongPassword, FailuresCounted
  <2>3. full \in BOOLEAN
    OBVIOUS
  <2>4. credential' = [failures |-> n, locked |-> full]
    BY <2>1 DEF AfterFailure
  <2>5. credential'.failures = n /\ credential'.locked = full
    <3> HIDE DEF n, full
    <3> QED BY <2>4
  <2>6. credential' \in Credential
    <3> HIDE DEF n, full
    <3> QED BY <2>2, <2>3, <2>4 DEF Credential
  <2>7. FailuresCounted'
    BY <2>2, <2>5 DEF FailuresCounted
  <2>8. QED
    BY <1>4, <2>2, <2>6, <2>7, IdlePlacement, RequestMoves DEF WrongPassword, Leave
<1>5. CASE RightPassword(r)
  <2> DEFINE x == [request[r] EXCEPT !.at = "verified"]
  <2>1. request' = [request EXCEPT ![r] = x] /\ request[r].at = "found"
    BY <1>5 DEF RightPassword, Goto
  <2>2. x \in Placement /\ x.at = "verified" /\ x.origin = Direct
    BY <1>1, <2>1 DEF Placement
  <2>3. FailuresCounted' /\ credential' \in Credential /\ wrong' \in 0 .. MaxFailed + 1
    BY <1>5, SessionsAssumption DEF RightPassword, FailuresCounted, Credential
  <2>4. QED
    BY <1>5, <2>1, <2>2, <2>3, RequestMoves DEF RightPassword
<1>6. CASE NoUsableContext(r) \/ SelectionRefused(r)
  BY <1>2, <1>6, IdlePlacement, RequestMoves DEF NoUsableContext, SelectionRefused, Leave
<1>7. ASSUME NEW c \in Contexts, NEW at \in {"chosen", "authorized"},
             request' = [request EXCEPT ![r] = [at |-> at, context |-> c, origin |-> Direct]],
             UNCHANGED <<accessVars, credential, challenge, session, history, wrong, replayed>>
      PROVE  IInv' /\ StaysEnded
  <2> DEFINE x == [at |-> at, context |-> c, origin |-> Direct]
  <2>1. x \in Placement /\ x.at = at /\ x.origin = Direct /\ x.context = c
    BY DEF Placement
  <2>2. QED
    BY <1>2, <1>7, <2>1, RequestMoves
<1>8. CASE OneUsableContext(r)
  BY <1>7, <1>8 DEF OneUsableContext
<1>9. CASE Authorize(r)
  <2>1. CASE request' = [request EXCEPT ![r].at = "authorized"]
    <3> DEFINE x == [request[r] EXCEPT !.at = "authorized"]
    <3>1. request' = [request EXCEPT ![r] = x] /\ request[r].at = "chosen"
      BY <1>9, <2>1 DEF Authorize
    <3>2. x \in Placement /\ x.at = "authorized" /\ x.origin = request[r].origin
          /\ x.context = request[r].context
      BY <1>1 DEF Placement
    <3>3. /\ x.context \in Contexts
          /\ x.origin # Direct => challenge[x.origin].offer[x.context] # 0
      BY <1>1, <3>1, <3>2 DEF Placed, Claimed
    <3>4. QED
      BY <1>2, <1>9, <3>1, <3>2, <3>3, RequestMoves DEF Authorize
  <2>2. CASE request' = [request EXCEPT ![r] = Idle]
    BY <1>2, <1>9, <2>2, IdlePlacement, RequestMoves DEF Authorize
  <2>3. QED
    BY <1>9, <2>1, <2>2 DEF Authorize, Goto, Leave
<1>10. ASSUME NEW c \in Contexts, SelectContext(r, c) PROVE IInv' /\ StaysEnded
  <2> DEFINE x == [at |-> "chosen", context |-> c, origin |-> request[r].origin]
  <2>1. request' = [request EXCEPT ![r] = x]
    BY <1>1, <1>10 DEF SelectContext, Placement
  <2>2. x \in Placement /\ x.at = "chosen" /\ x.context = c /\ x.origin = request[r].origin
    BY <1>1 DEF Placement
  <2>3. challenge[x.origin].offer[x.context] # 0
    BY <1>10, <2>2 DEF SelectContext
  <2>4. QED
    BY <1>2, <1>10, <2>1, <2>2, <2>3, RequestMoves DEF SelectContext
<1>11. ASSUME NEW c \in Contexts, PlatformLogin(r, c) PROVE IInv' /\ StaysEnded
  BY <1>7, <1>11 DEF PlatformLogin
<1>12. QED
  BY <1>3, <1>4, <1>5, <1>6, <1>8, <1>9, <1>10, <1>11

\* A snapshot is an offer.
LEMMA SnapshotTyped == TypeOK => Snapshot \in [Contexts -> 0 .. MaxVersion]
<1> SUFFICES ASSUME TypeOK PROVE Snapshot \in [Contexts -> 0 .. MaxVersion]
  OBVIOUS
<1>1. \A c \in Contexts : context[c].version \in 0 .. MaxVersion
  BY SessionsAssumption DEF TypeOK, Context
<1>2. 0 \in 0 .. MaxVersion
  BY SessionsAssumption
<1>3. QED
  BY <1>1, <1>2 DEF Snapshot

\* A challenge is created: nobody holds it yet.
LEMMA OfferKeeps ==
    ASSUME IInv, NEW r \in Requests, NEW ch \in Challenges, OfferContexts(r, ch)
    PROVE  IInv' /\ StaysEnded
<1>1. TypeOK /\ Placed /\ Claimed /\ Fresh /\ Exclusive /\ ReplayEndsSession /\ FailuresCounted
  BY DEF IInv
<1>2. /\ challenge' = [challenge EXCEPT ![ch] = Pending(Snapshot)]
      /\ challenge[ch].status = "none"
      /\ request' = [request EXCEPT ![r] = Idle]
      /\ UNCHANGED <<accessVars, credential, session, history, wrong, replayed>>
  BY DEF OfferContexts, Leave
<1>3. Pending(Snapshot) \in Challenge
  BY <1>1, SnapshotTyped DEF Pending, Challenge
<1>4. request'[r] = Idle /\ \A q \in Requests \ {r} : request'[q] = request[q]
  BY <1>1, <1>2 DEF TypeOK
<1>5. \A c \in Challenges \ {ch} : challenge'[c] = challenge[c]
  BY <1>1, <1>2 DEF TypeOK
<1>6. /\ \A q \in Requests : request[q].origin # Direct => request[q].origin \in Challenges \ {ch}
      /\ \A s \in SessionIds : session[s].origin # Direct => session[s].origin \in Challenges \ {ch}
  BY <1>1, <1>2 DEF Claimed, TypeOK, Session
<1>7. TypeOK'
  BY <1>1, <1>2, <1>3, <1>4, IdlePlacement DEF TypeOK, accessVars, Placement, Idle
<1>8. Placed' /\ Exclusive'
  BY <1>1, <1>2, <1>4, IdlePlacement DEF Placed, Exclusive
<1>9. Claimed'
  BY <1>1, <1>2, <1>4, <1>5, <1>6, IdlePlacement DEF Claimed
<1>10. FailuresCounted' /\ Fresh' /\ ReplayEndsSession' /\ StaysEnded
  BY <1>1, <1>2 DEF FailuresCounted, Fresh, ReplayEndsSession, StaysEnded, Ended
<1>11. QED
  BY <1>7, <1>8, <1>9, <1>10 DEF IInv

\* A challenge is consumed: nobody held it, and only this request does now.
LEMMA ConsumeKeeps ==
    ASSUME IInv, NEW r \in Requests, NEW ch \in Challenges, ConsumeChallenge(r, ch)
    PROVE  IInv' /\ StaysEnded
<1>1. TypeOK /\ Placed /\ Claimed /\ Fresh /\ Exclusive /\ ReplayEndsSession /\ FailuresCounted
  BY DEF IInv
<1> DEFINE x == [at |-> "selected", context |-> Nobody, origin |-> ch]
<1>2. /\ challenge' = [challenge EXCEPT ![ch].status = "consumed"]
      /\ challenge[ch].status = "pending"
      /\ request' = [request EXCEPT ![r] = x]
      /\ UNCHANGED <<accessVars, credential, session, history, wrong, replayed>>
  BY DEF ConsumeChallenge
<1>3. x \in Placement /\ x.at = "selected" /\ x.origin = ch
  BY DEF Placement
<1>4. request'[r] = x /\ \A q \in Requests \ {r} : request'[q] = request[q]
  BY <1>1, <1>2 DEF TypeOK
<1>5. /\ \A c \in Challenges \ {ch} : challenge'[c] = challenge[c]
      /\ challenge'[ch].status = "consumed"
      /\ challenge' \in [Challenges -> Challenge]
  BY <1>1, <1>2 DEF TypeOK, Challenge
<1>6. /\ \A q \in Requests : request[q].origin # Direct => request[q].origin \in Challenges \ {ch}
      /\ \A s \in SessionIds : session[s].origin # Direct => session[s].origin \in Challenges \ {ch}
  BY <1>1, <1>2 DEF Claimed, TypeOK, Session
<1>7. ch # Direct
  BY SessionsAssumption
<1> HIDE DEF x
<1>8. TypeOK'
  BY <1>1, <1>2, <1>3, <1>4, <1>5 DEF TypeOK, accessVars, Placement
<1>9. Placed'
  BY <1>1, <1>3, <1>4 DEF Placed
<1>10. Exclusive'
  BY <1>1, <1>2, <1>3, <1>4, <1>6, <1>7 DEF Exclusive
<1>11. Claimed'
  BY <1>1, <1>2, <1>3, <1>4, <1>5, <1>6 DEF Claimed
<1>12. FailuresCounted' /\ Fresh' /\ ReplayEndsSession' /\ StaysEnded
  BY <1>1, <1>2 DEF FailuresCounted, Fresh, ReplayEndsSession, StaysEnded, Ended
<1>13. QED
  BY <1>8, <1>9, <1>10, <1>11, <1>12 DEF IInv

\* A session is created: the challenge passes from its request to it.
LEMMA CreateKeeps ==
    ASSUME IInv, NEW r \in Requests, NEW s \in SessionIds,
           CreateTenantSession(r, s) \/ CreatePlatformSession(r, s)
    PROVE  IInv' /\ StaysEnded
<1>1. TypeOK /\ Placed /\ Claimed /\ Fresh /\ Exclusive /\ ReplayEndsSession /\ FailuresCounted
  BY DEF IInv
<1> DEFINE c == request[r].context
           o == request[r].origin
           x == Opened(c, o)
<1>2. /\ request[r].at = "authorized"
      /\ session[s].status = "none"
      /\ session' = [session EXCEPT ![s] = x]
      /\ request' = [request EXCEPT ![r] = Idle]
      /\ UNCHANGED <<accessVars, credential, challenge, history, wrong, replayed>>
  BY DEF CreateTenantSession, CreatePlatformSession, Leave
<1>3. c \in Contexts /\ o \in Challenges \cup {Direct}
  BY <1>1, <1>2 DEF Placed, TypeOK
<1>4. x \in Session /\ x.status = "active" /\ x.context = c /\ x.origin = o
  BY <1>3, OpenedSession
<1>5. request'[r] = Idle /\ \A q \in Requests \ {r} : request'[q] = request[q]
  BY <1>1, <1>2 DEF TypeOK
<1>6. session'[s] = x /\ \A q \in SessionIds \ {s} : session'[q] = session[q]
  BY <1>1, <1>2 DEF TypeOK
<1>7. ~Ended(s) /\ s \notin replayed
  BY <1>1, <1>2 DEF ReplayEndsSession, Ended
<1>8. session[s].origin = Direct
  BY <1>1, <1>2 DEF Fresh, NoSession
<1>9. o # Direct => challenge[o].status = "consumed" /\ challenge[o].offer[c] # 0
  BY <1>1, <1>2 DEF Claimed
<1> HIDE DEF x
<1>10. TypeOK'
  BY <1>1, <1>2, <1>4, <1>5, IdlePlacement DEF TypeOK, accessVars, Placement, Idle
<1>11. Placed'
  BY <1>1, <1>5, IdlePlacement DEF Placed
<1>12. Claimed'
  BY <1>1, <1>2, <1>4, <1>5, <1>6, <1>9, IdlePlacement DEF Claimed
<1>13. Exclusive'
  <2>1. \A q1, q2 \in Requests :
            request'[q1].origin = request'[q2].origin /\ request'[q1].origin # Direct => q1 = q2
    BY <1>1, <1>5, IdlePlacement DEF Exclusive
  <2>2. \A q \in SessionIds \ {s} : session[q].origin = o => o = Direct
    BY <1>1 DEF Exclusive
  <2>3. \A s1, s2 \in SessionIds :
            session'[s1].origin = session'[s2].origin /\ session'[s1].origin # Direct => s1 = s2
    BY <1>1, <1>4, <1>6, <2>2 DEF Exclusive
  <2>4. \A q \in Requests \ {r} : request[q].origin = o => o = Direct
    BY <1>1 DEF Exclusive
  <2>5. \A q \in Requests, p \in SessionIds :
            request'[q].origin = session'[p].origin => request'[q].origin = Direct
    BY <1>1, <1>4, <1>5, <1>6, <2>4, IdlePlacement DEF Exclusive
  <2>6. QED
    BY <2>1, <2>3, <2>5 DEF Exclusive
<1>14. Fresh'
  BY <1>1, <1>4, <1>6 DEF Fresh
<1>15. FailuresCounted'
  BY <1>1, <1>2 DEF FailuresCounted
<1>16. ReplayEndsSession' /\ StaysEnded
  BY <1>1, <1>2, <1>6, <1>7 DEF ReplayEndsSession, StaysEnded, Ended, TypeOK
<1>17. QED
  BY <1>10, <1>11, <1>12, <1>13, <1>14, <1>15, <1>16 DEF IInv

\* A challenge expires, or a lock ends.
LEMMA ClockKeeps ==
    ASSUME IInv, LockEnds \/ \E ch \in Challenges : ChallengeExpires(ch)
    PROVE  IInv' /\ StaysEnded
<1>1. TypeOK /\ Placed /\ Claimed /\ Fresh /\ Exclusive /\ ReplayEndsSession /\ FailuresCounted
  BY DEF IInv
<1>2. CASE LockEnds
  <2>1. credential' \in Credential /\ FailuresCounted'
    BY <1>1, <1>2 DEF LockEnds, Credential, FailuresCounted, TypeOK
  <2>2. TypeOK'
    BY <1>1, <1>2, <2>1 DEF LockEnds, TypeOK, accessVars
  <2>3. Placed' /\ Claimed' /\ Fresh' /\ Exclusive' /\ ReplayEndsSession' /\ StaysEnded
    BY <1>1, <1>2 DEF LockEnds, Placed, Claimed, Fresh, Exclusive, ReplayEndsSession,
                      StaysEnded, Ended
  <2>4. QED
    BY <2>1, <2>2, <2>3 DEF IInv
<1>3. ASSUME NEW ch \in Challenges, ChallengeExpires(ch) PROVE IInv' /\ StaysEnded
  <2>1. /\ challenge' = [challenge EXCEPT ![ch].status = "expired"]
        /\ challenge[ch].status = "pending"
        /\ UNCHANGED <<accessVars, credential, session, history, request, wrong, replayed>>
    BY <1>3 DEF ChallengeExpires
  <2>2. /\ challenge' \in [Challenges -> Challenge]
        /\ \A c \in Challenges \ {ch} : challenge'[c] = challenge[c]
    BY <1>1, <2>1 DEF TypeOK, Challenge
  <2>3. TypeOK'
    BY <1>1, <2>1, <2>2 DEF TypeOK, accessVars
  <2>4. Claimed'
    <3>1. /\ \A q \in Requests : request[q].origin # Direct =>
                 request[q].origin \in Challenges \ {ch}
          /\ \A s \in SessionIds : session[s].origin # Direct =>
                 session[s].origin \in Challenges \ {ch}
      BY <1>1, <2>1 DEF Claimed, TypeOK, Session
    <3>2. QED
      BY <1>1, <2>1, <2>2, <3>1 DEF Claimed
  <2>5. Placed' /\ Fresh' /\ Exclusive' /\ ReplayEndsSession' /\ FailuresCounted' /\ StaysEnded
    BY <1>1, <2>1 DEF Placed, Fresh, Exclusive, ReplayEndsSession, FailuresCounted,
                      StaysEnded, Ended
  <2>6. QED
    BY <2>3, <2>4, <2>5 DEF IInv
<1>4. QED
  BY <1>2, <1>3

-----------------------------------------------------------------------------
(* Administrators. *)

\* They change what a login context rests on and end sessions, nothing else.
LEMMA AdministerKeeps ==
    ASSUME IInv, NEW c \in Contexts, Administer(c)
    PROVE  IInv' /\ StaysEnded
<1>1. TypeOK /\ context[c] \in Context /\ session \in [SessionIds -> Session]
  BY DEF IInv, TypeOK
<1>2. ASSUME session' = session \/ \E except : session' = EndAll(c, except),
             context' \in [Contexts -> Context], identity' \in BOOLEAN,
             owner' \in Tenants \cup {Nobody},
             UNCHANGED <<credential, challenge, history, request, wrong, replayed>>
      PROVE  IInv' /\ StaysEnded
  <2>1. Touched /\ \A s \in SessionIds : Ended(s) => session'[s] = session[s]
    <3>1. CASE session' = session
      BY <1>1, <3>1 DEF Touched
    <3>2. ASSUME NEW except, session' = EndAll(c, except)
          PROVE Touched /\ \A s \in SessionIds : Ended(s) => session'[s] = session[s]
      BY <1>1, <3>2, EndAllTouches
    <3>3. QED
      BY <1>2, <3>1, <3>2
  <2>2. StaysEnded
    BY <1>2, <2>1 DEF StaysEnded, Ended
  <2>3. Placed' /\ Claimed' /\ Fresh' /\ Exclusive'
    BY <1>2, <2>1, ClaimsKept
  <2>4. TypeOK'
    BY <1>1, <1>2, <2>1 DEF TypeOK, Touched
  <2>5. FailuresCounted' /\ ReplayEndsSession'
    BY <1>1, <1>2, <2>2 DEF IInv, FailuresCounted, ReplayEndsSession, StaysEnded, TypeOK
  <2>6. QED
    BY <2>2, <2>3, <2>4, <2>5 DEF IInv
<1>3. \A on \in BOOLEAN : c \in Tenants => Identifiers(c, on) \in Tenants \cup {Nobody}
  BY <1>1 DEF Identifiers, TypeOK
<1>4. context[c].version < MaxVersion => NextVersion(context[c]) \in Context
  BY <1>1, SessionsAssumption DEF NextVersion, Context
<1>5. CASE RevokeAllSessions(c)
  BY <1>1, <1>2, <1>5 DEF RevokeAllSessions, accessVars, TypeOK
<1>6. CASE ResetPassword(c)
  BY <1>1, <1>2, <1>4, <1>6 DEF ResetPassword, TypeOK
<1>7. ASSUME NEW on \in BOOLEAN, SetUserStatus(c, on) PROVE IInv' /\ StaysEnded
  <2>1. context' \in [Contexts -> Context]
    BY <1>1, <1>7 DEF SetUserStatus, TypeOK, Context
  <2>2. QED
    BY <1>1, <1>2, <1>3, <1>7, <2>1 DEF SetUserStatus, TypeOK
<1>8. ASSUME NEW on \in BOOLEAN, SetPlatformMember(c, on) PROVE IInv' /\ StaysEnded
  <2>1. context' \in [Contexts -> Context]
    BY <1>1, <1>8 DEF SetPlatformMember, TypeOK, Context
  <2>2. session' = session \/ session' = EndAll(c, {})
    BY <1>8 DEF SetPlatformMember
  <2>3. QED
    BY <1>1, <1>2, <1>8, <2>1, <2>2 DEF SetPlatformMember, TypeOK
<1>9. ASSUME context[c].version < MaxVersion, NEW b \in BOOLEAN
      PROVE  [NextVersion(context[c]) EXCEPT !.member = b, !.user = b] \in Context
  BY <1>4, <1>9 DEF Context
<1>10. CASE TakeAccess(c)
  <2>1. context' \in [Contexts -> Context]
    BY <1>1, <1>9, <1>10 DEF TakeAccess, TypeOK
  <2>2. QED
    BY <1>1, <1>2, <1>3, <1>10, <2>1 DEF TakeAccess
<1>11. CASE RestoreAccess(c)
  <2>1. context' \in [Contexts -> Context]
    BY <1>1, <1>9, <1>11 DEF RestoreAccess, TypeOK
  <2>2. QED
    BY <1>1, <1>2, <1>3, <1>11, <2>1 DEF RestoreAccess
<1>12. QED
  BY <1>5, <1>6, <1>7, <1>8, <1>10, <1>11 DEF Administer

-----------------------------------------------------------------------------
(* The theorems. *)

\* Before the first request nobody holds a challenge or a session.
LEMMA InitHolds == Init => IInv
<1> SUFFICES ASSUME Init PROVE IInv
  OBVIOUS
<1>1. PICK taken \in SUBSET Tenants :
         /\ identity = (taken = {})
         /\ context = [c \in Contexts |-> [member |-> c \notin taken, user |-> c \notin taken,
                                           version |-> 1]]
         /\ owner \in IF taken = Tenants THEN {Nobody} ELSE Tenants \ taken
  BY DEF Init
<1>2. /\ credential = [failures |-> 0, locked |-> FALSE]
      /\ challenge = [c \in Challenges |->
                         [status |-> "none", offer |-> [x \in Contexts |-> 0]]]
      /\ session = [s \in SessionIds |-> NoSession]
      /\ history = [s \in SessionIds |-> {}]
      /\ request = [r \in Requests |-> Idle]
      /\ wrong = 0
      /\ replayed = {}
  BY DEF Init
<1>3. context \in [Contexts -> Context] /\ identity \in BOOLEAN /\ owner \in Tenants \cup {Nobody}
  <2>1. 1 \in 1 .. MaxVersion
    BY SessionsAssumption
  <2>2. ASSUME NEW c \in Contexts
        PROVE  [member |-> c \notin taken, user |-> c \notin taken, version |-> 1] \in Context
    <3> DEFINE b == c \notin taken
    <3>1. b \in BOOLEAN
      OBVIOUS
    <3> HIDE DEF b
    <3>2. [member |-> b, user |-> b, version |-> 1] \in Context
      BY <2>1, <3>1 DEF Context
    <3> QED BY <3>2 DEF b
  <2>3. context \in [Contexts -> Context]
    BY <1>1, <2>2
  <2>4. identity \in BOOLEAN /\ owner \in Tenants \cup {Nobody}
    BY <1>1
  <2>5. QED
    BY <2>3, <2>4
<1>4. NoSession \in Session /\ NoSession.status = "none" /\ NoSession.origin = Direct
  BY SessionsAssumption DEF NoSession, Session
<1>5. challenge \in [Challenges -> Challenge]
  BY <1>2, SessionsAssumption DEF Challenge
<1>6. credential \in Credential /\ wrong \in 0 .. MaxFailed + 1
  BY <1>2, SessionsAssumption DEF Credential
<1>7. TypeOK
  <2>1. \A r \in Requests : request[r] \in Placement
    BY <1>2, IdlePlacement
  <2>2. QED
    BY <1>2, <1>3, <1>4, <1>5, <1>6, <2>1 DEF TypeOK, Placement
<1>8. FailuresCounted /\ ReplayEndsSession
  BY <1>2 DEF FailuresCounted, ReplayEndsSession
<1>9. Placed /\ Claimed /\ Fresh /\ Exclusive
  BY <1>2, <1>4, IdlePlacement DEF Placed, Claimed, Fresh, Exclusive
<1>10. QED
  BY <1>7, <1>8, <1>9 DEF IInv

\* Every step keeps the invariant and what ended.
LEMMA NextKeeps == IInv /\ [Next]_vars => IInv' /\ StaysEnded
<1> SUFFICES ASSUME IInv, [Next]_vars PROVE IInv' /\ StaysEnded
  OBVIOUS
<1>1. ASSUME NEW r \in Requests, SignIn(r) PROVE IInv' /\ StaysEnded
  BY <1>1, MovesKeep, OfferKeeps, ConsumeKeeps, CreateKeeps DEF SignIn
<1>2. ASSUME NEW s \in SessionIds, UseSession(s) PROVE IInv' /\ StaysEnded
  BY <1>2, UseSessionKeeps
<1>3. ASSUME NEW c \in Contexts, Administer(c) PROVE IInv' /\ StaysEnded
  BY <1>3, AdministerKeeps
<1>4. CASE LockEnds \/ \E ch \in Challenges : ChallengeExpires(ch)
  BY <1>4, ClockKeeps
<1>5. CASE UNCHANGED vars
  <2>1. UNCHANGED <<identity, context, owner, credential, challenge, session, history, request,
                    wrong, replayed>>
    BY <1>5 DEF vars
  <2>2. QED
    BY <2>1 DEF IInv, TypeOK, FailuresCounted, ReplayEndsSession, Placed, Claimed, Fresh,
                Exclusive, StaysEnded, Ended
<1>6. QED
  BY <1>1, <1>2, <1>3, <1>4, <1>5 DEF Next

\* A set without two different elements has at most one.
LEMMA AtMostOne ==
    ASSUME NEW S, \A x, y \in S : x = y
    PROVE  (S = {} /\ Cardinality(S) = 0) \/ (S # {} /\ Cardinality(S) = 1)
<1>1. CASE S = {}
  BY <1>1, FS_EmptySet
<1>2. CASE S # {}
  <2>1. PICK x \in S : S = {x}
    BY <1>2
  <2>2. QED
    BY <1>2, <2>1, FS_Singleton
<1>3. QED
  BY <1>1, <1>2

\* The pairwise form of the invariant counted.
LEMMA ExclusiveMeansOne == IInv => ChallengeYieldsOneSession
<1> SUFFICES ASSUME IInv, NEW ch \in Challenges
             PROVE  LET opened == {s \in SessionIds : session[s].status # "none"
                                                       /\ session[s].origin = ch}
                        inProgress == {r \in Requests : request[r].origin = ch}
                    IN /\ Cardinality(opened) + Cardinality(inProgress) <= 1
                       /\ \A s \in opened : challenge[ch].offer[session[s].context] # 0
                       /\ opened \cup inProgress # {} => challenge[ch].status = "consumed"
  BY DEF ChallengeYieldsOneSession
<1> DEFINE opened == {s \in SessionIds : session[s].status # "none" /\ session[s].origin = ch}
           inProgress == {r \in Requests : request[r].origin = ch}
<1>1. ch # Direct
  BY SessionsAssumption
<1>2. \A x, y \in opened : x = y
  BY <1>1 DEF IInv, Exclusive
<1>3. \A x, y \in inProgress : x = y
  BY <1>1 DEF IInv, Exclusive
<1>4. opened = {} \/ inProgress = {}
  BY <1>1 DEF IInv, Exclusive
<1>5. Cardinality(opened) + Cardinality(inProgress) <= 1
  <2>1. (opened = {} /\ Cardinality(opened) = 0) \/ (opened # {} /\ Cardinality(opened) = 1)
    BY <1>2, AtMostOne
  <2>2. \/ inProgress = {} /\ Cardinality(inProgress) = 0
        \/ inProgress # {} /\ Cardinality(inProgress) = 1
    BY <1>3, AtMostOne
  <2> HIDE DEF opened, inProgress
  <2>3. QED
    BY <1>4, <2>1, <2>2
<1>6. \A s \in opened : challenge[ch].offer[session[s].context] # 0
  BY <1>1 DEF IInv, Claimed
<1>7. opened \cup inProgress # {} => challenge[ch].status = "consumed"
  BY <1>1 DEF IInv, Claimed
<1>8. QED
  BY <1>5, <1>6, <1>7

\* The invariant holds in every reachable state (every request of the
\* authentication services and every administrative operation keeps it).
THEOREM Invariance == Spec => []IInv
<1>1. IInv /\ [Next]_vars => IInv'
  BY NextKeeps
<1>2. QED
  BY InitHolds, <1>1, PTL DEF Spec

\* Sessions, challenges and requests hold values of their columns.
THEOREM TypeCorrect == Spec => []TypeOK
<1>1. IInv => TypeOK
  BY DEF IInv
<1>2. QED
  BY Invariance, <1>1, PTL

\* A challenge yields at most one session, however many requests present it
\* (consumePendingLoginChallenge is one UPDATE of an unconsumed row).
THEOREM OneSessionPerChallenge == Spec => []ChallengeYieldsOneSession
  BY Invariance, ExclusiveMeansOne, PTL

\* Presenting a replaced refresh token ends its session (rotate).
THEOREM ReplayEnds == Spec => []ReplayEndsSession
<1>1. IInv => ReplayEndsSession
  BY DEF IInv
<1>2. QED
  BY Invariance, <1>1, PTL

\* The lockout counts every wrong password since the last right one, and
\* never locks before the limit (recordFailedIdentityLogin).
THEOREM FailuresCountExactly == Spec => []FailuresCounted
<1>1. IInv => FailuresCounted
  BY DEF IInv
<1>2. QED
  BY Invariance, <1>1, PTL

\* No step revives an ended session or gives it a token.
THEOREM EndsAreFinal == Spec => EndIsFinal
<1>1. IInv /\ [Next]_vars =>
          [\A s \in SessionIds : Ended(s) =>
              /\ Ended(s)'
              /\ session'[s].token = session[s].token
              /\ history'[s] = history[s]]_vars
  BY NextKeeps DEF StaysEnded
<1>2. QED
  BY Invariance, <1>1, PTL DEF Spec, EndIsFinal

------------------------------------------------------------------------------
(* Access.                                                                 *)

\* What request r has found on its way to where it is.
Passed(at) ==
    IF at = "routePermission" THEN {"module"}
    ELSE IF at \in {"module", "branch"} THEN {"module", "permission"}
    ELSE IF at \in {"permission", "write"} THEN Checks
    ELSE {}

\* Who is about to write a role knows which.
RoleKnown ==
    \A r \in Calls :
        call[r].at \in {"deleting", "assigning", "replacing", "inserting"}
            => call[r].role \in Roles

PassedHeld == \A r \in Works : Passed(call[r].at) \cap denied[r] = {}

AccessInv == AccessTypeOK /\ RoleKnown /\ PassedHeld

\* A request that moves on or ends is one, and the others stay.
LEMMA CallSteps ==
    ASSUME AccessInv, NEW r \in Calls, NEW q \in Call, q.at = "idle" => q = NoCall,
           q.at \in {"deleting", "assigning", "replacing", "inserting"} => q.role \in Roles,
           call' = [call EXCEPT ![r] = q]
    PROVE  /\ call' \in [Calls -> Call]
           /\ \A x \in Calls : call'[x].at = "idle" => call'[x] = NoCall
           /\ RoleKnown' /\ call'[r] = q
           /\ \A x \in Calls : x # r => call'[x] = call[x]
<1>1. call \in [Calls -> Call]
  BY DEF AccessInv, AccessTypeOK
<1>2. call'[r] = q /\ \A x \in Calls : x # r => call'[x] = call[x]
  BY <1>1
<1>3. call' \in [Calls -> Call]
  BY <1>1
<1>4. RoleKnown'
  BY <1>2 DEF AccessInv, RoleKnown
<1>5. \A x \in Calls : call'[x].at = "idle" => call'[x] = NoCall
  BY <1>2 DEF AccessInv, AccessTypeOK
<1>6. QED
  BY <1>2, <1>3, <1>4, <1>5

\* Leaving, and moving on.
LEMMA EndSteps ==
    ASSUME AccessInv, NEW r \in Calls, EndCall(r)
    PROVE  /\ call' \in [Calls -> Call]
           /\ \A x \in Calls : call'[x].at = "idle" => call'[x] = NoCall
           /\ RoleKnown' /\ call'[r] = NoCall
           /\ \A x \in Calls : x # r => call'[x] = call[x]
<1>1. NoCall \in Call /\ NoCall.at = "idle"
  BY DEF NoCall, Call
<1>2. QED
  BY <1>1, CallSteps DEF EndCall

\* A request goes to the next place, where it writes no role.
LEMMA MoveSteps ==
    ASSUME AccessInv, NEW r \in Calls, NEW from,
           NEW to \in {"routePermission", "module", "branch", "permission", "write",
                       "context", "contextWrite"},
           Move(r, from, to)
    PROVE  /\ call' \in [Calls -> Call]
           /\ \A x \in Calls : call'[x].at = "idle" => call'[x] = NoCall
           /\ RoleKnown' /\ call[r].at = from /\ call'[r].at = to
           /\ call'[r].branch = call[r].branch
           /\ \A x \in Calls : x # r => call'[x] = call[x]
<1> DEFINE q == [call[r] EXCEPT !.at = to]
<1>1. call[r] \in Call
  BY DEF AccessInv, AccessTypeOK
<1>2. /\ q \in Call /\ q.at = to /\ q.branch = call[r].branch
  BY <1>1 DEF Call
<1>3. call' = [call EXCEPT ![r] = q] /\ call[r].at = from
  BY DEF Move
<1> HIDE DEF q
<1>4. QED
  BY <1>2, <1>3, CallSteps

\* A request of administration that begins a position of its own.
LEMMA FindSteps ==
    ASSUME AccessInv, NEW r \in Calls,
           NEW at \in {"deleting", "assigning", "replacing"}, NEW x \in Roles,
           NEW keys \in SUBSET Permissions,
           call' = [call EXCEPT ![r] = [NoCall EXCEPT !.at = at, !.role = x, !.keys = keys]]
    PROVE  /\ call' \in [Calls -> Call]
           /\ \A y \in Calls : call'[y].at = "idle" => call'[y] = NoCall
           /\ RoleKnown' /\ call'[r].at = at
           /\ \A y \in Calls : y # r => call'[y] = call[y]
<1> DEFINE q == [NoCall EXCEPT !.at = at, !.role = x, !.keys = keys]
<1>1. q \in Call /\ q.at = at /\ q.role = x
  BY DEF NoCall, Call
<1>2. call' = [call EXCEPT ![r] = q]
  OBVIOUS
<1> HIDE DEF q
<1>3. QED
  BY <1>1, <1>2, CallSteps

\* A request that names a branch.
LEMMA BranchSteps ==
    ASSUME AccessInv, NEW r \in Calls, NEW at \in {"route", "contextYear", "default"},
           NEW b \in Branches,
           call' = [call EXCEPT ![r] = [NoCall EXCEPT !.at = at, !.branch = b]]
    PROVE  /\ call' \in [Calls -> Call]
           /\ \A y \in Calls : call'[y].at = "idle" => call'[y] = NoCall
           /\ RoleKnown' /\ call'[r].at = at
           /\ \A y \in Calls : y # r => call'[y] = call[y]
<1> DEFINE q == [NoCall EXCEPT !.at = at, !.branch = b]
<1>1. q \in Call /\ q.at = at
  BY DEF NoCall, Call
<1>2. call' = [call EXCEPT ![r] = q]
  OBVIOUS
<1> HIDE DEF q
<1>3. QED
  BY <1>1, <1>2, CallSteps

\* What a request has found it keeps, while it is where it was.
LEMMA PassedStays ==
    ASSUME AccessInv, Observe, NEW r \in Works, call'[r].at = call[r].at
    PROVE  Passed(call'[r].at) \cap denied'[r] = {}
<1>1. CASE call'[r].at = "idle"
  BY <1>1 DEF Passed
<1>2. CASE call'[r].at # "idle"
  BY <1>2 DEF AccessInv, PassedHeld, Observe
<1>3. QED
  BY <1>1, <1>2

\* What it has found now it has found, too.
LEMMA PassedMore ==
    ASSUME AccessInv, Observe, NEW r \in Works, NEW now,
           Passed(call'[r].at) \subseteq Passed(call[r].at) \cup now,
           call'[r].at # "idle", now \subseteq Holds(r)
    PROVE  Passed(call'[r].at) \cap denied'[r] = {}
  BY DEF AccessInv, PassedHeld, Observe

\* The history of each request is of checks.
LEMMA ObserveTypes == ASSUME AccessTypeOK, Observe PROVE denied' \in [Works -> SUBSET Checks]
  BY DEF AccessTypeOK, Observe

\* What the check of a position finds holds.
LEMMA ChecksHold ==
    ASSUME AccessTypeOK, NEW r \in Works
    PROVE  /\ ModuleEnabled => "module" \in Holds(r)
           /\ BranchAllowed(call[r].branch) => "branch" \in Holds(r)
           /\ HasPermission(WorkPermission) => "permission" \in Holds(r)
  BY DEF AccessTypeOK, Holds, Checks, ModuleEnabled, BranchAllowed, HasPermission,
         PermissionKeys, Live

\* Requests of the user.
LEMMA WorkKeeps == ASSUME AccessInv, NEW r \in Works, Work(r), Observe PROVE AccessInv'
<1>1. r \in Calls /\ AccessTypeOK
  BY DEF AccessInv, Calls
<1> DEFINE Follows ==
             /\ call' \in [Calls -> Call]
             /\ \A x \in Calls : call'[x].at = "idle" => call'[x] = NoCall
             /\ RoleKnown' /\ \A x \in Calls : x # r => call'[x] = call[x]
<1>2. ASSUME Follows, UNCHANGED tables \/ SetContext(r),
             Passed(call'[r].at) \cap denied'[r] = {}
      PROVE  AccessInv'
  <2>1. PassedHeld'
    <3>1. \A x \in Works \ {r} : Passed(call'[x].at) \cap denied'[x] = {}
      BY <1>2, PassedStays DEF Calls
    <3>2. QED
      BY <1>2, <3>1 DEF PassedHeld
  <2>2. AccessTypeOK'
    <3>1. CASE UNCHANGED tables
      BY <1>1, <1>2, <3>1, ObserveTypes DEF AccessTypeOK, tables
    <3>2. CASE SetContext(r)
      <4>1. call[r].branch \in Branches \cup {None}
        BY <1>1 DEF AccessTypeOK, Call
      <4>2. QED
        BY <1>1, <1>2, <3>2, <4>1, ObserveTypes DEF AccessTypeOK, SetContext, roleTables
    <3>3. QED
      BY <1>2, <3>1, <3>2
  <2>3. QED
    BY <1>2, <2>1, <2>2 DEF AccessInv
<1>3. CASE EndCall(r) /\ (UNCHANGED tables \/ SetContext(r))
  <2>1. Follows /\ call'[r] = NoCall
    BY <1>1, <1>3, EndSteps
  <2>2. Passed(call'[r].at) = {}
    BY <2>1 DEF Passed, NoCall
  <2>3. QED
    BY <1>2, <1>3, <2>1, <2>2
<1>4. ASSUME NEW from, NEW now, now \subseteq Holds(r), UNCHANGED tables,
             NEW to \in {"routePermission", "module", "branch", "permission", "write",
                         "context", "contextWrite"},
             Move(r, from, to), Passed(to) \subseteq Passed(from) \cup now
      PROVE  AccessInv'
  <2>1. Follows /\ call[r].at = from /\ call'[r].at = to
    BY <1>1, <1>4, MoveSteps
  <2>2. Passed(call'[r].at) \cap denied'[r] = {}
    BY <1>4, <2>1, PassedMore
  <2>3. QED
    BY <1>2, <1>4, <2>1, <2>2
<1>5. CASE Arrive(r) \/ \E b \in Branches : ChooseBranch(r, b)
  <2>1. UNCHANGED tables /\ \E at \in {"route", "contextYear"}, b \in Branches :
          call' = [call EXCEPT ![r] = [NoCall EXCEPT !.at = at, !.branch = b]]
    <3>1. Arrive(r) => ContextBranch \in Branches
      BY <1>1 DEF Arrive, ContextBranch, AccessTypeOK
    <3>2. QED
      BY <1>5, <3>1 DEF Arrive, ChooseBranch
  <2>2. PICK at \in {"route", "contextYear"}, b \in Branches :
          call' = [call EXCEPT ![r] = [NoCall EXCEPT !.at = at, !.branch = b]]
    BY <2>1
  <2>3. Follows /\ call'[r].at = at
    BY <1>1, <2>2, BranchSteps
  <2>4. Passed(call'[r].at) = {}
    BY <2>3 DEF Passed
  <2>5. QED
    BY <1>2, <2>1, <2>3, <2>4
<1>6. CASE RouteModule(r)
  BY <1>1, <1>4, <1>6, ChecksHold DEF RouteModule, Passed
<1>7. CASE RoutePermission(r)
  BY <1>1, <1>4, <1>7, ChecksHold DEF RoutePermission, Passed
<1>8. CASE ServiceModule(r)
  BY <1>1, <1>4, <1>8, ChecksHold DEF ServiceModule, Passed
<1>9. CASE ServiceBranch(r)
  BY <1>1, <1>4, <1>9, ChecksHold DEF ServiceBranch, Passed, Checks
<1>10. CASE ServicePermission(r)
  BY <1>1, <1>4, <1>10, ChecksHold DEF ServicePermission, Passed, Checks
<1>11. CASE Refused(r) \/ Write(r) \/ SetContext(r)
  BY <1>3, <1>11 DEF Refused, Write, SetContext
<1>12. CASE ChooseYear(r) \/ AllowAgain(r)
  <2>1. CASE EndCall(r) /\ UNCHANGED tables
    BY <1>3, <2>1
  <2>2. CASE Move(r, "contextYear", "context") /\ UNCHANGED tables
    BY <1>4, <2>2 DEF Passed
  <2>3. CASE Move(r, "context", "contextWrite") /\ UNCHANGED tables
    BY <1>4, <2>3 DEF Passed
  <2>4. QED
    BY <1>12, <2>1, <2>2, <2>3 DEF ChooseYear, AllowAgain
<1>13. QED
  BY <1>5, <1>6, <1>7, <1>8, <1>9, <1>10, <1>11, <1>12 DEF Work

\* A row of the roles stays one.
LEMMA RoleSteps ==
    ASSUME AccessTypeOK, NEW x \in Roles, NEW status \in {"live", "deleted"},
           NEW c \in Codes, NEW s \in BOOLEAN,
           \/ SetDeleted(x, status)
           \/ InsertRole(x, c, s)
           \/ ChangeRole(x, c, s)
    PROVE  role' \in [Roles -> Role]
<1> DEFINE row == role'[x]
<1>1. role \in [Roles -> Role] /\ role[x] \in Role
  BY DEF AccessTypeOK
<1>2. CASE SetDeleted(x, status)
  <2>1. [role[x] EXCEPT !.status = status] \in Role
    BY <1>1 DEF Role
  <2>2. QED
    BY <1>1, <1>2, <2>1 DEF SetDeleted
<1>3. CASE InsertRole(x, c, s)
  <2>1. [status |-> "live", code |-> c, system |-> s] \in Role
    BY DEF Role
  <2>2. QED
    BY <1>1, <1>3, <2>1 DEF InsertRole
<1>4. CASE ChangeRole(x, c, s)
  <2>1. [role[x] EXCEPT !.code = c, !.system = s] \in Role
    BY <1>1 DEF Role
  <2>2. QED
    BY <1>1, <1>4, <2>1 DEF ChangeRole
<1>5. QED
  BY <1>2, <1>3, <1>4

\* Requests of administrators: what the user's requests found is not touched.
LEMMA AdministrationKeeps ==
    ASSUME AccessAssumption, AccessInv, NEW r \in Admins, AdministerAccess(r), Observe
    PROVE  AccessInv'
<1>1. /\ r \in Calls /\ r \notin Works /\ Works \subseteq Calls
      /\ AccessTypeOK /\ call[r] \in Call
  BY DEF AccessInv, Calls, AccessAssumption, AccessTypeOK
<1> DEFINE Follows ==
             /\ call' \in [Calls -> Call]
             /\ \A x \in Calls : call'[x].at = "idle" => call'[x] = NoCall
             /\ RoleKnown'
             /\ \A x \in Calls : x # r => call'[x].at = call[x].at
           Tables ==
             /\ active \in BOOLEAN /\ sales \in BOOLEAN
             /\ role \in [Roles -> Role]
             /\ grants \subseteq Roles \X Permissions
             /\ assigned \subseteq Roles
             /\ access \subseteq Branches
             /\ {default, working} \subseteq Branches \cup {None}
<1>2. ASSUME Follows, Tables' PROVE AccessInv'
  <2>1. \A x \in Works : Passed(call'[x].at) \cap denied'[x] = {}
    BY <1>1, <1>2, PassedStays
  <2>2. denied' \in [Works -> SUBSET Checks]
    BY <1>1, ObserveTypes
  <2>3. AccessTypeOK'
    BY <1>2, <2>2 DEF AccessTypeOK
  <2>4. QED
    BY <1>2, <2>1, <2>3 DEF AccessInv, PassedHeld
<1>3. Tables
  BY <1>1 DEF AccessTypeOK
<1>4. UNCHANGED tables => Tables'
  BY <1>3 DEF tables
<1>5. ASSUME EndCall(r) PROVE Follows
  BY <1>1, <1>5, EndSteps
<1>6. CASE \E x \in Roles : DeleteFinds(r, x) \/ AssignFinds(r, x)
  <2>1. PICK x \in Roles : DeleteFinds(r, x) \/ AssignFinds(r, x)
    BY <1>6
  <2>2. NoCall = [NoCall EXCEPT !.keys = {}] /\ {} \in SUBSET Permissions
    BY DEF NoCall
  <2>3. UNCHANGED tables /\ \E at \in {"deleting", "assigning", "replacing"} :
          call' = [call EXCEPT ![r] = [NoCall EXCEPT !.at = at, !.role = x, !.keys = {}]]
    BY <2>1, <2>2 DEF DeleteFinds, AssignFinds, NoCall
  <2>4. Follows
    <3>1. PICK at \in {"deleting", "assigning", "replacing"} :
            call' = [call EXCEPT ![r] = [NoCall EXCEPT !.at = at, !.role = x, !.keys = {}]]
      BY <2>3
    <3>2. QED
      BY <1>1, <2>2, <3>1, FindSteps
  <2>5. QED
    BY <1>2, <1>4, <2>3, <2>4
<1>7. CASE \E x \in Roles, keys \in SUBSET Permissions : ReplaceFinds(r, x, keys)
  <2>1. PICK x \in Roles, keys \in SUBSET Permissions : ReplaceFinds(r, x, keys)
    BY <1>7
  <2>2. Follows
    BY <1>1, <2>1, FindSteps DEF ReplaceFinds
  <2>3. QED
    BY <1>2, <1>4, <2>1, <2>2 DEF ReplaceFinds
<1>8. CASE \E b \in Branches : UpdateMemberFinds(r, b)
  <2>1. PICK b \in Branches : UpdateMemberFinds(r, b)
    BY <1>8
  <2>2. Follows
    BY <1>1, <2>1, BranchSteps DEF UpdateMemberFinds
  <2>3. QED
    BY <1>2, <1>4, <2>1, <2>2 DEF UpdateMemberFinds
<1>9. CASE DeleteRole(r)
  <2>1. call[r].role \in Roles
    BY <1>1, <1>9 DEF AccessInv, RoleKnown, DeleteRole
  <2>2. role' \in [Roles -> Role]
    <3>1. CASE Live(call[r].role)
      <4>1. SetDeleted(call[r].role, "deleted")
        BY <1>9, <3>1 DEF DeleteRole
      <4>2. role \in [Roles -> Role] /\ role[call[r].role] \in Role
        BY <1>1, <2>1 DEF AccessTypeOK
      <4>3. [role[call[r].role] EXCEPT !.status = "deleted"] \in Role
        BY <4>2 DEF Role
      <4>4. QED
        BY <4>1, <4>2, <4>3 DEF SetDeleted
    <3>2. CASE ~Live(call[r].role)
      BY <1>1, <1>9, <3>2 DEF DeleteRole, AccessTypeOK
    <3>3. QED
      BY <3>1, <3>2
  <2>3. Tables'
    BY <1>3, <1>9, <2>2 DEF DeleteRole, branchTables
  <2>4. QED
    BY <1>2, <1>5, <1>9, <2>3 DEF DeleteRole
<1>10. CASE AssignRole(r)
  <2>1. call[r].role \in Roles
    BY <1>1, <1>10 DEF AccessInv, RoleKnown, AssignRole
  <2>2. Tables'
    BY <1>3, <1>10, <2>1 DEF AssignRole, InsertUserRole, branchTables
  <2>3. QED
    BY <1>2, <1>5, <1>10, <2>2 DEF AssignRole
<1>11. CASE ReplaceDeletes(r)
  <2> DEFINE q == [call[r] EXCEPT !.at = "inserting", !.doomed = KeysOf(call[r].role)]
  <2>1. q \in Call /\ q.at = "inserting" /\ q.role = call[r].role
    BY <1>1 DEF Call, KeysOf
  <2>2. q.role \in Roles
    BY <1>1, <1>11, <2>1 DEF AccessInv, RoleKnown, ReplaceDeletes
  <2>3. call' = [call EXCEPT ![r] = q] /\ UNCHANGED tables
    BY <1>1, <1>11 DEF ReplaceDeletes, AccessTypeOK
  <2> HIDE DEF q
  <2>4. Follows
    BY <1>1, <2>1, <2>2, <2>3, CallSteps
  <2>5. QED
    BY <1>2, <1>4, <2>3, <2>4
<1>12. CASE ReplacePermissions(r)
  <2>1. call[r].role \in Roles /\ call[r].doomed \subseteq Permissions
        /\ call[r].keys \subseteq Permissions
    BY <1>1, <1>12 DEF AccessInv, RoleKnown, ReplacePermissions, Call
  <2>2. Tables'
    BY <1>3, <1>12, <2>1 DEF ReplacePermissions, branchTables
  <2>3. \A x \in Calls :
          /\ call'[x] \in Call
          /\ call'[x] = NoCall \/ call'[x].at = call[x].at
          /\ x # r => call'[x].at = call[x].at
          /\ call'[x].role = call[x].role \/ call'[x] = NoCall
          /\ call'[x].at = "idle" => call'[x] = NoCall
    <3>1. TAKE x \in Calls
    <3>2. call[x] \in Call /\ (call[x].at = "idle" => call[x] = NoCall)
      BY <1>1 DEF AccessTypeOK
    <3>3. CASE x = r
      <4>1. call'[x] = NoCall
        BY <1>12, <3>3 DEF ReplacePermissions
      <4>2. NoCall \in Call
        BY DEF NoCall, Call
      <4>3. QED
        BY <3>3, <4>1, <4>2
    <3>4. CASE x # r /\ call[x].role # call[r].role
      <4>1. call'[x] = call[x]
        BY <1>12, <3>4 DEF ReplacePermissions
      <4>2. QED
        BY <3>2, <4>1
    <3>5. CASE x # r /\ call[x].role = call[r].role
      <4>1. call'[x] = [call[x] EXCEPT !.doomed = @ \ call[r].doomed]
        BY <1>12, <3>5 DEF ReplacePermissions
      <4>2. call'[x] \in Call /\ call'[x].at = call[x].at
            /\ call'[x].role = call[x].role
        BY <3>2, <4>1 DEF Call
      <4>3. call[x].at # "idle"
        BY <1>1, <2>1, <3>2, <3>5 DEF NoCall, AccessAssumption
      <4>4. QED
        BY <4>2, <4>3
    <3>6. QED
      BY <3>3, <3>4, <3>5
  <2>4. DOMAIN call' = Calls /\ call' = [x \in Calls |-> call'[x]]
    BY <1>12 DEF ReplacePermissions
  <2>5. call' \in [Calls -> Call]
    BY <2>3, <2>4
  <2>6. RoleKnown'
    BY <2>3 DEF AccessInv, RoleKnown, NoCall
  <2>7. QED
    BY <1>2, <2>2, <2>3, <2>5, <2>6
<1>13. CASE \E on \in BOOLEAN : UpdateMember(r, on)
  <2>1. PICK on \in BOOLEAN : UpdateMember(r, on)
    BY <1>13
  <2>2. call[r].branch \in Branches \cup {None}
    BY <1>1 DEF Call
  <2>3. Tables'
    BY <1>3, <2>1, <2>2 DEF UpdateMember, SetStatus, roleTables
  <2>4. QED
    BY <1>2, <1>5, <2>1, <2>3 DEF UpdateMember
<1>14. QED
  BY <1>6, <1>7, <1>8, <1>9, <1>10, <1>11, <1>12, <1>13 DEF AdministerAccess

\* Handlers of one transaction.
LEMMA ManageKeeps == ASSUME AccessInv, Manage, Observe PROVE AccessInv'
<1>1. AccessTypeOK /\ Works \subseteq Calls
  BY DEF AccessInv, Calls
<1>2. ASSUME UNCHANGED call,
             /\ active' \in BOOLEAN /\ sales' \in BOOLEAN
             /\ role' \in [Roles -> Role]
             /\ grants' \subseteq Roles \X Permissions
             /\ assigned' \subseteq Roles
             /\ access' \subseteq Branches
             /\ UNCHANGED <<default, working>>
      PROVE  AccessInv'
  <2>1. \A x \in Works : Passed(call'[x].at) \cap denied'[x] = {}
    BY <1>1, <1>2, PassedStays
  <2>2. denied' \in [Works -> SUBSET Checks]
    BY <1>1, ObserveTypes
  <2>3. AccessTypeOK'
    BY <1>1, <1>2, <2>2 DEF AccessTypeOK
  <2>4. QED
    BY <1>2, <2>1, <2>3 DEF AccessInv, PassedHeld, RoleKnown
<1>3. ASSUME role' \in [Roles -> Role], UNCHANGED <<grants, assigned, noRequest>>
      PROVE  AccessInv'
  BY <1>1, <1>2, <1>3 DEF AccessTypeOK, noRequest, branchTables
<1>4. CASE \E x \in Roles, c \in Codes, s \in BOOLEAN :
              CreateRole(x, c, s) \/ UpdateRole(x, c, s)
  <2>1. PICK x \in Roles, c \in Codes, s \in BOOLEAN :
              CreateRole(x, c, s) \/ UpdateRole(x, c, s)
    BY <1>4
  <2>2. QED
    BY <1>1, <1>3, <2>1, RoleSteps DEF CreateRole, UpdateRole
<1>5. CASE \E x \in Roles : ActivateRole(x) \/ DeactivateRole(x) \/ RevokeRole(x)
  <2>1. PICK x \in Roles : ActivateRole(x) \/ DeactivateRole(x) \/ RevokeRole(x)
    BY <1>5
  <2>2. CASE ActivateRole(x) \/ DeactivateRole(x)
    <3>1. role[x].code \in Codes
      BY <1>1 DEF AccessTypeOK, Role
    <3>2. QED
      BY <1>1, <1>3, <2>2, <3>1, RoleSteps DEF ActivateRole, DeactivateRole
  <2>3. CASE RevokeRole(x)
    BY <1>1, <1>2, <2>3 DEF RevokeRole, RemoveRole, noRequest, branchTables,
                            AccessTypeOK
  <2>4. QED
    BY <2>1, <2>2, <2>3
<1>6. CASE \E x \in Roles, keys \in (SUBSET Permissions) \ {{}} :
              GrantPermissions(x, keys) \/ RevokePermissions(x, keys)
  <2>1. PICK x \in Roles, keys \in (SUBSET Permissions) \ {{}} :
              GrantPermissions(x, keys) \/ RevokePermissions(x, keys)
    BY <1>6
  <2>2. grants' \subseteq Roles \X Permissions
    BY <1>1, <2>1 DEF GrantPermissions, RevokePermissions, InsertPermissions,
                      RemovePermissions, AccessTypeOK
  <2>3. UNCHANGED <<role, assigned, noRequest>>
    BY <2>1 DEF GrantPermissions, RevokePermissions
  <2>4. QED
    BY <1>1, <1>2, <2>2, <2>3 DEF noRequest, branchTables, AccessTypeOK
<1>7. CASE EnableModule \/ DisableModule
  BY <1>1, <1>2, <1>7 DEF EnableModule, DisableModule, SetTenantModule,
                          roleTables, branchTables, AccessTypeOK
<1>8. CASE \E on \in BOOLEAN : SetMemberStatus(on)
  BY <1>1, <1>2, <1>8 DEF SetMemberStatus, SetStatus, roleTables,
                          branchTables, AccessTypeOK
<1>9. CASE \E b \in Branches : RevokeBranchAccess(b)
  BY <1>1, <1>2, <1>9 DEF RevokeBranchAccess, RemoveAccess, roleTables, AccessTypeOK
<1>10. QED
  BY <1>4, <1>5, <1>6, <1>7, <1>8, <1>9 DEF Manage

\* No request has begun.
LEMMA AccessInitSound == ASSUME AccessInit PROVE AccessInv
<1>1. NoCall \in Call /\ NoCall.at = "idle"
  BY DEF NoCall, Call
<1>2. call \in [Calls -> Call] /\ \A r \in Calls : call[r] = NoCall
  BY <1>1 DEF AccessInit
<1>3. role \in [Roles -> Role]
  <2>1. \A s \in {"none", "live"}, c \in Codes :
          [status |-> s, code |-> c, system |-> FALSE] \in Role
    BY DEF Role
  <2>2. {[status |-> s, code |-> c, system |-> FALSE] : s \in {"none", "live"}, c \in Codes}
          \subseteq Role
    BY <2>1
  <2>3. QED
    BY <2>2 DEF AccessInit
<1>4. AccessTypeOK
  BY <1>2, <1>3 DEF AccessInit, AccessTypeOK
<1>5. RoleKnown
  BY <1>1, <1>2 DEF RoleKnown
<1>6. \A r \in Works : call[r].at = "idle"
  BY <1>1, <1>2 DEF Calls
<1>7. QED
  BY <1>4, <1>5, <1>6 DEF AccessInv, PassedHeld, Passed

\* Every step keeps the invariant.
LEMMA AccessNextKeeps ==
    ASSUME AccessAssumption, AccessInv, [AccessNext]_authorizationVars PROVE AccessInv'
<1>1. CASE UNCHANGED authorizationVars
  BY <1>1 DEF authorizationVars, AccessInv, AccessTypeOK, RoleKnown, PassedHeld
<1>2. CASE AccessNext
  BY <1>2, WorkKeeps, AdministrationKeeps, ManageKeeps DEF AccessNext
<1>3. QED
  BY <1>1, <1>2

\* The invariant holds in every state.
THEOREM AccessInvariance == AccessSpec => []AccessInv
  BY AccessAssumption, AccessInitSound, AccessNextKeeps, PTL DEF AccessSpec

\* The variables of Access have their types.
THEOREM AccessTypeCorrect == AccessSpec => []AccessTypeOK
  BY AccessInvariance, PTL DEF AccessInv

\* When a request writes, the module, the permission and the branch that it
\* needs were each there in some state since it began (requirePermission,
\* authorize).
THEOREM RevocationsHold == AccessSpec => []RevocationHolds
<1>1. AccessInv => RevocationHolds
  <2>1. SUFFICES ASSUME AccessInv, NEW r \in Works, call[r].at = "write" PROVE denied[r] = {}
    BY DEF AccessInv, RevocationHolds
  <2>2. denied[r] \subseteq Checks /\ Checks \cap denied[r] = {}
    BY <2>1 DEF AccessInv, AccessTypeOK, PassedHeld, Passed
  <2>3. QED
    BY <2>2
<1>2. QED
  BY <1>1, AccessInvariance, PTL

------------------------------------------------------------------------------
(* AccountSecurity.                                                        *)

\* What the requests between two transactions know: the secret they proved,
\* the batch they made, and of the link they are about to create, that nobody
\* else creates it and that they replace every earlier one that is live.
ProvedShown == \A r \in Tasks : task[r].at = "proved" => task[r].secret \in shown
Replaces(r) ==
    LET k == task[r].kind  n == task[r].link
    IN  /\ link[k][n].status = "requested"
        /\ \A m \in link[k][n].before : link[k][m].status = "live" => m \in task[r].sees
Replacing ==
    /\ \A r \in Tasks : task[r].at = "replacing" => Replaces(r)
    /\ \A q, r \in Tasks :
          /\ task[q].at = "replacing" /\ task[r].at = "replacing"
          /\ task[q].kind = task[r].kind /\ task[q].link = task[r].link
          => q = r

\* Each enrollment is activated once at most.
EnrollmentsCounted ==
    /\ activated <= begun /\ batch <= activated
    /\ enrollment.secret # 0 => activated < begun

\* An unused code was never accepted; no code of a later batch was, either.
AcceptedOnce ==
    \A x \in RecoveryCodes :
        /\ codes[x] = "unused" \/ x[1] > activated => accepted[x] = 0
        /\ accepted[x] <= 1

\* A link is used once, and those it was requested after are committed.
LinkSound(k, n) ==
    /\ link[k][n].uses = IF link[k][n].status = "used" THEN 1 ELSE 0
    /\ link[k][n].before \subseteq Committed(k)
    /\ n \in Committed(k) => \A m \in link[k][n].before : link[k][m].status # "live"

MfaSound == ProvedBeforeEnabled /\ CodesBelong /\ EnrollmentsCounted /\ AcceptedOnce
LinksSound == Replacing /\ \A k \in Kinds, n \in Links : LinkSound(k, n)

AccountInv == AccountTypeOK /\ MfaSound /\ ProvedShown /\ LinksSound

\* What the fields of a task are.
LEMMA TaskFields ==
    ASSUME NEW q \in Task
    PROVE  /\ q.at = "proved" => q.secret \in Secrets
           /\ q.at = "activated" => q.batch \in Secrets
           /\ q.at = "consuming" => q.code \in RecoveryCodes
           /\ q.at = "replacing" => q.kind \in Kinds /\ q.link \in Links /\ q.sees \subseteq Links
           /\ q.at = "sending" => q.kind \in Kinds /\ q.link \in Links
  BY DEF Task, NoTask

\* A task goes on and the others stay.
LEMMA TaskMoves ==
    ASSUME AccountTypeOK, NEW r \in Tasks, NEW to \in Task, task' = [task EXCEPT ![r] = to]
    PROVE  /\ task' \in [Tasks -> Task] /\ task'[r] = to
           /\ \A q \in Tasks : q # r => task'[q] = task[q]
  BY DEF AccountTypeOK

\* What is sound stays sound where the variables of it stay.
LEMMA MfaStays ==
    ASSUME MfaSound, UNCHANGED mfaVars, user'.secret = user.secret PROVE MfaSound'
  BY DEF MfaSound, mfaVars, ProvedBeforeEnabled, CodesBelong, EnrollmentsCounted, AcceptedOnce

\* So it is with the links, where the task that moves on replaces none.
LEMMA LinksStay ==
    ASSUME AccountTypeOK, LinksSound, NEW r \in Tasks, NEW to \in Task, to.at # "replacing",
           task' = [task EXCEPT ![r] = to], UNCHANGED link
    PROVE  LinksSound'
<1>1. task'[r].at # "replacing" /\ \A q \in Tasks : q # r => task'[q] = task[q]
  BY TaskMoves
<1>2. Replacing'
  <2>1. ASSUME NEW q \in Tasks, task'[q].at = "replacing" PROVE Replaces(q)'
    <3>1. q # r /\ task'[q] = task[q]
      BY <1>1, <2>1
    <3>2. QED
      BY <2>1, <3>1 DEF LinksSound, Replacing, Replaces
  <2>2. ASSUME NEW q \in Tasks, NEW p \in Tasks,
               task'[q].at = "replacing", task'[p].at = "replacing",
               task'[q].kind = task'[p].kind, task'[q].link = task'[p].link
        PROVE  q = p
    <3>1. task'[q] = task[q] /\ task'[p] = task[p]
      BY <1>1, <2>2
    <3>2. QED
      BY <2>2, <3>1 DEF LinksSound, Replacing
  <2>3. QED
    BY <2>1, <2>2 DEF Replacing
<1>3. \A k \in Kinds, n \in Links : LinkSound(k, n)'
  BY DEF LinksSound, LinkSound, Committed
<1>4. QED
  BY <1>2, <1>3 DEF LinksSound

\* ... nor where nothing of them changes.
LEMMA LinksStayWithTasks == LinksSound /\ UNCHANGED <<task, link>> => LinksSound'
  BY DEF LinksSound, Replacing, Replaces, LinkSound, Committed

\* What a proof showed stays shown.
LEMMA ProvedStays ==
    ASSUME AccountTypeOK, ProvedShown, NEW r \in Tasks, NEW to \in Task,
           task' = [task EXCEPT ![r] = to], shown \subseteq shown',
           to.at = "proved" => to.secret \in shown'
    PROVE  ProvedShown'
  BY TaskMoves DEF ProvedShown

------------------------------------------------------------------------------
\* Multi-factor authentication, without a task.
LEMMA EnrollmentKeeps ==
    ASSUME AccountSecurityAssumption, AccountInv,
           BeginEnrollment \/ EnrollmentExpires \/ DisableMfa
    PROVE  AccountInv'
<1>1. AccountTypeOK /\ MfaSound /\ ProvedShown /\ LinksSound
  BY DEF AccountInv
<1>2. UNCHANGED <<task, link, shown>>
  BY DEF BeginEnrollment, EnrollmentExpires, DisableMfa
<1>3. LinksSound' /\ ProvedShown'
  BY <1>1, <1>2, LinksStayWithTasks DEF ProvedShown
<1>4. MaxSecret \in Nat
  BY DEF AccountSecurityAssumption
<1>5. CASE BeginEnrollment
  <2>1. begun' = begun + 1 /\ begun' \in 1 .. MaxSecret
    BY <1>1, <1>4, <1>5 DEF BeginEnrollment, AccountTypeOK
  <2>2. enrollment' = [secret |-> begun', expired |-> FALSE]
    BY <1>5 DEF BeginEnrollment, EnrollmentRow
  <2>3. UNCHANGED <<user, link, task, served, codes, shown, batch, activated, handed, accepted>>
    BY <1>5 DEF BeginEnrollment
  <2>4. AccountTypeOK'
    <3>1. enrollment' \in [secret : 0 .. MaxSecret, expired : BOOLEAN]
      BY <1>4, <2>1, <2>2
    <3>2. QED
      BY <1>1, <1>4, <2>1, <2>3, <3>1 DEF AccountTypeOK
  <2>5. EnrollmentsCounted'
    BY <1>1, <2>1, <2>3 DEF AccountTypeOK, MfaSound, EnrollmentsCounted
  <2>6. MfaSound'
    BY <1>1, <2>3, <2>5 DEF MfaSound, ProvedBeforeEnabled, CodesBelong, AcceptedOnce
  <2>7. QED
    BY <1>3, <2>4, <2>6 DEF AccountInv
<1>6. CASE EnrollmentExpires
  <2>1. /\ enrollment'.secret = enrollment.secret
        /\ enrollment' \in [secret : 0 .. MaxSecret, expired : BOOLEAN]
    BY <1>1, <1>6 DEF EnrollmentExpires, AccountTypeOK
  <2>2. UNCHANGED <<user, link, task, served, codes, begun, shown, batch, activated,
                    handed, accepted>>
    BY <1>6 DEF EnrollmentExpires
  <2>3. AccountTypeOK'
    BY <1>1, <2>1, <2>2 DEF AccountTypeOK
  <2>4. MfaSound'
    BY <1>1, <2>1, <2>2
       DEF MfaSound, ProvedBeforeEnabled, CodesBelong, EnrollmentsCounted, AcceptedOnce
  <2>5. QED
    BY <1>3, <2>3, <2>4 DEF AccountInv
<1>7. CASE DisableMfa
  <2>1. /\ user' \in [secret : 0 .. MaxSecret, verified : BOOLEAN] /\ user'.secret = 0
        /\ enrollment' \in [secret : 0 .. MaxSecret, expired : BOOLEAN]
        /\ enrollment'.secret = 0
        /\ codes' = [x \in RecoveryCodes |-> "absent"] /\ batch' = 0
        /\ UNCHANGED <<link, task, served, begun, shown, activated, handed, accepted>>
    BY <1>1, <1>4, <1>7 DEF DisableMfa, AccountTypeOK, NoEnrollment, CodesDeleted
  <2>2. AccountTypeOK'
    BY <1>1, <1>4, <2>1 DEF AccountTypeOK
  <2>3. ProvedBeforeEnabled' /\ EnrollmentsCounted'
    BY <1>1, <2>1 DEF MfaSound, ProvedBeforeEnabled, EnrollmentsCounted, AccountTypeOK
  <2>4. AcceptedOnce'
    BY <1>1, <2>1 DEF MfaSound, AcceptedOnce
  <2>5. CodesBelong'
    <3>1. \A x \in RecoveryCodes : codes'[x] = "absent" /\ x[1] # 0
      BY <1>4, <2>1 DEF RecoveryCodes, Secrets
    <3>2. QED
      BY <1>1, <2>1, <3>1 DEF MfaSound, CodesBelong
  <2>6. QED
    BY <1>3, <2>2, <2>3, <2>4, <2>5 DEF AccountInv, MfaSound
<1>8. QED
  BY <1>5, <1>6, <1>7

\* Multi-factor authentication, with a task.
LEMMA MfaTaskKeeps ==
    ASSUME AccountSecurityAssumption, AccountInv, NEW r \in Tasks,
           \/ \E s \in Secrets : ConfirmEnrollment(r, s)
           \/ \E x \in RecoveryCodes : Verify(r, x)
           \/ ActivateEnrollment(r) \/ HandOut(r) \/ ConsumeRecoveryCode(r)
    PROVE  AccountInv'
<1>1. AccountTypeOK /\ MfaSound /\ ProvedShown /\ LinksSound /\ task[r] \in Task
  BY DEF AccountInv, AccountTypeOK
<1>2. MaxSecret \in Nat /\ MaxRequests \in Nat
  BY DEF AccountSecurityAssumption
<1>3. NoTask \in Task /\ NoTask.at = "idle"
  BY DEF Task, NoTask
<1>4. CASE \E s \in Secrets : ConfirmEnrollment(r, s)
  <2>1. PICK s \in Secrets : ConfirmEnrollment(r, s)
    BY <1>4
  <2> DEFINE to == [at |-> "proved", secret |-> enrollment.secret]
  <2>2. enrollment.secret = s /\ served < MaxRequests /\ served' = served + 1
        /\ task' = [task EXCEPT ![r] = to] /\ shown' = shown \cup {s}
        /\ UNCHANGED <<user, link, enrollment, codes, begun, batch, activated, handed, accepted>>
    BY <2>1 DEF ConfirmEnrollment, TotpVerify, Starts
  <2>3. to \in Task /\ to.at = "proved" /\ to.secret = s
    BY <2>2 DEF Task
  <2> HIDE DEF to
  <2>4. LinksSound' /\ ProvedShown'
    BY <1>1, <2>2, <2>3, LinksStay, ProvedStays
  <2>5. AccountTypeOK'
    BY <1>1, <1>2, <2>2, <2>3, TaskMoves DEF AccountTypeOK
  <2>6. MfaSound'
    BY <1>1, <2>2
       DEF MfaSound, ProvedBeforeEnabled, CodesBelong, EnrollmentsCounted, AcceptedOnce
  <2>7. QED
    BY <2>4, <2>5, <2>6 DEF AccountInv
<1>5. CASE \E x \in RecoveryCodes : Verify(r, x)
  <2>1. PICK x \in RecoveryCodes : Verify(r, x)
    BY <1>5
  <2> DEFINE to == [at |-> "consuming", code |-> x]
  <2>2. to \in Task /\ to.at = "consuming"
    BY DEF Task
  <2>3. /\ served < MaxRequests /\ served' = served + 1
        /\ task' = [task EXCEPT ![r] = to] /\ UNCHANGED <<user, link, mfaVars>>
    BY <2>1 DEF Verify, Starts
  <2> HIDE DEF to
  <2>4. LinksSound' /\ ProvedShown'
    BY <1>1, <2>2, <2>3, LinksStay, ProvedStays DEF mfaVars
  <2>5. AccountTypeOK'
    BY <1>1, <1>2, <2>2, <2>3, TaskMoves DEF AccountTypeOK, mfaVars
  <2>6. MfaSound'
    BY <1>1, <2>3, MfaStays
  <2>7. QED
    BY <2>4, <2>5, <2>6 DEF AccountInv
<1>6. CASE ActivateEnrollment(r)
  <2>1. CASE EnrollmentPending
    <3> DEFINE to == [at |-> "activated", batch |-> batch']
    <3>1. /\ task[r].at = "proved"
          /\ enrollment.secret # 0 /\ enrollment' = [secret |-> 0, expired |-> FALSE]
          /\ user' = [user EXCEPT !.secret = task[r].secret]
          /\ activated' = activated + 1 /\ batch' = activated'
          /\ codes' = [x \in RecoveryCodes |-> IF x[1] = batch' THEN "unused" ELSE "absent"]
          /\ task' = [task EXCEPT ![r] = to] /\ UNCHANGED served
          /\ UNCHANGED <<link, begun, shown, handed, accepted>>
      BY <1>6, <2>1 DEF ActivateEnrollment, EnrollmentPending, NoEnrollment, EnabledBy, Goes,
                        CodesDeleted
    <3>2. task[r].secret \in Secrets /\ task[r].secret \in shown
      BY <1>1, <3>1, TaskFields DEF ProvedShown
    <3>3. /\ activated' \in Secrets /\ activated' <= begun /\ activated' > activated
          /\ begun \in Nat
      BY <1>1, <1>2, <3>1 DEF MfaSound, EnrollmentsCounted, AccountTypeOK, Secrets
    <3>4. to \in Task /\ to.at = "activated"
      BY <3>1, <3>3 DEF Task
    <3> HIDE DEF to
    <3>5. LinksSound' /\ ProvedShown'
      BY <1>1, <3>1, <3>4, LinksStay, ProvedStays
    <3>6. user'.secret = task[r].secret
          /\ user' \in [secret : 0 .. MaxSecret, verified : BOOLEAN]
      BY <1>1, <1>2, <3>1, <3>2 DEF AccountTypeOK, Secrets
    <3>7. AccountTypeOK'
      <4>1. enrollment' \in [secret : 0 .. MaxSecret, expired : BOOLEAN]
        BY <1>2, <3>1
      <4>2. codes' \in [RecoveryCodes -> {"absent", "unused", "consumed"}]
        BY <3>1
      <4>3. activated' \in 0 .. MaxSecret /\ batch' \in 0 .. MaxSecret
        BY <1>2, <3>1, <3>3 DEF Secrets
      <4>4. QED
        BY <1>1, <3>1, <3>4, <3>6, <4>1, <4>2, <4>3, TaskMoves DEF AccountTypeOK
    <3>8. ProvedBeforeEnabled'
      BY <3>1, <3>2, <3>6 DEF ProvedBeforeEnabled
    <3>9. CodesBelong'
      <4>1. \A x \in RecoveryCodes : codes'[x] # "absent" <=> x[1] = batch'
        BY <3>1
      <4>2. batch' # 0 /\ user'.secret # 0
        BY <1>2, <3>1, <3>2, <3>3, <3>6 DEF Secrets
      <4>3. QED
        BY <1>1, <3>1, <4>1, <4>2 DEF CodesBelong, MfaSound
    <3>10. EnrollmentsCounted'
      BY <1>1, <3>1, <3>3 DEF EnrollmentsCounted, MfaSound, AccountTypeOK, Secrets
    <3>11. AcceptedOnce'
      <4>1. SUFFICES ASSUME NEW x \in RecoveryCodes, codes'[x] = "unused" \/ x[1] > activated'
                     PROVE  accepted[x] = 0
        BY <1>1, <3>1 DEF AcceptedOnce, MfaSound
      <4>2. x[1] > activated
        <5>1. x[1] \in Nat /\ activated \in Nat
          BY <1>1, <1>2 DEF RecoveryCodes, Secrets, AccountTypeOK
        <5>2. QED
          BY <3>1, <3>3, <4>1, <5>1
      <4>3. QED
        BY <1>1, <4>2 DEF AcceptedOnce, MfaSound
    <3>12. QED
      BY <3>5, <3>7, <3>8, <3>9, <3>10, <3>11 DEF AccountInv, MfaSound
  <2>2. CASE ~EnrollmentPending
    <3>1. /\ task' = [task EXCEPT ![r] = NoTask]
          /\ UNCHANGED <<served, user, link, mfaVars>>
      BY <1>6, <2>2 DEF ActivateEnrollment, Goes, mfaVars
    <3>2. LinksSound' /\ ProvedShown' /\ MfaSound'
      BY <1>1, <1>3, <3>1, LinksStay, ProvedStays, MfaStays DEF mfaVars
    <3>3. AccountTypeOK'
      BY <1>1, <1>3, <3>1, TaskMoves DEF AccountTypeOK, mfaVars
    <3>4. QED
      BY <3>2, <3>3 DEF AccountInv
  <2>3. QED
    BY <2>1, <2>2
<1>7. CASE HandOut(r)
  <2>1. /\ task[r].at = "activated" /\ handed' = handed \cup {task[r].batch}
        /\ task' = [task EXCEPT ![r] = NoTask] /\ UNCHANGED served
        /\ UNCHANGED <<user, link, enrollment, codes, begun, shown, batch, activated, accepted>>
    BY <1>7 DEF HandOut, Goes
  <2>2. task[r].batch \in Secrets
    BY <1>1, <2>1, TaskFields
  <2>3. LinksSound' /\ ProvedShown'
    BY <1>1, <1>3, <2>1, LinksStay, ProvedStays
  <2>4. AccountTypeOK'
    BY <1>1, <1>3, <2>1, <2>2, TaskMoves DEF AccountTypeOK
  <2>5. MfaSound'
    BY <1>1, <2>1
       DEF MfaSound, ProvedBeforeEnabled, CodesBelong, EnrollmentsCounted, AcceptedOnce
  <2>6. QED
    BY <2>3, <2>4, <2>5 DEF AccountInv
<1>8. CASE ConsumeRecoveryCode(r)
  <2> DEFINE x == task[r].code
  <2>1. /\ task[r].at = "consuming" /\ task' = [task EXCEPT ![r] = NoTask] /\ UNCHANGED served
        /\ UNCHANGED <<user, link, enrollment, begun, shown, batch, activated, handed>>
    BY <1>8 DEF ConsumeRecoveryCode, Goes
  <2>2. x \in RecoveryCodes
    BY <1>1, <2>1, TaskFields
  <2>3. LinksSound' /\ ProvedShown'
    BY <1>1, <1>3, <2>1, LinksStay, ProvedStays
  <2>4. /\ codes' \in [RecoveryCodes -> {"absent", "unused", "consumed"}]
        /\ accepted' \in [RecoveryCodes -> 0 .. 2]
        /\ \A y \in RecoveryCodes :
              /\ codes'[y] = "absent" <=> codes[y] = "absent"
              /\ codes'[y] = "unused" => codes[y] = "unused" /\ accepted'[y] = accepted[y]
              /\ accepted'[y] # accepted[y] =>
                    codes[y] = "unused" /\ accepted'[y] = accepted[y] + 1
    <3>1. CASE codes[x] = "unused"
      <4>1. /\ codes' = [codes EXCEPT ![x] = "consumed"]
            /\ accepted' = [accepted EXCEPT ![x] = accepted[x] + 1]
        BY <1>8, <3>1 DEF ConsumeRecoveryCode, Consumable
      <4>2. accepted[x] = 0
        BY <1>1, <2>2, <3>1 DEF MfaSound, AcceptedOnce
      <4> HIDE DEF x
      <4>3. codes \in [RecoveryCodes -> {"absent", "unused", "consumed"}]
            /\ accepted \in [RecoveryCodes -> 0 .. 2]
        BY <1>1 DEF AccountTypeOK
      <4>4. /\ codes' \in [RecoveryCodes -> {"absent", "unused", "consumed"}]
            /\ accepted' \in [RecoveryCodes -> 0 .. 2]
        BY <2>2, <4>1, <4>2, <4>3
      <4>5. /\ codes'[x] = "consumed" /\ accepted'[x] = accepted[x] + 1
            /\ \A y \in RecoveryCodes : y # x => codes'[y] = codes[y] /\ accepted'[y] = accepted[y]
        BY <2>2, <4>1, <4>3
      <4>6. QED
        BY <2>2, <3>1, <4>4, <4>5
    <3>2. CASE codes[x] # "unused"
      BY <1>1, <1>8, <3>2 DEF ConsumeRecoveryCode, Consumable, AccountTypeOK
    <3>3. QED
      BY <3>1, <3>2
  <2> HIDE DEF x
  <2>5. AccountTypeOK'
    BY <1>1, <1>3, <2>1, <2>4, TaskMoves DEF AccountTypeOK
  <2>6. AcceptedOnce'
    <3>1. SUFFICES ASSUME NEW y \in RecoveryCodes
                   PROVE  /\ codes'[y] = "unused" \/ y[1] > activated => accepted'[y] = 0
                          /\ accepted'[y] <= 1
      BY <2>1 DEF AcceptedOnce
    <3>2. /\ codes[y] = "unused" \/ y[1] > activated => accepted[y] = 0
          /\ accepted[y] <= 1
      BY <1>1 DEF MfaSound, AcceptedOnce
    <3>3. y[1] > activated => codes[y] # "unused"
      <4>1. y[1] \in Nat /\ activated \in Nat /\ batch \in Nat /\ batch <= activated
        BY <1>1, <1>2 DEF RecoveryCodes, Secrets, AccountTypeOK, MfaSound, EnrollmentsCounted
      <4>2. codes[y] = "unused" => y[1] = batch
        BY <1>1 DEF MfaSound, CodesBelong
      <4>3. QED
        BY <4>1, <4>2
    <3>4. QED
      BY <2>4, <3>2, <3>3
  <2>7. CodesBelong' /\ ProvedBeforeEnabled' /\ EnrollmentsCounted'
    <3>1. \A y \in RecoveryCodes : codes'[y] # "absent" <=> y[1] = batch
      BY <1>1, <2>4 DEF MfaSound, CodesBelong
    <3>2. \A y \in RecoveryCodes : accepted'[y] <= 1
      BY <2>6 DEF AcceptedOnce
    <3>3. QED
      BY <1>1, <2>1, <3>1, <3>2
         DEF MfaSound, CodesBelong, ProvedBeforeEnabled, EnrollmentsCounted
  <2>8. QED
    BY <2>3, <2>5, <2>6, <2>7 DEF AccountInv, MfaSound
<1>9. QED
  BY <1>4, <1>5, <1>6, <1>7, <1>8

------------------------------------------------------------------------------
\* Links.

\* A link that is not committed is not among those an other was requested after.
LEMMA NotBefore ==
    ASSUME LinksSound, NEW k \in Kinds, NEW n \in Links, NEW m \in Links,
           link[k][n].status \in {"none", "requested"}
    PROVE  n \notin link[k][m].before
  BY DEF LinksSound, LinkSound, Committed

\* The first conjuncts of the invariant where one link, and not one that is
\* being requested, changes.
LEMMA OneLinkKeeps ==
    ASSUME AccountTypeOK, LinksSound, NEW k \in Kinds, NEW n \in Links,
           link' \in [Kinds -> [Links -> Link]], task' \in [Tasks -> Task],
           \A j \in Kinds, m \in Links : <<j, m>> # <<k, n>> => link'[j][m] = link[j][m],
           link'[k][n].before = link[k][n].before,
           link'[k][n].uses = IF link'[k][n].status = "used" THEN 1 ELSE 0,
           \/ link'[k][n].status = link[k][n].status
           \/ link[k][n].status = "live" /\ link'[k][n].status \in {"expired", "used"},
           \A q \in Tasks : task'[q].at = "replacing" => task'[q] = task[q]
    PROVE  LinksSound'
<1>1. \A j \in Kinds, m \in Links :
        /\ link'[j][m].before = link[j][m].before
        /\ link'[j][m].status = "live" => link[j][m].status = "live"
        /\ link'[j][m].status = "requested" <=> link[j][m].status = "requested"
        /\ link'[j][m].status \in {"none", "requested"}
              <=> link[j][m].status \in {"none", "requested"}
  OBVIOUS
<1>2. \A j \in Kinds : Committed(j)' = Committed(j)
  BY <1>1 DEF Committed
<1>3. \A j \in Kinds, m \in Links : link[j][m].before \subseteq Links
  BY DEF AccountTypeOK, Link
<1>4. ASSUME NEW j \in Kinds, NEW m \in Links PROVE LinkSound(j, m)'
  <2>1. LinkSound(j, m)
    BY DEF LinksSound
  <2>2. link'[j][m].uses = IF link'[j][m].status = "used" THEN 1 ELSE 0
    <3>1. CASE j = k /\ m = n
      BY <3>1
    <3>2. CASE ~(j = k /\ m = n)
      BY <2>1, <3>2 DEF LinkSound
    <3>3. QED
      BY <3>1, <3>2
  <2>3. QED
    BY <1>1, <1>2, <1>3, <2>1, <2>2 DEF LinkSound
<1>5. Replacing'
  <2>1. ASSUME NEW q \in Tasks, task'[q].at = "replacing" PROVE Replaces(q)'
    <3>1. task'[q] = task[q] /\ task[q].kind \in Kinds /\ task[q].link \in Links
      BY <2>1, TaskFields DEF AccountTypeOK
    <3>2. Replaces(q)
      BY <2>1, <3>1 DEF LinksSound, Replacing
    <3>3. QED
      BY <1>1, <1>3, <3>1, <3>2 DEF Replaces
  <2>2. QED
    BY <2>1 DEF Replacing, LinksSound
<1>6. QED
  BY <1>4, <1>5 DEF LinksSound

\* What a request for a link leaves of the second factor.
LEMMA MfaApart ==
    ASSUME AccountInv, NEW r \in Tasks, NEW to \in Task, to.at # "proved",
           task' = [task EXCEPT ![r] = to], UNCHANGED <<user, mfaVars>>
    PROVE  MfaSound' /\ ProvedShown'
  BY MfaStays, ProvedStays DEF AccountInv, mfaVars

\* A link is requested.
LEMMA RequestLinkKeeps ==
    ASSUME AccountSecurityAssumption, AccountInv, NEW r \in Tasks,
           NEW k \in Kinds, NEW n \in Links, RequestLink(r, k, n)
    PROVE  AccountInv'
<1> DEFINE to == [at |-> "replacing", kind |-> k, link |-> n, sees |-> Unconsumed(k)]
<1>1. AccountTypeOK /\ LinksSound /\ link \in [Kinds -> [Links -> Link]]
  BY DEF AccountInv, AccountTypeOK
<1>2. /\ link[k][n].status = "none" /\ served < MaxRequests /\ served' = served + 1
      /\ task' = [task EXCEPT ![r] = to] /\ UNCHANGED <<user, mfaVars>>
      /\ link' = [link EXCEPT ![k][n].status = "requested", ![k][n].before = Committed(k)]
  BY DEF RequestLink, Starts, Superseded
<1>3. /\ to \in Task /\ to.at = "replacing" /\ to.kind = k /\ to.link = n
      /\ to.sees = Unconsumed(k)
  BY DEF Task, Unconsumed
<1> HIDE DEF to
<1>4. Committed(k) \subseteq Links /\ n \notin Committed(k)
  BY <1>2 DEF Committed
<1>5. /\ link' \in [Kinds -> [Links -> Link]]
      /\ link'[k][n] = [link[k][n] EXCEPT !.status = "requested", !.before = Committed(k)]
      /\ \A j \in Kinds, m \in Links : <<j, m>> # <<k, n>> => link'[j][m] = link[j][m]
  <2>1. link[k] \in [Links -> Link] /\ link[k][n] \in Link
    BY <1>1
  <2>2. [link[k][n] EXCEPT !.status = "requested", !.before = Committed(k)] \in Link
    BY <1>4, <2>1 DEF Link
  <2>3. QED
    BY <1>1, <1>2, <2>1, <2>2
<1>6. /\ link'[k][n].status = "requested" /\ link'[k][n].before = Committed(k)
      /\ link'[k][n].uses = link[k][n].uses
  BY <1>1, <1>5 DEF Link
<1>7. \A j \in Kinds : Committed(j)' = Committed(j)
  BY <1>2, <1>5, <1>6 DEF Committed
<1>8. \A j \in Kinds, m \in Links : LinkSound(j, m) /\ link[j][m].before \subseteq Links
  BY <1>1 DEF LinksSound, Link
<1>9. \A j \in Kinds, m \in Links : LinkSound(j, m)'
  <2>1. LinkSound(k, n)'
    BY <1>2, <1>4, <1>6, <1>7, <1>8 DEF LinkSound
  <2>2. ASSUME NEW j \in Kinds, NEW m \in Links, <<j, m>> # <<k, n>> PROVE LinkSound(j, m)'
    <3>1. \A l \in Links : link'[j][l].status = "live" => link[j][l].status = "live"
      BY <1>5, <1>6
    <3>2. QED
      BY <1>5, <1>7, <1>8, <2>2, <3>1 DEF LinkSound
  <2>3. QED
    BY <2>1, <2>2
<1>10. task' \in [Tasks -> Task] /\ task'[r] = to /\ \A q \in Tasks : q # r => task'[q] = task[q]
  BY <1>1, <1>2, <1>3, TaskMoves
<1>11. ASSUME NEW q \in Tasks, q # r, task[q].at = "replacing"
       PROVE  <<task[q].kind, task[q].link>> # <<k, n>> /\ Replaces(q)'
  <2>1. Replaces(q) /\ task[q].kind \in Kinds /\ task[q].link \in Links
    BY <1>1, <1>11, TaskFields DEF LinksSound, Replacing, AccountTypeOK
  <2>2. <<task[q].kind, task[q].link>> # <<k, n>>
    BY <1>2, <2>1 DEF Replaces
  <2>3. \A j \in Kinds, l \in Links : link'[j][l].status = "live" => link[j][l].status = "live"
    BY <1>5, <1>6
  <2>4. Replaces(q)'
    BY <1>5, <1>8, <1>10, <1>11, <2>1, <2>2, <2>3 DEF Replaces
  <2>5. QED
    BY <2>2, <2>4
<1>12. Replaces(r)'
  <2>1. ASSUME NEW m \in Committed(k), link'[k][m].status = "live" PROVE m \in Unconsumed(k)
    BY <1>4, <1>5, <2>1 DEF Unconsumed, Committed
  <2>2. QED
    BY <1>3, <1>6, <1>10, <2>1 DEF Replaces
<1>13. Replacing'
  BY <1>1, <1>3, <1>10, <1>11, <1>12 DEF Replacing, LinksSound
<1>14. AccountTypeOK'
  <2>1. MaxRequests \in Nat
    BY DEF AccountSecurityAssumption
  <2>2. QED
    BY <1>1, <1>2, <1>5, <1>10, <2>1 DEF AccountTypeOK, mfaVars
<1>15. MfaSound' /\ ProvedShown'
  BY <1>2, <1>3, MfaApart
<1>16. QED
  BY <1>9, <1>13, <1>14, <1>15 DEF AccountInv, LinksSound

\* A link is created: those it was requested after are not live any more.
LEMMA CreateTokenKeeps ==
    ASSUME AccountInv, NEW r \in Tasks, CreateToken(r) PROVE AccountInv'
<1> DEFINE k == task[r].kind
           n == task[r].link
           sees == task[r].sees
           to == [at |-> "sending", kind |-> k, link |-> n]
<1>1. /\ AccountTypeOK /\ LinksSound /\ link \in [Kinds -> [Links -> Link]]
      /\ task[r] \in Task /\ task[r].at = "replacing"
  BY DEF AccountInv, AccountTypeOK, CreateToken
<1>2. k \in Kinds /\ n \in Links /\ sees \subseteq Links
  BY <1>1, TaskFields
<1>3. Replaces(r) /\ link[k][n].status = "requested"
  BY <1>1 DEF LinksSound, Replacing, Replaces
<1>4. /\ link' = [link EXCEPT ![k] =
            [m \in Links |->
               IF m = n THEN [link[k][m] EXCEPT !.status = "live"]
               ELSE IF m \in sees \cap Unconsumed(k)
               THEN [link[k][m] EXCEPT !.status = "replaced"] ELSE link[k][m]]]
      /\ task' = [task EXCEPT ![r] = to] /\ UNCHANGED served /\ UNCHANGED <<user, mfaVars>>
  BY DEF CreateToken, Goes
<1>5. \A m \in sees : link[k][m].status = "live" => m \in sees \cap Unconsumed(k)
  BY <1>2 DEF Unconsumed
<1>6. \A m \in link[k][n].before : link[k][m].status = "live" => m \in sees
  BY <1>3 DEF Replaces
<1>7. to \in Task /\ to.at = "sending"
  BY <1>2 DEF Task
<1> HIDE DEF to, k, n, sees
<1>8. /\ \A j \in Kinds : j # k => link'[j] = link[j]
      /\ link'[k] = [m \in Links |->
               IF m = n THEN [link[k][m] EXCEPT !.status = "live"]
               ELSE IF m \in sees \cap Unconsumed(k)
               THEN [link[k][m] EXCEPT !.status = "replaced"] ELSE link[k][m]]
  BY <1>1, <1>2, <1>4
<1>9. \A j \in Kinds, m \in Links :
        LET a == link[j][m]  b == link'[j][m] IN
        /\ b \in Link /\ b.before = a.before /\ b.uses = a.uses
        /\ \/ j = k /\ m = n /\ b.status = "live"
           \/ j = k /\ m # n /\ m \in sees \cap Unconsumed(k) /\ b.status = "replaced"
           \/ ~(j = k /\ m = n) /\ ~(j = k /\ m \in sees \cap Unconsumed(k)) /\ b.status = a.status
  <2>1. ASSUME NEW m \in Links
        PROVE  LET a == link[k][m]  b == link'[k][m] IN
               /\ b \in Link /\ b.before = a.before /\ b.uses = a.uses
               /\ \/ m = n /\ b.status = "live"
                  \/ m # n /\ m \in sees \cap Unconsumed(k) /\ b.status = "replaced"
                  \/ m # n /\ m \notin sees \cap Unconsumed(k) /\ b.status = a.status
    <3>1. link[k][m] \in Link
      BY <1>1, <1>2
    <3>2. QED
      BY <1>8, <3>1 DEF Link
  <2>2. ASSUME NEW j \in Kinds, j # k, NEW m \in Links
        PROVE  link'[j][m] = link[j][m] /\ link[j][m] \in Link
    BY <1>1, <1>8, <2>2
  <2>3. QED
    BY <1>2, <2>1, <2>2
<1>10. link' \in [Kinds -> [Links -> Link]]
  <2>1. \A j \in Kinds : link'[j] \in [Links -> Link]
    <3>1. TAKE j \in Kinds
    <3>2. CASE j = k
      BY <1>8, <1>9, <3>2
    <3>3. CASE j # k
      BY <1>1, <1>8, <3>3
    <3>4. QED
      BY <3>2, <3>3
  <2>2. QED
    BY <1>1, <1>4, <2>1
<1>11. \A j \in Kinds, m \in Links :
         /\ link'[j][m].status = "live" => link[j][m].status = "live" \/ <<j, m>> = <<k, n>>
         /\ link'[j][m].status = "requested" <=>
               link[j][m].status = "requested" /\ <<j, m>> # <<k, n>>
         /\ link'[j][m].status = "used" <=> link[j][m].status = "used"
         /\ link[j][m].status \notin {"none", "requested"} =>
               link'[j][m].status \notin {"none", "requested"}
         /\ <<j, m>> # <<k, n>> /\ link'[j][m].status \notin {"none", "requested"} =>
               link[j][m].status \notin {"none", "requested"}
  BY <1>3, <1>9 DEF Unconsumed
<1>12. \A j \in Kinds, m \in Links : LinkSound(j, m) /\ link[j][m].before \subseteq Links
  BY <1>1 DEF LinksSound, Link
<1>13. \A j \in Kinds : Committed(j) \subseteq Committed(j)'
  BY <1>11 DEF Committed
<1>14. \A m \in link[k][n].before : link'[k][m].status # "live"
  <2>1. ASSUME NEW m \in link[k][n].before, link'[k][m].status = "live" PROVE FALSE
    <3>1. m \in Links /\ m # n
      BY <1>1, <1>2, <1>3, <1>12, NotBefore
    <3>2. link[k][m].status = "live"
      BY <1>2, <1>11, <2>1, <3>1
    <3>3. m \in sees \cap Unconsumed(k)
      BY <1>5, <1>6, <3>2
    <3>4. QED
      BY <1>2, <1>9, <2>1, <3>1, <3>3
  <2>2. QED
    BY <2>1
<1>15. ASSUME NEW j \in Kinds, NEW m \in Links PROVE LinkSound(j, m)'
  <2>1. LinkSound(j, m)
    BY <1>12
  <2>2. link'[j][m].uses = IF link'[j][m].status = "used" THEN 1 ELSE 0
    BY <1>9, <1>11, <2>1 DEF LinkSound
  <2>3. link'[j][m].before = link[j][m].before /\ link[j][m].before \subseteq Committed(j)
    BY <1>9, <2>1 DEF LinkSound
  <2>4. ASSUME m \in Committed(j)', NEW l \in link[j][m].before PROVE link'[j][l].status # "live"
    <3>1. CASE <<j, m>> = <<k, n>>
      BY <1>14, <2>4, <3>1
    <3>2. CASE <<j, m>> # <<k, n>>
      <4>1. m \in Committed(j)
        BY <1>11, <2>4, <3>2 DEF Committed
      <4>2. link[j][l].status # "live" /\ l \in Links
        BY <1>12, <2>1, <2>4, <4>1 DEF LinkSound
      <4>3. j = k => l # n
        BY <1>1, <1>2, <1>3, <2>4, NotBefore
      <4>4. QED
        BY <1>11, <4>2, <4>3
    <3>3. QED
      BY <3>1, <3>2
  <2>5. QED
    BY <1>13, <2>2, <2>3, <2>4 DEF LinkSound
<1>16. task' \in [Tasks -> Task] /\ task'[r] = to /\ \A q \in Tasks : q # r => task'[q] = task[q]
  BY <1>1, <1>4, <1>7, TaskMoves
<1>17. ASSUME NEW q \in Tasks, task'[q].at = "replacing" PROVE Replaces(q)' /\ q # r
  <2>1. q # r /\ task'[q] = task[q] /\ task[q].kind \in Kinds /\ task[q].link \in Links
    BY <1>1, <1>7, <1>16, <1>17, TaskFields DEF AccountTypeOK
  <2>2. Replaces(q) /\ <<task[q].kind, task[q].link>> # <<k, n>>
    BY <1>1, <1>17, <2>1 DEF LinksSound, Replacing, k, n
  <2>3. link'[task[q].kind][task[q].link].status = "requested"
    BY <1>11, <2>1, <2>2 DEF Replaces
  <2>4. \A m \in link[task[q].kind][task[q].link].before :
           link'[task[q].kind][m].status = "live" => m \in task[q].sees
    <3>1. SUFFICES ASSUME NEW m \in link[task[q].kind][task[q].link].before,
                          link'[task[q].kind][m].status = "live"
                   PROVE  m \in task[q].sees
      OBVIOUS
    <3>2. m \in Links /\ <<task[q].kind, m>> # <<k, n>>
      BY <1>1, <1>2, <1>3, <1>12, <2>1, NotBefore
    <3>3. QED
      BY <1>11, <2>1, <2>2, <3>1, <3>2 DEF Replaces
  <2>5. QED
    BY <1>9, <2>1, <2>3, <2>4 DEF Replaces
<1>18. Replacing'
  BY <1>1, <1>16, <1>17 DEF Replacing, LinksSound
<1>19. AccountTypeOK'
  BY <1>1, <1>4, <1>10, <1>16 DEF AccountTypeOK, mfaVars
<1>20. MfaSound' /\ ProvedShown'
  BY <1>4, <1>7, MfaApart
<1>21. QED
  BY <1>15, <1>18, <1>19, <1>20 DEF AccountInv, LinksSound

\* The message is queued.
LEMMA SendLinkKeeps == ASSUME AccountInv, NEW r \in Tasks, SendLink(r) PROVE AccountInv'
<1> DEFINE k == task[r].kind
           n == task[r].link
<1>1. /\ AccountTypeOK /\ LinksSound /\ link \in [Kinds -> [Links -> Link]]
      /\ task[r] \in Task /\ task[r].at = "sending"
  BY DEF AccountInv, AccountTypeOK, SendLink
<1>2. k \in Kinds /\ n \in Links /\ NoTask \in Task /\ NoTask.at = "idle"
  BY <1>1, TaskFields DEF Task, NoTask
<1>3. /\ link' = [link EXCEPT ![k][n].sent = TRUE]
      /\ task' = [task EXCEPT ![r] = NoTask] /\ UNCHANGED served /\ UNCHANGED <<user, mfaVars>>
  BY DEF SendLink, Goes
<1> HIDE DEF k, n
<1>4. /\ link' \in [Kinds -> [Links -> Link]]
      /\ link'[k][n] = [link[k][n] EXCEPT !.sent = TRUE]
      /\ \A j \in Kinds, m \in Links : <<j, m>> # <<k, n>> => link'[j][m] = link[j][m]
  <2>1. link[k] \in [Links -> Link] /\ link[k][n] \in Link
    BY <1>1, <1>2
  <2>2. [link[k][n] EXCEPT !.sent = TRUE] \in Link
    BY <2>1 DEF Link
  <2>3. QED
    BY <1>1, <1>2, <1>3, <2>1, <2>2
<1>5. /\ link'[k][n].status = link[k][n].status /\ link'[k][n].before = link[k][n].before
      /\ link'[k][n].uses = link[k][n].uses
  BY <1>1, <1>2, <1>4 DEF Link
<1>6. task' \in [Tasks -> Task] /\ task'[r] = NoTask /\ \A q \in Tasks : q # r => task'[q] = task[q]
  BY <1>1, <1>2, <1>3, TaskMoves
<1>7. LinksSound'
  <2>1. link'[k][n].uses = IF link'[k][n].status = "used" THEN 1 ELSE 0
    BY <1>1, <1>2, <1>5 DEF LinksSound, LinkSound
  <2>2. \A q \in Tasks : task'[q].at = "replacing" => task'[q] = task[q]
    BY <1>2, <1>6
  <2>3. QED
    BY <1>1, <1>2, <1>4, <1>5, <1>6, <2>1, <2>2, OneLinkKeeps
<1>8. AccountTypeOK'
  BY <1>1, <1>3, <1>4, <1>6 DEF AccountTypeOK, mfaVars
<1>9. MfaSound' /\ ProvedShown'
  BY <1>2, <1>3, MfaApart
<1>10. QED
  BY <1>7, <1>8, <1>9 DEF AccountInv

\* A link expires or is used.
LEMMA LinkEndKeeps ==
    ASSUME AccountInv, NEW k \in Kinds, NEW n \in Links, LinkExpires(k, n) \/ UseLink(k, n)
    PROVE  AccountInv'
<1>1. /\ AccountTypeOK /\ LinksSound /\ MfaSound /\ ProvedShown
      /\ link \in [Kinds -> [Links -> Link]] /\ link[k][n] \in Link
      /\ user \in [secret : 0 .. MaxSecret, verified : BOOLEAN]
  BY DEF AccountInv, AccountTypeOK
<1>2. UNCHANGED <<task, served, mfaVars>> /\ link[k][n].status = "live"
  BY DEF LinkExpires, UseLink, Accepts
<1>3. link[k][n].uses = 0
  BY <1>1, <1>2 DEF LinksSound, LinkSound
<1>4. \E v \in Link :
        /\ v.before = link[k][n].before
        /\ (v.status = "expired" /\ v.uses = 0) \/ (v.status = "used" /\ v.uses = 1)
        /\ link'[k][n] = v /\ link' \in [Kinds -> [Links -> Link]]
        /\ \A j \in Kinds, m \in Links : <<j, m>> # <<k, n>> => link'[j][m] = link[j][m]
  <2>1. link[k] \in [Links -> Link]
    BY <1>1
  <2>2. CASE LinkExpires(k, n)
    <3> DEFINE v == [link[k][n] EXCEPT !.status = "expired"]
    <3>1. v \in Link /\ v.before = link[k][n].before /\ v.status = "expired" /\ v.uses = 0
      BY <1>1, <1>3 DEF Link
    <3>2. link' = [link EXCEPT ![k][n].status = "expired"]
      BY <2>2 DEF LinkExpires
    <3>3. /\ link'[k][n] = v
          /\ \A j \in Kinds, m \in Links : <<j, m>> # <<k, n>> => link'[j][m] = link[j][m]
      BY <1>1, <2>1, <3>2
    <3>4. link' \in [Kinds -> [Links -> Link]]
      BY <1>1, <2>1, <3>1, <3>2
    <3>5. QED
      BY <3>1, <3>3, <3>4
  <2>3. CASE UseLink(k, n)
    <3> DEFINE v == [link[k][n] EXCEPT !.status = "used", !.uses = 1]
    <3>1. v \in Link /\ v.before = link[k][n].before /\ v.status = "used" /\ v.uses = 1
      <4>1. "used" \in {"none", "requested", "live", "replaced", "used", "expired"} /\ 1 \in 0 .. 2
        OBVIOUS
      <4>2. QED
        BY <1>1, <4>1 DEF Link
    <3>2. link' = [link EXCEPT ![k][n].status = "used", ![k][n].uses = @ + 1]
      BY <2>3 DEF UseLink
    <3>3. /\ link'[k][n] = v
          /\ \A j \in Kinds, m \in Links : <<j, m>> # <<k, n>> => link'[j][m] = link[j][m]
      <4>1. link[k][n].uses + 1 = 1
        BY <1>3
      <4>2. QED
        BY <1>1, <2>1, <3>2, <4>1
    <3>4. link' \in [Kinds -> [Links -> Link]]
      <4>1. link'[k] = [link[k] EXCEPT ![n] = v]
        <5>1. DOMAIN link'[k] = Links /\ link'[k] = [m \in Links |-> link'[k][m]]
          BY <1>1, <2>1, <3>2
        <5>2. QED
          BY <2>1, <3>3, <5>1
      <4>2. \A j \in Kinds : j # k => link'[j] = link[j]
        BY <1>1, <3>2
      <4>3. QED
        BY <1>1, <2>1, <3>1, <3>2, <4>1, <4>2
    <3>5. QED
      BY <3>1, <3>3, <3>4
  <2>4. QED
    BY <2>2, <2>3
<1>5. PICK v \in Link :
        /\ v.before = link[k][n].before
        /\ (v.status = "expired" /\ v.uses = 0) \/ (v.status = "used" /\ v.uses = 1)
        /\ link'[k][n] = v /\ link' \in [Kinds -> [Links -> Link]]
        /\ \A j \in Kinds, m \in Links : <<j, m>> # <<k, n>> => link'[j][m] = link[j][m]
  BY <1>4
<1>6. LinksSound'
  <2>1. v.uses = IF v.status = "used" THEN 1 ELSE 0
    BY <1>5
  <2>2. task' \in [Tasks -> Task] /\ \A q \in Tasks : task'[q] = task[q]
    BY <1>1, <1>2 DEF AccountTypeOK
  <2>3. QED
    BY <1>1, <1>2, <1>5, <2>1, <2>2, OneLinkKeeps
<1>7. user' \in [secret : 0 .. MaxSecret, verified : BOOLEAN] /\ user'.secret = user.secret
  BY <1>1 DEF LinkExpires, UseLink
<1>8. AccountTypeOK'
  BY <1>1, <1>2, <1>5, <1>7 DEF AccountTypeOK, mfaVars
<1>9. MfaSound' /\ ProvedShown'
  BY <1>1, <1>2, <1>7, MfaStays DEF mfaVars, ProvedShown
<1>10. QED
  BY <1>6, <1>8, <1>9 DEF AccountInv

\* A task is abandoned: the link it was going to create is not there.
LEMMA AbandonKeeps == ASSUME AccountInv, NEW r \in Tasks, Abandon(r) PROVE AccountInv'
<1>1. /\ AccountTypeOK /\ LinksSound /\ link \in [Kinds -> [Links -> Link]] /\ task[r] \in Task
  BY DEF AccountInv, AccountTypeOK
<1>2. NoTask \in Task /\ NoTask.at = "idle"
  BY DEF Task, NoTask
<1>3. /\ task' = [task EXCEPT ![r] = NoTask] /\ UNCHANGED served /\ UNCHANGED <<user, mfaVars>>
  BY DEF Abandon, Goes
<1>4. task' \in [Tasks -> Task] /\ task'[r] = NoTask /\ \A q \in Tasks : q # r => task'[q] = task[q]
  BY <1>1, <1>2, <1>3, TaskMoves
<1>5. LinksSound' /\ link' \in [Kinds -> [Links -> Link]]
  <2>1. CASE task[r].at = "replacing"
    <3> PICK k \in Kinds, n \in Links : k = task[r].kind /\ n = task[r].link
      BY <1>1, <2>1, TaskFields
    <3>1. link[k][n].status = "requested"
      BY <1>1, <2>1 DEF LinksSound, Replacing, Replaces
    <3>2. link' = [link EXCEPT ![k][n] = NoLink] /\ NoLink \in Link
      BY <2>1 DEF Abandon, NoLink, Link
    <3>3. \A q \in Tasks : q # r /\ task[q].at = "replacing" =>
             <<task[q].kind, task[q].link>> # <<k, n>>
      BY <1>1, <2>1 DEF LinksSound, Replacing
    <3>4. /\ link' \in [Kinds -> [Links -> Link]] /\ link'[k][n] = NoLink
          /\ \A j \in Kinds, m \in Links : <<j, m>> # <<k, n>> => link'[j][m] = link[j][m]
      BY <1>1, <3>1, <3>2
    <3>5. \A j \in Kinds : Committed(j)' = Committed(j)
      BY <3>1, <3>4 DEF Committed, NoLink
    <3>6. \A j \in Kinds, m \in Links :
             link'[j][m].status = "live" => link[j][m].status = "live"
      BY <3>4 DEF NoLink
    <3>7. \A j \in Kinds, m \in Links : LinkSound(j, m) /\ link[j][m].before \subseteq Links
      BY <1>1 DEF LinksSound, Link
    <3>8. \A j \in Kinds, m \in Links : LinkSound(j, m)'
      <4>1. LinkSound(k, n)'
        BY <3>4 DEF LinkSound, NoLink
      <4>2. ASSUME NEW j \in Kinds, NEW m \in Links, <<j, m>> # <<k, n>> PROVE LinkSound(j, m)'
        BY <3>4, <3>5, <3>6, <3>7, <4>2 DEF LinkSound
      <4>3. QED
        BY <4>1, <4>2
    <3>9. ASSUME NEW q \in Tasks, task'[q].at = "replacing" PROVE Replaces(q)' /\ q # r
      <4>1. q # r /\ task'[q] = task[q] /\ task[q].kind \in Kinds /\ task[q].link \in Links
        BY <1>1, <1>2, <1>4, <3>9, TaskFields DEF AccountTypeOK
      <4>2. Replaces(q)
        BY <1>1, <3>9, <4>1 DEF LinksSound, Replacing
      <4>3. <<task[q].kind, task[q].link>> # <<k, n>>
        BY <3>3, <3>9, <4>1
      <4>4. QED
        BY <3>4, <3>6, <3>7, <4>1, <4>2, <4>3 DEF Replaces
    <3>10. Replacing'
      BY <1>1, <1>4, <3>9 DEF Replacing, LinksSound
    <3>11. QED
      BY <3>4, <3>8, <3>10 DEF LinksSound
  <2>2. CASE task[r].at # "replacing"
    <3>1. UNCHANGED link
      BY <2>2 DEF Abandon
    <3>2. QED
      BY <1>1, <1>2, <1>3, <3>1, LinksStay
  <2>3. QED
    BY <2>1, <2>2
<1>6. AccountTypeOK'
  BY <1>1, <1>3, <1>4, <1>5 DEF AccountTypeOK, mfaVars
<1>7. MfaSound' /\ ProvedShown'
  BY <1>2, <1>3, MfaApart
<1>8. QED
  BY <1>5, <1>6, <1>7 DEF AccountInv

------------------------------------------------------------------------------
\* At first there is nothing.
LEMMA AccountInitSound == ASSUME AccountSecurityAssumption, AccountInit PROVE AccountInv
<1>1. MaxSecret \in Nat /\ MaxRequests \in Nat
  BY DEF AccountSecurityAssumption
<1>2. NoTask \in Task /\ NoTask.at = "idle"
  BY DEF Task, NoTask
<1>3. task \in [Tasks -> Task] /\ \A r \in Tasks : task[r].at = "idle"
  BY <1>2 DEF AccountInit
<1>4. NoLink \in Link
  BY DEF NoLink, Link
<1>5. link \in [Kinds -> [Links -> Link]] /\ \A k \in Kinds, n \in Links : link[k][n] = NoLink
  BY <1>4 DEF AccountInit
<1>6. AccountTypeOK
  BY <1>1, <1>3, <1>5 DEF AccountInit, AccountTypeOK, NoEnrollment
<1>7. LinksSound
  BY <1>3, <1>5 DEF LinksSound, Replacing, LinkSound, NoLink, Committed
<1>8. MfaSound
  <2>1. \A x \in RecoveryCodes : x[1] # 0
    BY <1>1 DEF RecoveryCodes, Secrets
  <2>2. QED
    BY <1>1, <2>1 DEF AccountInit, MfaSound, ProvedBeforeEnabled, CodesBelong,
                      EnrollmentsCounted, AcceptedOnce, NoEnrollment
<1>9. ProvedShown
  BY <1>3 DEF ProvedShown
<1>10. QED
  BY <1>6, <1>7, <1>8, <1>9 DEF AccountInv

\* Every step keeps the invariant.
LEMMA AccountNextKeeps ==
    ASSUME AccountSecurityAssumption, AccountInv, [AccountNext]_accountVars PROVE AccountInv'
<1>1. CASE UNCHANGED accountVars
  <2>1. UNCHANGED <<user, link, task, served, mfaVars>>
    BY <1>1 DEF accountVars
  <2>2. AccountTypeOK'
    BY <2>1 DEF AccountInv, AccountTypeOK, mfaVars
  <2>3. QED
    BY <2>1, <2>2, MfaStays, LinksStayWithTasks DEF AccountInv, ProvedShown, mfaVars
<1>2. CASE AccountNext
  BY <1>2, EnrollmentKeeps, MfaTaskKeeps, RequestLinkKeeps, CreateTokenKeeps, SendLinkKeeps,
     LinkEndKeeps, AbandonKeeps DEF AccountNext
<1>3. QED
  BY <1>1, <1>2

\* The invariant holds in every state.
THEOREM AccountInvariance == AccountSpec => []AccountInv
  BY AccountSecurityAssumption, AccountInitSound, AccountNextKeeps, PTL DEF AccountSpec

\* The variables of the module have their types.
THEOREM AccountTypeCorrect == AccountSpec => []AccountTypeOK
  BY AccountInvariance, PTL DEF AccountInv

\* A secret is enabled only after a confirmation showed a code of it.
THEOREM EnabledWasProved == AccountSpec => []ProvedBeforeEnabled
  BY AccountInvariance, PTL DEF AccountInv, MfaSound

\* The recovery codes are those of the enabled secret and work once each.
THEOREM CodesAreOfTheSecret == AccountSpec => []CodesBelong
  BY AccountInvariance, PTL DEF AccountInv, MfaSound

\* A link works once, and not after one that was requested later was made.
THEOREM LaterLinksReplace == AccountSpec => []LaterLinkReplaces
<1>1. AccountInv => LaterLinkReplaces
  <2>1. ASSUME NEW k \in Kinds, NEW n \in Links, LinkSound(k, n)
        PROVE  /\ link[k][n].uses <= 1
               /\ n \in Committed(k) => \A m \in link[k][n].before : link[k][m].status # "live"
    <3>1. link[k][n].uses <= 1
      BY <2>1 DEF LinkSound
    <3>2. QED
      BY <2>1, <3>1 DEF LinkSound
  <2>2. QED
    BY <2>1 DEF AccountInv, LinksSound, LaterLinkReplaces
<1>2. QED
  BY <1>1, AccountInvariance, PTL

=============================================================================
