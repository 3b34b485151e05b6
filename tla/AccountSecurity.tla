--------------------------- MODULE AccountSecurity ---------------------------
(***************************************************************************)
(* The second factor of one user account and the links sent to its owner:  *)
(* MfaService (enrollment, confirmation, verification, recovery codes) and *)
(* AccountSecurityService (e-mail verification and password recovery).     *)
(* What a new password does to the sessions is in Sessions.                *)
(*                                                                         *)
(* A request runs through several transactions and others act in between.  *)
(* Two transactions on the same rows of multi-factor authentication come   *)
(* one after the other, since each begins with a row of the account that   *)
(* the other needs, or one of them fails (Abandon); so each is one step.   *)
(* Requests for a link do overlap: the insert of one is invisible to the   *)
(* update of the other, so such a transaction is two steps.                *)
(*                                                                         *)
(* Secrets, batches of recovery codes and links are random; a number       *)
(* stands for each.                                                        *)
(***************************************************************************)
EXTENDS Naturals

CONSTANTS Tasks,        \* requests in progress at the same time
          BatchCodes,   \* the recovery codes of a batch
          MaxSecret,    \* bound: enrollments begun
          MaxLink,      \* bound: links of each kind
          MaxRequests   \* bound: requests of more than one transaction

ASSUME AccountSecurityAssumption == {MaxSecret, MaxLink, MaxRequests} \subseteq Nat \ {0}

VARIABLES user,        \* users: encrypted_mfa_secret (0: none), email_verified_at
          enrollment,  \* mfa_enrollments: its row, secret 0 for none
          codes,       \* mfa_recovery_codes
          link,        \* email_verification_tokens, password_reset_tokens
          task,        \* where each request is
          served,      \* how many there were
          begun,       \* enrollments begun: the secrets their user has seen
          shown,       \* the secrets of which confirmations showed a code
          batch,       \* the batch made when the enabled secret was activated
          activated,   \* batches made so far
          handed,      \* batches whose codes an answer contained
          accepted     \* how often a verification accepted a recovery code

mfaVars == <<enrollment, codes, begun, shown, batch, activated, handed, accepted>>
accountVars == <<user, link, task, served, mfaVars>>

Kinds == {"verification", "reset"}
Secrets == 1 .. MaxSecret
Links == 1 .. MaxLink
RecoveryCodes == Secrets \X BatchCodes   \* at most one batch for each enrollment

\* before: the links that were there when this one was requested.
Link == [status : {"none", "requested", "live", "replaced", "used", "expired"},
         before : SUBSET Links, sent : BOOLEAN, uses : 0 .. 2]
NoLink == [status |-> "none", before |-> {}, sent |-> FALSE, uses |-> 0]
NoEnrollment == [secret |-> 0, expired |-> FALSE]

NoTask == [at |-> "idle"]
Task ==
    {NoTask} \cup [at : {"proved"}, secret : Secrets]
           \cup [at : {"activated"}, batch : Secrets]
           \cup [at : {"consuming"}, code : RecoveryCodes]
           \cup [at : {"replacing"}, kind : Kinds, link : Links, sees : SUBSET Links]
           \cup [at : {"sending"}, kind : Kinds, link : Links]

AccountTypeOK ==
    /\ user \in [secret : 0 .. MaxSecret, verified : BOOLEAN]
    /\ enrollment \in [secret : 0 .. MaxSecret, expired : BOOLEAN]
    /\ codes \in [RecoveryCodes -> {"absent", "unused", "consumed"}]
    /\ link \in [Kinds -> [Links -> Link]]
    /\ task \in [Tasks -> Task]
    /\ served \in 0 .. MaxRequests
    /\ begun \in 0 .. MaxSecret /\ batch \in 0 .. MaxSecret /\ activated \in 0 .. MaxSecret
    /\ shown \subseteq Secrets /\ handed \subseteq Secrets
    /\ accepted \in [RecoveryCodes -> 0 .. 2]

AccountInit ==
    /\ user = [secret |-> 0, verified |-> FALSE]
    /\ enrollment = NoEnrollment
    /\ codes = [x \in RecoveryCodes |-> "absent"]
    /\ link = [k \in Kinds |-> [n \in Links |-> NoLink]]
    /\ task = [r \in Tasks |-> NoTask]
    /\ served = 0 /\ begun = 0 /\ batch = 0 /\ activated = 0
    /\ shown = {} /\ handed = {}
    /\ accepted = [x \in RecoveryCodes |-> 0]

Goes(r, to) == task' = [task EXCEPT ![r] = to] /\ UNCHANGED served

\* A request begins and goes on to its second transaction.
Starts(r, to) ==
    /\ task[r] = NoTask /\ served < MaxRequests
    /\ task' = [task EXCEPT ![r] = to]
    /\ served' = served + 1

------------------------------------------------------------------------------
(* Multi-factor authentication.                                            *)

\* createEnrollment replaces the row there is.
EnrollmentRow(secret) == [secret |-> secret, expired |-> FALSE]

\* beginEnrollment makes a new secret.
BeginEnrollment ==
    /\ begun < MaxSecret
    /\ begun' = begun + 1
    /\ enrollment' = EnrollmentRow(begun')
    /\ UNCHANGED <<user, link, task, served, codes, shown, batch, activated, handed, accepted>>

\* expires_at passes, for what reads it from here on.
EnrollmentExpires ==
    /\ enrollment.secret # 0 /\ ~enrollment.expired
    /\ enrollment' = [enrollment EXCEPT !.expired = TRUE]
    /\ UNCHANGED <<user, link, task, served, codes, begun, shown, batch, activated, handed,
                   accepted>>

\* TotpProvider.verify, for a code made with secret s in time.
TotpVerify(secret, s) == secret = s

\* getPendingEnrollment
EnrollmentPending == enrollment.secret # 0 /\ ~enrollment.expired

\* confirmEnrollment reads the enrollment and compares the code, which was
\* made with secret s.
ConfirmEnrollment(r, s) ==
    /\ s <= begun /\ EnrollmentPending /\ TotpVerify(enrollment.secret, s)
    /\ Starts(r, [at |-> "proved", secret |-> enrollment.secret])
    /\ shown' = shown \cup {s}
    /\ UNCHANGED <<user, link, enrollment, codes, begun, batch, activated, handed, accepted>>

\* mutant: the secret of the enrollment that is deleted
SecretOfRow(r) == enrollment.secret

\* The secret that is enabled is the one confirmEnrollment read.
EnabledBy(r) == task[r].secret

\* mutant: the codes of an earlier secret are kept
CodesKept == codes

\* DELETE FROM mfa_recovery_codes
CodesDeleted == [x \in RecoveryCodes |-> "absent"]

\* activateEnrollment deletes whatever enrollment there is now, unless there
\* is none or it has expired.
ActivateEnrollment(r) ==
    /\ task[r].at = "proved"
    /\ IF EnrollmentPending
       THEN /\ enrollment' = NoEnrollment
            /\ user' = [user EXCEPT !.secret = EnabledBy(r)]
            /\ activated' = activated + 1 /\ batch' = activated'
            /\ codes' = [x \in RecoveryCodes |->
                           IF x[1] = batch' THEN "unused" ELSE CodesDeleted[x]]
            /\ Goes(r, [at |-> "activated", batch |-> batch'])
       ELSE /\ Goes(r, NoTask)
            /\ UNCHANGED <<user, enrollment, codes, batch, activated>>
    /\ UNCHANGED <<link, begun, shown, handed, accepted>>

\* The answer of /auth/mfa/enroll/confirm contains the codes.
HandOut(r) ==
    /\ task[r].at = "activated"
    /\ handed' = handed \cup {task[r].batch}
    /\ Goes(r, NoTask)
    /\ UNCHANGED <<user, link, enrollment, codes, begun, shown, batch, activated, accepted>>

\* getEnabledSecret
Enabled == user.secret # 0

\* MfaService.verify with a recovery code.  A right code of the secret is
\* accepted without a change.
Verify(r, x) ==
    /\ x[1] \in handed /\ Enabled
    /\ Starts(r, [at |-> "consuming", code |-> x])
    /\ UNCHANGED <<user, link, mfaVars>>

\* The row that the update of consumeRecoveryCode finds.
Consumable(x) == codes[x] = "unused"

\* consumeRecoveryCode, and the answer.
ConsumeRecoveryCode(r) ==
    LET x == task[r].code
    IN  /\ task[r].at = "consuming"
        /\ IF Consumable(x)
           THEN /\ codes' = [codes EXCEPT ![x] = "consumed"]
                /\ accepted' = [accepted EXCEPT ![x] = @ + 1]
           ELSE UNCHANGED <<codes, accepted>>
        /\ Goes(r, NoTask)
        /\ UNCHANGED <<user, link, enrollment, begun, shown, batch, activated, handed>>

\* disableMfa
DisableMfa ==
    /\ user' = [user EXCEPT !.secret = 0]
    /\ enrollment' = NoEnrollment
    /\ codes' = CodesDeleted
    /\ batch' = 0
    /\ UNCHANGED <<link, task, served, begun, shown, activated, handed, accepted>>

------------------------------------------------------------------------------
(* Links.                                                                  *)

Unconsumed(k) == {n \in Links : link[k][n].status \in {"live", "expired"}}
Committed(k) == {n \in Links : link[k][n].status \notin {"none", "requested"}}

\* mutant: the earlier links are left alone
Untouched(k) == {}

\* The rows that the UPDATE of a request sees, and locks.
Superseded(k) == Unconsumed(k)

\* requestEmailVerification and requestPasswordReset find the account and
\* begin to create a token.
RequestLink(r, k, n) ==
    /\ link[k][n].status = "none" /\ \A m \in 1 .. n - 1 : link[k][m].status # "none"
    /\ link' = [link EXCEPT ![k][n].status = "requested", ![k][n].before = Committed(k)]
    /\ Starts(r, [at |-> "replacing", kind |-> k, link |-> n, sees |-> Superseded(k)])
    /\ UNCHANGED <<user, mfaVars>>

\* createEmailVerificationToken and createPasswordResetToken commit.
CreateToken(r) ==
    LET q == task[r]
    IN  /\ q.at = "replacing"
        /\ link' = [link EXCEPT ![q.kind] =
              [n \in Links |->
                 IF n = q.link THEN [@[n] EXCEPT !.status = "live"]
                 ELSE IF n \in q.sees \cap Unconsumed(q.kind)
                 THEN [@[n] EXCEPT !.status = "replaced"] ELSE @[n]]]
        /\ Goes(r, [at |-> "sending", kind |-> q.kind, link |-> q.link])
        /\ UNCHANGED <<user, mfaVars>>

\* AccountSecurityNotificationAdapter queues the message with the token.
SendLink(r) ==
    LET q == task[r]
    IN  /\ q.at = "sending"
        /\ link' = [link EXCEPT ![q.kind][q.link].sent = TRUE]
        /\ Goes(r, NoTask)
        /\ UNCHANGED <<user, mfaVars>>

\* expires_at passes.
LinkExpires(k, n) ==
    /\ link[k][n].status = "live"
    /\ link' = [link EXCEPT ![k][n].status = "expired"]
    /\ UNCHANGED <<user, task, served, mfaVars>>

\* consumed_at IS NULL AND expires_at > $3
Accepts(k, n) == link[k][n].status = "live"

\* consumeToken, after which the verified address is recorded or the password
\* changed; it waits for a request that has locked the row.
UseLink(k, n) ==
    /\ link[k][n].sent /\ link[k][n].uses < 2
    /\ \A r \in Tasks : task[r].at = "replacing" /\ task[r].kind = k
                           => n \notin task[r].sees
    /\ Accepts(k, n)
    /\ link' = [link EXCEPT ![k][n].status = "used", ![k][n].uses = @ + 1]
    /\ user' = [user EXCEPT !.verified = @ \/ k = "verification"]
    /\ UNCHANGED <<task, served, mfaVars>>

\* A statement fails or the process dies: what the transaction did is undone,
\* what comes after it does not happen.
Abandon(r) ==
    LET q == task[r]
    IN  /\ q # NoTask
        /\ Goes(r, NoTask)
        /\ link' = IF q.at = "replacing" THEN [link EXCEPT ![q.kind][q.link] = NoLink] ELSE link
        /\ UNCHANGED <<user, mfaVars>>

AccountNext ==
    \/ BeginEnrollment \/ EnrollmentExpires \/ DisableMfa
    \/ \E r \in Tasks :
          \/ \E s \in Secrets : ConfirmEnrollment(r, s)
          \/ \E x \in RecoveryCodes : Verify(r, x)
          \/ \E k \in Kinds, n \in Links : RequestLink(r, k, n)
          \/ ActivateEnrollment(r) \/ HandOut(r) \/ ConsumeRecoveryCode(r)
          \/ CreateToken(r) \/ SendLink(r) \/ Abandon(r)
    \/ \E k \in Kinds, n \in Links : LinkExpires(k, n) \/ UseLink(k, n)

AccountSpec == AccountInit /\ [][AccountNext]_accountVars

------------------------------------------------------------------------------
(* Properties.                                                             *)

\* The secret that is enabled is one of which a confirmation showed a code
\* ("Require a successful TOTP challenge before activating enrollment",
\* docs/10-adr/0016-mfa-totp.md), also when the user began another enrollment
\* between the comparison and the activation.
ProvedBeforeEnabled == user.secret \in shown \cup {0}

\* The recovery codes there are were made with the enabled secret, all of them
\* are there as long as it is enabled, and each is accepted once, however
\* verifications, new enrollments and disabling overlap.
CodesBelong ==
    /\ \A x \in RecoveryCodes : (codes[x] # "absent") <=> (x[1] = batch)
    /\ batch # 0 <=> user.secret # 0
    /\ \A x \in RecoveryCodes : accepted[x] <= 1

\* A link works once, and not at all after one was made that was requested
\* when the first was already there; only of links requested at the same time
\* two may work.
LaterLinkReplaces ==
    \A k \in Kinds, n \in Links :
        /\ link[k][n].uses <= 1
        /\ n \in Committed(k) => \A m \in link[k][n].before : link[k][m].status # "live"
==============================================================================
