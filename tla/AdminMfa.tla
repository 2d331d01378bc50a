------------------------------ MODULE AdminMfa ------------------------------
(***************************************************************************)
(* AdminMfaService over RdsDataAdminMfaRepository: the second factor that  *)
(* precedes a high-risk decision.  A user has one credential row, a session*)
(* one verification row, and every statement commits by itself.            *)
(*                                                                         *)
(* confirm, verify and recover each read the credential, check the code    *)
(* against what they read, consume it with a conditional UPDATE, and then  *)
(* record the session; enroll and recovery/enroll check, then overwrite.   *)
(* Requests interleave between the statements and may die there (Abort).   *)
(*                                                                         *)
(* Time is counted in TOTP steps of 30 s; it stands still within an action,*)
(* so a request reads the clock when it checks and again when it writes.   *)
(* Which code a client types is its choice: one that matches a step of the *)
(* window, or one that does not.                                           *)
(***************************************************************************)
EXTENDS Integers, FiniteSets

CONSTANTS
    Sessions,       \* the sid claims of access tokens
    Users,
    Owner,          \* session -> user
    Secrets,        \* TOTP secrets that random_base32 may return
    BatchSize,      \* recovery codes per confirmation
    Workers,        \* concurrent requests
    MaxAttempts,    \* MAX_ATTEMPTS
    LockSteps,      \* LOCK_MINUTES
    SessionSteps,   \* SESSION_HOURS
    LastStep        \* bound on the time explored

ASSUME OwnerAssumption == Owner \in [Sessions -> Users]
ASSUME WorkersAssumption == IsFiniteSet(Workers)
ASSUME StepsAssumption ==
    /\ BatchSize \in Nat
    /\ MaxAttempts \in Nat /\ MaxAttempts >= 2
    /\ LockSteps \in Nat \ {0}
    /\ SessionSteps \in Nat \ {0}
    /\ LastStep \in Nat

VARIABLES
    clock,
    credential,     \* user -> the row of admin_mfa_credentials, or NotEnrolled
    session,        \* session -> the row of admin_mfa_sessions, or Unverified
    worker,         \* the requests under way
    issued,         \* secrets generated so far
    spent,          \* history: the codes accepted
    proven          \* history: <<session, method>> of the codes accepted

mfaVars == <<clock, credential, session, worker, issued, spent, proven>>

(* last_used_counter and locked_until are NULL: before any step. *)
Never == 0
FirstStep == 2

NotEnrolled == [status |-> "not_enrolled"]
Pending(secret) ==
    [status |-> "pending", secret |-> secret, lastUsed |-> Never, codes |-> {},
     failures |-> 0, lockedUntil |-> Never]

Unverified == [method |-> "none"]
Verification(method) ==
    [method |-> method, verifiedAt |-> clock, expiresAt |-> clock + SessionSteps]

(* One clock step of skew is permitted either way. *)
Window == (clock - 1) .. (clock + 1)
TotpCode(secret, counter) ==
    [method |-> "totp", secret |-> secret, number |-> counter]
(* _new_recovery_codes: salted and random, so no two batches share a code;  *)
(* a secret is activated once, so it names the batch.                       *)
Batch(secret) ==
    {[method |-> "recovery_code", secret |-> secret, number |-> n] :
       n \in 1 .. BatchSize}

Idle == [stage |-> "idle"]
Enrolling(s) == [stage |-> "enrolling", session |-> s]
Failing(s) == [stage |-> "failing", session |-> s]
Checked(op, s, code, codes) ==
    [stage |-> "checked", op |-> op, session |-> s, code |-> code, codes |-> codes]
UserOf(w) == Owner[worker[w].session]

MfaInit ==
    /\ clock = FirstStep
    /\ credential = [u \in Users |-> NotEnrolled]
    /\ session = [s \in Sessions |-> Unverified]
    /\ worker = [w \in Workers |-> Idle]
    /\ issued = {}
    /\ spent = {}
    /\ proven = {}

(* _session_is_valid *)
Verified(s) == session[s] # Unverified /\ session[s].expiresAt > clock

Enroll(w, s) ==
    /\ worker[w] = Idle
    /\ credential[Owner[s]].status # "active"
    /\ worker' = [worker EXCEPT ![w] = Enrolling(s)]
    /\ UNCHANGED <<clock, credential, session, issued, spent, proven>>

RecoveryEnroll(w, s) ==
    /\ worker[w] = Idle
    /\ Verified(s)
    /\ session[s].method = "recovery_code"
    /\ worker' = [worker EXCEPT ![w] = Enrolling(s)]
    /\ UNCHANGED <<clock, credential, session, issued, spent, proven>>

(* _start_enrollment: the upsert looks at nothing. *)
SavePending(w) ==
    /\ worker[w].stage = "enrolling"
    /\ \E secret \in Secrets \ issued :
         /\ credential' = [credential EXCEPT ![UserOf(w)] = Pending(secret)]
         /\ issued' = issued \cup {secret}
    /\ worker' = [worker EXCEPT ![w] = Idle]
    /\ UNCHANGED <<clock, session, spent, proven>>

(* The lock is looked at only when a failure is recorded. *)
BugLockIgnored(u, expected) == credential[u].status = expected

(* _credential *)
Usable(u, expected) ==
    /\ credential[u].status = expected
    /\ credential[u].lockedUntil <= clock

Fail(w, s) == worker' = [worker EXCEPT ![w] = Failing(s)]

(* _verify_totp, for confirm (a pending credential) and verify (an active   *)
(* one).  A code that matches but is not newer is refused and not counted.  *)
CheckTotp(w, s, op) ==
    LET u == Owner[s] IN
      /\ worker[w] = Idle
      /\ Usable(u, IF op = "confirm" THEN "pending" ELSE "active")
      /\ \/ \E counter \in Window :
              /\ counter > credential[u].lastUsed
              /\ worker' = [worker EXCEPT ![w] =
                   Checked(op, s, TotpCode(credential[u].secret, counter), {})]
         \/ Fail(w, s)
      /\ UNCHANGED <<clock, credential, session, issued, spent, proven>>

(* recover: the code matches one of the list read, and the list is kept.    *)
CheckRecovery(w, s) ==
    LET u == Owner[s] IN
      /\ worker[w] = Idle
      /\ Usable(u, "active")
      /\ \/ \E code \in credential[u].codes :
              worker' = [worker EXCEPT ![w] =
                   Checked("recover", s, code, credential[u].codes)]
         \/ Fail(w, s)
      /\ UNCHANGED <<clock, credential, session, issued, spent, proven>>

(* record_failure.  MySQL assigns from left to right, so the CASE adds one  *)
(* to a failed_attempts that has been incremented already.                  *)
RecordFailure(w) ==
    LET row == credential[UserOf(w)]
        failures == row.failures + 1
    IN  /\ worker[w].stage = "failing"
        /\ credential' = [credential EXCEPT ![UserOf(w)] =
             [row EXCEPT !.failures = failures,
                         !.lockedUntil = IF failures + 1 >= MaxAttempts
                                           THEN clock + LockSteps ELSE @]]
        /\ worker' = [worker EXCEPT ![w] = Idle]
        /\ UNCHANGED <<clock, session, issued, spent, proven>>

(* last_used_counter is not compared again. *)
BugNoMonotonicPredicate(w) ==
    credential[UserOf(w)].status =
      IF worker[w].op = "confirm" THEN "pending" ELSE "active"

(* The list of recovery codes is not compared with the one read. *)
BugNoCompareAndSwap(w) ==
    LET row == credential[UserOf(w)]
        op == worker[w].op
    IN  /\ row.status = IF op = "confirm" THEN "pending" ELSE "active"
        /\ op = "verify" => row.lastUsed < worker[w].code.number

(* The WHERE clauses of activate, consume_totp_counter and                  *)
(* consume_recovery_codes: none of them looks at the secret or the lock.    *)
Consumable(w) ==
    LET row == credential[UserOf(w)]
        op == worker[w].op
    IN  /\ row.status = IF op = "confirm" THEN "pending" ELSE "active"
        /\ op = "verify" => row.lastUsed < worker[w].code.number
        /\ op = "recover" => row.codes = worker[w].codes

(* Their SET clauses; a TOTP code is in no list of recovery codes.          *)
Consumed(row, op, code) ==
    [row EXCEPT !.status = "active",
                !.lastUsed = IF op = "recover" THEN @ ELSE code.number,
                !.codes = IF op = "confirm" THEN Batch(row.secret)
                                            ELSE @ \ {code},
                !.failures = 0,
                !.lockedUntil = Never]

Consume(w) ==
    /\ worker[w].stage = "checked"
    /\ Consumable(w)
    /\ credential' = [credential EXCEPT ![UserOf(w)] =
                        Consumed(@, worker[w].op, worker[w].code)]
    /\ spent' = spent \cup {worker[w].code}
    /\ proven' = proven \cup {<<worker[w].session, worker[w].code.method>>}
    /\ worker' = [worker EXCEPT ![w].stage = "accepted"]
    /\ UNCHANGED <<clock, session, issued>>

(* No row was updated: ADMIN_MFA_STATE_CONFLICT, ADMIN_MFA_CODE_REUSED. *)
Conflict(w) ==
    /\ worker[w].stage = "checked"
    /\ ~Consumable(w)
    /\ worker' = [worker EXCEPT ![w] = Idle]
    /\ UNCHANGED <<clock, credential, session, issued, spent, proven>>

(* The session is recorded as soon as the code matched. *)
BugSessionBeforeConsume(w) ==
    /\ worker[w].stage \in {"checked", "accepted"}
    /\ session' = [session EXCEPT ![worker[w].session] =
                     Verification(worker[w].code.method)]
    /\ worker' = [worker EXCEPT ![w] = Idle]
    /\ UNCHANGED <<clock, credential, issued, spent, proven>>

(* The session row names the operation instead of its method. *)
BugMethodIsOperation(w) ==
    /\ worker[w].stage = "accepted"
    /\ session' = [session EXCEPT ![worker[w].session] =
                     Verification(worker[w].op)]
    /\ worker' = [worker EXCEPT ![w] = Idle]
    /\ UNCHANGED <<clock, credential, issued, spent, proven>>

(* record_session *)
RecordSession(w) ==
    /\ worker[w].stage = "accepted"
    /\ session' = [session EXCEPT ![worker[w].session] =
                     Verification(worker[w].code.method)]
    /\ worker' = [worker EXCEPT ![w] = Idle]
    /\ UNCHANGED <<clock, credential, issued, spent, proven>>

(* The request dies, or a statement fails; a token without a sid ends so    *)
(* after its code was consumed.                                             *)
Abort(w) ==
    /\ worker[w] # Idle
    /\ worker' = [worker EXCEPT ![w] = Idle]
    /\ UNCHANGED <<clock, credential, session, issued, spent, proven>>

Tick ==
    /\ clock < LastStep
    /\ clock' = clock + 1
    /\ UNCHANGED <<credential, session, worker, issued, spent, proven>>

MfaNext ==
    \/ \E w \in Workers, s \in Sessions :
         \/ Enroll(w, s)
         \/ RecoveryEnroll(w, s)
         \/ \E op \in {"confirm", "verify"} : CheckTotp(w, s, op)
         \/ CheckRecovery(w, s)
    \/ \E w \in Workers :
         \/ SavePending(w)
         \/ RecordFailure(w)
         \/ Consume(w)
         \/ Conflict(w)
         \/ RecordSession(w)
         \/ Abort(w)
    \/ Tick

MfaSpec == MfaInit /\ [][MfaNext]_mfaVars
-----------------------------------------------------------------------------
TotpCodes == [method: {"totp"}, secret: Secrets, number: Nat]
RecoveryCodes == UNION {Batch(secret) : secret \in Secrets}
Credentials ==
    [status: {"pending", "active"}, secret: Secrets, lastUsed: Nat,
     codes: SUBSET RecoveryCodes, failures: Nat, lockedUntil: Nat]
Verifications ==
    [method: {"totp", "recovery_code"}, verifiedAt: Nat, expiresAt: Nat]
Requests ==
    [stage: {"enrolling", "failing"}, session: Sessions] \cup
    [stage: {"checked", "accepted"}, op: {"confirm", "verify"},
     session: Sessions, code: TotpCodes, codes: {{}}] \cup
    [stage: {"checked", "accepted"}, op: {"recover"}, session: Sessions,
     code: RecoveryCodes, codes: SUBSET RecoveryCodes]

MfaTypeOK ==
    /\ clock \in Nat /\ clock >= FirstStep
    /\ credential \in [Users -> Credentials \cup {NotEnrolled}]
    /\ session \in [Sessions -> Verifications \cup {Unverified}]
    /\ worker \in [Workers -> Requests \cup {Idle}]
    /\ issued \subseteq Secrets
    /\ spent \subseteq TotpCodes \cup RecoveryCodes
    /\ proven \subseteq Sessions \X {"totp", "recovery_code"}

(* "The monotonic predicate makes replay prevention atomic across           *)
(* concurrent Lambda invocations" (consume_totp_counter), and a recovery    *)
(* code is single-use: a code of the secret or batch in force is accepted   *)
(* at most once, whichever requests checked it against the same row.        *)
CodesSingleUse ==
    [][\A w \in Workers :
         ( /\ worker[w].stage = "checked"
           /\ worker'[w].stage = "accepted"
           /\ worker[w].code.secret = credential[UserOf(w)].secret ) =>
         worker[w].code \notin spent]_mfaVars

(* "A recovery code session cannot be used for high-risk approve/reject":   *)
(* require_verified lets a session pass by a method only if a code of that  *)
(* method was accepted in that very session, on this or another worker.     *)
SessionsProven ==
    \A s \in Sessions : Verified(s) => <<s, session[s].method>> \in proven

(* What the lock-out lets through: requests that read the row before a lock *)
(* still count, so each end of a lock admits at most one more failure per   *)
(* concurrent request.                                                      *)
LockoutBoundsGuesses ==
    \A u \in Users : credential[u] # NotEnrolled =>
      credential[u].failures <=
        (MaxAttempts - 2) + Cardinality(Workers) * (1 + clock \div LockSteps)

(* "MFA is locked temporarily after five consecutive failures": not sooner. *)
LocksAfterMaxAttempts ==
    \A u \in Users :
      (credential[u] # NotEnrolled /\ credential[u].lockedUntil > clock) =>
        credential[u].failures >= MaxAttempts

(* Confirming means proving possession of the new secret: a credential is   *)
(* active only if a code of its own secret was accepted.                    *)
ActiveSecretProven ==
    \A u \in Users : credential[u].status = "active" =>
      \E code \in spent : /\ code.method = "totp"
                          /\ code.secret = credential[u].secret
=============================================================================
