--------------------------- MODULE AdminMfaProofs ---------------------------
(***************************************************************************)
(* Proofs about AdminMfa.  A request is checked against a row that others  *)
(* may replace before it consumes its code, so the argument is about what  *)
(* stays true of a checked request: its secret was issued, no other user's *)
(* row has it, and of the secret in force every accepted code is behind    *)
(* the row's counter or out of the row's list.                             *)
(***************************************************************************)
EXTENDS AdminMfa, FiniteSetTheorems, TLAPS

(* Whoever fails, or has been checked, belongs to a user with a row. *)
FailuresEnrolled ==
    \A w \in Workers :
      worker[w].stage = "failing" => credential[UserOf(w)] # NotEnrolled

LEMMA IdleStage == Idle.stage = "idle"
  BY DEF Idle

(* A row with a status is a credential. *)
LEMMA EnrolledTyped ==
  ASSUME MfaTypeOK, NEW u \in Users,
         credential[u] # NotEnrolled \/ credential[u].status \in {"pending", "active"}
  PROVE  credential[u] \in Credentials
  BY DEF MfaTypeOK, NotEnrolled

LEMMA RequestTyped ==
  ASSUME MfaTypeOK, NEW w \in Workers, worker[w] # Idle
  PROVE  /\ worker[w] \in Requests
         /\ worker[w].session \in Sessions
         /\ UserOf(w) \in Users
  <1>1. worker[w] \in Requests BY DEF MfaTypeOK
  <1>2. worker[w].session \in Sessions BY <1>1 DEF Requests
  <1> QED BY <1>1, <1>2, OwnerAssumption DEF UserOf

LEMMA CheckedTyped ==
  ASSUME MfaTypeOK, NEW w \in Workers, worker[w].stage \in {"checked", "accepted"}
  PROVE  /\ worker[w].session \in Sessions
         /\ UserOf(w) \in Users
         /\ worker[w].op \in {"confirm", "verify", "recover"}
         /\ worker[w].op = "recover" =>
              worker[w].code \in RecoveryCodes /\ worker[w].codes \in SUBSET RecoveryCodes
         /\ worker[w].op # "recover" => worker[w].code \in TotpCodes
  <1>1. worker[w] # Idle BY DEF Idle
  <1>2. worker[w] \in Requests BY <1>1, RequestTyped
  <1> QED BY <1>1, <1>2, RequestTyped DEF Requests

LEMMA CodesTyped ==
  ASSUME NEW secret \in Secrets, NEW code \in Batch(secret)
  PROVE  /\ code \in RecoveryCodes
         /\ code.method = "recovery_code"
         /\ code.secret = secret
  BY DEF Batch, RecoveryCodes

LEMMA RecoveryCodesMethod ==
  ASSUME NEW code \in RecoveryCodes
  PROVE  code.method = "recovery_code" /\ code.secret \in Secrets
  BY DEF RecoveryCodes, Batch

LEMMA InitMfaTyped == MfaInit => MfaTypeOK /\ FailuresEnrolled
  BY DEF MfaInit, MfaTypeOK, FailuresEnrolled, FirstStep, Idle

LEMMA CheckTotpTyped ==
  ASSUME MfaTypeOK, NEW w \in Workers, NEW s \in Sessions,
         NEW op \in {"confirm", "verify"}, CheckTotp(w, s, op)
  PROVE  MfaTypeOK'
  <1> DEFINE u == Owner[s]
  <1>1. u \in Users BY OwnerAssumption
  <1>2. credential[u] \in Credentials BY <1>1, EnrolledTyped DEF CheckTotp, Usable
  <1>3. credential[u].secret \in Secrets BY <1>2 DEF Credentials
  <1>4. clock \in Nat /\ clock >= 2 BY DEF MfaTypeOK, FirstStep
  <1>5. ASSUME NEW counter \in Window
        PROVE  Checked(op, s, TotpCode(credential[u].secret, counter), {}) \in Requests
    <2>1. counter \in Nat BY <1>4 DEF Window
    <2>2. TotpCode(credential[u].secret, counter) \in TotpCodes
      BY <1>3, <2>1 DEF TotpCode, TotpCodes
    <2> QED BY <2>2 DEF Checked, Requests
  <1>6. Failing(s) \in Requests BY DEF Failing, Requests
  <1>7. worker' \in [Workers -> Requests \cup {Idle}]
    BY <1>5, <1>6 DEF CheckTotp, Fail, MfaTypeOK
  <1> QED BY <1>7 DEF CheckTotp, MfaTypeOK

LEMMA CheckRecoveryTyped ==
  ASSUME MfaTypeOK, NEW w \in Workers, NEW s \in Sessions, CheckRecovery(w, s)
  PROVE  MfaTypeOK'
  <1> DEFINE u == Owner[s]
  <1>1. u \in Users BY OwnerAssumption
  <1>2. credential[u] \in Credentials
    BY <1>1, EnrolledTyped DEF CheckRecovery, Usable
  <1>3. credential[u].codes \in SUBSET RecoveryCodes BY <1>2 DEF Credentials
  <1>4. ASSUME NEW code \in credential[u].codes
        PROVE  Checked("recover", s, code, credential[u].codes) \in Requests
    BY <1>3 DEF Checked, Requests
  <1>5. Failing(s) \in Requests BY DEF Failing, Requests
  <1>6. worker' \in [Workers -> Requests \cup {Idle}]
    BY <1>4, <1>5 DEF CheckRecovery, Fail, MfaTypeOK
  <1> QED BY <1>6 DEF CheckRecovery, MfaTypeOK

(* What a consumed row looks like, for each of the three statements. *)
LEMMA ConsumedRow ==
  ASSUME MfaTypeOK, NEW w \in Workers, Consume(w)
  PROVE  LET u == UserOf(w)
             row == credential[u]
             new == Consumed(row, worker[w].op, worker[w].code)
         IN  /\ u \in Users
             /\ row \in Credentials
             /\ new \in Credentials
             /\ new.status = "active"
             /\ new.secret = row.secret
             /\ new.lastUsed = IF worker[w].op = "recover" THEN row.lastUsed
                                                 ELSE worker[w].code.number
             /\ new.codes = IF worker[w].op = "confirm" THEN Batch(row.secret)
                                     ELSE row.codes \ {worker[w].code}
             /\ new.failures = 0 /\ new.lockedUntil = Never
  <1> DEFINE u == UserOf(w)
             row == credential[u]
             op == worker[w].op
             new == Consumed(row, op, worker[w].code)
  <1>1. worker[w].stage = "checked" BY DEF Consume
  <1>2. u \in Users BY <1>1, CheckedTyped
  <1>3. row.status \in {"pending", "active"} BY DEF Consume, Consumable
  <1>4. row \in Credentials BY <1>2, <1>3, EnrolledTyped
  <1>5. /\ new.status = "active"
        /\ new.secret = row.secret
        /\ new.lastUsed = IF op = "recover" THEN row.lastUsed
                                            ELSE worker[w].code.number
        /\ new.codes = IF op = "confirm" THEN Batch(row.secret)
                                         ELSE row.codes \ {worker[w].code}
        /\ new.failures = 0 /\ new.lockedUntil = Never
    BY <1>4 DEF Consumed, Credentials
  <1>6. op # "recover" => worker[w].code.number \in Nat
    BY <1>1, CheckedTyped DEF TotpCodes
  <1>7. Batch(row.secret) \in SUBSET RecoveryCodes
    BY <1>4, CodesTyped DEF Credentials
  <1>8. new \in Credentials
    BY <1>4, <1>6, <1>7 DEF Consumed, Credentials, Never
  <1> QED BY <1>2, <1>4, <1>5, <1>8

LEMMA ConsumeTyped ==
  ASSUME MfaTypeOK, NEW w \in Workers, Consume(w)
  PROVE  MfaTypeOK'
  <1> DEFINE new == Consumed(credential[UserOf(w)], worker[w].op, worker[w].code)
  <1>1. worker[w].stage = "checked" BY DEF Consume
  <1>2. new \in Credentials BY ConsumedRow
  <1>3. credential' \in [Users -> Credentials \cup {NotEnrolled}]
    BY <1>2 DEF Consume, MfaTypeOK
  <1>4. worker[w] \in Requests /\ worker[w] # Idle
    BY <1>1, IdleStage, RequestTyped
  <1>5. [worker[w] EXCEPT !.stage = "accepted"] \in Requests
    BY <1>1, <1>4 DEF Requests
  <1>6. worker' \in [Workers -> Requests \cup {Idle}]
    BY <1>5 DEF Consume, MfaTypeOK
  <1>7. worker[w].code \in TotpCodes \cup RecoveryCodes BY <1>1, CheckedTyped
  <1>8. <<worker[w].session, worker[w].code.method>> \in
          Sessions \X {"totp", "recovery_code"}
    BY <1>1, CheckedTyped, RecoveryCodesMethod DEF TotpCodes
  <1>9. spent' \subseteq TotpCodes \cup RecoveryCodes
    BY <1>7 DEF Consume, MfaTypeOK
  <1>10. proven' \subseteq Sessions \X {"totp", "recovery_code"}
    BY <1>8 DEF Consume, MfaTypeOK
  <1> QED BY <1>3, <1>6, <1>9, <1>10 DEF Consume, MfaTypeOK

LEMMA RecordSessionTyped ==
  ASSUME MfaTypeOK, NEW w \in Workers, RecordSession(w)
  PROVE  MfaTypeOK'
  <1>1. worker[w].stage = "accepted" BY DEF RecordSession
  <1>2. worker[w].code.method \in {"totp", "recovery_code"}
    BY <1>1, CheckedTyped, RecoveryCodesMethod DEF TotpCodes
  <1>3. Verification(worker[w].code.method) \in Verifications
    BY <1>2, StepsAssumption DEF Verification, Verifications, MfaTypeOK
  <1>4. session' \in [Sessions -> Verifications \cup {Unverified}]
    BY <1>3 DEF RecordSession, MfaTypeOK
  <1> QED BY <1>4 DEF RecordSession, MfaTypeOK

LEMMA SavePendingTyped ==
  ASSUME MfaTypeOK, NEW w \in Workers, SavePending(w)
  PROVE  MfaTypeOK'
  <1>1. ASSUME NEW secret \in Secrets
        PROVE  Pending(secret) \in Credentials
    BY DEF Pending, Credentials, Never
  <1> QED BY <1>1 DEF SavePending, MfaTypeOK

LEMMA FailedRowTyped ==
  ASSUME NEW row \in Credentials, NEW failures \in Nat, NEW until \in Nat
  PROVE  [row EXCEPT !.failures = failures, !.lockedUntil = until] \in Credentials
  BY DEF Credentials

LEMMA RecordFailureTyped ==
  ASSUME MfaTypeOK, FailuresEnrolled, NEW w \in Workers, RecordFailure(w)
  PROVE  MfaTypeOK'
  <1> DEFINE u == UserOf(w)
             row == credential[u]
             until == IF row.failures + 1 + 1 >= MaxAttempts
                        THEN clock + LockSteps ELSE row.lockedUntil
             new == [row EXCEPT !.failures = row.failures + 1,
                                !.lockedUntil = until]
  <1>1. u \in Users /\ row # NotEnrolled
    BY IdleStage, RequestTyped DEF RecordFailure, FailuresEnrolled
  <1>2. row \in Credentials BY <1>1, EnrolledTyped
  <1>3. new \in Credentials
    <2>1. row.failures \in Nat /\ row.lockedUntil \in Nat BY <1>2 DEF Credentials
    <2>2. clock \in Nat /\ LockSteps \in Nat BY StepsAssumption DEF MfaTypeOK
    <2>3. until \in Nat BY <2>1, <2>2
    <2>4. row.failures + 1 \in Nat BY <2>1
    <2> HIDE DEF until, row
    <2> QED BY <1>2, <2>3, <2>4, FailedRowTyped
  <1>4. credential' = [credential EXCEPT ![u] = new] BY DEF RecordFailure
  <1>5. credential' \in [Users -> Credentials \cup {NotEnrolled}]
    BY <1>3, <1>4 DEF MfaTypeOK
  <1> QED BY <1>5 DEF RecordFailure, MfaTypeOK

(* Each action leaves every row, session and request well formed; a failure *)
(* is only ever recorded against a row, because no row is deleted.          *)
LEMMA StepMfaTyped ==
  ASSUME MfaTypeOK, FailuresEnrolled, [MfaNext]_mfaVars
  PROVE  MfaTypeOK'
  <1>1. ASSUME NEW w \in Workers, NEW s \in Sessions,
               Enroll(w, s) \/ RecoveryEnroll(w, s)
        PROVE  MfaTypeOK'
    <2>1. Enrolling(s) \in Requests BY DEF Enrolling, Requests
    <2> QED BY <1>1, <2>1 DEF Enroll, RecoveryEnroll, MfaTypeOK
  <1>2. ASSUME NEW w \in Workers, Conflict(w) \/ Abort(w)
        PROVE  MfaTypeOK'
    BY <1>2 DEF Conflict, Abort, MfaTypeOK
  <1>3. CASE Tick
    BY <1>3 DEF Tick, MfaTypeOK, FirstStep
  <1>4. CASE UNCHANGED mfaVars
    BY <1>4 DEF mfaVars, MfaTypeOK
  <1> QED
    BY <1>1, <1>2, <1>3, <1>4, CheckTotpTyped, CheckRecoveryTyped, ConsumeTyped,
       RecordSessionTyped, SavePendingTyped, RecordFailureTyped
       DEF MfaNext

LEMMA RowsStay ==
  ASSUME MfaTypeOK, FailuresEnrolled, [MfaNext]_mfaVars,
         NEW u \in Users, credential[u] # NotEnrolled
  PROVE  credential'[u] # NotEnrolled
  <1>1. credential[u] \in Credentials BY EnrolledTyped
  <1>2. ASSUME NEW w \in Workers, SavePending(w)
        PROVE  credential'[u] # NotEnrolled
    BY <1>2 DEF SavePending, Pending, NotEnrolled, MfaTypeOK
  <1>3. ASSUME NEW w \in Workers, RecordFailure(w)
        PROVE  credential'[u] # NotEnrolled
    <2>1. credential'[u].status = credential[u].status
      BY <1>1, <1>3 DEF RecordFailure, MfaTypeOK, Credentials
    <2> QED BY <1>1, <2>1 DEF Credentials, NotEnrolled
  <1>4. ASSUME NEW w \in Workers, Consume(w)
        PROVE  credential'[u] # NotEnrolled
    <2>1. Consumed(credential[UserOf(w)], worker[w].op, worker[w].code).status = "active"
      BY <1>4, ConsumedRow
    <2> QED BY <1>4, <2>1 DEF Consume, NotEnrolled, MfaTypeOK
  <1>5. CASE credential' = credential BY <1>5
  <1> QED
    BY <1>2, <1>3, <1>4, <1>5
       DEF MfaNext, Enroll, RecoveryEnroll, CheckTotp, CheckRecovery, Conflict,
           RecordSession, Abort, Tick, mfaVars

LEMMA FailuresStayEnrolled ==
  ASSUME MfaTypeOK, FailuresEnrolled, [MfaNext]_mfaVars
  PROVE  FailuresEnrolled'
  <1> SUFFICES ASSUME NEW v \in Workers, worker'[v].stage = "failing"
               PROVE  credential'[Owner[worker'[v].session]] # NotEnrolled
    BY DEF FailuresEnrolled, UserOf
  <1> DEFINE Kept == worker'[v] = worker[v]
  <1>1. CASE Kept
    <2>1. worker[v] # Idle BY <1>1, IdleStage
    <2>2. UserOf(v) \in Users BY <2>1, RequestTyped
    <2>3. credential[UserOf(v)] # NotEnrolled BY <1>1 DEF FailuresEnrolled
    <2> QED BY <1>1, <2>2, <2>3, RowsStay DEF UserOf
  <1>2. ASSUME NEW w \in Workers, NEW s \in Sessions, ~Kept,
               CheckRecovery(w, s) \/ \E op \in {"confirm", "verify"} : CheckTotp(w, s, op)
        PROVE  credential'[Owner[worker'[v].session]] # NotEnrolled
    <2>1. worker'[v] = Failing(s)
      BY <1>2 DEF CheckRecovery, CheckTotp, Fail, Checked, MfaTypeOK
    <2>2. Owner[s] \in Users /\ credential[Owner[s]] # NotEnrolled
      BY <1>2, OwnerAssumption DEF CheckRecovery, CheckTotp, Usable, NotEnrolled
    <2> QED BY <2>1, <2>2, RowsStay DEF Failing
  <1>3. ASSUME NEW w \in Workers, Consume(w)
        PROVE  Kept
    <2>1. worker[w] \in Requests
      BY <1>3, IdleStage, RequestTyped DEF Consume
    <2>2. worker'[w].stage = "accepted"
      BY <1>3, <2>1 DEF Consume, MfaTypeOK, Requests
    <2> QED BY <1>3, <2>2 DEF Consume, MfaTypeOK
  <1>4. ASSUME NEW w \in Workers, NEW s \in Sessions,
               Enroll(w, s) \/ RecoveryEnroll(w, s)
        PROVE  Kept
    BY <1>4 DEF Enroll, RecoveryEnroll, Enrolling, MfaTypeOK
  <1>5. ASSUME NEW w \in Workers,
               \/ SavePending(w) \/ RecordFailure(w) \/ Conflict(w)
               \/ RecordSession(w) \/ Abort(w)
        PROVE  Kept
    <2>1. worker' = [worker EXCEPT ![w] = Idle]
      BY <1>5 DEF SavePending, RecordFailure, Conflict, RecordSession, Abort
    <2> QED BY <2>1, IdleStage DEF MfaTypeOK
  <1>6. CASE Tick \/ UNCHANGED mfaVars
    BY <1>1, <1>6 DEF Tick, mfaVars
  <1> QED BY <1>1, <1>2, <1>3, <1>4, <1>5, <1>6 DEF MfaNext

(* The rows, sessions and requests stay well formed, whatever requests      *)
(* interleave between their statements.                                     *)
THEOREM MfaTypesHold == MfaSpec => [](MfaTypeOK /\ FailuresEnrolled)
  <1>1. MfaInit => MfaTypeOK /\ FailuresEnrolled BY InitMfaTyped
  <1>2. MfaTypeOK /\ FailuresEnrolled /\ [MfaNext]_mfaVars =>
          (MfaTypeOK /\ FailuresEnrolled)'
    BY StepMfaTyped, FailuresStayEnrolled
  <1> QED BY <1>1, <1>2, PTL DEF MfaSpec
-----------------------------------------------------------------------------
(* A request that consumed a code, and a session row, are both proven.      *)
ProvenInv ==
    /\ \A w \in Workers : worker[w].stage = "accepted" =>
         <<worker[w].session, worker[w].code.method>> \in proven
    /\ \A s \in Sessions : session[s] # Unverified =>
         <<s, session[s].method>> \in proven

LEMMA StepProven ==
  ASSUME MfaTypeOK, ProvenInv, [MfaNext]_mfaVars
  PROVE  ProvenInv'
  <1>1. ASSUME NEW w \in Workers, NEW s \in Sessions,
               \/ Enroll(w, s) \/ RecoveryEnroll(w, s) \/ CheckRecovery(w, s)
               \/ \E op \in {"confirm", "verify"} : CheckTotp(w, s, op)
        PROVE  ProvenInv'
    <2>1. /\ worker' \in [Workers -> {worker'[v] : v \in Workers}]
          /\ \A v \in Workers \ {w} : worker'[v] = worker[v]
          /\ worker'[w].stage # "accepted"
      BY <1>1 DEF Enroll, RecoveryEnroll, CheckRecovery, CheckTotp, Enrolling,
                  Checked, Fail, Failing, MfaTypeOK
    <2>2. UNCHANGED <<session, proven>>
      BY <1>1 DEF Enroll, RecoveryEnroll, CheckRecovery, CheckTotp
    <2> QED BY <2>1, <2>2 DEF ProvenInv
  <1>2. ASSUME NEW w \in Workers,
               SavePending(w) \/ RecordFailure(w) \/ Conflict(w) \/ Abort(w)
        PROVE  ProvenInv'
    <2>1. worker' = [worker EXCEPT ![w] = Idle] /\ UNCHANGED <<session, proven>>
      BY <1>2 DEF SavePending, RecordFailure, Conflict, Abort
    <2> QED BY <2>1, IdleStage DEF ProvenInv, MfaTypeOK
  <1>3. ASSUME NEW w \in Workers, Consume(w)
        PROVE  ProvenInv'
    <2>1. worker[w] \in Requests
      BY <1>3, IdleStage, RequestTyped DEF Consume
    <2>2. /\ worker'[w].session = worker[w].session
          /\ worker'[w].code = worker[w].code
      BY <1>3, <2>1 DEF Consume, MfaTypeOK, Requests
    <2>3. \A v \in Workers \ {w} : worker'[v] = worker[v]
      BY <1>3 DEF Consume, MfaTypeOK
    <2> QED BY <1>3, <2>2, <2>3 DEF Consume, ProvenInv
  <1>4. ASSUME NEW w \in Workers, RecordSession(w)
        PROVE  ProvenInv'
    <2>1. worker' = [worker EXCEPT ![w] = Idle] /\ UNCHANGED proven
      BY <1>4 DEF RecordSession
    <2>2. <<worker[w].session, worker[w].code.method>> \in proven
      BY <1>4 DEF RecordSession, ProvenInv
    <2>3. \A s \in Sessions : session'[s] # Unverified =>
            <<s, session'[s].method>> \in proven
      BY <1>4, <2>2 DEF RecordSession, Verification, ProvenInv, MfaTypeOK
    <2> QED BY <2>1, <2>3, IdleStage DEF ProvenInv, MfaTypeOK
  <1>5. CASE Tick \/ UNCHANGED mfaVars
    BY <1>5 DEF Tick, mfaVars, ProvenInv
  <1> QED BY <1>1, <1>2, <1>3, <1>4, <1>5 DEF MfaNext

(* A session passes require_verified by a method only after a code of that  *)
(* method was accepted in it, for any number of sessions and requests.      *)
THEOREM SessionsAreProven == MfaSpec => []SessionsProven
  <1>1. MfaInit => ProvenInv
    BY IdleStage DEF MfaInit, ProvenInv
  <1>2. MfaTypeOK /\ ProvenInv /\ [MfaNext]_mfaVars => ProvenInv'
    BY StepProven
  <1>3. ProvenInv => SessionsProven
    BY DEF ProvenInv, SessionsProven, Verified
  <1> QED BY <1>1, <1>2, <1>3, MfaTypesHold, PTL DEF MfaSpec
-----------------------------------------------------------------------------
Enrolled(u) == credential[u] # NotEnrolled

(* Of the secret in force, an accepted code is behind the row's counter, or *)
(* out of its list.                                                         *)
Behind(row, code) ==
    /\ row.status = "active"
    /\ code.method = "totp" => code.number <= row.lastUsed
    /\ code \notin row.codes

SecretsOwned ==
    /\ \A u \in Users : Enrolled(u) => credential[u].secret \in issued
    /\ \A u, v \in Users : u # v /\ Enrolled(u) /\ Enrolled(v) =>
         credential[u].secret # credential[v].secret
    /\ \A u \in Users : Enrolled(u) =>
         \A code \in credential[u].codes : code.secret = credential[u].secret

(* A request checked long ago may hold a code of a secret since replaced,   *)
(* but never one of another user's.                                         *)
CheckedOwned ==
    \A w \in Workers : worker[w].stage = "checked" =>
      /\ worker[w].code.secret \in issued
      /\ \A v \in Users \ {UserOf(w)} :
           Enrolled(v) => credential[v].secret # worker[w].code.secret
      /\ worker[w].op = "recover" => worker[w].code \in worker[w].codes

SpentBehind ==
    /\ \A code \in spent : code.secret \in issued
    /\ \A u \in Users : Enrolled(u) =>
         \A code \in spent :
           code.secret = credential[u].secret => Behind(credential[u], code)

SingleUseInv == SecretsOwned /\ CheckedOwned /\ SpentBehind

(* A new enrolment takes a secret nobody has had, so nothing spent is of it.*)
LEMMA SavePendingSingleUse ==
  ASSUME MfaTypeOK, SingleUseInv, NEW w \in Workers, SavePending(w)
  PROVE  SingleUseInv'
  <1> USE DEF SingleUseInv
  <1> DEFINE u == UserOf(w)
  <1>1. PICK secret \in Secrets \ issued :
          /\ credential' = [credential EXCEPT ![u] = Pending(secret)]
          /\ issued' = issued \cup {secret}
    BY DEF SavePending
  <1>2. u \in Users BY IdleStage, RequestTyped DEF SavePending
  <1>3. worker' = [worker EXCEPT ![w] = Idle] /\ spent' = spent
    BY DEF SavePending
  <1>4. /\ credential'[u] = Pending(secret)
        /\ \A v \in Users \ {u} : credential'[v] = credential[v]
    BY <1>1, <1>2 DEF MfaTypeOK
  <1>5. Pending(secret).secret = secret /\ Pending(secret).codes = {}
    BY DEF Pending
  <1>6. SecretsOwned' BY <1>1, <1>4, <1>5 DEF SecretsOwned, Enrolled
  <1>7. CheckedOwned'
    <2> SUFFICES ASSUME NEW v \in Workers, worker'[v].stage = "checked"
                 PROVE  /\ worker'[v].code.secret \in issued'
                        /\ \A x \in Users \ {Owner[worker'[v].session]} :
                             Enrolled(x)' =>
                               credential'[x].secret # worker'[v].code.secret
                        /\ worker'[v].op = "recover" =>
                             worker'[v].code \in worker'[v].codes
      BY DEF CheckedOwned, UserOf
    <2>1. worker'[v] = worker[v] BY <1>3, IdleStage DEF MfaTypeOK
    <2> QED BY <1>1, <1>4, <1>5, <2>1 DEF CheckedOwned, Enrolled, UserOf
  <1>8. SpentBehind' BY <1>1, <1>3, <1>4, <1>5 DEF SpentBehind, Enrolled
  <1> QED BY <1>6, <1>7, <1>8

LEMMA CheckSingleUse ==
  ASSUME MfaTypeOK, SingleUseInv, NEW w \in Workers, NEW s \in Sessions,
         CheckRecovery(w, s) \/ \E op \in {"confirm", "verify"} : CheckTotp(w, s, op)
  PROVE  SingleUseInv'
  <1> USE DEF SingleUseInv
  <1> DEFINE u == Owner[s]
  <1>1. UNCHANGED <<credential, issued, spent>> BY DEF CheckRecovery, CheckTotp
  <1>2. u \in Users /\ Enrolled(u)
    BY OwnerAssumption DEF CheckRecovery, CheckTotp, Usable, Enrolled, NotEnrolled
  <1>3. CASE worker' = [worker EXCEPT ![w] = Failing(s)]
    BY <1>1, <1>3 DEF SecretsOwned, CheckedOwned, SpentBehind, Enrolled, Behind,
                      UserOf, Failing, MfaTypeOK
  <1>4. ASSUME NEW op \in {"confirm", "verify", "recover"}, NEW code, NEW codes,
               code.secret = credential[u].secret,
               op = "recover" => code \in codes,
               worker' = [worker EXCEPT ![w] = Checked(op, s, code, codes)]
        PROVE  SingleUseInv'
    <2>1. /\ worker'[w] = Checked(op, s, code, codes)
          /\ \A v \in Workers \ {w} : worker'[v] = worker[v]
      BY <1>4 DEF MfaTypeOK
    <2>2. /\ worker'[w].session = s /\ worker'[w].op = op
          /\ worker'[w].code = code /\ worker'[w].codes = codes
      BY <2>1 DEF Checked
    <2>3. \A v \in Users \ {u} :
            Enrolled(v) => credential[v].secret # credential[u].secret
      BY <1>2 DEF SecretsOwned
    <2>4. CheckedOwned'
      BY <1>1, <1>2, <1>4, <2>1, <2>2, <2>3
         DEF CheckedOwned, SecretsOwned, Enrolled, UserOf
    <2> QED BY <1>1, <2>4 DEF SecretsOwned, SpentBehind, Enrolled, Behind
  <1>5. CASE \E op \in {"confirm", "verify"} : CheckTotp(w, s, op)
    <2>1. PICK op \in {"confirm", "verify"} : CheckTotp(w, s, op) BY <1>5
    <2>2. \A counter :
            TotpCode(credential[u].secret, counter).secret = credential[u].secret
      BY DEF TotpCode
    <2> QED BY <1>3, <1>4, <2>1, <2>2 DEF CheckTotp, Fail
  <1>6. CASE CheckRecovery(w, s)
    <2>1. \A code \in credential[u].codes : code.secret = credential[u].secret
      BY <1>2 DEF SecretsOwned
    <2> QED BY <1>3, <1>4, <1>6, <2>1 DEF CheckRecovery, Fail
  <1> QED BY <1>5, <1>6

(* The three conditional updates: what was spent stays behind the row, and  *)
(* what is spent now falls behind it.                                       *)
LEMMA ConsumeSingleUse ==
  ASSUME MfaTypeOK, SingleUseInv, NEW w \in Workers, Consume(w)
  PROVE  SingleUseInv'
  <1> USE DEF SingleUseInv
  <1> DEFINE u == UserOf(w)
             row == credential[u]
             op == worker[w].op
             code == worker[w].code
             new == Consumed(row, op, code)
  <1>1. /\ u \in Users /\ row \in Credentials
        /\ new \in Credentials /\ new.status = "active" /\ new.secret = row.secret
        /\ new.lastUsed = IF op = "recover" THEN row.lastUsed ELSE code.number
        /\ new.codes = IF op = "confirm" THEN Batch(row.secret)
                                         ELSE row.codes \ {code}
    BY ConsumedRow
  <1>2. Enrolled(u) BY DEF Consume, Consumable, Enrolled, NotEnrolled
  <1>3. worker[w].stage = "checked" BY DEF Consume
  <1>4. /\ credential'[u] = new
        /\ \A v \in Users \ {u} : credential'[v] = credential[v]
    BY <1>1 DEF Consume, MfaTypeOK
  <1>5. issued' = issued /\ spent' = spent \cup {code} BY DEF Consume
  <1>6. \A c \in new.codes : c.secret = row.secret
    BY <1>1, <1>2, CodesTyped DEF SecretsOwned, Credentials
  <1>7. SecretsOwned'
    BY <1>1, <1>2, <1>4, <1>5, <1>6 DEF SecretsOwned, Enrolled
  <1>8. CheckedOwned'
    <2>1. worker[w] \in Requests BY <1>3, IdleStage, RequestTyped
    <2>2. worker'[w].stage = "accepted"
      BY <2>1 DEF Consume, MfaTypeOK, Requests
    <2>3. \A v \in Workers \ {w} : worker'[v] = worker[v]
      BY DEF Consume, MfaTypeOK
    <2>4. ASSUME NEW v \in Users, Enrolled(v)' PROVE Enrolled(v)
      <3>1. CASE v = u BY <1>2, <3>1
      <3>2. CASE v # u
        <4>1. credential'[v] = credential[v] BY <1>4, <3>2
        <4> QED BY <2>4, <4>1 DEF Enrolled
      <3> QED BY <3>1, <3>2
    <2>5. ASSUME NEW v \in Users PROVE credential'[v].secret = credential[v].secret
      <3>1. CASE v = u
        <4>1. credential'[u].secret = new.secret /\ new.secret = row.secret BY <1>1, <1>4
        <4> QED BY <3>1, <4>1
      <3>2. CASE v # u BY <1>4, <3>2
      <3> QED BY <3>1, <3>2
    <2>6. ASSUME NEW v \in Workers, worker'[v].stage = "checked"
          PROVE  v # w /\ worker'[v] = worker[v]
      BY <2>2, <2>3, <2>6
    <2>7. ASSUME NEW v \in Workers, worker'[v].stage = "checked"
          PROVE  /\ worker'[v].code.secret \in issued'
                 /\ \A t \in Users \ {UserOf(v)'} :
                      Enrolled(t)' => credential'[t].secret # worker'[v].code.secret
                 /\ worker'[v].op = "recover" => worker'[v].code \in worker'[v].codes
      <3>1. worker'[v] = worker[v] /\ worker[v].stage = "checked" BY <2>6, <2>7
      <3>2. UserOf(v)' = UserOf(v) BY <3>1 DEF UserOf
      <3>3. /\ worker[v].code.secret \in issued
            /\ \A t \in Users \ {UserOf(v)} :
                 Enrolled(t) => credential[t].secret # worker[v].code.secret
            /\ worker[v].op = "recover" => worker[v].code \in worker[v].codes
        BY <3>1 DEF CheckedOwned
      <3> QED BY <1>5, <2>4, <2>5, <3>1, <3>2, <3>3
    <2> QED BY <2>7 DEF CheckedOwned
  <1>9. ASSUME NEW c \in spent, c.secret = row.secret
        PROVE  Behind(new, c)
    <2>1. Behind(row, c) BY <1>1, <1>2, <1>9 DEF SpentBehind
    <2>2. op # "confirm" BY <2>1 DEF Behind, Consume, Consumable
    <2>3. c.method = "totp" => c.number \in Nat
      BY RecoveryCodesMethod DEF MfaTypeOK, TotpCodes
    <2>4. op = "verify" => code.number \in Nat /\ row.lastUsed < code.number
      BY <1>3, CheckedTyped DEF Consume, Consumable, TotpCodes
    <2>5. row.lastUsed \in Nat BY <1>1 DEF Credentials
    <2>6. op \in {"confirm", "verify", "recover"} BY <1>3, CheckedTyped
    <2> QED BY <1>1, <2>1, <2>2, <2>3, <2>4, <2>5, <2>6 DEF Behind
  <1>10. Behind(new, code)
    <2>1. CASE op = "recover"
      <3>1. code.method = "recovery_code"
        BY <1>3, <2>1, CheckedTyped, RecoveryCodesMethod
      <3> QED BY <1>1, <2>1, <3>1 DEF Behind
    <2>2. CASE op # "recover"
      <3>1. code.method = "totp" /\ code.number \in Nat
        BY <1>3, <2>2, CheckedTyped DEF TotpCodes
      <3>2. code \notin RecoveryCodes BY <3>1, RecoveryCodesMethod
      <3>3. new.codes \subseteq RecoveryCodes BY <1>1 DEF Credentials
      <3> QED BY <1>1, <2>2, <3>1, <3>2, <3>3 DEF Behind
    <2> QED BY <2>1, <2>2
  <1>11. /\ code.secret \in issued
         /\ \A v \in Users \ {u} : Enrolled(v) => credential[v].secret # code.secret
    BY <1>3 DEF CheckedOwned
  <1>12. SpentBehind'
    <2> HIDE DEF new
    <2> QED BY <1>1, <1>4, <1>5, <1>9, <1>10, <1>11
               DEF SpentBehind, Enrolled, Behind
  <1> QED BY <1>7, <1>8, <1>12

LEMMA RecordFailureSingleUse ==
  ASSUME MfaTypeOK, FailuresEnrolled, SingleUseInv, NEW w \in Workers,
         RecordFailure(w)
  PROVE  SingleUseInv'
  <1> USE DEF SingleUseInv
  <1> DEFINE u == UserOf(w)
  <1>1. u \in Users /\ Enrolled(u)
    BY IdleStage, RequestTyped DEF RecordFailure, FailuresEnrolled, Enrolled
  <1>2. credential[u] \in Credentials BY <1>1, EnrolledTyped DEF Enrolled
  <1>3. /\ credential'[u].secret = credential[u].secret
        /\ credential'[u].status = credential[u].status
        /\ credential'[u].lastUsed = credential[u].lastUsed
        /\ credential'[u].codes = credential[u].codes
        /\ \A v \in Users \ {u} : credential'[v] = credential[v]
    BY <1>1, <1>2 DEF RecordFailure, MfaTypeOK, Credentials
  <1>4. worker' = [worker EXCEPT ![w] = Idle] /\ UNCHANGED <<issued, spent>>
    BY DEF RecordFailure
  <1>5. SecretsOwned' BY <1>1, <1>3, <1>4 DEF SecretsOwned, Enrolled
  <1>6. CheckedOwned'
    BY <1>1, <1>3, <1>4, IdleStage DEF CheckedOwned, Enrolled, UserOf, MfaTypeOK
  <1>7. SpentBehind' BY <1>1, <1>3, <1>4 DEF SpentBehind, Enrolled, Behind
  <1> QED BY <1>5, <1>6, <1>7

LEMMA StepSingleUse ==
  ASSUME MfaTypeOK, FailuresEnrolled, SingleUseInv, [MfaNext]_mfaVars
  PROVE  SingleUseInv'
  <1> USE DEF SingleUseInv
  <1> DEFINE Rows == UNCHANGED <<credential, issued, spent>>
  <1>1. ASSUME Rows, CheckedOwned'
        PROVE  SingleUseInv'
    BY <1>1 DEF SecretsOwned, SpentBehind, Enrolled, Behind
  <1>2. ASSUME NEW w \in Workers, NEW s \in Sessions,
               Enroll(w, s) \/ RecoveryEnroll(w, s)
        PROVE  SingleUseInv'
    <2>1. worker' = [worker EXCEPT ![w] = Enrolling(s)] /\ Rows
      BY <1>2 DEF Enroll, RecoveryEnroll
    <2>2. CheckedOwned'
      BY <2>1 DEF CheckedOwned, Enrolled, UserOf, Enrolling, MfaTypeOK
    <2> QED BY <1>1, <2>1, <2>2
  <1>3. ASSUME NEW w \in Workers, Conflict(w) \/ RecordSession(w) \/ Abort(w)
        PROVE  SingleUseInv'
    <2>1. worker' = [worker EXCEPT ![w] = Idle] /\ Rows
      BY <1>3 DEF Conflict, RecordSession, Abort
    <2>2. CheckedOwned'
      BY <2>1, IdleStage DEF CheckedOwned, Enrolled, UserOf, MfaTypeOK
    <2> QED BY <1>1, <2>1, <2>2
  <1>4. CASE Tick \/ UNCHANGED mfaVars
    <2>1. Rows /\ worker' = worker BY <1>4 DEF Tick, mfaVars
    <2> QED BY <1>1, <2>1 DEF CheckedOwned, Enrolled, UserOf
  <1> QED
    BY <1>2, <1>3, <1>4, SavePendingSingleUse, CheckSingleUse, ConsumeSingleUse,
       RecordFailureSingleUse DEF MfaNext

LEMMA AcceptedOnce ==
  ASSUME MfaTypeOK, SingleUseInv, [MfaNext]_mfaVars, NEW w \in Workers,
         worker[w].stage = "checked", worker'[w].stage = "accepted",
         worker[w].code.secret = credential[UserOf(w)].secret
  PROVE  worker[w].code \notin spent
  <1>1. Consume(w)
    <2>1. ASSUME NEW v \in Workers, v # w, Consume(v)
          PROVE  FALSE
      BY <2>1 DEF Consume, MfaTypeOK
    <2>2. ASSUME NEW v \in Workers, NEW s \in Sessions,
                 \/ Enroll(v, s) \/ RecoveryEnroll(v, s) \/ CheckRecovery(v, s)
                 \/ \E op \in {"confirm", "verify"} : CheckTotp(v, s, op)
          PROVE  FALSE
      BY <2>2, IdleStage
         DEF Enroll, RecoveryEnroll, CheckRecovery, CheckTotp, Fail, MfaTypeOK
    <2>3. ASSUME NEW v \in Workers,
                 \/ SavePending(v) \/ RecordFailure(v) \/ Conflict(v)
                 \/ RecordSession(v) \/ Abort(v)
          PROVE  FALSE
      <3>1. worker' = [worker EXCEPT ![v] = Idle]
        BY <2>3 DEF SavePending, RecordFailure, Conflict, RecordSession, Abort
      <3> QED BY <3>1, IdleStage DEF MfaTypeOK
    <2>4. CASE Tick \/ UNCHANGED mfaVars BY <2>4 DEF Tick, mfaVars
    <2> QED BY <2>1, <2>2, <2>3, <2>4 DEF MfaNext
  <1> DEFINE row == credential[UserOf(w)]
  <1>2. UserOf(w) \in Users /\ Enrolled(UserOf(w))
    BY <1>1, CheckedTyped DEF Consume, Consumable, Enrolled, NotEnrolled
  <1>3. SUFFICES ASSUME Behind(row, worker[w].code) PROVE FALSE
    BY <1>2 DEF SingleUseInv, SpentBehind
  <1>4. row \in Credentials BY <1>2, EnrolledTyped DEF Enrolled
  <1>5. worker[w].op # "confirm" BY <1>1, <1>3 DEF Consume, Consumable, Behind
  <1>6. CASE worker[w].op = "verify"
    <2>1. /\ worker[w].code.method = "totp" /\ worker[w].code.number \in Nat
          /\ row.lastUsed < worker[w].code.number
      BY <1>1, <1>6, CheckedTyped DEF Consume, Consumable, TotpCodes
    <2> QED BY <1>3, <1>4, <2>1 DEF Behind, Credentials
  <1>7. CASE worker[w].op = "recover"
    BY <1>1, <1>3, <1>7
       DEF Consume, Consumable, Behind, SingleUseInv, CheckedOwned
  <1> QED BY <1>5, <1>6, <1>7, CheckedTyped

(* However many requests check the same code against the same row, a code   *)
(* of the secret in force is accepted once.                                 *)
THEOREM CodesAreSingleUse == MfaSpec => CodesSingleUse
  <1> DEFINE Once == \A w \in Workers :
               ( /\ worker[w].stage = "checked"
                 /\ worker'[w].stage = "accepted"
                 /\ worker[w].code.secret = credential[UserOf(w)].secret ) =>
               worker[w].code \notin spent
  <1>1. MfaInit => SingleUseInv
    BY IdleStage DEF MfaInit, SingleUseInv, SecretsOwned, CheckedOwned,
                     SpentBehind, Enrolled
  <1>2. MfaTypeOK /\ FailuresEnrolled /\ SingleUseInv /\ [MfaNext]_mfaVars =>
          SingleUseInv'
    BY StepSingleUse
  <1>3. MfaTypeOK /\ SingleUseInv /\ [MfaNext]_mfaVars => [Once]_mfaVars
    BY AcceptedOnce
  <1> QED BY <1>1, <1>2, <1>3, MfaTypesHold, PTL DEF MfaSpec, CodesSingleUse
-----------------------------------------------------------------------------
(* The lock-out.  A lock lets no request begin to fail, so while it holds a *)
(* failure recorded is one that was waiting; and when it ends, at most all  *)
(* workers can be waiting again.  So the failures of a row are bounded by   *)
(* the time to which the row says it was locked, and during a lock they are *)
(* together with those that wait.                                           *)
FailingFor(u) ==
    {w \in Workers : worker[w].stage = "failing" /\ UserOf(w) = u}
Ceiling(step) ==
    (MaxAttempts - 2) + Cardinality(Workers) * (step \div LockSteps)
Bounded(row, waiting, now) ==
    /\ row.lockedUntil <= now + LockSteps
    /\ row.failures <= Ceiling(row.lockedUntil)
    /\ row.lockedUntil > now =>
         row.failures + waiting <= Ceiling(row.lockedUntil)
LockInv ==
    \A u \in Users : credential[u] # NotEnrolled =>
      Bounded(credential[u], Cardinality(FailingFor(u)), clock)

(* What the lemmas below need of numbers that are no constants.             *)
LEMMA Quotients ==
  ASSUME NEW L \in Nat \ {0}, NEW x \in Nat, NEW y \in Nat
  PROVE  /\ x \div L \in Nat
         /\ x <= y => x \div L <= y \div L
         /\ (x + L) \div L = (x \div L) + 1
         /\ 0 \div L = 0
  OBVIOUS

LEMMA Products ==
  ASSUME NEW n \in Nat, NEW q \in Nat, NEW r \in Nat, q <= r
  PROVE  /\ n * q \in Nat
         /\ n * q <= n * r
         /\ n * (q + 1) = n * q + n
         /\ n * 0 = 0
  <1>1. PICK k \in Nat : r = q + k
    <2>1. r - q \in Nat /\ r = q + (r - q) OBVIOUS
    <2> QED BY <2>1
  <1>2. n * k \in Nat /\ n * q \in Nat OBVIOUS
  <1>3. n * (q + k) = n * q + n * k OBVIOUS
  <1>4. n * r = n * q + n * k BY <1>1, <1>3
  <1>5. n * q <= n * r BY <1>2, <1>4
  <1>6. n * (q + 1) = n * q + n OBVIOUS
  <1> QED BY <1>2, <1>5, <1>6

LEMMA CeilingGrows ==
  ASSUME NEW s \in Nat, NEW t \in Nat, s <= t
  PROVE  /\ Cardinality(Workers) \in Nat
         /\ Ceiling(s) \in Nat /\ Ceiling(s) <= Ceiling(t)
         /\ Ceiling(s + LockSteps) = Ceiling(s) + Cardinality(Workers)
         /\ MaxAttempts - 2 <= Ceiling(s)
  <1> DEFINE n == Cardinality(Workers)
             q == s \div LockSteps
             r == t \div LockSteps
  <1>1. n \in Nat BY WorkersAssumption, FS_CardinalityType
  <1>2. /\ q \in Nat /\ r \in Nat /\ q <= r
        /\ (s + LockSteps) \div LockSteps = q + 1
    BY StepsAssumption, Quotients
  <1>3. /\ Ceiling(s) = (MaxAttempts - 2) + n * q
        /\ Ceiling(t) = (MaxAttempts - 2) + n * r
        /\ Ceiling(s + LockSteps) = (MaxAttempts - 2) + n * (q + 1)
    BY <1>2 DEF Ceiling
  <1> HIDE DEF n, q, r
  <1>4. /\ n * q \in Nat /\ n * r \in Nat /\ n * q <= n * r
        /\ n * (q + 1) = n * q + n
    BY <1>1, <1>2, Products
  <1>5. MaxAttempts - 2 \in Nat BY StepsAssumption
  <1>6. /\ Ceiling(s) \in Nat /\ Ceiling(s) <= Ceiling(t)
        /\ Ceiling(s + LockSteps) = Ceiling(s) + n
        /\ MaxAttempts - 2 <= Ceiling(s)
    BY <1>1, <1>3, <1>4, <1>5
  <1> QED BY <1>1, <1>6 DEF n

LEMMA FailingCounted ==
  ASSUME NEW u
  PROVE  /\ IsFiniteSet(FailingFor(u))
         /\ Cardinality(FailingFor(u)) \in Nat
         /\ Cardinality(FailingFor(u)) <= Cardinality(Workers)
  <1>1. FailingFor(u) \in SUBSET Workers BY DEF FailingFor
  <1> QED BY <1>1, WorkersAssumption, FS_Subset, FS_CardinalityType

(* A row no failure is recorded in, while no more requests wait for it.     *)
LEMMA BoundedStays ==
  ASSUME NEW row \in Credentials, NEW n \in Nat, NEW m \in Nat,
         NEW now \in Nat, NEW later \in Nat,
         Bounded(row, n, now), now <= later, row.lockedUntil > later => m <= n
  PROVE  Bounded(row, m, later)
  <1>1. row.lockedUntil \in Nat /\ row.failures \in Nat BY DEF Credentials
  <1>2. Ceiling(row.lockedUntil) \in Nat BY <1>1, CeilingGrows
  <1> QED BY <1>1, <1>2, StepsAssumption DEF Bounded

(* A new enrolment and an accepted code clear the failures and the lock.    *)
LEMMA BoundedCleared ==
  ASSUME NEW row, row.failures = 0, row.lockedUntil = Never,
         NEW n \in Nat, NEW now \in Nat
  PROVE  Bounded(row, n, now)
  <1>1. Ceiling(0) \in Nat BY CeilingGrows
  <1> QED BY <1>1, StepsAssumption DEF Bounded, Never

(* The failure recorded was waiting: if the row was locked, or locks now,   *)
(* those left keep below the ceiling, which rises with the end of the lock. *)
LEMMA BoundedFailure ==
  ASSUME NEW row \in Credentials, NEW n \in Nat, n <= Cardinality(Workers),
         n > 0, NEW now \in Nat, Bounded(row, n, now),
         NEW new \in Credentials,
         new.failures = row.failures + 1,
         new.lockedUntil = IF row.failures + 2 >= MaxAttempts
                             THEN now + LockSteps ELSE row.lockedUntil
  PROVE  Bounded(new, n - 1, now)
  <1> DEFINE until == row.lockedUntil
  <1>1. until \in Nat /\ row.failures \in Nat BY DEF Credentials
  <1>2. LockSteps \in Nat /\ LockSteps > 0 /\ MaxAttempts \in Nat
    BY StepsAssumption
  <1>3. /\ Cardinality(Workers) \in Nat
        /\ Ceiling(until) \in Nat /\ MaxAttempts - 2 <= Ceiling(until)
    BY <1>1, CeilingGrows
  <1>4. /\ until <= now + LockSteps
        /\ row.failures <= Ceiling(until)
        /\ until > now => row.failures + n <= Ceiling(until)
    BY DEF Bounded
  <1>5. CASE row.failures + 2 >= MaxAttempts
    <2>1. new.lockedUntil = now + LockSteps BY <1>5
    <2>2. /\ Ceiling(now + LockSteps) \in Nat
          /\ Ceiling(until) <= Ceiling(now + LockSteps)
      BY <1>1, <1>2, <1>4, CeilingGrows
    <2>3. row.failures + n <= Ceiling(now + LockSteps)
      <3>1. CASE until > now BY <1>1, <1>3, <1>4, <2>2, <3>1
      <3>2. CASE until <= now
        <4>1. /\ Ceiling(now) \in Nat /\ Ceiling(until) <= Ceiling(now)
              /\ Ceiling(now + LockSteps) = Ceiling(now) + Cardinality(Workers)
          BY <1>1, <3>2, CeilingGrows
        <4> QED BY <1>1, <1>3, <1>4, <4>1
      <3> QED BY <1>1, <3>1, <3>2
    <2> QED BY <1>1, <1>2, <2>1, <2>2, <2>3 DEF Bounded
  <1>6. CASE row.failures + 2 < MaxAttempts
    <2>1. new.lockedUntil = until BY <1>1, <1>2, <1>6
    <2> QED BY <1>1, <1>2, <1>3, <1>4, <1>6, <2>1 DEF Bounded
  <1> QED BY <1>1, <1>2, <1>5, <1>6

(* The workers that fail for a user: others only ever join them by a check  *)
(* against a credential that is not locked.                                 *)
LEMMA WaitingLeaves ==
  ASSUME NEW w \in Workers, NEW u, worker \in [Workers -> Requests \cup {Idle}],
         worker' = [worker EXCEPT ![w] = Idle]
  PROVE  FailingFor(u)' = FailingFor(u) \ {w}
  BY IdleStage DEF FailingFor, UserOf

LEMMA WaitingKeeps ==
  ASSUME NEW w \in Workers, NEW u, NEW request, MfaTypeOK,
         worker' = [worker EXCEPT ![w] = request],
         worker[w].stage # "failing",
         request.stage = "failing" => Owner[request.session] # u
  PROVE  FailingFor(u)' = FailingFor(u)
  BY DEF FailingFor, UserOf, MfaTypeOK

LEMMA CheckKeepsLock ==
  ASSUME MfaTypeOK, LockInv, NEW w \in Workers, NEW s \in Sessions,
         CheckRecovery(w, s) \/ \E op \in {"confirm", "verify"} : CheckTotp(w, s, op)
  PROVE  LockInv'
  <1> SUFFICES ASSUME NEW u \in Users, credential'[u] # NotEnrolled
               PROVE  Bounded(credential'[u], Cardinality(FailingFor(u)'), clock')
    BY DEF LockInv
  <1>1. /\ credential' = credential /\ clock' = clock /\ worker[w] = Idle
        /\ credential[Owner[s]].lockedUntil <= clock
    BY DEF CheckRecovery, CheckTotp, Usable
  <1>2. credential[u] \in Credentials /\ clock \in Nat
    BY <1>1, EnrolledTyped DEF MfaTypeOK
  <1>3. PICK request :
          /\ worker' = [worker EXCEPT ![w] = request]
          /\ request.stage = "failing" => request.session = s
    <2>1. CASE Fail(w, s)
      <3>1. Failing(s).session = s BY DEF Failing
      <3> QED BY <2>1, <3>1 DEF Fail
    <2>2. ASSUME NEW op, NEW code, NEW codes,
                 worker' = [worker EXCEPT ![w] = Checked(op, s, code, codes)]
          PROVE  \E request : /\ worker' = [worker EXCEPT ![w] = request]
                              /\ request.stage = "failing" => request.session = s
      <3>1. Checked(op, s, code, codes).stage # "failing" BY DEF Checked
      <3> QED BY <2>2, <3>1
    <2>3. CASE CheckRecovery(w, s)
      BY <2>1, <2>2, <2>3 DEF CheckRecovery
    <2>4. ASSUME NEW op, CheckTotp(w, s, op)
          PROVE  \E request : /\ worker' = [worker EXCEPT ![w] = request]
                              /\ request.stage = "failing" => request.session = s
      BY <2>1, <2>2, <2>4 DEF CheckTotp
    <2> QED BY <2>3, <2>4
  <1>4. Bounded(credential[u], Cardinality(FailingFor(u)), clock)
    BY <1>1 DEF LockInv
  <1>5. credential[u].lockedUntil > clock => FailingFor(u)' = FailingFor(u)
    <2> SUFFICES ASSUME credential[u].lockedUntil > clock
                 PROVE  FailingFor(u)' = FailingFor(u)
      OBVIOUS
    <2>1. credential[u].lockedUntil \in Nat BY <1>2 DEF Credentials
    <2>2. Owner[s] # u BY <1>1, <1>2, <2>1
    <2>3. worker[w].stage # "failing" BY <1>1, IdleStage
    <2> QED BY <1>3, <2>2, <2>3, WaitingKeeps
  <1>6. /\ Cardinality(FailingFor(u)) \in Nat
        /\ Cardinality(FailingFor(u)') \in Nat
    <2>1. FailingFor(u)' \in SUBSET Workers BY DEF FailingFor
    <2> QED BY <2>1, FailingCounted, WorkersAssumption, FS_Subset, FS_CardinalityType
  <1>7. credential[u].lockedUntil > clock =>
          Cardinality(FailingFor(u)') <= Cardinality(FailingFor(u))
    BY <1>5, <1>6
  <1> HIDE DEF Bounded
  <1>8. Bounded(credential[u], Cardinality(FailingFor(u)'), clock)
    <2> DEFINE n == Cardinality(FailingFor(u))
               m == Cardinality(FailingFor(u)')
    <2>1. clock <= clock BY <1>2
    <2> HIDE DEF n, m
    <2> QED BY <1>2, <1>4, <1>6, <1>7, <2>1, BoundedStays DEF n, m
  <1> QED BY <1>1, <1>8

(* The other requests: their worker ends, or does not fail before or after, *)
(* and every row is kept, or cleared as by an enrolment and an acceptance.  *)
LEMMA MoveKeepsLock ==
  ASSUME MfaTypeOK, MfaTypeOK', LockInv, clock' \in Nat, clock <= clock',
         \A u \in Users : FailingFor(u)' \in SUBSET FailingFor(u),
         \A u \in Users : credential'[u] # NotEnrolled =>
           \/ credential'[u] = credential[u]
           \/ credential'[u].failures = 0 /\ credential'[u].lockedUntil = Never
  PROVE  LockInv'
  <1> SUFFICES ASSUME NEW u \in Users, credential'[u] # NotEnrolled
               PROVE  Bounded(credential'[u], Cardinality(FailingFor(u)'), clock')
    BY DEF LockInv
  <1> DEFINE n == Cardinality(FailingFor(u))
             m == Cardinality(FailingFor(u)')
  <1>1. n \in Nat /\ m \in Nat /\ m <= n
    BY FailingCounted, FS_Subset, FS_CardinalityType
  <1>2. CASE credential'[u] = credential[u]
    <2>1. Bounded(credential[u], n, clock) BY <1>2 DEF LockInv
    <2>2. credential[u] \in Credentials /\ clock \in Nat
      BY <1>2, EnrolledTyped DEF MfaTypeOK
    <2> HIDE DEF n, m
    <2>3. Bounded(credential[u], m, clock') BY <1>1, <2>1, <2>2, BoundedStays
    <2> QED BY <1>2, <2>3 DEF m
  <1>3. CASE credential'[u].failures = 0 /\ credential'[u].lockedUntil = Never
    <2> HIDE DEF n, m
    <2>1. Bounded(credential'[u], m, clock') BY <1>1, <1>3, BoundedCleared
    <2> QED BY <2>1 DEF m
  <1> QED BY <1>2, <1>3

LEMMA FailureKeepsLock ==
  ASSUME MfaTypeOK, MfaTypeOK', FailuresEnrolled, LockInv,
         NEW w \in Workers, RecordFailure(w)
  PROVE  LockInv'
  <1> SUFFICES ASSUME NEW u \in Users, credential'[u] # NotEnrolled
               PROVE  Bounded(credential'[u], Cardinality(FailingFor(u)'), clock')
    BY DEF LockInv
  <1> DEFINE v == UserOf(w)
             row == credential[v]
             new == credential'[v]
             n == Cardinality(FailingFor(u))
             m == Cardinality(FailingFor(u)')
  <1>1. clock' = clock /\ clock \in Nat BY DEF RecordFailure, MfaTypeOK
  <1>2. FailingFor(u)' = FailingFor(u) \ {w}
    BY WaitingLeaves DEF RecordFailure, MfaTypeOK
  <1>3. /\ n \in Nat /\ n <= Cardinality(Workers)
        /\ m = IF w \in FailingFor(u) THEN n - 1 ELSE n
    BY <1>2, FailingCounted, FS_RemoveElement
  <1>4. v \in Users /\ row # NotEnrolled /\ row \in Credentials
    BY IdleStage, RequestTyped, EnrolledTyped DEF RecordFailure, FailuresEnrolled
  <1>5. CASE u = v
    <2>1. w \in FailingFor(u) BY <1>5 DEF FailingFor, RecordFailure
    <2>2. FailingFor(u) # {} BY <2>1
    <2>3. n # 0 BY <2>2, FailingCounted, FS_EmptySet
    <2>4. new = [row EXCEPT !.failures = row.failures + 1,
                            !.lockedUntil = IF row.failures + 1 + 1 >= MaxAttempts
                              THEN clock + LockSteps ELSE row.lockedUntil]
      BY <1>4 DEF RecordFailure, MfaTypeOK
    <2>5. row.failures \in Nat BY <1>4 DEF Credentials
    <2>6. /\ new.failures = row.failures + 1
          /\ new.lockedUntil = IF row.failures + 2 >= MaxAttempts
                                 THEN clock + LockSteps ELSE row.lockedUntil
      <3>1. row.failures + 1 + 1 = row.failures + 2 BY <2>5
      <3> QED BY <1>4, <2>4, <3>1 DEF Credentials
    <2>7. new \in Credentials BY <1>5 DEF MfaTypeOK, NotEnrolled
    <2>8. Bounded(row, n, clock) BY <1>4, <1>5 DEF LockInv
    <2>9. n > 0 BY <1>3, <2>3
    <2> HIDE DEF n, m, row, new, v
    <2>10. Bounded(new, n - 1, clock)
      BY <1>1, <1>3, <1>4, <2>6, <2>7, <2>8, <2>9, BoundedFailure
    <2>11. m = n - 1 BY <1>3, <2>1
    <2> QED BY <1>1, <1>5, <2>10, <2>11 DEF m, new
  <1>6. CASE u # v
    <2>1. credential'[u] = credential[u] BY <1>6 DEF RecordFailure, MfaTypeOK
    <2>2. credential[u] \in Credentials BY <2>1, EnrolledTyped
    <2>3. Bounded(credential[u], n, clock) BY <2>1 DEF LockInv
    <2>4. m \in Nat /\ m <= n /\ clock <= clock
      <3>1. w \notin FailingFor(u) BY <1>6 DEF FailingFor
      <3> QED BY <1>1, <1>3, <3>1
    <2> HIDE DEF n, m
    <2>5. Bounded(credential[u], m, clock)
      BY <1>1, <1>3, <2>2, <2>3, <2>4, BoundedStays
    <2> QED BY <1>1, <2>1, <2>5 DEF m
  <1> QED BY <1>5, <1>6

LEMMA StepLock ==
  ASSUME MfaTypeOK, MfaTypeOK', FailuresEnrolled, LockInv, [MfaNext]_mfaVars
  PROVE  LockInv'
  <1>1. clock \in Nat /\ clock' \in Nat /\ clock <= clock
    BY DEF MfaTypeOK
  <1>2. ASSUME NEW w \in Workers, NEW s \in Sessions,
               Enroll(w, s) \/ RecoveryEnroll(w, s)
        PROVE  LockInv'
    <2>1. /\ credential' = credential /\ clock' = clock
          /\ worker[w] = Idle /\ worker' = [worker EXCEPT ![w] = Enrolling(s)]
      BY <1>2 DEF Enroll, RecoveryEnroll
    <2>2. worker[w].stage # "failing" /\ Enrolling(s).stage # "failing"
      BY <2>1, IdleStage DEF Enrolling
    <2>3. \A u \in Users : FailingFor(u)' = FailingFor(u)
      BY <2>1, <2>2, WaitingKeeps
    <2> QED BY <1>1, <2>1, <2>3, MoveKeepsLock
  <1>3. ASSUME NEW w \in Workers,
               SavePending(w) \/ Conflict(w) \/ RecordSession(w) \/ Abort(w)
        PROVE  LockInv'
    <2>1. worker' = [worker EXCEPT ![w] = Idle] /\ clock' = clock
      BY <1>3 DEF SavePending, Conflict, RecordSession, Abort
    <2>2. \A u \in Users : FailingFor(u)' \in SUBSET FailingFor(u)
      <3>1. worker \in [Workers -> Requests \cup {Idle}] BY DEF MfaTypeOK
      <3> SUFFICES ASSUME NEW u \in Users
                   PROVE  FailingFor(u)' \in SUBSET FailingFor(u)
        OBVIOUS
      <3>2. FailingFor(u)' = FailingFor(u) \ {w} BY <2>1, <3>1, WaitingLeaves
      <3> QED BY <3>2
    <2>3. \A u \in Users : credential'[u] # NotEnrolled =>
            \/ credential'[u] = credential[u]
            \/ credential'[u].failures = 0 /\ credential'[u].lockedUntil = Never
      BY <1>3 DEF SavePending, Conflict, RecordSession, Abort, Pending, MfaTypeOK
    <2> QED BY <1>1, <2>1, <2>2, <2>3, MoveKeepsLock
  <1>4. ASSUME NEW w \in Workers, Consume(w)
        PROVE  LockInv'
    <2> DEFINE accepted == [worker[w] EXCEPT !.stage = "accepted"]
    <2>1. /\ worker' = [worker EXCEPT ![w] = accepted] /\ clock' = clock
          /\ worker[w].stage = "checked"
      BY <1>4 DEF Consume
    <2>2. worker[w] \in Requests BY <2>1, IdleStage, RequestTyped
    <2>3. accepted.stage = "accepted" BY <2>2 DEF Requests
    <2> HIDE DEF accepted
    <2>4. \A u \in Users : FailingFor(u)' = FailingFor(u)
      BY <2>1, <2>3, WaitingKeeps
    <2>5. \A u \in Users : credential'[u] # NotEnrolled =>
            \/ credential'[u] = credential[u]
            \/ credential'[u].failures = 0 /\ credential'[u].lockedUntil = Never
      <3> DEFINE v == UserOf(w)
                 new == Consumed(credential[v], worker[w].op, worker[w].code)
      <3>1. v \in Users /\ new.failures = 0 /\ new.lockedUntil = Never
        BY <1>4, ConsumedRow
      <3>2. credential' = [credential EXCEPT ![v] = new] BY <1>4 DEF Consume
      <3>3. credential \in [Users -> Credentials \cup {NotEnrolled}]
        BY DEF MfaTypeOK
      <3> HIDE DEF v, new
      <3> QED BY <3>1, <3>2, <3>3
    <2> QED BY <1>1, <2>1, <2>4, <2>5, MoveKeepsLock
  <1>5. CASE Tick
    <2>1. /\ credential' = credential /\ clock <= clock'
          /\ \A u \in Users : FailingFor(u)' = FailingFor(u)
      BY <1>1, <1>5 DEF Tick, FailingFor, UserOf
    <2> QED BY <1>1, <2>1, MoveKeepsLock
  <1>6. CASE UNCHANGED mfaVars
    <2>1. /\ credential' = credential /\ clock' = clock
          /\ \A u \in Users : FailingFor(u)' = FailingFor(u)
      BY <1>6 DEF mfaVars, FailingFor, UserOf
    <2> QED BY <1>1, <2>1, MoveKeepsLock
  <1> QED
    BY <1>2, <1>3, <1>4, <1>5, <1>6, CheckKeepsLock, FailureKeepsLock DEF MfaNext

(* How often a code can be guessed wrongly: requests that read the row      *)
(* before a lock still count, and each end of a lock admits one more failure*)
(* per concurrent request, but no more, for any number of requests, any     *)
(* lock time and any number of attempts.                                    *)
THEOREM LockoutHolds == MfaSpec => []LockoutBoundsGuesses
  <1>1. MfaInit => LockInv BY DEF MfaInit, LockInv
  <1>2. /\ MfaTypeOK /\ FailuresEnrolled /\ (MfaTypeOK /\ FailuresEnrolled)'
        /\ LockInv /\ [MfaNext]_mfaVars
        => LockInv'
    BY StepLock
  <1>3. MfaTypeOK /\ LockInv => LockoutBoundsGuesses
    <2> SUFFICES ASSUME MfaTypeOK, LockInv,
                        NEW u \in Users, credential[u] # NotEnrolled
                 PROVE  credential[u].failures <= (MaxAttempts - 2) +
                          Cardinality(Workers) * (1 + clock \div LockSteps)
      BY DEF LockoutBoundsGuesses
    <2> DEFINE until == credential[u].lockedUntil
    <2>1. until \in Nat /\ credential[u].failures \in Nat /\ clock \in Nat
      BY EnrolledTyped DEF Credentials, MfaTypeOK
    <2>2. /\ until <= clock + LockSteps
          /\ credential[u].failures <= Ceiling(until)
      BY DEF LockInv, Bounded
    <2>3. clock + LockSteps \in Nat BY <2>1, StepsAssumption
    <2>4. Ceiling(until) \in Nat /\ Ceiling(until) <= Ceiling(clock + LockSteps)
      BY <2>1, <2>2, <2>3, CeilingGrows
    <2>5. (clock + LockSteps) \div LockSteps = (clock \div LockSteps) + 1
      BY <2>1, StepsAssumption, Quotients
    <2>6. clock \div LockSteps \in Nat BY <2>1, StepsAssumption, Quotients
    <2>7. Ceiling(clock + LockSteps) =
            (MaxAttempts - 2) + Cardinality(Workers) * (1 + clock \div LockSteps)
      <3>1. (clock \div LockSteps) + 1 = 1 + clock \div LockSteps BY <2>6
      <3> QED BY <2>5, <3>1 DEF Ceiling
    <2>8. Ceiling(clock + LockSteps) \in Nat BY <2>3, CeilingGrows
    <2> HIDE DEF until
    <2>9. credential[u].failures <= Ceiling(clock + LockSteps)
      BY <2>1, <2>2, <2>4, <2>8
    <2> QED BY <2>7, <2>9
  <1> QED BY <1>1, <1>2, <1>3, MfaTypesHold, PTL DEF MfaSpec
=============================================================================
