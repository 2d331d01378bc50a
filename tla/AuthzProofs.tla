---------------------------- MODULE AuthzProofs ----------------------------
(***************************************************************************)
(* Proofs about Authz.  Every step of Authz is a step of HighRisk or leaves*)
(* its tables alone, so HighRisk's theorems hold here too; and authority   *)
(* only ever flows from an active assignment to a derivation, a cache entry*)
(* and a token of the same user, while accounts are never taken back.      *)
(***************************************************************************)
EXTENDS Authz, HighRiskProofs

LEMMA AuthzStepIsStep == [AuthzNext]_authzVars => [Next]_vars
  BY DEF AuthzNext, DatabaseStep, Decide, InvalidateEntry, LoginStep, HitCache,
         MissCache, ReadRoles, ReadRegions, PutCache, IssueToken, AbortLogin,
         CacheExpires, TokenExpires, authzVars, Next, Step

(* Logins and caches give approvals no behaviour they do not have alone.    *)
THEOREM AuthzImplementsHighRisk == AuthzSpec => Spec
  <1>1. AuthzInit => Init BY DEF AuthzInit
  <1> QED BY <1>1, AuthzStepIsStep, PTL DEF AuthzSpec, Spec
-----------------------------------------------------------------------------
(* AuthorityAccountedFor, carrier by carrier. *)
CacheAccounted ==
    \A u \in Users : \A scopes \in cache[u] : \A s \in scopes :
      AccountedFor(<<u, s>>)
TokensAccounted ==
    \A t \in tokens : \A s \in t.scopes : AccountedFor(<<t.user, s>>)
LoginsAccounted ==
    \A l \in Logins : login[l] # NoLogin =>
      \A s \in login[l].scopes : AccountedFor(<<login[l].user, s>>)

LEMMA ByCarrier ==
  ASSUME AuthzTypeOK
  PROVE  AuthorityAccountedFor <=>
           CacheAccounted /\ TokensAccounted /\ LoginsAccounted
  BY DEF AuthzTypeOK, AuthorityAccountedFor, Carried, CacheAccounted,
         TokensAccounted, LoginsAccounted, Tokens, Derivations

(* A derivation under way is about a user and has scopes of it in hand. *)
LEMMA UnderWay ==
  ASSUME AuthzTypeOK, NEW l \in Logins, login[l] # NoLogin
  PROVE  login[l].user \in Users /\ login[l].scopes \in SUBSET Scopes
  BY DEF AuthzTypeOK, Derivations

LEMMA DerivationTyped ==
  ASSUME NEW stage \in {"missed", "roles_read", "derived", "cached"},
         NEW u \in Users, NEW scopes \in SUBSET Scopes
  PROVE  Derivation(stage, u, scopes) \in Derivations
  BY DEF Derivation, Derivations

LEMMA InitAuthzTyped == AuthzInit => AuthzTypeOK
  BY DEF AuthzInit, AuthzTypeOK

(* Each action of a login keeps the authority it handles well typed. *)
LEMMA StepAuthzTyped ==
  ASSUME AuthzTypeOK, [AuthzNext]_authzVars
  PROVE  AuthzTypeOK'
  <1> USE DEF AuthzTypeOK
  <1>1. ASSUME NEW l \in Logins, NEW u \in Users, HitCache(l, u)
        PROVE  AuthzTypeOK'
    BY <1>1 DEF HitCache, Issue, Token, Tokens
  <1>2. ASSUME NEW l \in Logins, NEW u \in Users, MissCache(l, u)
        PROVE  AuthzTypeOK'
    <2>1. Derivation("missed", u, {}) \in Derivations BY DerivationTyped
    <2> QED BY <1>2, <2>1 DEF MissCache
  <1>3. ASSUME NEW l \in Logins, ReadRoles(l)
        PROVE  AuthzTypeOK'
    <2> DEFINE u == login[l].user
               scopes == ActiveAssignments(u, RoleScopes)
    <2>1. u \in Users BY <1>3, UnderWay DEF ReadRoles, NoLogin
    <2>2. scopes \in SUBSET Scopes BY RoleScopesAssumption DEF ActiveAssignments
    <2>3. Derivation("roles_read", u, scopes) \in Derivations
      BY <2>1, <2>2, DerivationTyped
    <2> QED BY <1>3, <2>3 DEF ReadRoles
  <1>4. ASSUME NEW l \in Logins, ReadRegions(l)
        PROVE  AuthzTypeOK'
    <2> DEFINE u == login[l].user
               scopes == login[l].scopes \cup
                           ActiveAssignments(u, Scopes \ RoleScopes)
    <2>1. u \in Users /\ login[l].scopes \in SUBSET Scopes
      BY <1>4, UnderWay DEF ReadRegions, NoLogin
    <2>2. scopes \in SUBSET Scopes BY <2>1 DEF ActiveAssignments
    <2>3. Derivation("derived", u, scopes) \in Derivations
      BY <2>1, <2>2, DerivationTyped
    <2> QED BY <1>4, <2>3 DEF ReadRegions
  <1>5. ASSUME NEW l \in Logins, PutCache(l)
        PROVE  AuthzTypeOK'
    <2>1. login[l].user \in Users /\ login[l].scopes \in SUBSET Scopes
      BY <1>5, UnderWay DEF PutCache, NoLogin
    <2>2. Derivation("cached", login[l].user, login[l].scopes) \in Derivations
      BY <2>1, DerivationTyped
    <2>3. login' \in [Logins -> Derivations \cup {NoLogin}]
      BY <1>5, <2>2 DEF PutCache
    <2>4. {login[l].scopes} \in {{scopes} : scopes \in SUBSET Scopes}
      BY <2>1
    <2>5. cache' \in [Users -> {{}} \cup {{scopes} : scopes \in SUBSET Scopes}]
      BY <1>5, <2>4 DEF PutCache
    <2> QED BY <1>5, <2>3, <2>5 DEF PutCache
  <1>6. ASSUME NEW l \in Logins, IssueToken(l)
        PROVE  AuthzTypeOK'
    BY <1>6 DEF IssueToken, Issue, Token, Tokens, Derivations, NoLogin
  <1>7. ASSUME NEW l \in Logins, AbortLogin(l)
        PROVE  AuthzTypeOK'
    BY <1>7 DEF AbortLogin
  <1>8. ASSUME NEW u \in Users, CacheExpires(u)
        PROVE  AuthzTypeOK'
    BY <1>8 DEF CacheExpires
  <1>9. ASSUME NEW t \in Tokens, TokenExpires(t)
        PROVE  AuthzTypeOK'
    BY <1>9 DEF TokenExpires
  <1>10. ASSUME NEW w \in Workers, InvalidateEntry(w)
         PROVE  AuthzTypeOK'
    BY <1>10 DEF InvalidateEntry
  <1>11. CASE UNCHANGED authorityVars
    BY <1>11 DEF authorityVars
  <1> QED
    BY <1>1, <1>2, <1>3, <1>4, <1>5, <1>6, <1>7, <1>8, <1>9, <1>10, <1>11
       DEF AuthzNext, LoginStep, DatabaseStep, Decide, authzVars, authorityVars
-----------------------------------------------------------------------------
(* What a login reads from the database is accounted for. *)
LEMMA ReadAccounted ==
  ASSUME AssignmentsAccountedFor, NEW u \in Users, NEW scopes \in SUBSET Scopes,
         NEW s \in ActiveAssignments(u, scopes)
  PROVE  AccountedFor(<<u, s>>)
  BY DEF AssignmentsAccountedFor, ActiveAssignments, Keys, Valid

LEMMA AuthorityStep ==
  ASSUME IInv, AssignmentsAccountedFor, AuthzTypeOK, [AuthzNext]_authzVars,
         CacheAccounted, TokensAccounted, LoginsAccounted
  PROVE  CacheAccounted' /\ TokensAccounted' /\ LoginsAccounted'
  <1>1. \A k \in Keys : AccountedFor(k) => AccountedFor(k)'
    BY AuthzStepIsStep, AccountsStand
  <1>2. \A u \in Users, s \in Scopes :
          AccountedFor(<<u, s>>) => AccountedFor(<<u, s>>)'
    BY <1>1 DEF Keys
  <1>3. AuthzTypeOK' BY StepAuthzTyped
  <1> DEFINE Sound(u, scopes) == \A s \in scopes : AccountedFor(<<u, s>>)
  <1>4. ASSUME NEW u \in Users, NEW scopes \in SUBSET Scopes, Sound(u, scopes)
        PROVE  Sound(u, scopes)'
    BY <1>2, <1>4
  <1>5. CacheAccounted'
    <2> SUFFICES ASSUME NEW u \in Users, NEW scopes \in cache'[u]
                 PROVE  Sound(u, scopes)'
      BY DEF CacheAccounted
    <2>1. scopes \in SUBSET Scopes BY <1>3 DEF AuthzTypeOK
    <2>2. \/ scopes \in cache[u]
          \/ \E l \in Logins : /\ login[l] # NoLogin /\ login[l].user = u
                              /\ login[l].scopes = scopes
      <3>1. ASSUME NEW l \in Logins, PutCache(l)
            PROVE  <2>2!2 \/ scopes \in cache[u]
        BY <3>1 DEF PutCache, AuthzTypeOK, NoLogin
      <3>2. ASSUME NEW v \in Users, CacheExpires(v)
            PROVE  scopes \in cache[u]
        BY <3>2 DEF CacheExpires, AuthzTypeOK
      <3>3. ASSUME NEW w \in Workers, InvalidateEntry(w)
            PROVE  scopes \in cache[u]
        BY <3>3 DEF InvalidateEntry, AuthzTypeOK
      <3> QED
        BY <3>1, <3>2, <3>3
           DEF AuthzNext, LoginStep, DatabaseStep, Decide, HitCache, MissCache,
               ReadRoles, ReadRegions, IssueToken, AbortLogin, TokenExpires,
               authzVars, authorityVars
    <2>3. Sound(u, scopes) BY <2>2 DEF CacheAccounted, LoginsAccounted
    <2> QED BY <1>4, <2>1, <2>3
  <1>6. TokensAccounted'
    <2> SUFFICES ASSUME NEW t \in tokens'
                 PROVE  Sound(t.user, t.scopes)'
      BY DEF TokensAccounted
    <2>1. t.user \in Users /\ t.scopes \in SUBSET Scopes
      BY <1>3 DEF AuthzTypeOK, Tokens
    <2>2. Sound(t.user, t.scopes)
      <3>1. ASSUME NEW l \in Logins, NEW u \in Users, HitCache(l, u)
            PROVE  Sound(t.user, t.scopes)
        BY <3>1 DEF HitCache, Issue, Token, CacheAccounted, TokensAccounted
      <3>2. ASSUME NEW l \in Logins, IssueToken(l)
            PROVE  Sound(t.user, t.scopes)
        BY <3>2 DEF IssueToken, Issue, Token, NoLogin, LoginsAccounted,
                    TokensAccounted
      <3>3. CASE t \in tokens
        BY <3>3 DEF TokensAccounted
      <3> QED
        BY <3>1, <3>2, <3>3
           DEF AuthzNext, LoginStep, DatabaseStep, Decide, InvalidateEntry,
               MissCache, ReadRoles, ReadRegions, PutCache, AbortLogin,
               CacheExpires, TokenExpires, authzVars, authorityVars
    <2> QED BY <1>4, <2>1, <2>2
  <1>7. LoginsAccounted'
    <2> SUFFICES ASSUME NEW l \in Logins, login'[l] # NoLogin, NEW u, NEW scopes,
                        u = login'[l].user, scopes = login'[l].scopes
                 PROVE  Sound(u, scopes)'
      BY DEF LoginsAccounted
    <2>1. u \in Users /\ scopes \in SUBSET Scopes
      BY <1>3 DEF AuthzTypeOK, Derivations
    <2>2. Sound(u, scopes)
      <3>1. ASSUME NEW m \in Logins, NEW v \in Users, MissCache(m, v)
            PROVE  Sound(u, scopes)
        BY <3>1 DEF MissCache, Derivation, AuthzTypeOK, LoginsAccounted
      <3>2. ASSUME NEW m \in Logins, ReadRoles(m)
            PROVE  Sound(u, scopes)
        <4>1. CASE m = l
          <5>1. /\ u = login[l].user
                /\ scopes = ActiveAssignments(login[l].user, RoleScopes)
            BY <3>2, <4>1 DEF ReadRoles, Derivation, AuthzTypeOK
          <5> QED BY <2>1, <5>1, ReadAccounted, RoleScopesAssumption
        <4>2. CASE m # l
          BY <3>2, <4>2 DEF ReadRoles, AuthzTypeOK, LoginsAccounted
        <4> QED BY <4>1, <4>2
      <3>3. ASSUME NEW m \in Logins, ReadRegions(m)
            PROVE  Sound(u, scopes)
        <4>1. CASE m = l
          <5>1. /\ u = login[l].user
                /\ scopes = login[l].scopes \cup
                     ActiveAssignments(login[l].user, Scopes \ RoleScopes)
            BY <3>3, <4>1 DEF ReadRegions, Derivation, AuthzTypeOK
          <5>2. login[l] # NoLogin BY <3>3, <4>1 DEF ReadRegions, NoLogin
          <5>3. Sound(login[l].user, login[l].scopes) BY <5>2 DEF LoginsAccounted
          <5>4. Sound(login[l].user,
                      ActiveAssignments(login[l].user, Scopes \ RoleScopes))
            BY <2>1, <5>1, ReadAccounted
          <5> QED BY <5>1, <5>3, <5>4
        <4>2. CASE m # l
          BY <3>3, <4>2 DEF ReadRegions, AuthzTypeOK, LoginsAccounted
        <4> QED BY <4>1, <4>2
      <3>4. ASSUME NEW m \in Logins, PutCache(m)
            PROVE  Sound(u, scopes)
        BY <3>4 DEF PutCache, Derivation, NoLogin, AuthzTypeOK, LoginsAccounted
      <3>5. ASSUME NEW m \in Logins, IssueToken(m) \/ AbortLogin(m)
            PROVE  Sound(u, scopes)
        BY <3>5 DEF IssueToken, AbortLogin, AuthzTypeOK, LoginsAccounted
      <3>6. CASE UNCHANGED login
        BY <3>6 DEF LoginsAccounted
      <3> QED
        BY <3>1, <3>2, <3>3, <3>4, <3>5, <3>6
           DEF AuthzNext, LoginStep, DatabaseStep, Decide, InvalidateEntry,
               HitCache, CacheExpires, TokenExpires, authzVars, authorityVars
    <2> QED BY <1>4, <2>1, <2>2
  <1> QED BY <1>5, <1>6, <1>7

AuthorityInv ==
    IInv /\ AssignmentsAccountedFor /\ AuthzTypeOK /\ AuthorityAccountedFor

LEMMA AuthorityInvariant == AuthzSpec => []AuthorityInv
  <1>1. AuthzInit => AuthzTypeOK /\ AuthorityAccountedFor
    <2>1. AuthzInit => CacheAccounted /\ TokensAccounted /\ LoginsAccounted
      BY DEF AuthzInit, CacheAccounted, TokensAccounted, LoginsAccounted
    <2> QED BY <2>1, ByCarrier, InitAuthzTyped
  <1>2. /\ IInv /\ AssignmentsAccountedFor
        /\ AuthzTypeOK /\ AuthorityAccountedFor
        /\ [AuthzNext]_authzVars
        => AuthzTypeOK' /\ AuthorityAccountedFor'
    <2> SUFFICES ASSUME IInv, AssignmentsAccountedFor, AuthzTypeOK,
                        AuthorityAccountedFor, [AuthzNext]_authzVars
                 PROVE  AuthzTypeOK' /\ AuthorityAccountedFor'
      OBVIOUS
    <2>1. AuthzTypeOK' BY StepAuthzTyped
    <2>2. CacheAccounted /\ TokensAccounted /\ LoginsAccounted BY ByCarrier
    <2>3. CacheAccounted' /\ TokensAccounted' /\ LoginsAccounted'
      BY <2>2, AuthorityStep
    <2>4. AuthzTypeOK' => (AuthorityAccountedFor' <=>
            CacheAccounted' /\ TokensAccounted' /\ LoginsAccounted')
      BY ByCarrier, PTL
    <2> QED BY <2>1, <2>3, <2>4
  <1> QED
    BY <1>1, <1>2, AuthzImplementsHighRisk, ChecksStandUntilCommit,
       NoUnaccountedAssignment, PTL
       DEF AuthzSpec, AuthorityInv

(* No token, cache entry or half-done derivation carries authority the      *)
(* audit trail cannot account for, however logins and approvals interleave. *)
THEOREM AuthorityIsAccountedFor == AuthzSpec => []AuthorityAccountedFor
  BY AuthorityInvariant, PTL DEF AuthorityInv

(* Users, roles, cache entries, derivations and tokens have their types.    *)
THEOREM AuthzTypeCorrect == AuthzSpec => []AuthzTypeOK
  BY AuthorityInvariant, PTL DEF AuthorityInv
-----------------------------------------------------------------------------
LEMMA DeciderStep ==
  ASSUME AuthorityInv, DecidersWereSuperAdmins, [AuthzNext]_authzVars
  PROVE  DecidersWereSuperAdmins'
  <1> USE DEF AuthorityInv, IInv
  <1>1. \A u \in Users : AccountedFor(<<u, Super>>) => AccountedFor(<<u, Super>>)'
    BY AuthzStepIsStep, AccountsStand, SuperAssumption DEF Keys
  <1>2. ASSUME NEW w \in Workers, worker'[w] # Idle, NEW u, u = worker'[w].actor
        PROVE  AccountedFor(<<u, Super>>)'
    <2>1. u \in Users
      <3>1. TypeOK' BY AuthzStepIsStep, StepTyped
      <3> QED BY <1>2, <3>1 DEF TypeOK, Decisions
    <2>2. ASSUME NEW v \in Workers, NEW r \in Requests, NEW a \in Users,
                 Decide(v, r, a)
          PROVE  AccountedFor(<<u, Super>>)
      <3>1. CASE worker'[w] = worker[w]
        BY <1>2, <3>1 DEF DecidersWereSuperAdmins
      <3>2. CASE worker'[w] # worker[w]
        <4>1. u = a
          BY <1>2, <2>2, <3>2
             DEF Decide, LockRequest, RefuseDecision, Decision, TypeOK
        <4>2. AccountedFor(<<a, Super>>)
          <5>1. PICK t \in tokens : t.user = a /\ Super \in t.scopes
            BY <2>2 DEF Decide, Authorized, Verified, Principal
          <5> QED BY <5>1, ByCarrier DEF TokensAccounted
        <4> QED BY <4>1, <4>2
      <3> QED BY <3>1, <3>2
    <2>3. ASSUME NEW v \in Workers, CommitApproval(v)
          PROVE  worker[w] # Idle /\ worker[w].actor = u
      <3>1. worker[v] \in Decisions /\ worker[v] # Idle
        BY <2>3, InHand DEF CommitApproval, HoldsRows, Idle
      <3>2. [worker[v] EXCEPT !.stage = "committed"].actor = worker[v].actor
        BY <3>1 DEF Decisions
      <3> QED BY <1>2, <2>3, <3>1, <3>2 DEF CommitApproval, TypeOK
    <2>4. ASSUME NEW v \in Workers,
                 \/ CommitRejection(v) \/ RefuseChange(v)
                 \/ Invalidate(v) \/ Abort(v)
          PROVE  worker[w] # Idle /\ worker[w].actor = u
      BY <1>2, <2>4 DEF CommitRejection, RefuseChange, Invalidate, Abort, TypeOK
    <2>5. ASSUME NEW v \in Workers, LockRows(v)
          PROVE  worker[w] # Idle /\ worker[w].actor = u
      BY <1>2, <2>5, LockRowsKeeps, IdleStage
    <2>6. \/ AccountedFor(<<u, Super>>)
          \/ worker[w] # Idle /\ worker[w].actor = u
      BY <1>2, <2>2, <2>3, <2>4, <2>5
         DEF AuthzNext, DatabaseStep, InvalidateEntry, LoginStep, HitCache,
             MissCache, ReadRoles, ReadRegions, PutCache, IssueToken, AbortLogin,
             CacheExpires, TokenExpires, Create, Expire, Bootstrap, authzVars,
             vars
    <2> QED BY <1>1, <2>1, <2>6 DEF DecidersWereSuperAdmins
  <1>3. ASSUME NEW r \in Requests, request'[r].status \in {"executed", "rejected"},
               NEW u, u = request'[r].decidedBy
        PROVE  AccountedFor(<<u, Super>>)'
    <2>1. u \in Users
      <3>1. TypeOK' BY AuthzStepIsStep, StepTyped
      <3> QED BY <1>3, <3>1 DEF TypeOK, ChangeRequests, Absent
    <2>2. ASSUME NEW w \in Workers, CommitApproval(w) \/ CommitRejection(w)
          PROVE  AccountedFor(<<u, Super>>)
      <3>1. CASE request'[r] = request[r]
        BY <1>3, <3>1 DEF DecidersWereSuperAdmins
      <3>2. CASE request'[r] # request[r]
        <4>1. u = worker[w].actor
          BY <1>3, <2>2, <3>2 DEF CommitApproval, CommitRejection, Decided, TypeOK
        <4>2. worker[w] # Idle
          BY <2>2 DEF CommitApproval, CommitRejection, HoldsRows, Idle
        <4> QED BY <4>1, <4>2 DEF DecidersWereSuperAdmins
      <3> QED BY <3>1, <3>2
    <2>3. ASSUME NEW q \in Requests, NEW v \in Users, NEW p \in Submitted,
                 Create(q, v, p)
          PROVE  request'[r] = request[r]
      BY <1>3, <2>3 DEF Create, NewRequest, TypeOK
    <2>4. CASE request'[r] = request[r]
      BY <1>1, <1>3, <2>1, <2>4 DEF DecidersWereSuperAdmins
    <2> QED
      BY <1>1, <2>1, <2>2, <2>3, <2>4
         DEF AuthzNext, DatabaseStep, Decide, LockRequest, RefuseDecision,
             LockRows, RefuseChange, InvalidateEntry, Invalidate, Abort, Expire,
             Bootstrap, LoginStep, HitCache, MissCache, ReadRoles, ReadRegions,
             PutCache, IssueToken, AbortLogin, CacheExpires, TokenExpires,
             authzVars, vars
  <1> QED BY <1>2, <1>3 DEF DecidersWereSuperAdmins

(* Whoever decides a high-risk request has an accounted-for super admin     *)
(* assignment behind the token that let them in (require_roles).            *)
THEOREM DecidersAreAccountedFor == AuthzSpec => []DecidersWereSuperAdmins
  <1>1. AuthzInit => DecidersWereSuperAdmins
    BY DEF AuthzInit, Init, DecidersWereSuperAdmins, Absent
  <1>2. AuthorityInv /\ DecidersWereSuperAdmins /\ [AuthzNext]_authzVars
          => DecidersWereSuperAdmins'
    BY DeciderStep
  <1> QED BY <1>1, <1>2, AuthorityInvariant, PTL DEF AuthzSpec
=============================================================================
