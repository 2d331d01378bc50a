------------------------------- MODULE Authz -------------------------------
(***************************************************************************)
(* How an assignment becomes authority: a login or session refresh derives *)
(* the user's scopes from the database (_with_authorization), through a    *)
(* short-lived cache that HighRisk's approvals invalidate, and stamps them *)
(* into an access token; the token alone is what the high-risk routes ask  *)
(* for (require_roles).                                                    *)
(*                                                                         *)
(* Deriving takes two queries on connections of their own and a put, and   *)
(* nothing ties them together or to a transaction that commits meanwhile.  *)
(* Every cache call is best effort: a get that fails is a miss, a put or a *)
(* delete that fails is no put, no delete.                                 *)
(*                                                                         *)
(* Left out: the legacy users.role, whose roles no assignment grants or    *)
(* revokes; authzVersion, which is always 1 and never compared; and that   *)
(* a token lists its roles, organizations and regions separately (it is    *)
(* here the set of assignments they came from).  Anybody may create a      *)
(* request, which the route leaves to admins, and a decision that the      *)
(* token does not authorize is no step: it only leaves a denied audit row. *)
(***************************************************************************)
EXTENDS HighRisk

CONSTANTS
    RoleScopes,     \* the scopes of user_role_assignments
    Logins,         \* concurrent logins and session refreshes
    MaxTokens       \* bound on the live tokens explored

ASSUME RoleScopesAssumption == RoleScopes \subseteq Scopes /\ Super \in RoleScopes
ASSUME MaxTokensAssumption == MaxTokens \in Nat

VARIABLES
    cache,          \* user -> {} or {the cached scopes}
    login,          \* login -> the derivation under way, or NoLogin
    tokens          \* unexpired access tokens

authorityVars == <<cache, login, tokens>>
authzVars == <<vars, authorityVars>>

NoLogin == [stage |-> "idle"]
Derivation(stage, u, scopes) == [stage |-> stage, user |-> u, scopes |-> scopes]
Token(u, scopes) == [user |-> u, scopes |-> scopes]
Tokens == [user: Users, scopes: SUBSET Scopes]

(* The active assignments of a user inside their validity window. *)
ActiveAssignments(u, scopes) == {s \in scopes : assignment[<<u, s>>] \in Valid}

AuthzInit ==
    /\ Init
    /\ cache = [u \in Users |-> {}]
    /\ login = [l \in Logins |-> NoLogin]
    /\ tokens = {}

(* create_access_token: the scopes are those of the user record in hand. *)
Issue(u, scopes) ==
    /\ Cardinality(tokens) < MaxTokens
    /\ tokens' = tokens \cup {Token(u, scopes)}

HitCache(l, u) ==
    /\ login[l] = NoLogin
    /\ \E scopes \in cache[u] : Issue(u, scopes)
    /\ UNCHANGED <<vars, cache, login>>

(* No entry, a stale one, or a get that failed. *)
MissCache(l, u) ==
    /\ login[l] = NoLogin
    /\ login' = [login EXCEPT ![l] = Derivation("missed", u, {})]
    /\ UNCHANGED <<vars, cache, tokens>>

ReadRoles(l) ==
    LET u == login[l].user IN
      /\ login[l].stage = "missed"
      /\ login' = [login EXCEPT ![l] =
                     Derivation("roles_read", u, ActiveAssignments(u, RoleScopes))]
      /\ UNCHANGED <<vars, cache, tokens>>

ReadRegions(l) ==
    LET u == login[l].user IN
      /\ login[l].stage = "roles_read"
      /\ login' = [login EXCEPT ![l] =
                     Derivation("derived", u, login[l].scopes \cup
                                  ActiveAssignments(u, Scopes \ RoleScopes))]
      /\ UNCHANGED <<vars, cache, tokens>>

(* The entry is merged with what is there instead of replacing it. *)
BugMergedEntry(l) ==
    /\ login[l].stage = "derived"
    /\ login' = [login EXCEPT ![l] =
                   Derivation("cached", login[l].user, login[l].scopes)]
    /\ cache' = [cache EXCEPT ![login[l].user] = @ \cup {login[l].scopes}]
    /\ UNCHANGED <<vars, tokens>>

PutCache(l) ==
    /\ login[l].stage = "derived"
    /\ login' = [login EXCEPT ![l] =
                   Derivation("cached", login[l].user, login[l].scopes)]
    /\ \/ cache' = [cache EXCEPT ![login[l].user] = {login[l].scopes}]
       \/ UNCHANGED cache
    /\ UNCHANGED <<vars, tokens>>

IssueToken(l) ==
    /\ login[l].stage = "cached"
    /\ Issue(login[l].user, login[l].scopes)
    /\ login' = [login EXCEPT ![l] = NoLogin]
    /\ UNCHANGED <<vars, cache>>

AbortLogin(l) ==
    /\ login[l] # NoLogin
    /\ login' = [login EXCEPT ![l] = NoLogin]
    /\ UNCHANGED <<vars, cache, tokens>>

(* A hit renews the entry: it outlives every token it has served.           *)
BugSlidingExpiry(u) ==
    /\ cache[u] # {}
    /\ \A t \in tokens : t.user # u
    /\ cache' = [cache EXCEPT ![u] = {}]
    /\ UNCHANGED <<vars, login, tokens>>

(* expiresAt passes (_is_fresh), counted from the put.  The bootstrap       *)
(* script's delete of the entry looks no different.                         *)
CacheExpires(u) ==
    /\ cache[u] # {}
    /\ cache' = [cache EXCEPT ![u] = {}]
    /\ UNCHANGED <<vars, login, tokens>>

(* exp passes: verify_access_token refuses it. *)
TokenExpires(t) ==
    /\ t \in tokens
    /\ tokens' = tokens \ {t}
    /\ UNCHANGED <<vars, cache, login>>

(* The decision route forgets require_roles. *)
BugAnyPrincipal(u) == TRUE

(* verify_access_token: signed by create_access_token and not expired.      *)
Verified(t) == t \in tokens

(* The authorizer joins what the claims list into strings and               *)
(* authenticated_principal splits them again: roles apart from regions.     *)
Principal(t) ==
    [userId |-> t.user, roles |-> t.scopes \cap RoleScopes,
     regionIds |-> t.scopes \ RoleScopes]

(* require_roles: R-SUPER-ADMIN among the roles of a verified token.        *)
Authorized(u) ==
    \E t \in Tokens :
      Verified(t) /\ Principal(t).userId = u /\ Super \in Principal(t).roles

Decide(w, r, u) ==
    /\ Authorized(u)
    /\ \/ \E action \in {"approve", "reject"} : LockRequest(w, r, u, action)
       \/ RefuseDecision(w, r, u)
    /\ UNCHANGED authorityVars

(* _invalidate_authz: the target's entry goes, unless the delete fails.     *)
InvalidateEntry(w) ==
    /\ Invalidate(w)
    /\ \/ cache' = [cache EXCEPT ![PayloadOf(w).target] = {}]
       \/ UNCHANGED cache
    /\ UNCHANGED <<login, tokens>>

DatabaseStep ==
    /\ \/ \E r \in Requests, u \in Users, p \in Submitted : Create(r, u, p)
       \/ \E w \in Workers :
            \/ LockRows(w)
            \/ RefuseChange(w)
            \/ CommitApproval(w)
            \/ CommitRejection(w)
            \/ Abort(w)
       \/ \E k \in Keys : Expire(k)
       \/ \E u \in Users : Bootstrap(u)
    /\ UNCHANGED authorityVars

LoginStep(l) ==
    \/ \E u \in Users : HitCache(l, u) \/ MissCache(l, u)
    \/ ReadRoles(l)
    \/ ReadRegions(l)
    \/ PutCache(l)
    \/ IssueToken(l)
    \/ AbortLogin(l)

AuthzNext ==
    \/ DatabaseStep
    \/ \E w \in Workers, r \in Requests, u \in Users : Decide(w, r, u)
    \/ \E w \in Workers : InvalidateEntry(w)
    \/ \E l \in Logins : LoginStep(l)
    \/ \E u \in Users : CacheExpires(u)
    \/ \E t \in Tokens : TokenExpires(t)

AuthzSpec == AuthzInit /\ [][AuthzNext]_authzVars

(* Time passes: what has a TTL reaches its end.  Nothing is assumed of      *)
(* logins, approvals or invalidations, which may all fail.                  *)
TimePasses ==
    /\ \A u \in Users : WF_authzVars(CacheExpires(u))
    /\ \A t \in Tokens : WF_authzVars(TokenExpires(t))
FairAuthzSpec == AuthzSpec /\ TimePasses
-----------------------------------------------------------------------------
Derivations ==
    [stage: {"missed", "roles_read", "derived", "cached"}, user: Users,
     scopes: SUBSET Scopes]

AuthzTypeOK ==
    /\ cache \in [Users -> {{}} \cup {{scopes} : scopes \in SUBSET Scopes}]
    /\ login \in [Logins -> Derivations \cup {NoLogin}]
    /\ tokens \subseteq Tokens

(* Authority the system still hands out or acts on, wherever it is kept.    *)
Carried(u) ==
    UNION (cache[u]
           \cup {t.scopes : t \in {x \in tokens : x.user = u}}
           \cup {login[l].scopes :
                   l \in {x \in Logins : login[x] # NoLogin /\ login[x].user = u}})

(* However a login interleaves with transactions that commit or roll back,  *)
(* no token, cache entry or half-done derivation carries authority that the *)
(* audit trail cannot account for.                                          *)
AuthorityAccountedFor ==
    \A u \in Users : \A s \in Carried(u) : AccountedFor(<<u, s>>)

(* Every decision was taken by somebody the audit trail knows as a super    *)
(* admin, even when the assignment was revoked before the decision.         *)
DecidersWereSuperAdmins ==
    /\ \A w \in Workers : worker[w] # Idle => AccountedFor(<<worker[w].actor, Super>>)
    /\ \A r \in Requests : request[r].status \in {"executed", "rejected"} =>
         AccountedFor(<<request[r].decidedBy, Super>>)

(* Authority outlives its assignment by the TTLs and no longer: one that    *)
(* stays invalid ends up in no token, whatever deletes failed and whatever  *)
(* stale derivation was put back after the invalidation.                    *)
RevocationTakesEffect ==
    \A k \in Keys :
      <>[](assignment[k] \notin Valid) =>
        <>[](\A t \in tokens : t.user = k[1] => k[2] \notin t.scopes)

(* ADMIN_RBAC_SPEC: "to revoke urgently, suspending the DB assignment must  *)
(* block the issuing of new tokens at once".  A cache entry is a token for  *)
(* whoever logs in next; so once a revocation is over, its invalidation     *)
(* included, nobody may cache the revoked assignment again.                 *)
RevocationBlocksNewTokens ==
    [][\A u \in Users :
         (cache'[u] # cache[u] /\ \A w \in Workers : worker[w] = Idle) =>
           \A s \in UNION cache'[u] : assignment[<<u, s>>] # "none"]_authzVars
=============================================================================
