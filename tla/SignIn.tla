------------------------------- MODULE SignIn -------------------------------
(***************************************************************************)
(* Social login, linking a provider, refreshing and logging out:           *)
(* RdsDataUserRepository over MySQL, where each statement commits on its   *)
(* own, and DynamoDbSessionRepository, whose look-up by refresh token goes *)
(* through a global secondary index that follows the table later.  An      *)
(* invocation is cut at each statement and call and may die at each.       *)
(*                                                                         *)
(* An identity is one account at a provider, which at each login vouches   *)
(* for its address (email_verified) or does not.  A refresh token and the  *)
(* access tokens made from it belong to one session, so the session stands *)
(* for all of them.                                                        *)
(***************************************************************************)
EXTENDS Naturals

CONSTANTS
    Users,          \* users.id
    Identities,     \* (provider, provider_user_id) pairs
    Sessions,       \* sessionId, with its refresh token
    Invocations,    \* concurrent Lambda invocations
    Address,        \* identity -> the address its provider reports
    Claims,         \* identity -> the values its email_verified may have
    None            \* NULL

ASSUME AddressAssumption == \A i \in Identities : Address[i] # None
ASSUME ClaimsAssumption == Claims \in [Identities -> SUBSET BOOLEAN]
ASSUME NullAssumption == None \notin Users

VARIABLES
    user,       \* user id -> row of users, or NoRow
    social,     \* identity -> user_id of its social_accounts row, or None
    session,    \* session id -> item of the table, or NoItem
    index,      \* session id -> what GSI1RefreshTokenHashLookup has of it
    handed,     \* sessions whose tokens reached their client
    vouched,    \* identities whose provider has vouched for their address
    joined,     \* (user, identity) pairs a signed-in user asked to link
    raced,      \* addresses that two first logins registered at once
    call        \* invocation -> what it still has to do, or Idle

vars == <<user, social, session, index, handed, vouched, joined, raced, call>>
accounts == <<user, social, vouched, joined, raced>>
tokens == <<session, index, handed>>

NoRow == [status |-> "no_row"]
NoItem == [user |-> None]
Idle == [stage |-> "idle"]

Init ==
    /\ user = [u \in Users |-> NoRow]
    /\ social = [i \in Identities |-> None]
    /\ session = [s \in Sessions |-> NoItem]
    /\ index = [s \in Sessions |-> NoItem]
    /\ handed = {}
    /\ vouched = {}
    /\ joined = {}
    /\ raced = {}
    /\ call = [w \in Invocations |-> Idle]

Become(w, state) == call' = [call EXCEPT ![w] = state]
Active(u) == u # None /\ user[u].status = "active"

(* An address nobody vouched for is taken. *)
BugTrustAnyAddress(i, verified) == Address[i]
(* The flag is stored where the address belongs. *)
BugFlagForAddress(i, verified) == verified
(* identity.email if identity.email_verified else None *)
VerifiedEmail(i, verified) == IF verified THEN Address[i] ELSE None
-----------------------------------------------------------------------------
(* upsert_from_provider *)

(* _find_by_social *)
FindBySocial(i) == IF Active(social[i]) THEN social[i] ELSE None

Login(stage, i, u) == [stage |-> stage, identity |-> i, user |-> u]
FirstLogin(stage, i, email) == [stage |-> stage, identity |-> i, email |-> email]

BeginLogin(w, i, verified) ==
    /\ call[w] = Idle
    /\ Become(w, IF FindBySocial(i) # None
                   THEN Login("known", i, FindBySocial(i))
                   ELSE FirstLogin("by_email", i, VerifiedEmail(i, verified)))
    /\ vouched' = IF verified THEN vouched \cup {i} ELSE vouched
    /\ UNCHANGED <<user, social, joined, raced, tokens>>

(* _record_social_login, whose two UPDATEs touch no column modelled here,   *)
(* and get_user: 404 if the user is no longer active.                       *)
GetKnownUser(w) ==
    /\ call[w].stage = "known"
    /\ Become(w, IF Active(call[w].user)
                   THEN Login("session", call[w].identity, call[w].user) ELSE Idle)
    /\ UNCHANGED <<accounts, tokens>>

(* Every first login makes a user. *)
BugNoEmailLookup(email) == {}
(* The SELECT forgets AND status = 'active'. *)
BugAnyUserOfEmail(email) ==
    {u \in Users : email # None /\ user[u] # NoRow /\ user[u].email = email}
(* _find_by_verified_email: any one of them, by fetch_one. *)
FindByEmail(email) ==
    {u \in Users : email # None /\ Active(u) /\ user[u].email = email}

LookUpEmail(w) ==
    LET i == call[w].identity
        email == call[w].email
    IN  /\ call[w].stage = "by_email"
        /\ \/ /\ \E u \in FindByEmail(email) : Become(w, Login("connect", i, u))
              /\ UNCHANGED raced
           \/ /\ FindByEmail(email) = {}
              /\ Become(w, FirstLogin("create", i, email))
              /\ raced' = IF \E v \in Invocations :
                               call[v].stage = "create" /\ call[v].email = email
                            THEN raced \cup {email} ELSE raced
        /\ UNCHANGED <<user, social, vouched, joined, tokens>>

(* _create_user *)
CreateUser(w, u) ==
    LET i == call[w].identity IN
    /\ call[w].stage = "create"
    /\ user[u] = NoRow
    /\ user' = [user EXCEPT ![u] =
                  [status |-> "active", email |-> call[w].email, first |-> i]]
    /\ Become(w, Login("connect", i, u))
    /\ UNCHANGED <<social, vouched, joined, raced, tokens>>

(* INSERT ... ON DUPLICATE KEY UPDATE user_id = VALUES(user_id). *)
BugTakeOver(i) == TRUE
(* uq_social_provider_user lets the row in. *)
Unlinked(i) == social[i] = None

(* _create_social_account, of a login and of link_provider_to_user *)
CreateSocialAccount(w) ==
    LET c == call[w] IN
    /\ c.stage \in {"connect", "link"}
    /\ Unlinked(c.identity)
    /\ social' = [social EXCEPT ![c.identity] = c.user]
    /\ joined' = IF c.stage = "link"
                   THEN joined \cup {<<c.user, c.identity>>} ELSE joined
    /\ Become(w, IF c.stage = "connect"
                   THEN Login("session", c.identity, c.user) ELSE Idle)
    /\ UNCHANGED <<user, vouched, raced, tokens>>

(* The unique key refuses it: 500, and a user just created stays behind.    *)
DuplicateSocialAccount(w) ==
    /\ call[w].stage \in {"connect", "link"}
    /\ ~Unlinked(call[w].identity)
    /\ Become(w, Idle)
    /\ UNCHANGED <<accounts, tokens>>
-----------------------------------------------------------------------------
(* Sessions *)

(* create_session of _handle_social_login and _handle_cognito_session *)
CreateSession(w, s) ==
    LET c == call[w] IN
    /\ c.stage = "session"
    /\ session[s] = NoItem
    /\ session' = [session EXCEPT ![s] =
                     [user |-> c.user, identity |-> c.identity, revoked |-> FALSE]]
    /\ Become(w, [stage |-> "respond", user |-> c.user, session |-> s])
    /\ UNCHANGED <<accounts, index, handed>>

(* create_access_token for the user read before, and the response. *)
Respond(w) ==
    /\ call[w].stage = "respond"
    /\ handed' = handed \cup {call[w].session}
    /\ Become(w, Idle)
    /\ UNCHANGED <<accounts, session, index>>

(* _is_active without the look at revokedAt. *)
BugExpiryOnly(s) == index[s] # NoItem
(* find_active_by_refresh_hash: _is_active of the item the index has.  (It  *)
(* may have expired besides: a look-up that may find a session may fail.)   *)
FoundActive(s) == index[s] # NoItem /\ ~index[s].revoked

(* _handle_session, up to get_user *)
BeginRefresh(w, s) ==
    /\ call[w] = Idle
    /\ s \in handed
    /\ FoundActive(s)
    /\ Become(w, [stage |-> "refresh", user |-> index[s].user, session |-> s])
    /\ UNCHANGED <<accounts, tokens>>

GetSessionUser(w) ==
    /\ call[w].stage = "refresh"
    /\ Become(w, IF Active(call[w].user)
                   THEN [call[w] EXCEPT !.stage = "respond"] ELSE Idle)
    /\ UNCHANGED <<accounts, tokens>>

(* _handle_logout, up to revoke_session.  The cookie identifies the session *)
(* if the index finds it active, else the bearer token does.  (If neither   *)
(* does, the answer is a success all the same and nothing is done.)         *)
Credentials == handed \cup {None}
Presented(cookie, bearer) ==
    IF cookie # None /\ FoundActive(cookie) THEN cookie ELSE bearer

BeginLogout(w, cookie, bearer) ==
    /\ call[w] = Idle
    /\ {cookie, bearer} \subseteq Credentials
    /\ Presented(cookie, bearer) # None
    /\ Become(w, [stage |-> "revoke", session |-> Presented(cookie, bearer)])
    /\ UNCHANGED <<accounts, tokens>>

RevokeSession(w) ==
    /\ call[w].stage = "revoke"
    /\ session' = [session EXCEPT ![call[w].session].revoked = TRUE]
    /\ Become(w, Idle)
    /\ UNCHANGED <<accounts, index, handed>>

(* _require_user_id: the bearer token's user, active or not. *)
BearerUser(s) == session[s].user
(* link_provider_to_user: 409 if the identity is found to be linked already.*)
Linkable(i) == FindBySocial(i) = None

(* _handle_link_provider, up to the INSERT *)
BeginLink(w, s, i) ==
    /\ call[w] = Idle
    /\ s \in handed
    /\ Linkable(i)
    /\ Become(w, Login("link", i, BearerUser(s)))
    /\ UNCHANGED <<accounts, tokens>>
-----------------------------------------------------------------------------
(* DynamoDB brings the index up to date. *)
Propagate(s) ==
    /\ index[s] # session[s]
    /\ index' = [index EXCEPT ![s] = session[s]]
    /\ UNCHANGED <<accounts, session, handed, call>>

(* An operator sets users.status to 'suspended' or 'withdrawn'. *)
Suspend(u) ==
    /\ Active(u)
    /\ user' = [user EXCEPT ![u].status = "suspended"]
    /\ UNCHANGED <<social, vouched, joined, raced, tokens, call>>

Die(w) ==
    /\ call[w] # Idle
    /\ Become(w, Idle)
    /\ UNCHANGED <<accounts, tokens>>

Continue(w) ==
    \/ GetKnownUser(w) \/ LookUpEmail(w)
    \/ \E u \in Users : CreateUser(w, u)
    \/ CreateSocialAccount(w) \/ DuplicateSocialAccount(w)
    \/ \E s \in Sessions : CreateSession(w, s)
    \/ Respond(w) \/ GetSessionUser(w) \/ RevokeSession(w)

Request(w) ==
    \/ \E i \in Identities : \E verified \in Claims[i] : BeginLogin(w, i, verified)
    \/ \E s \in Sessions : BeginRefresh(w, s)
    \/ \E s, t \in Sessions \cup {None} : BeginLogout(w, s, t)
    \/ \E s \in Sessions, i \in Identities : BeginLink(w, s, i)

Next ==
    \/ \E w \in Invocations : Request(w) \/ Continue(w) \/ Die(w)
    \/ \E s \in Sessions : Propagate(s)
    \/ \E u \in Users : Suspend(u)

Spec == Init /\ [][Next]_vars
-----------------------------------------------------------------------------
(* Properties *)
Emails == {Address[i] : i \in Identities}
UserRows ==
    [status : {"active", "suspended"}, email : Emails \cup {None},
     first : Identities]
Items == [user : Users, identity : Identities, revoked : BOOLEAN]
Calls ==
    {Idle}
      \cup [stage : {"by_email", "create"}, identity : Identities,
            email : Emails \cup {None}]
      \cup [stage : {"known", "connect", "link", "session"},
            identity : Identities, user : Users]
      \cup [stage : {"refresh", "respond"}, user : Users, session : Sessions]
      \cup [stage : {"revoke"}, session : Sessions]

(* Type invariant: the tables, the index and what each invocation holds.    *)
SignInTypeOK ==
    /\ user \in [Users -> {NoRow} \cup UserRows]
    /\ social \in [Identities -> Users \cup {None}]
    /\ session \in [Sessions -> {NoItem} \cup Items]
    /\ index \in [Sessions -> {NoItem} \cup Items]
    /\ handed \subseteq Sessions
    /\ vouched \subseteq Identities
    /\ joined \subseteq Users \X Identities
    /\ raced \subseteq Emails \cup {None}
    /\ call \in [Invocations -> Calls]

(* A session is its identity's: whoever holds its tokens acts as the user   *)
(* whom social_accounts names for the identity that logged in, now and not  *)
(* only then, whatever logins and link requests raced for that identity.    *)
SessionsOfOwner ==
    \A s \in Sessions : session[s] # NoItem =>
      /\ social[session[s].identity] = session[s].user
      /\ index[s] # NoItem => index[s].user = session[s].user

(* Nobody gets into an account by an address alone: an identity belongs to  *)
(* the user it made, to one who asked for the link, or to one with the same *)
(* address where the providers of both have vouched for it.                 *)
JoinedByProof ==
    \A i \in Identities : social[i] # None =>
      LET u == social[i] IN
      \/ user[u].first = i
      \/ <<u, i>> \in joined
      \/ {i, user[u].first} \subseteq vouched /\ Address[user[u].first] = Address[i]

(* A verified address has one active user, through deaths, suspensions and  *)
(* failed inserts, unless two first logins were creating it at once.        *)
OneUserPerEmail ==
    \A u, v \in Users :
      Active(u) /\ Active(v) /\ user[u].email = user[v].email =>
        u = v \/ user[u].email \in raced \cup {None}

(* A logout is for good: once the index shows the revocation and no refresh *)
(* that read the index before it is left, no request, however late, gets    *)
(* an access token from the refresh token again.                            *)
LoggedOut(s) ==
    /\ session[s] # NoItem /\ session[s].revoked
    /\ index[s] = session[s]
    /\ \A w \in Invocations : ~(call[w].stage = "refresh" /\ call[w].session = s)
LogoutLasts == [][\A s \in Sessions : LoggedOut(s) => LoggedOut(s)']_vars

(* A suspension is for good: once the requests that read the user as active *)
(* have ended, nobody gets a session or an access token of this user.       *)
Entering(u) ==
    \E w \in Invocations :
      call[w].stage \in {"connect", "session", "respond"} /\ call[w].user = u
ShutOut(u) == user[u] # NoRow /\ ~Active(u) /\ ~Entering(u)
SuspensionLasts == [][\A u \in Users : ShutOut(u) => ShutOut(u)']_vars
=============================================================================
