---------------------------- MODULE SignInProofs ----------------------------
(***************************************************************************)
(* Proofs about SignIn.  What an invocation carries from one statement to  *)
(* the next stays true because rows of social_accounts are never changed   *)
(* and users are only ever suspended; what it carries of a look-up that    *)
(* found nothing does not, and there a unique key or raced takes over.     *)
(***************************************************************************)
EXTENDS SignIn, TLAPS

LEMMA StageOfIdle == Idle.stage = "idle"
  BY DEF Idle

LEMMA LoginTyped ==
  ASSUME SignInTypeOK, NEW w \in Invocations,
         call[w].stage \in {"known", "connect", "link", "session"}
  PROVE  call[w].identity \in Identities /\ call[w].user \in Users
  BY DEF SignInTypeOK, Calls, Idle

LEMMA FirstLoginTyped ==
  ASSUME SignInTypeOK, NEW w \in Invocations,
         call[w].stage \in {"by_email", "create"}
  PROVE  call[w].identity \in Identities /\ call[w].email \in Emails \cup {None}
  BY DEF SignInTypeOK, Calls, Idle

LEMMA RefreshTyped ==
  ASSUME SignInTypeOK, NEW w \in Invocations,
         call[w].stage \in {"refresh", "respond"}
  PROVE  call[w].user \in Users /\ call[w].session \in Sessions
  BY DEF SignInTypeOK, Calls, Idle

LEMMA RevokeTyped ==
  ASSUME SignInTypeOK, NEW w \in Invocations, call[w].stage = "revoke"
  PROVE  call[w].session \in Sessions
  BY DEF SignInTypeOK, Calls, Idle

LEMMA RefreshCallTyped ==
  ASSUME SignInTypeOK, NEW w \in Invocations, call[w].stage = "refresh"
  PROVE  [call[w] EXCEPT !.stage = "respond"] =
           [stage |-> "respond", user |-> call[w].user, session |-> call[w].session]
  BY DEF SignInTypeOK, Calls, Idle

(* What the steps of an invocation put into call. *)
LEMMA CallsBuilt ==
  ASSUME NEW i \in Identities, NEW u \in Users, NEW s \in Sessions,
         NEW email \in Emails \cup {None}
  PROVE  /\ Idle \in Calls
         /\ Login("known", i, u) \in Calls
         /\ Login("connect", i, u) \in Calls
         /\ Login("link", i, u) \in Calls
         /\ Login("session", i, u) \in Calls
         /\ FirstLogin("by_email", i, email) \in Calls
         /\ FirstLogin("create", i, email) \in Calls
         /\ [stage |-> "refresh", user |-> u, session |-> s] \in Calls
         /\ [stage |-> "respond", user |-> u, session |-> s] \in Calls
         /\ [stage |-> "revoke", session |-> s] \in Calls
  BY DEF Calls, Login, FirstLogin

LEMMA IdleTyped == Idle \in Calls
  BY DEF Calls

(* A step of w leaves what the others carry alone. *)
LEMMA BecomeCall ==
  ASSUME SignInTypeOK, NEW w \in Invocations, NEW state \in Calls,
         Become(w, state)
  PROVE  /\ call' \in [Invocations -> Calls]
         /\ call'[w] = state
         /\ \A v \in Invocations \ {w} : call'[v] = call[v]
  BY DEF SignInTypeOK, Become

LEMMA FoundTyped ==
  ASSUME SignInTypeOK, NEW i \in Identities, FindBySocial(i) # None
  PROVE  /\ FindBySocial(i) = social[i]
         /\ social[i] \in Users
         /\ user[social[i]] # NoRow
  BY DEF SignInTypeOK, FindBySocial, Active, NoRow

LEMMA EmailTyped ==
  ASSUME NEW i \in Identities, NEW verified
  PROVE  VerifiedEmail(i, verified) \in Emails \cup {None}
  BY DEF VerifiedEmail, Emails

LEMMA ItemTyped ==
  ASSUME SignInTypeOK, NEW s \in Sessions
  PROVE  /\ session[s] # NoItem => session[s] \in Items
         /\ index[s] # NoItem => index[s] \in Items
  BY DEF SignInTypeOK

LEMMA RowTyped ==
  ASSUME SignInTypeOK, NEW u \in Users
  PROVE  /\ user[u] # NoRow <=> user[u] \in UserRows
         /\ Active(u) => user[u] \in UserRows
  BY DEF SignInTypeOK, UserRows, NoRow, Active
-----------------------------------------------------------------------------
(* Everybody an invocation or a table names exists. *)
UsersExist ==
    /\ \A i \in Identities : social[i] # None => user[social[i]] # NoRow
    /\ \A w \in Invocations :
         call[w].stage \in {"connect", "link"} => user[call[w].user] # NoRow

(* An identity that was found, or has just been linked, stays linked. *)
LinksKept ==
    \A w \in Invocations :
      call[w].stage \in {"known", "session"} =>
        social[call[w].identity] = call[w].user

(* The index is behind the table, never ahead of it, and nobody holds tokens*)
(* of a session that does not exist.                                        *)
SessionsExist ==
    /\ \A s \in Sessions : index[s] # NoItem \/ s \in handed => session[s] # NoItem
    /\ \A w \in Invocations :
         call[w].stage \in {"refresh", "respond", "revoke"} =>
           session[call[w].session] # NoItem

OwnerInv ==
    SignInTypeOK /\ UsersExist /\ LinksKept /\ SessionsExist /\ SessionsOfOwner

LEMMA InitOwner == Init => OwnerInv
  BY StageOfIdle DEF Init, OwnerInv, SignInTypeOK, UsersExist, LinksKept,
     SessionsExist, SessionsOfOwner, Calls, NoItem

USE DEF accounts, tokens

LEMMA BeginLoginOwner ==
  ASSUME OwnerInv, NEW w \in Invocations, NEW i \in Identities,
         NEW verified \in Claims[i], BeginLogin(w, i, verified)
  PROVE  OwnerInv'
  <1> DEFINE state == IF FindBySocial(i) # None
                        THEN Login("known", i, FindBySocial(i))
                        ELSE FirstLogin("by_email", i, VerifiedEmail(i, verified))
  <1>1. SignInTypeOK BY DEF OwnerInv
  <1>2. state \in Calls /\ (state.stage = "known" => social[i] = state.user /\ state.identity = i)
        /\ state.stage \in {"known", "by_email"}
    <2>1. CASE FindBySocial(i) # None
      BY <1>1, <2>1, FoundTyped DEF Login, Calls
    <2>2. CASE FindBySocial(i) = None
      BY <1>1, <2>2, EmailTyped DEF FirstLogin, Calls
    <2> QED BY <2>1, <2>2
  <1> HIDE DEF state
  <1>3. Become(w, state) BY DEF BeginLogin, state
  <1>4. /\ call' \in [Invocations -> Calls] /\ call'[w] = state
        /\ \A v \in Invocations \ {w} : call'[v] = call[v]
    BY <1>1, <1>2, <1>3, BecomeCall
  <1>5. /\ UNCHANGED <<user, social, session, index, handed, joined, raced>>
        /\ vouched' \subseteq Identities
    BY <1>1 DEF BeginLogin, SignInTypeOK
  <1> QED BY <1>2, <1>4, <1>5 DEF OwnerInv, SignInTypeOK, UsersExist, LinksKept,
             SessionsExist, SessionsOfOwner

(* A step that only moves w on, to a call that owes nothing to anybody new. *)
LEMMA MoveOwner ==
  ASSUME OwnerInv, NEW w \in Invocations, NEW state \in Calls, Become(w, state),
         UNCHANGED <<user, social, vouched, session, index, handed, joined>>,
         raced' \subseteq Emails \cup {None},
         state.stage \in {"connect", "link"} => user[state.user] # NoRow,
         state.stage \in {"known", "session"} => social[state.identity] = state.user,
         state.stage \in {"refresh", "respond", "revoke"} =>
           session[state.session] # NoItem
  PROVE  OwnerInv'
  <1>1. SignInTypeOK BY DEF OwnerInv
  <1>2. /\ call' \in [Invocations -> Calls] /\ call'[w] = state
        /\ \A v \in Invocations \ {w} : call'[v] = call[v]
    BY <1>1, BecomeCall
  <1> QED BY <1>2 DEF OwnerInv, SignInTypeOK, UsersExist, LinksKept,
             SessionsExist, SessionsOfOwner

LEMMA IdleOwner ==
  ASSUME OwnerInv, NEW w \in Invocations, Become(w, Idle),
         UNCHANGED <<accounts, tokens>>
  PROVE  OwnerInv'
  BY MoveOwner, IdleTyped, StageOfIdle DEF OwnerInv, SignInTypeOK

LEMMA GetKnownUserOwner ==
  ASSUME OwnerInv, NEW w \in Invocations, GetKnownUser(w)
  PROVE  OwnerInv'
  <1>1. SignInTypeOK /\ call[w].stage = "known" BY DEF OwnerInv, GetKnownUser
  <1>2. call[w].identity \in Identities /\ call[w].user \in Users
    BY <1>1, LoginTyped
  <1> DEFINE state == Login("session", call[w].identity, call[w].user)
  <1>3. CASE Active(call[w].user)
    <2>1. Become(w, state) BY <1>3 DEF GetKnownUser
    <2>2. state \in Calls BY <1>2 DEF Login, Calls
    <2>3. state.stage = "session" /\ social[state.identity] = state.user
      BY <1>1 DEF Login, OwnerInv, LinksKept
    <2> HIDE DEF state
    <2> QED BY <2>1, <2>2, <2>3, <1>1, MoveOwner DEF GetKnownUser, SignInTypeOK
  <1>4. CASE ~Active(call[w].user)
    BY <1>4, IdleOwner DEF GetKnownUser
  <1> QED BY <1>3, <1>4

LEMMA LookUpEmailOwner ==
  ASSUME OwnerInv, NEW w \in Invocations, LookUpEmail(w)
  PROVE  OwnerInv'
  <1> DEFINE i == call[w].identity
             email == call[w].email
  <1>1. SignInTypeOK /\ call[w].stage = "by_email" BY DEF OwnerInv, LookUpEmail
  <1>2. i \in Identities /\ email \in Emails \cup {None} BY <1>1, FirstLoginTyped
  <1>3. ASSUME NEW u \in FindByEmail(email), Become(w, Login("connect", i, u)),
               UNCHANGED raced
        PROVE  OwnerInv'
    <2> DEFINE state == Login("connect", i, u)
    <2>1. u \in Users /\ user[u] # NoRow BY <1>3, <1>1, RowTyped DEF FindByEmail
    <2>2. state \in Calls BY <1>2, <2>1 DEF Login, Calls
    <2>3. state.stage = "connect" /\ state.user = u BY DEF Login
    <2> HIDE DEF state
    <2> QED BY <1>1, <1>3, <2>1, <2>2, <2>3, MoveOwner
            DEF LookUpEmail, SignInTypeOK, state
  <1>4. ASSUME Become(w, FirstLogin("create", i, email)),
               raced' \in {raced, raced \cup {email}}
        PROVE  OwnerInv'
    <2> DEFINE state == FirstLogin("create", i, email)
    <2>1. state \in Calls /\ state.stage = "create"
      BY <1>2 DEF FirstLogin, Calls
    <2>2. raced' \subseteq Emails \cup {None} BY <1>1, <1>2, <1>4 DEF SignInTypeOK
    <2> HIDE DEF state
    <2> QED BY <1>4, <2>1, <2>2, MoveOwner DEF LookUpEmail, state
  <1> QED BY <1>3, <1>4 DEF LookUpEmail

LEMMA CreateUserOwner ==
  ASSUME OwnerInv, NEW w \in Invocations, NEW u \in Users, CreateUser(w, u)
  PROVE  OwnerInv'
  <1> DEFINE i == call[w].identity
             row == [status |-> "active", email |-> call[w].email, first |-> i]
             state == Login("connect", i, u)
  <1>1. SignInTypeOK /\ call[w].stage = "create" BY DEF OwnerInv, CreateUser
  <1>2. i \in Identities /\ call[w].email \in Emails \cup {None}
    BY <1>1, FirstLoginTyped
  <1>3. row \in UserRows /\ row # NoRow BY <1>2 DEF UserRows, NoRow
  <1>4. state \in Calls /\ state.stage = "connect" /\ state.user = u
    BY <1>2 DEF Login, Calls
  <1>5. Become(w, state) /\ user' = [user EXCEPT ![u] = row] BY DEF CreateUser
  <1> HIDE DEF row, state
  <1>6. /\ call' \in [Invocations -> Calls] /\ call'[w] = state
        /\ \A v \in Invocations \ {w} : call'[v] = call[v]
    BY <1>1, <1>4, <1>5, BecomeCall
  <1>7. user' \in [Users -> {NoRow} \cup UserRows] /\ user'[u] # NoRow
        /\ \A v \in Users : user[v] # NoRow => user'[v] # NoRow
    BY <1>1, <1>3, <1>5 DEF SignInTypeOK
  <1>8. UNCHANGED <<social, vouched, joined, raced, session, index, handed>>
    BY DEF CreateUser
  <1>9. SignInTypeOK' BY <1>1, <1>6, <1>7, <1>8 DEF SignInTypeOK
  <1>10. UsersExist'
    <2>1. ASSUME NEW j \in Identities, social[j] # None
          PROVE  user'[social[j]] # NoRow
      BY <1>1, <1>7, <2>1 DEF OwnerInv, UsersExist, SignInTypeOK
    <2>2. ASSUME NEW v \in Invocations, call'[v].stage \in {"connect", "link"}
          PROVE  user'[call'[v].user] # NoRow
      BY <1>1, <1>4, <1>6, <1>7, <2>2, LoginTyped DEF OwnerInv, UsersExist
    <2> QED BY <1>8, <2>1, <2>2 DEF UsersExist
  <1>11. LinksKept' /\ SessionsExist' /\ SessionsOfOwner'
    BY <1>4, <1>6, <1>8 DEF OwnerInv, LinksKept, SessionsExist, SessionsOfOwner
  <1> QED BY <1>9, <1>10, <1>11 DEF OwnerInv

LEMMA CreateSocialAccountOwner ==
  ASSUME OwnerInv, NEW w \in Invocations, CreateSocialAccount(w)
  PROVE  OwnerInv'
  <1> DEFINE i == call[w].identity
             u == call[w].user
             state == IF call[w].stage = "connect"
                        THEN Login("session", i, u) ELSE Idle
  <1>1. SignInTypeOK /\ call[w].stage \in {"connect", "link"}
    BY DEF OwnerInv, CreateSocialAccount
  <1>2. i \in Identities /\ u \in Users BY <1>1, LoginTyped
  <1>3. user[u] # NoRow BY <1>1 DEF OwnerInv, UsersExist
  <1>4. state \in Calls /\ state.stage \in {"session", "idle"}
        /\ (state.stage = "session" => state.identity = i /\ state.user = u)
    BY <1>2, IdleTyped, StageOfIdle DEF Login, Calls
  <1>5. /\ Become(w, state)
        /\ social[i] = None
        /\ social' = [social EXCEPT ![i] = u]
        /\ joined' \in {joined, joined \cup {<<u, i>>}}
        /\ UNCHANGED <<user, vouched, raced, session, index, handed>>
    BY DEF CreateSocialAccount, Unlinked
  <1> HIDE DEF state
  <1>6. /\ call' \in [Invocations -> Calls] /\ call'[w] = state
        /\ \A v \in Invocations \ {w} : call'[v] = call[v]
    BY <1>1, <1>4, <1>5, BecomeCall
  <1>7. /\ social' \in [Identities -> Users \cup {None}]
        /\ social'[i] = u
        /\ \A j \in Identities \ {i} : social'[j] = social[j]
    BY <1>1, <1>2, <1>5 DEF SignInTypeOK
  <1>8. SignInTypeOK' BY <1>1, <1>2, <1>5, <1>6, <1>7 DEF SignInTypeOK
  <1>9. UsersExist' BY <1>3, <1>4, <1>5, <1>6, <1>7 DEF OwnerInv, UsersExist
  <1>10. LinksKept'
    <2>1. ASSUME NEW v \in Invocations \ {w}, call[v].stage \in {"known", "session"}
          PROVE  social'[call[v].identity] = call[v].user
      <3>1. /\ social[call[v].identity] = call[v].user
            /\ call[v].identity \in Identities /\ call[v].user \in Users
        BY <1>1, <2>1, LoginTyped DEF OwnerInv, LinksKept
      <3> QED BY <1>5, <1>7, <3>1, NullAssumption
    <2> QED BY <1>4, <1>6, <1>7, <2>1 DEF LinksKept
  <1>11. SessionsOfOwner'
    <2>1. ASSUME NEW s \in Sessions, session[s] # NoItem
          PROVE  social'[session[s].identity] = session[s].user
      <3>1. session[s] \in Items /\ social[session[s].identity] = session[s].user
        BY <1>1, <2>1, ItemTyped DEF OwnerInv, SessionsOfOwner
      <3>2. session[s].identity \in Identities /\ session[s].user \in Users
        BY <3>1 DEF Items
      <3> QED BY <1>5, <1>7, <3>1, <3>2, NullAssumption
    <2> QED BY <1>5, <2>1 DEF OwnerInv, SessionsOfOwner
  <1>12. SessionsExist' BY <1>4, <1>5, <1>6 DEF OwnerInv, SessionsExist
  <1> QED BY <1>8, <1>9, <1>10, <1>11, <1>12 DEF OwnerInv

LEMMA CreateSessionOwner ==
  ASSUME OwnerInv, NEW w \in Invocations, NEW s \in Sessions, CreateSession(w, s)
  PROVE  OwnerInv'
  <1> DEFINE i == call[w].identity
             u == call[w].user
             item == [user |-> u, identity |-> i, revoked |-> FALSE]
             state == [stage |-> "respond", user |-> u, session |-> s]
  <1>1. SignInTypeOK /\ call[w].stage = "session" BY DEF OwnerInv, CreateSession
  <1>2. i \in Identities /\ u \in Users /\ social[i] = u
    BY <1>1, LoginTyped DEF OwnerInv, LinksKept
  <1>3. item \in Items /\ item # NoItem /\ item.user = u /\ item.identity = i
    BY <1>2, NullAssumption DEF Items, NoItem
  <1>4. state \in Calls /\ state.stage = "respond" /\ state.session = s
    BY <1>2 DEF Calls
  <1>5. /\ Become(w, state)
        /\ session[s] = NoItem
        /\ session' = [session EXCEPT ![s] = item]
        /\ UNCHANGED <<user, social, vouched, joined, raced, index, handed>>
    BY DEF CreateSession
  <1> HIDE DEF item, state
  <1>6. /\ call' \in [Invocations -> Calls] /\ call'[w] = state
        /\ \A v \in Invocations \ {w} : call'[v] = call[v]
    BY <1>1, <1>4, <1>5, BecomeCall
  <1>7. /\ session' \in [Sessions -> {NoItem} \cup Items]
        /\ session'[s] = item
        /\ \A t \in Sessions \ {s} : session'[t] = session[t]
    BY <1>1, <1>3, <1>5 DEF SignInTypeOK
  <1>8. index[s] = NoItem BY <1>5 DEF OwnerInv, SessionsExist
  <1>9. SignInTypeOK' BY <1>1, <1>5, <1>6, <1>7 DEF SignInTypeOK
  <1>10. UsersExist' /\ LinksKept' BY <1>4, <1>5, <1>6 DEF OwnerInv, UsersExist, LinksKept
  <1>11. SessionsOfOwner'
    BY <1>2, <1>3, <1>5, <1>7, <1>8 DEF OwnerInv, SessionsOfOwner
  <1>12. SessionsExist'
    <2>1. ASSUME NEW v \in Invocations,
                 call'[v].stage \in {"refresh", "respond", "revoke"}
          PROVE  session'[call'[v].session] # NoItem
      <3>1. CASE v = w BY <1>3, <1>4, <1>6, <1>7, <3>1
      <3>2. CASE v # w
        BY <1>1, <1>3, <1>6, <1>7, <2>1, <3>2, RefreshTyped, RevokeTyped
           DEF OwnerInv, SessionsExist
      <3> QED BY <3>1, <3>2
    <2> QED BY <1>3, <1>5, <1>7, <2>1 DEF OwnerInv, SessionsExist
  <1> QED BY <1>9, <1>10, <1>11, <1>12 DEF OwnerInv

LEMMA RespondOwner ==
  ASSUME OwnerInv, NEW w \in Invocations, Respond(w)
  PROVE  OwnerInv'
  <1>1. SignInTypeOK /\ call[w].stage = "respond" BY DEF OwnerInv, Respond
  <1>2. call[w].session \in Sessions /\ session[call[w].session] # NoItem
    BY <1>1, RefreshTyped DEF OwnerInv, SessionsExist
  <1>3. /\ call' \in [Invocations -> Calls] /\ call'[w] = Idle
        /\ \A v \in Invocations \ {w} : call'[v] = call[v]
    BY <1>1, IdleTyped, BecomeCall DEF Respond
  <1>4. /\ handed' = handed \cup {call[w].session}
        /\ UNCHANGED <<user, social, vouched, joined, raced, session, index>>
    BY DEF Respond
  <1>5. SignInTypeOK' BY <1>1, <1>2, <1>3, <1>4 DEF SignInTypeOK
  <1>6. UsersExist' /\ LinksKept' /\ SessionsOfOwner'
    BY <1>3, <1>4, StageOfIdle DEF OwnerInv, UsersExist, LinksKept, SessionsOfOwner
  <1>7. SessionsExist'
    BY <1>2, <1>3, <1>4, StageOfIdle DEF OwnerInv, SessionsExist
  <1> QED BY <1>5, <1>6, <1>7 DEF OwnerInv

LEMMA BeginRefreshOwner ==
  ASSUME OwnerInv, NEW w \in Invocations, NEW s \in Sessions, BeginRefresh(w, s)
  PROVE  OwnerInv'
  <1> DEFINE state == [stage |-> "refresh", user |-> index[s].user, session |-> s]
  <1>1. SignInTypeOK BY DEF OwnerInv
  <1>2. index[s] \in Items /\ session[s] # NoItem
    BY <1>1, ItemTyped DEF BeginRefresh, FoundActive, OwnerInv, SessionsExist
  <1>3. state \in Calls /\ state.stage = "refresh" /\ state.session = s
    BY <1>2 DEF Items, Calls
  <1>4. Become(w, state) BY DEF BeginRefresh
  <1> HIDE DEF state
  <1> QED BY <1>1, <1>2, <1>3, <1>4, MoveOwner DEF BeginRefresh, SignInTypeOK

LEMMA GetSessionUserOwner ==
  ASSUME OwnerInv, NEW w \in Invocations, GetSessionUser(w)
  PROVE  OwnerInv'
  <1> DEFINE state ==
        [stage |-> "respond", user |-> call[w].user, session |-> call[w].session]
  <1>1. SignInTypeOK /\ call[w].stage = "refresh" BY DEF OwnerInv, GetSessionUser
  <1>2. call[w].user \in Users /\ call[w].session \in Sessions
    BY <1>1, RefreshTyped
  <1>3. CASE Active(call[w].user)
    <2>1. Become(w, state) BY <1>1, <1>3, RefreshCallTyped DEF GetSessionUser
    <2>2. /\ state \in Calls
          /\ state.stage = "respond" /\ session[state.session] # NoItem
      BY <1>1, <1>2 DEF Calls, OwnerInv, SessionsExist
    <2> HIDE DEF state
    <2> QED BY <1>1, <2>1, <2>2, MoveOwner DEF GetSessionUser, SignInTypeOK
  <1>4. CASE ~Active(call[w].user)
    BY <1>4, IdleOwner DEF GetSessionUser
  <1> QED BY <1>3, <1>4

LEMMA BeginLogoutOwner ==
  ASSUME OwnerInv, NEW w \in Invocations, NEW s \in Sessions \cup {None},
         NEW t \in Sessions \cup {None}, BeginLogout(w, s, t)
  PROVE  OwnerInv'
  <1>1. SignInTypeOK BY DEF OwnerInv
  <1>2. PICK found \in {s, t} \ {None} :
          Become(w, [stage |-> "revoke", session |-> found])
    BY DEF BeginLogout, Presented
  <1> DEFINE state == [stage |-> "revoke", session |-> found]
  <1>3. found \in Sessions /\ session[found] # NoItem
    BY <1>1 DEF BeginLogout, Credentials, OwnerInv, SessionsExist, SignInTypeOK
  <1>4. state \in Calls /\ state.stage = "revoke" /\ state.session = found
    BY <1>3 DEF Calls
  <1>5. Become(w, state) BY <1>2
  <1> HIDE DEF state
  <1> QED BY <1>1, <1>3, <1>4, <1>5, MoveOwner DEF BeginLogout, SignInTypeOK

LEMMA RevokeSessionOwner ==
  ASSUME OwnerInv, NEW w \in Invocations, RevokeSession(w)
  PROVE  OwnerInv'
  <1> DEFINE s == call[w].session
             item == [session[s] EXCEPT !.revoked = TRUE]
  <1>1. SignInTypeOK /\ call[w].stage = "revoke" BY DEF OwnerInv, RevokeSession
  <1>2. s \in Sessions /\ session[s] # NoItem /\ session[s] \in Items
    BY <1>1, RevokeTyped, ItemTyped DEF OwnerInv, SessionsExist
  <1>3. /\ item \in Items
        /\ item.user = session[s].user /\ item.identity = session[s].identity
    BY <1>2 DEF Items
  <1>4. item # NoItem BY <1>3, NullAssumption DEF Items, NoItem
  <1>5. /\ Become(w, Idle)
        /\ session' = [session EXCEPT ![s] = item]
        /\ UNCHANGED <<user, social, vouched, joined, raced, index, handed>>
    BY DEF RevokeSession
  <1> HIDE DEF item
  <1>6. /\ call' \in [Invocations -> Calls] /\ call'[w] = Idle
        /\ \A v \in Invocations \ {w} : call'[v] = call[v]
    BY <1>1, <1>5, IdleTyped, BecomeCall
  <1>7. /\ session' \in [Sessions -> {NoItem} \cup Items]
        /\ session'[s] = item
        /\ \A t \in Sessions \ {s} : session'[t] = session[t]
    BY <1>1, <1>2, <1>3, <1>5 DEF SignInTypeOK
  <1>8. SignInTypeOK' BY <1>1, <1>5, <1>6, <1>7 DEF SignInTypeOK
  <1>9. UsersExist' /\ LinksKept'
    BY <1>5, <1>6, StageOfIdle DEF OwnerInv, UsersExist, LinksKept
  <1>10. SessionsOfOwner'
    BY <1>2, <1>3, <1>5, <1>7 DEF OwnerInv, SessionsOfOwner
  <1>11. SessionsExist'
    <2>1. ASSUME NEW v \in Invocations,
                 call'[v].stage \in {"refresh", "respond", "revoke"}
          PROVE  session'[call'[v].session] # NoItem
      BY <1>1, <1>4, <1>6, <1>7, <2>1, StageOfIdle, RefreshTyped, RevokeTyped
         DEF OwnerInv, SessionsExist
    <2> QED BY <1>4, <1>5, <1>7, <2>1 DEF OwnerInv, SessionsExist
  <1> QED BY <1>8, <1>9, <1>10, <1>11 DEF OwnerInv

LEMMA BeginLinkOwner ==
  ASSUME OwnerInv, NEW w \in Invocations, NEW s \in Sessions, NEW i \in Identities,
         BeginLink(w, s, i)
  PROVE  OwnerInv'
  <1> DEFINE state == Login("link", i, session[s].user)
  <1>1. SignInTypeOK BY DEF OwnerInv
  <1>2. session[s] # NoItem /\ session[s] \in Items
    BY <1>1, ItemTyped DEF BeginLink, OwnerInv, SessionsExist
  <1>3. session[s].user \in Users /\ session[s].identity \in Identities
    BY <1>2 DEF Items
  <1>4. social[session[s].identity] = session[s].user
    BY <1>2 DEF OwnerInv, SessionsOfOwner
  <1>5. user[session[s].user] # NoRow
    BY <1>3, <1>4, NullAssumption DEF OwnerInv, UsersExist
  <1>6. state \in Calls /\ state.stage = "link" /\ state.user = session[s].user
    BY <1>3 DEF Login, Calls
  <1>7. Become(w, state) BY DEF BeginLink, BearerUser
  <1> HIDE DEF state
  <1> QED BY <1>1, <1>5, <1>6, <1>7, MoveOwner DEF BeginLink, SignInTypeOK

LEMMA PropagateOwner ==
  ASSUME OwnerInv, NEW s \in Sessions, Propagate(s)
  PROVE  OwnerInv'
  <1>1. SignInTypeOK BY DEF OwnerInv
  <1>2. /\ index' \in [Sessions -> {NoItem} \cup Items]
        /\ \A t \in Sessions : index'[t] \in {index[t], session[t]}
        /\ UNCHANGED <<user, social, vouched, joined, raced, session, handed, call>>
    BY <1>1 DEF Propagate, SignInTypeOK
  <1>3. SignInTypeOK' BY <1>1, <1>2 DEF SignInTypeOK
  <1>4. UsersExist' /\ LinksKept' BY <1>2 DEF OwnerInv, UsersExist, LinksKept
  <1>5. SessionsExist' /\ SessionsOfOwner'
    BY <1>2 DEF OwnerInv, SessionsExist, SessionsOfOwner
  <1> QED BY <1>3, <1>4, <1>5 DEF OwnerInv

LEMMA SuspendOwner ==
  ASSUME OwnerInv, NEW u \in Users, Suspend(u)
  PROVE  OwnerInv'
  <1> DEFINE row == [user[u] EXCEPT !.status = "suspended"]
  <1>1. SignInTypeOK BY DEF OwnerInv
  <1>2. user[u] \in UserRows BY <1>1, RowTyped DEF Suspend
  <1>3. row \in UserRows /\ row # NoRow BY <1>2 DEF UserRows, NoRow
  <1>4. /\ user' = [user EXCEPT ![u] = row]
        /\ UNCHANGED <<social, vouched, joined, raced, session, index, handed, call>>
    BY DEF Suspend
  <1> HIDE DEF row
  <1>5. /\ user' \in [Users -> {NoRow} \cup UserRows]
        /\ \A v \in Users : user[v] # NoRow => user'[v] # NoRow
    BY <1>1, <1>3, <1>4 DEF SignInTypeOK
  <1>6. SignInTypeOK' BY <1>1, <1>4, <1>5 DEF SignInTypeOK
  <1>7. UsersExist'
    <2>1. ASSUME NEW j \in Identities, social[j] # None
          PROVE  user'[social[j]] # NoRow
      BY <1>1, <1>5, <2>1 DEF OwnerInv, UsersExist, SignInTypeOK
    <2>2. ASSUME NEW v \in Invocations, call[v].stage \in {"connect", "link"}
          PROVE  user'[call[v].user] # NoRow
      BY <1>1, <1>5, <2>2, LoginTyped DEF OwnerInv, UsersExist
    <2> QED BY <1>4, <2>1, <2>2 DEF UsersExist
  <1>8. LinksKept' /\ SessionsExist' /\ SessionsOfOwner'
    BY <1>4 DEF OwnerInv, LinksKept, SessionsExist, SessionsOfOwner
  <1> QED BY <1>6, <1>7, <1>8 DEF OwnerInv

LEMMA StepOwner ==
  ASSUME OwnerInv, [Next]_vars
  PROVE  OwnerInv'
  <1>1. CASE UNCHANGED vars
    BY <1>1 DEF vars, OwnerInv, SignInTypeOK, UsersExist, LinksKept, SessionsExist,
            SessionsOfOwner
  <1>2. ASSUME NEW w \in Invocations, Request(w) PROVE OwnerInv'
    BY <1>2, BeginLoginOwner, BeginRefreshOwner, BeginLogoutOwner, BeginLinkOwner
       DEF Request
  <1>3. ASSUME NEW w \in Invocations, Continue(w) PROVE OwnerInv'
    <2>1. DuplicateSocialAccount(w) => OwnerInv'
      BY IdleOwner DEF DuplicateSocialAccount
    <2> QED BY <1>3, <2>1, GetKnownUserOwner, LookUpEmailOwner, CreateUserOwner,
            CreateSocialAccountOwner, CreateSessionOwner, RespondOwner,
            GetSessionUserOwner, RevokeSessionOwner
            DEF Continue
  <1>4. ASSUME NEW w \in Invocations, Die(w) PROVE OwnerInv'
    BY <1>4, IdleOwner DEF Die
  <1> QED BY <1>1, <1>2, <1>3, <1>4, PropagateOwner, SuspendOwner DEF Next

(* SignInTypeOK: the tables, the index and what each invocation holds stay  *)
(* of their types.                                                          *)
THEOREM SignInTyped == Spec => []SignInTypeOK
  <1>1. Spec => []OwnerInv BY InitOwner, StepOwner, PTL DEF Spec
  <1> QED BY <1>1, PTL DEF OwnerInv

(* SessionsOfOwner: the holder of a session's tokens acts as the user that  *)
(* social_accounts names for the identity that logged in, at all times.     *)
THEOREM SessionsOwned == Spec => []SessionsOfOwner
  <1>1. Spec => []OwnerInv BY InitOwner, StepOwner, PTL DEF Spec
  <1> QED BY <1>1, PTL DEF OwnerInv
-----------------------------------------------------------------------------
(* What changes the item of a session, its copy in the index, and who is in *)
(* the middle of a refresh of it.                                           *)
LEMMA StepLoggedOut ==
  ASSUME SignInTypeOK, [Next]_vars, NEW s \in Sessions, LoggedOut(s)
  PROVE  LoggedOut(s)'
  <1> DEFINE Quiet == \A w \in Invocations :
               call[w].stage = "refresh" => call[w].session # s
  <1>1. /\ session[s] # NoItem /\ session[s].revoked /\ index[s] = session[s]
        /\ ~FoundActive(s) /\ Quiet
    BY DEF LoggedOut, FoundActive
  <1>2. SUFFICES session'[s] = session[s] /\ index'[s] = index[s] /\ Quiet'
    BY <1>1 DEF LoggedOut
  <1>3. CASE UNCHANGED vars BY <1>1, <1>3 DEF vars
  <1>4. ASSUME NEW w \in Invocations, NEW state \in Calls, Become(w, state),
               state.stage = "refresh" => state.session # s
        PROVE  Quiet'
    BY <1>1, <1>4, BecomeCall
  <1>5. ASSUME NEW w \in Invocations, Become(w, Idle) PROVE Quiet'
    BY <1>4, <1>5, IdleTyped, StageOfIdle
  <1>6. ASSUME NEW w \in Invocations, Request(w)
        PROVE  session'[s] = session[s] /\ index'[s] = index[s] /\ Quiet'
    <2>1. session' = session /\ index' = index
      BY <1>6 DEF Request, BeginLogin, BeginRefresh, BeginLogout, BeginLink
    <2>2. PICK state : Become(w, state) /\ (state.stage = "refresh" => state.session # s)
      <3>1. CASE \E i \in Identities : \E verified \in Claims[i] : BeginLogin(w, i, verified)
        BY <3>1 DEF BeginLogin, Login, FirstLogin
      <3>2. CASE \E t \in Sessions : BeginRefresh(w, t)
        BY <1>1, <3>2 DEF BeginRefresh
      <3>3. CASE \E t, v \in Sessions \cup {None} : BeginLogout(w, t, v)
        BY <3>3 DEF BeginLogout
      <3>4. CASE \E t \in Sessions, i \in Identities : BeginLink(w, t, i)
        BY <3>4 DEF BeginLink, Login
      <3> QED BY <1>6, <3>1, <3>2, <3>3, <3>4 DEF Request
    <2>3. Quiet' BY <1>1, <2>2 DEF Become, SignInTypeOK
    <2> QED BY <2>1, <2>3
  <1>7. ASSUME NEW w \in Invocations, Continue(w)
        PROVE  session'[s] = session[s] /\ index'[s] = index[s] /\ Quiet'
    <2>1. session'[s] = session[s] /\ index' = index
      <3>1. CASE RevokeSession(w)
        <4>1. call[w].session \in Sessions BY <3>1, RevokeTyped DEF RevokeSession
        <4>2. CASE call[w].session = s
          <5>1. session[s] \in Items BY <1>1, ItemTyped
          <5>2. [session[s] EXCEPT !.revoked = TRUE] = session[s]
            BY <1>1, <5>1 DEF Items
          <5> QED BY <3>1, <4>2, <5>2 DEF RevokeSession, SignInTypeOK
        <4>3. CASE call[w].session # s
          BY <3>1, <4>1, <4>3 DEF RevokeSession, SignInTypeOK
        <4> QED BY <4>2, <4>3
      <3>2. CASE \E t \in Sessions : CreateSession(w, t)
        BY <1>1, <3>2 DEF CreateSession, SignInTypeOK
      <3>3. CASE UNCHANGED <<session, index>> BY <3>3
      <3> QED BY <1>7, <3>1, <3>2, <3>3
              DEF Continue, GetKnownUser, LookUpEmail, CreateUser, CreateSocialAccount,
                  DuplicateSocialAccount, Respond, GetSessionUser
    <2>2. CASE GetSessionUser(w)
      <3>1. call[w].stage = "refresh" BY <2>2 DEF GetSessionUser
      <3>2. PICK state : Become(w, state) /\ state.stage # "refresh"
        BY <2>2, <3>1, RefreshCallTyped, StageOfIdle DEF GetSessionUser
      <3>3. Quiet' BY <1>1, <3>2 DEF Become, SignInTypeOK
      <3> QED BY <2>1, <3>3
    <2>3. CASE ~GetSessionUser(w)
      <3>1. PICK state : Become(w, state) /\ state.stage # "refresh"
        <4>1. CASE GetKnownUser(w)
          <5>1. \/ Become(w, Login("session", call[w].identity, call[w].user))
                \/ Become(w, Idle)
            BY <4>1 DEF GetKnownUser
          <5>2. Login("session", call[w].identity, call[w].user).stage # "refresh"
            BY DEF Login
          <5> QED BY <5>1, <5>2, StageOfIdle
        <4>2. CASE LookUpEmail(w)
          <5> DEFINE i == call[w].identity
                     email == call[w].email
          <5>1. \/ \E u \in Users : Become(w, Login("connect", i, u))
                \/ Become(w, FirstLogin("create", i, email))
            BY <4>2 DEF LookUpEmail, FindByEmail
          <5>2. FirstLogin("create", i, email).stage # "refresh"
            BY DEF FirstLogin
          <5>3. \A u \in Users : Login("connect", i, u).stage # "refresh"
            BY DEF Login
          <5> HIDE DEF i, email
          <5> QED BY <5>1, <5>2, <5>3
        <4>3. CASE \E u \in Users : CreateUser(w, u)
          BY <4>3 DEF CreateUser, Login
        <4>4. CASE CreateSocialAccount(w)
          <5>1. \/ Become(w, Login("session", call[w].identity, call[w].user))
                \/ Become(w, Idle)
            BY <4>4 DEF CreateSocialAccount
          <5>2. Login("session", call[w].identity, call[w].user).stage # "refresh"
            BY DEF Login
          <5> QED BY <5>1, <5>2, StageOfIdle
        <4>5. CASE \E t \in Sessions : CreateSession(w, t)
          BY <4>5 DEF CreateSession
        <4>6. CASE DuplicateSocialAccount(w) \/ Respond(w) \/ RevokeSession(w)
          BY <4>6, StageOfIdle DEF DuplicateSocialAccount, Respond, RevokeSession
        <4> QED BY <1>7, <2>3, <4>1, <4>2, <4>3, <4>4, <4>5, <4>6 DEF Continue
      <3>2. Quiet' BY <1>1, <3>1 DEF Become, SignInTypeOK
      <3> QED BY <2>1, <3>2
    <2> QED BY <2>2, <2>3
  <1>8. ASSUME NEW w \in Invocations, Die(w)
        PROVE  session'[s] = session[s] /\ index'[s] = index[s] /\ Quiet'
    BY <1>5, <1>8 DEF Die
  <1>9. ASSUME NEW t \in Sessions, Propagate(t)
        PROVE  session'[s] = session[s] /\ index'[s] = index[s] /\ Quiet'
    BY <1>1, <1>9 DEF Propagate, SignInTypeOK
  <1>10. ASSUME NEW u \in Users, Suspend(u)
         PROVE  session'[s] = session[s] /\ index'[s] = index[s] /\ Quiet'
    BY <1>1, <1>10 DEF Suspend
  <1> QED BY <1>1, <1>3, <1>6, <1>7, <1>8, <1>9, <1>10 DEF Next

(* LogoutLasts: once the revocation has reached the index and the refreshes *)
(* that missed it have ended, the refresh token is dead for good.           *)
THEOREM LogoutIsForGood == Spec => LogoutLasts
  <1>1. OwnerInv /\ [Next]_vars =>
          [\A s \in Sessions : LoggedOut(s) => LoggedOut(s)']_vars
    BY StepLoggedOut DEF OwnerInv
  <1>2. Spec => []OwnerInv BY InitOwner, StepOwner, PTL DEF Spec
  <1> QED BY <1>1, <1>2, PTL DEF Spec, LogoutLasts
-----------------------------------------------------------------------------
(* Which step brings an invocation where it is. *)
LEMMA WhoMoves ==
  ASSUME SignInTypeOK, [Next]_vars, NEW v \in Invocations, call'[v] # call[v]
  PROVE  Request(v) \/ Continue(v) \/ call'[v] = Idle
  <1>1. ASSUME NEW w \in Invocations, w # v, NEW state, Become(w, state) PROVE FALSE
    BY <1>1 DEF Become, SignInTypeOK
  <1>2. ASSUME NEW w \in Invocations, w # v, Request(w) PROVE FALSE
    <2>1. \E state : Become(w, state)
      BY <1>2 DEF Request, BeginLogin, BeginRefresh, BeginLogout, BeginLink
    <2> QED BY <1>1, <1>2, <2>1
  <1>3. ASSUME NEW w \in Invocations, w # v, Continue(w) PROVE FALSE
    <2>1. \E state : Become(w, state)
      BY <1>3 DEF Continue, GetKnownUser, LookUpEmail, CreateUser, CreateSocialAccount,
         DuplicateSocialAccount, CreateSession, Respond, GetSessionUser, RevokeSession
    <2> QED BY <1>1, <1>3, <2>1
  <1>4. ASSUME NEW w \in Invocations, Die(w) PROVE w = v /\ call'[v] = Idle
    BY <1>1, <1>4 DEF Die, Become, SignInTypeOK
  <1>5. ~UNCHANGED call BY ONLY call'[v] # call[v]
  <1>6. \A s \in Sessions : ~Propagate(s) BY <1>5 DEF Propagate
  <1>7. \A u \in Users : ~Suspend(u) BY <1>5 DEF Suspend
  <1> QED BY <1>2, <1>3, <1>4, <1>5, <1>6, <1>7 DEF Next, vars

LEMMA BecomeIs ==
  ASSUME SignInTypeOK, NEW w \in Invocations, NEW state, Become(w, state)
  PROVE  call'[w] = state
  BY DEF Become, SignInTypeOK

LEMMA RequestStage ==
  ASSUME SignInTypeOK, NEW v \in Invocations, Request(v)
  PROVE  /\ call'[v].stage \notin {"create", "connect", "session", "respond"}
         /\ call'[v].stage = "by_email" =>
              \E i \in Identities : \E verified \in Claims[i] :
                /\ BeginLogin(v, i, verified)
                /\ call'[v] = FirstLogin("by_email", i, VerifiedEmail(i, verified))
  <1>1. ASSUME NEW i \in Identities, NEW verified \in Claims[i], BeginLogin(v, i, verified)
        PROVE  \/ call'[v].stage = "known"
               \/ /\ call'[v].stage = "by_email"
                  /\ call'[v] = FirstLogin("by_email", i, VerifiedEmail(i, verified))
    <2>1. \/ call'[v] = Login("known", i, FindBySocial(i))
          \/ call'[v] = FirstLogin("by_email", i, VerifiedEmail(i, verified))
      BY <1>1, BecomeIs DEF BeginLogin
    <2>2. /\ Login("known", i, FindBySocial(i)).stage = "known"
          /\ FirstLogin("by_email", i, VerifiedEmail(i, verified)).stage = "by_email"
      BY DEF Login, FirstLogin
    <2> QED BY <2>1, <2>2
  <1>2. ASSUME NEW s \in Sessions, BeginRefresh(v, s) PROVE call'[v].stage = "refresh"
    BY <1>2, BecomeIs DEF BeginRefresh
  <1>3. ASSUME NEW s \in Sessions \cup {None}, NEW t \in Sessions \cup {None},
               BeginLogout(v, s, t)
        PROVE  call'[v].stage = "revoke"
    BY <1>3, BecomeIs DEF BeginLogout
  <1>4. ASSUME NEW s \in Sessions, NEW i \in Identities, BeginLink(v, s, i)
        PROVE  call'[v].stage = "link"
    BY <1>4, BecomeIs DEF BeginLink, Login
  <1> QED BY <1>1, <1>2, <1>3, <1>4 DEF Request

LEMMA ContinueStage ==
  ASSUME SignInTypeOK, NEW v \in Invocations, Continue(v)
  PROVE  /\ call'[v].stage # "by_email"
         /\ call'[v].stage = "create" =>
              /\ LookUpEmail(v)
              /\ call'[v] = FirstLogin("create", call[v].identity, call[v].email)
         /\ call'[v].stage = "connect" =>
              \/ /\ LookUpEmail(v)
                 /\ \E u \in FindByEmail(call[v].email) :
                      call'[v] = Login("connect", call[v].identity, u)
              \/ \E u \in Users : CreateUser(v, u)
                    /\ call'[v] = Login("connect", call[v].identity, u)
         /\ call'[v].stage = "session" =>
              /\ \/ GetKnownUser(v) /\ Active(call[v].user)
                 \/ call[v].stage = "connect"
              /\ call'[v].user = call[v].user
         /\ call'[v].stage = "respond" =>
              /\ Active(call[v].user) \/ call[v].stage = "session"
              /\ call'[v].user = call[v].user
  <1> DEFINE i == call[v].identity
             email == call[v].email
             known == Login("session", i, call[v].user)
  <1>0. known.stage = "session" /\ known.user = call[v].user BY DEF Login
  <1>1. CASE GetKnownUser(v)
    <2>1. \/ call'[v] = known /\ Active(call[v].user)
          \/ call'[v] = Idle
      BY <1>1, BecomeIs DEF GetKnownUser
    <2> HIDE DEF known
    <2> QED BY <1>0, <1>1, <2>1, StageOfIdle
  <1>2. CASE LookUpEmail(v)
    <2>1. \/ \E u \in FindByEmail(email) : call'[v] = Login("connect", i, u)
          \/ call'[v] = FirstLogin("create", i, email)
      BY <1>2, BecomeIs DEF LookUpEmail
    <2>2. FirstLogin("create", i, email).stage = "create" BY DEF FirstLogin
    <2>3. \A u \in FindByEmail(email) : Login("connect", i, u).stage = "connect"
      BY DEF Login
    <2> QED BY <1>2, <2>1, <2>2, <2>3
  <1>3. ASSUME NEW u \in Users, CreateUser(v, u)
        PROVE  call'[v] = Login("connect", i, u) /\ call'[v].stage = "connect"
    BY <1>3, BecomeIs DEF CreateUser, Login
  <1>4. CASE CreateSocialAccount(v)
    <2>1. \/ call[v].stage = "connect" /\ call'[v] = known
          \/ call'[v] = Idle
      BY <1>4, BecomeIs DEF CreateSocialAccount
    <2> HIDE DEF known
    <2> QED BY <1>0, <1>4, <2>1, StageOfIdle
  <1>5. ASSUME NEW s \in Sessions, CreateSession(v, s)
        PROVE  /\ call[v].stage = "session"
               /\ call'[v].stage = "respond" /\ call'[v].user = call[v].user
    BY <1>5, BecomeIs DEF CreateSession
  <1>6. CASE GetSessionUser(v)
    <2>1. call[v].stage = "refresh" BY <1>6 DEF GetSessionUser
    <2>2. \/ /\ Active(call[v].user)
             /\ call'[v] = [stage |-> "respond", user |-> call[v].user,
                            session |-> call[v].session]
          \/ call'[v] = Idle
      BY <1>6, <2>1, BecomeIs, RefreshCallTyped DEF GetSessionUser
    <2> QED BY <2>2, StageOfIdle
  <1>7. CASE DuplicateSocialAccount(v) \/ Respond(v) \/ RevokeSession(v)
    BY <1>7, BecomeIs, StageOfIdle DEF DuplicateSocialAccount, Respond, RevokeSession
  <1> QED BY <1>1, <1>2, <1>3, <1>4, <1>5, <1>6, <1>7 DEF Continue

(* A row of users keeps its address and its first identity, and becomes     *)
(* active only when it is inserted.                                         *)
LEMMA StepRows ==
  ASSUME SignInTypeOK, [Next]_vars
  PROVE  /\ vouched \subseteq vouched' /\ joined \subseteq joined'
         /\ raced \subseteq raced'
         /\ \A u \in Users : user[u] # NoRow =>
              /\ user'[u] # NoRow
              /\ user'[u].first = user[u].first /\ user'[u].email = user[u].email
              /\ Active(u)' => Active(u)
         /\ \A u \in Users : user'[u] # NoRow /\ user[u] = NoRow =>
              \E w \in Invocations : CreateUser(w, u)
  <1> DEFINE P == /\ vouched \subseteq vouched' /\ joined \subseteq joined'
                  /\ raced \subseteq raced'
             Q == \A u \in Users : user[u] # NoRow =>
                    /\ user'[u] # NoRow
                    /\ user'[u].first = user[u].first /\ user'[u].email = user[u].email
                    /\ Active(u)' => Active(u)
             R == \A u \in Users : user'[u] # NoRow /\ user[u] = NoRow =>
                    \E w \in Invocations : CreateUser(w, u)
  <1>1. ASSUME UNCHANGED user PROVE Q /\ R BY <1>1 DEF Active
  <1>2. CASE UNCHANGED vars BY <1>1, <1>2 DEF vars
  <1>3. ASSUME NEW w \in Invocations, Request(w) PROVE P /\ Q /\ R
    BY <1>1, <1>3 DEF Request, BeginLogin, BeginRefresh, BeginLogout, BeginLink
  <1>4. ASSUME NEW w \in Invocations, NEW u \in Users, CreateUser(w, u)
        PROVE  P /\ Q /\ R
    <2>1. /\ user[u] = NoRow /\ \A v \in Users \ {u} : user'[v] = user[v]
          /\ UNCHANGED <<vouched, joined, raced>>
      BY <1>4 DEF CreateUser, SignInTypeOK
    <2>2. P BY <2>1
    <2>3. Q BY <2>1 DEF Active
    <2>4. R BY <1>4, <2>1
    <2> QED BY <2>2, <2>3, <2>4
  <1>5. ASSUME NEW w \in Invocations, Continue(w) PROVE P /\ Q /\ R
    BY <1>1, <1>4, <1>5
       DEF Continue, GetKnownUser, LookUpEmail, CreateSocialAccount,
           DuplicateSocialAccount, CreateSession, Respond, GetSessionUser, RevokeSession
  <1>6. ASSUME NEW w \in Invocations, Die(w) PROVE P /\ Q /\ R
    BY <1>1, <1>6 DEF Die
  <1>7. ASSUME NEW s \in Sessions, Propagate(s) PROVE P /\ Q /\ R
    BY <1>1, <1>7 DEF Propagate
  <1>8. ASSUME NEW u \in Users, Suspend(u) PROVE P /\ Q /\ R
    <2>1. user[u] \in UserRows /\ Active(u) BY <1>8, RowTyped DEF Suspend
    <2>2. user' = [user EXCEPT ![u] = [user[u] EXCEPT !.status = "suspended"]]
          /\ UNCHANGED <<vouched, joined, raced>>
      BY <1>8 DEF Suspend
    <2>3. /\ user'[u] \in UserRows
          /\ user'[u].first = user[u].first /\ user'[u].email = user[u].email
          /\ \A v \in Users \ {u} : user'[v] = user[v]
      BY <2>1, <2>2 DEF SignInTypeOK, UserRows
    <2>4. user'[u] # NoRow BY <2>3 DEF UserRows, NoRow
    <2>5. P BY <2>2
    <2>6. Q BY <2>1, <2>3, <2>4 DEF Active
    <2>7. R BY <2>1, <2>3 DEF UserRows, NoRow
    <2> QED BY <2>5, <2>6, <2>7
  <1> QED BY <1>2, <1>3, <1>5, <1>6, <1>7, <1>8 DEF Next

LEMMA StepShutOut ==
  ASSUME SignInTypeOK, [Next]_vars, NEW u \in Users, ShutOut(u)
  PROVE  ShutOut(u)'
  <1>1. user'[u] # NoRow /\ ~Active(u)' BY StepRows DEF ShutOut
  <1>2. ASSUME NEW w \in Invocations, call'[w].user = u,
               call'[w].stage \in {"connect", "session", "respond"}
        PROVE  FALSE
    <2>1. call'[w] # call[w] BY <1>2 DEF ShutOut, Entering
    <2>2. Continue(w) BY <1>2, <2>1, WhoMoves, RequestStage, StageOfIdle
    <2>3. CASE call'[w].stage = "connect"
      <3>1. \A i, v : Login("connect", i, v).user = v BY DEF Login
      <3>2. CASE \E v \in FindByEmail(call[w].email) :
                   call'[w] = Login("connect", call[w].identity, v)
        BY <1>2, <3>1, <3>2 DEF FindByEmail, ShutOut
      <3>3. CASE \E v \in Users : CreateUser(w, v)
                   /\ call'[w] = Login("connect", call[w].identity, v)
        BY <1>2, <3>1, <3>3 DEF CreateUser, ShutOut
      <3> QED BY <2>2, <2>3, <3>2, <3>3, ContinueStage
    <2>4. CASE call'[w].stage = "session"
      BY <1>2, <2>2, <2>4, ContinueStage DEF ShutOut, Entering
    <2>5. CASE call'[w].stage = "respond"
      BY <1>2, <2>2, <2>5, ContinueStage DEF ShutOut, Entering
    <2> QED BY <1>2, <2>3, <2>4, <2>5
  <1> QED BY <1>1, <1>2 DEF ShutOut, Entering

(* SuspensionLasts: a suspended user whom no request is about to let in is  *)
(* never let in again, by login, refresh or a freshly created row.          *)
THEOREM SuspensionIsForGood == Spec => SuspensionLasts
  <1>1. OwnerInv /\ [Next]_vars =>
          [\A u \in Users : ShutOut(u) => ShutOut(u)']_vars
    BY StepShutOut DEF OwnerInv
  <1>2. Spec => []OwnerInv BY InitOwner, StepOwner, PTL DEF Spec
  <1> QED BY <1>1, <1>2, PTL DEF Spec, SuspensionLasts
-----------------------------------------------------------------------------
(* Addresses.  An address is only ever compared after its provider vouched  *)
(* for it, in a call and in the row of the user it led to.                  *)
Told(i, email) == email = None \/ (i \in vouched /\ email = Address[i])
Proved(i, u) ==
    \/ user[u].first = i
    \/ {i, user[u].first} \subseteq vouched /\ Address[user[u].first] = Address[i]
ClaimsTold ==
    /\ \A w \in Invocations : call[w].stage \in {"by_email", "create"} =>
         Told(call[w].identity, call[w].email)
    /\ \A u \in Users : user[u] # NoRow => Told(user[u].first, user[u].email)
    /\ \A w \in Invocations : call[w].stage = "connect" =>
         Proved(call[w].identity, call[w].user)
ProofInv == OwnerInv /\ ClaimsTold /\ JoinedByProof

LEMMA InitProof == Init => ProofInv
  BY InitOwner, StageOfIdle DEF Init, ProofInv, ClaimsTold, JoinedByProof, NoRow

LEMMA StepClaims ==
  ASSUME ProofInv, [Next]_vars
  PROVE  ClaimsTold'
  <1>1. SignInTypeOK /\ UsersExist /\ ClaimsTold BY DEF ProofInv, OwnerInv
  <1>2. ASSUME NEW w \in Invocations, call'[w].stage \in {"by_email", "create"}
        PROVE  Told(call[w].identity, call[w].email)'
    <2>1. CASE call'[w] = call[w]
      <3>1. Told(call[w].identity, call[w].email) BY <1>1, <1>2, <2>1 DEF ClaimsTold
      <3>2. vouched \subseteq vouched' BY <1>1, StepRows
      <3> QED BY <2>1, <3>1, <3>2 DEF Told
    <2>2. CASE call'[w] # call[w] /\ call'[w].stage = "by_email"
      <3>1. PICK i \in Identities : \E verified \in Claims[i] :
              /\ BeginLogin(w, i, verified)
              /\ call'[w] = FirstLogin("by_email", i, VerifiedEmail(i, verified))
        BY <1>1, <2>2, WhoMoves, RequestStage, ContinueStage, StageOfIdle
      <3>2. PICK verified \in Claims[i] :
              /\ BeginLogin(w, i, verified)
              /\ call'[w] = FirstLogin("by_email", i, VerifiedEmail(i, verified))
        BY <3>1
      <3>3. call'[w].identity = i /\ call'[w].email = VerifiedEmail(i, verified)
        BY <3>2 DEF FirstLogin
      <3>4. verified => i \in vouched' BY <3>2 DEF BeginLogin
      <3> QED BY <3>3, <3>4 DEF Told, VerifiedEmail
    <2>3. CASE call'[w] # call[w] /\ call'[w].stage = "create"
      <3>1. /\ LookUpEmail(w)
            /\ call'[w] = FirstLogin("create", call[w].identity, call[w].email)
        BY <1>1, <2>3, WhoMoves, RequestStage, ContinueStage, StageOfIdle
      <3>2. /\ call'[w].identity = call[w].identity /\ call'[w].email = call[w].email
            /\ call[w].stage = "by_email"
        BY <3>1 DEF FirstLogin, LookUpEmail
      <3>3. Told(call[w].identity, call[w].email) BY <1>1, <3>2 DEF ClaimsTold
      <3>4. vouched \subseteq vouched' BY <1>1, StepRows
      <3> QED BY <3>2, <3>3, <3>4 DEF Told
    <2> QED BY <1>2, <2>1, <2>2, <2>3
  <1>3. ASSUME NEW u \in Users, user'[u] # NoRow
        PROVE  Told(user[u].first, user[u].email)'
    <2>1. CASE user[u] # NoRow
      BY <1>1, <2>1, StepRows DEF ClaimsTold, Told
    <2>2. CASE user[u] = NoRow
      <3>1. PICK w \in Invocations : CreateUser(w, u) BY <1>1, <1>3, <2>2, StepRows
      <3>2. user'[u].first = call[w].identity /\ user'[u].email = call[w].email
        BY <1>1, <3>1 DEF CreateUser, SignInTypeOK
      <3>3. Told(call[w].identity, call[w].email) BY <1>1, <3>1 DEF CreateUser, ClaimsTold
      <3>4. vouched \subseteq vouched' BY <1>1, StepRows
      <3> QED BY <3>2, <3>3, <3>4 DEF Told
    <2> QED BY <2>1, <2>2
  <1>4. ASSUME NEW w \in Invocations, call'[w].stage = "connect"
        PROVE  Proved(call[w].identity, call[w].user)'
    <2>1. CASE call'[w] = call[w]
      <3>1. call[w].user \in Users /\ user[call[w].user] # NoRow
        BY <1>1, <1>4, <2>1, LoginTyped DEF UsersExist
      <3>2. Proved(call[w].identity, call[w].user) BY <1>1, <1>4, <2>1 DEF ClaimsTold
      <3>3. /\ user'[call[w].user].first = user[call[w].user].first
            /\ vouched \subseteq vouched'
        BY <1>1, <3>1, StepRows
      <3> QED BY <2>1, <3>2, <3>3 DEF Proved
    <2>2. CASE call'[w] # call[w]
      <3> DEFINE i == call[w].identity
                 email == call[w].email
      <3>1. Continue(w) BY <1>1, <1>4, <2>2, WhoMoves, RequestStage, StageOfIdle
      <3>2. \A v : /\ Login("connect", i, v).identity = i
                   /\ Login("connect", i, v).user = v
        BY DEF Login
      <3>3. ASSUME LookUpEmail(w), NEW u \in FindByEmail(email),
                   call'[w] = Login("connect", i, u)
            PROVE  Proved(call[w].identity, call[w].user)'
        <4>1. /\ u \in Users /\ user[u] # NoRow /\ user[u].email = email /\ email # None
              /\ call[w].stage = "by_email"
          BY <1>1, <3>3, RowTyped DEF FindByEmail, LookUpEmail
        <4>2. Told(i, email) /\ Told(user[u].first, user[u].email)
          BY <1>1, <4>1 DEF ClaimsTold
        <4>3. {i, user[u].first} \subseteq vouched /\ Address[user[u].first] = Address[i]
          BY <4>1, <4>2 DEF Told
        <4>4. user'[u].first = user[u].first /\ vouched \subseteq vouched'
          BY <1>1, <4>1, StepRows
        <4>5. call'[w].identity = i /\ call'[w].user = u BY <3>2, <3>3
        <4> QED BY <4>3, <4>4, <4>5 DEF Proved
      <3>4. ASSUME NEW u \in Users, CreateUser(w, u), call'[w] = Login("connect", i, u)
            PROVE  Proved(call[w].identity, call[w].user)'
        <4>1. user'[u].first = i BY <1>1, <3>4 DEF CreateUser, SignInTypeOK
        <4>2. call'[w].identity = i /\ call'[w].user = u BY <3>2, <3>4
        <4> QED BY <4>1, <4>2 DEF Proved
      <3> QED BY <1>1, <1>4, <3>1, <3>3, <3>4, ContinueStage
    <2> QED BY <2>1, <2>2
  <1> QED BY <1>2, <1>3, <1>4 DEF ClaimsTold

(* social_accounts changes by CreateSocialAccount only. *)
LEMMA StepSocial ==
  ASSUME SignInTypeOK, [Next]_vars
  PROVE  \/ social' = social
         \/ \E w \in Invocations : CreateSocialAccount(w)
  BY DEF Next, vars, Request, Continue, Die, Propagate, Suspend, BeginLogin, BeginRefresh,
     BeginLogout, BeginLink, GetKnownUser, LookUpEmail, CreateUser,
     DuplicateSocialAccount, CreateSession, Respond, GetSessionUser, RevokeSession

LEMMA StepJoined ==
  ASSUME ProofInv, [Next]_vars
  PROVE  JoinedByProof'
  <1> DEFINE J(i) == \/ Proved(i, social[i])
                    \/ <<social[i], i>> \in joined
  <1>1. SignInTypeOK /\ UsersExist /\ ClaimsTold BY DEF ProofInv, OwnerInv
  <1>2. ASSUME NEW i \in Identities, social'[i] = social[i], social[i] # None
        PROVE  J(i)'
    <2>1. social[i] \in Users /\ user[social[i]] # NoRow
      BY <1>1, <1>2 DEF SignInTypeOK, UsersExist
    <2>2. J(i) BY <1>2 DEF ProofInv, JoinedByProof, Proved
    <2>3. /\ user'[social[i]].first = user[social[i]].first
          /\ vouched \subseteq vouched' /\ joined \subseteq joined'
      BY <1>1, <2>1, StepRows
    <2> QED BY <1>2, <2>2, <2>3 DEF Proved
  <1>3. ASSUME NEW w \in Invocations, CreateSocialAccount(w),
               NEW i \in Identities, social'[i] # None
        PROVE  J(i)'
    <2> DEFINE u == call[w].user
    <2>1. /\ call[w].stage \in {"connect", "link"}
          /\ call[w].identity \in Identities /\ u \in Users
          /\ social' = [social EXCEPT ![call[w].identity] = u]
      BY <1>1, <1>3, LoginTyped DEF CreateSocialAccount
    <2>2. CASE i # call[w].identity
      BY <1>1, <1>2, <1>3, <2>1, <2>2 DEF SignInTypeOK
    <2>3. CASE i = call[w].identity
      <3>1. social'[i] = u BY <1>1, <2>1, <2>3 DEF SignInTypeOK
      <3>2. CASE call[w].stage = "link"
        BY <1>3, <2>3, <3>1, <3>2 DEF CreateSocialAccount
      <3>3. CASE call[w].stage = "connect"
        <4>1. user[u] # NoRow /\ Proved(i, u)
          BY <1>1, <2>3, <3>3 DEF UsersExist, ClaimsTold
        <4>2. user'[u].first = user[u].first /\ vouched \subseteq vouched'
          BY <1>1, <2>1, <4>1, StepRows
        <4> QED BY <3>1, <4>1, <4>2 DEF Proved
      <3> QED BY <2>1, <3>2, <3>3
    <2> QED BY <2>2, <2>3
  <1>4. \A i \in Identities : social'[i] # None => J(i)'
    BY <1>1, <1>2, <1>3, StepSocial
  <1> QED BY <1>4 DEF JoinedByProof, Proved

(* JoinedByProof: an identity is its first user's, or was linked on demand, *)
(* or shares an address that both providers have vouched for.               *)
THEOREM AddressesProved == Spec => []JoinedByProof
  <1>1. ProofInv /\ [Next]_vars => ProofInv'
    BY StepOwner, StepClaims, StepJoined DEF ProofInv
  <1>2. Spec => []ProofInv BY InitProof, <1>1, PTL DEF Spec
  <1> QED BY <1>2, PTL DEF ProofInv
-----------------------------------------------------------------------------
(* Who is about to make a user of an address that is not raced for is the   *)
(* only one, and no active user has the address: its look-up found neither. *)
Creating(w, email) == call[w].stage = "create" /\ call[w].email = email
CreatorsAlone ==
    \A w \in Invocations, email \in Emails \ raced :
      email # None /\ Creating(w, email) =>
        /\ FindByEmail(email) = {}
        /\ \A v \in Invocations : Creating(v, email) => v = w
EmailInv == OwnerInv /\ CreatorsAlone /\ OneUserPerEmail

LEMMA InitEmail == Init => EmailInv
  BY InitOwner, StageOfIdle
     DEF Init, EmailInv, CreatorsAlone, Creating, OneUserPerEmail, Active, NoRow

(* A look-up that finds no user lets its invocation create one, and says so *)
(* in raced if another one is at it.                                        *)
LEMMA BeginsCreating ==
  ASSUME SignInTypeOK, [Next]_vars, NEW w \in Invocations, NEW email,
         Creating(w, email)', call'[w] # call[w]
  PROVE  /\ LookUpEmail(w) /\ user' = user
         /\ FindByEmail(email) = {}
         /\ \A v \in Invocations \ {w} : call'[v] = call[v]
         /\ (\E v \in Invocations : Creating(v, email)) => email \in raced'
  <1>1. /\ LookUpEmail(w)
        /\ call'[w] = FirstLogin("create", call[w].identity, call[w].email)
    BY WhoMoves, RequestStage, ContinueStage, StageOfIdle DEF Creating
  <1>2. call[w].email = email BY <1>1 DEF FirstLogin, Creating
  <1>3. ~ \E u \in FindByEmail(email) :
            Become(w, Login("connect", call[w].identity, u))
    <2> SUFFICES ASSUME NEW u, Become(w, Login("connect", call[w].identity, u))
                 PROVE  FALSE
      OBVIOUS
    <2>1. call'[w] = Login("connect", call[w].identity, u) BY BecomeIs
    <2> QED BY <2>1 DEF Login, Creating
  <1>4. /\ FindByEmail(email) = {} /\ user' = user
        /\ Become(w, FirstLogin("create", call[w].identity, email))
        /\ raced' = IF \E v \in Invocations :
                         call[v].stage = "create" /\ call[v].email = email
                      THEN raced \cup {email} ELSE raced
    BY <1>1, <1>2, <1>3 DEF LookUpEmail
  <1>5. \A v \in Invocations \ {w} : call'[v] = call[v]
    BY <1>4 DEF Become, SignInTypeOK
  <1>6. (\E v \in Invocations : Creating(v, email)) => email \in raced'
    BY <1>4 DEF Creating
  <1> QED BY <1>1, <1>4, <1>5, <1>6

(* An active user with an address is not new, or was created with it by an  *)
(* invocation that creates no more.                                         *)
LEMMA NewUser ==
  ASSUME SignInTypeOK, [Next]_vars, NEW email, email # None,
         NEW u \in FindByEmail(email)'
  PROVE  \/ u \in FindByEmail(email)
         \/ /\ user[u] = NoRow
            /\ \E w \in Invocations :
                 /\ Creating(w, email) /\ ~Creating(w, email)'
                 /\ \A v \in Users \ {u} : user'[v] = user[v]
  <1>1. /\ u \in Users /\ Active(u)' /\ user'[u].email = email /\ user'[u] # NoRow
    BY DEF FindByEmail, Active, NoRow
  <1>2. CASE user[u] # NoRow
    BY <1>1, <1>2, StepRows DEF FindByEmail
  <1>3. CASE user[u] = NoRow
    <2>1. PICK w \in Invocations : CreateUser(w, u) BY <1>1, <1>3, StepRows
    <2>2. call'[w] = Login("connect", call[w].identity, u)
      BY <2>1, BecomeIs DEF CreateUser
    <2>3. /\ user'[u].email = call[w].email
          /\ \A v \in Users \ {u} : user'[v] = user[v]
      BY <1>1, <2>1 DEF CreateUser, SignInTypeOK
    <2>4. Creating(w, email) BY <1>1, <2>1, <2>3 DEF CreateUser, Creating
    <2>5. ~Creating(w, email)' BY <2>2 DEF Creating, Login
    <2> QED BY <1>3, <2>3, <2>4, <2>5
  <1> QED BY <1>2, <1>3

LEMMA StepCreators ==
  ASSUME SignInTypeOK, CreatorsAlone, [Next]_vars
  PROVE  CreatorsAlone'
  <1> SUFFICES ASSUME NEW w \in Invocations, NEW email \in Emails \ raced',
                      email # None, Creating(w, email)'
               PROVE  /\ FindByEmail(email)' = {}
                      /\ \A v \in Invocations : Creating(v, email)' => v = w
    BY DEF CreatorsAlone
  <1>1. email \in Emails \ raced BY StepRows
  <1>2. CASE call'[w] = call[w]
    <2>1. Creating(w, email) BY <1>2 DEF Creating
    <2>2. /\ FindByEmail(email) = {}
          /\ \A v \in Invocations : Creating(v, email) => v = w
      BY <1>1, <2>1 DEF CreatorsAlone
    <2>3. ASSUME NEW u \in FindByEmail(email)' PROVE FALSE
      BY <2>2, NewUser
    <2>4. ASSUME NEW v \in Invocations, Creating(v, email)', v # w PROVE FALSE
      <3>1. CASE call'[v] = call[v] BY <2>2, <2>4, <3>1 DEF Creating
      <3>2. CASE call'[v] # call[v] BY <2>1, <2>4, <3>2, BeginsCreating
      <3> QED BY <3>1, <3>2
    <2> QED BY <2>3, <2>4
  <1>3. CASE call'[w] # call[w]
    <2>1. /\ user' = user /\ FindByEmail(email) = {}
          /\ \A v \in Invocations \ {w} : call'[v] = call[v]
          /\ ~ \E v \in Invocations : Creating(v, email)
      BY <1>3, BeginsCreating
    <2>2. FindByEmail(email)' = {} BY <2>1 DEF FindByEmail, Active
    <2>3. ASSUME NEW v \in Invocations, Creating(v, email)', v # w PROVE FALSE
      BY <2>1, <2>3 DEF Creating
    <2> QED BY <2>2, <2>3
  <1> QED BY <1>2, <1>3

LEMMA StepOneUser ==
  ASSUME EmailInv, [Next]_vars
  PROVE  OneUserPerEmail'
  <1>1. SignInTypeOK /\ CreatorsAlone /\ OneUserPerEmail BY DEF EmailInv, OwnerInv
  <1> SUFFICES ASSUME NEW email \in Emails \ raced', email # None,
                      NEW u \in FindByEmail(email)', NEW v \in FindByEmail(email)',
                      u # v
               PROVE  FALSE
    <2>1. SignInTypeOK' BY StepOwner DEF EmailInv, OwnerInv
    <2>2. \A u \in Users : Active(u)' => user'[u].email \in Emails \cup {None}
      BY <2>1 DEF SignInTypeOK, UserRows, Active, NoRow
    <2> QED BY <2>2 DEF OneUserPerEmail, FindByEmail
  <1>2. email \in Emails \ raced BY <1>1, StepRows
  <1>3. ASSUME NEW a \in Users, NEW b \in FindByEmail(email)', a # b,
               user[a] = NoRow, NEW w \in Invocations, Creating(w, email),
               \A x \in Users \ {a} : user'[x] = user[x]
        PROVE  FALSE
    <2>1. FindByEmail(email) = {} BY <1>1, <1>2, <1>3 DEF CreatorsAlone
    <2>2. b \in FindByEmail(email) BY <1>3 DEF FindByEmail, Active
    <2> QED BY <2>1, <2>2
  <1>4. u \in Users /\ v \in Users BY DEF FindByEmail
  <1>5. CASE u \notin FindByEmail(email) BY <1>1, <1>3, <1>4, <1>5, NewUser
  <1>6. CASE v \notin FindByEmail(email) BY <1>1, <1>3, <1>4, <1>6, NewUser
  <1>7. CASE {u, v} \subseteq FindByEmail(email)
    BY <1>1, <1>2, <1>7 DEF OneUserPerEmail, FindByEmail
  <1> QED BY <1>5, <1>6, <1>7

(* OneUserPerEmail: a verified address has one active user, for any number  *)
(* of logins under way and whatever dies, unless two first logins created   *)
(* it at once.                                                              *)
THEOREM AddressesUnique == Spec => []OneUserPerEmail
  <1>1. EmailInv /\ [Next]_vars => EmailInv'
    BY StepOwner, StepCreators, StepOneUser DEF EmailInv, OwnerInv
  <1>2. Spec => []EmailInv BY InitEmail, <1>1, PTL DEF Spec
  <1> QED BY <1>2, PTL DEF EmailInv
=============================================================================
