# A TLA+ model of the Lovv backend

This directory holds TLA+ specifications of the backend under `src/`, the TLC
configurations that check them on small instances, and proofs of their main
properties for every instance. Paths below are relative to the repository's
root.

The backend is a set of stateless Lambda functions. All its state is in a MySQL
(Aurora) database, in three DynamoDB tables (sessions, authorization cache,
city catalogue) and in the tokens its users hold. Any number of invocations run
at once and each may die between two statements, so what is hard about it is
not in one function: it is what two invocations do to the same rows, and what
is left when one of them stops half way.

## 1. The system

| Component | State | Operations | Hard behaviour | What makes it correct |
|---|---|---|---|---|
| High-risk change requests (`src/admin/high_risk_repository.py`) | `admin_high_risk_change_requests`, `user_role_assignments`, `user_region_assignments`, `admin_audit_logs`; destinations and jobs of a bulk publication | create, approve, reject; break-glass bootstrap (`scripts/bootstrap_super_admin.py`) | transactions under row locks that interleave, fail, or die before or after COMMIT | decided at most once, by another than the requester; change and evidence together; somebody stays super admin |
| Authorization derivation, cache, tokens (`src/auth/user_repository.py`, `authz_cache_repository.py`, `src/shared/auth.py`, `authorization.py`) | one cache entry per user with a TTL; the unexpired access tokens | derive at login and refresh, put, invalidate, issue, expire, role check | derivation races with commits and invalidations; every cache call is best effort | authority is always accounted for, and ends after its assignment |
| Admin MFA (`src/admin/mfa_service.py`, `mfa_repository.py`) | a credential per user, a verification per session | enrol, confirm, verify, recover, re-enrol, lock out, require | single-use codes under concurrency; check then update | one code opens one session; only a proven secret is active |
| Data proposals (`src/admin/proposals_repository.py`) | `admin_data_proposals`, `admin_data_proposal_history` | create, take into review, approve, reject, promote | compare-and-swap, then the history in a statement of its own | the history is true; only approved proposals become destinations |
| Monthly destinations (`src/admin/monthly_destinations_repository.py`) | `monthly_curated_destinations` | create by promotion, schedule, publish, hide, expire, reject | read, validate and update by id without a lock, against bulk publications under one | who published and who hid is kept; every surface gets its job |
| Publish jobs (`src/admin/publish_jobs_repository.py`) | `admin_publish_jobs` | queue four per publication; start, succeed, fail, retry, cancel | four inserts of their own; transitions over stale reads | a job's times and error fit its status |
| Notices, policies (`src/admin/operations_repository.py`) | `admin_notices`, `admin_recommendation_policies` | create, publish, archive | the whole row is written back from a stale read | a publisher and a time on record are of a publication that took place |
| Metrics (`src/admin/metrics_repository.py`) | `destination_metrics_daily`: counters and a group-size flag | record an event | one upsert whose assignments see each other | flagged from `MIN_GROUP_SIZE` distinct users |
| Login and sessions (`src/auth/app.py`, `session_repository.py`, `user_repository.py`) | users, social accounts (MySQL); refresh sessions and a lagging index (DynamoDB) | login, first login, link, refresh, logout; suspension by an operator | look up, then act, over two stores | a session is its identity's; joined by proof only; logouts and suspensions last |
| Saved plans (`src/saved_plans/repository.py`, `app.py`) | plans (soft-deleted), their items, likes | save, restore, clone, share, delete, like | look up, then insert; several autocommitted statements per operation | a plan has its items; private stays private; a live plan is not overwritten |
| Recommendations (`src/recommendations/service.py`, `reaction_repository.py`) | none: reads plans, likes, users, cities | cities like those liked; popular cities of an age group | limits and ties over what the statements above left | recommendations follow the likes; no list rests on one person |
| Agent proxy and routes (`src/agentcore/app.py`, `routing.py`) | an itinerary in memory, a cached parameter | invoke the agent, enrich with routes, route request | a thread pool whose days finish in any order; chunks that share their ends; a deadline | each stop is told its own leg |
| Audit log (`src/admin/audit_logs_repository.py`) | `admin_audit_logs` | record, strict or best effort | inside or outside the business transaction | see the first row |
| Preferences, small cities, Kakao places, HTTP, logging, infrastructure | little or none | reads, single upserts | none of concurrency | not modelled, section 7 |

How they interact. A login asks the user repository for the user; that derives
the roles and regions from the assignments, through the cache, and the
scopes go into the access token. The API's authorizer verifies the token, and
each admin route checks roles in it, without the database. Only the approval of
a high-risk request changes assignments; after its COMMIT it deletes the
target's cache entry. A decision also needs a recent TOTP verification of the
session. A bulk publication changes the rows that the monthly console
changes, and queues the same jobs. A destination comes from an approved
proposal. What users save and like is what recommendations are made from.

## 2. Modules

| Module | What it is |
|---|---|
| `ChangeModel` | vocabulary without variables: payloads, the state of an assignment key, what a change does to the tables |
| `ChangeLedger` | the promise of the approval flow: indivisible decisions, no locks, no invocations |
| `HighRisk` | the approval flow as the code runs it: transactions of concurrent invocations, cut where they take locks |
| `Authz` | extends `HighRisk` with logins, the authorization cache and access tokens |
| `AdminMfa` | the second factor: enrolment, TOTP and recovery codes, lock-out, session verification |
| `ReviewBoard` | the promise of the proposal review: a board without snapshots or separate statements |
| `Curation` | proposals, their history, curated destinations and the queueing of their jobs, beside bulk publications |
| `Operations` | notices and policies, the transitions of publish jobs, the metrics of a day |
| `SignIn` | users, social accounts, refresh sessions and their index |
| `SavedPlans` | plans, items and likes, statement by statement |
| `Feeds` | extends `SavedPlans` with what the recommendations read from it: operators, no actions |
| `Routes` | one container of the agent proxy: the agent's itinerary and the threads that fetch its routes |
| `HighRiskProofs`, `AuthzProofs`, `AdminMfaProofs`, `CurationProofs`, `OperationsProofs`, `SignInProofs`, `SavedPlansProofs`, `RoutesProofs` | the theorems about the module of that name (`SavedPlansProofs` has those about `Feeds` too) |
| `MCHighRisk`, `MCAuthz`, `MCAdminMfa`, `MCCuration`, `MCOperations`, `MCSignIn`, `MCSavedPlans`, `MCRoutes` | small instances for TLC, a `.cfg` for each question |

Outside the high-risk approvals nothing is a transaction: `execute` commits each
statement. So in `Curation`, `Operations`, `SignIn` and `SavedPlans` an
invocation keeps in `call` what it has read and still has to write, each action
is one statement, and `Die` ends an invocation between two of them. A refused
request writes nothing and is no action.

### HighRisk and the code

A key `<<user, scope>>` stands for the rows of one user for one role and
organization, or region and organization. The schema's generated columns
`active_role_key` and `active_region_key` allow one active row per key, so the
key has one of four states: `none`, `permanent`, `temporary`, or `expired` (the
status column still says active, but `valid_until` has passed: such a row
grants nothing, yet blocks a new grant and can be revoked). Role and region
assignments go through twin methods that differ only in their columns and are
one operation here; the extra step of revoking a super admin is kept.

`approve` is one transaction:

| Action | Code |
|---|---|
| `LockRequest` | `SELECT ... FOR UPDATE` of the request, `_validate_decision` |
| `LockRows` | the locking reads of `_execute` and what they check: the active row of a grant, all super admin rows for the `COUNT(*)`, the row an UPDATE revokes, the destinations of a bulk publication |
| `RefuseDecision`, `RefuseChange` | the error paths; a failure audit row is written outside the transaction, if that works |
| `CommitApproval`, `CommitRejection` | all writes, `_finish`, the strict audit rows, COMMIT |
| `Invalidate` | deletion of the cache entry after COMMIT |
| `Abort` | the invocation dies or a statement fails anywhere |

InnoDB shows the writes of a transaction to nobody before COMMIT and keeps its row
locks until then. This is why they can be modelled at the commit, while the
checks stay where they are made. A deadlock that InnoDB detects inside one
statement is an `Abort`. `Expire` is the passing of `valid_until`; `Bootstrap`
is the break-glass script.

Users are any user: role and MFA checks belong to the route. `Authz` adds the
role check.

### Authz and the code

`MissCache`, `ReadRoles`, `ReadRegions`, `PutCache` and `IssueToken` are the
statements of `_with_authorization` and of the token's creation; each query runs
on its own connection, so they interleave with everything. `HitCache` issues
from the entry. `InvalidateEntry` refines `Invalidate`. A get that fails is a
miss; a put or a delete may have no effect. `CacheExpires` and
`TokenExpires` are the two TTLs (300 s and at most 15 min). `Decide` is a
decision on a high-risk request by somebody with a token that names the super
admin role.

### AdminMfa and the code

Every statement of `RdsDataAdminMfaRepository` commits by itself, so a request is
cut after each one and may die there (`Abort`):

| Action | Code |
|---|---|
| `Enroll`, `RecoveryEnroll`, then `SavePending` | the check of `enroll` or `recovery_enroll`; the upsert of `_start_enrollment`, which overwrites any row |
| `CheckTotp`, `CheckRecovery` | `get_credential`, the lock, the comparison with the code; a code that does not match leads to `RecordFailure` |
| `Consume`, `Conflict` | the conditional UPDATE (`activate`, `consume_totp_counter`, `consume_recovery_codes`), when it changes the row and when it does not |
| `RecordSession` | the upsert of the session |

A code is a record: its method, the secret it comes from, and its TOTP counter
or its place in the batch. A client may type any code that matches, or one that
does not; codes are not guessed. A TOTP code that matches but is not newer than
the row's counter is refused without a failure and changes nothing, so it is no
action. `clock` counts TOTP steps, and `FirstStep` is 2 so that the window of
one step of skew starts after `Never` (NULL). A secret is issued once
(`random_base32`) and activated once, so it also names its batch of recovery
codes. `spent` and `proven` are history: the codes accepted, and the methods
proven in each session.

### Curation and the code

`ReadProposal` and `UpdateProposal` are `transition` before and at its UPDATE,
whose `WHERE ... AND status = :from_status` is `StillAsRead`; `LoseReview` is the
409 when it matched no row; `AppendHistory` the insert that follows. `ReadSource`
and `InsertCandidate` are `promote`; the unique key of city and month refuses
(`LosePromotion`). `ReadDestination` and `UpdateDestination` are the `transition` of a
destination, which validates a status it read earlier and updates the columns of
its action by id. A publication then queues its jobs one by one (`EnqueueJob`). The
bulk publication of `HighRisk` is one step here, since its transaction has locked
its rows; a console transition that read earlier still overwrites it. `cut`
counts, per destination, the publications that died with some of their jobs queued
and others not: `JobsAccounted` lets the later surfaces be short of that many jobs and
no more.

### Operations and the code

Notices and policies differ in the names of a status and are one kind of record.
`ReadRecord` keeps the whole row, which `UpdateRecord` writes back with the stamps of
its action (`RecordAfter`). `ReadJob` keeps what `_transition_updates` uses, the
attempt count; `UpdateJob` writes the columns of the action. `RecordEvent` is the
upsert: the first event of a day inserts the row, a later one assigns the count
and then tests it (`FlagAfter`, in MySQL's order). `done` is history.

### SignIn and the code

`BeginLogin` is the look-up by identity; from there a known user is read
(`GetKnownUser`), or a new one is looked for by verified address (`LookUpEmail`),
created (`CreateUser`) and linked (`CreateSocialAccount`, or `DuplicateSocialAccount`
when the unique key refuses). `CreateSession` writes the session's item and
`Respond` hands its tokens out. `BeginRefresh` and `GetSessionUser` are a refresh,
`BeginLogout` and `RevokeSession` a logout, which finds the session by the cookie's
refresh token or by the bearer token. `BeginLink` is a link request. The look-up
by refresh token goes through a DynamoDB index that follows the table
(`Propagate`). `Suspend` is an operator's UPDATE. Both are outside `src/`. A login stands
for every provider and for the Cognito route; `handed`, `vouched`, `joined` and
`raced` are history.

### SavedPlans, Feeds and the code

A content is all that `canonical_snapshot_hash` hashes. `save` looks the plan up
four times (`BeginSave`, `FindDeletedByKey`, `FindByHash`, `FindDeletedByHash`) and
then inserts it and its items one by one (`InsertPlan`, `InsertItem`) or restores a
deleted row (`RestoreRow`, `DeleteReactions`, `ClearItems`, `InsertItem`). The two unique
keys and the key of day and order refuse rows (`DuplicateRow`, `DuplicateItem`,
`DuplicateClone`). `ReadSource`, `ReadSourceItems` and `InsertClone` are the clone,
`ReadLiked` and `SetLike` the like, `Share` and `Delete` one UPDATE each. `damaged`
remembers the plans that a death or two overlapping saves left half written,
`exposed` the contents that some public plan has shown.

`Feeds` computes, from any state of these tables, the cities `reaction_cities`
offers and the popular cities of an age group. It has no times and no names: what the
SQL orders by time is checked in every order, and where the code breaks the last ties by
the name of a city every choice is possible, so `ReactionCities` and `AgeGroupItems` are
the sets of the pages there may be (`Firsts`, from who comes `ahead` of whom).
`SignalCountry` is `_signal_country`: the country the client stated if it is `KR` or `JP`, whatever the catalogue says of the city;
else that of the id's prefix; else none, and then the plan speaks for the cities of every
country (`SpeaksFor`). A plan's city need not be in the catalogue. A city without a theme
in common scores 4 if it has a picture, and can be offered for that.

### Routes and the code

`Recommend`, `AgentAnswers` and `AgentEnds` are the request to the external agent
and its end; the key look-up decides whether routes are fetched at all.
`StartJob` hands a day to the pool; `FetchChunk` fetches the next chunk, whose
first point is the last one of the chunk before (`NextStart`); `FetchDone` joins
the chunks. `Collect` writes a finished day, whichever finishes first, leg by leg
(`LegsApplied`). `AskRoute` is the route of a client's coordinates on the main
thread. `Deadline` is the Lambda's timeout. A segment is modelled as the pair of
places it connects, so that a leg at the wrong stop shows. `skewed` remembers the
jobs to whose points the provider gave a section too few.

## 3. Runs

| Run | Question | Instance |
|---|---|---|
| `high_risk` | do interleaved, dying transactions keep `EvidenceTellsDecision`, `AssignmentsAccountedFor`, `ReflectedOnce`, `SuperAdminKept`, implement `ChangeLedger`, and always end (`TransactionsEnd`)? | 2 super admins, 2 requests, 2 invocations, 4 payloads that share rows |
| `authz` | is authority accounted for wherever it is carried, are deciders accounted super admins, and does authority end after its assignment whatever fails (`RevocationTakesEffect`)? | 1 super admin and a second one granted or refused before, 2 requests, 1 login |
| `authz_stale` | does a revocation block new tokens at once, as the RBAC spec says? It does not | 2 super admins, 1 request, 1 login |
| `mfa` | is a code spent once whatever requests race with it and with a new enrolment (`CodesSingleUse`), is a session verified only by a method proven in it (`SessionsProven`), and does the lock-out bound the failures (`LockoutBoundsGuesses`)? | 1 user, 2 sessions, 2 requests, 2 secrets, 1 recovery code, clock 2 to 3 (two sessions and two secrets together at clock 2 only) |
| `mfa_lockout` | is the lock-out as late as documented? It comes one failure early | 1 session, 1 secret, 2 requests |
| `mfa_unproven_secret` | is an active secret one whose code was shown? Not always | 1 session, 2 secrets, 2 requests |
| `curation` | is the history true, are only approved proposals promoted, do all surfaces get their jobs, are the stamps kept, and is the review a `ReviewBoard`? | 2 users, 1 proposal, 2 destinations, 1 month, 2 job types, 2 invocations |
| `operations` | do stamps, errors and flags stay true over stale reads? | 2 users, 1 record, 1 job, 1 day, 2 invocations, 5 transitions |
| `metrics_small_group` | is a day marked only once it has `MIN_GROUP_SIZE` users? It is marked earlier | as `operations` |
| `sign_in` | whose are sessions and identities, and do logouts and suspensions last? | 2 users, 2 identities of one address, 1 session, 2 invocations |
| `saved_plans` | do items follow their plan, stays private private, is a live plan kept, and what do the feeds make of it? | 2 users, 2 plans, 3 contents of 2 items, 1 key, 3 requests, 5 cities, LIMITs of 1 and 2 likes |
| `routes` | is each stop told its own leg and each route whole? | 3 days of up to 5 stops, 2 threads, chunks of 3 points |

The bounds. Every guard of the approval flow compares one invocation with one
other (who holds this lock) or one request with the rows it names, so two of
each meet in every way they can. The payloads of `MCHighRisk` are those that share a
row, both super admins revoked and both destinations published together, and a
grant of what nobody held. Granting the role of a super admin, until a time, is
the business of `MCAuthz`. `Submitted` names the payloads clients submit; `MaxTokens` bounds the
tokens alive at once (one: tokens of different users do not influence each
other except as the decider's). `BULK_PUBLISH_MINIMUM` and `MAXIMUM` are 1 and 2
instead of 10 and 100, with two destinations. The `authz` run starts where a
first request has been decided: the states before that are those of
`high_risk`, and what the run is about needs the second super admin. The theorems
show that nothing changes with more.

`mfa`: two clock values (`LastStep` is 3) with locks and
sessions of one step let each of them end once, and give four counters, so that
a code checked in one step can be consumed in the next. `MaxAttempts` is 3, the
least number with which a failure does not lock at once. The bound in
`LockoutBoundsGuesses` counts the ends of locks that fit into the time explored,
each letting in the requests under way. The constraint `MCExplored` leaves out
one combination, of two devices, two secrets and two clock values: past the first
step of the clock, states with two secrets issued and two sessions in use
are not followed further. A session's rows are read and written by its own requests alone,
so what two devices share is the credential, and the run has them meet there with either
a second secret or a passing of time; the theorems about `CodesSingleUse`,
`SessionsProven` and `LockoutBoundsGuesses` need no such bound.

`curation`: one proposal, since a proposal meets another only in the month they
compete for, which the two destination ids do; two publications of a
destination (`MaxPublications`), so that a hide comes between; two job types, so
that a death comes before, between and after them. `operations`: five ticks
of the clock (`MaxTime`) take a record through a publication, an archive and a
second publication with a stale one over each, and a job through a failed run, a
retry and the start of the next; `MaxUsers` stops a day at seven users, past the
five of the threshold. `sign_in`: the provider of the second identity
vouches at some logins only. `saved_plans`: the third request sees what two left
that raced, or, in the other initial states, two requests race over plans saved,
cloned and liked before; each request is one invocation, so the invocations
bound the run. Its contents are one for each way a plan gets its country: by its id, by
none (a place outside the catalogue, with a country that is no code), and by a client that
contradicts the id. With a LIMIT of one, the second of two likes is not read.
`routes`: a day of five stops is two chunks of three points; the
others are none, one, and one with a stop without coordinates; `RoutesProofs` has
days of any length.

Deadlock is not checked where the system really may stop: at `LastStep`, where a
locked credential refuses everything; when the month of every destination has
expired; when the clock of `operations` is at its bound; when every user is
suspended; when all requests of `saved_plans` are done. Symmetry is used in runs
without liveness only, over ids that the specification treats alike.

Mutants. Each property is also run against a plausible slip, kept in the module
as a definition named `Bug...`: a COUNT without FOR UPDATE, an audit row on
its own connection, an UPDATE without `AND status = :from_status`, a session
for an identity that somebody else has linked, chunks that share no end, and so
on. TLC must find the property violated.

## 4. Fairness

`FairSpec` assumes strong fairness of each invocation's own steps: InnoDB
serves the waiters of a lock in order, so a waiter that is enabled again and
again gets its turn, and a Lambda that does not die runs on. Nothing is assumed
of `Abort`, of new requests, or of `Invalidate` being effective.

`FairAuthzSpec` assumes that time passes: a cache entry reaches its
`expiresAt`, counted from the put, and a token its `exp`. Nothing is assumed of
logins, approvals or invalidations. The liveness property therefore holds with
a cache whose every delete fails. It says what bounds a revocation's delay: the
two TTLs, because a hit does not renew an entry.

The other modules state no fairness: they claim safety only. What a request
there would have to reach can always be lost, since any invocation may die and
nothing resumes it.

## 5. Proofs

`HighRiskProofs` proves, for all users, scopes, destinations, requests and
invocations, from the named assumptions of the modules alone (the users are
finitely many, `Super` is a scope, the bulk limits are numbers, what is seeded
or submitted has its type):

* `ChecksStandUntilCommit`: the inductive invariant `IInv`. None of the properties
  is inductive by itself, since a commit is only right because of what was checked
  several steps before. `IInv` says: no two open transactions hold
  the same request (`RequestLocksExclude`), nor overlapping rows
  (`RowLocksExclude`); a request held is still pending and not the holder's own
  (`DecisionsStand`); and a change whose rows are locked is still applicable
  (`ChangesStand`). The one outside influence is time: an assignment may expire between
  the check and the commit. So `ChangesStand` says `StillApplicable`, which counts
  assigned super admins, valid or expired, where the code's check counted valid
  ones. This is also why the ledger promises an assignment that stays, not one
  that stays valid.
* `ImplementsLedger`: every step is a step of `ChangeLedger` or changes nothing
  of it, by `IInv` at the commits.
* `LastSuperAdminStays`, `EvidenceIsExact`, `NoUnaccountedAssignment`,
  `JobsQueuedOnce`, `TypeCorrect`: the properties of the run, each from `IInv`.

`AuthzProofs` first shows that a step of `Authz` is a step of `HighRisk` or leaves
its variables alone (`AuthzImplementsHighRisk`), so the invariants above hold of it too.
Then `AuthorityIsAccountedFor` follows because what accounts for an
assignment is never taken back, and authority only moves from the
assignments to a login, to the cache, to a token; and
`DecidersAreAccountedFor` because a decider's token is such authority.
`AuthzTypeCorrect` gives the types.

`AdminMfaProofs` proves for all users, sessions, secrets and requests, from
`OwnerAssumption` and `StepsAssumption`:

* `MfaTypesHold`: `MfaTypeOK`, with the fact it needs to be inductive, that
  a request about to record a failure belongs to a user with a row.
* `SessionsAreProven`: by `ProvenInv`, which adds the requests that have consumed
  a code and not yet recorded their session.
* `LockoutHolds`: `LockoutBoundsGuesses` by `LockInv`. The property bounds the
  failures of a row by the clock, and a request that failed a check may record it
  much later, so the bound alone is not inductive. A lock lets nobody begin to
  fail: while it holds, what is recorded comes from requests that were waiting
  (`FailingFor`), and when it ends, at most all of them can be waiting again.
  `LockInv` therefore bounds the failures by the time to which the row was last
  locked (`Ceiling`), and during a lock the failures together with the waiting
  requests. It holds for every `MaxAttempts`, lock length and finite set of requests.
* `CodesAreSingleUse`: by `SingleUseInv`. A request may consume long after its
  check, so the invariant says what is still true of it then: its
  secret was issued to this user (`CheckedOwned`, `SecretsOwned`), and of a
  secret in force every accepted code is behind the row, its counter not above
  `lastUsed`, or out of the list (`SpentBehind`). That each UPDATE keeps this is
  where the predicates of its WHERE clause are used.

`CurationProofs`, for all proposals, destinations, users, invocations and job
types: `CurationInv` says what an invocation may still rely on, although it read
it earlier. A review under way knows the author (never changed) and a status the
table allows to leave; a promotion knows that its proposal is approved, which is
for good; a transition or a publication under way that its destination exists.
From it follow `CurationTyped`, `PromotionsApproved`, `StampsAreKept` and, with the
compare-and-swap at the one step that decides, `ReviewImplementsBoard`.
`HistoryIsTrue` needs `HistoryInv`: statuses are left in ascending order, so every row
written or about to be is of a status the proposal has left (`PastHappened`) and no
status is left twice (`PastUnique`).
`JobsAreAccounted` needs `JobsInv`, since the property says nothing of a destination
some publication is still enqueueing for, where jobs are missing that will come. What is
in order at every step is a sum: the jobs of a type that are queued and those that
publications under way still owe (`Owed`). An `EnqueueJob` moves one from the second count
to the first; a publication adds one of every type; a death (`OwedByDeath`) takes one from
each type that was still to come, which are all of them, or the last ones and then `cut`
counts it. `InvocationsAssumption` (finitely many invocations) is there for the counting.

`OperationsProofs`: `TrailInv` adds that every row an invocation has read was truly
stamped (`ReadsStamped`), because it writes that row back; `JobInv` that whoever is
about to retry read a job with an error (`RetriesFailed`); `MetricInv` that a day
without a row has no users. `GroupsFlagged` and `FlagsMeanHalf` hold for every
threshold and all increments: the doubled increment can halve the threshold and
no more.

`SignInProofs`: `OwnerInv` adds to `SessionsOfOwner` that linked users exist
(`UsersExist`), that what an invocation found linked is still linked to the same user
(`LinksKept`: an identity is linked once and for good, by the unique key), and
that sessions looked up exist. `SessionsOwned` follows. `AddressesProved` needs
`ClaimsTold`: the address an invocation carries was vouched for. `LogoutIsForGood` and
`SuspensionIsForGood` are about steps: no action undoes a revocation, and an index
that shows it can only be updated to what shows it too; no look-up finds a
suspended user. `AddressesUnique` is by `EmailInv`: who is about to create a user for an
address nobody races for is the only one, and no active user has the address
(`CreatorsAlone`). The INSERT of `create_user` makes no such check, so this has to
be carried from the look-up through every step of the others; an address that a
user gets otherwise, or an active user who comes back, would break it.

`SavedPlansProofs`: `SavedInv` (types, what invocations know, what public plans have
exposed) gives `SavedPlansTyped`, `PrivateSnapshots` and `OwnersLike`. `DamageInv`
describes an undamaged plan at every stage of the one save that is at work on it
(no item yet, the items up to the next, all items), and that save is the only
one; `ItemsAreFollowing` and `LivePlansAreKept` follow.

It also has the theorems about `Feeds`, which has operators and no actions, so that
they are consequences of `SavedInv`. `GroupsOfTwo`: of the users an aggregate must count
(`Eligible`) two are distinct, each owns a plan to the city that has a like, and that
like can only be the owner's (`LikesByOwner`); without that invariant a like of somebody
else's plan would do. `FeedFollowsLikes`: as many different likes as the LIMIT are read, or
all there are (`LikesRead`); what the loop over them keeps of a city is its best score
(`CandidatesBest`, `Worth`); a page has the best of those, in whatever order ties come, and
all of them if it is not full (`OnThePage`). A page has no city of a plan that was read, so
if it has the city of a liked plan, that plan was not read and the LIMIT others that were all
go elsewhere. It needs that finitely many plans are liked (`FiniteLikes`), for which
`LikesFinite` is invariant. `CatalogueAssumption` and `LimitsAssumption` say that the city
catalogue and the themes are finite and the limits are numbers.

`RoutesProofs` proves `LegsAreTrue` for itineraries and journeys of any length, every
chunk length from two points and every size of the pool. Three facts about sequences
carry it. `ExtendJoins`: extending the line of the first points up to a by the part
from a to b gives the line up to b, so a shared end is passed once;
together with `GeometryOfSections` and `ExtendTwice` this makes `RouteGrows`, that a chunk
takes the route up to one point to the route up to another. `PointsExact`: the points
of a day are its stops with coordinates, in order. `LegsTold`: what is written
through these indexes is, at every stop, the leg to the next one with coordinates.
The invariant `RoutesInv` says that a job given every section so far has the route up
to its `start`, and that the day of a job not collected is untouched, so that the
order of collection does not matter. `StopsAssumption` (the mark of a stop without
coordinates is no place), `DaysAssumption` (the route request is no day) and
`CoordinatesAssumption` (the limit is a number) are about how the model names things.
`ExtendUnique`, `GeometryOf` and `Points` are recursive functions that follow the loops of
the code, with `AppendUnique` for one iteration, since nothing can be proved of folds.

Induction over data. A theorem of induction that takes an operator cannot be used with
the provers at hand. `LeastNumber` takes its place: a set of numbers that is not empty
has a least element, from the well-foundedness of < in `WellFoundedInduction`; so a
counterexample to a statement about rounds or ranks has a least one. `CountUp` and
`Rounds` state the two forms `RoutesProofs` uses, that a set closed under +1 up to
n holds all of 0 .. n, and that a loop has a value after each round. Facts about
cardinalities are from `FiniteSetTheorems`, about sequences from `SequenceTheorems`.

Every invariant and action property a passing run checks is now a theorem. Only
model-checked: `TransactionsEnd` and `RevocationTakesEffect`, which are liveness under
fairness and outside the proof system; and the violations below, which are single
counterexamples.

## 6. What the checks found

`authz_stale`. `docs/specs/ADMIN_RBAC_SPEC.md:244` requires that suspending an
assignment blocks new tokens at once, and `authz_cache_repository.py:65` says
that after an invalidation the next login derives from the database. A login
that read the roles before the revocation committed can put its result into the
cache after the invalidation. Every login and refresh of that user is then
served the revoked role for up to 300 s, and the tokens live up to 15 min more.
A failed delete, or a crash after COMMIT, has the same effect;
the run `authz` shows that it always ends.

`mfa_lockout`. `record_failure` increments `failed_attempts` and then tests
`failed_attempts + 1`; MySQL evaluates the SET clauses in order, so the lock
falls at the fourth failure where `docs/specs/ADMIN_RBAC_SPEC.md:341` and
`tests/test_admin_mfa_app.py:134` (on the in-memory repository) say the fifth.

`mfa_unproven_secret`. `activate` matches any pending row of the user. An
`enroll` between the check of a `confirm` and its UPDATE puts a new secret
there, and that one becomes active although the code belonged to the old one
(`docs/specs/ADMIN_OPERATIONS_RUNBOOK.md:34`). The other way round, an
`enroll` that was checked before a `confirm` and writes after it takes an active
credential back to pending. For the same reason a code is single-use only for
the secret in force.

`metrics_small_group`. The upsert adds the increment to `distinct_user_count` and
then tests the count plus the increment; MySQL evaluates the assignments in
order, so the increment counts twice and a day is marked with as few as three
users where `metrics_repository.py:37` says five. `FlagMeansHalf` and its theorem
give the exact loss. (That callers may count a user twice is the TODO at
`metrics_repository.py:31` and another matter.)

Not violations of a documented claim, but of interest to a reader of the code.
The models have these steps, and the properties are stated so that they stay true
beside them:

* `_revoke_role`: `COUNT(*)` asks for more than one valid super admin whatever
  the state of the target's own row. With a single valid super admin left,
  another one's expired row can be neither revoked (`LAST_SUPER_ADMIN_REQUIRED`)
  nor granted again (`DUPLICATE_ACTIVE_ASSIGNMENT`, the unique key).
* A console transition of a destination that read its row before another one
  committed is carried out all the same: an expired or rejected destination can
  be published, a bulk publication be overwritten.
* A publication that dies after its UPDATE leaves some of its jobs unqueued, and
  publishing again is refused, since the status is already `published`.
* A stale archive of a notice writes back the publisher it read: one that read the
  draft erases the stamps of the publication in between.
* A retry over a stale read lowers a job's `attempt_count` again.
* Two saves that restore one deleted row at once, or a restore that dies, leave a
  plan whose items are not its itinerary; the next save finds the plan
  existing and answers it as it is. A late restore may overwrite a plan that
  another one has just made live.
* A clone reads the items with a statement of their own: they may be those of
  a restore that nobody made public.
* A user whose address is taken by a suspended user, and who logs in with a second
  identity, gets a new active user: the look-up by address sees active rows only.
* A logout whose cookie the index does not show yet, without a bearer token,
  answers success and revokes nothing. Revoking a session whose item the TTL has
  removed creates an item with nothing but `revokedAt`, which no look-up finds.
* The city of a liked plan is offered again once more plans are liked than are read
  (20 at least). A plan to a place with neither a valid country nor a `KR-` or `JP-` id
  recommends cities of every country; a country its client stated goes before the id's.
* The popular cities count private plans too. A city that shares no theme with a
  liked plan is offered as similar if it has a picture and nothing better is left.
* A section that the provider's answer lacks shifts the later legs of that day by
  one stop. Routes are fetched before the itinerary is returned, so they cost up
  to their timeouts although `routing.py:40` speaks of not blocking its creation.

## 7. Not modelled

* The legacy `users.role`, which no high-risk change touches, and
  `authzVersion`, which is always 1.
* The check of a recent TOTP verification in front of a decision: it is a read of
  the row `AdminMfa` is about and would multiply its states with those of `Authz`;
  `SessionsProven` says what the row is worth.
* The encryption of TOTP secrets, and the audit rows of routes other than the
  high-risk ones, which nothing reads back.
* Token signatures, request parsing, formatting, listing routes, log output,
  parameter translation of the database client.
* The in-memory repositories, used by tests and local tools only.
* Expiry and TTL of refresh sessions (a session that expires is one that is
  revoked, as far as the properties go) and profile updates.
* The counters of metric events: sums that nothing reads.
* `copied_from_itinerary_id`, which a clone sets and a client may: nothing reads it back.
  A foreign key that refuses a client's value ends the save where it may also die.
* The names that break the last ties of a recommendation list: every order is taken.
* The monthly cities, the popular list of all ages and the wording of the
  recommendations; the mapping of the agent's text and its session ids: data
  in, data out, without state.
* Preferences (one upsert per request of a value nothing else reads), small cities
  and Kakao places (read-only look-ups), infrastructure and migrations.

## 8. Where to go on

1. `Decide` of `Authz` behind the recent-TOTP check of `AdminMfa`, on an instance of
   its own.
2. Promises of `SignIn` and `SavedPlans` as specifications of their own (a session
   with one owner and one end; a plan with its items), and refinements like those of
   `ChangeLedger` and `ReviewBoard`.
