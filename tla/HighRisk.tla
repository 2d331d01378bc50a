------------------------------ MODULE HighRisk ------------------------------
(***************************************************************************)
(* RdsDataHighRiskChangeRepository: how concurrent Lambda invocations      *)
(* create, approve and reject high-risk change requests on one MySQL       *)
(* database.                                                               *)
(*                                                                         *)
(* A decision is one transaction.  Statements of one transaction interleave*)
(* with those of others, so an approval is cut where it takes locks:       *)
(*   LockRequest  SELECT ... FOR UPDATE of the request, _validate_decision *)
(*   LockRows     the locking reads of _execute and what they check        *)
(*   CommitX      the writes, _finish and the strict audit rows, which     *)
(*                nobody sees before COMMIT                                *)
(*   Invalidate   the authorization cache entry, after COMMIT              *)
(* The writes of a transaction are its own until COMMIT, and its row locks *)
(* last until then, so they are modelled at the commit.  An invocation may *)
(* die, or its transaction fail, at any point (Abort).                     *)
(*                                                                         *)
(* Any user may be the principal here: the role and MFA checks of the route*)
(* precede the repository and are not its own.                             *)
(***************************************************************************)
EXTENDS ChangeModel

CONSTANTS
    Requests,       \* request ids
    Workers,        \* concurrent Lambda invocations
    Seeded,         \* keys with an active assignment older than the run
    InitialStatuses, \* statuses of the destinations at the start
    Submitted       \* the payloads clients submit (bounds the exploration)

ASSUME InitialAssumption == InitialStatuses \subseteq MonthlyStatuses
ASSUME SeededAssumption == Seeded \subseteq Keys
ASSUME SubmittedAssumption == Submitted \subseteq Payloads

VARIABLES
    request, assignment, destination, jobs, evidence,   \* as in ChangeLedger
    refusals,       \* requests with a denied/failed audit row
    worker          \* invocation -> the decision it is making, or Idle

ledgerVars == <<request, assignment, destination, jobs, evidence>>
vars == <<request, assignment, destination, jobs, evidence, refusals, worker>>

Idle == [stage |-> "idle"]
Decision(stage, r, u, action) ==
    [stage |-> stage, request |-> r, actor |-> u, action |-> action]

InTransaction(w) == worker[w].stage \in {"request_locked", "rows_locked"}
PayloadOf(w) == request[worker[w].request].payload

(* Mutants (definitions named Bug...) are what a run must catch: a slip in  *)
(* the code, as the mutated form of the definition that follows.            *)

(* COUNT( * ) without FOR UPDATE: only the revoked row itself is locked.    *)
BugCountWithoutLock(p) == IF IsAssignmentChange(p) THEN {KeyOf(p)} ELSE {}

(* The row locks an approval holds from its locking reads to the end of its *)
(* transaction.  A super admin revocation locks every row its COUNT reads.  *)
AssignmentLocks(p) ==
    IF RevokesSuper(p) THEN SuperKeys
    ELSE IF IsAssignmentChange(p) THEN {KeyOf(p)} ELSE {}

(* _bulk_publish reads the destinations without FOR UPDATE. *)
BugBulkWithoutLock(p) == {}
DestinationLocks(p) == IF p.op = "bulk_publish" THEN p.destinations ELSE {}

HoldsRows(w) == worker[w].stage = "rows_locked"

(* Every open transaction already holds its rows: lock before you look. *)
BugEagerRowLocks(p) ==
    \A v \in Workers : InTransaction(v) =>
      \/ PayloadOf(v) = p
      \/ /\ AssignmentLocks(p) \cap AssignmentLocks(PayloadOf(v)) = {}
         /\ DestinationLocks(p) \cap DestinationLocks(PayloadOf(v)) = {}

RowsFree(p) ==
    \A v \in Workers : HoldsRows(v) =>
      /\ AssignmentLocks(p) \cap AssignmentLocks(PayloadOf(v)) = {}
      /\ DestinationLocks(p) \cap DestinationLocks(PayloadOf(v)) = {}

Init ==
    /\ request = [r \in Requests |-> Absent]
    /\ assignment \in InitialAssignments(Seeded)
    /\ destination \in [Destinations -> InitialStatuses]
    /\ jobs = [d \in Destinations |-> [t \in PublishJobTypes |-> 0]]
    /\ evidence = {}
    /\ refusals = {}
    /\ worker = [w \in Workers |-> Idle]

(* POST /high-risk-requests: one transaction, no row of its own to wait for. *)
Create(r, u, p) ==
    /\ request[r] = Absent
    /\ request' = [request EXCEPT ![r] = NewRequest(u, p)]
    /\ evidence' = evidence \cup {Entry("create", r, u)}
    /\ UNCHANGED <<assignment, destination, jobs, refusals, worker>>

RequestFree(r) ==
    \A v \in Workers : InTransaction(v) => worker[v].request # r

(* _validate_decision *)
MayDecide(r, u) ==
    /\ request[r].status = "pending"
    /\ request[r].requestedBy # u

LockRequest(w, r, u, action) ==
    /\ worker[w] = Idle
    /\ request[r] # Absent
    /\ RequestFree(r)
    /\ MayDecide(r, u)
    /\ worker' = [worker EXCEPT ![w] = Decision("request_locked", r, u, action)]
    /\ UNCHANGED <<request, assignment, destination, jobs, evidence, refusals>>

(* _record_sensitive_failure_audit: best effort, outside the transaction.   *)
RecordRefusal(r) ==
    \/ refusals' = refusals \cup {r}
    \/ UNCHANGED refusals

(* Not found, already decided, or the requester's own request. *)
RefuseDecision(w, r, u) ==
    /\ worker[w] = Idle
    /\ request[r] # Absent => RequestFree(r) /\ ~MayDecide(r, u)
    /\ RecordRefusal(r)
    /\ UNCHANGED <<request, assignment, destination, jobs, evidence, worker>>

(* _bulk_publish publishes whatever status it finds. *)
BugPublishAnything(p) ==
    /\ p.op = "grant" => assignment[KeyOf(p)] = "none"
    /\ RevokesSuper(p) => Cardinality(ValidSuperAdmins(assignment)) > 1
    /\ p.op = "revoke" => assignment[KeyOf(p)] # "none"

(* What _grant_role, _grant_region, _revoke_role, _revoke_region and        *)
(* _bulk_publish require of the rows they have locked.                      *)
Allowed(p) ==
    /\ p.op = "grant" => assignment[KeyOf(p)] = "none"
    /\ RevokesSuper(p) => Cardinality(ValidSuperAdmins(assignment)) > 1
    /\ p.op = "revoke" => assignment[KeyOf(p)] # "none"
    /\ p.op = "bulk_publish" =>
         \A d \in p.destinations : destination[d] \in Publishable

Approving(w) ==
    worker[w].stage = "request_locked" /\ worker[w].action = "approve"

(* The strict audit rows are written on a connection of their own. *)
BugAuditOutsideTransaction(w) ==
    LET r == worker[w].request
        u == worker[w].actor
    IN  /\ Approving(w)
        /\ RowsFree(PayloadOf(w))
        /\ Allowed(PayloadOf(w))
        /\ worker' = [worker EXCEPT ![w].stage = "rows_locked"]
        /\ evidence' = evidence \cup
                         {Entry("execute", r, u), Entry("approve", r, u)}
        /\ UNCHANGED <<request, assignment, destination, jobs, refusals>>

(* The assignment is written on a connection of its own. *)
BugChangeOutsideTransaction(w) ==
    /\ Approving(w)
    /\ RowsFree(PayloadOf(w))
    /\ Allowed(PayloadOf(w))
    /\ worker' = [worker EXCEPT ![w].stage = "rows_locked"]
    /\ assignment' = AssignmentAfter(assignment, PayloadOf(w))
    /\ UNCHANGED <<request, destination, jobs, evidence, refusals>>

LockRows(w) ==
    /\ Approving(w)
    /\ RowsFree(PayloadOf(w))
    /\ Allowed(PayloadOf(w))
    /\ worker' = [worker EXCEPT ![w].stage = "rows_locked"]
    /\ UNCHANGED <<request, assignment, destination, jobs, evidence, refusals>>

RefuseChange(w) ==
    /\ Approving(w)
    /\ RowsFree(PayloadOf(w))
    /\ ~Allowed(PayloadOf(w))
    /\ worker' = [worker EXCEPT ![w] = Idle]
    /\ RecordRefusal(worker[w].request)
    /\ UNCHANGED <<request, assignment, destination, jobs, evidence>>

(* _finish: UPDATE ... WHERE status = 'pending' must change one row, and the *)
(* table's CHECK keeps the decider distinct from the requester.             *)
Finishable(w) == MayDecide(worker[w].request, worker[w].actor)

CommitApproval(w) ==
    LET r == worker[w].request
        u == worker[w].actor
        p == PayloadOf(w)
    IN  /\ HoldsRows(w)
        /\ Finishable(w)
        /\ assignment' = AssignmentAfter(assignment, p)
        /\ destination' = DestinationAfter(destination, p)
        /\ jobs' = JobsAfter(jobs, p)
        /\ request' = [request EXCEPT ![r] = Decided(@, "executed", u)]
        /\ evidence' = evidence \cup
                         {Entry("execute", r, u), Entry("approve", r, u)}
        /\ worker' = [worker EXCEPT ![w] =
                        IF IsAssignmentChange(p)
                          THEN [@ EXCEPT !.stage = "committed"] ELSE Idle]
        /\ UNCHANGED refusals

CommitRejection(w) ==
    LET r == worker[w].request
        u == worker[w].actor
    IN  /\ worker[w].stage = "request_locked"
        /\ worker[w].action = "reject"
        /\ Finishable(w)
        /\ request' = [request EXCEPT ![r] = Decided(@, "rejected", u)]
        /\ evidence' = evidence \cup {Entry("reject", r, u)}
        /\ worker' = [worker EXCEPT ![w] = Idle]
        /\ UNCHANGED <<assignment, destination, jobs, refusals>>

(* _invalidate_authz: the delete of the cache entry is Authz's to describe. *)
Invalidate(w) ==
    /\ worker[w].stage = "committed"
    /\ worker' = [worker EXCEPT ![w] = Idle]
    /\ UNCHANGED <<request, assignment, destination, jobs, evidence, refusals>>

(* The invocation dies or a statement fails: a transaction rolls back, and  *)
(* after COMMIT the invalidation is lost.                                   *)
Abort(w) ==
    /\ worker[w] # Idle
    /\ worker' = [worker EXCEPT ![w] = Idle]
    /\ IF InTransaction(w) THEN RecordRefusal(worker[w].request)
                           ELSE UNCHANGED refusals
    /\ UNCHANGED <<request, assignment, destination, jobs, evidence>>

(* A clean-up job parks expired rows in a status no lookup expects. *)
BugExpireSuspends(k) ==
    /\ assignment[k] = "temporary"
    /\ assignment' = [assignment EXCEPT ![k] = "suspended"]
    /\ UNCHANGED <<request, destination, jobs, evidence, refusals, worker>>

(* valid_until passes: the rows' status column does not change. *)
Expire(k) ==
    /\ assignment[k] = "temporary"
    /\ assignment' = [assignment EXCEPT ![k] = "expired"]
    /\ UNCHANGED <<request, destination, jobs, evidence, refusals, worker>>

(* scripts/bootstrap_super_admin.py, one transaction under the same locks.  *)
(* An expired row of the target still owns its unique key.                  *)
Bootstrap(u) ==
    /\ \A v \in Workers : HoldsRows(v) =>
         SuperKeys \cap AssignmentLocks(PayloadOf(v)) = {}
    /\ ValidSuperAdmins(assignment) = {}
    /\ assignment[<<u, Super>>] = "none"
    /\ assignment' = [assignment EXCEPT ![<<u, Super>>] = "permanent"]
    /\ evidence' = evidence \cup {Entry("bootstrap", u, u)}
    /\ UNCHANGED <<request, destination, jobs, refusals, worker>>

Step(w) ==
    \/ LockRows(w)
    \/ RefuseChange(w)
    \/ CommitApproval(w)
    \/ CommitRejection(w)
    \/ Invalidate(w)

Next ==
    \/ \E r \in Requests, u \in Users, p \in Submitted : Create(r, u, p)
    \/ \E w \in Workers, r \in Requests, u \in Users :
         \/ \E action \in {"approve", "reject"} : LockRequest(w, r, u, action)
         \/ RefuseDecision(w, r, u)
    \/ \E w \in Workers : Step(w) \/ Abort(w)
    \/ \E k \in Keys : Expire(k)
    \/ \E u \in Users : Bootstrap(u)

Spec == Init /\ [][Next]_vars

(* InnoDB grants a lock to its waiters in turn, and a Lambda that does not  *)
(* die runs on: each invocation's own steps are strongly fair.  Aborts are  *)
(* not: nothing relies on an invocation dying.                              *)
FairSpec == Spec /\ \A w \in Workers : SF_vars(Step(w))
-----------------------------------------------------------------------------
ChangeRequests ==
    [status: {"pending"}, payload: Payloads, requestedBy: Users] \cup
    [status: {"executed", "rejected"}, payload: Payloads,
     requestedBy: Users, decidedBy: Users]

Entries ==
    [action: {"create", "execute", "approve", "reject"},
     subject: Requests, actor: Users] \cup
    [action: {"bootstrap"}, subject: Users, actor: Users]

Decisions ==
    [stage: {"request_locked", "rows_locked", "committed"}, request: Requests,
     actor: Users, action: {"approve", "reject"}]

TypeOK ==
    /\ request \in [Requests -> ChangeRequests \cup {Absent}]
    /\ assignment \in [Keys -> AssignmentStates]
    /\ destination \in [Destinations -> MonthlyStatuses]
    /\ jobs \in [Destinations -> [PublishJobTypes -> Nat]]
    /\ evidence \subseteq Entries
    /\ refusals \subseteq Requests
    /\ worker \in [Workers -> Decisions \cup {Idle}]

(* "no executed change can lack evidence" (approve), and no evidence lacks  *)
(* its change: the audit trail of a request tells its status and its        *)
(* decider, whatever transactions rolled back on the way.                   *)
DecidedBy(r, u, status) ==
    /\ request[r].status = status
    /\ request[r].decidedBy = u
    /\ request[r].requestedBy # u
TellsDecision(r, u) ==
    /\ Entry("execute", r, u) \in evidence <=> DecidedBy(r, u, "executed")
    /\ Entry("approve", r, u) \in evidence <=> DecidedBy(r, u, "executed")
    /\ Entry("reject", r, u) \in evidence <=> DecidedBy(r, u, "rejected")
EvidenceTellsDecision ==
    \A r \in Requests, u \in Users : TellsDecision(r, u)

(* Nobody holds a role or region the audit trail cannot account for: an     *)
(* active assignment was seeded, bootstrapped, or granted by an executed    *)
(* request for exactly that key.                                            *)
AccountedFor(k) ==
    \/ k \in Seeded
    \/ k[2] = Super /\ Entry("bootstrap", k[1], k[1]) \in evidence
    \/ \E r \in Requests :
         /\ request[r].status = "executed"
         /\ request[r].payload.op = "grant"
         /\ KeyOf(request[r].payload) = k
AssignmentsAccountedFor ==
    \A k \in Keys : assignment[k] # "none" => AccountedFor(k)

(* Overlapping bulk publications do not queue a destination's reflection    *)
(* jobs twice: each type is queued once per executed request naming the     *)
(* destination, and at most one such request executes as long as nobody     *)
(* hides a published destination (the monthly console's hide, not modelled  *)
(* here, makes it publishable again).                                       *)
BulkPublishers(d) ==
    {r \in Requests : /\ request[r].status = "executed"
                      /\ request[r].payload.op = "bulk_publish"
                      /\ d \in request[r].payload.destinations}
ReflectedOnce ==
    \A d \in Destinations, t \in PublishJobTypes :
      /\ jobs[d][t] = Cardinality(BulkPublishers(d))
      /\ jobs[d][t] <= 1

(* Concurrent revocations cannot take away the last super admin assignment: *)
(* once there is one, there is always one (it may have expired since).      *)
SuperAdminAssigned == \E u \in Users : assignment[<<u, Super>>] # "none"
SuperAdminKept == [][SuperAdminAssigned => SuperAdminAssigned']_vars

(* The transactions implement indivisible, still permitted decisions.       *)
Ledger == INSTANCE ChangeLedger
LedgerImplemented == Ledger!Spec

(* Row locks never leave a decision waiting for ever.                       *)
TransactionsEnd ==
    \A w \in Workers : InTransaction(w) ~> ~InTransaction(w)
=============================================================================
