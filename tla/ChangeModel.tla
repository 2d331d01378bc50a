---------------------------- MODULE ChangeModel ----------------------------
(***************************************************************************)
(* The vocabulary of high-risk administrative changes: what a request may  *)
(* ask for, the rows it touches and the change it makes.  No variables:    *)
(* ChangeLedger (the promise) and HighRisk (the implementation) share it.  *)
(*                                                                         *)
(* A role assignment and a region assignment are rows of two tables with   *)
(* the same columns and the same handling; both are named here by a key    *)
(* <<user, scope>>, a scope being a (role code, organization) or a         *)
(* (region, organization) pair.  The generated columns active_role_key and *)
(* active_region_key make at most one row with status 'active' per key, so *)
(* the state of a key is one value:                                        *)
(*   none       no active row (never granted, or revoked)                  *)
(*   permanent  active, valid_until NULL                                   *)
(*   temporary  active, valid_until in the future                          *)
(*   expired    still status 'active', but valid_until has passed          *)
(***************************************************************************)
EXTENDS Naturals, FiniteSets

CONSTANTS
    Users,          \* users.id
    Scopes,         \* role/organization and region/organization pairs
    Super,          \* the scope of the global role R-SUPER-ADMIN
    Destinations,   \* monthly_curated_destinations.id
    BulkMinimum,    \* BULK_PUBLISH_MINIMUM
    BulkMaximum     \* BULK_PUBLISH_MAXIMUM

ASSUME UsersAssumption == IsFiniteSet(Users)
ASSUME SuperAssumption == Super \in Scopes
ASSUME BulkAssumption ==
    /\ BulkMinimum \in Nat \ {0}
    /\ BulkMaximum \in Nat

Keys == Users \X Scopes
SuperKeys == Users \X {Super}

AssignmentStates == {"none", "permanent", "temporary", "expired"}
Valid == {"permanent", "temporary"}
MonthlyStatuses ==
    {"candidate", "scheduled", "published", "hidden", "expired", "rejected"}
Publishable == {"candidate", "scheduled", "hidden"}
PublishJobTypes ==
    {"catalog_sync", "rag_index_sync", "search_cache_sync",
     "recommendation_cache_sync"}

(* The payloads validate_high_risk_payload lets through. *)
Grants ==
    [op: {"grant"}, target: Users, scope: Scopes, temporary: BOOLEAN]
Revokes == [op: {"revoke"}, target: Users, scope: Scopes]
BulkPublishes ==
    [op: {"bulk_publish"},
     destinations: {ids \in SUBSET Destinations :
                      Cardinality(ids) \in BulkMinimum .. BulkMaximum}]
Payloads == Grants \cup Revokes \cup BulkPublishes

IsAssignmentChange(p) == p.op \in {"grant", "revoke"}
KeyOf(p) == <<p.target, p.scope>>
RevokesSuper(p) == p.op = "revoke" /\ p.scope = Super

(* The assignments a database may start with: the seeded keys are active.   *)
InitialAssignments(seeded) ==
    {a \in [Keys -> {"none"} \cup Valid] :
       \A k \in Keys : a[k] = "none" <=> k \notin seeded}

(* COUNT( * ) of the global super admin rows inside their validity window. *)
ValidSuperAdmins(assignment) ==
    {u \in Users : assignment[<<u, Super>>] \in Valid}

(* What the statements of _execute do to the three tables, once they run. *)
AssignmentAfter(assignment, p) ==
    IF p.op = "grant"
      THEN [assignment EXCEPT ![KeyOf(p)] =
                                IF p.temporary THEN "temporary" ELSE "permanent"]
      ELSE IF p.op = "revoke"
        THEN [assignment EXCEPT ![KeyOf(p)] = "none"]
        ELSE assignment

DestinationAfter(destination, p) ==
    IF p.op = "bulk_publish"
      THEN [d \in Destinations |->
              IF d \in p.destinations THEN "published" ELSE destination[d]]
      ELSE destination

JobsAfter(jobs, p) ==
    IF p.op = "bulk_publish"
      THEN [d \in Destinations |->
              IF d \in p.destinations
                THEN [t \in PublishJobTypes |-> jobs[d][t] + 1]
                ELSE jobs[d]]
      ELSE jobs

(* A row of admin_high_risk_change_requests, as create inserts it and as   *)
(* _finish leaves it, and a success row of admin_audit_logs.               *)
Absent == [status |-> "absent"]
NewRequest(u, p) ==
    [status |-> "pending", payload |-> p, requestedBy |-> u]
Decided(row, status, u) ==
    [status |-> status, payload |-> row.payload,
     requestedBy |-> row.requestedBy, decidedBy |-> u]
Entry(action, subject, actor) ==
    [action |-> action, subject |-> subject, actor |-> actor]
=============================================================================
