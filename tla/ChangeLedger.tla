---------------------------- MODULE ChangeLedger ----------------------------
(***************************************************************************)
(* What the high-risk approval flow promises, with no workers, locks or    *)
(* transactions: a request is decided at most once, by somebody other than *)
(* its requester; an approval makes its change and leaves its evidence in  *)
(* one indivisible step; and no approval takes away the last super admin   *)
(* assignment.  HighRisk implements this module.                           *)
(***************************************************************************)
EXTENDS ChangeModel

CONSTANTS Requests, Seeded, InitialStatuses

VARIABLES
    request,        \* request id -> the row, or Absent
    assignment,     \* key -> state of its active row
    destination,    \* destination id -> status
    jobs,           \* destination id -> publish jobs ever queued, per type
    evidence        \* success rows of admin_audit_logs

ledgerVars == <<request, assignment, destination, jobs, evidence>>

Init ==
    /\ request = [r \in Requests |-> Absent]
    /\ assignment \in InitialAssignments(Seeded)
    /\ destination \in [Destinations -> InitialStatuses]
    /\ jobs = [d \in Destinations |-> [t \in PublishJobTypes |-> 0]]
    /\ evidence = {}

Submit(r, u, p) ==
    /\ request[r] = Absent
    /\ request' = [request EXCEPT ![r] = NewRequest(u, p)]
    /\ evidence' = evidence \cup {Entry("create", r, u)}
    /\ UNCHANGED <<assignment, destination, jobs>>

(* The change is still possible at the instant it is made. *)
Applicable(p) ==
    /\ p.op = "grant" => assignment[KeyOf(p)] = "none"
    /\ p.op = "revoke" => assignment[KeyOf(p)] # "none"
    /\ RevokesSuper(p) =>
         \E u \in Users \ {p.target} : assignment[<<u, Super>>] # "none"
    /\ p.op = "bulk_publish" =>
         \A d \in p.destinations : destination[d] \in Publishable

Execute(r, u) ==
    /\ request[r] # Absent
    /\ request[r].status = "pending"
    /\ request[r].requestedBy # u
    /\ LET p == request[r].payload IN
         /\ Applicable(p)
         /\ assignment' = AssignmentAfter(assignment, p)
         /\ destination' = DestinationAfter(destination, p)
         /\ jobs' = JobsAfter(jobs, p)
    /\ request' = [request EXCEPT ![r] = Decided(@, "executed", u)]
    /\ evidence' = evidence \cup {Entry("execute", r, u), Entry("approve", r, u)}

Reject(r, u) ==
    /\ request[r] # Absent
    /\ request[r].status = "pending"
    /\ request[r].requestedBy # u
    /\ request' = [request EXCEPT ![r] = Decided(@, "rejected", u)]
    /\ evidence' = evidence \cup {Entry("reject", r, u)}
    /\ UNCHANGED <<assignment, destination, jobs>>

(* The validity window of a time-limited assignment closes. *)
Expire(k) ==
    /\ assignment[k] = "temporary"
    /\ assignment' = [assignment EXCEPT ![k] = "expired"]
    /\ UNCHANGED <<request, destination, jobs, evidence>>

(* Break-glass: only while nobody is a valid super admin. *)
Bootstrap(u) ==
    /\ ValidSuperAdmins(assignment) = {}
    /\ assignment[<<u, Super>>] = "none"
    /\ assignment' = [assignment EXCEPT ![<<u, Super>>] = "permanent"]
    /\ evidence' = evidence \cup {Entry("bootstrap", u, u)}
    /\ UNCHANGED <<request, destination, jobs>>

Next ==
    \/ \E r \in Requests, u \in Users :
         \/ \E p \in Payloads : Submit(r, u, p)
         \/ Execute(r, u)
         \/ Reject(r, u)
    \/ \E k \in Keys : Expire(k)
    \/ \E u \in Users : Bootstrap(u)

Spec == Init /\ [][Next]_ledgerVars
=============================================================================
