--------------------------- MODULE HighRiskProofs ---------------------------
(***************************************************************************)
(* Proofs about HighRisk, for any users, requests and invocations.         *)
(*                                                                         *)
(* The argument.  A transaction that has locked its request is the only    *)
(* one deciding it, so what _validate_decision saw is still so at COMMIT   *)
(* (DecisionsStand).  A transaction that has locked its rows is the only   *)
(* one writing them, so what _execute checked is still so at COMMIT        *)
(* (ChangesStand).  Both rest on the exclusiveness of the locks.           *)
(***************************************************************************)
EXTENDS HighRisk, FiniteSetTheorems, TLAPS

(* No two transactions decide one request. *)
RequestLocksExclude ==
    \A v, w \in Workers :
      InTransaction(v) /\ InTransaction(w) /\ v # w =>
        worker[v].request # worker[w].request

(* No two transactions hold the same assignment or destination row. *)
RowLocksExclude ==
    \A v, w \in Workers : HoldsRows(v) /\ HoldsRows(w) /\ v # w =>
      /\ AssignmentLocks(PayloadOf(v)) \cap AssignmentLocks(PayloadOf(w)) = {}
      /\ DestinationLocks(PayloadOf(v)) \cap DestinationLocks(PayloadOf(w)) = {}

(* A locked request is still as _validate_decision saw it. *)
DecisionsStand ==
    \A w \in Workers :
      /\ worker[w] # Idle => request[worker[w].request] # Absent
      /\ InTransaction(w) => MayDecide(worker[w].request, worker[w].actor)
      /\ HoldsRows(w) => worker[w].action = "approve"

(* A locked change is still possible.  Not all of what _execute checked is  *)
(* stable: the validity window of another super admin may close.  But its   *)
(* assignment is still there, and that is what the ledger asks for.         *)
StillApplicable(p) ==
    /\ p.op = "grant" => assignment[KeyOf(p)] = "none"
    /\ p.op = "revoke" => assignment[KeyOf(p)] # "none"
    /\ RevokesSuper(p) =>
         \E u \in Users \ {p.target} : assignment[<<u, Super>>] # "none"
    /\ p.op = "bulk_publish" =>
         \A d \in p.destinations : destination[d] \in Publishable

ChangesStand ==
    \A w \in Workers : HoldsRows(w) => StillApplicable(PayloadOf(w))

IInv ==
    /\ TypeOK
    /\ RequestLocksExclude
    /\ RowLocksExclude
    /\ DecisionsStand
    /\ ChangesStand
-----------------------------------------------------------------------------
(* What a payload is made of, by operation. *)
LEMMA PayloadParts ==
  ASSUME NEW p \in Payloads
  PROVE  /\ p.op \in {"grant", "revoke", "bulk_publish"}
         /\ IsAssignmentChange(p) => KeyOf(p) \in Keys /\ p.target \in Users
         /\ p.op = "grant" => p.temporary \in BOOLEAN
         /\ p.op = "bulk_publish" => p.destinations \subseteq Destinations
  BY DEF Payloads, Grants, Revokes, BulkPublishes, IsAssignmentChange, KeyOf,
         Keys

(* The writes of an approval keep the tables well typed. *)
LEMMA WritesTyped ==
  ASSUME NEW p \in Payloads, TypeOK
  PROVE  /\ AssignmentAfter(assignment, p) \in [Keys -> AssignmentStates]
         /\ DestinationAfter(destination, p) \in [Destinations -> MonthlyStatuses]
         /\ JobsAfter(jobs, p) \in [Destinations -> [PublishJobTypes -> Nat]]
  <1>1. AssignmentAfter(assignment, p) \in [Keys -> AssignmentStates]
    BY PayloadParts DEF AssignmentAfter, AssignmentStates, TypeOK,
                        IsAssignmentChange
  <1>2. DestinationAfter(destination, p) \in [Destinations -> MonthlyStatuses]
    BY DEF DestinationAfter, MonthlyStatuses, TypeOK
  <1>3. JobsAfter(jobs, p) \in [Destinations -> [PublishJobTypes -> Nat]]
    BY DEF JobsAfter, TypeOK
  <1> QED BY <1>1, <1>2, <1>3

(* An invocation in a transaction has a decision in hand, on a request that *)
(* exists and whose payload is one.                                         *)
LEMMA InHand ==
  ASSUME NEW w \in Workers, TypeOK, worker[w] # Idle
  PROVE  /\ worker[w] \in Decisions
         /\ worker[w].request \in Requests
         /\ worker[w].actor \in Users
         /\ request[worker[w].request] # Absent =>
              /\ request[worker[w].request] \in ChangeRequests
              /\ PayloadOf(w) \in Payloads
              /\ request[worker[w].request].requestedBy \in Users
  BY DEF TypeOK, Decisions, ChangeRequests, PayloadOf

LEMMA IdleStage ==
  ASSUME NEW w \in Workers, TypeOK
  PROVE  /\ worker[w] = Idle => ~InTransaction(w) /\ ~HoldsRows(w)
         /\ HoldsRows(w) => InTransaction(w)
         /\ InTransaction(w) => worker[w] # Idle
  BY DEF Idle, InTransaction, HoldsRows

LEMMA InitTyped == Init => TypeOK
  <1> SUFFICES ASSUME Init PROVE TypeOK
    OBVIOUS
  <1>1. assignment \in [Keys -> AssignmentStates]
    <2>1. assignment \in [Keys -> {"none"} \cup Valid]
      BY DEF Init, InitialAssignments
    <2> QED BY <2>1 DEF Valid, AssignmentStates
  <1>2. destination \in [Destinations -> MonthlyStatuses]
    BY InitialAssumption DEF Init
  <1>3. request \in [Requests -> ChangeRequests \cup {Absent}]
    BY DEF Init
  <1>4. worker \in [Workers -> Decisions \cup {Idle}]
    BY DEF Init
  <1>5. /\ jobs \in [Destinations -> [PublishJobTypes -> Nat]]
        /\ evidence \subseteq Entries
        /\ refusals \subseteq Requests
    BY DEF Init
  <1> QED BY <1>1, <1>2, <1>3, <1>4, <1>5 DEF TypeOK

(* Each action keeps the state well typed; DecisionsStand supplies that a   *)
(* decision in hand is about a request that exists.                         *)
LEMMA StepTyped ==
  ASSUME TypeOK, DecisionsStand, [Next]_vars
  PROVE  TypeOK'
  <1> USE DEF TypeOK
  <1>1. ASSUME NEW r \in Requests, NEW u \in Users, NEW p \in Submitted,
               Create(r, u, p)
        PROVE  TypeOK'
    <2>1. p \in Payloads BY SubmittedAssumption
    <2>2. NewRequest(u, p) \in ChangeRequests
      BY <2>1 DEF NewRequest, ChangeRequests
    <2>3. Entry("create", r, u) \in Entries BY DEF Entry, Entries
    <2> QED BY <1>1, <2>2, <2>3 DEF Create
  <1>2. ASSUME NEW w \in Workers, NEW r \in Requests, NEW u \in Users,
               NEW action \in {"approve", "reject"},
               LockRequest(w, r, u, action)
        PROVE  TypeOK'
    <2>1. Decision("request_locked", r, u, action) \in Decisions
      BY DEF Decision, Decisions
    <2> QED BY <1>2, <2>1 DEF LockRequest
  <1>3. ASSUME NEW w \in Workers, NEW r \in Requests, NEW u \in Users,
               RefuseDecision(w, r, u)
        PROVE  TypeOK'
    BY <1>3 DEF RefuseDecision, RecordRefusal
  <1>4. ASSUME NEW w \in Workers, LockRows(w)
        PROVE  TypeOK'
    <2>1. worker[w] \in Decisions
      BY <1>4, InHand, IdleStage DEF LockRows, Approving, Idle
    <2>2. [worker[w] EXCEPT !.stage = "rows_locked"] \in Decisions
      BY <2>1 DEF Decisions
    <2> QED BY <1>4, <2>2 DEF LockRows
  <1>5. ASSUME NEW w \in Workers, RefuseChange(w)
        PROVE  TypeOK'
    <2>1. worker[w].request \in Requests
      BY <1>5, InHand DEF RefuseChange, Approving, Idle
    <2> QED BY <1>5, <2>1 DEF RefuseChange, RecordRefusal
  <1>6. ASSUME NEW w \in Workers, CommitApproval(w)
        PROVE  TypeOK'
    <2> DEFINE r == worker[w].request
               u == worker[w].actor
               p == PayloadOf(w)
    <2>1. worker[w] # Idle BY <1>6 DEF CommitApproval, HoldsRows, Idle
    <2>2. /\ worker[w] \in Decisions /\ r \in Requests /\ u \in Users
          /\ request[r] \in ChangeRequests /\ p \in Payloads
      BY <2>1, InHand DEF DecisionsStand
    <2>3. /\ assignment' \in [Keys -> AssignmentStates]
          /\ destination' \in [Destinations -> MonthlyStatuses]
          /\ jobs' \in [Destinations -> [PublishJobTypes -> Nat]]
      BY <1>6, <2>2, WritesTyped DEF CommitApproval
    <2>4. Decided(request[r], "executed", u) \in ChangeRequests
      BY <2>2 DEF Decided, ChangeRequests
    <2>5. request' \in [Requests -> ChangeRequests \cup {Absent}]
      BY <1>6, <2>2, <2>4 DEF CommitApproval
    <2>6. evidence' \subseteq Entries
      BY <1>6, <2>2 DEF CommitApproval, Entry, Entries
    <2>7. [worker[w] EXCEPT !.stage = "committed"] \in Decisions
      BY <2>2 DEF Decisions
    <2>8. worker' \in [Workers -> Decisions \cup {Idle}]
      BY <1>6, <2>7 DEF CommitApproval
    <2>9. refusals' \subseteq Requests BY <1>6 DEF CommitApproval
    <2> QED BY <2>3, <2>5, <2>6, <2>8, <2>9
  <1>7. ASSUME NEW w \in Workers, CommitRejection(w)
        PROVE  TypeOK'
    <2> DEFINE r == worker[w].request
               u == worker[w].actor
    <2>1. worker[w] # Idle BY <1>7 DEF CommitRejection, Idle
    <2>2. r \in Requests /\ u \in Users /\ request[r] \in ChangeRequests
      BY <2>1, InHand DEF DecisionsStand
    <2>3. Decided(request[r], "rejected", u) \in ChangeRequests
      BY <2>2 DEF Decided, ChangeRequests
    <2>4. Entry("reject", r, u) \in Entries BY <2>2 DEF Entry, Entries
    <2> QED BY <1>7, <2>2, <2>3, <2>4 DEF CommitRejection
  <1>8. ASSUME NEW w \in Workers, Invalidate(w)
        PROVE  TypeOK'
    BY <1>8 DEF Invalidate
  <1>9. ASSUME NEW w \in Workers, Abort(w)
        PROVE  TypeOK'
    <2>1. worker[w].request \in Requests BY <1>9, InHand DEF Abort
    <2> QED BY <1>9, <2>1 DEF Abort, RecordRefusal
  <1>10. ASSUME NEW k \in Keys, Expire(k)
         PROVE  TypeOK'
    BY <1>10 DEF Expire, AssignmentStates
  <1>11. ASSUME NEW u \in Users, Bootstrap(u)
         PROVE  TypeOK'
    <2>1. Entry("bootstrap", u, u) \in Entries BY DEF Entry, Entries
    <2>2. <<u, Super>> \in Keys BY SuperAssumption DEF Keys
    <2> QED BY <1>11, <2>1, <2>2 DEF Bootstrap, AssignmentStates
  <1>12. CASE UNCHANGED vars
    BY <1>12 DEF vars
  <1> QED
    BY <1>1, <1>2, <1>3, <1>4, <1>5, <1>6, <1>7, <1>8, <1>9, <1>10, <1>11,
       <1>12 DEF Next, Step
-----------------------------------------------------------------------------
(* A request, once created, keeps its payload. *)
LEMMA PayloadsStay ==
  ASSUME TypeOK, DecisionsStand, [Next]_vars,
         NEW r \in Requests, request[r] # Absent
  PROVE  /\ request'[r] # Absent
         /\ request'[r].payload = request[r].payload
  <1>1. ASSUME NEW q \in Requests, NEW u \in Users, NEW p \in Submitted,
               Create(q, u, p)
        PROVE  request'[r] = request[r]
    BY <1>1 DEF Create, TypeOK
  <1>2. ASSUME NEW w \in Workers, NEW status \in {"executed", "rejected"},
               request' = [request EXCEPT ![worker[w].request] =
                             Decided(@, status, worker[w].actor)]
        PROVE  /\ request'[r] # Absent
               /\ request'[r].payload = request[r].payload
    <2>1. CASE r = worker[w].request
      <3>1. request'[r] = Decided(request[r], status, worker[w].actor)
        BY <1>2, <2>1 DEF TypeOK
      <3> QED BY <3>1 DEF Decided, Absent
    <2>2. CASE r # worker[w].request
      BY <1>2, <2>2 DEF TypeOK
    <2> QED BY <2>1, <2>2
  <1>3. ASSUME NEW w \in Workers, CommitApproval(w)
        PROVE  /\ request'[r] # Absent
               /\ request'[r].payload = request[r].payload
    BY <1>2, <1>3 DEF CommitApproval
  <1>4. ASSUME NEW w \in Workers, CommitRejection(w)
        PROVE  /\ request'[r] # Absent
               /\ request'[r].payload = request[r].payload
    BY <1>2, <1>4 DEF CommitRejection
  <1> QED
    BY <1>1, <1>3, <1>4
       DEF Next, Step, LockRequest, RefuseDecision, LockRows, RefuseChange,
           Invalidate, Abort, Expire, Bootstrap, vars

(* How an invocation comes to hold its locks: it held them before, with the *)
(* same decision in hand, or it takes them in this step.                    *)
LEMMA HowHeld ==
  ASSUME TypeOK, DecisionsStand, [Next]_vars, NEW v \in Workers
  PROVE  /\ InTransaction(v)' =>
              \/ InTransaction(v) /\ worker'[v] = worker[v]
              \/ LockRows(v)
              \/ \E r \in Requests, u \in Users, action \in {"approve", "reject"} :
                   LockRequest(v, r, u, action)
         /\ HoldsRows(v)' =>
              \/ HoldsRows(v) /\ worker'[v] = worker[v]
              \/ LockRows(v)
  <1> DEFINE Held ==
        /\ InTransaction(v)' => \/ InTransaction(v) /\ worker'[v] = worker[v]
                                \/ LockRows(v)
                                \/ \E r \in Requests, u \in Users,
                                      action \in {"approve", "reject"} :
                                     LockRequest(v, r, u, action)
        /\ HoldsRows(v)' => \/ HoldsRows(v) /\ worker'[v] = worker[v]
                            \/ LockRows(v)
  <1>1. ASSUME worker'[v] = worker[v]
        PROVE  Held
    BY <1>1 DEF InTransaction, HoldsRows
  <1>2. ASSUME NEW w \in Workers,
               worker'[w].stage \in {"idle", "committed"},
               w # v => worker'[v] = worker[v]
        PROVE  Held
    <2>1. CASE w = v
      BY <1>2, <2>1 DEF InTransaction, HoldsRows
    <2>2. CASE w # v
      BY <1>1, <1>2, <2>2
    <2> QED BY <2>1, <2>2
  <1>3. Idle.stage = "idle" BY DEF Idle
  <1>4. ASSUME NEW w \in Workers, CommitApproval(w)
        PROVE  Held
    <2>1. worker[w] \in Decisions
      BY <1>4, InHand DEF CommitApproval, HoldsRows, Idle
    <2>2. [worker[w] EXCEPT !.stage = "committed"].stage = "committed"
      BY <2>1 DEF Decisions
    <2>3. /\ worker'[w].stage \in {"idle", "committed"}
          /\ w # v => worker'[v] = worker[v]
      BY <1>3, <1>4, <2>2 DEF CommitApproval, TypeOK
    <2> QED BY <1>2, <2>3
  <1>5. ASSUME NEW w \in Workers,
               CommitRejection(w) \/ RefuseChange(w) \/ Invalidate(w) \/ Abort(w)
        PROVE  Held
    <2>1. /\ worker'[w].stage \in {"idle", "committed"}
          /\ w # v => worker'[v] = worker[v]
      BY <1>3, <1>5
         DEF CommitRejection, RefuseChange, Invalidate, Abort, TypeOK
    <2> QED BY <1>2, <2>1
  <1>6. ASSUME NEW w \in Workers, LockRows(w)
        PROVE  Held
    BY <1>1, <1>6 DEF LockRows, TypeOK
  <1>7. ASSUME NEW w \in Workers, NEW r \in Requests, NEW u \in Users,
               NEW action \in {"approve", "reject"},
               LockRequest(w, r, u, action)
        PROVE  Held
    <2>1. CASE w = v
      <3>1. worker'[v].stage = "request_locked"
        BY <1>7, <2>1 DEF LockRequest, Decision, TypeOK
      <3> QED BY <1>7, <2>1, <3>1 DEF HoldsRows
    <2>2. CASE w # v
      BY <1>1, <1>7, <2>2 DEF LockRequest, TypeOK
    <2> QED BY <2>1, <2>2
  <1> QED
    BY <1>1, <1>4, <1>5, <1>6, <1>7
       DEF Next, Step, Create, RefuseDecision, Expire, Bootstrap, vars

(* Taking the row locks changes the stage and nothing else. *)
LEMMA LockRowsKeeps ==
  ASSUME TypeOK, NEW w \in Workers, LockRows(w)
  PROVE  /\ worker'[w].stage = "rows_locked"
         /\ worker'[w].request = worker[w].request
         /\ worker'[w].actor = worker[w].actor
         /\ worker'[w].action = worker[w].action
         /\ InTransaction(w) /\ ~HoldsRows(w)
         /\ \A v \in Workers \ {w} : worker'[v] = worker[v]
         /\ PayloadOf(w)' = PayloadOf(w)
  <1>1. worker[w] \in Decisions
    BY InHand DEF LockRows, Approving, Idle
  <1>2. worker'[w] = [worker[w] EXCEPT !.stage = "rows_locked"]
    BY DEF LockRows, TypeOK
  <1>3. /\ worker'[w].stage = "rows_locked"
        /\ worker'[w].request = worker[w].request
        /\ worker'[w].actor = worker[w].actor
        /\ worker'[w].action = worker[w].action
    BY <1>1, <1>2 DEF Decisions
  <1>4. InTransaction(w) /\ ~HoldsRows(w)
    BY DEF LockRows, Approving, InTransaction, HoldsRows
  <1>5. \A v \in Workers \ {w} : worker'[v] = worker[v]
    BY DEF LockRows, TypeOK
  <1>6. PayloadOf(w)' = PayloadOf(w)
    BY <1>3 DEF PayloadOf, LockRows
  <1> QED BY <1>3, <1>4, <1>5, <1>6

(* The same, for the request in hand: it was in hand before, or the step    *)
(* locks it; and its payload is what it was.                                *)
LEMMA HowInHand ==
  ASSUME TypeOK, DecisionsStand, [Next]_vars, NEW v \in Workers
  PROVE  /\ InTransaction(v)' =>
              \/ InTransaction(v) /\ worker'[v].request = worker[v].request
              \/ \E r \in Requests, u \in Users, action \in {"approve", "reject"} :
                   LockRequest(v, r, u, action)
         /\ HoldsRows(v)' =>
              /\ InTransaction(v)
              /\ worker'[v].request = worker[v].request
              /\ PayloadOf(v)' = PayloadOf(v)
              /\ PayloadOf(v) \in Payloads
  <1>1. InTransaction(v)' =>
          \/ InTransaction(v) /\ worker'[v].request = worker[v].request
          \/ \E r \in Requests, u \in Users, action \in {"approve", "reject"} :
               LockRequest(v, r, u, action)
    BY HowHeld, LockRowsKeeps
  <1>2. ASSUME HoldsRows(v)'
        PROVE  InTransaction(v) /\ worker'[v].request = worker[v].request
    BY <1>2, HowHeld, LockRowsKeeps, IdleStage
  <1>3. ASSUME HoldsRows(v)'
        PROVE  PayloadOf(v)' = PayloadOf(v) /\ PayloadOf(v) \in Payloads
    <2>1. worker[v] # Idle BY <1>2, <1>3, IdleStage
    <2>2. worker[v].request \in Requests /\ request[worker[v].request] # Absent
      BY <2>1, InHand DEF DecisionsStand
    <2>3. request'[worker[v].request].payload = request[worker[v].request].payload
      BY <2>2, PayloadsStay
    <2> QED BY <1>2, <1>3, <2>1, <2>2, <2>3, InHand DEF PayloadOf
  <1> QED BY <1>1, <1>2, <1>3

LEMMA RequestLocksKept ==
  ASSUME TypeOK, DecisionsStand, RequestLocksExclude, [Next]_vars
  PROVE  RequestLocksExclude'
  <1>1. ASSUME NEW v \in Workers, NEW w \in Workers, v # w, InTransaction(w)',
               NEW r \in Requests, NEW u \in Users,
               NEW action \in {"approve", "reject"},
               LockRequest(v, r, u, action)
        PROVE  worker'[v].request # worker'[w].request
    <2>1. worker'[w] = worker[w] /\ worker'[v].request = r
      BY <1>1 DEF LockRequest, Decision, TypeOK
    <2>2. InTransaction(w) BY <1>1, <2>1 DEF InTransaction
    <2> QED BY <1>1, <2>1, <2>2 DEF LockRequest, RequestFree
  <1>2. ASSUME NEW v \in Workers, NEW w \in Workers, v # w,
               InTransaction(v)', InTransaction(w)'
        PROVE  worker'[v].request # worker'[w].request
    <2>1. CASE /\ InTransaction(v) /\ worker'[v].request = worker[v].request
               /\ InTransaction(w) /\ worker'[w].request = worker[w].request
      BY <1>2, <2>1 DEF RequestLocksExclude
    <2> QED BY <1>1, <1>2, <2>1, HowInHand
  <1> QED BY <1>2 DEF RequestLocksExclude, InTransaction

LEMMA RowLocksKept ==
  ASSUME TypeOK, DecisionsStand, RowLocksExclude, [Next]_vars
  PROVE  RowLocksExclude'
  <1> DEFINE Apart(p, q) ==
        /\ AssignmentLocks(p) \cap AssignmentLocks(q) = {}
        /\ DestinationLocks(p) \cap DestinationLocks(q) = {}
  <1>1. ASSUME NEW v \in Workers, NEW w \in Workers, v # w, LockRows(v),
               HoldsRows(w)'
        PROVE  Apart(PayloadOf(v), PayloadOf(w))
    <2>1. HoldsRows(w) BY <1>1, LockRowsKeeps DEF HoldsRows
    <2> QED BY <1>1, <2>1 DEF LockRows, RowsFree
  <1>2. ASSUME NEW v \in Workers, NEW w \in Workers, v # w,
               HoldsRows(v)', HoldsRows(w)'
        PROVE  Apart(PayloadOf(v)', PayloadOf(w)')
    <2>1. PayloadOf(v)' = PayloadOf(v) /\ PayloadOf(w)' = PayloadOf(w)
      BY <1>2, HowInHand
    <2>2. Apart(PayloadOf(v), PayloadOf(w))
      <3>1. CASE HoldsRows(v) /\ HoldsRows(w)
        BY <1>2, <3>1 DEF RowLocksExclude
      <3>2. CASE LockRows(v)
        BY <1>1, <1>2, <3>2
      <3>3. CASE LockRows(w)
        <4>1. Apart(PayloadOf(w), PayloadOf(v)) BY <1>1, <1>2, <3>3
        <4> QED BY <4>1
      <3> QED BY <1>2, <3>1, <3>2, <3>3, HowHeld
    <2> QED BY <2>1, <2>2
  <1> QED BY <1>2 DEF RowLocksExclude, AssignmentLocks, DestinationLocks

(* While a transaction is open, nobody else changes the request it locked.  *)
LEMMA LockedRequestStays ==
  ASSUME TypeOK, DecisionsStand, RequestLocksExclude, [Next]_vars,
         NEW w \in Workers, InTransaction(w), InTransaction(w)'
  PROVE  request'[worker[w].request] = request[worker[w].request]
  <1> DEFINE r == worker[w].request
  <1>1. r \in Requests /\ request[r] # Absent
    BY InHand, IdleStage DEF DecisionsStand
  <1>2. ASSUME NEW q \in Requests, NEW u \in Users, NEW p \in Submitted,
               Create(q, u, p)
        PROVE  request'[r] = request[r]
    BY <1>1, <1>2 DEF Create, TypeOK
  <1>3. ASSUME NEW v \in Workers, CommitApproval(v) \/ CommitRejection(v)
        PROVE  request'[r] = request[r]
    <2>1. InTransaction(v)
      BY <1>3 DEF CommitApproval, CommitRejection, HoldsRows, InTransaction
    <2>2. ~InTransaction(v)'
      <3>1. worker[v] \in Decisions BY <2>1, InHand, IdleStage
      <3>2. worker'[v].stage \in {"idle", "committed"}
        BY <1>3, <3>1 DEF CommitApproval, CommitRejection, Decisions, Idle, TypeOK
      <3> QED BY <3>2 DEF InTransaction
    <2>3. worker[v].request # r
      BY <2>1, <2>2 DEF RequestLocksExclude
    <2> QED
      BY <1>1, <1>3, <2>3 DEF CommitApproval, CommitRejection, TypeOK
  <1> QED
    BY <1>2, <1>3
       DEF Next, Step, LockRequest, RefuseDecision, LockRows, RefuseChange,
           Invalidate, Abort, Expire, Bootstrap, vars

LEMMA DecisionsKept ==
  ASSUME TypeOK, DecisionsStand, RequestLocksExclude, [Next]_vars
  PROVE  DecisionsStand'
  <1>1. ASSUME NEW w \in Workers, worker'[w] # Idle
        PROVE  request'[worker'[w].request] # Absent
    <2>1. CASE worker[w] # Idle /\ worker'[w].request = worker[w].request
      BY <2>1, InHand, PayloadsStay DEF DecisionsStand
    <2>2. CASE \E r \in Requests, u \in Users, action \in {"approve", "reject"} :
                 LockRequest(w, r, u, action)
      BY <2>2 DEF LockRequest, Decision, TypeOK
    <2>3. \/ worker[w] # Idle /\ worker'[w].request = worker[w].request
          \/ \E r \in Requests, u \in Users, action \in {"approve", "reject"} :
               LockRequest(w, r, u, action)
      <3>1. ASSUME NEW v \in Workers, CommitApproval(v)
            PROVE  worker[w] # Idle /\ worker'[w].request = worker[w].request
        <4>1. worker[v] \in Decisions
          BY <3>1, InHand DEF CommitApproval, HoldsRows, Idle
        <4>2. worker[v] # Idle BY <3>1 DEF CommitApproval, HoldsRows, Idle
        <4>3. [worker[v] EXCEPT !.stage = "committed"].request = worker[v].request
          BY <4>1 DEF Decisions
        <4> QED BY <1>1, <3>1, <4>2, <4>3 DEF CommitApproval, TypeOK
      <3>2. ASSUME NEW v \in Workers, LockRows(v)
            PROVE  worker[w] # Idle /\ worker'[w].request = worker[w].request
        BY <1>1, <3>2, LockRowsKeeps, IdleStage
      <3>3. ASSUME NEW v \in Workers,
                   \/ CommitRejection(v) \/ RefuseChange(v)
                   \/ Invalidate(v) \/ Abort(v)
            PROVE  worker[w] # Idle /\ worker'[w].request = worker[w].request
        BY <1>1, <3>3
           DEF CommitRejection, RefuseChange, Invalidate, Abort, TypeOK
      <3>4. ASSUME NEW v \in Workers, NEW r \in Requests, NEW u \in Users,
                   NEW action \in {"approve", "reject"},
                   LockRequest(v, r, u, action), v # w
            PROVE  worker[w] # Idle /\ worker'[w].request = worker[w].request
        BY <1>1, <3>4 DEF LockRequest, TypeOK
      <3> QED
        BY <1>1, <3>1, <3>2, <3>3, <3>4
           DEF Next, Step, Create, RefuseDecision, Expire, Bootstrap, vars
    <2> QED BY <2>1, <2>2, <2>3
  <1>2. ASSUME NEW w \in Workers, InTransaction(w)'
        PROVE  MayDecide(worker[w].request, worker[w].actor)'
    <2>1. CASE \E r \in Requests, u \in Users, action \in {"approve", "reject"} :
                 LockRequest(w, r, u, action)
      BY <2>1 DEF LockRequest, Decision, MayDecide, TypeOK
    <2>2. CASE /\ InTransaction(w)
               /\ worker'[w].request = worker[w].request
               /\ worker'[w].actor = worker[w].actor
      BY <1>2, <2>2, LockedRequestStays DEF MayDecide, DecisionsStand
    <2> QED BY <1>2, <2>1, <2>2, HowHeld, LockRowsKeeps
  <1>3. ASSUME NEW w \in Workers, HoldsRows(w)'
        PROVE  worker'[w].action = "approve"
    <2>1. CASE HoldsRows(w) /\ worker'[w] = worker[w]
      BY <2>1 DEF DecisionsStand
    <2>2. CASE LockRows(w)
      BY <2>2, LockRowsKeeps DEF LockRows, Approving
    <2> QED BY <1>3, <2>1, <2>2, HowHeld
  <1> QED BY <1>1, <1>2, <1>3 DEF DecisionsStand
-----------------------------------------------------------------------------
(* What _execute requires is what the ledger asks for: of two valid super   *)
(* admins, one is not the target.                                           *)
LEMMA AllowedApplicable ==
  ASSUME NEW p \in Payloads, TypeOK, Allowed(p)
  PROVE  StillApplicable(p)
  <1>1. ASSUME RevokesSuper(p)
        PROVE  \E u \in Users \ {p.target} : assignment[<<u, Super>>] # "none"
    <2> DEFINE admins == ValidSuperAdmins(assignment)
    <2>1. IsFiniteSet(admins)
      BY UsersAssumption, FS_Subset DEF ValidSuperAdmins
    <2>2. Cardinality(admins) > 1 BY <1>1 DEF Allowed
    <2>3. Cardinality({p.target}) = 1 BY FS_Singleton
    <2>4. Cardinality({}) = 0 BY FS_EmptySet
    <2> HIDE DEF admins
    <2>5. admins # {p.target} /\ admins # {} BY <2>2, <2>3, <2>4
    <2>6. \E u \in admins : u # p.target BY <2>5
    <2> QED BY <2>6 DEF admins, ValidSuperAdmins, Valid
  <1> QED BY <1>1 DEF Allowed, StillApplicable

(* An approval locks the assignments it may change. *)
LEMMA ChangesLocked ==
  ASSUME NEW p \in Payloads
  PROVE  /\ AssignmentLocks(p) \subseteq Keys
         /\ IsAssignmentChange(p) => KeyOf(p) \in AssignmentLocks(p)
         /\ RevokesSuper(p) => AssignmentLocks(p) = SuperKeys
         /\ p.op = "bulk_publish" => DestinationLocks(p) = p.destinations
  BY PayloadParts, SuperAssumption
     DEF AssignmentLocks, DestinationLocks, IsAssignmentChange, RevokesSuper,
         KeyOf, Keys, SuperKeys

(* So a change stays possible as long as its locked rows are left alone,    *)
(* but for the closing of a validity window.                                *)
LEMMA UntouchedApplicable ==
  ASSUME NEW p \in Payloads, StillApplicable(p),
         \A k \in AssignmentLocks(p) :
           assignment'[k] = "none" <=> assignment[k] = "none",
         \A d \in DestinationLocks(p) : destination'[d] = destination[d]
  PROVE  StillApplicable(p)'
  <1>1. IsAssignmentChange(p) =>
          (assignment'[KeyOf(p)] = "none" <=> assignment[KeyOf(p)] = "none")
    BY ChangesLocked
  <1>2. ASSUME RevokesSuper(p)
        PROVE  \E u \in Users \ {p.target} : assignment'[<<u, Super>>] # "none"
    <2>1. PICK u \in Users \ {p.target} : assignment[<<u, Super>>] # "none"
      BY <1>2 DEF StillApplicable
    <2>2. <<u, Super>> \in AssignmentLocks(p)
      BY <1>2, ChangesLocked DEF SuperKeys
    <2> QED BY <2>1, <2>2
  <1>3. p.op = "bulk_publish" =>
          \A d \in p.destinations : destination'[d] \in Publishable
    BY ChangesLocked DEF StillApplicable
  <1> QED
    BY <1>1, <1>2, <1>3
       DEF StillApplicable, IsAssignmentChange, KeyOf, RevokesSuper

(* The writes of an approval leave rows it has not locked alone. *)
LEMMA WritesLocal ==
  ASSUME NEW q \in Payloads, TypeOK
  PROVE  /\ \A k \in Keys \ AssignmentLocks(q) :
              AssignmentAfter(assignment, q)[k] = assignment[k]
         /\ \A d \in Destinations \ DestinationLocks(q) :
              DestinationAfter(destination, q)[d] = destination[d]
  <1>1. ASSUME NEW k \in Keys \ AssignmentLocks(q)
        PROVE  AssignmentAfter(assignment, q)[k] = assignment[k]
    <2>1. IsAssignmentChange(q) => KeyOf(q) # k BY ChangesLocked
    <2> QED BY <2>1, PayloadParts DEF AssignmentAfter, IsAssignmentChange, TypeOK
  <1>2. ASSUME NEW d \in Destinations \ DestinationLocks(q)
        PROVE  DestinationAfter(destination, q)[d] = destination[d]
    BY ChangesLocked DEF DestinationAfter
  <1> QED BY <1>1, <1>2

LEMMA ChangesKept ==
  ASSUME TypeOK, DecisionsStand, RowLocksExclude, ChangesStand, [Next]_vars
  PROVE  ChangesStand'
  <1> SUFFICES ASSUME NEW w \in Workers, HoldsRows(w)'
               PROVE  StillApplicable(PayloadOf(w))'
    BY DEF ChangesStand, HoldsRows
  <1> DEFINE p == PayloadOf(w)
  <1>1. p \in Payloads /\ PayloadOf(w)' = p BY HowInHand
  <1>2. CASE LockRows(w)
    <2>1. StillApplicable(p) BY <1>1, <1>2, AllowedApplicable DEF LockRows
    <2>2. assignment' = assignment /\ destination' = destination
      BY <1>2 DEF LockRows
    <2> QED BY <1>1, <2>1, <2>2 DEF StillApplicable
  <1>3. CASE HoldsRows(w) /\ worker'[w] = worker[w]
    <2>1. StillApplicable(p) BY <1>3 DEF ChangesStand
    <2>2. AssignmentLocks(p) \subseteq Keys BY <1>1, ChangesLocked
    <2>3. DestinationLocks(p) \subseteq Destinations
      BY <1>1, PayloadParts DEF DestinationLocks
    <2> DEFINE Untouched ==
          /\ \A k \in AssignmentLocks(p) :
               assignment'[k] = "none" <=> assignment[k] = "none"
          /\ \A d \in DestinationLocks(p) : destination'[d] = destination[d]
    <2>4. ASSUME NEW v \in Workers, CommitApproval(v)
          PROVE  Untouched
      <3>1. v # w
        <4>1. worker'[v].stage # "rows_locked"
          <5>1. worker[v] \in Decisions
            BY <2>4, InHand DEF CommitApproval, HoldsRows, Idle
          <5> QED BY <2>4, <5>1 DEF CommitApproval, Decisions, Idle, TypeOK
        <4> QED BY <4>1 DEF HoldsRows
      <3>2. HoldsRows(v) BY <2>4 DEF CommitApproval
      <3>3. PayloadOf(v) \in Payloads
        BY <3>2, InHand, IdleStage DEF DecisionsStand
      <3>4. /\ AssignmentLocks(p) \cap AssignmentLocks(PayloadOf(v)) = {}
            /\ DestinationLocks(p) \cap DestinationLocks(PayloadOf(v)) = {}
        BY <1>3, <3>1, <3>2 DEF RowLocksExclude
      <3>5. /\ assignment' = AssignmentAfter(assignment, PayloadOf(v))
            /\ destination' = DestinationAfter(destination, PayloadOf(v))
        BY <2>4 DEF CommitApproval
      <3> QED BY <2>2, <2>3, <3>3, <3>4, <3>5, WritesLocal
    <2>5. ASSUME NEW k \in Keys, Expire(k)
          PROVE  Untouched
      BY <2>2, <2>5 DEF Expire, TypeOK
    <2>6. ASSUME NEW u \in Users, Bootstrap(u)
          PROVE  Untouched
      <3>1. <<u, Super>> \notin AssignmentLocks(p)
        BY <1>3, <2>6 DEF Bootstrap, SuperKeys
      <3> QED BY <2>2, <2>6, <3>1 DEF Bootstrap, TypeOK
    <2>7. Untouched
      BY <2>4, <2>5, <2>6
         DEF Next, Step, Create, LockRequest, RefuseDecision, LockRows,
             RefuseChange, CommitRejection, Invalidate, Abort, vars
    <2>8. StillApplicable(p)'
      BY <1>1, <2>1, <2>7, UntouchedApplicable
    <2> QED BY <2>8
  <1> QED BY <1>2, <1>3, HowHeld
-----------------------------------------------------------------------------
LEMMA InitInductive == Init => IInv
  <1> SUFFICES ASSUME Init PROVE IInv
    OBVIOUS
  <1>1. TypeOK BY InitTyped
  <1>2. \A w \in Workers : worker[w] = Idle BY DEF Init
  <1>3. \A w \in Workers : ~InTransaction(w) /\ ~HoldsRows(w)
    BY <1>1, <1>2, IdleStage
  <1> QED
    BY <1>1, <1>2, <1>3
       DEF IInv, RequestLocksExclude, RowLocksExclude, DecisionsStand,
           ChangesStand

LEMMA StepInductive == IInv /\ [Next]_vars => IInv'
  BY StepTyped, RequestLocksKept, RowLocksKept, DecisionsKept, ChangesKept
     DEF IInv

(* The locks do what the decisions rely on: nothing a transaction has       *)
(* checked under lock changes before it commits (approve, _execute).        *)
THEOREM ChecksStandUntilCommit == Spec => []IInv
  <1>1. Init => IInv BY InitInductive
  <1>2. IInv /\ [Next]_vars => IInv' BY StepInductive
  <1> QED BY <1>1, <1>2, PTL DEF Spec

(* Every row of the four tables and every invocation's state has its type.  *)
THEOREM TypeCorrect == Spec => []TypeOK
  <1>1. IInv => TypeOK BY DEF IInv
  <1> QED BY <1>1, ChecksStandUntilCommit, PTL
-----------------------------------------------------------------------------
(* The ledger reads the same vocabulary, on the same tables. *)
LEMMA SameVocabulary ==
  /\ Ledger!Payloads = Payloads
  /\ Ledger!Keys = Keys
  /\ Ledger!Absent = Absent
  /\ \A p : Ledger!Applicable(p) <=> StillApplicable(p)
  /\ \A p : Ledger!AssignmentAfter(assignment, p) = AssignmentAfter(assignment, p)
  /\ \A p : Ledger!DestinationAfter(destination, p) = DestinationAfter(destination, p)
  /\ \A p : Ledger!JobsAfter(jobs, p) = JobsAfter(jobs, p)
  /\ \A u, p : Ledger!NewRequest(u, p) = NewRequest(u, p)
  /\ \A row, status, u : Ledger!Decided(row, status, u) = Decided(row, status, u)
  /\ \A action, x, u : Ledger!Entry(action, x, u) = Entry(action, x, u)
  <1>1. Ledger!Payloads = Payloads
    BY DEF Ledger!Payloads, Payloads, Ledger!Grants, Grants, Ledger!Revokes,
           Revokes, Ledger!BulkPublishes, BulkPublishes, Ledger!Cardinality,
           Cardinality
  <1>2. Ledger!Keys = Keys BY DEF Ledger!Keys, Keys
  <1>3. \A p : Ledger!Applicable(p) <=> StillApplicable(p)
    BY DEF Ledger!Applicable, StillApplicable, Ledger!KeyOf, KeyOf,
           Ledger!RevokesSuper, RevokesSuper, Ledger!Publishable, Publishable
  <1>4. \A p : Ledger!AssignmentAfter(assignment, p) = AssignmentAfter(assignment, p)
    BY DEF Ledger!AssignmentAfter, AssignmentAfter, Ledger!KeyOf, KeyOf
  <1>5. \A p : Ledger!DestinationAfter(destination, p) = DestinationAfter(destination, p)
    BY DEF Ledger!DestinationAfter, DestinationAfter
  <1>6. \A p : Ledger!JobsAfter(jobs, p) = JobsAfter(jobs, p)
    BY DEF Ledger!JobsAfter, JobsAfter, Ledger!PublishJobTypes, PublishJobTypes
  <1>7. /\ Ledger!Absent = Absent
        /\ \A u, p : Ledger!NewRequest(u, p) = NewRequest(u, p)
        /\ \A row, status, u :
             Ledger!Decided(row, status, u) = Decided(row, status, u)
        /\ \A action, x, u : Ledger!Entry(action, x, u) = Entry(action, x, u)
    BY DEF Ledger!Absent, Absent, Ledger!NewRequest, NewRequest,
           Ledger!Decided, Decided, Ledger!Entry, Entry
  <1> QED BY <1>1, <1>2, <1>3, <1>4, <1>5, <1>6, <1>7

LEMMA InitMaps == Init => Ledger!Init
  BY DEF Init, Ledger!Init, Ledger!InitialAssignments, InitialAssignments,
         Ledger!Absent, Absent, Ledger!Keys, Keys, Ledger!Valid, Valid,
         Ledger!PublishJobTypes, PublishJobTypes

(* Every step is a step of the ledger, or leaves it alone. *)
LEMMA StepMaps ==
  ASSUME IInv, [Next]_vars
  PROVE  [Ledger!Next]_(Ledger!ledgerVars)
  <1> USE DEF IInv
  <1>1. ASSUME NEW r \in Requests, NEW u \in Users, NEW p \in Submitted,
               Create(r, u, p)
        PROVE  Ledger!Next
    <2>1. p \in Ledger!Payloads BY SubmittedAssumption, SameVocabulary
    <2>2. Ledger!Submit(r, u, p)
      BY <1>1, SameVocabulary DEF Create, Ledger!Submit
    <2> QED BY <2>1, <2>2 DEF Ledger!Next
  <1>2. ASSUME NEW w \in Workers, CommitApproval(w)
        PROVE  Ledger!Next
    <2> DEFINE r == worker[w].request
               u == worker[w].actor
    <2>1. HoldsRows(w) /\ worker[w] # Idle
      BY <1>2, IdleStage DEF CommitApproval
    <2>2. r \in Requests /\ u \in Users /\ request[r] # Absent
      BY <2>1, InHand DEF DecisionsStand
    <2>3. request[r].status = "pending" /\ request[r].requestedBy # u
      BY <1>2 DEF CommitApproval, Finishable, MayDecide
    <2>4. StillApplicable(request[r].payload)
      BY <2>1 DEF ChangesStand, PayloadOf
    <2>5. Ledger!Execute(r, u)
      BY <1>2, <2>2, <2>3, <2>4, SameVocabulary
         DEF CommitApproval, Ledger!Execute, PayloadOf
    <2> QED BY <2>2, <2>5 DEF Ledger!Next
  <1>3. ASSUME NEW w \in Workers, CommitRejection(w)
        PROVE  Ledger!Next
    <2> DEFINE r == worker[w].request
               u == worker[w].actor
    <2>1. worker[w] # Idle BY <1>3 DEF CommitRejection, Idle
    <2>2. r \in Requests /\ u \in Users /\ request[r] # Absent
      BY <2>1, InHand DEF DecisionsStand
    <2>3. Ledger!Reject(r, u)
      BY <1>3, <2>2, SameVocabulary
         DEF CommitRejection, Finishable, MayDecide, Ledger!Reject
    <2> QED BY <2>2, <2>3 DEF Ledger!Next
  <1>4. ASSUME NEW k \in Keys, Expire(k)
        PROVE  Ledger!Next
    <2>1. Ledger!Expire(k) BY <1>4 DEF Expire, Ledger!Expire
    <2> QED BY <2>1, SameVocabulary DEF Ledger!Next
  <1>5. ASSUME NEW u \in Users, Bootstrap(u)
        PROVE  Ledger!Next
    <2>1. Ledger!Bootstrap(u)
      BY <1>5, SameVocabulary
         DEF Bootstrap, Ledger!Bootstrap, Ledger!ValidSuperAdmins,
             ValidSuperAdmins, Ledger!Valid, Valid
    <2> QED BY <2>1 DEF Ledger!Next
  <1> QED
    BY <1>1, <1>2, <1>3, <1>4, <1>5
       DEF Next, Step, LockRequest, RefuseDecision, LockRows, RefuseChange,
           Invalidate, Abort, vars, Ledger!ledgerVars

(* The locking transactions of approve and reject implement indivisible     *)
(* decisions whose change is possible at the instant it is made.            *)
THEOREM ImplementsLedger == Spec => LedgerImplemented
  <1>1. Init => Ledger!Init BY InitMaps
  <1>2. IInv /\ [Next]_vars => [Ledger!Next]_(Ledger!ledgerVars) BY StepMaps
  <1> QED
    BY <1>1, <1>2, ChecksStandUntilCommit, PTL
       DEF Spec, LedgerImplemented, Ledger!Spec
-----------------------------------------------------------------------------
(* What a commit writes, given the locks: the step in the ledger's terms.   *)
LEMMA CommitWrites ==
  ASSUME IInv, NEW w \in Workers, CommitApproval(w)
  PROVE  /\ worker[w].request \in Requests /\ worker[w].actor \in Users
         /\ request[worker[w].request] \in ChangeRequests
         /\ request[worker[w].request].status = "pending"
         /\ PayloadOf(w) \in Payloads
         /\ StillApplicable(PayloadOf(w))
         /\ assignment' = AssignmentAfter(assignment, PayloadOf(w))
         /\ request' = [request EXCEPT ![worker[w].request] =
                          Decided(@, "executed", worker[w].actor)]
  <1>1. HoldsRows(w) BY DEF CommitApproval
  <1>2. TypeOK BY DEF IInv
  <1>3. worker[w] # Idle BY <1>1, <1>2, IdleStage
  <1> QED
    BY <1>1, <1>2, <1>3, InHand
       DEF IInv, ChangesStand, DecisionsStand, CommitApproval, Finishable,
           MayDecide

LEMMA SuperAdminStep ==
  ASSUME IInv, [Next]_vars, SuperAdminAssigned
  PROVE  SuperAdminAssigned'
  <1> USE DEF IInv, TypeOK
  <1>1. ASSUME NEW w \in Workers, CommitApproval(w)
        PROVE  SuperAdminAssigned'
    <2> DEFINE p == PayloadOf(w)
    <2>1. /\ p \in Payloads /\ StillApplicable(p)
          /\ assignment' = AssignmentAfter(assignment, p)
      BY <1>1, CommitWrites
    <2>2. CASE RevokesSuper(p)
      <3>1. PICK u \in Users \ {p.target} : assignment[<<u, Super>>] # "none"
        BY <2>1, <2>2 DEF StillApplicable
      <3>2. <<u, Super>> # KeyOf(p) BY <3>1 DEF KeyOf
      <3>3. assignment'[<<u, Super>>] = assignment[<<u, Super>>]
        BY <2>1, <2>2, <3>2, SuperAssumption
           DEF AssignmentAfter, RevokesSuper, Keys
      <3> QED BY <3>1, <3>3 DEF SuperAdminAssigned
    <2>3. CASE ~RevokesSuper(p)
      <3>1. PICK u \in Users : assignment[<<u, Super>>] # "none"
        BY DEF SuperAdminAssigned
      <3>2. CASE p.op = "revoke"
        <4>1. <<u, Super>> # KeyOf(p) BY <2>3, <3>2 DEF RevokesSuper, KeyOf
        <4>2. assignment'[<<u, Super>>] = assignment[<<u, Super>>]
          BY <2>1, <3>2, <4>1, SuperAssumption DEF AssignmentAfter, Keys
        <4> QED BY <3>1, <4>2 DEF SuperAdminAssigned
      <3>3. CASE p.op # "revoke"
        <4>1. <<u, Super>> \in Keys BY SuperAssumption DEF Keys
        <4>2. assignment'[<<u, Super>>] # "none"
          BY <2>1, <3>1, <3>3, <4>1 DEF AssignmentAfter
        <4> QED BY <4>2 DEF SuperAdminAssigned
      <3> QED BY <3>2, <3>3
    <2> QED BY <2>2, <2>3
  <1>2. ASSUME NEW k \in Keys, Expire(k)
        PROVE  SuperAdminAssigned'
    BY <1>2, SuperAssumption DEF Expire, SuperAdminAssigned, Keys
  <1>3. ASSUME NEW u \in Users, Bootstrap(u)
        PROVE  SuperAdminAssigned'
    BY <1>3, SuperAssumption DEF Bootstrap, SuperAdminAssigned, Keys
  <1> QED
    BY <1>1, <1>2, <1>3
       DEF Next, Step, Create, LockRequest, RefuseDecision, LockRows,
           RefuseChange, CommitRejection, Invalidate, Abort, vars,
           SuperAdminAssigned

(* Whatever revocations are approved at once, the organization keeps a      *)
(* super admin assignment (_revoke_role's FOR UPDATE count).                *)
THEOREM LastSuperAdminStays == Spec => SuperAdminKept
  <1>1. IInv /\ [Next]_vars => (SuperAdminAssigned => SuperAdminAssigned')
    BY SuperAdminStep
  <1> QED
    BY <1>1, ChecksStandUntilCommit, PTL DEF Spec, SuperAdminKept
-----------------------------------------------------------------------------
(* The evidence a decision adds names its own request, so the rest of the   *)
(* trail is about other requests and other statuses.                        *)
LEMMA EvidenceStep ==
  ASSUME IInv, EvidenceTellsDecision, [Next]_vars
  PROVE  EvidenceTellsDecision'
  <1> USE DEF IInv, TellsDecision, DecidedBy
  <1>1. ASSUME NEW q \in Requests, NEW v \in Users, NEW p \in Submitted,
               Create(q, v, p)
        PROVE  EvidenceTellsDecision'
    <2> SUFFICES ASSUME NEW r \in Requests, NEW u \in Users
                 PROVE  TellsDecision(r, u)'
      BY DEF EvidenceTellsDecision
    <2>1. \A action \in {"execute", "approve", "reject"} :
            Entry(action, r, u) \in evidence' <=> Entry(action, r, u) \in evidence
      BY <1>1 DEF Create, Entry
    <2>2. CASE r = q
      <3>1. request[r].status = "absent" /\ request'[r].status = "pending"
        BY <1>1, <2>2 DEF Create, Absent, NewRequest, TypeOK
      <3> QED BY <2>1, <3>1 DEF EvidenceTellsDecision
    <2>3. CASE r # q
      <3>1. request'[r] = request[r] BY <1>1, <2>3 DEF Create, TypeOK
      <3> QED BY <2>1, <3>1 DEF EvidenceTellsDecision
    <2> QED BY <2>2, <2>3
  <1>2. ASSUME NEW q \in Requests, NEW v \in Users,
               NEW status \in {"executed", "rejected"}, NEW actions,
               actions = IF status = "executed" THEN {"execute", "approve"}
                                                ELSE {"reject"},
               request[q] \in ChangeRequests,
               request[q].status = "pending", request[q].requestedBy # v,
               request' = [request EXCEPT ![q] = Decided(@, status, v)],
               evidence' = evidence \cup {Entry(a, q, v) : a \in actions}
        PROVE  EvidenceTellsDecision'
    <2> SUFFICES ASSUME NEW r \in Requests, NEW u \in Users
                 PROVE  TellsDecision(r, u)'
      BY DEF EvidenceTellsDecision
    <2>1. \A action \in {"execute", "approve", "reject"} :
            Entry(action, r, u) \in evidence' <=>
              \/ Entry(action, r, u) \in evidence
              \/ action \in actions /\ r = q /\ u = v
      BY <1>2 DEF Entry
    <2>2. CASE r = q
      <3>1. \A action \in {"execute", "approve", "reject"} :
              Entry(action, r, u) \notin evidence
        BY <1>2, <2>2 DEF EvidenceTellsDecision
      <3>2. /\ request'[r].status = status
            /\ request'[r].decidedBy = v
            /\ request'[r].requestedBy = request[q].requestedBy
        BY <1>2, <2>2 DEF Decided, TypeOK
      <3> QED BY <1>2, <2>1, <2>2, <3>1, <3>2
    <2>3. CASE r # q
      <3>1. request'[r] = request[r] BY <1>2, <2>3 DEF TypeOK
      <3> QED BY <2>1, <2>3, <3>1 DEF EvidenceTellsDecision
    <2> QED BY <2>2, <2>3
  <1>3. ASSUME NEW w \in Workers, CommitApproval(w)
        PROVE  EvidenceTellsDecision'
    <2> DEFINE r == worker[w].request
               u == worker[w].actor
    <2>1. /\ r \in Requests /\ u \in Users /\ request[r] \in ChangeRequests
          /\ request[r].status = "pending" /\ request[r].requestedBy # u
          /\ request' = [request EXCEPT ![r] = Decided(@, "executed", u)]
      BY <1>3, CommitWrites DEF CommitApproval, Finishable, MayDecide
    <2>2. evidence' = evidence \cup {Entry(a, r, u) : a \in {"execute", "approve"}}
      BY <1>3 DEF CommitApproval
    <2> QED BY <1>2, <2>1, <2>2
  <1>4. ASSUME NEW w \in Workers, CommitRejection(w)
        PROVE  EvidenceTellsDecision'
    <2> DEFINE r == worker[w].request
               u == worker[w].actor
    <2>1. worker[w] # Idle BY <1>4 DEF CommitRejection, Idle
    <2>2. /\ r \in Requests /\ u \in Users /\ request[r] \in ChangeRequests
      BY <2>1, InHand DEF DecisionsStand
    <2>3. /\ request[r].status = "pending" /\ request[r].requestedBy # u
          /\ request' = [request EXCEPT ![r] = Decided(@, "rejected", u)]
          /\ evidence' = evidence \cup {Entry(a, r, u) : a \in {"reject"}}
      BY <1>4 DEF CommitRejection, Finishable, MayDecide
    <2> QED BY <1>2, <2>2, <2>3
  <1>5. ASSUME NEW v \in Users, Bootstrap(v)
        PROVE  EvidenceTellsDecision'
    <2>1. \A r \in Requests, u \in Users,
             action \in {"execute", "approve", "reject"} :
            Entry(action, r, u) \in evidence' <=> Entry(action, r, u) \in evidence
      BY <1>5 DEF Bootstrap, Entry
    <2>2. request' = request BY <1>5 DEF Bootstrap
    <2> QED BY <2>1, <2>2 DEF EvidenceTellsDecision
  <1>6. CASE UNCHANGED <<request, evidence>>
    BY <1>6 DEF EvidenceTellsDecision
  <1> QED
    BY <1>1, <1>3, <1>4, <1>5, <1>6
       DEF Next, Step, LockRequest, RefuseDecision, LockRows, RefuseChange,
           Invalidate, Abort, Expire, vars

(* "No executed change can lack evidence" (approve's strict audit rows),    *)
(* and no evidence lacks its change.                                        *)
THEOREM EvidenceIsExact == Spec => []EvidenceTellsDecision
  <1>1. Init => EvidenceTellsDecision
    BY DEF Init, EvidenceTellsDecision, TellsDecision, DecidedBy, Absent
  <1>2. IInv /\ EvidenceTellsDecision /\ [Next]_vars => EvidenceTellsDecision'
    BY EvidenceStep
  <1> QED BY <1>1, <1>2, ChecksStandUntilCommit, PTL DEF Spec
-----------------------------------------------------------------------------
(* A key is accounted for by facts that no step takes back. *)
LEMMA AccountsStand ==
  ASSUME IInv, [Next]_vars, NEW k \in Keys, AccountedFor(k)
  PROVE  AccountedFor(k)'
  <1> USE DEF IInv
  <1>1. evidence \subseteq evidence'
    BY DEF Next, Step, Create, LockRequest, RefuseDecision, LockRows,
           RefuseChange, CommitApproval, CommitRejection, Invalidate, Abort,
           Expire, Bootstrap, vars
  <1>2. ASSUME NEW r \in Requests, request[r].status = "executed"
        PROVE  request'[r] = request[r]
    <2>1. request[r] # Absent BY <1>2 DEF Absent
    <2>2. ASSUME NEW w \in Workers, CommitApproval(w) \/ CommitRejection(w)
          PROVE  request'[r] = request[r]
      BY <1>2, <2>2
         DEF CommitApproval, CommitRejection, Finishable, MayDecide, TypeOK
    <2> QED
      BY <2>1, <2>2
         DEF Next, Step, Create, LockRequest, RefuseDecision, LockRows,
             RefuseChange, Invalidate, Abort, Expire, Bootstrap, vars, TypeOK
  <1> QED BY <1>1, <1>2 DEF AccountedFor, KeyOf

LEMMA AccountStep ==
  ASSUME IInv, AssignmentsAccountedFor, [Next]_vars
  PROVE  AssignmentsAccountedFor'
  <1> USE DEF IInv
  <1> SUFFICES ASSUME NEW k \in Keys, assignment'[k] # "none"
               PROVE  AccountedFor(k)'
    BY DEF AssignmentsAccountedFor
  <1>1. CASE assignment[k] # "none"
    BY <1>1, AccountsStand DEF AssignmentsAccountedFor
  <1>2. CASE assignment[k] = "none"
    <2>1. ASSUME NEW w \in Workers, CommitApproval(w)
          PROVE  AccountedFor(k)'
      <3> DEFINE r == worker[w].request
                 p == PayloadOf(w)
      <3>1. /\ r \in Requests /\ request[r] \in ChangeRequests
            /\ assignment' = AssignmentAfter(assignment, p)
            /\ request' = [request EXCEPT ![r] =
                             Decided(@, "executed", worker[w].actor)]
        BY <2>1, CommitWrites
      <3>2. p.op = "grant" /\ KeyOf(p) = k
        BY <1>2, <3>1 DEF AssignmentAfter, TypeOK
      <3>3. /\ request'[r].status = "executed"
            /\ request'[r].payload = p
        BY <3>1 DEF Decided, TypeOK, PayloadOf
      <3> QED BY <3>1, <3>2, <3>3 DEF AccountedFor, KeyOf
    <2>2. ASSUME NEW u \in Users, Bootstrap(u)
          PROVE  AccountedFor(k)'
      <3>1. k = <<u, Super>> BY <1>2, <2>2 DEF Bootstrap, TypeOK
      <3> QED BY <2>2, <3>1 DEF Bootstrap, AccountedFor
    <2>3. ASSUME NEW j \in Keys, Expire(j)
          PROVE  FALSE
      BY <1>2, <2>3 DEF Expire, TypeOK
    <2> QED
      BY <1>2, <2>1, <2>2, <2>3
         DEF Next, Step, Create, LockRequest, RefuseDecision, LockRows,
             RefuseChange, CommitRejection, Invalidate, Abort, vars
  <1> QED BY <1>1, <1>2

(* Every active role or region assignment was seeded, bootstrapped, or      *)
(* granted by an executed request for exactly that key.                     *)
THEOREM NoUnaccountedAssignment == Spec => []AssignmentsAccountedFor
  <1>1. Init => AssignmentsAccountedFor
    BY DEF Init, InitialAssignments, AssignmentsAccountedFor, AccountedFor
  <1>2. IInv /\ AssignmentsAccountedFor /\ [Next]_vars => AssignmentsAccountedFor'
    BY AccountStep
  <1> QED BY <1>1, <1>2, ChecksStandUntilCommit, PTL DEF Spec
-----------------------------------------------------------------------------
(* A destination no executed request names has no jobs; one that some       *)
(* executed request names is published, so no other request for it passes.  *)
Reflected(d) ==
    \/ /\ BulkPublishers(d) = {}
       /\ \A t \in PublishJobTypes : jobs[d][t] = 0
    \/ /\ \E r \in Requests : BulkPublishers(d) = {r}
       /\ \A t \in PublishJobTypes : jobs[d][t] = 1
       /\ destination[d] = "published"
Reflection == \A d \in Destinations : Reflected(d)

LEMMA ReflectionStep ==
  ASSUME IInv, Reflection, [Next]_vars
  PROVE  Reflection'
  <1> USE DEF IInv
  <1>1. ASSUME NEW d \in Destinations, BulkPublishers(d)' = BulkPublishers(d),
               jobs'[d] = jobs[d], destination'[d] = destination[d]
        PROVE  Reflected(d)'
    BY <1>1 DEF Reflection, Reflected
  <1>2. ASSUME NEW w \in Workers, CommitApproval(w), NEW d \in Destinations
        PROVE  Reflected(d)'
    <2> DEFINE r == worker[w].request
               p == PayloadOf(w)
               names == p.op = "bulk_publish" /\ d \in p.destinations
    <2>1. /\ r \in Requests /\ request[r] \in ChangeRequests
          /\ request[r].status = "pending"
          /\ p \in Payloads /\ StillApplicable(p)
          /\ request' = [request EXCEPT ![r] =
                           Decided(@, "executed", worker[w].actor)]
      BY <1>2, CommitWrites
    <2>2. /\ destination' = DestinationAfter(destination, p)
          /\ jobs' = JobsAfter(jobs, p)
      BY <1>2 DEF CommitApproval
    <2>3. /\ request'[r].status = "executed"
          /\ request'[r].payload = p
          /\ \A q \in Requests \ {r} : request'[q] = request[q]
      BY <2>1 DEF Decided, TypeOK, PayloadOf
    <2>4. r \notin BulkPublishers(d) BY <2>1 DEF BulkPublishers
    <2>5. CASE names
      <3>1. BulkPublishers(d) = {} /\ \A t \in PublishJobTypes : jobs[d][t] = 0
        BY <2>1, <2>5 DEF StillApplicable, Reflection, Reflected, Publishable
      <3>2. BulkPublishers(d)' = {r}
        BY <2>1, <2>3, <2>5, <3>1 DEF BulkPublishers
      <3>3. \A t \in PublishJobTypes : jobs'[d][t] = 1
        BY <2>2, <2>5, <3>1 DEF JobsAfter
      <3>4. destination'[d] = "published"
        BY <2>2, <2>5 DEF DestinationAfter
      <3> QED BY <2>1, <3>2, <3>3, <3>4 DEF Reflected
    <2>6. CASE ~names
      <3>1. BulkPublishers(d)' = BulkPublishers(d)
        BY <2>3, <2>4, <2>6 DEF BulkPublishers
      <3>2. jobs'[d] = jobs[d] /\ destination'[d] = destination[d]
        BY <2>2, <2>6 DEF JobsAfter, DestinationAfter
      <3> QED BY <1>1, <3>1, <3>2
    <2> QED BY <2>5, <2>6
  <1>3. ASSUME NEW r \in Requests, NEW u \in Users, NEW p \in Submitted,
               Create(r, u, p), NEW d \in Destinations
        PROVE  BulkPublishers(d)' = BulkPublishers(d)
    BY <1>3 DEF Create, BulkPublishers, NewRequest, Absent, TypeOK
  <1>4. ASSUME NEW w \in Workers, CommitRejection(w), NEW d \in Destinations
        PROVE  BulkPublishers(d)' = BulkPublishers(d)
    <2> DEFINE r == worker[w].request
    <2>1. r \in Requests /\ request[r].status = "pending"
      BY <1>4, InHand DEF CommitRejection, Finishable, MayDecide, Idle
    <2>2. /\ request'[r].status = "rejected"
          /\ \A q \in Requests \ {r} : request'[q] = request[q]
      BY <1>4, <2>1 DEF CommitRejection, Decided, TypeOK
    <2> QED BY <2>1, <2>2 DEF BulkPublishers
  <1>5. ASSUME UNCHANGED request, NEW d \in Destinations
        PROVE  BulkPublishers(d)' = BulkPublishers(d)
    BY <1>5 DEF BulkPublishers
  <1>6. CASE \E w \in Workers : CommitApproval(w)
    BY <1>2, <1>6 DEF Reflection
  <1>7. CASE /\ UNCHANGED <<jobs, destination>>
             /\ \A d \in Destinations : BulkPublishers(d)' = BulkPublishers(d)
    BY <1>1, <1>7 DEF Reflection
  <1> QED
    BY <1>3, <1>4, <1>5, <1>6, <1>7
       DEF Next, Step, Create, LockRequest, RefuseDecision, LockRows,
           RefuseChange, CommitRejection, Invalidate, Abort, Expire, Bootstrap,
           vars

(* Overlapping bulk publications queue a destination's jobs once.           *)
THEOREM JobsQueuedOnce == Spec => []ReflectedOnce
  <1>1. Init => Reflection
    BY DEF Init, Reflection, Reflected, BulkPublishers, Absent
  <1>2. IInv /\ Reflection /\ [Next]_vars => Reflection'
    BY ReflectionStep
  <1>3. Reflection => ReflectedOnce
    <2>1. \A x : Cardinality({x}) = 1 BY FS_Singleton
    <2>2. Cardinality({}) = 0 BY FS_EmptySet
    <2>3. ASSUME NEW d \in Destinations, NEW t \in PublishJobTypes, Reflected(d)
          PROVE  jobs[d][t] = Cardinality(BulkPublishers(d)) /\ jobs[d][t] <= 1
      <3>1. CASE BulkPublishers(d) = {} /\ jobs[d][t] = 0
        BY <2>2, <3>1
      <3>2. CASE jobs[d][t] = 1 /\ \E r \in Requests : BulkPublishers(d) = {r}
        <4>1. Cardinality(BulkPublishers(d)) = 1 BY <2>1, <3>2
        <4> QED BY <3>2, <4>1
      <3> QED BY <2>3, <3>1, <3>2 DEF Reflected
    <2> QED BY <2>3 DEF Reflection, ReflectedOnce
  <1> QED BY <1>1, <1>2, <1>3, ChecksStandUntilCommit, PTL DEF Spec
=============================================================================
