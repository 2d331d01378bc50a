------------------------------ MODULE MCAuthz ------------------------------
(***************************************************************************)
(* MCAuthz.cfg: one super admin, whose grant of the role to a second user  *)
(* was executed or rejected before; the other request then grants it or    *)
(* revokes the first super admin's.  Every scope is the super admin's.     *)
(* MCAuthzStale.cfg: two super admins, one of whom is revoked or granted a *)
(* region while a login derives and caches its authority.                  *)
(***************************************************************************)
EXTENDS Authz

CONSTANTS u1, u2, region, super, r1, r2, w1, l1

MCUsers == {u1, u2}
MCScopes == {super, region}
MCSuperOnly == {super}
MCSeededOne == {<<u1, super>>}
MCSeededTwo == {<<u1, super>>, <<u2, super>>}

Revoke(u) == [op |-> "revoke", target |-> u, scope |-> super]
Grant(u, s) == [op |-> "grant", target |-> u, scope |-> s, temporary |-> TRUE]
MCSucceeded == {Grant(u2, super), Revoke(u1), Grant(u2, region)}
MCRevoked == {Revoke(u2), Grant(u2, region)}

MCOneRequest == {r1}
MCRequests == {r1, r2}
MCWorkers == {w1}
MCLogins == {l1}

(* The states an execution or a rejection of r1 leaves when nobody has      *)
(* logged in meanwhile and the decider's token has expired since.           *)
MCInit ==
    \E status \in {"executed", "rejected"} :
      LET row == Decided(NewRequest(u2, Grant(u2, super)), status, u1)
          before == CHOOSE a \in InitialAssignments(Seeded) :
                      a[<<u1, super>>] = "permanent"
      IN  /\ request = [r \in Requests |-> IF r = r1 THEN row ELSE Absent]
          /\ assignment = IF status = "rejected" THEN before
                          ELSE AssignmentAfter(before, row.payload)
          /\ evidence = {Entry("create", r1, u2)} \cup
               (IF status = "rejected" THEN {Entry("reject", r1, u1)}
                ELSE {Entry("execute", r1, u1), Entry("approve", r1, u1)})
          /\ destination = [d \in Destinations |-> "candidate"]
          /\ jobs = [d \in Destinations |-> [t \in PublishJobTypes |-> 0]]
          /\ refusals = {}
          /\ worker = [w \in Workers |-> Idle]
          /\ cache = [u \in Users |-> {}]
          /\ login = [l \in Logins |-> NoLogin]
          /\ tokens = {}
MCSpec == MCInit /\ [][AuthzNext]_authzVars /\ TimePasses
=============================================================================
