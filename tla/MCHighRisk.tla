----------------------------- MODULE MCHighRisk -----------------------------
(***************************************************************************)
(* Two super admins at the start, two change requests in flight and two    *)
(* invocations.  The payloads are those that meet on a row (both super     *)
(* admins revoked, the bulk publication of both destinations) and a grant  *)
(* of what nobody held; MCAuthz grants the super admin's role.  The        *)
(* liveness property forbids to declare the requests or the invocations    *)
(* symmetric.                                                              *)
(***************************************************************************)
EXTENDS HighRisk

CONSTANTS u1, u2, region, super, d1, d2, r1, r2, w1, w2

MCUsers == {u1, u2}
MCScopes == {super, region}
MCSeeded == {<<u1, super>>, <<u2, super>>}
MCDestinations == {d1, d2}

Revoke(u, s) == [op |-> "revoke", target |-> u, scope |-> s]
Grant(u, s, temporary) ==
    [op |-> "grant", target |-> u, scope |-> s, temporary |-> temporary]
Bulk(ids) == [op |-> "bulk_publish", destinations |-> ids]

MCSubmitted ==
    {Revoke(u1, super), Revoke(u2, super), Grant(u1, region, FALSE),
     Bulk({d1, d2})}

MCRequests == {r1, r2}
MCWorkers == {w1, w2}
=============================================================================
