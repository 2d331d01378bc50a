---------------------------- MODULE MCSavedPlans ----------------------------
(***************************************************************************)
(* u1 saves one private and one public content under one key or none; u2   *)
(* only reads, clones, shares and likes.  Two plan ids, two items, and     *)
(* three invocations: two requests can race and a third sees what they left*)
(* Or two of them find two plans saved, cloned and liked before, one of    *)
(* them perhaps of a content that somebody else had shared.                *)
(***************************************************************************)
EXTENDS Feeds, TLC

CONSTANTS u1, u2, p1, p2, k1, c1, c2, c3, w1, w2, w3,
          spa, bay, port, fair, isle, cove

MCUsers == {u1, u2}
MCPlans == {p1, p2}
MCKeys == {k1}
MCContents == {c1, c2, c3}
MCShared == {c2}
MCSubmits == [u \in MCUsers |-> IF u = u1 THEN {c1, c2} ELSE {}]
MCInvocations == {w1, w2, w3}
MCSymmetry == Permutations(MCPlans) \cup Permutations(MCInvocations)

(* What earlier requests left: u1's liked plan p beside q, either another   *)
(* plan of u1's or u2's clone of p.  One of the invocations is spent.       *)
SavedBefore(p, first, q, second) ==
    /\ plan = (p :> first) @@ (q :> second)
    /\ item = [r \in Plans |-> plan[r].itinerary]
    /\ likes = {<<u1, p>>}
    /\ \E v \in Invocations :
         call = [w \in Invocations |-> IF w = v THEN Done ELSE Idle]
    /\ exposed = {c2, c3}
    /\ damaged = {}
CloneOf(u, c) ==
    CloneRow([user |-> u, hash |-> c, itinerary |-> [n \in Positions |-> c]])
MCInit ==
    \/ Init
    \/ \E p, q \in Plans : p # q /\
         \/ SavedBefore(p, NewPlan(u1, None, c1), q, NewPlan(u1, k1, c2))
         \/ SavedBefore(p, NewPlan(u1, k1, c2), q, CloneOf(u2, c2))
         \/ SavedBefore(p, NewPlan(u1, k1, c1), q, CloneOf(u1, c3))
MCSpec == MCInit /\ [][Next]_vars

(* The private plan goes to the bay for the sea: its client gave an id and  *)
(* no country.  The public one goes to a cove that no catalogue and no      *)
(* prefix knows, for sea and food.  The client of the third took the port   *)
(* for one abroad, where the isle is.                                       *)
MCCities == {spa, bay, port, fair, isle}
MCCountry == [city \in MCCities |-> IF city = isle THEN "JP" ELSE "KR"]
MCCityOf == (c1 :> bay) @@ (c2 :> cove) @@ (c3 :> port)
MCStatedCountry == (c1 :> None) @@ (c2 :> "Korea") @@ (c3 :> "JP")
MCPrefixCountry == (bay :> "KR") @@ (cove :> None) @@ (port :> "KR")
MCThemes ==
    (spa :> {"sea"}) @@ (bay :> {"sea"}) @@ (port :> {"sea", "food"})
      @@ (fair :> {"food"}) @@ (isle :> {"sea", "food"})
      @@ (c1 :> {"sea"}) @@ (c2 :> {"sea", "food"}) @@ (c3 :> {"food"})
MCPictured == {fair, isle}
MCSignalLimits == {1, 2}
(* In their thirties in 2026, if only just. *)
MCBirthYear == (u1 :> 1996) @@ (u2 :> 1987)
=============================================================================
