----------------------------- MODULE MCAdminMfa -----------------------------
(***************************************************************************)
(* One user and two concurrent requests.  MCAdminMfa.cfg: two devices      *)
(* (sessions) that prove themselves against one credential, which is       *)
(* enrolled again, with a second secret, over requests checked against the *)
(* first; time passes while only one device or only one secret is in use.  *)
(* The other two: one session is enough for what they refute.              *)
(***************************************************************************)
EXTENDS AdminMfa, TLC

CONSTANTS u1, s1, s2, w1, w2, k1, k2

MCUsers == {u1}
MCWorkers == {w1, w2}

OneSession == {s1}
TwoSessions == {s1, s2}
OwnerOfOne == [s \in OneSession |-> u1]
OwnerOfTwo == [s \in TwoSessions |-> u1]
OneSecret == {k1}
TwoSecrets == {k1, k2}

InUse(s) ==
    \/ session[s] # Unverified
    \/ \E w \in Workers : worker[w] # Idle /\ worker[w].session = s
    \/ \E method \in {"totp", "recovery_code"} : <<s, method>> \in proven
(* Bounds the exploration: not two devices, two secrets and two times.      *)
MCExplored ==
    \/ clock = FirstStep
    \/ Cardinality(issued) <= 1
    \/ Cardinality({s \in Sessions : InUse(s)}) <= 1

MCSymmetry ==
    Permutations(Sessions) \cup Permutations(Secrets) \cup
    Permutations(Workers)
=============================================================================
