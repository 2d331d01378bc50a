----------------------------- MODULE MCCuration -----------------------------
(***************************************************************************)
(* One proposal, so that everything its review and its publication can     *)
(* interleave is explored, two destination ids that compete for one month  *)
(* (or take one each), and two invocations.  Two job types stand for the   *)
(* four: a publication can be cut before, between and after them.          *)
(***************************************************************************)
EXTENDS Curation, TLC

CONSTANTS u1, u2, p1, d1, d2, m1, w1, w2

MCUsers == {u1, u2}
MCProposals == {p1}
MCDestinations == {d1, d2}
MCSlots == {m1}
MCInvocations == {w1, w2}
MCJobTypes == <<"catalog_sync", "rag_index_sync">>
MCSymmetry ==
    Permutations(MCUsers) \cup Permutations(MCDestinations) \cup
    Permutations(MCInvocations)
=============================================================================
