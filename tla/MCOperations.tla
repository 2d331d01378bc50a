---------------------------- MODULE MCOperations ----------------------------
(***************************************************************************)
(* One notice and one job, which two invocations of two administrators     *)
(* work on, and one day whose events bring no, one, two or all of the five *)
(* users of a group.  Five transitions take a row through a publication, an*)
(* archive and a second publication with a stale one over each, and a job  *)
(* through a failed run, a retry and the start of the next.                *)
(***************************************************************************)
EXTENDS Operations, TLC

CONSTANTS u1, u2, r1, j1, d1, w1, w2

MCUsers == {u1, u2}
MCRecords == {r1}
MCJobs == {j1}
MCDays == {d1}
MCInvocations == {w1, w2}
MCIncrements == {0, 1, 2, 5}
MCSymmetry == Permutations(MCUsers) \cup Permutations(MCInvocations)
=============================================================================
