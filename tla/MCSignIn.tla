------------------------------ MODULE MCSignIn ------------------------------
(***************************************************************************)
(* Two identities of one address, for which the provider of the second     *)
(* vouches at some logins only; two users, one session and two invocations.*)
(***************************************************************************)
EXTENDS SignIn, TLC

CONSTANTS u1, u2, i1, i2, s1, w1, w2, mail

MCUsers == {u1, u2}
MCIdentities == {i1, i2}
MCSessions == {s1}
MCInvocations == {w1, w2}
MCAddress == [i \in MCIdentities |-> mail]
MCClaims == [i \in MCIdentities |-> IF i = i1 THEN {TRUE} ELSE BOOLEAN]
MCSymmetry ==
    Permutations(MCUsers) \cup Permutations(MCInvocations)
=============================================================================
