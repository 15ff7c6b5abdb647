----------------------------- MODULE MCSQLBalance -----------------------------
(***************************************************************************)
(* Three calls on one API key, with an int64 of two bits and a sign.         *)
(***************************************************************************)
EXTENDS SQLBalance, TLC

CONSTANTS k1, c1, c2, c3

MCAccounts  == {k1}
MCCalls     == {c1, c2, c3}
MCSetValues == {-1, 2}

MCSymmetry  == Permutations(MCCalls)
=============================================================================
