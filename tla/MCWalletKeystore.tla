-------------------------- MODULE MCWalletKeystore --------------------------
(***************************************************************************)
(* Two processes and three calls, one of them with another password.         *)
(***************************************************************************)
EXTENDS WalletKeystore, TLC

CONSTANTS p1, p2, c1, c2, c3, right, wrong

MCProcesses == {p1, p2}
MCCalls     == {c1, c2, c3}
MCPassword  == c1 :> right @@ c2 :> right @@ c3 :> wrong

MCSymmetry  == Permutations(MCProcesses) \cup Permutations({c1, c2})
=============================================================================
