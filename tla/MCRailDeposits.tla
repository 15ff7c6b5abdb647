--------------------------- MODULE MCRailDeposits ---------------------------
(***************************************************************************)
(* Two loops of one rail; a transfer to a user that fits a word of four     *)
(* bits and one to the hot wallet that does not, on a chain of three blocks *)
(* that is reorganised once.                                                *)
(***************************************************************************)
EXTENDS RailDeposits, TLC

CONSTANTS l1, l2, small, large, userAddress, hotWallet, user

MCLoops     == {l1, l2}
MCTransfers == {small, large}
MCTo        == small :> userAddress @@ large :> hotWallet
MCWei       == small :> 7 @@ large :> 10
MCAddresses == {userAddress}
MCHot       == {hotWallet}
MCKeys      == {user}
MCIndexes   == {0, 1}
MCCosts     == {2}

MCSymmetry  == Permutations(MCLoops)
=============================================================================
