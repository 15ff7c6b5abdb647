---------------------------- MODULE MCMemoryPacker ----------------------------
(***************************************************************************)
(* Two models of up to three megabytes in a memory of five.                   *)
(***************************************************************************)
EXTENDS MemoryPacker, TLC

CONSTANTS m1, m2

MCModels    == {m1, m2}
MCSizes     == 1..3
MCNewBudget == [total |-> 5, used |-> 0, reserve |-> 1]
MCBudgets   == {[total |-> 5, used |-> 0, reserve |-> 1], [total |-> 4, used |-> 2, reserve |-> 0],
                [total |-> 0, used |-> 0, reserve |-> 2]}

MCSymmetry  == Permutations(MCModels)
=============================================================================
