--------------------------- MODULE MCGatewayBilling ---------------------------
(***************************************************************************)
(* Small instances of GatewayBilling for TLC.                               *)
(***************************************************************************)
EXTENDS GatewayBilling, TLC

CONSTANTS r1, r2, p1, k1

MCRequests == {r1, r2}
MCPayments == {p1}
MCAccounts == {k1, NoKey}
MCCosts    == {0, 2, 3}
MCAmounts  == {3}
=============================================================================
