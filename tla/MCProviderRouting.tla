--------------------------- MODULE MCProviderRouting ---------------------------
(***************************************************************************)
(* A small instance of ProviderRouting for TLC.                             *)
(***************************************************************************)
EXTENDS ProviderRouting

CONSTANTS p1, p2, r1, r2

MCProviders == {p1, p2}
MCRequests  == {r1}
=============================================================================
