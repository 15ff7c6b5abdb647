------------------------------ MODULE MCDisputes ------------------------------
(***************************************************************************)
(* Two disputes and two requests.                                            *)
(***************************************************************************)
EXTENDS Disputes

CONSTANTS d1, d2, c1, c2

MCIds   == {d1, d2}
MCRequests == {c1, c2}
=============================================================================
