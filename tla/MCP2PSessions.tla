----------------------------- MODULE MCP2PSessions -----------------------------
(***************************************************************************)
(* A small instance of P2PSessions for TLC: two sessions, each with a peer  *)
(* of its own, and a send on either.                                        *)
(***************************************************************************)
EXTENDS P2PSessions

CONSTANTS s1, s2, p1, p2, t1

MCSessions == {s1, s2}
MCPeers    == {p1, p2}
MCPeerOf   == [s \in MCSessions |-> IF s = s1 THEN p1 ELSE p2]
MCSenders  == {t1}
=============================================================================
