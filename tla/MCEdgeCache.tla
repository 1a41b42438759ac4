----------------------------- MODULE MCEdgeCache -----------------------------
(* A small instance of EdgeCache.                                          *)
EXTENDS EdgeCache

CONSTANTS c1, c2, u1, u2
=============================================================================
