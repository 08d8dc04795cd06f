---------------------------- MODULE MCP2PSession ----------------------------
(* Small instances of P2PSession for TLC: a token for everyone who can     *)
(* hold one at a time, and one to spare.                                   *)
EXTENDS P2PSession

MCTokens == 1..10
=============================================================================
