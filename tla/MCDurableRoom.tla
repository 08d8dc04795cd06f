--------------------------- MODULE MCDurableRoom ---------------------------
(* Small instances of DurableRoom for TLC.                                 *)
EXTENDS DurableRoom

CONSTANTS a, b, c, a1, a2, b1, c1

\* Three tabs; the old socket of the first may linger while it dials anew.
MCSockets == {a1, a2, b1, c1}
MCClientOf ==
  [s \in MCSockets |-> CASE s \in {a1, a2} -> a [] s = b1 -> b [] OTHER -> c]
=============================================================================
