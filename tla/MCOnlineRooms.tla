--------------------------- MODULE MCOnlineRooms ---------------------------
(* Small instances of OnlineRooms for TLC.                                 *)
EXTENDS OnlineRooms

CONSTANTS a, b, a1, a2, b1, b2

\* Two browsers with two connections each, or one of them with one.
MCSockets == {a1, a2, b1, b2}
MCBrowserOf == [s \in MCSockets |-> IF s \in {a1, a2} THEN a ELSE b]

MCThreeSockets == {a1, a2, b1}
MCBrowserOfThree == [s \in MCThreeSockets |-> MCBrowserOf[s]]
=============================================================================
