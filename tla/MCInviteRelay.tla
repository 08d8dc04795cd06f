---------------------------- MODULE MCInviteRelay ----------------------------
(* Instances of InviteRelay for TLC. *)
EXTENDS InviteRelay, TLC

CONSTANTS r1, r2, g1, g2

TwoRooms == {r1, r2}
OneRoom == {r1}
TwoGuests == {g1, g2}
OneGuest == {g1}

Junk == {Nobody}
NoText == {}

RoomsAlike == Permutations(TwoRooms)
=============================================================================
