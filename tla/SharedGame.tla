----------------------------- MODULE SharedGame -----------------------------
(***************************************************************************)
(* What an offline room promises its two players: one game, started once,  *)
(* that only ever grows, a move at a time and each move once, whatever     *)
(* becomes of connections and pages.  P2PSession implements it.            *)
(***************************************************************************)
EXTENDS Naturals, Sequences, Functions

CONSTANT Moves     \* the moves the players ever send

VARIABLE game      \* <<>> before the start; then 0, the deal, and the moves

GameTypeOK == game \in Seq(Moves \cup {0})

GameInit == game = <<>>

Start == game = <<>> /\ game' = <<0>>

Play(m) == game # <<>> /\ m \notin Range(game) /\ game' = Append(game, m)

GameNext == Start \/ \E m \in Moves : Play(m)

GameSpec == GameInit /\ [][GameNext]_game
=============================================================================
