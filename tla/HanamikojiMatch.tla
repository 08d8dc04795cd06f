-------------------------- MODULE HanamikojiMatch --------------------------
(***************************************************************************)
(* What the engine promises of a match, with the cards abstracted away: a  *)
(* match is a succession of rounds, each round ends with a majority (or a  *)
(* tie) at every geisha, and finishRound of                                *)
(* packages/engine/src/game/roundFlow.ts decides from the owners whether   *)
(* the match is won, drawn after the last round, or goes on.               *)
(* HanamikojiEngine implements this specification.                         *)
(***************************************************************************)
EXTENDS HanamikojiRules

CONSTANT MaxRounds

ASSUME MatchAssumption == MaxRounds \in Nat \ {0}

VARIABLES
  owner,    \* owner[g]: who charmed geisha g last
  round,    \* the round being played, or the last one played
  result    \* "playing", "draw", or the winner

matchVars == <<owner, round, result>>

MatchTypeOK ==
  /\ owner \in [Geishas -> Players \cup {Nobody}]
  /\ round \in 1..MaxRounds
  /\ result \in Players \cup {"playing", "draw"}

MatchInit ==
  /\ owner = [g \in Geishas |-> Nobody]
  /\ round = 1
  /\ result = "playing"

\* What the match has come to when round r was scored with these owners.
ResultOf(newOwner, r) ==
  LET winner == VictoryOf(Scores(newOwner))
  IN  IF winner # Nobody THEN winner
      ELSE IF r >= MaxRounds THEN "draw" ELSE "playing"

\* Mutant: the round counter moves on after the last round too.
EndRoundAlwaysNext(majority) ==
  /\ result = "playing"
  /\ owner' = NewOwners(owner, majority)
  /\ result' = ResultOf(owner', round)
  /\ round' = round + 1

EndRound(majority) ==
  /\ result = "playing"
  /\ owner' = NewOwners(owner, majority)
  /\ result' = ResultOf(owner', round)
  /\ round' = IF result' = "playing" THEN round + 1 ELSE round

MatchNext == \E majority \in [Geishas -> Players \cup {Nobody}] : EndRound(majority)

MatchSpec == MatchInit /\ [][MatchNext]_matchVars

-----------------------------------------------------------------------------
(* A match that goes on, or ends in a draw, has nobody at a goal: the      *)
(* perfect tie of checkVictory (both at a goal, same charm, same geishas), *)
(* which names no winner and would let a decided match continue, cannot    *)
(* arise from the geishas' values.                                         *)
UndecidedMeansNoGoal ==
  result \notin Players => \A p \in Players : ~MeetsGoal(Scores(owner)[p])

(* Charm decides before the number of geishas: a player who reaches the    *)
(* charm goal has won, whatever the opponent controls.                     *)
CharmGoalWins ==
  \A p \in Players : Scores(owner)[p].totalCharm >= CharmGoal => result = p
=============================================================================
