-------------------------- MODULE HanamikojiRules --------------------------
(***************************************************************************)
(* The scoring rules of Hanamikoji: which geisha a player wins at the end  *)
(* of a round, what a player's geishas are worth, and who wins the match.  *)
(* They are the pure functions of packages/engine/src/game/winCheck.ts.    *)
(* The constants stand for GEISHA_CARDS and VICTORY_CONDITIONS of          *)
(* packages/shared/src/gameRules.ts: seven geishas worth 2,2,2,3,3,4,5 and *)
(* the goals 4 geishas or 11 charm points.                                 *)
(***************************************************************************)
EXTENDS Integers, FiniteSets, FiniteSetsExt

CONSTANTS
  Geishas,      \* the geisha cards
  Value,        \* the charm points each geisha is worth
  GeishaGoal,   \* a player controlling this many geishas wins
  CharmGoal     \* a player with this many charm points wins

ASSUME RulesAssumption ==
  /\ IsFiniteSet(Geishas)
  /\ Value \in [Geishas -> Nat]
  /\ GeishaGoal \in Nat
  /\ CharmGoal \in Nat

Players == {"p1", "p2"}

\* The code's null, for an owner, a winner or a player.
Nobody == "nobody"

Other(p) == IF p = "p1" THEN "p2" ELSE "p1"

-----------------------------------------------------------------------------
(* A geisha changes hands only for a strict majority of item cards; a tie  *)
(* leaves her with whoever charmed her last.  count[p] is how many cards   *)
(* player p has at her.                                                    *)
MajorityAt(count) ==
  LET lead == {p \in Players : count[p] > count[Other(p)]}
  IN  IF lead = {} THEN Nobody ELSE CHOOSE p \in lead : TRUE

NewOwners(owner, majority) ==
  [g \in Geishas |-> IF majority[g] = Nobody THEN owner[g] ELSE majority[g]]

CharmOfSet(gs) == MapThenSumSet(LAMBDA g : Value[g], gs)

(* The goals are majorities, four of seven geishas and eleven of 21 charm  *)
(* points: the players cannot both meet the same one.                      *)
ASSUME GoalsAssumption ==
  /\ 2 * GeishaGoal > Cardinality(Geishas)
  /\ 2 * CharmGoal > CharmOfSet(Geishas)

ScoreOf(owner, p) ==
  LET mine == {g \in Geishas : owner[g] = p}
  IN  [geishaCount |-> Cardinality(mine), totalCharm |-> CharmOfSet(mine)]

Scores(owner) == [p \in Players |-> ScoreOf(owner, p)]

-----------------------------------------------------------------------------
MeetsGoal(s) == s.geishaCount >= GeishaGoal \/ s.totalCharm >= CharmGoal

\* Mutant: the number of geishas decides first.
BeatsByCount(s, t) ==
  \/ s.geishaCount > t.geishaCount
  \/ s.geishaCount = t.geishaCount /\ s.totalCharm > t.totalCharm

\* When both meet a goal, charm points decide before the number of geishas.
Beats(s, t) ==
  \/ s.totalCharm > t.totalCharm
  \/ s.totalCharm = t.totalCharm /\ s.geishaCount > t.geishaCount

\* Mutant: no tie-break, nobody wins when both meet a goal.
WinsAlone(score, p) == MeetsGoal(score[p]) /\ ~MeetsGoal(score[Other(p)])

Wins(score, p) ==
  /\ MeetsGoal(score[p])
  /\ MeetsGoal(score[Other(p)]) => Beats(score[p], score[Other(p)])

\* Nobody when neither meets a goal, or both do with a perfect tie.
VictoryOf(score) ==
  IF \E p \in Players : Wins(score, p)
  THEN CHOOSE p \in Players : Wins(score, p)
  ELSE Nobody
=============================================================================
