----------------------------- MODULE MCGamePage -----------------------------
(***************************************************************************)
(* A page over a match of one round with gift and competition, dealt as    *)
(* the matches of MCEngine are.                                            *)
(***************************************************************************)
EXTENDS GamePage

MCGeishas == {"ume", "ran", "yuri"}
MCValue == [g \in MCGeishas |-> IF g = "yuri" THEN 3 ELSE 1]

MCHandSize == CardsFor(ActionTypes) - ActionsIn(ActionTypes)
MCCardCount == 2 * CardsFor(ActionTypes) + 1
MCCards == 1..MCCardCount
MCCharmOf ==
  [c \in MCCards |-> CASE c % 3 = 0 -> "yuri" [] c % 3 = 1 -> "ume" [] OTHER -> "ran"]

MCShuffles == {[i \in MCCards |-> i]}
MCConsidered(S) == IF S = {} THEN {} ELSE {CHOOSE x \in S : TRUE}
=============================================================================
