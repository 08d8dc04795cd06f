------------------------------ MODULE MCEngine ------------------------------
(***************************************************************************)
(* Small matches for TLC.  A configuration picks the action types; the     *)
(* hand and deck sizes follow from them as the real ones follow from the   *)
(* four actions.  Of three geishas worth 1, 1 and 3 one meets the charm    *)
(* goal alone, and the others may be tied.                                 *)
(***************************************************************************)
EXTENDS HanamikojiEngine

MCGeishas == {"ume", "ran", "yuri"}
MCValue == [g \in MCGeishas |-> IF g = "yuri" THEN 3 ELSE 1]

MCHandSize == CardsFor(ActionTypes) - ActionsIn(ActionTypes)
MCCardCount == 2 * CardsFor(ActionTypes) + 1
MCCards == 1..MCCardCount
MCCharmOf ==
  [c \in MCCards |-> CASE c % 3 = 0 -> "yuri" [] c % 3 = 1 -> "ume" [] OTHER -> "ran"]

MCOneShuffle == {[i \in MCCards |-> i]}
=============================================================================
