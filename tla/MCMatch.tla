------------------------------ MODULE MCMatch ------------------------------
(***************************************************************************)
(* HanamikojiMatch with the real geishas, values and goals.                *)
(***************************************************************************)
EXTENDS HanamikojiMatch

\* GEISHA_CHARM_LIST and the values of GEISHA_CARDS
MCGeishas == 2..8

MCValue ==
  [g \in MCGeishas |-> CASE g <= 4 -> 2
                         [] g \in {5, 6} -> 3
                         [] g = 7 -> 4
                         [] OTHER -> 5]
=============================================================================
