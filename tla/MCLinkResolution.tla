-------------------------- MODULE MCLinkResolution --------------------------
(***************************************************************************)
(* Instances of LinkResolution for TLC: a run whose only link leads to a   *)
(* page that may never end, beside one with more links than permits.       *)
(***************************************************************************)
EXTENDS LinkResolution, TLC

CONSTANTS slow, quick

MostLinks  == [r \in Runs |-> IF r = slow THEN 1 ELSE MaxLinks]
LinkOfSlow == {<<slow, 1>>}
=============================================================================
