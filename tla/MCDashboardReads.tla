-------------------------- MODULE MCDashboardReads --------------------------
(***************************************************************************)
(* An instance of DashboardReads for TLC.                                  *)
(***************************************************************************)
EXTENDS DashboardReads

CONSTANTS older, newer

\* The newer email may be submitted first.
Arrival == [e \in {older, newer} |-> IF e = older THEN 1 ELSE 2]

\* One run ends early, one looks at two links.
EarlyOrFull ==
  {[class |-> "phishing",   confidence |-> "above",    linkCount |-> 1],
   [class |-> "legitimate", confidence |-> "notAbove", linkCount |-> 2]}

OneWindow == {<<1, 2>>}

Symmetry == Permutations(Requests)
=============================================================================
