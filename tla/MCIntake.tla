------------------------------ MODULE MCIntake ------------------------------
(***************************************************************************)
(* The instance of Intake that TLC checks: a pool that an analysis and a   *)
(* read empty together.  Groq says anything, with confidences below the    *)
(* review band, at its boundary and at the one for alerts.                 *)
(***************************************************************************)
EXTENDS Intake

Verdict(c, n) == [class |-> c, confidence |-> n]

AnyVerdict ==
  [q \in Analyses |->
     {Verdict("phishing", n) : n \in {30, 60, 90}}
        \cup {Verdict("legitimate", 60), Verdict("suspicious", 90)}]
=============================================================================
