---------------------------- MODULE Aggregation ----------------------------
(***************************************************************************)
(* Stage 4 of the inference pipeline: the rules that turn the email        *)
(* classification of stage 1 and the page results of stage 3 into a final  *)
(* verdict (AggregationService.finalise).                                  *)
(*                                                                         *)
(* A page result is a record [risk, confidence].  The rules only ask       *)
(* whether a page of some risk exists and what the largest confidence      *)
(* among those pages is, so a list of page results is given as a set.      *)
(* Confidences are hundredths.  The templated note is left out.            *)
(***************************************************************************)
EXTENDS Integers, FiniteSets

Classes  == {"phishing", "suspicious", "legitimate"}
Risks    == {"high", "medium", "low"}
Triggers == {"page_high_risk", "page_medium_risk", "all_low", "all_failed",
             "early_exit"}

\* A column or an attribute without a value (NULL, None).
Null == "null"

\* risk_level is optional: the LLM may leave a page out or answer something
\* _coerce_risk does not know.
OptRisks == Risks \cup {Null}

\* risk_confidence is optional too; _conf reads a missing one as 0.
NoConfidence == -1
Conf(c) == IF c = NoConfidence THEN 0 ELSE c

(***************************************************************************)
(* The rules, in the order the code tries them: 1, 5, 2, 3, 4.  found is   *)
(* the set of risk levels of the page results, empty iff there is none.    *)
(***************************************************************************)
Trigger(class, linkCount, found, earlyExit) ==
  IF earlyExit THEN "early_exit"
  ELSE IF linkCount > 0 /\ found = {} THEN "all_failed"
  ELSE IF "high" \in found THEN "page_high_risk"
  ELSE IF "medium" \in found /\ class = "legitimate" THEN "page_medium_risk"
  ELSE "all_low"

FinalClass(class, trigger) ==
  IF trigger \in {"early_exit", "page_high_risk"} THEN "phishing"
  ELSE IF trigger = "page_medium_risk" THEN "suspicious"
  ELSE class

\* The largest confidence among the pages of one risk level.
BestConfidence(pages, risk) ==
  LET confidences == {Conf(p.confidence) : p \in {q \in pages : q.risk = risk}}
  IN  CHOOSE c \in confidences : \A d \in confidences : d <= c

FinalConfidence(confidence, trigger, pages) ==
  CASE trigger = "page_high_risk"   -> BestConfidence(pages, "high")
    [] trigger = "page_medium_risk" -> BestConfidence(pages, "medium")
    [] OTHER                        -> confidence

FoundRisks(pages) == {p.risk : p \in pages}

Finalise(email, pages, earlyExit) ==
  LET trigger == Trigger(email.class, email.linkCount, FoundRisks(pages),
                         earlyExit)
  IN  [class      |-> FinalClass(email.class, trigger),
       confidence |-> FinalConfidence(email.confidence, trigger, pages),
       trigger    |-> trigger]

\* How alarming a class is.
Severity(class) ==
  CASE class = "legitimate" -> 0
    [] class = "suspicious" -> 1
    [] class = "phishing"   -> 2
=============================================================================
