------------------------ MODULE MCInferencePipeline ------------------------
(***************************************************************************)
(* Instances of InferencePipeline for TLC.                                 *)
(***************************************************************************)
EXTENDS PipelineLifecycle, TLC

\* Every answer there is, and two that take the short and the long way.
AllAnswers == [class : Classes, confidence : Confidences,
               linkCount : 0 .. MaxLinks]
ShortAndLong ==
  {[class |-> "phishing",   confidence |-> "above",    linkCount |-> 1],
   [class |-> "legitimate", confidence |-> "notAbove", linkCount |-> 1]}

OneLink == {[class |-> "legitimate", confidence |-> "notAbove", linkCount |-> 1]}

\* One task meets a page that never ends, if it has a link; another gets an
\* endless answer from Gemini, if it has a page; any other is always answered.
DrippingAnswers ==
  LET slowPage   == CHOOSE q \in Requests : TRUE
      slowGemini == CHOOSE q \in Requests \ {slowPage} : TRUE
  IN  {<<slowPage, "resolving">>, <<slowGemini, "analysing">>}

\* Requests and emails are interchangeable.
Symmetry == Permutations(Requests) \cup Permutations(Emails)
=============================================================================
