------------------------- MODULE PipelineLifecycle -------------------------
(***************************************************************************)
(* How the status and the stage of the emails of InferencePipeline follow  *)
(* EmailLifecycle: the refinement mapping.                                 *)
(***************************************************************************)
EXTENDS InferencePipeline

\* What the status endpoint shows of an email.
LifeOf(e) == IF e \in stored THEN <<row[e].status, row[e].stage>> ELSE <<"absent">>

Lives == [e \in Emails |-> LifeOf(e)]

Lifecycle == INSTANCE EmailLifecycle WITH life <- Lives

\* With clients that wait, the module keeps the promise of EmailLifecycle.
FollowsLifecycle == Lifecycle!Spec
=============================================================================
