--------------------------- MODULE EmailLifecycle ---------------------------
(***************************************************************************)
(* What the inference module promises about one email's status and stage   *)
(* to whoever polls GET /emails/{id}/status: it waits in the queue, moves  *)
(* through the stages in order, and ends complete or failed; only an       *)
(* explicit re-queue starts it again.                                      *)
(***************************************************************************)
EXTENDS Integers

CONSTANT Emails

VARIABLE life  \* per email: absent, queued, a stage of the run, or finished

StageOrder == <<"classification", "link_resolution", "page_analysis",
                "aggregation">>

InStage(i) == <<"running", StageOrder[i]>>
Absent   == <<"absent">>
Queued   == <<"pending", "queued">>
Complete == <<"complete", "done">>
FailedIn(stage) == <<"failed", stage>>

Stages == {StageOrder[i] : i \in 1 .. 4}
Unfinished == {Queued} \cup {<<"running", s>> : s \in Stages}
Finished == {Complete} \cup {FailedIn(s) : s \in Stages \cup {"queued"}}

Init == life = [e \in Emails |-> Absent]

Become(e, state) == life' = [life EXCEPT ![e] = state]

Create(e)  == life[e] = Absent /\ Become(e, Queued)
Start(e)   == life[e] = Queued /\ Become(e, InStage(1))
Advance(e) == \E i \in 1 .. 3 : life[e] = InStage(i) /\ Become(e, InStage(i + 1))

\* After an early exit the run ends in stage 1, otherwise in stage 4.
Succeed(e) == life[e] \in {InStage(1), InStage(4)} /\ Become(e, Complete)

Fail(e) == life[e] \in Unfinished /\ Become(e, FailedIn(life[e][2]))

Requeue(e) == life[e] \in Finished /\ Become(e, Queued)
Delete(e)  == life[e] \in Finished /\ Become(e, Absent)

Next == \E e \in Emails : \/ Create(e) \/ Start(e) \/ Advance(e)
                          \/ Succeed(e) \/ Fail(e)
                          \/ Requeue(e) \/ Delete(e)

Spec == Init /\ [][Next]_life
=============================================================================
