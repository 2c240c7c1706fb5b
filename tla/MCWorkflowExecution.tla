------------------------ MODULE MCWorkflowExecution ------------------------
(***************************************************************************)
(* WorkflowExecution in two environments, one of which is chosen at the    *)
(* start: with every fault in Faults, or a calm one, in which nothing      *)
(* fails but messages may be delivered again.                              *)
(***************************************************************************)
EXTENDS WorkflowExecution

VARIABLE calm   \* is the environment the calm one?

mcVars == <<item, replica, creator, msg, receives, pc, calm>>

Calm == INSTANCE WorkflowExecution WITH Faults <- Faults \cap {"duplicate"}

MCInit == Init /\ calm \in BOOLEAN

MCNext ==
    /\ \/ ~calm /\ Next
       \/ calm /\ Calm!Next
    /\ UNCHANGED calm

\* The fairness of WorkflowExecution, in either environment.
In(stormy, still) ==
    /\ \/ ~calm /\ stormy
       \/ calm /\ still
    /\ UNCHANGED calm

MCFairness ==
    /\ WF_mcVars(In(CreateSave \/ TriggerExecution, Calm!CreateSave \/ Calm!TriggerExecution))
    /\ \A w \in Workers : WF_mcVars(In(WorkerStep(w), Calm!WorkerStep(w)))
    /\ WF_mcVars(\E w \in Workers :
         msg = "visible" /\ In(Receive(w), Calm!Receive(w)))
    /\ WF_mcVars(In(VisibilityTimeout, Calm!VisibilityTimeout))
    /\ WF_mcVars(In(Replicate, Calm!Replicate))

MCSpec == MCInit /\ [][MCNext]_mcVars /\ MCFairness

\* In the calm environment the workflow ends up COMPLETED for good: the worker whose
\* save of "queued" comes last also saves "completed" after it.
CompletesIfCalm == calm => CompletesForGood
=============================================================================
