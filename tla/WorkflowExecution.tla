------------------------- MODULE WorkflowExecution -------------------------
(***************************************************************************)
(* The asynchronous execution of one workflow: the API process creates the *)
(* item and publishes a message (AgentService.create_workflow), SQS hands  *)
(* the message to worker Lambdas, and each delivery is one run of          *)
(* backend/worker_handler.py: read, claim, analyse, save, acknowledge.     *)
(*                                                                         *)
(* The analysis ends in update_memory_node, which saves the item with the  *)
(* DEFAULT execution state, "queued", and only then does the service save  *)
(* it again as "completed": the item is claimable once more in between.    *)
(*                                                                         *)
(* Only create_workflow and the workers write the item here.  The requests *)
(* that rewrite it next to them (continue, refresh, ingest) are those of   *)
(* WorkflowRequests.                                                       *)
(***************************************************************************)
EXTENDS WorkflowStore

CONSTANT
    MaxReceives     \* RedrivePolicy.maxReceiveCount of the queue

ASSUME QueueAssumption == MaxReceives \in Nat \ {0}

VARIABLES
    creator,    \* how far create_workflow is
    msg,        \* where the workflow's message is
    receives,   \* how often the message has been delivered
    pc          \* what each worker is about to do

executionVars == <<creator, msg, receives, pc>>
vars == <<item, replica, creator, msg, receives, pc>>

-----------------------------------------------------------------------------
CreatorStates == {"start", "saved", "sent", "failed"}
MessageStates == {"none", "visible", "inflight", "deleted", "dead"}

\* idle: waiting for a delivery        get: execute_queued_workflow's read
\* claim_get, claim_update, claim_reread: inside claim_workflow_for_execution
\* graph: graph.invoke                 save: the save of the COMPLETED state
\* ack: the handler has its result and returns 200
WorkerStates ==
    {"idle", "get", "claim_get", "claim_update", "claim_reread",
     "graph", "save", "ack"}

\* From the moment a worker holds the claim to the end of its analysis.
Analysing(w) == pc[w] \in {"claim_reread", "graph"}

TypeOK ==
    /\ StoreTypeOK
    /\ creator \in CreatorStates
    /\ msg \in MessageStates
    /\ receives \in 0..MaxReceives
    /\ pc \in [Workers -> WorkerStates]

Init ==
    /\ StoreInit
    /\ creator = "start"
    /\ msg = "none"
    /\ receives = 0
    /\ pc = [w \in Workers |-> "idle"]

-----------------------------------------------------------------------------
(* create_workflow, in the API process *)

CreateSave ==
    /\ creator = "start"
    /\ PutItem(State("queued", FALSE, {}, {}))
    /\ creator' = "saved"
    /\ UNCHANGED <<msg, receives, pc>>

TriggerExecution ==
    /\ creator = "saved"
    /\ creator' = "sent"
    /\ msg' = "visible"
    /\ UNCHANGED <<item, replica, receives, pc>>

\* json.dumps or send_message raises, or the process dies: the item is already saved.
TriggerFails ==
    /\ {"send_failure", "crash"} \cap Faults # {}
    /\ creator = "saved"
    /\ creator' = "failed"
    /\ UNCHANGED <<item, replica, msg, receives, pc>>

-----------------------------------------------------------------------------
(* The worker: one delivery of the message *)

Goto(w, label) == pc' = [pc EXCEPT ![w] = label]

\* Mutant: the queue has no maxReceiveCount.
Receive_Unbounded(w) ==
    /\ pc[w] = "idle"
    /\ \/ msg = "visible"
       \/ "duplicate" \in Faults /\ msg \in {"inflight", "deleted"}
    /\ receives' = receives + 1
    /\ msg' = "inflight"
    /\ Goto(w, "get")
    /\ UNCHANGED <<item, replica, creator>>

\* A delivery of a visible message; a standard queue may also deliver again a
\* message that is in flight (as may one whose worker is allowed to run longer
\* than the visibility timeout) or that it failed to delete everywhere.
Receive(w) ==
    /\ pc[w] = "idle"
    /\ \/ msg = "visible"
       \/ "duplicate" \in Faults /\ msg \in {"inflight", "deleted"}
    /\ receives < MaxReceives
    /\ receives' = receives + 1
    /\ msg' = "inflight"
    /\ Goto(w, "get")
    /\ UNCHANGED <<item, replica, creator>>

\* execute_queued_workflow returns None for a workflow it cannot read.
GetWorkflow(w) ==
    /\ pc[w] = "get"
    /\ \E seen \in Readable :
         Goto(w, IF seen.exec = "absent" THEN "ack" ELSE "claim_get")
    /\ UNCHANGED <<item, replica, creator, msg, receives>>

\* Anything but a queued workflow is not claimed: RuntimeError, result "error".
ClaimGet(w) ==
    /\ pc[w] = "claim_get"
    /\ \E seen \in Readable :
         Goto(w, IF seen.exec = "queued" THEN "claim_update" ELSE "ack")
    /\ UNCHANGED <<item, replica, creator, msg, receives>>

ClaimUpdate(w) ==
    /\ pc[w] = "claim_update"
    /\ Claim(w)
    /\ Goto(w, "claim_reread")
    /\ UNCHANGED <<creator, msg, receives>>

\* ConditionalCheckFailedException
ClaimRefused(w) ==
    /\ pc[w] = "claim_update"
    /\ ~Claimable(w)
    /\ Goto(w, "ack")
    /\ UNCHANGED <<item, replica, creator, msg, receives>>

\* The claim returns what it reads back: None looks like a lost claim, though
\* the item now says "running".
ClaimReread(w) ==
    /\ pc[w] = "claim_reread"
    /\ \E seen \in Readable :
         Goto(w, IF seen.exec = "absent" THEN "ack" ELSE "graph")
    /\ UNCHANGED <<item, replica, creator, msg, receives>>

\* graph.invoke, whose last node, update_memory_node, saves the analysed state.
\* The payload is rebuilt from the goal alone, so nothing of the item survives.
UpdateMemory(w) ==
    /\ pc[w] = "graph"
    /\ PutItem(State("queued", TRUE, {}, {}))
    /\ Goto(w, "save")
    /\ UNCHANGED <<creator, msg, receives>>

\* Mutant: the service saves the state as the graph returned it.
SaveCompleted_AsReturned(w) ==
    /\ pc[w] = "save"
    /\ PutItem(State("queued", TRUE, {}, {}))
    /\ Goto(w, "ack")
    /\ UNCHANGED <<creator, msg, receives>>

\* _execute_workflow_sync sets COMPLETED and saves.
SaveCompleted(w) ==
    /\ pc[w] = "save"
    /\ PutItem(State("completed", TRUE, {}, {}))
    /\ Goto(w, "ack")
    /\ UNCHANGED <<creator, msg, receives>>

\* Any call of the service raises (the store turns only ClientError into None);
\* the handler turns every exception into a result, "error".
WorkerError(w) ==
    /\ "error" \in Faults
    /\ pc[w] \notin {"idle", "ack"}
    /\ Goto(w, "ack")
    /\ UNCHANGED <<item, replica, creator, msg, receives>>

\* The handler returns 200 without batchItemFailures: whatever the result, the
\* event source mapping deletes the message.
Acknowledge(w) ==
    /\ pc[w] = "ack"
    /\ msg' = "deleted"
    /\ Goto(w, "idle")
    /\ UNCHANGED <<item, replica, creator, receives>>

WorkerCrash(w) ==
    /\ "crash" \in Faults
    /\ pc[w] # "idle"
    /\ Goto(w, "idle")
    /\ UNCHANGED <<item, replica, creator, msg, receives>>

-----------------------------------------------------------------------------
(* The queue *)

\* Mutant: a queue without the redrive policy.
VisibilityTimeout_NoRedrive ==
    /\ msg = "inflight"
    /\ \A w \in Workers : pc[w] = "idle"
    /\ msg' = "visible"
    /\ UNCHANGED <<item, replica, creator, receives, pc>>

\* The message of a worker that died becomes visible again (the visibility
\* timeout, 360 s, is longer than a worker's life, 300 s); after maxReceiveCount
\* deliveries it goes to the dead-letter queue.
VisibilityTimeout ==
    /\ msg = "inflight"
    /\ \A w \in Workers : pc[w] = "idle"
    /\ msg' = IF receives < MaxReceives THEN "visible" ELSE "dead"
    /\ UNCHANGED <<item, replica, creator, receives, pc>>

Replicate == CatchUp /\ UNCHANGED executionVars

-----------------------------------------------------------------------------
WorkerStep(w) ==
    \/ GetWorkflow(w) \/ ClaimGet(w) \/ ClaimUpdate(w) \/ ClaimRefused(w)
    \/ ClaimReread(w) \/ UpdateMemory(w) \/ SaveCompleted(w) \/ Acknowledge(w)

Next ==
    \/ CreateSave \/ TriggerExecution \/ TriggerFails
    \/ \E w \in Workers :
         Receive(w) \/ WorkerStep(w) \/ WorkerError(w) \/ WorkerCrash(w)
    \/ VisibilityTimeout \/ Replicate

\* A process that is not killed runs on; the event source mapping polls the
\* queue; a timeout expires; replicas converge.  Faults are never owed.
Fairness ==
    /\ WF_vars(CreateSave \/ TriggerExecution)
    /\ \A w \in Workers : WF_vars(WorkerStep(w))
    /\ WF_vars(\E w \in Workers : msg = "visible" /\ Receive(w))
    /\ WF_vars(VisibilityTimeout)
    /\ WF_vars(Replicate)

Spec == Init /\ [][Next]_vars /\ Fairness

-----------------------------------------------------------------------------
(* Properties *)

\* As long as only workers write the item, no two of them analyse the workflow at
\* the same time, whatever the queue delivers twice and whoever dies: the purpose
\* of the conditional update in claim_workflow_for_execution.
ExclusiveAnalysis ==
    \A v, w \in Workers : Analysing(v) /\ Analysing(w) => v = w

\* Every message that reaches the queue leaves it in the end, deleted or
\* dead-lettered, even when every delivery ends in a crash.
MessageSettles == (msg = "visible") ~> (msg \in {"deleted", "dead"})

\* Without errors and crashes, however often the message is delivered, the
\* item ends up COMPLETED and stays so: each save of the default "queued" is
\* followed by the same worker's save of "completed".
CompletesForGood == <>[](item.exec = "completed")
=============================================================================
