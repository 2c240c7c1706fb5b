---------------------- MODULE WorkflowExecutionProofs ----------------------
(***************************************************************************)
(* Proofs about WorkflowExecution, for any set of workers, any number of   *)
(* deliveries and any combination of faults: its type invariant, and that  *)
(* analyses exclude each other.                                            *)
(***************************************************************************)
EXTENDS WorkflowExecution, TLAPS

\* No worker has seen the message before it was sent.
NothingDelivered ==
    creator # "sent" => msg = "none" /\ \A w \in Workers : pc[w] = "idle"

\* While a worker analyses, the item cannot be claimed: only the worker's own
\* save at the end of its analysis puts "queued" back.
NotClaimable == \A w \in Workers : Analysing(w) => item.exec # "queued"

\* The inductive invariant behind ExclusiveAnalysis.
ClaimInv ==
    /\ TypeOK
    /\ NothingDelivered
    /\ NotClaimable
    /\ ExclusiveAnalysis

-----------------------------------------------------------------------------
\* What State builds is an item without a lock.
LEMMA StateType ==
    ASSUME NEW exec \in ExecutionStates, NEW planned \in BOOLEAN,
           NEW done \in SUBSET TaskIds, NEW docs \in SUBSET Docs
    PROVE  /\ State(exec, planned, done, docs) \in ItemType
           /\ State(exec, planned, done, docs).exec = exec
           /\ State(exec, planned, done, docs).lock = NoWorker
BY DEF State, ItemType

\* Putting a typed state leaves a typed store whose item has no lock.
LEMMA PutItemType ==
    ASSUME StoreTypeOK, NEW state \in ItemType, PutItem(state)
    PROVE  /\ StoreTypeOK'
           /\ item'.exec = state.exec
           /\ item'.lock = NoWorker
<1>1. item' \in ItemType /\ item'.exec = state.exec /\ item'.lock = NoWorker
  BY DEF PutItem, ItemType
<1>2. replica' \in ItemType
  BY <1>1 DEF PutItem, Replicated, StoreTypeOK
<1> QED
  BY <1>1, <1>2 DEF StoreTypeOK

\* A granted claim leaves a typed store whose item is running under the lock.
LEMMA ClaimType ==
    ASSUME StoreTypeOK, NEW w \in Workers, Claim(w)
    PROVE  /\ StoreTypeOK'
           /\ item'.exec = "running"
           /\ item'.lock = w
           /\ item.exec = "queued"
<1>1. item' \in ItemType /\ item'.exec = "running" /\ item'.lock = w
  BY DEF Claim, ItemType, ExecutionStates, StoreTypeOK
<1>2. replica' \in ItemType
  BY <1>1 DEF Claim, Replicated, StoreTypeOK
<1> QED
  BY <1>1, <1>2 DEF StoreTypeOK, Claim, Claimable

\* What the actions of create_workflow and of a worker put is typed.
LEMMA SavedType ==
    /\ State("queued", FALSE, {}, {}) \in ItemType
    /\ State("queued", TRUE, {}, {}) \in ItemType
    /\ State("completed", TRUE, {}, {}) \in ItemType
BY StateType DEF ExecutionStates

-----------------------------------------------------------------------------
\* The invariant holds before anything has been created.
LEMMA ClaimInvInit == Init => ClaimInv
<1> SUFFICES ASSUME Init PROVE ClaimInv
  OBVIOUS
<1>1. TypeOK
  <2>1. Absent \in ItemType
    BY StateType DEF Absent, ExecutionStates
  <2> QED
    BY <2>1, QueueAssumption
    DEF Init, StoreInit, TypeOK, StoreTypeOK, CreatorStates, MessageStates,
        WorkerStates
<1> QED
  BY <1>1 DEF Init, ClaimInv, NothingDelivered, NotClaimable, Analysing,
              ExclusiveAnalysis

\* Every step preserves the types.
LEMMA TypeOKNext ==
    ASSUME TypeOK, [Next]_vars
    PROVE  TypeOK'
<1> USE DEF TypeOK, CreatorStates, MessageStates, WorkerStates
<1>1. CASE CreateSave
  BY <1>1, SavedType, PutItemType DEF CreateSave
<1>2. CASE TriggerExecution
  BY <1>2 DEF TriggerExecution, StoreTypeOK
<1>3. CASE TriggerFails
  BY <1>3 DEF TriggerFails, StoreTypeOK
<1>4. ASSUME NEW w \in Workers, Receive(w)
      PROVE  TypeOK'
  BY <1>4, QueueAssumption DEF Receive, Goto, StoreTypeOK
<1>5. ASSUME NEW w \in Workers, GetWorkflow(w)
      PROVE  TypeOK'
  BY <1>5 DEF GetWorkflow, Goto, StoreTypeOK
<1>6. ASSUME NEW w \in Workers, ClaimGet(w)
      PROVE  TypeOK'
  BY <1>6 DEF ClaimGet, Goto, StoreTypeOK
<1>7. ASSUME NEW w \in Workers, ClaimUpdate(w)
      PROVE  TypeOK'
  BY <1>7, ClaimType DEF ClaimUpdate, Goto
<1>8. ASSUME NEW w \in Workers, ClaimRefused(w)
      PROVE  TypeOK'
  BY <1>8 DEF ClaimRefused, Goto, StoreTypeOK
<1>9. ASSUME NEW w \in Workers, ClaimReread(w)
      PROVE  TypeOK'
  BY <1>9 DEF ClaimReread, Goto, StoreTypeOK
<1>10. ASSUME NEW w \in Workers, UpdateMemory(w)
       PROVE  TypeOK'
  BY <1>10, SavedType, PutItemType DEF UpdateMemory, Goto
<1>11. ASSUME NEW w \in Workers, SaveCompleted(w)
       PROVE  TypeOK'
  BY <1>11, SavedType, PutItemType DEF SaveCompleted, Goto
<1>12. ASSUME NEW w \in Workers, WorkerError(w)
       PROVE  TypeOK'
  BY <1>12 DEF WorkerError, Goto, StoreTypeOK
<1>13. ASSUME NEW w \in Workers, Acknowledge(w)
       PROVE  TypeOK'
  BY <1>13 DEF Acknowledge, Goto, StoreTypeOK
<1>14. ASSUME NEW w \in Workers, WorkerCrash(w)
       PROVE  TypeOK'
  BY <1>14 DEF WorkerCrash, Goto, StoreTypeOK
<1>15. CASE VisibilityTimeout
  BY <1>15 DEF VisibilityTimeout, StoreTypeOK
<1>16. CASE Replicate
  BY <1>16 DEF Replicate, CatchUp, executionVars, StoreTypeOK
<1>17. CASE UNCHANGED vars
  BY <1>17 DEF vars, StoreTypeOK
<1> QED
  BY <1>1, <1>2, <1>3, <1>4, <1>5, <1>6, <1>7, <1>8, <1>9, <1>10, <1>11,
     <1>12, <1>13, <1>14, <1>15, <1>16, <1>17 DEF Next, WorkerStep

-----------------------------------------------------------------------------
\* The only steps that can disturb the claim are those that write the item or
\* move a worker into its analysis.
LEMMA ClaimInvNext ==
    ASSUME ClaimInv, [Next]_vars
    PROVE  ClaimInv'
<1> USE DEF ClaimInv
<1>1. TypeOK'
  BY TypeOKNext
<1> SUFFICES NothingDelivered' /\ NotClaimable' /\ ExclusiveAnalysis'
  BY <1>1
<1> USE DEF NothingDelivered, NotClaimable, ExclusiveAnalysis, Analysing
<1>2. CASE CreateSave
  \* Nothing has been delivered, so nobody is analysing.
  BY <1>2 DEF CreateSave
<1>3. CASE TriggerExecution
  BY <1>3 DEF TriggerExecution
<1>4. CASE TriggerFails
  BY <1>4 DEF TriggerFails
<1>5. ASSUME NEW w \in Workers, Receive(w)
      PROVE  NothingDelivered' /\ NotClaimable' /\ ExclusiveAnalysis'
  BY <1>5 DEF Receive, Goto, TypeOK
<1>6. ASSUME NEW w \in Workers, GetWorkflow(w)
      PROVE  NothingDelivered' /\ NotClaimable' /\ ExclusiveAnalysis'
  BY <1>6 DEF GetWorkflow, Goto, TypeOK
<1>7. ASSUME NEW w \in Workers, ClaimGet(w)
      PROVE  NothingDelivered' /\ NotClaimable' /\ ExclusiveAnalysis'
  BY <1>7 DEF ClaimGet, Goto, TypeOK
<1>8. ASSUME NEW w \in Workers, ClaimUpdate(w)
      PROVE  NothingDelivered' /\ NotClaimable' /\ ExclusiveAnalysis'
  <2>1. item.exec = "queued" /\ item'.exec = "running"
    BY <1>8, ClaimType DEF ClaimUpdate, TypeOK
  <2>2. \A v \in Workers : ~Analysing(v)
    BY <2>1
  <2>3. \A v \in Workers : Analysing(v)' => v = w
    BY <1>8, <2>2 DEF ClaimUpdate, Goto, TypeOK
  <2>4. NothingDelivered'
    BY <1>8 DEF ClaimUpdate, Goto, TypeOK
  <2> QED
    BY <2>1, <2>3, <2>4
<1>9. ASSUME NEW w \in Workers, ClaimRefused(w)
      PROVE  NothingDelivered' /\ NotClaimable' /\ ExclusiveAnalysis'
  BY <1>9 DEF ClaimRefused, Goto, TypeOK
<1>10. ASSUME NEW w \in Workers, ClaimReread(w)
       PROVE  NothingDelivered' /\ NotClaimable' /\ ExclusiveAnalysis'
  BY <1>10 DEF ClaimReread, Goto, TypeOK
<1>11. ASSUME NEW w \in Workers, UpdateMemory(w)
       PROVE  NothingDelivered' /\ NotClaimable' /\ ExclusiveAnalysis'
  <2>1. \A v \in Workers : Analysing(v) => v = w
    BY <1>11 DEF UpdateMemory
  <2>2. \A v \in Workers : ~Analysing(v)'
    BY <1>11, <2>1 DEF UpdateMemory, Goto, TypeOK
  <2>3. NothingDelivered'
    BY <1>11 DEF UpdateMemory, Goto, TypeOK
  <2> QED
    BY <2>2, <2>3
<1>12. ASSUME NEW w \in Workers, SaveCompleted(w)
       PROVE  NothingDelivered' /\ NotClaimable' /\ ExclusiveAnalysis'
  <2>1. item'.exec = "completed"
    BY <1>12, SavedType, StateType, PutItemType
    DEF SaveCompleted, TypeOK, ExecutionStates, State
  <2> QED
    BY <1>12, <2>1 DEF SaveCompleted, Goto, TypeOK
<1>13. ASSUME NEW w \in Workers, WorkerError(w)
       PROVE  NothingDelivered' /\ NotClaimable' /\ ExclusiveAnalysis'
  BY <1>13 DEF WorkerError, Goto, TypeOK
<1>14. ASSUME NEW w \in Workers, Acknowledge(w)
       PROVE  NothingDelivered' /\ NotClaimable' /\ ExclusiveAnalysis'
  BY <1>14 DEF Acknowledge, Goto, TypeOK
<1>15. ASSUME NEW w \in Workers, WorkerCrash(w)
       PROVE  NothingDelivered' /\ NotClaimable' /\ ExclusiveAnalysis'
  BY <1>15 DEF WorkerCrash, Goto, TypeOK
<1>16. CASE VisibilityTimeout
  BY <1>16 DEF VisibilityTimeout
<1>17. CASE Replicate
  BY <1>17 DEF Replicate, CatchUp, executionVars
<1>18. CASE UNCHANGED vars
  BY <1>18 DEF vars
<1> QED
  BY <1>2, <1>3, <1>4, <1>5, <1>6, <1>7, <1>8, <1>9, <1>10, <1>11, <1>12,
     <1>13, <1>14, <1>15, <1>16, <1>17, <1>18 DEF Next, WorkerStep

\* The model's variables keep their types.
THEOREM TypesCorrect == Spec => []TypeOK
<1>1. Init => TypeOK
  BY ClaimInvInit DEF ClaimInv
<1>2. TypeOK /\ [Next]_vars => TypeOK'
  BY TypeOKNext
<1> QED
  BY <1>1, <1>2, PTL DEF Spec

\* Whatever is delivered twice, read from a stale replica, interrupted or lost,
\* at most one worker analyses the workflow: the conditional update of
\* claim_workflow_for_execution excludes the others until the analysis saves.
THEOREM AnalysesExclude == Spec => []ExclusiveAnalysis
<1>1. ClaimInv /\ [Next]_vars => ClaimInv'
  BY ClaimInvNext
<1>2. ClaimInv => ExclusiveAnalysis
  BY DEF ClaimInv
<1> QED
  BY ClaimInvInit, <1>1, <1>2, PTL DEF Spec

=============================================================================
