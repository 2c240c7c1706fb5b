----------------------- MODULE WorkflowRequestsProofs -----------------------
(***************************************************************************)
(* Proof that no interleaving of requests, workers and faults stores an    *)
(* item that says COMPLETED, or names completed tasks, without the plan,   *)
(* for any number of workers, requests, tasks and documents.               *)
(***************************************************************************)
EXTENDS WorkflowRequests, WorkflowExecutionProofs

Consistent(state) == state.exec = "completed" \/ state.done # {} => state.planned

\* Every copy of the item there is, in the store or in a request, is consistent.
CopiesInv ==
    /\ Consistent(item)
    /\ Consistent(replica)
    /\ req \in [Requests -> [pc : {"idle", "graph", "save"},
                             snap : ItemType, result : ItemType]]
    /\ \A r \in Requests : Consistent(req[r].result)
    /\ item \in ItemType
    /\ replica \in ItemType

-----------------------------------------------------------------------------
LEMMA StateFields ==
    ASSUME NEW exec \in ExecutionStates, NEW planned \in BOOLEAN,
           NEW done \in SUBSET TaskIds, NEW docs \in SUBSET Docs
    PROVE  /\ State(exec, planned, done, docs) \in ItemType
           /\ State(exec, planned, done, docs).exec = exec
           /\ State(exec, planned, done, docs).planned = planned
           /\ State(exec, planned, done, docs).done = done
BY DEF State, ItemType

\* A put of a consistent state keeps the store consistent.
LEMMA PutConsistent ==
    ASSUME CopiesInv, NEW state \in ItemType, Consistent(state), PutItem(state)
    PROVE  /\ item' \in ItemType /\ Consistent(item')
           /\ replica' \in ItemType /\ Consistent(replica')
<1>1. item' \in ItemType /\ item'.exec = state.exec /\ item'.done = state.done
        /\ item'.planned = state.planned
  BY DEF PutItem, ItemType
<1> QED
  BY <1>1 DEF CopiesInv, PutItem, Replicated, Consistent

\* So does a claim: it makes the item "running" and leaves its tasks alone.
LEMMA ClaimConsistent ==
    ASSUME CopiesInv, NEW w \in Workers, Claim(w)
    PROVE  /\ item' \in ItemType /\ Consistent(item')
           /\ replica' \in ItemType /\ Consistent(replica')
<1>1. item' \in ItemType /\ item'.exec = "running" /\ item'.done = item.done
        /\ item'.planned = item.planned
  BY DEF Claim, ItemType, ExecutionStates, CopiesInv
<1> QED
  BY <1>1 DEF CopiesInv, Claim, Replicated, Consistent

\* Whatever a read returns is consistent, and typed.
LEMMA ReadConsistent ==
    ASSUME CopiesInv, NEW snap \in Readable
    PROVE  snap \in ItemType /\ Consistent(snap)
<1>1. Absent \in ItemType /\ Absent.exec = "absent" /\ Absent.done = {}
  BY DEF Absent, State, ItemType, ExecutionStates
<1> QED
  BY <1>1 DEF Readable, CopiesInv, Consistent

\* The item a request wants to leave is as consistent as its snapshot.
LEMMA ResultConsistent ==
    ASSUME NEW snap \in ItemType, Consistent(snap)
    PROVE  /\ \A ids \in SUBSET TaskIds :
                /\ ContinueResult(snap, ids) \in ItemType
                /\ Consistent(ContinueResult(snap, ids))
           /\ RefreshResult(snap) \in ItemType /\ Consistent(RefreshResult(snap))
           /\ \A doc \in Docs :
                /\ IngestResult(snap, doc) \in ItemType
                /\ Consistent(IngestResult(snap, doc))
<1>1. /\ snap.exec \in ExecutionStates /\ snap.planned \in BOOLEAN
      /\ snap.done \in SUBSET TaskIds /\ snap.docs \in SUBSET Docs
  BY DEF ItemType
<1>2. ASSUME NEW ids \in SUBSET TaskIds
      PROVE  ContinueResult(snap, ids) \in ItemType /\ Consistent(ContinueResult(snap, ids))
  <2> DEFINE done == snap.done \cup (IF snap.planned THEN ids ELSE {})
             next == State(snap.exec, TRUE, done, snap.docs)
  <2>1. done \in SUBSET TaskIds
    BY <1>1, <1>2
  <2> HIDE DEF done
  <2>2. next \in ItemType /\ next.planned = TRUE
    BY <1>1, <2>1, StateFields
  <2>3. ContinueResult(snap, ids) = next
    BY DEF ContinueResult, done
  <2> QED BY <2>2, <2>3 DEF Consistent
<1>3. RefreshResult(snap) \in ItemType /\ Consistent(RefreshResult(snap))
  <2>1. "completed" \in ExecutionStates
    BY DEF ExecutionStates
  <2>2. /\ RefreshResult(snap) \in ItemType
        /\ RefreshResult(snap).planned = TRUE
    BY <1>1, <2>1, StateFields DEF RefreshResult
  <2> QED BY <2>2 DEF Consistent
<1>4. ASSUME NEW doc \in Docs
      PROVE  IngestResult(snap, doc) \in ItemType /\ Consistent(IngestResult(snap, doc))
  <2>1. snap.docs \cup {doc} \in SUBSET Docs
    BY <1>1
  <2>2. /\ IngestResult(snap, doc) \in ItemType
        /\ IngestResult(snap, doc).exec = snap.exec
        /\ IngestResult(snap, doc).planned = snap.planned
        /\ IngestResult(snap, doc).done = snap.done
    BY <1>1, <2>1, StateFields DEF IngestResult
  <2> QED
    BY <2>2 DEF Consistent
<1> QED
  BY <1>2, <1>3, <1>4

\* Starting a request changes only the request.
LEMMA BeginInv ==
    ASSUME CopiesInv, NEW r \in Requests, NEW kind, NEW label \in {"graph", "save"},
           NEW snap \in ItemType, NEW result \in ItemType, Consistent(result),
           Begin(r, kind, label, snap, result)
    PROVE  CopiesInv'
BY DEF CopiesInv, Begin, vars, Consistent

\* What workers put is consistent.
LEMMA WorkerSaves ==
    /\ State("queued", FALSE, {}, {}) \in ItemType
    /\ Consistent(State("queued", FALSE, {}, {}))
    /\ State("queued", TRUE, {}, {}) \in ItemType
    /\ Consistent(State("queued", TRUE, {}, {}))
    /\ State("completed", TRUE, {}, {}) \in ItemType
    /\ Consistent(State("completed", TRUE, {}, {}))
BY DEF State, ItemType, ExecutionStates, Consistent

\* The steps of workers and of the queue touch no request.
LEMMA ExecutionInv ==
    ASSUME CopiesInv, Next, UNCHANGED requestVars
    PROVE  CopiesInv'
<1>0. UNCHANGED req
  BY DEF requestVars
<1>1. CASE CreateSave
  BY <1>0, <1>1, WorkerSaves, PutConsistent DEF CreateSave, CopiesInv, Consistent
<1>2. ASSUME NEW w \in Workers, ClaimUpdate(w)
      PROVE  CopiesInv'
  BY <1>0, <1>2, ClaimConsistent DEF ClaimUpdate, CopiesInv, Consistent
<1>3. ASSUME NEW w \in Workers, UpdateMemory(w)
      PROVE  CopiesInv'
  BY <1>0, <1>3, WorkerSaves, PutConsistent DEF UpdateMemory, CopiesInv, Consistent
<1>4. ASSUME NEW w \in Workers, SaveCompleted(w)
      PROVE  CopiesInv'
  BY <1>0, <1>4, WorkerSaves, PutConsistent DEF SaveCompleted, CopiesInv, Consistent
<1>5. CASE Replicate
  BY <1>0, <1>5 DEF Replicate, CatchUp, CopiesInv, Consistent
<1>6. CASE UNCHANGED storeVars
  BY <1>0, <1>6 DEF storeVars, CopiesInv, Consistent
<1> QED
  BY <1>1, <1>2, <1>3, <1>4, <1>5, <1>6
  DEF Next, WorkerStep, TriggerExecution, TriggerFails, Receive, GetWorkflow,
      ClaimGet, ClaimRefused, ClaimReread, WorkerError, Acknowledge, WorkerCrash,
      VisibilityTimeout, storeVars

LEMMA CopiesInvNext ==
    ASSUME CopiesInv, [RequestsNext]_allVars
    PROVE  CopiesInv'
<1>1. CASE Next /\ UNCHANGED requestVars
  BY <1>1, ExecutionInv
<1>2. ASSUME NEW r \in Requests, BeginContinue(r)
      PROVE  CopiesInv'
  <2> PICK snap \in Readable :
        \E ids \in SUBSET TaskIds :
          Begin(r, "continue", "graph", snap, ContinueResult(snap, ids))
    BY <1>2 DEF BeginContinue
  <2> PICK ids \in SUBSET TaskIds :
        Begin(r, "continue", "graph", snap, ContinueResult(snap, ids))
    OBVIOUS
  <2> QED
    BY ReadConsistent, ResultConsistent, BeginInv
<1>3. ASSUME NEW r \in Requests, BeginRefresh(r)
      PROVE  CopiesInv'
  <2> PICK snap \in Readable :
        Begin(r, "refresh", "graph", snap, RefreshResult(snap))
    BY <1>3 DEF BeginRefresh
  <2> QED
    BY ReadConsistent, ResultConsistent, BeginInv
<1>4. ASSUME NEW r \in Requests, BeginIngest(r)
      PROVE  CopiesInv'
  <2> PICK snap \in Readable :
        \E doc \in Docs : Begin(r, "ingest", "save", snap, IngestResult(snap, doc))
    BY <1>4 DEF BeginIngest
  <2> PICK doc \in Docs : Begin(r, "ingest", "save", snap, IngestResult(snap, doc))
    OBVIOUS
  <2> QED
    BY ReadConsistent, ResultConsistent, BeginInv
<1>5. ASSUME NEW r \in Requests, GraphSaves(r)
      PROVE  CopiesInv'
  <2> DEFINE mid == State("queued", TRUE, req[r].result.done, {})
  <2>1. req[r].result.done \in SUBSET TaskIds
    BY DEF CopiesInv, ItemType
  <2>2. mid \in ItemType /\ Consistent(mid)
    BY <2>1 DEF State, ItemType, ExecutionStates, Consistent
  <2>3. PutItem(mid)
    BY <1>5 DEF GraphSaves
  <2> HIDE DEF mid
  <2>4. /\ item' \in ItemType /\ Consistent(item')
        /\ replica' \in ItemType /\ Consistent(replica')
    BY <2>2, <2>3, PutConsistent
  <2>5. req' = [req EXCEPT ![r].pc = "save"]
    BY <1>5 DEF GraphSaves
  <2> QED
    BY <2>4, <2>5 DEF CopiesInv, Consistent
<1>6. ASSUME NEW r \in Requests, FinalSave(r)
      PROVE  CopiesInv'
  <2>1. req[r].result \in ItemType /\ Consistent(req[r].result)
    BY DEF CopiesInv
  <2>2. /\ item' \in ItemType /\ Consistent(item')
        /\ replica' \in ItemType /\ Consistent(replica')
    BY <1>6, <2>1, PutConsistent DEF FinalSave
  <2>3. Idle \in [pc : {"idle", "graph", "save"}, snap : ItemType, result : ItemType]
          /\ Consistent(Idle.result)
    BY DEF Idle, Absent, State, ItemType, ExecutionStates, Consistent
  <2>4. req' = [req EXCEPT ![r] = Idle]
    BY <1>6 DEF FinalSave
  <2> QED
    BY <2>2, <2>3, <2>4 DEF CopiesInv, Consistent
<1>7. ASSUME NEW r \in Requests, RequestFails(r)
      PROVE  CopiesInv'
  <2>1. Idle \in [pc : {"idle", "graph", "save"}, snap : ItemType, result : ItemType]
          /\ Consistent(Idle.result)
    BY DEF Idle, Absent, State, ItemType, ExecutionStates, Consistent
  <2> QED
    BY <1>7, <2>1 DEF RequestFails, vars, CopiesInv, Consistent
<1>8. CASE Poll
  BY <1>8 DEF Poll, vars, CopiesInv, Consistent
<1>9. CASE UNCHANGED allVars
  BY <1>9 DEF allVars, CopiesInv, Consistent
<1> QED
  BY <1>1, <1>2, <1>3, <1>4, <1>5, <1>6, <1>7, <1>8, <1>9
  DEF RequestsNext, RequestStep

\* However many requests and workers overlap, whatever they read and wherever
\* they die, COMPLETED and completed tasks are only ever stored with a plan.
THEOREM SavesAreConsistent == RequestsSpec => []ItemConsistent
<1>1. RequestsInit => CopiesInv
  BY DEF RequestsInit, Init, StoreInit, Idle, Absent, State, ItemType,
         ExecutionStates, CopiesInv, Consistent
<1>2. CopiesInv /\ [RequestsNext]_allVars => CopiesInv'
  BY CopiesInvNext
<1>3. CopiesInv => ItemConsistent
  BY DEF CopiesInv, Consistent, ItemConsistent
<1> QED
  BY <1>1, <1>2, <1>3, PTL DEF RequestsSpec

-----------------------------------------------------------------------------
(* Types *)

RequestType ==
    [pc : {"idle", "graph", "save"}, snap : ItemType, result : ItemType]

RequestsInv == CopiesInv /\ RequestsTypeOK

LEMMA RequestsInvInit == RequestsInit => RequestsInv
<1>1. RequestsInit => CopiesInv
  BY DEF RequestsInit, Init, StoreInit, Idle, Absent, State, ItemType,
         ExecutionStates, CopiesInv, Consistent
<1>2. RequestsInit => TypeOK
  BY ClaimInvInit DEF RequestsInit, ClaimInv
<1> QED
  BY <1>1, <1>2 DEF RequestsInit, RequestsInv, RequestsTypeOK, CopiesInv, ExecutionStates

LEMMA RequestsInvNext ==
    ASSUME RequestsInv, [RequestsNext]_allVars
    PROVE  RequestsInv'
<1>1. CopiesInv'
  BY CopiesInvNext DEF RequestsInv
<1>2. TypeOK'
  <2>1. CASE [Next]_vars
    BY <2>1, TypeOKNext DEF RequestsInv, RequestsTypeOK
  <2>2. CASE UNCHANGED executionVars
    BY <1>1, <2>2 DEF RequestsInv, RequestsTypeOK, CopiesInv, TypeOK, StoreTypeOK,
                      executionVars
  <2> QED
    BY <2>1, <2>2 DEF RequestsNext, RequestStep, BeginContinue, BeginRefresh, BeginIngest,
       Begin, GraphSaves, FinalSave, RequestFails, Poll, allVars, vars
<1>3. polled' \in ExecutionStates
  <2>1. CASE Poll
    BY <2>1, ReadConsistent DEF Poll, RequestsInv, ItemType
  <2>2. CASE UNCHANGED polled
    BY <2>2 DEF RequestsInv, RequestsTypeOK
  <2> QED
    BY <2>1, <2>2 DEF RequestsNext, RequestStep, BeginContinue, BeginRefresh, BeginIngest,
       Begin, GraphSaves, FinalSave, RequestFails, allVars, requestVars
<1> QED
  BY <1>1, <1>2, <1>3 DEF RequestsInv, RequestsTypeOK, CopiesInv

\* The variables of requests, workers and store keep their types, whatever
\* overlaps and whatever fails.
THEOREM RequestsTypesCorrect == RequestsSpec => []RequestsTypeOK
<1>1. RequestsInv => RequestsTypeOK
  BY DEF RequestsInv
<1> QED
  BY RequestsInvInit, RequestsInvNext, <1>1, PTL DEF RequestsSpec

-----------------------------------------------------------------------------
(* The lock *)

\* What a request will save says what its snapshot said, or "completed".
ResultsKeepState ==
    \A r \in Requests :
      req[r].pc # "idle" => req[r].result.exec \in {req[r].snap.exec, "completed"}

LockInv == RequestsInv /\ ResultsKeepState

LEMMA ResultState ==
    ASSUME NEW snap \in ItemType
    PROVE  /\ \A ids \in SUBSET TaskIds : ContinueResult(snap, ids).exec = snap.exec
           /\ RefreshResult(snap).exec = "completed"
           /\ \A doc \in Docs : IngestResult(snap, doc).exec = snap.exec
BY DEF ContinueResult, RefreshResult, IngestResult, State

LEMMA BeginKeepsState ==
    ASSUME LockInv, NEW r \in Requests, NEW kind, NEW label, NEW snap, NEW result,
           result.exec \in {snap.exec, "completed"}, Begin(r, kind, label, snap, result)
    PROVE  ResultsKeepState'
BY DEF LockInv, RequestsInv, RequestsTypeOK, ResultsKeepState, Begin

LEMMA LockInvNext ==
    ASSUME LockInv, [RequestsNext]_allVars
    PROVE  LockInv'
<1>1. RequestsInv'
  BY RequestsInvNext DEF LockInv
<1>2. CASE UNCHANGED req
  BY <1>1, <1>2 DEF LockInv, ResultsKeepState
<1>3. ASSUME NEW r \in Requests, BeginContinue(r) \/ BeginRefresh(r) \/ BeginIngest(r)
      PROVE  ResultsKeepState'
  <2>1. \A snap \in Readable : snap \in ItemType
    BY ReadConsistent DEF LockInv, RequestsInv
  <2>2. CASE BeginContinue(r)
    BY <2>1, <2>2, ResultState, BeginKeepsState DEF BeginContinue
  <2>3. CASE BeginRefresh(r)
    BY <2>1, <2>3, ResultState, BeginKeepsState DEF BeginRefresh
  <2>4. CASE BeginIngest(r)
    BY <2>1, <2>4, ResultState, BeginKeepsState DEF BeginIngest
  <2> QED BY <1>3, <2>2, <2>3, <2>4
<1>4. ASSUME NEW r \in Requests, GraphSaves(r) \/ FinalSave(r) \/ RequestFails(r)
      PROVE  ResultsKeepState'
  <2>1. req \in [Requests -> [pc : {"idle", "graph", "save"}, snap : ItemType, result : ItemType]]
    BY DEF LockInv, RequestsInv, RequestsTypeOK
  <2>2. \A s \in Requests : s # r => req'[s] = req[s]
    BY <1>4, <2>1 DEF GraphSaves, FinalSave, RequestFails
  <2>3. CASE GraphSaves(r)
    <3>1. /\ req[r].pc = "graph"
          /\ req'[r].snap = req[r].snap /\ req'[r].result = req[r].result
      BY <2>1, <2>3 DEF GraphSaves
    <3> QED BY <2>2, <3>1 DEF LockInv, ResultsKeepState
  <2>4. CASE FinalSave(r) \/ RequestFails(r)
    <3>1. req'[r].pc = "idle"
      BY <2>1, <2>4 DEF FinalSave, RequestFails, Idle
    <3> QED BY <2>2, <3>1 DEF LockInv, ResultsKeepState
  <2> QED BY <1>4, <2>3, <2>4
<1> QED
  BY <1>1, <1>2, <1>3, <1>4
  DEF LockInv, RequestsNext, RequestStep, Poll, requestVars, allVars

\* A put of an item that does not say "running" leaves state and lock in agreement.
LEMMA PutAgrees ==
    ASSUME NEW state \in ItemType, PutItem(state), state.exec # "running"
    PROVE  LockAgrees'
<1>1. item'.exec = state.exec /\ item'.lock = NoWorker
  BY DEF PutItem, ItemType
<1> QED BY <1>1 DEF LockAgrees

LEMMA LockStep ==
    ASSUME LockInv, [RequestsNext]_allVars
    PROVE  UNCHANGED item \/ LockAgrees' \/ \E r \in Requests : PutsBackRunning(r)
<1>0. /\ item \in ItemType
      /\ req \in [Requests -> [pc : {"idle", "graph", "save"}, snap : ItemType, result : ItemType]]
  BY DEF LockInv, RequestsInv, CopiesInv
<1>1. CASE CreateSave
  BY <1>1, SavedType, PutAgrees DEF CreateSave, State
<1>2. ASSUME NEW w \in Workers, ClaimUpdate(w)
      PROVE  LockAgrees'
  <2>1. item'.exec = "running" /\ item'.lock = w
    BY <1>0, <1>2 DEF ClaimUpdate, Claim, ItemType
  <2> QED BY <2>1, StoreAssumption DEF LockAgrees
<1>3. ASSUME NEW w \in Workers, UpdateMemory(w)
      PROVE  LockAgrees'
  BY <1>3, SavedType, PutAgrees DEF UpdateMemory, State
<1>4. ASSUME NEW w \in Workers, SaveCompleted(w)
      PROVE  LockAgrees'
  BY <1>4, SavedType, PutAgrees DEF SaveCompleted, State
<1>5. ASSUME NEW r \in Requests, GraphSaves(r)
      PROVE  LockAgrees'
  <2> DEFINE saved == State("queued", TRUE, req[r].result.done, {})
  <2>1. saved \in ItemType /\ saved.exec = "queued"
    BY <1>0 DEF State, ItemType, ExecutionStates
  <2>2. PutItem(saved)
    BY <1>5 DEF GraphSaves
  <2> HIDE DEF saved
  <2> QED BY <2>1, <2>2, PutAgrees
<1>6. ASSUME NEW r \in Requests, FinalSave(r)
      PROVE  LockAgrees' \/ PutsBackRunning(r)
  <2>1. /\ req[r].pc = "save" /\ PutItem(req[r].result) /\ req[r].result \in ItemType
        /\ req'[r] = Idle
    BY <1>0, <1>6 DEF FinalSave
  <2>2. CASE req[r].result.exec = "running"
    BY <2>1, <2>2 DEF PutsBackRunning, LockInv, ResultsKeepState
  <2>3. CASE req[r].result.exec # "running"
    BY <2>1, <2>3, PutAgrees
  <2> QED BY <2>2, <2>3
<1>7. CASE UNCHANGED item
  BY <1>7
<1> QED
  BY <1>1, <1>2, <1>3, <1>4, <1>5, <1>6, <1>7
  DEF RequestsNext, RequestStep, Next, WorkerStep, TriggerExecution, TriggerFails,
      Receive, GetWorkflow, ClaimGet, ClaimRefused, ClaimReread, WorkerError,
      Acknowledge, WorkerCrash, VisibilityTimeout, Replicate, CatchUp, BeginContinue,
      BeginRefresh, BeginIngest, Begin, RequestFails, Poll, allVars, vars

\* The claim is the only writer of the lock, and every put drops it. Whoever
\* overlaps, fails or reads a stale copy, a write leaves the lock on the item
\* exactly if it says "running", unless a request puts back the "running" it read.
THEOREM LockGoesWithRunning == RequestsSpec => LockFollowsState
<1>1. RequestsInit => LockInv
  BY RequestsInvInit DEF RequestsInit, Idle, LockInv, ResultsKeepState
<1>2. LockInv /\ [RequestsNext]_allVars => LockInv'
  BY LockInvNext
<1>3. LockInv /\ [RequestsNext]_allVars
        => [LockAgrees' \/ \E r \in Requests : PutsBackRunning(r)]_item
  BY LockStep
<1> QED
  BY <1>1, <1>2, <1>3, PTL DEF RequestsSpec, LockFollowsState

-----------------------------------------------------------------------------
(* Requests that do not overlap implement WorkflowRecord. *)

\* Nothing fails half-way, and reads are not served by a lagging replica; reads
\* may fail, publishing may fail, and messages may be delivered twice.
OnlyMildFaults == {"stale_read", "error", "crash"} \cap Faults = {}

Active(r) == req[r].pc # "idle"
Saving == \E w \in Workers : pc[w] = "save"

\* What an analysis of the first kind leaves.
Analysed == RecordOf(State("completed", TRUE, {}, {}))

\* What a request has promised to leave, from its snapshot.
Promised(snap, result) ==
    \/ \E ids \in SUBSET TaskIds : result = ContinueResult(snap, ids)
    \/ result = RefreshResult(snap)
    \/ \E doc \in Docs : result = IngestResult(snap, doc)

\* A request that is being served is alone, and works on the workflow as it is.
ServedAlone ==
    \A r \in Requests : Active(r) =>
      /\ \A s \in Requests : Active(s) => s = r
      /\ WorkersIdle
      /\ req[r].snap.exec # "absent"
      /\ Promised(req[r].snap, req[r].result)
      /\ req[r].pc = "graph" => item = req[r].snap

\* Nothing happens to a workflow that is not there.
NotBeforeCreate ==
    creator = "start" =>
      item = Absent /\ msg = "none" /\ WorkersIdle /\ RequestsIdle

\* A worker analyses a workflow that runs, or one that has been analysed by
\* another delivery since, whose last save may still be to come.
AnalysedOnce ==
    \A w \in Workers : Analysing(w) =>
      Saving \/ item.exec = "running" \/ RecordOf(item) = Analysed

RefinementInv ==
    /\ RequestsInv
    /\ ServedAlone
    /\ NotBeforeCreate
    /\ AnalysedOnce

-----------------------------------------------------------------------------
LEMMA RefinementInvInit == RequestsInit => RefinementInv
<1> SUFFICES ASSUME RequestsInit PROVE RefinementInv
  OBVIOUS
<1>1. RequestsInv
  BY RequestsInvInit
<1> QED
  BY <1>1 DEF RequestsInit, Init, StoreInit, Idle, RefinementInv, ServedAlone, Active,
     NotBeforeCreate, WorkersIdle, RequestsIdle, AnalysedOnce, Analysing

\* While requests are idle, the record is the item, or what a worker is about to
\* save.
WorkerView == IF Saving THEN Analysed ELSE RecordOf(item)

LEMMA IdleView ==
    ASSUME RequestsIdle, UNCHANGED req
    PROVE  recordView = WorkerView /\ recordView' = WorkerView'
BY DEF RequestsIdle, recordView, WorkerView, Saving, Analysed, RecordOf

\* A worker's step that leaves the item alone, and neither begins nor ends an
\* analysis or its save, is invisible.
LEMMA QuietStep ==
    ASSUME RefinementInv, RequestsIdle, UNCHANGED <<item, req>>,
           Saving' = Saving, \A w \in Workers : Analysing(w)' => Analysing(w)
    PROVE  AnalysedOnce' /\ recordView' = recordView
<1>1. AnalysedOnce'
  BY DEF RefinementInv, AnalysedOnce, Analysed, RecordOf
<1> QED BY <1>1, IdleView DEF WorkerView, Analysed, RecordOf

\* A move of one worker between two places where it does not save.
LEMMA QuietMove ==
    ASSUME RefinementInv, RequestsIdle, UNCHANGED <<item, req>>,
           NEW w \in Workers, NEW label \in WorkerStates, Goto(w, label),
           pc[w] # "save", label # "save", label \in {"claim_reread", "graph"} => Analysing(w)
    PROVE  AnalysedOnce' /\ recordView' = recordView
<1>1. pc \in [Workers -> WorkerStates]
  BY DEF RefinementInv, RequestsInv, RequestsTypeOK, TypeOK
<1>2. Saving' = Saving
  BY <1>1 DEF Saving, Goto
<1>3. \A v \in Workers : Analysing(v)' => Analysing(v)
  BY <1>1 DEF Analysing, Goto
<1> QED BY <1>2, <1>3, QuietStep

\* What the item of a put says.
LEMMA PutRecord ==
    ASSUME NEW state \in ItemType, PutItem(state)
    PROVE  RecordOf(item') = RecordOf(state)
BY DEF PutItem, RecordOf, ItemType

\* Between requests, the steps of create_workflow, of workers and of the queue
\* create the record, start it, analyse it, or do nothing to it.
LEMMA WorkersActOnRecord ==
    ASSUME OnlyMildFaults, RefinementInv, RequestsIdle, Next, UNCHANGED requestVars
    PROVE  /\ AnalysedOnce'
           /\ \/ Record!Create \/ Record!Start \/ Record!Analyse
              \/ UNCHANGED recordView
<1>0. /\ pc \in [Workers -> WorkerStates] /\ item \in ItemType
      /\ UNCHANGED req
  BY DEF RefinementInv, RequestsInv, RequestsTypeOK, TypeOK, StoreTypeOK, requestVars
<1>1. recordView = WorkerView /\ recordView' = WorkerView'
  BY <1>0, IdleView
<1>2. CASE CreateSave
  <2>1. item = Absent /\ WorkersIdle
    BY <1>2 DEF CreateSave, RefinementInv, NotBeforeCreate
  <2>2. /\ item' = [State("queued", FALSE, {}, {}) EXCEPT !.lock = NoWorker]
        /\ UNCHANGED pc
    BY <1>2 DEF CreateSave, PutItem
  <2>3. ~Saving /\ ~Saving' /\ \A w \in Workers : ~Analysing(w)'
    BY <2>1, <2>2 DEF Saving, WorkersIdle, Analysing
  <2>4. /\ item.exec = "absent" /\ item'.exec = "queued"
        /\ item'.planned = item.planned /\ item'.done = item.done /\ item'.docs = item.docs
    BY <2>1, <2>2 DEF Absent, State
  <2>5. recordView = RecordOf(item) /\ recordView' = RecordOf(item')
    BY <1>1, <2>3 DEF WorkerView
  <2>6. Record!Create
    BY <2>4, <2>5 DEF Record!Create, Record!Exists, RecordOf
  <2> QED BY <2>3, <2>6 DEF AnalysedOnce
<1>3. CASE TriggerExecution \/ TriggerFails \/ VisibilityTimeout
  <2>1. UNCHANGED <<item, pc>>
    BY <1>3 DEF TriggerExecution, TriggerFails, VisibilityTimeout
  <2> QED BY <1>0, <2>1, QuietStep DEF Saving, Analysing
<1>4. ASSUME NEW w \in Workers,
             Receive(w) \/ GetWorkflow(w) \/ ClaimGet(w) \/ ClaimRefused(w)
               \/ ClaimReread(w) \/ Acknowledge(w)
      PROVE  AnalysedOnce' /\ UNCHANGED recordView
  <2>1. UNCHANGED item /\ pc[w] # "save"
    BY <1>4 DEF Receive, GetWorkflow, ClaimGet, ClaimRefused, ClaimReread, Acknowledge
  <2>2. PICK label \in {"get", "ack", "claim_get", "claim_update", "graph", "idle"} :
          Goto(w, label)
    BY <1>4 DEF Receive, GetWorkflow, ClaimGet, ClaimRefused, ClaimReread, Acknowledge
  <2>3. label = "graph" => Analysing(w)
    BY <1>0, <1>4, <2>2 DEF Receive, GetWorkflow, ClaimGet, ClaimRefused, ClaimReread,
       Acknowledge, Goto, Analysing
  <2>4. label \in WorkerStates /\ label # "save"
    BY DEF WorkerStates
  <2> QED BY <1>0, <2>1, <2>2, <2>3, <2>4, QuietMove
<1>5. ASSUME NEW w \in Workers, ClaimUpdate(w)
      PROVE  AnalysedOnce' /\ (Record!Start \/ UNCHANGED recordView)
  <2>1. /\ item.exec = "queued"
        /\ RecordOf(item') = [RecordOf(item) EXCEPT !.exec = "running"]
        /\ item'.exec = "running"
    BY <1>0, <1>5 DEF ClaimUpdate, Claim, Claimable, ItemType, RecordOf
  <2>2. Saving' = Saving
    BY <1>0, <1>5 DEF ClaimUpdate, Goto, Saving
  <2>3. AnalysedOnce'
    BY <2>1 DEF AnalysedOnce
  <2>4. CASE Saving
    BY <1>1, <2>2, <2>3, <2>4 DEF WorkerView, Analysed, RecordOf
  <2>5. CASE ~Saving
    <3>1. recordView = RecordOf(item) /\ recordView' = RecordOf(item')
      BY <1>1, <2>2, <2>5 DEF WorkerView
    <3>2. Record!Start
      BY <2>1, <3>1 DEF Record!Start, RecordOf
    <3> QED BY <2>3, <3>2
  <2> QED BY <2>4, <2>5
<1>6. ASSUME NEW w \in Workers, UpdateMemory(w)
      PROVE  AnalysedOnce' /\ (Record!Analyse \/ UNCHANGED recordView)
  <2>1. Saving'
    BY <1>0, <1>6 DEF UpdateMemory, Goto, Saving
  <2>2. recordView' = Analysed
    BY <1>1, <2>1 DEF WorkerView, Analysed, RecordOf
  <2>3. Analysed = [exec |-> "completed", planned |-> TRUE, done |-> {}, docs |-> {}]
    BY DEF Analysed, RecordOf, State
  <2>4. recordView = Analysed \/ recordView.exec = "running"
    BY <1>1, <1>6 DEF UpdateMemory, Analysing, RefinementInv, AnalysedOnce, WorkerView,
       RecordOf
  <2> QED BY <2>1, <2>2, <2>3, <2>4 DEF AnalysedOnce, Record!Analyse
<1>7. ASSUME NEW w \in Workers, SaveCompleted(w)
      PROVE  AnalysedOnce' /\ UNCHANGED recordView
  <2>1. recordView = Analysed
    BY <1>1, <1>7 DEF SaveCompleted, Saving, WorkerView
  <2>2. RecordOf(item') = Analysed
    BY <1>7, WorkerSaves, PutRecord DEF SaveCompleted, Analysed
  <2>3. recordView' = Analysed
    BY <1>1, <2>2 DEF WorkerView, Analysed, RecordOf
  <2> QED BY <2>1, <2>2, <2>3 DEF AnalysedOnce, Analysed, RecordOf
<1>8. ASSUME NEW w \in Workers, WorkerError(w) \/ WorkerCrash(w)
      PROVE  FALSE
  BY <1>8 DEF WorkerError, WorkerCrash, OnlyMildFaults
<1>9. CASE Replicate
  BY <1>0, <1>9, QuietStep DEF Replicate, CatchUp, executionVars, Saving, Analysing
<1> QED
  BY <1>2, <1>3, <1>4, <1>5, <1>6, <1>7, <1>8, <1>9 DEF Next, WorkerStep

-----------------------------------------------------------------------------
\* A request that begins has read the workflow as it is, and keeps what it promises.
LEMMA BeginServed ==
    ASSUME ~Overlap, OnlyMildFaults, RefinementInv, NEW r \in Requests, NEW kind,
           NEW label \in {"graph", "save"}, NEW snap \in Readable,
           NEW result, Promised(snap, result), Begin(r, kind, label, snap, result)
    PROVE  /\ ServedAlone' /\ NotBeforeCreate' /\ AnalysedOnce'
           /\ UNCHANGED recordView
<1>1. snap = item /\ item.exec # "absent"
  BY DEF Begin, Readable, OnlyMildFaults, Absent, State
<1>2. /\ RequestsIdle /\ WorkersIdle /\ UNCHANGED <<item, pc, creator, msg>>
      /\ req' = [req EXCEPT ![r] = [pc |-> label, snap |-> snap, result |-> result]]
      /\ req \in [Requests -> RequestType]
  BY DEF Begin, vars, RefinementInv, RequestsInv, RequestsTypeOK, RequestType
<1>3. /\ req'[r] = [pc |-> label, snap |-> snap, result |-> result]
      /\ \A s \in Requests : s # r => req'[s] = req[s] /\ req[s].pc = "idle"
  BY <1>2 DEF RequestsIdle
<1>4. ServedAlone'
  BY <1>1, <1>2, <1>3 DEF ServedAlone, Active, WorkersIdle, Promised, ContinueResult,
     RefreshResult, IngestResult
<1>5. NotBeforeCreate'
  BY <1>1, <1>2 DEF RefinementInv, NotBeforeCreate, Absent, State
<1>6. AnalysedOnce'
  BY <1>2 DEF AnalysedOnce, Analysing, WorkersIdle
<1>7. recordView = RecordOf(item)
  BY <1>2 DEF recordView, RequestsIdle, WorkersIdle
<1>8. recordView' = RecordOf(item)
  <2>1. CASE label = "save"
    <3>1. (CHOOSE s \in Requests : req'[s].pc = "save") = r
      BY <1>3, <2>1
    <3> QED BY <1>1, <1>3, <2>1, <3>1 DEF recordView, RecordOf
  <2>2. CASE label = "graph"
    BY <1>2, <1>3, <2>2 DEF recordView, WorkersIdle, RecordOf
  <2> QED BY <2>1, <2>2
<1> QED BY <1>4, <1>5, <1>6, <1>7, <1>8

\* The graph's save in the middle of a request does not show.
LEMMA GraphSavesHidden ==
    ASSUME RefinementInv, NEW r \in Requests, GraphSaves(r)
    PROVE  /\ ServedAlone' /\ NotBeforeCreate' /\ AnalysedOnce'
           /\ UNCHANGED recordView
<1>1. /\ req[r].pc = "graph" /\ Active(r) /\ item = req[r].snap /\ WorkersIdle
      /\ \A s \in Requests : s # r => req[s].pc = "idle"
  BY DEF GraphSaves, RefinementInv, ServedAlone, Active
<1>2. /\ req' = [req EXCEPT ![r].pc = "save"] /\ UNCHANGED <<creator, msg, pc>>
      /\ req \in [Requests -> RequestType]
  BY DEF GraphSaves, executionVars, RefinementInv, RequestsInv, RequestsTypeOK, RequestType
<1>3. /\ req'[r].pc = "save" /\ req'[r].snap = req[r].snap /\ req'[r].result = req[r].result
      /\ \A s \in Requests : s # r => req'[s] = req[s]
  BY <1>2 DEF RequestType
<1>4. ServedAlone'
  <2>1. req[r].snap.exec # "absent" /\ Promised(req[r].snap, req[r].result)
    BY <1>1 DEF RefinementInv, ServedAlone
  <2>2. Promised(req'[r].snap, req'[r].result)
    BY <1>3, <2>1
  <2>3. \A s \in Requests : Active(s)' => s = r
    BY <1>1, <1>3 DEF Active
  <2>4. WorkersIdle'
    BY <1>1, <1>2 DEF WorkersIdle
  <2> QED BY <1>3, <2>1, <2>2, <2>3, <2>4
          DEF ServedAlone, Promised, ContinueResult, RefreshResult, IngestResult
<1>5. NotBeforeCreate'
  BY <1>1, <1>2 DEF RefinementInv, NotBeforeCreate, RequestsIdle
<1>6. AnalysedOnce'
  BY <1>1, <1>2 DEF AnalysedOnce, Analysing, WorkersIdle
<1>7. recordView = RecordOf(item)
  BY <1>1 DEF recordView, WorkersIdle
<1>8. recordView' = RecordOf(item)
  <2>1. (CHOOSE s \in Requests : req'[s].pc = "save") = r
    BY <1>1, <1>3
  <2> QED BY <1>1, <1>3, <2>1 DEF recordView, RecordOf
<1> QED BY <1>4, <1>5, <1>6, <1>7, <1>8

\* Each request's promise is a step of the record it was made for.
LEMMA PromiseIsStep ==
    ASSUME NEW snap \in ItemType, snap.exec # "absent", NEW result, Promised(snap, result),
           recordView = RecordOf(snap), recordView' = RecordOf(result)
    PROVE  Record!Next
<1>1. Record!Exists
  BY DEF Record!Exists, RecordOf
<1>2. ASSUME NEW ids \in SUBSET TaskIds, result = ContinueResult(snap, ids)
      PROVE  Record!Continue(ids)
  <2>1. /\ result.exec = snap.exec /\ result.planned = TRUE /\ result.docs = snap.docs
        /\ result.done = snap.done \cup (IF snap.planned THEN ids ELSE {})
    BY <1>2 DEF ContinueResult, State
  <2>2. /\ recordView.done = snap.done /\ recordView.planned = snap.planned
        /\ recordView = [exec |-> snap.exec, planned |-> snap.planned,
                         done |-> snap.done, docs |-> snap.docs]
        /\ recordView' = [exec |-> snap.exec, planned |-> result.planned,
                          done |-> result.done, docs |-> snap.docs]
    BY <2>1 DEF RecordOf
  <2>3. recordView' = [recordView EXCEPT !.planned = result.planned, !.done = result.done]
    <3>1. [recordView EXCEPT !.planned = result.planned, !.done = result.done]
            = [[recordView EXCEPT !.planned = result.planned] EXCEPT !.done = result.done]
      BY ONLY Zenon
    <3>2. [recordView EXCEPT !.planned = result.planned]
            = [exec |-> snap.exec, planned |-> result.planned,
               done |-> snap.done, docs |-> snap.docs]
      BY ONLY <2>2
    <3>3. [[exec |-> snap.exec, planned |-> result.planned,
            done |-> snap.done, docs |-> snap.docs] EXCEPT !.done = result.done]
            = [exec |-> snap.exec, planned |-> result.planned,
               done |-> result.done, docs |-> snap.docs]
      BY ONLY SMT
    <3> QED BY ONLY <2>2, <3>1, <3>2, <3>3, Zenon
  <2> QED BY <1>1, <2>1, <2>2, <2>3 DEF Record!Continue
<1>3. ASSUME result = RefreshResult(snap)
      PROVE  Record!Refresh
  <2>1. /\ result.exec = "completed" /\ result.planned = TRUE
        /\ result.done = snap.done /\ result.docs = snap.docs
    BY <1>3 DEF RefreshResult, State
  <2>2. /\ recordView = [exec |-> snap.exec, planned |-> snap.planned,
                         done |-> snap.done, docs |-> snap.docs]
        /\ recordView' = [exec |-> result.exec, planned |-> result.planned,
                          done |-> snap.done, docs |-> snap.docs]
    BY <2>1 DEF RecordOf
  <2>3. recordView' = [recordView EXCEPT !.exec = result.exec, !.planned = result.planned]
    <3>1. [recordView EXCEPT !.exec = result.exec, !.planned = result.planned]
            = [[recordView EXCEPT !.exec = result.exec] EXCEPT !.planned = result.planned]
      BY ONLY Zenon
    <3>2. [recordView EXCEPT !.exec = result.exec]
            = [exec |-> result.exec, planned |-> snap.planned,
               done |-> snap.done, docs |-> snap.docs]
      BY ONLY <2>2
    <3>3. [[exec |-> result.exec, planned |-> snap.planned,
            done |-> snap.done, docs |-> snap.docs] EXCEPT !.planned = result.planned]
            = [exec |-> result.exec, planned |-> result.planned,
               done |-> snap.done, docs |-> snap.docs]
      BY ONLY SMT
    <3> QED BY ONLY <2>2, <3>1, <3>2, <3>3, Zenon
  <2> QED BY <1>1, <2>1, <2>3 DEF Record!Refresh
<1>4. ASSUME NEW doc \in Docs, result = IngestResult(snap, doc)
      PROVE  Record!Ingest(doc)
  BY <1>1, <1>4 DEF Record!Ingest, IngestResult, RecordOf, State
<1> QED BY <1>2, <1>3, <1>4 DEF Promised, Record!Next

\* The last save of a request is its step.
LEMMA FinalSaveIsStep ==
    ASSUME RefinementInv, NEW r \in Requests, FinalSave(r)
    PROVE  /\ ServedAlone' /\ NotBeforeCreate' /\ AnalysedOnce'
           /\ Record!Next
<1>1. /\ req[r].pc = "save" /\ Active(r) /\ WorkersIdle
      /\ req[r].snap.exec # "absent" /\ Promised(req[r].snap, req[r].result)
      /\ \A s \in Requests : s # r => req[s].pc = "idle"
  BY DEF FinalSave, RefinementInv, ServedAlone, Active
<1>2. /\ req' = [req EXCEPT ![r] = Idle] /\ UNCHANGED <<creator, msg, pc>>
      /\ PutItem(req[r].result)
      /\ req \in [Requests -> RequestType]
  BY DEF FinalSave, executionVars, RefinementInv, RequestsInv, RequestsTypeOK, RequestType
<1>3. \A s \in Requests : req'[s].pc = "idle"
  BY <1>1, <1>2 DEF Idle
<1>4. WorkersIdle'
  BY <1>1, <1>2 DEF WorkersIdle
<1>5. ServedAlone' /\ AnalysedOnce'
  BY <1>3, <1>4 DEF ServedAlone, Active, AnalysedOnce, Analysing, WorkersIdle
<1>6. NotBeforeCreate'
  BY <1>1, <1>2 DEF RefinementInv, NotBeforeCreate, RequestsIdle
<1>7. req[r].snap \in ItemType /\ req[r].result \in ItemType
  BY <1>2 DEF RequestType
<1>8. recordView = RecordOf(req[r].snap)
  <2>1. (CHOOSE s \in Requests : req[s].pc = "save") = r
    BY <1>1
  <2> QED BY <1>1, <2>1 DEF recordView
<1>9. recordView' = RecordOf(req[r].result)
  <2>1. recordView' = RecordOf(item')
    BY <1>3, <1>4 DEF recordView, WorkersIdle, RecordOf
  <2> QED BY <1>2, <1>7, <2>1, PutRecord
<1>10. Record!Next
  BY <1>1, <1>7, <1>8, <1>9, PromiseIsStep
<1> QED BY <1>5, <1>6, <1>10

\* Every step of requests and workers is a step of the record, or none.
LEMMA RequestsActOnRecord ==
    ASSUME ~Overlap, OnlyMildFaults, RefinementInv, [RequestsNext]_allVars
    PROVE  RefinementInv' /\ [Record!Next]_recordView
<1>0. RequestsInv'
  BY RequestsInvNext DEF RefinementInv
<1>1. CASE RequestsIdle /\ Next /\ UNCHANGED requestVars
  <2>1. AnalysedOnce' /\ [Record!Next]_recordView
    BY <1>1, WorkersActOnRecord DEF Record!Next
  <2>2. ServedAlone'
    BY <1>1 DEF RequestsIdle, requestVars, ServedAlone, Active
  <2>3. NotBeforeCreate'
    BY <1>1 DEF RefinementInv, NotBeforeCreate, RequestsIdle, WorkersIdle, requestVars,
       Next, CreateSave, TriggerExecution, TriggerFails, Receive, WorkerStep, GetWorkflow,
       ClaimGet, ClaimUpdate, ClaimRefused, ClaimReread, UpdateMemory, SaveCompleted,
       Acknowledge, WorkerError, WorkerCrash, VisibilityTimeout, Replicate, CatchUp,
       executionVars
  <2> QED BY <1>0, <2>1, <2>2, <2>3 DEF RefinementInv
<1>2. ASSUME NEW r \in Requests, BeginContinue(r)
      PROVE  RefinementInv' /\ [Record!Next]_recordView
  <2>1. PICK snap \in Readable, ids \in SUBSET TaskIds :
          Begin(r, "continue", "graph", snap, ContinueResult(snap, ids))
    BY <1>2 DEF BeginContinue
  <2>2. Promised(snap, ContinueResult(snap, ids))
    BY DEF Promised
  <2> QED BY <1>0, <2>1, <2>2, BeginServed DEF RefinementInv
<1>3. ASSUME NEW r \in Requests, BeginRefresh(r)
      PROVE  RefinementInv' /\ [Record!Next]_recordView
  <2>1. PICK snap \in Readable : Begin(r, "refresh", "graph", snap, RefreshResult(snap))
    BY <1>3 DEF BeginRefresh
  <2>2. Promised(snap, RefreshResult(snap))
    BY DEF Promised
  <2> QED BY <1>0, <2>1, <2>2, BeginServed DEF RefinementInv
<1>4. ASSUME NEW r \in Requests, BeginIngest(r)
      PROVE  RefinementInv' /\ [Record!Next]_recordView
  <2>1. PICK snap \in Readable, doc \in Docs :
          Begin(r, "ingest", "save", snap, IngestResult(snap, doc))
    BY <1>4 DEF BeginIngest
  <2>2. Promised(snap, IngestResult(snap, doc))
    BY DEF Promised
  <2> QED BY <1>0, <2>1, <2>2, BeginServed DEF RefinementInv
<1>5. ASSUME NEW r \in Requests, GraphSaves(r)
      PROVE  RefinementInv' /\ [Record!Next]_recordView
  BY <1>0, <1>5, GraphSavesHidden DEF RefinementInv
<1>6. ASSUME NEW r \in Requests, FinalSave(r)
      PROVE  RefinementInv' /\ [Record!Next]_recordView
  BY <1>0, <1>6, FinalSaveIsStep DEF RefinementInv
<1>7. ASSUME NEW r \in Requests, RequestFails(r)
      PROVE  FALSE
  BY <1>7 DEF RequestFails, OnlyMildFaults
<1>8. CASE Poll \/ UNCHANGED allVars
  <2>1. UNCHANGED <<item, pc, req, creator, msg>>
    BY <1>8 DEF Poll, allVars, vars
  <2>2. UNCHANGED recordView
    BY <2>1 DEF recordView, RecordOf
  <2>3. ServedAlone' /\ NotBeforeCreate' /\ AnalysedOnce'
    BY <2>1 DEF RefinementInv, ServedAlone, Active, WorkersIdle, Promised, ContinueResult,
       RefreshResult, IngestResult, NotBeforeCreate, RequestsIdle, AnalysedOnce, Analysing,
       Saving, RecordOf, Analysed
  <2> QED BY <1>0, <2>2, <2>3 DEF RefinementInv
<1> QED
  BY <1>1, <1>2, <1>3, <1>4, <1>5, <1>6, <1>7, <1>8 DEF RequestsNext, RequestStep

\* Requests of any number and kind, one at a time between the deliveries of the
\* message, act on the workflow's record as if each were a single step: what
\* the graph's save overwrites is restored (continue_workflow, rebuild_workflow).
THEOREM RequestsAreAtomic ==
    ASSUME ~Overlap, OnlyMildFaults PROVE RequestsSpec => ImplementsRecord
<1>1. RequestsInit => Record!Init
  BY DEF RequestsInit, Init, StoreInit, Idle, recordView, RecordOf, Absent, State,
     Record!Init
<1>2. RefinementInv /\ [RequestsNext]_allVars => RefinementInv' /\ [Record!Next]_recordView
  BY RequestsActOnRecord
<1> QED
  BY RefinementInvInit, <1>1, <1>2, PTL DEF RequestsSpec, ImplementsRecord, Record!Spec

\* A step of the record keeps its type, and drops nothing from a completed one.
LEMMA RecordStep ==
    ASSUME Record!TypeOK, [Record!Next]_recordView
    PROVE  /\ Record!TypeOK'
           /\ recordView.exec = "completed" =>
                /\ recordView'.exec = "completed"
                /\ recordView.done \subseteq recordView'.done
                /\ recordView.docs \subseteq recordView'.docs
<1> USE DEF Record!TypeOK, Record!RecordType, Record!Progress, Record!Exists
<1>1. CASE Record!Create \/ Record!Start
  BY <1>1 DEF Record!Create, Record!Start
<1>6. CASE Record!Analyse
  <2>1. [exec |-> "completed", planned |-> TRUE, done |-> {}, docs |-> {}]
          \in [exec : {"absent", "queued", "running", "completed"}, planned : BOOLEAN,
              done : SUBSET TaskIds, docs : SUBSET Docs]
    OBVIOUS
  <2> QED BY <1>6, <2>1 DEF Record!Analyse
<1>2. CASE Record!Refresh
  BY <1>2 DEF Record!Refresh
<1>3. ASSUME NEW ids \in SUBSET TaskIds, Record!Continue(ids)
      PROVE  /\ Record!TypeOK' /\ recordView'.exec = recordView.exec
             /\ recordView.done \subseteq recordView'.done
             /\ recordView.docs = recordView'.docs
  <2>1. recordView.done \cup (IF recordView.planned THEN ids ELSE {}) \in SUBSET TaskIds
    OBVIOUS
  <2> QED BY <1>3, <2>1 DEF Record!Continue
<1>4. ASSUME NEW doc \in Docs, Record!Ingest(doc)
      PROVE  /\ Record!TypeOK' /\ recordView'.exec = recordView.exec
             /\ recordView.done = recordView'.done
             /\ recordView.docs \subseteq recordView'.docs
  BY <1>4 DEF Record!Ingest
<1>5. CASE UNCHANGED recordView
  BY <1>5
<1> QED BY <1>1, <1>2, <1>3, <1>4, <1>5, <1>6 DEF Record!Next

\* So a workflow that is COMPLETED stays so, and none of its completed tasks and
\* documents is dropped by a request, whatever the deliveries before it did.
THEOREM CompletedStays ==
    ASSUME ~Overlap, OnlyMildFaults PROVE RequestsSpec => Record!Settled
<1>1. Record!Init => Record!TypeOK
  BY DEF Record!Init, Record!TypeOK, Record!RecordType, Record!Progress
<1>2. Record!TypeOK /\ [Record!Next]_recordView =>
        /\ Record!TypeOK'
        /\ [recordView.exec = "completed" =>
              /\ recordView'.exec = "completed"
              /\ recordView.done \subseteq recordView'.done
              /\ recordView.docs \subseteq recordView'.docs]_recordView
  BY RecordStep
<1> QED
  BY RequestsAreAtomic, <1>1, <1>2, PTL DEF ImplementsRecord, Record!Spec, Record!Settled
=============================================================================
