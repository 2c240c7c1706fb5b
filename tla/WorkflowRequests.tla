-------------------------- MODULE WorkflowRequests --------------------------
(***************************************************************************)
(* The API requests that rewrite a workflow's item while it exists, next   *)
(* to the workers of WorkflowExecution and a client that polls its status: *)
(*   continue   POST /goals/{id}/continue    AgentService.continue_workflow *)
(*   refresh    POST /workflows/{id}/refresh AgentService.rebuild_workflow  *)
(*   ingest     POST /documents/ingest       ingest_document_route          *)
(* Each reads a snapshot, works on it for a while, and puts the whole item *)
(* back.  The first two run the graph, whose update_memory_node puts an    *)
(* intermediate item first.                                                *)
(***************************************************************************)
EXTENDS WorkflowExecution

CONSTANTS
    Requests,       \* concurrent API requests
    RequestKinds,   \* the kinds of request users send
    Overlap         \* may a request start while another or a worker is busy?

ASSUME RequestsAssumption ==
    /\ RequestKinds \subseteq {"continue", "refresh", "ingest"}
    /\ Overlap \in BOOLEAN

VARIABLES
    req,        \* what each request is about to do, from which snapshot
    polled      \* the state the status endpoint last answered

requestVars == <<req, polled>>
allVars == <<item, replica, creator, msg, receives, pc, req, polled>>

-----------------------------------------------------------------------------
Idle == [pc |-> "idle", snap |-> Absent, result |-> Absent]

RequestsTypeOK ==
    /\ TypeOK
    /\ req \in [Requests ->
         [pc : {"idle", "graph", "save"}, snap : ItemType, result : ItemType]]
    /\ polled \in ExecutionStates

RequestsInit ==
    /\ Init
    /\ req = [r \in Requests |-> Idle]
    /\ polled = "absent"

RequestsIdle == \A r \in Requests : req[r].pc = "idle"
WorkersIdle == \A w \in Workers : pc[w] = "idle"

\* Mutant: the result of the graph is saved as it is.
ContinueResult_AsReturned(snap, ids) ==
    State("queued", TRUE,
          snap.done \cup (IF snap.planned THEN ids ELSE {}), {})

\* continue_workflow: initialize_node adds the ids it finds among the snapshot's
\* tasks; the execution state and the documents are taken from the snapshot.
ContinueResult(snap, ids) ==
    State(snap.exec, TRUE,
          snap.done \cup (IF snap.planned THEN ids ELSE {}), snap.docs)

\* rebuild_workflow: the completed ids are passed on, the documents restored.
RefreshResult(snap) == State("completed", TRUE, snap.done, snap.docs)

\* Mutant: a document calls for a review, a state the enumeration has but no
\* reader of it knows.
IngestResult_Review(snap, doc) ==
    State("needs_review", snap.planned, snap.done, snap.docs \cup {doc})

\* ingest_document_route: the snapshot, with one more file name.
IngestResult(snap, doc) ==
    State(snap.exec, snap.planned, snap.done, snap.docs \cup {doc})

Begin(r, kind, label, snap, result) ==
    /\ kind \in RequestKinds
    /\ req[r].pc = "idle"
    /\ Overlap \/ (RequestsIdle /\ WorkersIdle)
    /\ snap.exec # "absent"
    /\ req' = [req EXCEPT ![r] = [pc |-> label, snap |-> snap, result |-> result]]
    /\ UNCHANGED <<vars, polled>>

BeginContinue(r) ==
    \E snap \in Readable, ids \in SUBSET TaskIds :
      Begin(r, "continue", "graph", snap, ContinueResult(snap, ids))

BeginRefresh(r) ==
    \E snap \in Readable : Begin(r, "refresh", "graph", snap, RefreshResult(snap))

BeginIngest(r) ==
    \E snap \in Readable, doc \in Docs :
      Begin(r, "ingest", "save", snap, IngestResult(snap, doc))

\* The graph's last node saves the analysed state, as for a worker: execution
\* state "queued", execution_metadata as the last node left it (no documents).
GraphSaves(r) ==
    /\ req[r].pc = "graph"
    /\ PutItem(State("queued", TRUE, req[r].result.done, {}))
    /\ req' = [req EXCEPT ![r].pc = "save"]
    /\ UNCHANGED <<executionVars, polled>>

\* Mutant: the execution state is read again at the save, the rest is not.
FinalSave_Mixed(r) ==
    /\ req[r].pc = "save"
    /\ PutItem([req[r].result EXCEPT !.exec = item.exec])
    /\ req' = [req EXCEPT ![r] = Idle]
    /\ UNCHANGED <<executionVars, polled>>

FinalSave(r) ==
    /\ req[r].pc = "save"
    /\ PutItem(req[r].result)
    /\ req' = [req EXCEPT ![r] = Idle]
    /\ UNCHANGED <<executionVars, polled>>

\* An exception, or the process dies: what was saved stays saved.
RequestFails(r) ==
    /\ {"error", "crash"} \cap Faults # {}
    /\ req[r].pc # "idle"
    /\ req' = [req EXCEPT ![r] = Idle]
    /\ UNCHANGED <<vars, polled>>

\* GET /goals/{id}/status
Poll ==
    /\ \E seen \in Readable : seen.exec # "absent" /\ polled' = seen.exec
    /\ UNCHANGED <<vars, req>>

-----------------------------------------------------------------------------
RequestStep(r) == GraphSaves(r) \/ FinalSave(r)

RequestsNext ==
    \/ (Overlap \/ RequestsIdle) /\ Next /\ UNCHANGED requestVars
    \/ \E r \in Requests :
         \/ BeginContinue(r) \/ BeginRefresh(r) \/ BeginIngest(r)
         \/ RequestStep(r) \/ RequestFails(r)
    \/ Poll

\* A request that is being served runs on; users owe nothing.
RequestsSpec ==
    /\ RequestsInit
    /\ [][RequestsNext]_allVars
    /\ \A r \in Requests : WF_allVars(RequestStep(r))

-----------------------------------------------------------------------------
(* Refinement: requests that do not overlap act on the record atomically.  *)

\* While a request has an intermediate item in the store, the record is still
\* what the request read; a worker's analysis counts from its first save.
RecordOf(state) ==
    [exec |-> state.exec, planned |-> state.planned,
     done |-> state.done, docs |-> state.docs]

recordView ==
    IF \E r \in Requests : req[r].pc = "save"
      THEN RecordOf(req[CHOOSE r \in Requests : req[r].pc = "save"].snap)
    ELSE IF \E w \in Workers : pc[w] = "save"
      THEN RecordOf(State("completed", TRUE, {}, {}))
    ELSE RecordOf(item)

Record == INSTANCE WorkflowRecord WITH record <- recordView

-----------------------------------------------------------------------------
(* Properties *)

\* One request at a time, between the deliveries of the message, is atomic:
\* whatever the graph saves on the way, each request ends with the item it
\* promised (continue_workflow and rebuild_workflow restore the execution
\* state and the documents that the graph's own save has overwritten).
ImplementsRecord == Record!Spec

\* However requests, workers, crashes and stale reads interleave, a workflow is
\* never reported COMPLETED, and no task of it as completed, without the plan:
\* every save in service.py and documents.py puts the fields of one snapshot,
\* never those of two.
ItemConsistent == item.exec = "completed" \/ item.done # {} => item.planned

LockAgrees == item.lock # NoWorker <=> item.exec = "running"

\* The last save of a request that has read the item while it said "running".
PutsBackRunning(r) ==
    /\ req[r].pc = "save"
    /\ req[r].snap.exec = "running"
    /\ req'[r] = Idle

\* The lock comes with "running" and goes with it, whoever writes the item: no
\* put leaves a lock on an item that says "queued", which other workers could
\* then never claim.  The one exception is in documents.py:32 and service.py:220:
\* a request that has read the item during an analysis may put "running" back,
\* and the item then has no lock.
LockFollowsState == [][LockAgrees' \/ \E r \in Requests : PutsBackRunning(r)]_item

\* "persist the corrected state so polling never sees a regressed workflow":
\* a client that has seen COMPLETED never sees an earlier state again.
PollNeverRegresses == [][polled = "completed" => polled' = "completed"]_polled
=============================================================================
