--------------------------- MODULE WorkflowStore ---------------------------
(***************************************************************************)
(* The durable store of workflow records: one item of the DynamoDB table   *)
(* of backend/app/memory/dynamodb.py, with the three operations the        *)
(* service uses on it (put, get, conditional claim).  Workflows are        *)
(* independent of each other, so the model follows a single one.           *)
(*                                                                         *)
(* Of the item's fields the model keeps those that decide what happens     *)
(* next: execution_state, the execution_lock attribute (which only the     *)
(* claim writes), whether an analysis has filled the plan, the ids in      *)
(* completed_tasks, and the file names in execution_metadata["documents"]. *)
(***************************************************************************)
EXTENDS Naturals

CONSTANTS
    Workers,    \* worker processes: one warm Lambda container each
    NoWorker,   \* the absent execution_lock
    TaskIds,    \* ids of the tasks an analysis plans
    Docs,       \* names of the files users ingest
    Faults      \* the faults the environment may inject

FaultKinds == {
    "stale_read",   \* get_item without ConsistentRead answers from a replica
    "read_error",   \* get_item raises ClientError, which the store turns into None
    "error",        \* the model, the retriever or a write raises
    "crash",        \* a process dies or is killed at its deadline
    "duplicate",    \* the queue delivers a message it has already delivered
    "send_failure"  \* publishing the message raises
  }

ASSUME StoreAssumption ==
    /\ NoWorker \notin Workers
    /\ Faults \subseteq FaultKinds

VARIABLES
    item,       \* the item as its leader node holds it
    replica     \* the item as a lagging replica still serves it

storeVars == <<item, replica>>

-----------------------------------------------------------------------------
\* WorkflowExecutionState.  NEEDS_REVIEW is left out: nothing assigns it.
\* "absent" stands for the missing item.
ExecutionStates == {"absent", "queued", "running", "completed", "failed"}

ItemType ==
    [exec : ExecutionStates, lock : Workers \cup {NoWorker},
     planned : BOOLEAN, done : SUBSET TaskIds, docs : SUBSET Docs]

\* An item without the lock attribute: what WorkflowState can express.
State(exec, planned, done, docs) ==
    [exec |-> exec, lock |-> NoWorker,
     planned |-> planned, done |-> done, docs |-> docs]

Absent == State("absent", FALSE, {}, {})

StoreTypeOK == item \in ItemType /\ replica \in ItemType

StoreInit == item = Absent /\ replica = Absent

-----------------------------------------------------------------------------
\* The replica lags only where reads may be served by it.
Replicated == replica' = IF "stale_read" \in Faults THEN replica ELSE item'

\* Mutant: the put keeps attributes the model does not have, as update_item would.
PutItemKeepingLock(state) ==
    /\ item' = [state EXCEPT !.lock = item.lock]
    /\ Replicated

\* save_workflow: put_item replaces the whole item, so the execution_lock
\* attribute, which is no field of WorkflowState, disappears.
PutItem(state) ==
    /\ item' = [state EXCEPT !.lock = NoWorker]
    /\ Replicated

\* What get_workflow may return: the item, an older copy of it, or None when
\* the call fails (None and the missing item are the same to every caller).
Readable ==
    {item}
      \cup (IF "stale_read" \in Faults THEN {replica} ELSE {})
      \cup (IF "read_error" \in Faults THEN {Absent} ELSE {})

\* Mutant: the check happened at the earlier get, the update is unconditional.
Claimable_Unchecked(w) == TRUE

\* The ConditionExpression of claim_workflow_for_execution.
Claimable(w) == item.exec = "queued" /\ item.lock \in {NoWorker, w}

\* The conditional update_item of claim_workflow_for_execution.
Claim(w) ==
    /\ Claimable(w)
    /\ item' = [item EXCEPT !.exec = "running", !.lock = w]
    /\ Replicated

\* The lagging replica catches up.
CatchUp ==
    /\ replica # item
    /\ replica' = item
    /\ UNCHANGED item
=============================================================================
