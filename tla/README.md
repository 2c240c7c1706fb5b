# ActionPlan: specifications, model checking and proofs

ActionPlan turns a project goal into a plan of tasks: a web client posts a goal,
an API process stores a workflow and queues its analysis, a worker runs the
analysis (a LangGraph of LLM and deterministic nodes), and users then work on
the plan: complete tasks, edit it, add documents, ask for a refresh. These
modules model the parts of `backend/` where several processes, retries and
stored state meet, the analysis itself, and the form of the web client.

## 1. Inventory

| component (source under `backend/app/` unless noted) | state it keeps | operations | used by |
|---|---|---|---|
| memory store, `memory/dynamodb.py` | one DynamoDB item per workflow (`WorkflowState` fields plus the `execution_lock` attribute) | `save_workflow` (put), `get_workflow` (eventually consistent get), `claim_workflow_for_execution` (conditional update) | service, nodes/memory.py, documents route |
| workflow service, `agent/service.py` | none of its own | `create_workflow`, `execute_queued_workflow`, `continue_workflow`, `rebuild_workflow`, `get_workflow` | routes, worker |
| queue worker, `backend/worker_handler.py`, queue and dead-letter queue in `backend/infra/lambda/cloudformation-serverless.yaml` | the SQS message and its receive count | `handler` | SQS |
| analysis graph, `agent/graph.py`, `agent/nodes/*` | `AgentState`, during one run; its last node saves it | 15 nodes, one loop (validate / revise / plan) | service |
| planning, validation, `agent/nodes/planning.py`, `plan_validation.py`, `agent/validation.py`, optimization `agent/optimization.py` | candidate plan, revision count | build, validate, revise, critical path, layers | graph |
| workspace store, `workspace.py` | SQLite row per workflow with a version; events, revisions, recommendations, idempotency keys | `ensure`, `get`, `save`, `revise`, `transition_task`, `recompute_readiness` | workflow routes, `create_goal` |
| task plan, `models/task.py` | tasks: status, readiness, dependencies | `validate_tasks` | workspace |
| routes, `api/routes/*.py` | none | goals, status, continue; documents; workflows, patches, transitions, revisions, refresh | web client |
| retrieval, `rag/*` | vector collection | chunk, embed, insert chunk by chunk, search | documents route, graph |
| language model, `llm/provider.py` | none | completion, JSON extraction | graph |
| local memory store, `memory/local.py` | JSON files | same interface as DynamoDB, with a lock | development only |
| web client, `frontend/src/App.tsx`, `api/client.ts` | created workflow id, uploaded file names | create, poll, upload, refresh, retry | users |
| wiring, `main.py`, `config.py`, `api/dependencies.py` | singletons, built by the first request that misses them | construction | all |

A workflow's record lives twice: durably in DynamoDB, written by the service,
the graph's last node and the documents route, and in the SQLite row of one API
container, written by the workflow routes. `ensure` copies the first over the
second; nothing copies back. Processes share nothing else: workers and API
requests meet only in the item, handlers of one container only in the row.

What is hard here:

- the item is replaced as a whole (`put_item`) by processes that read it seconds
  earlier, and every analysis writes it twice, the first time with the default
  execution state QUEUED (`nodes/memory.py:25`, then `service.py:146/194/220`);
- the claim must keep duplicate deliveries apart although the lock attribute
  vanishes with every put;
- crashes, exceptions and eventually consistent reads at each of these steps;
- the version check of the workspace row, and version numbers that restart at 1;
- readiness and status of tasks under arbitrary sequences of edits;
- an analysis that reuses some results of earlier ones and not others, on plans
  it did not build itself, with a loop that must end;
- processes that start together and prepare the shared vector collection in
  four calls, any of which may fail or outlive its caller.

What makes each component correct, in the order it was taken up: analyses of a
workflow are exclusive and their message settles; the item's lock, execution
state and plan agree; a request acts on the record as one step; a version
means one state and no edit is lost by what another user does not know; a plan never stands still and work follows its
dependencies; work is handed out only from a sound plan, and every analysis ends;
an answered upload can be found. `PROJECT.json` lists the hazards at their lines.

## 2. Modules

| module | models | composes |
|---|---|---|
| `WorkflowStore` | `DynamoDBMemoryStore`: the item and a lagging replica | |
| `WorkflowExecution` | `create_workflow`, the queue, the workers | extends `WorkflowStore` |
| `WorkflowRecord` | abstract: the record as users understand it, one step per operation | |
| `WorkflowRequests` | continue, refresh, ingest and status requests | extends `WorkflowExecution`, implements `WorkflowRecord` |
| `TaskLifecycle` | `transition_task`, `recompute_readiness`, `validate_tasks`, patch, revise, sync | |
| `Workspace` | the versioned row and the handlers around it | |
| `GoalCreation` | `POST /goals` call by call, and the idempotency keys | |
| `ProjectSetup` | the web client's form, the background analyses of the development server, ingest and refresh requests | extends `GoalCreation`, refines its `CreationSpec` |
| `DependencyGraph` | the cycle search, the critical path and the layers, next to what they should compute | |
| `PlanRules` | building, checking and revising a plan | extends `DependencyGraph` |
| `AnalysisGraph` | the nodes and edges of the graph, run after run on one workflow | extends `PlanRules` |
| `Retrieval` | connecting to the vector collection, chunking and adding an upload | |
| `MCWorkflowExecution`, `MCAnalysisGraph`, `MCRetrieval` | the two environments of the workers; the plans, texts and processes of the small instances | |
| `WorkflowExecutionProofs`, `TaskLifecycleProofs`, `WorkspaceProofs`, `ProjectSetupProofs`, `RetrievalProofs`, `PlanRulesProofs` | theorems | extend the module they are about |
| `WorkflowRequestsProofs`, `AnalysisGraphProofs` | theorems | also extend `WorkflowExecutionProofs` and `PlanRulesProofs`, whose lemmas they use |

Where no MC module is named, the configuration file instantiates the module directly; sets
of workers, users, tasks and documents are model values. Definitions whose comment starts with "Mutant:"
are not part of a model: each is a plausible mistake in the code, kept next to
the definition it replaces, that one of the properties finds.

### How state and actions correspond to the code

`WorkflowStore`. `item` is the DynamoDB item reduced to `execution_state`,
`execution_lock`, "has been analysed", `completed_tasks` and
`execution_metadata["documents"]`. `replica` is what an eventually consistent
read may still return; `Readable` is the set of answers `get_workflow` may
give, `None` and "no item" being the same to every caller. `Claimable` is the
`ConditionExpression`.

`WorkflowExecution`. `pc[w]` is the line a worker has reached: `get` is
`execute_queued_workflow`'s read; `claim_get`, `claim_update`, `claim_reread`
are the three calls inside the claim; `graph` is `graph.invoke` up to the save
of `update_memory_node`; `save` is the save of COMPLETED; `ack` is the return to
Lambda, after which the event source mapping deletes the message. `creator` is
`create_workflow`: the item first, the message second. `receives` is SQS's
receive count.

`WorkflowRequests`. `req[r]` holds the snapshot a request read and the item it
will save last (`result`); `graph` and `save` are its two saves. `polled` is the
last answer of the status endpoint.

`TaskLifecycle`. `deps`, `status`, `readiness`, `completed` are the fields of the
row's tasks; `Store` is `_write`, which recomputes readiness before every write.
`last` is the event appended or the refusal returned. `Acyclic` states what the
depth-first search of `validate_tasks` decides; it is the walk of `_cycle_ids`,
which `DependencyGraph` models.

`Workspace`. `row` is version and contents, the contents being the set of user
edits in it; `seen` is what a user was last shown; `sent` is the edit a handler works
on and `copy` the workflow it has loaded for it. A patch or transition of a task, an
update and a decision are made to that copy. A plan revision is not: `revise` puts the
list the client sends in place of all tasks (`workspace.py:147`), so of the task edits
only those survive that the user keeps from what it was shown (`Kept`); the other fields are the
copy's. An edit that does not apply to the loaded workflow ends before the check
(`GetCopy` to `idle`), as a refused transition does. `replaced` counts how often the row
was written from the memory store (`ensure`, also when it was missing), which puts
version 1 over whatever it had; `acked` are the edits acknowledged since, without those that a user
who had seen them has revised away. The recommendation route also compares the
loaded version with the client's before it saves; the check of `save` that follows is
the one modelled.

`GoalCreation`. `call[c].pc` is the call `create_goal` makes next: look the key up,
save the item, trigger the analysis, `ensure` the row, store the key. `keyTable` is
the table of idempotency keys. `CallRaises` is an exception of any of the calls:
what the earlier ones wrote stays.

`ProjectSetup`. The deployment is the one the development server runs: one API
process, the local memory store, analyses in background threads. `form.step` is
the line `handleSubmit` waits at: `create` (111), `poll` and `fetch` (118, inside
`pollWorkflowUntilComplete`), `next` (between two uploads), `wait` (an upload or the
refresh, 134 and 140). `form.uploaded` is `uploadedFiles`; `form.remaining` is fixed
once per submission, as `remainingFiles` is. `job[j]` is a request being served:
`insert` one chunk at a time and `list` for an ingest, `search`, `graph`, `save`,
`ensure`, `row` for a refresh; `awaited` says whether the client still waits for it.
`thread[p]` is the analysis started for a project. `item` is the memory store's
workflow and `row` the execution state in the workspace row. A document is its
chunks; a plan is the set of documents its evidence was searched in. A chunk can be
found as soon as its insert has returned, here and in `Retrieval`: true of the in-memory
store, and an assumption about Zilliz.
The ingest route is an `async` function that awaits nothing after it has its file,
so from its first insert to its answer the process takes no other request
(`LoopIsFree`); handlers that are plain functions run in the thread pool and do
interleave with it. Two abstractions are named in the module: `OnlyTheForm` (the
form and the clients with keys share only the supply of ids, so a behaviour
follows the one or the others) and analyses of other clients' projects, which touch
nothing the form reads.

`DependencyGraph`. `CycleFound` threads `visiting` and `visited` through the recursion
as the code's closures do, so a node is taken off the path exactly where the code does
it. `best` in `CriticalPath` is the dictionary of `solve`; `from` in `Layers` is the
`while True` loop. Dependency lists are sets and ties are broken by `CHOOSE`: which of
several heaviest chains or equal tasks the code takes depends on the order of lists,
and no statement depends on that.

`PlanRules`. Ids `task_1`, `task_2`, ... are the numbers 1, 2, ...; every other name is
a number below 1. Requirements may repeat an id, since nothing in `RequirementExtraction`
forbids it: then the dictionary comprehension keeps the first place and the last value
(`Places`, `IsApproval`), and the dictionary of the cycle search the last task (`Graph`).
`Valid` is `validation.errors == []`; it says `Acyclic` where the code runs the search,
and `CycleSearchIsExact` is the check that the two agree.

`AnalysisGraph`. `pc` is the node that runs next, `state` the `AgentState`, `stored` the
`WorkflowState` in the memory store. A run begins in one of the three ways of the
service: `FirstAnalysis` (`_execute_workflow_sync`), `Continue` (everything stored goes
back in, with the reported ids), `Refresh` (only the completed ids go back in). A node
that calls the model may have its answer rejected twice, and any call may raise; then
nothing is stored. A workflow starts without a plan, or with a stored one that the
planner did not build (`GivenPlans`): the record's schema admits any plan, the planner's
docstring (`planning.py:33-36`) speaks of real prerequisites "when they exist", and the unit tests of
validation and revision feed such plans. The program itself never produces one, and
`OwnPlansPass` shows what follows: its own workflows never reach `revise_plan` or
`plan_failed`. The execution state is left to `WorkflowRequests`, and so is the overlap of runs.
A task's status is "its id is in `completed_tasks`", which `execute_plan_node` makes true.

`Retrieval`. `collection` is the service's side: in each database, whether the collection
exists, has its index, is loaded. `configured` is `ZILLIZ_DATABASE` of each process,
`retriever` and `agent` are its two singletons, named by the database their client is
connected to. `thread[t].pc` names the call a thread makes next on the way through
`get_retriever`, `_connect`, `_ensure_collection`, `_ensure_index`, `_ensure_loaded`,
`get_agent_service` and, for an upload, `chunk_text` (one round of its loop is one step),
the embedding and the inserts. A worker container is a process with one thread. The service itself is
external: creating a collection that is there may be refused or accepted, creating an index or
loading twice does nothing more. A call that raises after it had its effect, as a timeout may,
is the case where the call succeeds and the next one fails, or the process dies. Initially the collection is in one
database, finished or half made, and every process names that database or none
(`Home`); or there is none, and all processes name the same (`NoHome`). A text is its
length with `chunk_size` and `overlap`; a chunk is the span it covers.

## 3. Runs

| run | module | properties | bounds | distinct states |
|---|---|---|---|---|
| `execution` | MCWorkflowExecution | `TypeOK`, `ExclusiveAnalysis`, `MessageSettles`, `CompletesIfCalm` | 3 workers, 3 receives, all faults or duplicates only | 14 494 |
| `requests_serial` | WorkflowRequests | `RequestsTypeOK`, `ImplementsRecord` | 2 workers, 3 receives, 2 requests, 2 tasks, 1 document, mild faults | 15 697 |
| `requests_overlap` | WorkflowRequests | `ItemConsistent`, `LockFollowsState` | 1 worker, 2 requests, 1 task, 1 document, crashes | 2.4 million |
| `poll_regresses` | WorkflowRequests | `PollNeverRegresses` (violated) | 1 worker, 1 request | |
| `tasks` | TaskLifecycle | `TypeOK`, `AlwaysAWayForward`, `TransitionsKeepOrder` | every plan over 3 ids | 79 539 |
| `workspace` | Workspace | `TypeOK`, `EditsSurvive`, `VersionIdentifiesContents` | 2 users, 2 edits each, 2 replacements, one handler at a time | 1.9 million |
| `workspace_lost_edit` | Workspace | `NoLostEdit` (violated) | 2 users, 1 edit each, handlers interleaved | |
| `workspace_reused_version` | Workspace | `AcceptedHasSeenRow` (violated) | 2 users, 2 edits each, 1 replacement, one handler at a time | |
| `setup` | ProjectSetup | `TypeOK`, `KeyNamesOneProject`, `AnsweredIsScheduled`, `AddedIsSearchable`, `FirstTryIsCurrent`, `SubmissionEnds` | 3 callers, 2 keys, 2 projects, 2 documents of 2 chunks, 2 requests served, 2 polls, 2 submissions, all failures | 366 981 |
| `fetched_stale` | ProjectSetup | `FetchedHasEnded` (violated) | 1 form, no failures | |
| `analysis` | MCAnalysisGraph | `TypeOK`, `WorkIsSound`, `EvidenceIsForRequirements`, `OwnPlansPass`, `ExecutedPlansPass`, `RevisionRepairs`, `RecommendationFits`, `CycleSearchIsExact`, `CriticalPathIsLeastTime`, `ParallelWorkIsParallel`, `RunEnds` | 2 runs; plans of up to 3 tasks; 2 requirements, 5 extractions; 1 reportable task | 905 408 |
| `retrieval` | MCRetrieval | `TypeOK`, `SearchWorks`, `OneCollection`, `AnsweredIsFound`, `HalfMadeIsRepaired`, `RequestEnds` | a server with 2 threads, a container, 2 databases, 1 upload, 2 texts, 1 fault | 318 062 |

What they show.

- The conditional update does what it is for: two workers' analyses never overlap
  (`ExclusiveAnalysis`), even with stale reads, crashes and duplicates. Workers are the
  only writers in this run; a request that puts QUEUED back during an analysis, next to a
  duplicate delivery, is outside its scope. The update does not make the claim unique: after `update_memory_node` has written QUEUED
  without a lock, the next delivery claims and analyses again.
  Because the second worker also ends with COMPLETED, the item still completes
  for good when nothing fails (`CompletesIfCalm`: `calm` is chosen at the start).
- The lock attribute, which no field of `WorkflowState` represents, comes with "running"
  and goes with it, whatever requests and workers do (`LockFollowsState`), with one
  exception: `continue_workflow` and the ingest route put back the execution
  state they have read, so one that was read during an analysis leaves an item that says
  "running" without a lock. A queued item never keeps a lock.
- Every queued message is deleted or dead-lettered (`MessageSettles`). The
  workflow need not finish: an exception, a failed read-back or a failed publish
  leaves it in RUNNING or QUEUED; the repository promises nothing else.
- One request at a time, the two saves of a request act as one
  (`ImplementsRecord`: COMPLETED stays, completed ids and documents are never
  dropped). A poll sees the intermediate save (`poll_regresses`). When requests
  overlap, the last whole-item save wins and may drop the other's documents or
  even its COMPLETED; what survives any overlap is that the item never mixes two
  snapshots (`ItemConsistent`).
- No sequence of edits and transitions leaves an unfinished plan without a task
  to start, finish, unblock or replace (`AlwaysAWayForward`), and transitions,
  unlike edits, never put started work after unfinished work
  (`TransitionsKeepOrder`).
- With handlers that do not interleave, an acknowledged update or decision stays in the
  row until the row is replaced from the memory store, whatever versions are used. Edits
  of tasks stay as long as no version is used twice (`EditsSurvive`): a revision replaces
  every task, and only the version check makes sure that its user has seen them. Until the first
  replacement a version stands for one state of the row (`VersionIdentifiesContents`).
- After a replacement it does not. The row starts again at version 1, so a version that a
  user holds comes to stand for other contents, and an edit passes the check although its user has
  not seen the workflow it is applied to (`workspace_reused_version`). If that edit is a
  revision, it drops acknowledged edits of other users, with no interleaving at all:
  `NoLostEdit`, checked under the bounds of that run, fails in this way.
- Interleaved handlers lose edits without any replacement, since the version is read
  outside the transaction that writes (`workspace_lost_edit`).
- Answers to one idempotency key name one project, whatever call failed and was
  retried, as long as requests do not overlap (`KeyNamesOneProject`; overlapping
  ones both miss the key and create a project each). In both cases a client only
  gets a project that is stored, scheduled and known (`AnsweredIsScheduled`).
- A document shown as added, or listed by its project, can be found in full,
  although chunks go in one by one, inserts fail half-way and a client that gave
  up uploads again next to the request it abandoned (`AddedIsSearchable`).
- A form that goes through at the first submission opens a plan that has
  considered all its documents (`FirstTryIsCurrent`). The restriction is needed:
  once every file is recorded as uploaded, a second submission after a failed
  refresh has no remaining files and opens the project without a refresh; and if
  polling ran out of attempts, the late analysis overwrites the refreshed plan.
- Every submission ends, even if the analysis never does (`SubmissionEnds`).
- The status endpoint reads the memory store and `GET /workflows/{id}` the row that
  was written at creation, so the workflow fetched after "completed" is the empty
  QUEUED one (`fetched_stale`).
- Tasks are worked on, and stored as a valid plan, only if they have distinct ids, known and
  acyclic dependencies and serve every requirement, whether the plan was built, kept,
  rebuilt or revised (`WorkIsSound`), and evidence belongs to the requirements it is
  stored with (`EvidenceIsForRequirements`), although each node decides on its own
  whether to reuse a result. In particular a bare list accepted as an empty extraction
  leads to an empty plan, in which nothing is left to do, and to a new extraction in the next run.
- What the planner builds always passes (`OwnPlansPass`), and what has passed once is not
  rejected later (`ExecutedPlansPass`). Where the plan is another's, one revision
  repairs missing requirements and approvals if its ids are `task_1` to `task_n`
  (`RevisionRepairs`); with other ids the new numbers may collide, and the plan fails
  validation as it should.
- `no_action` is recommended only when nothing is open, and the task recommended or
  awaited is the right one (`RecommendationFits`): the code's "all planned work is
  complete" rests on acyclicity, which the validation has ensured nodes earlier.
- On every graph of three tasks the depth-first search agrees with the definition of
  acyclicity; the critical path is a chain whose effort is exactly the least time for
  the whole plan; the parallel chains hold each open task off that path once, and no task
  next to one it depends on.
- A graph run ends (`RunEnds`), because a revision is counted in the state and answers in `chat_json`.
- Processes that start together make one collection (`OneCollection`) and whoever gets a
  retriever can search with it (`SearchWorks`), although existence, index and loading are
  checked and made in separate calls, and a process may die between them. After the
  last fault a first request that sees the collection succeeds (`HalfMadeIsRepaired`);
  one that does not may lose the race to create it and is answered with an error.
- Chunks overlap enough that each passage of up to `overlap + 1` characters (at most
  `chunk_size`) of an answered upload is whole in one of them, in the database every
  process searches (`AnsweredIsFound`), and the loop ends even if the overlap is at least
  the chunk (`RequestEnds`). With `VECTOR_STORE=in-memory` two racing builds would each
  have a store of its own; `ProjectSetup` assumes the retriever is built.

Bounds, and why they are enough. Three receives is the deployed `maxReceiveCount`,
and three workers let all three deliveries overlap; the proofs
remove both bounds for the safety properties. Two requests give every pair of
saves; a third overlapping request adds no new pair, and `ItemConsistent` and
`LockFollowsState` and
`ImplementsRecord` are proved for any number. `requests_serial` has the faults
under which the refinement holds: reads and publishing that fail, and duplicates.
A crash or an exception between the two saves of a request leaves the intermediate
one, and a stale read brings back an older item; both are covered by `ItemConsistent`. Three tasks give chains, forks, joins and cycles of length
1 to 3. Two edits and two replacements let a version number be reused after each
kind of replacement; a user's edits are of every kind, and its revisions keep every part of what it was shown. A client's revision keeps the current status of some tasks
and the default for others (`KeptStatus`): the code accepts any status, and the
proofs need only that it is a status. In `setup`, two polls stand for the sixty of
the code: one that finds the analysis running and one that is the last; two
submissions give every retry after every failure, two documents a failure between
uploads, two chunks one in the middle of an upload, two served requests an
abandoned upload next to its retry, two projects a duplicate. Runs in which the system may stop (a settled message and
no user) switch deadlock checking off; `tasks` and `retrieval` keep it on. In `analysis`
the stored plans are every dependency graph on three tasks (with cycles), every effort
of 1 or 3 on every acyclic one in list order, and up to two tasks with any ids, requirements and approvals; two
runs give a continuation and a refresh after every outcome, and a rebuild of every stored plan. The requirements
cover one or two ids, with a repeated one and with and without approvals. In `retrieval` two
threads race inside a process and with another process, one fault leaves the collection in
every half-made state (which is also an initial state), and the two texts overlap by less and by more
than a chunk; the code's own 512 and 48 are covered by the proof.

Fairness. A worker or request that is not killed takes its next step; the event
source mapping delivers a visible message; the visibility timeout expires;
replicas converge. These are what Lambda, SQS and DynamoDB run by themselves.
The form's promises resolve, and the API process serves the requests it has
accepted; the background analysis is owed nothing, so `SubmissionEnds` does not
lean on it. The next node of a graph run is taken: each returns or raises (the
client of the language model has a timeout). A request thread of `Retrieval` takes its
next step for the same reason. Faults, users and status requests of other clients are never owed.

## 4. Proofs

All theorems hold for every value of the constants under the named assumptions
(`StoreAssumption`: the absent lock is no worker; `QueueAssumption`: at least one
receive; `RequestsAssumption`: types only).

- `TypesCorrect`, `AnalysesExclude` (`WorkflowExecutionProofs`), about workers and
  `create_workflow` as the writers of the item. `ExclusiveAnalysis` is not inductive: a put by some other worker could make a running
  item claimable. The strengthening adds that nothing is delivered, and nobody
  analyses, before the message is published (so `create_workflow` cannot overwrite
  a claimed item), and that while anyone analyses the item is not claimable by
  another worker; the only puts then come from the analysing worker itself, or from one that has already
  saved its analysis and puts COMPLETED, which is not claimable either.
- `RequestsTypesCorrect`, `SavesAreConsistent` (`WorkflowRequestsProofs`). The item alone is not
  inductive: a save writes a request's stored `result`. The invariant extends
  consistency to the replica and to every request's snapshot and result; lemmas
  state that every read is consistent, that each result operator maps a
  consistent snapshot to a consistent result, and that a put of a consistent
  state keeps the store consistent.
- `LockGoesWithRunning` (`LockFollowsState`), for requests and workers that overlap in any way
  and any faults. What a request saves last follows from what it has read: `ResultsKeepState` says that
  the result has the execution state of the snapshot or "completed". A save of "running"
  is then one of a request that has read "running"; every other put removes the lock
  and writes another state, and the claim sets both (`PutAgrees`, `LockStep`).
- `RequestsAreAtomic`, `CompletedStays`: the refinement of `WorkflowRecord`, for any
  number of workers, requests, tasks and documents, from two hypotheses: requests do not overlap
  (`~Overlap`), and nothing fails between two saves and no read is stale (`OnlyMildFaults`).
  `RefinementInv` says that a request being served is alone, that the
  item is its snapshot until the graph's save, that what it will save is the promised
  result of that snapshot, and that a worker that analyses a workflow which no longer
  says "running" finds it analysed by an earlier delivery. The record is the item, except in the two
  windows between a graph's save and the service's: there it is what that save
  will write. One lemma per action shows the step of the record it makes, or that it is
  invisible. `CompletedStays` is then a property of the abstract steps alone.
- `PlanTypesCorrect`, `NoStandstill`, `TransitionsAreOrdered`
  (`TaskLifecycleProofs`). The invariant is: types, the stored plan is valid
  (closed and acyclic), and the statuses are a fixed point of
  `recompute_readiness`. The lemma `SettledType` shows that running
  it twice is running it once. From acyclicity, the set of unfinished
  tasks has one that depends on none of them; being settled, it is not pending.
- `AnsweredAreScheduled`, `KeysNameOneProject` (`ProjectSetupProofs`). What a request
  has written so far follows from the line it is at (`Progress`): a project id is
  stored from `schedule` on, scheduled from `ensure` on, and has its row at
  `store_key`. For keys, `SerialInv` adds that an answer given for a key is the one
  in the table and that a request past its look-up found its key free; the second
  part needs the assumption that requests do not overlap.
- `SetupCreatesGoals`, `SetupIsScheduled`, `SetupTypesCorrect`, `AddedDocumentsAreFound`. Every step
  of the composed system is a step of `CreationSpec` or leaves its variables alone,
  so its theorems carry over. `SetupInv` adds that a request being served has inserted
  the `n` chunks it counts, that an awaited request belongs to the form's project,
  and that every stored snapshot lists only documents that can be found; chunk counts never go
  down, which is why snapshots stay right as they grow old.
- `OpensWithEveryDocument` (`FirstTryIsCurrent`). `FirstTryInv` follows the first run of the form:
  before its uploads no request has been made, so a workflow that has ended was
  ended by its own analysis, which cannot write any more; afterwards the run has at most the one
  request it waits for; its refresh is sent when every file is recorded, so by
  `AddedIsSearchable` its search finds them all, and nobody overwrites what it saves. The run
  `setup` was used to check this invariant before it was proved.
- `WorkspaceTypesCorrect`, `SerialEditsSurvive`, `FirstVersionsIdentify` (`WorkspaceProofs`), the
  last two from `~Overlap`: a handler that has read the row is the
  only one at work until it has written. `SerialInv` ties what such a handler holds to the
  row as it is: its copy is the row's contents and the version it checked is the row's. Until the first replacement
  nobody has been shown a later version than the row's, and whoever has been shown the row's has been
  shown its contents (`NobodyAhead`, `VersionIdentifiesContents`); the list of a revision that passes the check is then made from
  the row itself, and what it leaves out was given up by a user who saw it.
- `BuiltPlansAreValid`, `RevisionIsValid` (`PlanRulesProofs`), for sequences of any
  length. The first is per conjunct of `Valid`; the second needs that `Nth` enumerates
  a finite set of places (`NthInSet`, `NthOnto`, by the least place that is not reached, from the
  well-foundedness of strict inclusion on finite sets), that the ids a revision adds
  are above those there are, and that a graph stays acyclic when tasks without dependencies are added.
- `WorkAlwaysSound`, `EvidenceMatches`, `OwnPlansAlwaysPass`, `ExecutedPlansAlwaysPass`,
  `RevisionAlwaysRepairs`, `RecommendationsFit` (`AnalysisGraphProofs`), from
  `GraphAssumption` (the types of extractions and given plans; `NoReq` is no requirement,
  `NoPlan` no plan) and for any number of runs. None of them is inductive. `PlansInv` says, node by
  node, where the plan of a run comes from: it passes, or it is the stored one
  untouched, or its only revision; at the accepting nodes it has passed and the tasks are
  made from it. `TrustInv` adds that a workflow whose plan is the planner's, or was
  executed, is never in the second or third case with a plan that fails: its plan is none, empty, or one that passes, and
  `PlanForPasses` shows that the planner makes of each one that passes. `EvidenceInv` says
  where evidence may be missing, but never another analysis's. `AdviceInv` ties the current task and
  the blockers to the tasks; that the first open task, or the first it waits for, exists where the
  recommendation needs it follows from acyclicity. `GraphInv`, their conjunction, was checked on the bounds of the run
  `analysis` first.
- `CycleSearchAlwaysExact`, `CriticalPathAlwaysLeastTime`, `ParallelWorkAlwaysParallel`
  (`AnalysisGraphProofs`), for plans of any size. The functions of `DependencyGraph` are
  recursive, and the library's theorems about recursion cannot be instantiated by the provers, so
  `PlanRulesProofs` has its own: `RecursionOnMeasure` says that a function exists which
  solves its equation if every value depends only on those of lesser measure, a number. The measures are: for the
  layers, the tasks left to place; for the weight of a path, its length; for the
  critical path, a rank that grows along dependencies (`RankExists`, from acyclicity); for the
  search, lexicographically, the names not entered yet and the nodes left to visit. What is
  computed is then shown by induction on the same measure (`InductionOnMeasure`):
  - `LayersAreGood`, `ChainsAreGood`: layers are disjoint, hold every open task, and a
    task waits only for layers before its own;
  - `CriticalPathIsLeast`: the table holds, for each task, a chain that ends in it and weighs at
    least as much as any of its dependencies' plus its own effort, so the
    weights are times at which the tasks can end;
  - `CycleSearch`: what is visited depends only on what is visited, without a cycle, as
    long as none was found, and the nodes being visited are a path of dependencies on which meeting one
    again is a cycle. It needs finitely many names: dependencies are lists, which `CandidateTask` states.

  `ResultsInv` says that the results are those of the state's plan, which has passed by then.
- `GraphTypesCorrect`, from `GraphInv` and the same lemmas: the types of the path, the chains and the
  recommendation are those of results that exist.
- `RunsGetShorter`: what `RunEnds` rests on, without fairness. `StepsLeft` counts, in this
  order, the revisions left, the nodes ahead and the answers the model may still give;
  every step of a run makes it less, so a run has at most 89 steps. That a step is
  possible whenever a run is under way, and is taken, is left to `RunEnds` (ENABLED, fairness).
- `SpecTypeOK`, `SpecOneCollection`, `SpecSearchWorks`, `SpecAnsweredIsFound`
  (`RetrievalProofs`), from `RetrievalAssumption`: `ProcessOf` is a function, "default" is
  a database, texts, sizes and overlaps are numbers. Types first, with the facts a thread holds at its
  line (`Typed`). `Around(h)` says that there is one database `h` that holds whatever exists
  and that everybody is connected to or on the way to; a thread that is past a check has
  what it checked (`Heading`), because what exists, is indexed or loaded stays so. `Ingest(h)` says that
  every passage that starts before the next chunk is whole in one already cut, that
  the cut chunks up to `added` are in `h`, and that an answered upload is all there;
  `ChunkRound` is the arithmetic of one round of the loop.

Only model-checked:

- liveness (`MessageSettles`, `CompletesIfCalm`, `SubmissionEnds`, `HalfMadeIsRepaired`,
  `RequestEnds`, `RunEnds`): fairness and ENABLED are beyond the prover. Every invariant and
  every action property of the runs that pass is proved as well.

The assumption on constants of each module is evaluated by its runs.

## 5. Not modelled, and why

Scans of the table, long-term memory keys and the events, revisions and
recommendation tables: written, never read back into a decision. The text the
nodes exchange with the language model, embeddings and similarity search: data
without control. The deadline of a plan is compared with today's date for a note in the result; no
node decides by it. `lambda_handler.py`, `main.py`, `config.py`: assembly. The
vendored packages in `src/.codex-deps` (almost all of the repository's lines) are third-party
code and no part of the program's own logic. The local memory store reads a file that
another thread may be rewriting (`memory/local.py:39`): offline development only. Infrastructure other than the queue and its
worker. `NEEDS_REVIEW`: declared, never assigned.

## 6. Plan

1. Done: every module of section 2, and the proofs of section 4.
2. Proofs that are left: the variants behind the liveness properties, which are safety: a number that
   every step of a worker, of an upload or of the form makes less, as `RunsGetShorter` has it for the graph.
3. If there is room: the local store's unlocked reads, and a run of `GoalCreation`
   with overlapping requests.
