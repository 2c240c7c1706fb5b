---------------------------- MODULE ProjectSetup ----------------------------
(***************************************************************************)
(* Setting up a project from the web client's form (HomePage of            *)
(* frontend/src/App.tsx): create the goal, poll until its analysis has     *)
(* ended, upload the documents one by one, refresh the plan, open the      *)
(* project.  The deployment is the development server's: one API process,  *)
(* whose analyses are background threads.  Other clients create goals with *)
(* an Idempotency-Key.                                                     *)
(*                                                                         *)
(* A document is its chunks, inserted in order; a plan is the set of       *)
(* documents its evidence was searched in.                                 *)
(***************************************************************************)
EXTENDS GoalCreation, FiniteSets

CONSTANTS
    Form,           \* the caller that is the web client; it sends no key
    Files,          \* the documents chosen in the form
    NChunks,        \* chunks per document
    Jobs,           \* ingest and refresh requests in the API process
    MaxPolls,       \* attempts of pollWorkflowUntilComplete (60 in the code)
    MaxTries,       \* bound: times the user submits the form
    ClientGivesUp   \* may the client drop a request that the server still serves?

ASSUME SetupAssumption ==
    /\ Form \in Callers
    /\ NChunks \in Nat \ {0}
    /\ MaxPolls \in Nat \ {0}
    /\ MaxTries \in Nat \ {0}
    /\ ClientGivesUp \in BOOLEAN

VARIABLES
    item,       \* each workflow in the memory store
    row,        \* the execution state in each workspace row
    thread,     \* each background analysis
    chunks,     \* how many chunks of each project's documents are searchable
    job,        \* the ingest and refresh requests being served
    form        \* the form and the submission in progress

setupVars == <<item, row, thread, chunks, job, form>>
vars == <<creationVars, setupVars>>

-----------------------------------------------------------------------------
ExecutionStates == {"queued", "running", "completed", "failed"}
ItemType == [exec : ExecutionStates,
             listed : SUBSET Files, considered : SUBSET Files]
NewItem == [exec |-> "queued", listed |-> {}, considered |-> {}]
Final == {"completed", "failed"}

FormSteps == {"idle", "create", "poll", "fetch", "next", "wait", "opened"}
JobSteps == {"idle", "insert", "list", "search", "graph", "save", "ensure", "row"}

ThreadType == [pc : {"claim", "search", "graph", "save", "ended"},
               found : SUBSET Files]
JobType == [pc : JobSteps, id : Projects \cup {NoProject},
            kind : {"ingest", "refresh"}, file : SUBSET Files, n : 0..NChunks,
            snap : ItemType, awaited : BOOLEAN]
FormType == [step : FormSteps, id : Projects \cup {NoProject},
             uploaded : SUBSET Files, remaining : SUBSET Files,
             polls : 0..MaxPolls, ended : BOOLEAN, tries : 0..MaxTries]

TypeOK ==
    /\ CreationTypeOK
    /\ item \in [Projects -> ItemType]
    /\ row \in [Projects -> ExecutionStates]
    /\ thread \in [Projects -> ThreadType]
    /\ chunks \in [Projects -> [Files -> 0..NChunks]]
    /\ job \in [Jobs -> JobType]
    /\ form \in FormType

IdleJob == [pc |-> "idle", id |-> NoProject, kind |-> "ingest", file |-> {},
            n |-> 0, snap |-> NewItem, awaited |-> FALSE]

Init ==
    /\ CreationInit
    /\ item = [p \in Projects |-> NewItem]
    /\ row = [p \in Projects |-> "queued"]
    /\ thread = [p \in Projects |-> [pc |-> "claim", found |-> {}]]
    /\ chunks = [p \in Projects |-> [f \in Files |-> 0]]
    /\ job = [j \in Jobs |-> IdleJob]
    /\ form = [step |-> "idle", id |-> NoProject, uploaded |-> {},
               remaining |-> {}, polls |-> 0, ended |-> FALSE, tries |-> 0]

\* The documents of a project that a search can return in full.
Searchable(p) == {f \in Files : chunks[p][f] = NChunks}

-----------------------------------------------------------------------------
(* Background analyses *)

SetItem(p, state) == item' = [item EXCEPT ![p] = state]
SetThread(p, state) == thread' = [thread EXCEPT ![p] = state]

\* The last node of every graph run saves the new plan under the default
\* execution state and without the documents of the metadata.
GraphSaves(p, found) ==
    SetItem(p, [exec |-> "queued", listed |-> {}, considered |-> found])

\* claim_workflow_for_execution, or RuntimeError and the FAILED of its handler.
\* The analyses of other clients' projects touch nothing that the form reads:
\* only those of the form's own requests are followed.
ThreadClaims(p) ==
    /\ p \in scheduled /\ p = call[Form].id
    /\ thread[p].pc = "claim"
    /\ IF item[p].exec = "queued"
         THEN /\ SetItem(p, [item[p] EXCEPT !.exec = "running"])
              /\ SetThread(p, [pc |-> "search", found |-> {}])
         ELSE /\ SetItem(p, [item[p] EXCEPT !.exec = "failed"])
              /\ SetThread(p, [pc |-> "ended", found |-> {}])
    /\ UNCHANGED <<creationVars, row, chunks, job, form>>

\* collect_evidence: from here on the analysis works on what it has found.
ThreadSearches(p) ==
    /\ thread[p].pc = "search"
    /\ SetThread(p, [pc |-> "graph", found |-> Searchable(p)])
    /\ UNCHANGED <<creationVars, item, row, chunks, job, form>>

ThreadGraphSaves(p) ==
    /\ thread[p].pc = "graph"
    /\ GraphSaves(p, thread[p].found)
    /\ SetThread(p, [thread[p] EXCEPT !.pc = "save"])
    /\ UNCHANGED <<creationVars, row, chunks, job, form>>

ThreadSaves(p) ==
    /\ thread[p].pc = "save"
    /\ SetItem(p, [exec |-> "completed", listed |-> {},
                   considered |-> thread[p].found])
    /\ SetThread(p, [pc |-> "ended", found |-> {}])
    /\ UNCHANGED <<creationVars, row, chunks, job, form>>

\* An exception of the graph: FAILED, in the item as it is then.
ThreadFails(p) ==
    /\ CallsFail
    /\ thread[p].pc \in {"search", "graph", "save"}
    /\ SetItem(p, [item[p] EXCEPT !.exec = "failed"])
    /\ SetThread(p, [pc |-> "ended", found |-> {}])
    /\ UNCHANGED <<creationVars, row, chunks, job, form>>

-----------------------------------------------------------------------------
(* Ingest and refresh requests *)

Serve(j, state) == job' = [job EXCEPT ![j] = state]

\* The ingest route is an async function without an await once it has its file:
\* while it inserts, the process accepts nothing else.
Inserting(j) ==
    job[j].pc = "list" \/ (job[j].pc = "insert" /\ job[j].n > 0)
LoopIsFree == \A j \in Jobs : ~Inserting(j)

\* The client sends a request; the route reads its snapshot of the item.
StartJob(p, kind, file) ==
    /\ LoopIsFree
    /\ \E j \in Jobs :
      /\ job[j].pc = "idle"
      /\ Serve(j, [pc |-> IF kind = "ingest" THEN "insert" ELSE "search", id |-> p,
                   kind |-> kind, file |-> file, n |-> 0, snap |-> item[p],
                   awaited |-> TRUE])

\* The next chunk is in.  A repeated upload inserts it again; what matters here
\* is how much can be found.
ChunkInserted(j) ==
    chunks' = [chunks EXCEPT ![job[j].id] =
      [f \in Files |-> IF f \in job[j].file /\ @[f] <= job[j].n
                         THEN job[j].n + 1 ELSE @[f]]]

\* Mutant: one chunk too many.
InsertChunk_OneMore(j) ==
    /\ job[j].pc = "insert"
    /\ ChunkInserted(j)
    /\ Serve(j, [job[j] EXCEPT !.n = @ + 1,
                   !.pc = IF job[j].n = NChunks THEN "list" ELSE "insert"])
    /\ UNCHANGED <<creationVars, item, row, thread, form>>

\* ingest_text: chunk by chunk, each insert a call of its own.
InsertChunk(j) ==
    /\ job[j].pc = "insert"
    /\ Inserting(j) \/ LoopIsFree
    /\ ChunkInserted(j)
    /\ Serve(j, [job[j] EXCEPT !.n = @ + 1,
                   !.pc = IF job[j].n + 1 = NChunks THEN "list" ELSE "insert"])
    /\ UNCHANGED <<creationVars, item, row, thread, form>>

\* The end of a request.  An awaited answer reaches the form: an uploaded file
\* is recorded, and the form goes on to its next step.
Reply(j) ==
    /\ Serve(j, IdleJob)
    /\ form' = IF ~job[j].awaited THEN form
               ELSE [form EXCEPT !.uploaded = @ \cup job[j].file,
                                 !.step = IF job[j].kind = "ingest"
                                            THEN "next" ELSE "opened"]

ListDocument(j) ==
    /\ job[j].pc = "list"
    /\ SetItem(job[j].id, [job[j].snap EXCEPT !.listed = @ \cup job[j].file])
    /\ Reply(j)
    /\ UNCHANGED <<creationVars, row, thread, chunks>>

\* Mutant: the rebuild keeps the evidence of the snapshot ("reused").
RefreshSearches_Reuses(j) ==
    /\ job[j].pc = "search"
    /\ Serve(j, [job[j] EXCEPT !.pc = "graph"])
    /\ UNCHANGED <<creationVars, item, row, thread, chunks, form>>

RefreshSearches(j) ==
    /\ job[j].pc = "search"
    /\ Serve(j, [job[j] EXCEPT !.pc = "graph", !.snap.considered = Searchable(job[j].id)])
    /\ UNCHANGED <<creationVars, item, row, thread, chunks, form>>

RefreshGraphSaves(j) ==
    /\ job[j].pc = "graph"
    /\ GraphSaves(job[j].id, job[j].snap.considered)
    /\ Serve(j, [job[j] EXCEPT !.pc = "save"])
    /\ UNCHANGED <<creationVars, row, thread, chunks, form>>

\* rebuild_workflow's own save.
RefreshSaves(j) ==
    /\ job[j].pc = "save"
    /\ SetItem(job[j].id, [job[j].snap EXCEPT !.exec = "completed"])
    /\ Serve(j, [job[j] EXCEPT !.pc = "ensure"])
    /\ UNCHANGED <<creationVars, row, thread, chunks, form>>

\* ensure writes the workflow as the refresh has read it.
RefreshEnsuresRow(j) ==
    /\ job[j].pc = "ensure"
    /\ row' = [row EXCEPT ![job[j].id] = job[j].snap.exec]
    /\ Serve(j, [job[j] EXCEPT !.pc = "row"])
    /\ UNCHANGED <<creationVars, item, thread, chunks, form>>

\* The row's save of the rebuilt workflow (its version check is in Workspace).
RefreshWritesRow(j) ==
    /\ job[j].pc = "row"
    /\ row' = [row EXCEPT ![job[j].id] = "completed"]
    /\ Reply(j)
    /\ UNCHANGED <<creationVars, item, thread, chunks>>

FormFails == form' = [form EXCEPT !.step = "idle"]

\* Mutant: a failing insert ends the upload as if it were complete.
JobRaises_Swallowed(j) ==
    /\ CallsFail
    /\ job[j].pc # "idle"
    /\ Reply(j)
    /\ UNCHANGED <<creationVars, item, row, thread, chunks>>

\* A call raises: the client gets an error.
JobRaises(j) ==
    /\ CallsFail
    /\ job[j].pc # "idle"
    /\ Serve(j, IdleJob)
    /\ IF job[j].awaited THEN FormFails ELSE UNCHANGED form
    /\ UNCHANGED <<creationVars, item, row, thread, chunks>>

\* The connection breaks: the client gets an error, the server works on.
ClientDrops(j) ==
    /\ ClientGivesUp
    /\ job[j].awaited
    /\ Serve(j, [job[j] EXCEPT !.awaited = FALSE])
    /\ FormFails
    /\ UNCHANGED <<creationVars, item, row, thread, chunks>>

JobStep(j) ==
    \/ InsertChunk(j) \/ ListDocument(j)
    \/ RefreshSearches(j) \/ RefreshGraphSaves(j)
    \/ RefreshSaves(j) \/ RefreshEnsuresRow(j) \/ RefreshWritesRow(j)

-----------------------------------------------------------------------------
(* The form *)

\* Bound: the form and the other clients share nothing but the supply of ids, so
\* a behaviour follows one or the others.
OnlyTheForm == \A c \in Callers \ {Form} : call[c] = NoCall

\* What remains is fixed after the poll, in the same run of handleSubmit.
Submit ==
    /\ form.step = "idle"
    /\ form.tries < MaxTries
    /\ OnlyTheForm
    /\ form' = [form EXCEPT !.tries = @ + 1, !.polls = 0, !.ended = FALSE,
                  !.step = IF form.id = NoProject THEN "create" ELSE "poll"]
    /\ IF form.id = NoProject
         THEN Post(Form, NoKey)
         ELSE UNCHANGED creationVars
    /\ UNCHANGED <<item, row, thread, chunks, job>>

CreateAnswered ==
    /\ form.step = "create"
    /\ ~Busy(Form)
    /\ form' = IF call[Form].pc = "answered"
                 THEN [form EXCEPT !.id = call[Form].id, !.step = "poll"]
                 ELSE [form EXCEPT !.step = "idle"]
    /\ UNCHANGED <<creationVars, item, row, thread, chunks, job>>

\* Mutant: poll until the analysis has ended.
Poll_Forever ==
    /\ form.step = "poll"
    /\ form' = [form EXCEPT !.ended = item[form.id].exec \in Final,
                  !.step = IF item[form.id].exec \in Final THEN "fetch" ELSE "poll"]
    /\ UNCHANGED <<creationVars, item, row, thread, chunks, job>>

\* One attempt of pollWorkflowUntilComplete.
Poll ==
    /\ form.step = "poll"
    /\ LoopIsFree
    /\ LET ended == item[form.id].exec \in Final IN
         form' = [form EXCEPT !.polls = @ + 1, !.ended = ended,
                    !.step = IF ended \/ form.polls + 1 = MaxPolls
                               THEN "fetch" ELSE "poll"]
    /\ UNCHANGED <<creationVars, item, row, thread, chunks, job>>

\* GET /workflows/{id} answers from the workspace row.
Fetch ==
    /\ form.step = "fetch"
    /\ LoopIsFree
    /\ form' = IF row[form.id] = "failed"
                 THEN [form EXCEPT !.step = "idle"]
                 ELSE [form EXCEPT !.step = "next",
                                   !.remaining = Files \ form.uploaded]
    /\ UNCHANGED <<creationVars, item, row, thread, chunks, job>>

\* An error, or no answer, while creating or polling.  What the server has begun
\* it goes on with.
RequestFails ==
    /\ CallsFail \/ ClientGivesUp
    /\ form.step \in {"create", "poll", "fetch"}
    /\ FormFails
    /\ UNCHANGED <<creationVars, item, row, thread, chunks, job>>

\* The next upload, or the refresh after the last, or nothing to upload.
UploadNext ==
    /\ form.step = "next"
    /\ \E f \in form.remaining \ form.uploaded : StartJob(form.id, "ingest", {f})
    /\ form' = [form EXCEPT !.step = "wait"]
    /\ UNCHANGED <<creationVars, item, row, thread, chunks>>

AllUploaded == form.step = "next" /\ form.remaining \subseteq form.uploaded

RefreshPlan ==
    /\ AllUploaded
    /\ form.remaining # {}
    /\ StartJob(form.id, "refresh", {})
    /\ form' = [form EXCEPT !.step = "wait"]
    /\ UNCHANGED <<creationVars, item, row, thread, chunks>>

OpenProject ==
    /\ AllUploaded
    /\ form.remaining = {}
    /\ form' = [form EXCEPT !.step = "opened"]
    /\ UNCHANGED <<creationVars, item, row, thread, chunks, job>>

FormStep ==
    CreateAnswered \/ Poll \/ Fetch \/ UploadNext \/ RefreshPlan \/ OpenProject

-----------------------------------------------------------------------------
OtherClientPosts ==
    /\ form.tries = 0
    /\ \E c \in Callers \ {Form}, k \in Keys : Post(c, k)
    /\ UNCHANGED setupVars

Next ==
    \/ \E c \in Callers : (CallStep(c) \/ CallRaises(c)) /\ UNCHANGED setupVars
    \/ OtherClientPosts
    \/ \E p \in Projects :
         \/ ThreadClaims(p) \/ ThreadSearches(p) \/ ThreadGraphSaves(p)
         \/ ThreadSaves(p) \/ ThreadFails(p)
    \/ \E j \in Jobs : JobStep(j) \/ JobRaises(j) \/ ClientDrops(j)
    \/ Submit \/ FormStep \/ RequestFails

\* The client's promises resolve and the server serves what it has accepted;
\* nobody has to press a button, and nothing is asked of the analysis.
Fairness ==
    /\ WF_vars(FormStep)
    /\ \A c \in Callers : WF_vars(CallStep(c) /\ UNCHANGED setupVars)
    /\ \A j \in Jobs : WF_vars(JobStep(j))

Spec == Init /\ [][Next]_vars /\ Fairness

-----------------------------------------------------------------------------
(* Properties *)

\* A document that the page shows as added, or the project lists, can be found
\* in full by a search of that project, whatever failed on the way and however
\* often it was retried (ingest_document_route lists a document, and answers,
\* only after its last chunk is in).
AddedIsSearchable ==
    /\ form.uploaded # {} => form.uploaded \subseteq Searchable(form.id)
    /\ \A p \in Projects : item[p].listed \subseteq Searchable(p)

\* A project set up in one go, whose first analysis ended while the page was
\* polling, opens with a plan that has considered every document of the form.
FirstTryIsCurrent ==
    form.step = "opened" /\ form.tries = 1 /\ form.ended
      => item[form.id].considered = Files

\* Every submission ends, with the project open or an error on the page, even if
\* the analysis never does.
SubmissionEnds ==
    form.step \notin {"idle", "opened"} ~> form.step \in {"idle", "opened"}

\* "Fetch the full workflow data": when the status endpoint has said that the
\* analysis ended, the workflow fetched for the page is one that has ended.
FetchedHasEnded ==
    form.step = "fetch" /\ form.ended => row[form.id] \in Final
=============================================================================
