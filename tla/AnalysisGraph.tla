--------------------------- MODULE AnalysisGraph ---------------------------
(***************************************************************************)
(* One run of the analysis graph after another, on one workflow: the nodes *)
(* of agent/graph.py in order, the loop plan / validate / revise, the      *)
(* language model that answers or fails, and what the last node stores.    *)
(* WorkflowRequests and WorkflowExecution take a run as a whole; here it   *)
(* is taken apart, and runs do not overlap.                                *)
(***************************************************************************)
EXTENDS PlanRules

CONSTANTS
    Extractions,    \* what the model may extract: lists of requirements
    GivenPlans,     \* stored workflows whose plan the planner did not build
    Reportable,     \* the task ids a client may report as completed
    NoPlan,         \* candidate_plan is None
    NoTask,         \* current_task, affected_task or blocked_by is None
    MaxRuns         \* bound: runs of the graph

Retries == 2            \* chat_json
MaxPlanRevisions == 1   \* MAX_PLAN_REVISIONS

ASSUME GraphAssumption ==
    /\ NoReq \notin ReqIds
    /\ Extractions \subseteq Seq(Requirement)
    /\ \A plan \in GivenPlans :
         plan.reqs \in Seq(Requirement) \ {<<>>} /\ plan.tasks \in Seq(CandidateTask)
    /\ Reportable \subseteq Int
    /\ NoPlan \notin Seq(CandidateTask)
    /\ NoTask \notin Int
    /\ MaxRuns \in Nat

VARIABLES
    stored,     \* the WorkflowState in the memory store
    state,      \* the AgentState of the run
    pc,         \* the node that runs next
    attempt,    \* answers of the language model rejected in this node
    runs,       \* runs begun
    given       \* whether the workflow came with a plan of its own

vars == <<stored, state, pc, attempt, runs, given>>

-----------------------------------------------------------------------------
Nodes == {"initialize_node", "analyze_goal", "extract_procedures",
          "extract_requirements", "collect_evidence", "plan", "validate_plan",
          "revise_plan", "plan_failed", "execute_plan", "optimize_plan",
          "state_analysis", "detect_blockers", "recommend", "update_memory"}

Verdicts == {"none", "valid", "invalid"}
Actions == {"none", "await_dependency", "start_task", "no_action"}

NoRecommendation == [action |-> "none", task |-> NoTask, by |-> NoTask]

\* What a workflow and a run keep, as far as a node decides by it.
NewWorkflow ==
    [analysed |-> FALSE, procedures |-> FALSE, reqs |-> <<>>, evidence |-> {},
     cand |-> NoPlan, tasks |-> <<>>, verdict |-> "none", revisions |-> 0,
     completed |-> {}, current |-> NoTask, path |-> <<>>, chains |-> <<>>,
     pending |-> {}, blocked |-> {}, rec |-> NoRecommendation, incoming |-> {}]

TaskType == [id : Int, reqs : SUBSET ReqIds, effort : 1..4, deps : SUBSET Int]

WorkflowType ==
    [analysed : BOOLEAN, procedures : BOOLEAN, reqs : Seq(Requirement),
     evidence : SUBSET ReqIds, cand : Seq(CandidateTask) \cup {NoPlan},
     tasks : Seq(TaskType), verdict : Verdicts,
     revisions : Nat, completed : SUBSET Int,
     current : Int \cup {NoTask}, path : Seq(Int), chains : Seq(SUBSET Int),
     pending : SUBSET Int, blocked : SUBSET Int,
     rec : [action : Actions, task : Int \cup {NoTask}, by : Int \cup {NoTask}],
     incoming : SUBSET Int]

TypeOK ==
    /\ stored \in WorkflowType
    /\ state \in WorkflowType
    /\ pc \in Nodes \cup {"idle"}
    /\ attempt \in 0..Retries
    /\ runs \in 0..MaxRuns
    /\ given \in BOOLEAN

\* A workflow stored with a plan: its requirements are known, the plan has
\* not been checked yet.
Stored(plan) ==
    [NewWorkflow EXCEPT
       !.analysed = TRUE, !.procedures = TRUE,
       !.reqs = plan.reqs, !.evidence = ReqsOf(plan.reqs),
       !.cand = plan.tasks, !.tasks = Materialised(plan.tasks)]

Init ==
    /\ \/ given = FALSE /\ stored = NewWorkflow
       \/ given = TRUE /\ \E plan \in GivenPlans : stored = Stored(plan)
    /\ state = NewWorkflow
    /\ pc = "idle"
    /\ attempt = 0
    /\ runs = 0

-----------------------------------------------------------------------------
(* The service begins a run *)

Begin(initial) ==
    /\ pc = "idle"
    /\ runs < MaxRuns
    /\ runs' = runs + 1
    /\ state' = initial
    /\ pc' = "initialize_node"
    /\ UNCHANGED <<stored, attempt, given>>

\* _execute_workflow_sync: from the goal alone.
FirstAnalysis ==
    /\ stored = NewWorkflow
    /\ Begin(NewWorkflow)

\* continue_workflow: everything stored goes back into the graph.
Continue(ids) == Begin([stored EXCEPT !.incoming = ids])

\* Mutant: the evidence of the previous analysis is kept as well.
RefreshedState_Evidence ==
    [NewWorkflow EXCEPT !.completed = stored.completed, !.evidence = stored.evidence]

\* rebuild_workflow: only the completed ids go back in.
RefreshedState == [NewWorkflow EXCEPT !.completed = stored.completed]

Refresh == Begin(RefreshedState)

-----------------------------------------------------------------------------
(* Nodes *)

Running == UNCHANGED <<stored, runs, given>>

Goto(node, next) ==
    /\ state' = next
    /\ pc' = node
    /\ attempt' = 0
    /\ Running

\* An exception of a node ends the run; nothing of it is kept.
Fail == Goto("idle", NewWorkflow)

\* Mutant: one answer too many is asked for.
Rejected_OneMore ==
    IF attempt <= Retries
      THEN attempt' = attempt + 1 /\ UNCHANGED <<state, pc>> /\ Running
      ELSE Fail

\* chat_json: an answer that holds no JSON, echoes the schema or does not fit
\* it is asked for again, twice.
Rejected ==
    IF attempt < Retries
      THEN attempt' = attempt + 1 /\ UNCHANGED <<state, pc>> /\ Running
      ELSE Fail

\* The call of the model or of the retriever raises, or the save does.
NodeRaises ==
    /\ \/ pc = "analyze_goal" /\ ~state.analysed
       \/ pc = "extract_procedures" /\ ~state.procedures
       \/ pc = "extract_requirements" /\ state.reqs = <<>>
       \/ pc = "collect_evidence" /\ state.evidence = {} /\ state.reqs # <<>>
       \/ pc = "update_memory"
    /\ Fail

\* The ids that count are those of tasks the workflow has.
Initialize ==
    /\ pc = "initialize_node"
    /\ Goto("analyze_goal",
            [state EXCEPT !.completed = @ \cup (state.incoming \cap Ids(state.tasks))])

AnalyzeGoal ==
    /\ pc = "analyze_goal"
    /\ \/ Goto("extract_procedures", [state EXCEPT !.analysed = TRUE])
       \/ ~state.analysed /\ Rejected

\* Procedures may turn out empty; they are then asked for in every run.
ExtractProcedures ==
    /\ pc = "extract_procedures"
    /\ \/ state.procedures /\ Goto("extract_requirements", state)
       \/ /\ ~state.procedures
          /\ \/ \E some \in BOOLEAN :
                  Goto("extract_requirements", [state EXCEPT !.procedures = some])
             \/ Rejected

\* A bare list of requirements is accepted as an extraction without any: of
\* the list, _extract_json takes the first object, which has none of the
\* (optional) fields.
BareList == <<>>

\* Mutant: requirements are extracted in every run.
ExtractRequirements_Always ==
    /\ pc = "extract_requirements"
    /\ \/ \E reqs \in Extractions \cup {BareList} :
            Goto("collect_evidence", [state EXCEPT !.reqs = reqs])
       \/ Rejected

ExtractRequirements ==
    /\ pc = "extract_requirements"
    /\ \/ state.reqs # <<>> /\ Goto("collect_evidence", state)
       \/ /\ state.reqs = <<>>
          /\ \/ \E reqs \in Extractions \cup {BareList} :
                  Goto("collect_evidence", [state EXCEPT !.reqs = reqs])
             \/ Rejected

CollectEvidence ==
    /\ pc = "collect_evidence"
    /\ Goto("plan", [state EXCEPT
         !.evidence = IF @ # {} THEN @ ELSE ReqsOf(state.reqs)])

\* create_plan_node
PlanFor(s) ==
    IF s.cand = NoPlan THEN BuildPlan(s.reqs)
    ELSE IF MustRebuild(s.cand, s.reqs) THEN BuildPlan(s.reqs)
    ELSE s.cand

CreatePlan ==
    /\ pc = "plan"
    /\ Goto("validate_plan", [state EXCEPT !.cand = PlanFor(state),
                                           !.tasks = Materialised(PlanFor(state))])

\* validate_plan_node and should_revise
ValidatePlan ==
    /\ pc = "validate_plan"
    /\ IF Valid(state.cand, state.reqs)
         THEN Goto("execute_plan", [state EXCEPT !.verdict = "valid"])
         ELSE Goto(IF state.revisions < MaxPlanRevisions
                     THEN "revise_plan" ELSE "plan_failed",
                   [state EXCEPT !.verdict = "invalid"])

\* Mutant: a revision is not counted.
RevisePlan_Uncounted ==
    /\ pc = "revise_plan"
    /\ Goto("plan", [state EXCEPT !.cand = Revised(@, state.reqs)])

\* Mutant: the revised plan is checked at once, its tasks are not renewed.
RevisePlan_NoTasks ==
    /\ pc = "revise_plan"
    /\ Goto("validate_plan", [state EXCEPT !.cand = Revised(@, state.reqs),
                                           !.revisions = @ + 1])

RevisePlan ==
    /\ pc = "revise_plan"
    /\ Goto("plan", [state EXCEPT !.cand = Revised(@, state.reqs),
                                  !.revisions = @ + 1])

\* The later nodes' results stay those of the run before.
PlanFailed ==
    /\ pc = "plan_failed"
    /\ Goto("update_memory", state)

Open(s) == {i \in DOMAIN s.tasks : s.tasks[i].id \notin s.completed}

FirstOpen(s) ==
    s.tasks[CHOOSE i \in Open(s) : \A j \in Open(s) : i <= j].id

ExecutePlan ==
    /\ pc = "execute_plan"
    /\ Goto("optimize_plan", [state EXCEPT
         !.current = IF Open(state) = {} THEN NoTask ELSE FirstOpen(state)])

EffortOf(cand) ==
    [id \in Ids(cand) |-> cand[CHOOSE i \in DOMAIN cand : cand[i].id = id].effort]

PathOf(s) == CriticalPath(Graph(s.cand), EffortOf(s.cand))

\* The parallel chains: each layer of open tasks without the critical ones.
ChainsOf(s) ==
    LET layers == Layers(Graph(s.cand), s.completed)
        others == [k \in DOMAIN layers |-> layers[k] \ Range(PathOf(s))]
        kept == {k \in DOMAIN others : others[k] # {}}
    IN  [i \in 1..Cardinality(kept) |-> others[Nth(kept, i)]]

OptimizePlan ==
    /\ pc = "optimize_plan"
    /\ Goto("state_analysis", [state EXCEPT !.path = PathOf(state),
                                            !.chains = ChainsOf(state)])

AnalyzeState ==
    /\ pc = "state_analysis"
    /\ Goto("detect_blockers", [state EXCEPT
         !.pending = {state.tasks[i].id : i \in Open(state)}])

DetectBlockers ==
    /\ pc = "detect_blockers"
    /\ Goto("recommend", [state EXCEPT
         !.blocked = {state.tasks[i].id :
                        i \in {j \in DOMAIN state.tasks :
                                 ~ (state.tasks[j].deps \subseteq state.completed)}}])

\* The tasks to start with: open and not blocked.
Priority(s) == {i \in Open(s) : s.tasks[i].id \notin s.blocked}

Unfinished(s, id) == Graph(s.tasks)[id] \ s.completed

Advice(action, task, by) == [action |-> action, task |-> task, by |-> by]

\* Mutant: the first open task is recommended, blocked or not.
Recommendations_Blocked(s) ==
    IF Open(s) = {} THEN {Advice("no_action", s.current, NoTask)}
    ELSE {Advice("start_task", FirstOpen(s), NoTask)}

\* The current task if it waits, with one of those it waits for; else the
\* first task that does not wait.
Recommendations(s) ==
    IF s.current \in s.blocked
      THEN {Advice("await_dependency", s.current, by) : by \in Unfinished(s, s.current)}
    ELSE IF Priority(s) = {}
      THEN {Advice("no_action", s.current, NoTask)}
    ELSE LET first == CHOOSE i \in Priority(s) : \A j \in Priority(s) : i <= j
         IN  {Advice("start_task", s.tasks[first].id, NoTask)}

Recommend ==
    /\ pc = "recommend"
    /\ \E rec \in Recommendations(state) :
         Goto("update_memory", [state EXCEPT !.rec = rec])

\* update_memory_node; the service's own save after it repeats the contents.
UpdateMemory ==
    /\ pc = "update_memory"
    /\ stored' = [state EXCEPT !.incoming = {}]
    /\ state' = NewWorkflow
    /\ pc' = "idle"
    /\ UNCHANGED <<attempt, runs, given>>

-----------------------------------------------------------------------------
NodeStep ==
    \/ Initialize \/ AnalyzeGoal \/ ExtractProcedures \/ ExtractRequirements
    \/ CollectEvidence \/ CreatePlan \/ ValidatePlan \/ RevisePlan \/ PlanFailed
    \/ ExecutePlan \/ OptimizePlan \/ AnalyzeState \/ DetectBlockers
    \/ Recommend \/ UpdateMemory

Next ==
    \/ FirstAnalysis \/ Refresh
    \/ \E ids \in SUBSET Reportable : Continue(ids)
    \/ NodeStep \/ NodeRaises

Spec == Init /\ [][Next]_vars /\ WF_vars(NodeStep)
-----------------------------------------------------------------------------
(* Properties *)

\* Where a run has passed the validation.
Accepted == {"execute_plan", "optimize_plan", "state_analysis",
             "detect_blockers", "recommend"}

\* The tasks, as they are shown and worked on, have distinct ids, know and can
\* satisfy each other's dependencies, and serve every requirement.
Sound(s) ==
    /\ s.tasks = Materialised(s.cand)
    /\ UniqueIds(s.tasks)
    /\ Closed(Graph(s.tasks))
    /\ Acyclic(Graph(s.tasks))
    /\ \A r \in ReqsOf(s.reqs) : \E i \in DOMAIN s.tasks : r \in s.tasks[i].reqs

\* Work is handed out only from sound tasks, whichever way the plan came about,
\* was rebuilt or was revised, in the run or stored by it (graph.py: the edge
\* into execute_plan).
WorkIsSound ==
    /\ pc \in Accepted => Sound(state)
    /\ stored.verdict = "valid" => Sound(stored)

\* Evidence and plan are about the requirements of the same analysis: no reuse
\* of one node's result combines it with another run's requirements.
EvidenceIsForRequirements ==
    /\ pc \in {"plan", "validate_plan", "revise_plan", "plan_failed"} \cup Accepted
         => state.evidence = ReqsOf(state.reqs)
    /\ stored.evidence = ReqsOf(stored.reqs)

\* A workflow whose plan the planner built is never revised or rejected, in
\* any later run and whatever the model extracts (planning.py builds what
\* validation.py asks for).
OwnPlansPass ==
    ~given => /\ pc \notin {"revise_plan", "plan_failed"}
              /\ stored.verdict # "invalid"

\* A plan that was once executed is not rejected later.
ExecutedPlansPass ==
    stored.verdict = "valid" => pc \notin {"revise_plan", "plan_failed"}

\* One revision is enough for a plan whose ids are task_1 to task_n, if what is
\* wrong with it is that requirements or approvals are missing; otherwise the
\* numbering of revise_plan_node could collide, or nothing is repaired.
Repairable(cand, reqs) ==
    /\ UniqueIds(cand)
    /\ Ids(cand) = 1..Len(cand)
    /\ Closed(Graph(cand))
    /\ Acyclic(Graph(cand))
    /\ UniqueIds(reqs)

RevisionRepairs ==
    (pc \in {"validate_plan", "plan_failed"} /\ state.revisions > stored.revisions
        /\ Repairable(stored.cand, stored.reqs))
    => Valid(state.cand, state.reqs)

\* A task to start is open and waits for nothing, a task that is awaited is
\* open and stands in the way of the one it blocks, and "no action" means that
\* nothing is left to do.
Fits(s) ==
    LET deps == Graph(s.tasks)
        open == Ids(s.tasks) \ s.completed
        rec == s.rec
    IN  \/ /\ rec.action = "start_task"
           /\ rec.task \in open /\ deps[rec.task] \cap open = {}
        \/ /\ rec.action = "await_dependency"
           /\ rec.task \in open /\ rec.by \in deps[rec.task] \cap open
        \/ /\ rec.action = "no_action"
           /\ open = {}

\* A stored recommendation can be followed (recommendation.py).
RecommendationFits == stored.verdict = "valid" => Fits(stored)

\* The depth-first search finds a cycle exactly if there is one, also through
\* unknown names and repeated ids (validation.py, _cycle_ids).
CycleSearchIsExact ==
    pc = "validate_plan" =>
        (CycleFound(Graph(state.cand)) <=> ~Acyclic(Graph(state.cand)))

\* The critical path is a chain of dependencies, and its effort is the least
\* time in which the whole plan can be done, however many people share it.
CriticalPathIsLeastTime ==
    pc = "state_analysis" =>
        LET dp == Graph(state.cand)
            effort == EffortOf(state.cand)
            time == Weight(effort, state.path)
        IN  /\ IsChain(dp, state.path)
            /\ DoableIn(dp, effort, time)

\* Every open task off the critical path is in exactly one parallel chain; the
\* tasks of one chain do not depend on each other or on a later chain's.
ParallelWorkIsParallel ==
    pc = "state_analysis" =>
        LET dp == Graph(state.cand)
            chains == state.chains
            open == Ids(state.cand) \ state.completed
        IN  /\ UNION Range(chains) = open \ Range(state.path)
            /\ \A j, k \in DOMAIN chains : j # k => chains[j] \cap chains[k] = {}
            /\ \A j, k \in DOMAIN chains : j <= k =>
                 \A t \in chains[j] : dp[t] \cap chains[k] = {}

\* Every run of the graph ends, although validate_plan and revise_plan form a
\* loop and the language model may be asked again.
RunEnds == pc # "idle" ~> pc = "idle"
=============================================================================
