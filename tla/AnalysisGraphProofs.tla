------------------------ MODULE AnalysisGraphProofs ------------------------
(***************************************************************************)
(* Proofs about the runs of the analysis graph: for every list of          *)
(* requirements the model may extract, every stored plan and any number of *)
(* runs.                                                                   *)
(***************************************************************************)
EXTENDS AnalysisGraph, PlanRulesProofs

-----------------------------------------------------------------------------
(* The inductive invariant *)

Early == {"initialize_node", "analyze_goal", "extract_procedures",
          "extract_requirements", "collect_evidence"}
Collected == {"plan", "validate_plan", "revise_plan", "plan_failed", "update_memory"}
                 \cup Accepted

\* The fields the invariant speaks of are there, and have their types.
Typed(s) ==
    /\ DOMAIN s = DOMAIN NewWorkflow
    /\ s.reqs \in Seq(Requirement)
    /\ s.cand \in Seq(CandidateTask) \cup {NoPlan}
    /\ s.revisions \in Nat

\* Without requirements there is no task either.
NoTaskWithoutReqs(s) == s.reqs = <<>> => s.cand \in {NoPlan, <<>>}

\* A plan with the tasks made from it.
Planned(s) == s.cand \in Seq(CandidateTask) /\ s.tasks = Materialised(s.cand)

Passes(s) == Valid(s.cand, s.reqs)

Checked(s) == Planned(s) /\ Passes(s)

\* The planner will build this plan itself, or has nothing to repair.
Buildable(s) == s.cand = NoPlan \/ s.cand = <<>> \/ Passes(s)

\* The plan of the run is the stored one, or its only revision.
AsStored(s, old) ==
    s.reqs = old.reqs /\ s.cand = old.cand /\ s.revisions <= old.revisions

OnceRevised(s, old) ==
    /\ s.reqs = old.reqs /\ old.cand \in Seq(CandidateTask)
    /\ s.cand = Revised(old.cand, old.reqs)
    /\ s.revisions >= 1

\* Where the plan of a run comes from, node by node.
PlansInv ==
    /\ Typed(state) /\ Typed(stored)
    /\ NoTaskWithoutReqs(state) /\ NoTaskWithoutReqs(stored)
    /\ pc \in Early => Buildable(state) \/ AsStored(state, stored)
    /\ pc = "plan" => Buildable(state) \/ AsStored(state, stored) \/ OnceRevised(state, stored)
    /\ pc = "validate_plan" =>
         /\ Planned(state)
         /\ Passes(state) \/ AsStored(state, stored) \/ OnceRevised(state, stored)
    /\ pc = "revise_plan" =>
         /\ Planned(state) /\ AsStored(state, stored) /\ state.reqs # <<>>
         /\ state.revisions < MaxPlanRevisions
    /\ pc = "plan_failed" =>
         /\ state.verdict = "invalid"
         /\ AsStored(state, stored) \/ OnceRevised(state, stored)
    /\ pc \in Accepted => Checked(state) /\ state.verdict = "valid"
    /\ pc = "update_memory" =>
         /\ state.verdict \in {"valid", "invalid"}
         /\ state.verdict = "valid" => Checked(state)
    /\ stored.verdict = "valid" => Checked(stored)

\* A workflow whose plan the planner built, or has executed before.
Trusted == ~given \/ stored.verdict = "valid"

TrustInv ==
    /\ given \in BOOLEAN
    /\ ~given => stored.verdict = "valid" \/ (stored.cand = NoPlan /\ stored.verdict = "none")
    /\ Trusted =>
         /\ pc \in Early \cup {"plan"} => Buildable(state)
         /\ pc = "validate_plan" => Passes(state)
         /\ pc \notin {"revise_plan", "plan_failed"}
         /\ pc = "update_memory" => state.verdict = "valid"

EvidenceInv ==
    /\ stored.evidence = ReqsOf(stored.reqs)
    /\ pc \in Early => state.evidence \in {{}, ReqsOf(state.reqs)}
    /\ pc \in Collected => state.evidence = ReqsOf(state.reqs)

CurrentTask(s) == IF Open(s) = {} THEN NoTask ELSE FirstOpen(s)

BlockedTasks(s) ==
    {s.tasks[i].id : i \in {j \in DOMAIN s.tasks : ~ (s.tasks[j].deps \subseteq s.completed)}}

\* What the recommendation is made from is what the tasks say.
AdviceInv ==
    /\ pc \in Accepted \ {"execute_plan"} => state.current = CurrentTask(state)
    /\ pc = "recommend" => state.blocked = BlockedTasks(state)
    /\ pc = "update_memory" /\ state.verdict = "valid" => Fits(state)
    /\ stored.verdict = "valid" => Fits(stored)

GraphInv == PlansInv /\ TrustInv /\ EvidenceInv /\ AdviceInv

-----------------------------------------------------------------------------
(* Facts about plans *)

\* What the planner leaves behind passes if it was built, or needed no repair.
LEMMA PlanForPasses ==
    ASSUME NEW s, Typed(s), NoTaskWithoutReqs(s), Buildable(s)
    PROVE  Valid(PlanFor(s), s.reqs)
<1>1. Valid(BuildPlan(s.reqs), s.reqs)
  BY BuiltPlansAreValid, Zenon DEF Typed
<1>2. CASE s.cand = NoPlan
  BY <1>1, <1>2, Zenon DEF PlanFor
<1>3. CASE s.cand # NoPlan /\ Passes(s)
  BY <1>3, ValidIsKept, Zenon DEF PlanFor, Passes
<1>4. CASE s.cand # NoPlan /\ s.cand = <<>> /\ MustRebuild(s.cand, s.reqs)
  BY <1>1, <1>4, Zenon DEF PlanFor
<1>5. CASE s.cand # NoPlan /\ s.cand = <<>> /\ ~MustRebuild(s.cand, s.reqs)
  <2>1. DOMAIN s.cand = {}
    BY <1>5
  <2>2. Ids(s.cand) = {} /\ \A r \in ReqsOf(s.reqs) : Covered(s.cand, r)
    BY <1>5, <2>1, Zenon DEF MustRebuild, Ids
  <2>3. \A i \in DOMAIN s.reqs : FALSE
    BY <2>1, <2>2, Zenon DEF Covered, ReqsOf
  <2>4. Acyclic(Graph(s.cand))
    <3>1. DOMAIN Graph(s.cand) = {}
      BY <2>2, Zenon DEF Graph
    <3> QED BY <3>1 DEF Acyclic
  <2>5. Valid(s.cand, s.reqs)
    BY <2>1, <2>2, <2>3, <2>4, Zenon DEF Valid, UniqueIds
  <2> QED BY <1>5, <2>5, Zenon DEF PlanFor
<1> QED BY <1>2, <1>3, <1>4, <1>5, Zenon DEF Buildable

\* The planner builds a plan that passes, or keeps the one it finds.
LEMMA PlanForChoice ==
    ASSUME NEW s, Typed(s)
    PROVE  /\ PlanFor(s) \in Seq(CandidateTask)
           /\ Valid(PlanFor(s), s.reqs) \/ PlanFor(s) = s.cand
           /\ s.reqs = <<>> => PlanFor(s) \in {<<>>, s.cand}
<1>1. /\ BuildPlan(s.reqs) \in Seq(CandidateTask) /\ Valid(BuildPlan(s.reqs), s.reqs)
      /\ s.cand # NoPlan => s.cand \in Seq(CandidateTask)
  BY BuildPlanType, BuiltPlansAreValid, Zenon DEF Typed
<1>2. s.reqs = <<>> => BuildPlan(s.reqs) = <<>>
  BY DEF BuildPlan
<1> QED BY <1>1, <1>2, Zenon DEF PlanFor

\* Without requirements and tasks there is nothing to find fault with.
LEMMA NothingPasses == Valid(<<>>, <<>>)
<1>1. BuildPlan(<<>>) = <<>> /\ <<>> \in Seq(Requirement)
  BY DEF BuildPlan
<1> QED BY <1>1, BuiltPlansAreValid

\* A plan that passed gives sound tasks.
LEMMA CheckedIsSound ==
    ASSUME NoReq \notin ReqIds, NEW s, Typed(s), Checked(s)
    PROVE  Sound(s)
<1>1. /\ s.tasks = Materialised(s.cand) /\ Valid(s.cand, s.reqs)
      /\ s.cand \in Seq(CandidateTask) /\ s.reqs \in Seq(Requirement)
  BY Zenon DEF Checked, Planned, Passes, Typed
<1>2. Len(s.cand) \in Nat /\ DOMAIN s.cand = 1..Len(s.cand)
  BY <1>1
<1>3. /\ UniqueIds(s.tasks) /\ Closed(Graph(s.tasks)) /\ Acyclic(Graph(s.tasks))
  BY <1>1, <1>2, ValidIsSound, Zenon
<1>4. \A r \in ReqsOf(s.reqs) : \E i \in DOMAIN s.tasks : r \in s.tasks[i].reqs
  <2> TAKE r \in ReqsOf(s.reqs)
  <2>1. r \in ReqIds
    <3>1. PICK j \in DOMAIN s.reqs : r = s.reqs[j].id
      BY Zenon DEF ReqsOf
    <3>2. s.reqs[j] \in Requirement
      BY <1>1, <3>1
    <3> QED BY <3>1, <3>2 DEF Requirement
  <2>2. PICK i \in DOMAIN s.cand : s.cand[i].req = r
    BY <1>1, Zenon DEF Valid, Covered
  <2>3. i \in DOMAIN s.tasks /\ s.tasks[i].reqs = {s.cand[i].req} \ {NoReq}
    BY <1>1 DEF Materialised
  <2> QED BY <2>1, <2>2, <2>3
<1> QED BY <1>1, <1>3, <1>4, Zenon DEF Sound

-----------------------------------------------------------------------------
(* Steps that leave the plan alone *)

Keeps(s, t) ==
    /\ DOMAIN t = DOMAIN s
    /\ t.reqs = s.reqs /\ t.cand = s.cand /\ t.tasks = s.tasks
    /\ t.revisions = s.revisions /\ t.verdict = s.verdict

LEMMA KeptPlan ==
    ASSUME NEW s, NEW t, NEW old, Keeps(s, t)
    PROVE  /\ Typed(s) => Typed(t)
           /\ NoTaskWithoutReqs(s) => NoTaskWithoutReqs(t)
           /\ Planned(s) => Planned(t)
           /\ Passes(s) <=> Passes(t)
           /\ Checked(s) => Checked(t)
           /\ Buildable(s) => Buildable(t)
           /\ AsStored(s, old) => AsStored(t, old)
           /\ OnceRevised(s, old) => OnceRevised(t, old)
<1>1. Passes(s) <=> Passes(t)
  BY Zenon DEF Keeps, Passes
<1>2. Planned(s) => Planned(t)
  BY Zenon DEF Keeps, Planned
<1>3. Typed(s) => Typed(t)
  BY Zenon DEF Keeps, Typed
<1>4. AsStored(s, old) => AsStored(t, old)
  BY Zenon DEF Keeps, AsStored
<1>5. OnceRevised(s, old) => OnceRevised(t, old)
  BY Zenon DEF Keeps, OnceRevised
<1> QED BY <1>1, <1>2, <1>3, <1>4, <1>5, Zenon
        DEF Keeps, NoTaskWithoutReqs, Checked, Buildable

\* Before the planner, and from the validation to the end of a run.
Forward ==
    \/ pc \in Early /\ pc' \in Early \cup {"plan"}
    \/ pc \in Accepted /\ pc' \in Accepted \cup {"update_memory"}
    \/ pc = "plan_failed" /\ pc' = "update_memory"

LEMMA KeepsInv ==
    ASSUME PlansInv, TrustInv, Keeps(state, state'), Forward, UNCHANGED <<stored, given>>
    PROVE  PlansInv' /\ TrustInv'
<1>1. stored' = stored /\ given' = given
  OBVIOUS
<1>0. (Trusted' <=> Trusted) /\ (~given' <=> ~given)
  BY <1>1 DEF Trusted
<1>2. /\ Typed(state) => Typed(state')
      /\ NoTaskWithoutReqs(state) => NoTaskWithoutReqs(state')
      /\ Checked(state) => Checked(state')
      /\ Buildable(state) => Buildable(state')
      /\ AsStored(state, stored) => AsStored(state', stored)
  BY KeptPlan, Zenon
<1>3. state'.verdict = state.verdict
  BY Zenon DEF Keeps
<1>4. /\ Typed(state') /\ Typed(stored')
      /\ NoTaskWithoutReqs(state') /\ NoTaskWithoutReqs(stored')
      /\ stored'.verdict = "valid" => Checked(stored')
  BY <1>1, <1>2, Zenon DEF PlansInv
<1>5. CASE pc \in Early /\ pc' \in Early \cup {"plan"}
  <2>1. Buildable(state') \/ AsStored(state', stored')
    BY <1>1, <1>2, <1>5, Zenon DEF PlansInv
  <2>2. Trusted' => Buildable(state')
    BY <1>0, <1>2, <1>5, Zenon DEF TrustInv
  <2>3. pc' \in Early \cup {"plan"} /\ pc' \notin {"validate_plan", "revise_plan", "plan_failed",
                                                   "update_memory"} /\ pc' \notin Accepted
    BY <1>5 DEF Early, Accepted
  <2>4. PlansInv'
    BY <1>4, <2>1, <2>3, Zenon DEF PlansInv
  <2>5. TrustInv'
    BY <1>0, <1>1, <2>2, <2>3, Zenon DEF TrustInv
  <2> QED BY <2>4, <2>5
<1>6. CASE pc \in Accepted /\ pc' \in Accepted \cup {"update_memory"}
  <2>1. Checked(state') /\ state'.verdict = "valid"
    BY <1>2, <1>3, <1>6, Zenon DEF PlansInv
  <2>2. pc' \notin Early \cup {"plan", "validate_plan", "revise_plan", "plan_failed"}
    BY <1>6 DEF Early, Accepted
  <2>3. PlansInv'
    BY <1>4, <2>1, <2>2, Zenon DEF PlansInv
  <2>4. TrustInv'
    BY <1>0, <1>1, <2>1, <2>2, Zenon DEF TrustInv
  <2> QED BY <2>3, <2>4
<1>7. CASE pc = "plan_failed" /\ pc' = "update_memory"
  <2>1. state'.verdict = "invalid" /\ ~Trusted
    BY <1>3, <1>7, Zenon DEF PlansInv, TrustInv
  <2>2. pc' \notin Early \cup {"plan", "validate_plan", "revise_plan", "plan_failed"}
        /\ pc' \notin Accepted
    BY <1>7 DEF Early, Accepted
  <2>3. ~Trusted'
    BY <1>0, <2>1, Zenon
  <2>4. PlansInv'
    BY <1>4, <2>1, <2>2, Zenon DEF PlansInv
  <2>5. TrustInv'
    BY <1>0, <1>1, <2>1, <2>2, <2>3, Zenon DEF TrustInv
  <2> QED BY <2>4, <2>5
<1> QED BY <1>5, <1>6, <1>7, Zenon DEF Forward

LEMMA EvidenceKept ==
    ASSUME EvidenceInv, stored' = stored,
           state'.evidence = state.evidence, state'.reqs = state.reqs,
           (pc \in Early /\ pc' \in Early) \/ (pc \in Collected /\ pc' \in Collected)
    PROVE  EvidenceInv'
<1>1. CASE pc \in Early /\ pc' \in Early
  <2>1. pc' \notin Collected
    BY <1>1 DEF Early, Collected, Accepted
  <2> QED BY <1>1, <2>1, Zenon DEF EvidenceInv
<1>2. CASE pc \in Collected /\ pc' \in Collected
  <2>1. pc' \notin Early
    BY <1>2 DEF Early, Collected, Accepted
  <2> QED BY <1>2, <2>1, Zenon DEF EvidenceInv
<1> QED BY <1>1, <1>2

\* Away from the nodes that make the recommendation.
LEMMA NoAdviceYet ==
    ASSUME AdviceInv, stored' = stored,
           pc' \notin (Accepted \ {"execute_plan"}) \cup {"update_memory"}
    PROVE  AdviceInv'
<1>1. pc' # "recommend" /\ pc' # "update_memory" /\ pc' \notin Accepted \ {"execute_plan"}
  BY DEF Accepted
<1> QED BY <1>1, Zenon DEF AdviceInv

LEMMA SameState ==
    ASSUME GraphInv, UNCHANGED <<stored, state, pc, given>>
    PROVE  GraphInv'
<1>1. /\ stored' = stored /\ state' = state /\ pc' = pc
      /\ (Trusted' <=> Trusted) /\ (~given' <=> ~given) /\ given' = given
  BY DEF Trusted
<1>2. PlansInv'
  BY <1>1, Zenon DEF GraphInv, PlansInv
<1>3. TrustInv'
  BY <1>1, Zenon DEF GraphInv, TrustInv
<1>4. EvidenceInv' /\ AdviceInv'
  BY <1>1, Zenon DEF GraphInv, EvidenceInv, AdviceInv
<1> QED BY <1>2, <1>3, <1>4, Zenon DEF GraphInv

\* Between two runs only what is stored counts.
LEMMA NewWorkflowTyped ==
    /\ Typed(NewWorkflow) /\ NoTaskWithoutReqs(NewWorkflow)
    /\ NewWorkflow.cand = NoPlan /\ NewWorkflow.evidence = {}
    /\ NewWorkflow.reqs = <<>> /\ NewWorkflow.verdict = "none"
    /\ Buildable(NewWorkflow)
<1>1. /\ NewWorkflow.cand = NoPlan /\ NewWorkflow.evidence = {}
      /\ NewWorkflow.reqs = <<>> /\ NewWorkflow.verdict = "none"
      /\ NewWorkflow.revisions = 0
  BY DEF NewWorkflow
<1>2. <<>> \in Seq(Requirement) /\ 0 \in Nat
  OBVIOUS
<1> QED BY <1>1, <1>2, Zenon DEF Typed, NoTaskWithoutReqs, Buildable

LEMMA IdleInv ==
    ASSUME pc' = "idle", state' = NewWorkflow, given' \in BOOLEAN,
           Typed(stored'), NoTaskWithoutReqs(stored'),
           stored'.verdict = "valid" => Checked(stored') /\ Fits(stored'),
           ~given' => \/ stored'.verdict = "valid"
                      \/ stored'.cand = NoPlan /\ stored'.verdict = "none",
           stored'.evidence = ReqsOf(stored'.reqs)
    PROVE  GraphInv'
<1>1. pc' \notin Early /\ pc' \notin Collected /\ pc' \notin Accepted
      /\ pc' \notin Early \cup {"plan"} /\ pc' \notin Accepted \ {"execute_plan"}
      /\ pc' \notin {"plan", "validate_plan", "revise_plan", "plan_failed", "update_memory",
                     "recommend"}
  BY DEF Early, Collected, Accepted
<1>2. PlansInv'
  BY <1>1, NewWorkflowTyped, Zenon DEF PlansInv
<1>3. TrustInv'
  BY <1>1, Zenon DEF TrustInv
<1>4. EvidenceInv'
  BY <1>1, Zenon DEF EvidenceInv
<1>5. AdviceInv'
  BY <1>1, Zenon DEF AdviceInv
<1> QED BY <1>2, <1>3, <1>4, <1>5, Zenon DEF GraphInv

LEMMA FailInv ==
    ASSUME GraphInv, Fail
    PROVE  GraphInv'
<1>1. /\ pc' = "idle" /\ state' = NewWorkflow /\ stored' = stored
      /\ (~given' <=> ~given) /\ given' = given
  BY DEF Fail, Goto, Running
<1>2. Typed(stored) /\ NoTaskWithoutReqs(stored) /\ given \in BOOLEAN
  BY Zenon DEF GraphInv, PlansInv, TrustInv
<1>3. stored.verdict = "valid" => Checked(stored) /\ Fits(stored)
  BY Zenon DEF GraphInv, PlansInv, AdviceInv
<1>4. ~given => stored.verdict = "valid" \/ (stored.cand = NoPlan /\ stored.verdict = "none")
  BY Zenon DEF GraphInv, TrustInv
<1>5. stored.evidence = ReqsOf(stored.reqs)
  BY Zenon DEF GraphInv, EvidenceInv
<1> QED BY <1>1, <1>2, <1>3, <1>4, <1>5, IdleInv, Zenon

LEMMA RejectedInv ==
    ASSUME GraphInv, Rejected
    PROVE  GraphInv'
<1>1. Fail \/ UNCHANGED <<stored, state, pc, given>>
  BY DEF Rejected, Running
<1> QED BY <1>1, FailInv, SameState, Zenon

-----------------------------------------------------------------------------
(* The nodes before the planner *)

\* A run begins with nothing, or with everything that is stored.
LEMMA BeginInv ==
    ASSUME GraphInv, NEW initial, Begin(initial),
           \/ /\ Typed(initial) /\ NoTaskWithoutReqs(initial)
              /\ Buildable(initial) /\ initial.evidence = {}
           \/ Keeps(stored, initial) /\ initial.evidence = stored.evidence
    PROVE  GraphInv'
<1>1. /\ pc' = "initialize_node" /\ state' = initial /\ stored' = stored
      /\ (~given' <=> ~given) /\ given' = given /\ (Trusted' <=> Trusted)
  BY DEF Begin, Trusted
<1>2. pc' \in Early /\ pc' \notin Collected /\ pc' \notin Accepted
      /\ pc' \notin (Accepted \ {"execute_plan"}) \cup {"update_memory"}
      /\ pc' \notin {"plan", "validate_plan", "revise_plan", "plan_failed", "update_memory"}
  BY <1>1 DEF Early, Collected, Accepted
<1>3. Typed(stored) /\ NoTaskWithoutReqs(stored) /\ stored.revisions <= stored.revisions
      /\ stored.evidence = ReqsOf(stored.reqs)
  BY DEF GraphInv, PlansInv, EvidenceInv, Typed
<1>4. AsStored(stored, stored)
  BY <1>3, Zenon DEF AsStored
<1>5. Trusted => Buildable(stored)
  BY Zenon DEF GraphInv, PlansInv, TrustInv, Trusted, Buildable, Checked
<1>6. /\ Typed(initial) /\ NoTaskWithoutReqs(initial)
      /\ Buildable(initial) \/ AsStored(initial, stored)
      /\ Trusted => Buildable(initial)
      /\ initial.evidence \in {{}, ReqsOf(initial.reqs)}
  <2>1. CASE Typed(initial) /\ NoTaskWithoutReqs(initial)
             /\ Buildable(initial) /\ initial.evidence = {}
    BY <2>1
  <2>2. CASE Keeps(stored, initial) /\ initial.evidence = stored.evidence
    <3>1. initial.reqs = stored.reqs
      BY <2>2, Zenon DEF Keeps
    <3>2. /\ Typed(initial) /\ NoTaskWithoutReqs(initial) /\ AsStored(initial, stored)
          /\ Trusted => Buildable(initial)
      BY <1>3, <1>4, <1>5, <2>2, KeptPlan, Zenon
    <3> QED BY <1>3, <2>2, <3>1, <3>2
  <2> QED BY <2>1, <2>2
<1>7. PlansInv'
  BY <1>1, <1>2, <1>6, Zenon DEF GraphInv, PlansInv
<1>8. TrustInv'
  BY <1>1, <1>2, <1>6, Zenon DEF GraphInv, TrustInv
<1>9. EvidenceInv'
  BY <1>1, <1>2, <1>6, Zenon DEF GraphInv, EvidenceInv
<1>10. AdviceInv'
  BY <1>1, <1>2, NoAdviceYet, Zenon DEF GraphInv
<1> QED BY <1>7, <1>8, <1>9, <1>10, Zenon DEF GraphInv

LEMMA RunsBegin ==
    ASSUME GraphInv, FirstAnalysis \/ Refresh \/ \E ids \in SUBSET Reportable : Continue(ids)
    PROVE  GraphInv'
<1>1. CASE FirstAnalysis
  <2>1. Begin(NewWorkflow)
    BY <1>1, Zenon DEF FirstAnalysis
  <2> QED BY <2>1, BeginInv, NewWorkflowTyped, Zenon
<1>2. CASE Refresh
  <2>1. Begin(RefreshedState) /\ Keeps(NewWorkflow, RefreshedState)
    BY <1>2, Zenon DEF Refresh, RefreshedState, Keeps, NewWorkflow
  <2>2. RefreshedState.evidence = {}
    BY DEF RefreshedState, NewWorkflow
  <2>3. Typed(RefreshedState) /\ NoTaskWithoutReqs(RefreshedState) /\ Buildable(RefreshedState)
    BY <2>1, KeptPlan, NewWorkflowTyped, Zenon
  <2> QED BY <2>1, <2>2, <2>3, BeginInv, Zenon
<1>3. ASSUME NEW ids \in SUBSET Reportable, Continue(ids) PROVE GraphInv'
  <2> DEFINE initial == [stored EXCEPT !.incoming = ids]
  <2>1. DOMAIN stored = DOMAIN NewWorkflow
    BY Zenon DEF GraphInv, PlansInv, Typed
  <2>2. Keeps(stored, initial) /\ initial.evidence = stored.evidence
    BY <2>1 DEF Keeps, NewWorkflow
  <2>3. Begin(initial)
    BY <1>3, Zenon DEF Continue
  <2> HIDE DEF initial
  <2> QED BY <2>2, <2>3, BeginInv, Zenon
<1> QED BY <1>1, <1>2, <1>3

\* A node that keeps plan, requirements and evidence.
LEMMA EarlyNode ==
    ASSUME GraphInv, pc \in Early, NEW node \in Early, NEW next, Goto(node, next),
           Keeps(state, next), next.evidence = state.evidence
    PROVE  GraphInv'
<1>1. pc' = node /\ state' = next /\ stored' = stored /\ UNCHANGED <<stored, given>>
  BY DEF Goto, Running
<1>2. pc' \notin (Accepted \ {"execute_plan"}) \cup {"update_memory"}
  BY <1>1 DEF Early, Accepted
<1>3. Forward /\ Keeps(state, state') /\ state'.evidence = state.evidence
  BY <1>1 DEF Forward
<1>4. state'.reqs = state.reqs
  BY <1>3, Zenon DEF Keeps
<1>5. PlansInv' /\ TrustInv'
  BY <1>1, <1>3, KeepsInv, Zenon DEF GraphInv
<1>6. EvidenceInv'
  BY <1>1, <1>3, <1>4, EvidenceKept, Zenon DEF GraphInv
<1>7. AdviceInv'
  BY <1>1, <1>2, NoAdviceYet, Zenon DEF GraphInv
<1> QED BY <1>5, <1>6, <1>7, Zenon DEF GraphInv

LEMMA EarlyNodes ==
    ASSUME GraphInv, Initialize \/ AnalyzeGoal \/ ExtractProcedures
    PROVE  GraphInv'
<1> USE DEF Keeps
<1>1. DOMAIN state = DOMAIN NewWorkflow
  BY Zenon DEF GraphInv, PlansInv, Typed
<1>2. /\ "analyze_goal" \in Early /\ "extract_procedures" \in Early
      /\ "extract_requirements" \in Early /\ "initialize_node" \in Early
  BY DEF Early
<1>3. CASE Initialize
  <2> DEFINE next == [state EXCEPT !.completed = @ \cup (state.incoming \cap Ids(state.tasks))]
  <2>1. pc = "initialize_node" /\ Goto("analyze_goal", next)
    BY <1>3, Zenon DEF Initialize
  <2>2. Keeps(state, next) /\ next.evidence = state.evidence
    BY <1>1 DEF NewWorkflow
  <2> HIDE DEF next
  <2> QED BY <1>2, <2>1, <2>2, EarlyNode
<1>4. CASE AnalyzeGoal
  <2> DEFINE next == [state EXCEPT !.analysed = TRUE]
  <2>1. pc = "analyze_goal" /\ (Goto("extract_procedures", next) \/ Rejected)
    BY <1>4, Zenon DEF AnalyzeGoal
  <2>2. Keeps(state, next) /\ next.evidence = state.evidence
    BY <1>1 DEF NewWorkflow
  <2> HIDE DEF next
  <2> QED BY <1>2, <2>1, <2>2, EarlyNode, RejectedInv
<1>5. CASE ExtractProcedures
  <2>1. pc = "extract_procedures"
        /\ \/ Goto("extract_requirements", state)
           \/ \E some \in BOOLEAN :
                Goto("extract_requirements", [state EXCEPT !.procedures = some])
           \/ Rejected
    BY <1>5, Zenon DEF ExtractProcedures
  <2>2. ASSUME NEW some \in BOOLEAN,
               Goto("extract_requirements", [state EXCEPT !.procedures = some])
        PROVE  GraphInv'
    <3> DEFINE next == [state EXCEPT !.procedures = some]
    <3>1. Keeps(state, next) /\ next.evidence = state.evidence
      BY <1>1 DEF NewWorkflow
    <3>2. Goto("extract_requirements", next)
      BY <2>2
    <3> HIDE DEF next
    <3> QED BY <1>2, <2>1, <3>1, <3>2, EarlyNode
  <2> QED BY <1>2, <2>1, <2>2, EarlyNode, RejectedInv
<1> QED BY <1>3, <1>4, <1>5

LEMMA ExtractRequirementsInv ==
    ASSUME GraphAssumption, GraphInv, ExtractRequirements
    PROVE  GraphInv'
<1>1. pc = "extract_requirements" /\ pc \in Early /\ "collect_evidence" \in Early
  BY DEF ExtractRequirements, Early
<1>2. CASE Goto("collect_evidence", state)
  BY <1>1, <1>2, EarlyNode, Zenon DEF Keeps
<1>3. ASSUME NEW reqs \in Extractions \cup {BareList}, state.reqs = <<>>,
             Goto("collect_evidence", [state EXCEPT !.reqs = reqs])
      PROVE  GraphInv'
  <2>1. /\ Typed(state) /\ NoTaskWithoutReqs(state) /\ state.evidence \in {{}, ReqsOf(state.reqs)}
    BY <1>1, Zenon DEF GraphInv, PlansInv, EvidenceInv
  <2>2. DOMAIN state = DOMAIN NewWorkflow
    BY <2>1, Zenon DEF Typed
  <2>3. /\ pc' = "collect_evidence" /\ stored' = stored
        /\ (~given' <=> ~given) /\ given' = given
        /\ DOMAIN state' = DOMAIN NewWorkflow /\ state'.reqs = reqs
        /\ state'.cand = state.cand /\ state'.evidence = state.evidence
        /\ state'.revisions = state.revisions
    BY <1>3, <2>2 DEF Goto, Running, NewWorkflow
  <2>4. reqs \in Seq(Requirement)
    <3>1. Extractions \subseteq Seq(Requirement)
      BY Zenon DEF GraphAssumption
    <3>2. BareList \in Seq(Requirement)
      BY DEF BareList
    <3> QED BY <3>1, <3>2, Zenon
  <2>5. state.cand = NoPlan \/ state.cand = <<>>
    BY <1>3, <2>1, Zenon DEF NoTaskWithoutReqs
  <2>6. Typed(state') /\ NoTaskWithoutReqs(state') /\ Buildable(state')
    BY <2>1, <2>3, <2>4, <2>5, Zenon DEF Typed, NoTaskWithoutReqs, Buildable
  <2>7. state.evidence = {}
    <3>1. ReqsOf(state.reqs) = {}
      BY <1>3 DEF ReqsOf
    <3> QED BY <2>1, <3>1
  <2>8. pc' \in Early /\ pc' \notin Collected /\ pc' \notin Accepted
        /\ pc' \notin (Accepted \ {"execute_plan"}) \cup {"update_memory"}
        /\ pc' \notin {"plan", "validate_plan", "revise_plan", "plan_failed", "update_memory"}
    BY <2>3 DEF Early, Collected, Accepted
  <2>9. PlansInv'
    BY <2>3, <2>6, <2>8, Zenon DEF GraphInv, PlansInv
  <2>10. TrustInv'
    BY <2>3, <2>6, <2>8, Zenon DEF GraphInv, TrustInv
  <2>11. EvidenceInv'
    BY <2>3, <2>7, <2>8, Zenon DEF GraphInv, EvidenceInv
  <2>12. AdviceInv'
    BY <2>3, <2>8, NoAdviceYet, Zenon DEF GraphInv
  <2> QED BY <2>9, <2>10, <2>11, <2>12, Zenon DEF GraphInv
<1> QED BY <1>2, <1>3, RejectedInv, Zenon DEF ExtractRequirements

LEMMA CollectEvidenceInv ==
    ASSUME GraphInv, CollectEvidence
    PROVE  GraphInv'
<1> DEFINE next == [state EXCEPT !.evidence = IF @ # {} THEN @ ELSE ReqsOf(state.reqs)]
<1>1. pc = "collect_evidence" /\ pc' = "plan" /\ state' = next
      /\ stored' = stored /\ UNCHANGED <<stored, given>>
  BY DEF CollectEvidence, Goto, Running
<1>2. DOMAIN state = DOMAIN NewWorkflow
  BY Zenon DEF GraphInv, PlansInv, Typed
<1>3. /\ Keeps(state, next)
      /\ next.evidence = IF state.evidence # {} THEN state.evidence ELSE ReqsOf(state.reqs)
  BY <1>2 DEF Keeps, NewWorkflow
<1> HIDE DEF next
<1>4. pc \in Early /\ pc' \in Collected /\ pc' \notin Early
      /\ pc' \notin (Accepted \ {"execute_plan"}) \cup {"update_memory"}
  BY <1>1 DEF Early, Collected, Accepted
<1>5. Forward
  BY <1>1, <1>4 DEF Forward
<1>6. state'.evidence = ReqsOf(state'.reqs)
  <2>1. state.evidence \in {{}, ReqsOf(state.reqs)}
    BY <1>4, Zenon DEF GraphInv, EvidenceInv
  <2>2. state'.reqs = state.reqs
    BY <1>1, <1>3, Zenon DEF Keeps
  <2> QED BY <1>1, <1>3, <2>1, <2>2
<1>7. PlansInv' /\ TrustInv'
  BY <1>1, <1>3, <1>5, KeepsInv, Zenon DEF GraphInv
<1>8. EvidenceInv'
  BY <1>1, <1>4, <1>6, Zenon DEF GraphInv, EvidenceInv
<1>9. AdviceInv'
  BY <1>1, <1>4, NoAdviceYet, Zenon DEF GraphInv
<1> QED BY <1>7, <1>8, <1>9, Zenon DEF GraphInv

-----------------------------------------------------------------------------
(* The planner, the validation and the revision *)

LEMMA CreatePlanInv ==
    ASSUME GraphAssumption, GraphInv, CreatePlan
    PROVE  GraphInv'
<1>1. Typed(state) /\ NoTaskWithoutReqs(state) /\ pc = "plan"
  BY Zenon DEF GraphInv, PlansInv, CreatePlan
<1>2. DOMAIN state = DOMAIN NewWorkflow
  BY <1>1, Zenon DEF Typed
<1>3. /\ pc' = "validate_plan" /\ stored' = stored
      /\ (~given' <=> ~given) /\ given' = given /\ (Trusted' <=> Trusted)
      /\ DOMAIN state' = DOMAIN NewWorkflow /\ state'.reqs = state.reqs
      /\ state'.cand = PlanFor(state) /\ state'.tasks = Materialised(PlanFor(state))
      /\ state'.evidence = state.evidence /\ state'.revisions = state.revisions
  BY <1>2 DEF CreatePlan, Goto, Running, NewWorkflow, Trusted
<1>4. /\ PlanFor(state) \in Seq(CandidateTask)
      /\ Valid(PlanFor(state), state.reqs) \/ PlanFor(state) = state.cand
      /\ state.reqs = <<>> => PlanFor(state) \in {<<>>, state.cand}
      /\ Buildable(state) => Valid(PlanFor(state), state.reqs)
  BY <1>1, PlanForChoice, PlanForPasses, Zenon
<1>5. Typed(state') /\ Planned(state')
  BY <1>1, <1>3, <1>4, Zenon DEF Typed, Planned
<1>6. NoTaskWithoutReqs(state')
  BY <1>1, <1>3, <1>4 DEF NoTaskWithoutReqs
<1>7. Buildable(state) => Passes(state')
  BY <1>3, <1>4, Zenon DEF Passes
<1>8. Passes(state') \/ AsStored(state', stored) \/ OnceRevised(state', stored)
  <2>1. CASE PlanFor(state) # state.cand
    BY <1>3, <1>4, <2>1, Zenon DEF Passes
  <2>2. CASE PlanFor(state) = state.cand
    <3>1. AsStored(state, stored) => AsStored(state', stored)
      BY <1>3, <2>2, Zenon DEF AsStored
    <3>2. OnceRevised(state, stored) => OnceRevised(state', stored)
      BY <1>3, <2>2, Zenon DEF OnceRevised
    <3> QED BY <1>1, <1>7, <3>1, <3>2, Zenon DEF GraphInv, PlansInv
  <2> QED BY <2>1, <2>2
<1>9. pc' \in Collected /\ pc' \notin Early /\ pc' \notin Accepted /\ pc \in Collected
      /\ pc' \notin Early \cup {"plan"} /\ pc' \notin {"revise_plan", "plan_failed"}
      /\ pc' \notin {"plan", "revise_plan", "plan_failed", "update_memory"}
      /\ pc' \notin (Accepted \ {"execute_plan"}) \cup {"update_memory"}
  BY <1>1, <1>3 DEF Early, Collected, Accepted
<1>10. PlansInv'
  BY <1>3, <1>5, <1>6, <1>8, <1>9, Zenon DEF GraphInv, PlansInv
<1>11. TrustInv'
  <2>1. Trusted => Passes(state')
    BY <1>1, <1>7, Zenon DEF GraphInv, TrustInv
  <2> QED BY <1>3, <1>9, <2>1, Zenon DEF GraphInv, TrustInv
<1>12. EvidenceInv'
  BY <1>3, <1>9, EvidenceKept, Zenon DEF GraphInv
<1>13. AdviceInv'
  BY <1>3, <1>9, NoAdviceYet, Zenon DEF GraphInv
<1> QED BY <1>10, <1>11, <1>12, <1>13, Zenon DEF GraphInv

LEMMA ValidatePlanInv ==
    ASSUME GraphAssumption, GraphInv, ValidatePlan
    PROVE  GraphInv'
<1>1. /\ Typed(state) /\ NoTaskWithoutReqs(state) /\ pc = "validate_plan"
      /\ Planned(state)
  BY Zenon DEF GraphInv, PlansInv, ValidatePlan
<1>2. DOMAIN state = DOMAIN NewWorkflow
  BY <1>1, Zenon DEF Typed
<1>3. /\ stored' = stored
      /\ (~given' <=> ~given) /\ given' = given /\ (Trusted' <=> Trusted)
      /\ DOMAIN state' = DOMAIN NewWorkflow /\ state'.reqs = state.reqs
      /\ state'.cand = state.cand /\ state'.tasks = state.tasks
      /\ state'.evidence = state.evidence /\ state'.revisions = state.revisions
  BY <1>2 DEF ValidatePlan, Goto, Running, NewWorkflow, Trusted
<1>4. \/ Passes(state) /\ pc' = "execute_plan" /\ state'.verdict = "valid"
      \/ /\ ~Passes(state) /\ state'.verdict = "invalid"
         /\ \/ state.revisions < MaxPlanRevisions /\ pc' = "revise_plan"
            \/ pc' = "plan_failed"
  BY <1>2 DEF ValidatePlan, Goto, NewWorkflow, Passes
<1>5. /\ Typed(state') /\ NoTaskWithoutReqs(state') /\ Planned(state')
      /\ Passes(state') <=> Passes(state)
  BY <1>1, <1>3, Zenon DEF Typed, NoTaskWithoutReqs, Planned, Passes
<1>6. AsStored(state, stored) => AsStored(state', stored)
  BY <1>3, Zenon DEF AsStored
<1>7. OnceRevised(state, stored) => OnceRevised(state', stored)
  BY <1>3, Zenon DEF OnceRevised
<1>8. pc \in Collected /\ pc' \in Collected /\ pc' \notin Early
      /\ pc' \notin (Accepted \ {"execute_plan"}) \cup {"update_memory"}
      /\ pc' \notin {"plan", "validate_plan", "update_memory"}
      /\ pc' \notin Early \cup {"plan"}
  BY <1>1, <1>4 DEF Early, Collected, Accepted
<1>9. EvidenceInv' /\ AdviceInv'
  BY <1>3, <1>8, EvidenceKept, NoAdviceYet, Zenon DEF GraphInv
<1>10. Trusted => Passes(state)
  BY <1>1, Zenon DEF GraphInv, TrustInv
<1>11. CASE Passes(state) /\ pc' = "execute_plan" /\ state'.verdict = "valid"
  <2>1. pc' \notin {"revise_plan", "plan_failed"}
    BY <1>11
  <2>2. Checked(state')
    BY <1>5, <1>11, Zenon DEF Checked
  <2>3. PlansInv'
    BY <1>3, <1>5, <1>8, <1>11, <2>1, <2>2, Zenon DEF GraphInv, PlansInv
  <2>4. TrustInv'
    BY <1>3, <1>8, <2>1, Zenon DEF GraphInv, TrustInv
  <2> QED BY <1>9, <2>3, <2>4, Zenon DEF GraphInv
<1>12. CASE ~Passes(state) /\ state'.verdict = "invalid" /\ pc' \in {"revise_plan", "plan_failed"}
  <2>1. pc' \notin Accepted /\ (pc' = "revise_plan" => state'.revisions < MaxPlanRevisions)
    BY <1>3, <1>4, <1>12 DEF Accepted
  <2>2. ~Trusted' /\ ~Trusted
    BY <1>3, <1>10, <1>12, Zenon
  <2>3. AsStored(state', stored) \/ OnceRevised(state', stored)
    BY <1>1, <1>6, <1>7, <1>12, Zenon DEF GraphInv, PlansInv
  <2>4. state'.revisions < MaxPlanRevisions => AsStored(state', stored)
    <3>1. state'.revisions < MaxPlanRevisions => ~(state'.revisions >= 1)
      BY <1>1, <1>3 DEF Typed, MaxPlanRevisions
    <3> QED BY <2>3, <3>1, Zenon DEF OnceRevised
  <2>5. state'.reqs # <<>>
    <3> SUFFICES ASSUME state'.reqs = <<>> PROVE FALSE
      OBVIOUS
    <3>1. state.cand = <<>>
      BY <1>1, <1>3, Zenon DEF NoTaskWithoutReqs, Planned, GraphAssumption
    <3> QED BY <1>3, <1>12, <3>1, NothingPasses, Zenon DEF Passes
  <2>6. PlansInv'
    BY <1>3, <1>5, <1>8, <1>12, <2>1, <2>3, <2>4, <2>5, Zenon DEF GraphInv, PlansInv
  <2>7. TrustInv'
    BY <1>3, <2>2, Zenon DEF GraphInv, TrustInv
  <2> QED BY <1>9, <2>6, <2>7, Zenon DEF GraphInv
<1> QED BY <1>4, <1>11, <1>12

LEMMA RevisePlanInv ==
    ASSUME GraphAssumption, GraphInv, RevisePlan
    PROVE  GraphInv'
<1>1. /\ Typed(state) /\ pc = "revise_plan" /\ Planned(state) /\ AsStored(state, stored)
      /\ state.reqs # <<>>
  BY Zenon DEF GraphInv, PlansInv, RevisePlan
<1>2. DOMAIN state = DOMAIN NewWorkflow
  BY <1>1, Zenon DEF Typed
<1>3. /\ pc' = "plan" /\ stored' = stored
      /\ (~given' <=> ~given) /\ given' = given /\ (Trusted' <=> Trusted)
      /\ DOMAIN state' = DOMAIN NewWorkflow /\ state'.reqs = state.reqs
      /\ state'.cand = Revised(state.cand, state.reqs)
      /\ state'.evidence = state.evidence /\ state'.revisions = state.revisions + 1
  BY <1>2 DEF RevisePlan, Goto, Running, NewWorkflow, Trusted
<1>4. /\ state.cand \in Seq(CandidateTask) /\ state.reqs \in Seq(Requirement)
      /\ state.revisions \in Nat
  BY <1>1, Zenon DEF Planned, Typed
<1>5. Typed(state')
  <2>1. Revised(state.cand, state.reqs) \in Seq(CandidateTask)
    BY <1>4, RevisedType, Zenon
  <2>2. state.revisions + 1 \in Nat /\ state.revisions + 1 >= 1
    BY <1>4
  <2> QED BY <1>3, <1>4, <2>1, <2>2, Zenon DEF Typed
<1>6. OnceRevised(state', stored)
  <2>1. state.reqs = stored.reqs /\ state.cand = stored.cand
    BY <1>1, Zenon DEF AsStored
  <2>2. state'.revisions >= 1
    BY <1>3, <1>4
  <2> QED BY <1>3, <1>4, <2>1, <2>2, Zenon DEF OnceRevised
<1>7. NoTaskWithoutReqs(state')
  BY <1>1, <1>3, Zenon DEF NoTaskWithoutReqs
<1>8. pc \in Collected /\ pc' \in Collected /\ pc' \notin Early /\ pc' \notin Accepted
      /\ pc' \notin (Accepted \ {"execute_plan"}) \cup {"update_memory"}
      /\ pc' \notin {"validate_plan", "revise_plan", "plan_failed", "update_memory"}
  BY <1>1, <1>3 DEF Early, Collected, Accepted
<1>9. EvidenceInv' /\ AdviceInv'
  BY <1>3, <1>8, EvidenceKept, NoAdviceYet, Zenon DEF GraphInv
<1>10. PlansInv'
  BY <1>3, <1>5, <1>6, <1>7, <1>8, Zenon DEF GraphInv, PlansInv
<1>11. TrustInv'
  <2>1. ~Trusted'
    BY <1>1, <1>3, Zenon DEF GraphInv, TrustInv
  <2> QED BY <1>3, <2>1, Zenon DEF GraphInv, TrustInv
<1> QED BY <1>9, <1>10, <1>11, Zenon DEF GraphInv

LEMMA PlanFailedInv ==
    ASSUME GraphInv, PlanFailed
    PROVE  GraphInv'
<1>1. /\ pc = "plan_failed" /\ pc' = "update_memory" /\ state' = state
      /\ stored' = stored /\ UNCHANGED <<stored, given>>
  BY DEF PlanFailed, Goto, Running
<1>2. Forward /\ Keeps(state, state')
  BY <1>1, Zenon DEF Forward, Keeps
<1>3. pc \in Collected /\ pc' \in Collected
      /\ pc' \notin Accepted \ {"execute_plan"} /\ pc' # "recommend"
  BY <1>1 DEF Collected, Accepted
<1>4. PlansInv' /\ TrustInv'
  BY <1>2, <1>1, KeepsInv, Zenon DEF GraphInv
<1>5. EvidenceInv'
  BY <1>1, <1>3, EvidenceKept, Zenon DEF GraphInv
<1>6. state'.verdict = "invalid" /\ "invalid" # "valid"
  BY <1>1, Zenon DEF GraphInv, PlansInv
<1>7. AdviceInv'
  BY <1>1, <1>3, <1>6, Zenon DEF GraphInv, AdviceInv
<1> QED BY <1>4, <1>5, <1>7, Zenon DEF GraphInv

-----------------------------------------------------------------------------
(* From the validation to the recommendation *)

\* The least of a set of places.
Least(places) == CHOOSE i \in places : \A j \in places : i <= j

LEMMA LeastInSet ==
    ASSUME NEW places, places \subseteq Nat, places # {}
    PROVE  Least(places) \in places
<1>1. \E i \in places : \A j \in places : i <= j
  BY LeastNumber
<1> QED BY <1>1, Zenon DEF Least

\* What is to be done next is a matter of the tasks and the completed ids.
LEMMA SameWork ==
    ASSUME NEW s, NEW t, t.tasks = s.tasks, t.completed = s.completed
    PROVE  CurrentTask(t) = CurrentTask(s) /\ BlockedTasks(t) = BlockedTasks(s)
<1>1. Open(t) = Open(s)
  BY Zenon DEF Open
<1>2. FirstOpen(t) = FirstOpen(s)
  <2>1. FirstOpen(t) = t.tasks[Least(Open(t))].id /\ FirstOpen(s) = s.tasks[Least(Open(s))].id
    BY Zenon DEF FirstOpen, Least
  <2> QED BY <1>1, <2>1, Zenon
<1>3. BlockedTasks(t) = BlockedTasks(s)
  BY DEF BlockedTasks
<1> QED BY <1>1, <1>2, <1>3, Zenon DEF CurrentTask

\* The tasks of a plan that passed: typed, distinct, and closed.
LEMMA CheckedTasks ==
    ASSUME NEW s, Checked(s)
    PROVE  /\ Open(s) \subseteq Nat /\ Open(s) \subseteq DOMAIN s.tasks
           /\ DOMAIN Graph(s.tasks) = Ids(s.tasks)
           /\ \A i \in DOMAIN s.tasks :
                /\ s.tasks[i].id \in Int /\ s.tasks[i].id \in Ids(s.tasks)
                /\ Graph(s.tasks)[s.tasks[i].id] = s.tasks[i].deps
           /\ UniqueIds(s.tasks) /\ Closed(Graph(s.tasks)) /\ Acyclic(Graph(s.tasks))
<1>1. /\ s.tasks = Materialised(s.cand) /\ Valid(s.cand, s.reqs)
      /\ s.cand \in Seq(CandidateTask)
  BY Zenon DEF Checked, Planned, Passes
<1>2. Len(s.cand) \in Nat /\ DOMAIN s.cand = 1..Len(s.cand)
  BY <1>1
<1>3. /\ UniqueIds(s.tasks) /\ Closed(Graph(s.tasks)) /\ Acyclic(Graph(s.tasks))
  BY <1>1, <1>2, ValidIsSound, Zenon
<1>4. DOMAIN s.tasks = 1..Len(s.cand) /\ \A i \in 1..Len(s.cand) : s.tasks[i].id = s.cand[i].id
  BY <1>1, <1>2 DEF Materialised
<1>5. /\ DOMAIN Graph(s.tasks) = Ids(s.tasks)
      /\ \A i \in DOMAIN s.tasks : Graph(s.tasks)[s.tasks[i].id] = s.tasks[i].deps
  BY <1>2, <1>3, <1>4, GraphIsExact, Zenon
<1>6. ASSUME NEW i \in DOMAIN s.tasks
      PROVE  s.tasks[i].id \in Int /\ s.tasks[i].id \in Ids(s.tasks)
  <2>1. s.cand[i] \in CandidateTask
    BY <1>1, <1>2, <1>4
  <2>2. s.tasks[i].id \in Int
    BY <1>4, <2>1 DEF CandidateTask
  <2> QED BY <2>2, Zenon DEF Ids
<1>7. Open(s) \subseteq DOMAIN s.tasks
  BY DEF Open
<1>8. Open(s) \subseteq Nat
  BY <1>2, <1>4, <1>7
<1> QED BY <1>3, <1>5, <1>6, <1>7, <1>8

\* Whatever recommendation_node says of a plan that passed can be followed.
LEMMA AdviceFits ==
    ASSUME NoTask \notin Int, NEW s, Checked(s),
           s.current = CurrentTask(s), s.blocked = BlockedTasks(s),
           NEW t, t.tasks = s.tasks, t.completed = s.completed, t.rec \in Recommendations(s)
    PROVE  Fits(t)
<1> DEFINE deps == Graph(s.tasks)
           open == Ids(s.tasks) \ s.completed
<1>1. /\ Open(s) \subseteq Nat /\ Open(s) \subseteq DOMAIN s.tasks
      /\ DOMAIN deps = Ids(s.tasks)
      /\ \A i \in DOMAIN s.tasks :
           /\ s.tasks[i].id \in Int /\ s.tasks[i].id \in Ids(s.tasks)
           /\ deps[s.tasks[i].id] = s.tasks[i].deps
      /\ UniqueIds(s.tasks) /\ Closed(deps) /\ Acyclic(deps)
  BY CheckedTasks, Zenon
<1>2. \A i \in DOMAIN s.tasks :
        /\ s.tasks[i].deps \subseteq Ids(s.tasks)
        /\ i \in Open(s) <=> s.tasks[i].id \in open
        /\ s.tasks[i].id \in s.blocked <=> ~(s.tasks[i].deps \subseteq s.completed)
  <2> TAKE i \in DOMAIN s.tasks
  <2>1. s.tasks[i].deps \subseteq Ids(s.tasks)
    BY <1>1, Zenon DEF Closed
  <2>2. i \in Open(s) <=> s.tasks[i].id \in open
    BY <1>1, Zenon DEF Open
  <2>3. s.tasks[i].id \in s.blocked <=> ~(s.tasks[i].deps \subseteq s.completed)
    <3>1. ASSUME s.tasks[i].id \in s.blocked PROVE ~(s.tasks[i].deps \subseteq s.completed)
      <4>1. PICK j \in DOMAIN s.tasks :
              ~(s.tasks[j].deps \subseteq s.completed) /\ s.tasks[j].id = s.tasks[i].id
        BY <3>1 DEF BlockedTasks
      <4>2. i = j
        BY <1>1, <4>1, Zenon DEF UniqueIds
      <4> QED BY <4>1, <4>2
    <3>2. ASSUME ~(s.tasks[i].deps \subseteq s.completed) PROVE s.tasks[i].id \in s.blocked
      BY <3>2 DEF BlockedTasks
    <3> QED BY <3>1, <3>2
  <2> QED BY <2>1, <2>2, <2>3
<1>3. \A id \in open : \E i \in Open(s) : s.tasks[i].id = id
  BY <1>1, <1>2, Zenon DEF Ids
<1>4. CASE s.current \in s.blocked
  <2>1. PICK by \in Unfinished(s, s.current) :
          t.rec = Advice("await_dependency", s.current, by)
    BY <1>4, Zenon DEF Recommendations
  <2>2. s.current \in Int
    <3>1. \E j \in DOMAIN s.tasks : s.current = s.tasks[j].id
      BY <1>4 DEF BlockedTasks
    <3> QED BY <1>1, <3>1
  <2>3. Open(s) # {} /\ s.current = s.tasks[Least(Open(s))].id
    BY <2>2, Zenon DEF CurrentTask, FirstOpen, Least
  <2>4. Least(Open(s)) \in Open(s) /\ Least(Open(s)) \in DOMAIN s.tasks
    BY <1>1, <2>3, LeastInSet, Zenon
  <2>5. s.current \in open
    BY <1>2, <2>3, <2>4, Zenon
  <2>6. by \in deps[s.current] \cap open
    <3>1. by \in deps[s.current] /\ by \notin s.completed
      BY Zenon DEF Unfinished
    <3>2. deps[s.current] \subseteq Ids(s.tasks)
      BY <1>1, <2>5, Zenon DEF Closed
    <3> QED BY <3>1, <3>2
  <2>7. t.rec.action = "await_dependency" /\ t.rec.task = s.current /\ t.rec.by = by
    BY <2>1 DEF Advice
  <2> HIDE DEF deps, open
  <2> QED BY <2>5, <2>6, <2>7, Zenon DEF Fits, deps, open
<1>5. CASE s.current \notin s.blocked /\ Priority(s) = {}
  <2>1. t.rec = Advice("no_action", s.current, NoTask)
    BY <1>5, Zenon DEF Recommendations
  <2>2. open = {}
    <3> SUFFICES ASSUME open # {} PROVE FALSE
      OBVIOUS
    <3>1. PICK id \in open : deps[id] \cap open = {}
      <4>1. open \in SUBSET DOMAIN deps
        BY <1>1
      <4> HIDE DEF deps, open
      <4> QED BY <1>1, <4>1, Zenon DEF Acyclic
    <3>2. PICK i \in Open(s) : s.tasks[i].id = id
      BY <1>3, Zenon
    <3>3. s.tasks[i].deps \cap open = {} /\ s.tasks[i].deps \subseteq Ids(s.tasks)
      BY <1>1, <1>2, <3>1, <3>2
    <3>4. s.tasks[i].deps \subseteq s.completed
      BY <3>3
    <3>5. i \in Priority(s)
      BY <1>1, <1>2, <3>4, Zenon DEF Priority
    <3> QED BY <1>5, <3>5
  <2>3. t.rec.action = "no_action"
    BY <2>1 DEF Advice
  <2> QED BY <2>2, <2>3, Zenon DEF Fits
<1>6. CASE s.current \notin s.blocked /\ Priority(s) # {}
  <2> DEFINE first == Least(Priority(s))
  <2>1. t.rec = Advice("start_task", s.tasks[first].id, NoTask)
    BY <1>6, Zenon DEF Recommendations, Least
  <2>2. first \in Priority(s)
    <3>1. Priority(s) \subseteq Nat
      BY <1>1, Zenon DEF Priority
    <3> QED BY <1>6, <3>1, LeastInSet, Zenon
  <2> HIDE DEF first
  <2>3. first \in Open(s) /\ first \in DOMAIN s.tasks /\ s.tasks[first].id \notin s.blocked
    BY <1>1, <2>2, Zenon DEF Priority
  <2>4. s.tasks[first].id \in open /\ s.tasks[first].deps \subseteq s.completed
        /\ deps[s.tasks[first].id] = s.tasks[first].deps
    BY <1>1, <1>2, <2>3, Zenon
  <2>5. deps[s.tasks[first].id] \cap open = {}
    BY <2>4
  <2>6. t.rec.action = "start_task" /\ t.rec.task = s.tasks[first].id
    BY <2>1 DEF Advice
  <2> HIDE DEF deps, open
  <2> QED BY <2>4, <2>5, <2>6, Zenon DEF Fits, deps, open
<1> QED BY <1>4, <1>5, <1>6, Zenon

\* A node after the validation keeps plan, requirements and evidence.
LEMMA LateNode ==
    ASSUME GraphInv, pc \in Accepted, NEW node \in Accepted \cup {"update_memory"}, NEW next,
           Goto(node, next), Keeps(state, next), next.evidence = state.evidence
    PROVE  /\ pc' = node /\ state' = next /\ stored' = stored
           /\ PlansInv' /\ TrustInv' /\ EvidenceInv'
<1>1. pc' = node /\ state' = next /\ stored' = stored /\ UNCHANGED <<stored, given>>
  BY DEF Goto, Running
<1>2. pc \in Collected /\ pc' \in Collected
  BY <1>1 DEF Collected
<1>3. Forward /\ Keeps(state, state') /\ state'.evidence = state.evidence
  BY <1>1 DEF Forward
<1>4. state'.reqs = state.reqs
  BY <1>3, Zenon DEF Keeps
<1>5. PlansInv' /\ TrustInv'
  BY <1>1, <1>3, KeepsInv, Zenon DEF GraphInv
<1>6. EvidenceInv'
  BY <1>1, <1>2, <1>3, <1>4, EvidenceKept, Zenon DEF GraphInv
<1> QED BY <1>1, <1>5, <1>6

\* On the way to the recommendation the current task stays.
LEMMA AdviceKept ==
    ASSUME GraphInv, stored' = stored, state'.tasks = state.tasks,
           state'.completed = state.completed, pc' \in Accepted \ {"execute_plan"},
           state'.current = CurrentTask(state),
           pc' = "recommend" => state'.blocked = BlockedTasks(state)
    PROVE  AdviceInv'
<1>1. /\ CurrentTask(state') = CurrentTask(state)
      /\ BlockedTasks(state') = BlockedTasks(state)
  BY SameWork, Zenon
<1>2. pc' # "update_memory"
  BY DEF Accepted
<1> QED BY <1>1, <1>2, Zenon DEF GraphInv, AdviceInv

LEMMA LateNodes ==
    ASSUME GraphInv, ExecutePlan \/ OptimizePlan \/ AnalyzeState \/ DetectBlockers
    PROVE  GraphInv'
<1>1. DOMAIN state = DOMAIN NewWorkflow
  BY Zenon DEF GraphInv, PlansInv, Typed
<1>2. CASE ExecutePlan
  <2> DEFINE next == [state EXCEPT !.current = CurrentTask(state)]
  <2>1. pc = "execute_plan" /\ Goto("optimize_plan", next)
    BY <1>2, Zenon DEF ExecutePlan, CurrentTask
  <2>2. /\ Keeps(state, next) /\ next.evidence = state.evidence
        /\ next.completed = state.completed /\ next.tasks = state.tasks
        /\ next.current = CurrentTask(state)
    BY <1>1 DEF Keeps, NewWorkflow
  <2>3. pc \in Accepted /\ "optimize_plan" \in Accepted \ {"execute_plan"}
    BY <2>1 DEF Accepted
  <2> HIDE DEF next
  <2>4. /\ pc' = "optimize_plan" /\ state' = next /\ stored' = stored
        /\ PlansInv' /\ TrustInv' /\ EvidenceInv'
    BY <2>1, <2>2, <2>3, LateNode
  <2>5. AdviceInv'
    BY <2>2, <2>3, <2>4, AdviceKept
  <2> QED BY <2>4, <2>5, Zenon DEF GraphInv
<1>3. ASSUME pc \in Accepted \ {"execute_plan"}
      PROVE  state.current = CurrentTask(state)
  BY <1>3, Zenon DEF GraphInv, AdviceInv
<1>4. CASE OptimizePlan
  <2> DEFINE next == [state EXCEPT !.path = PathOf(state), !.chains = ChainsOf(state)]
  <2>1. pc = "optimize_plan" /\ Goto("state_analysis", next)
    BY <1>4, Zenon DEF OptimizePlan
  <2>2. /\ Keeps(state, next) /\ next.evidence = state.evidence
        /\ next.completed = state.completed /\ next.tasks = state.tasks
        /\ next.current = state.current
    BY <1>1 DEF Keeps, NewWorkflow
  <2>3. pc \in Accepted \ {"execute_plan"} /\ "state_analysis" \in Accepted \ {"execute_plan"}
    BY <2>1 DEF Accepted
  <2> HIDE DEF next
  <2>4. /\ pc' = "state_analysis" /\ state' = next /\ stored' = stored
        /\ PlansInv' /\ TrustInv' /\ EvidenceInv'
    BY <2>1, <2>2, <2>3, LateNode
  <2>5. AdviceInv'
    BY <1>3, <2>2, <2>3, <2>4, AdviceKept
  <2> QED BY <2>4, <2>5, Zenon DEF GraphInv
<1>5. CASE AnalyzeState
  <2> DEFINE next == [state EXCEPT !.pending = {state.tasks[i].id : i \in Open(state)}]
  <2>1. pc = "state_analysis" /\ Goto("detect_blockers", next)
    BY <1>5, Zenon DEF AnalyzeState
  <2>2. /\ Keeps(state, next) /\ next.evidence = state.evidence
        /\ next.completed = state.completed /\ next.tasks = state.tasks
        /\ next.current = state.current
    BY <1>1 DEF Keeps, NewWorkflow
  <2>3. pc \in Accepted \ {"execute_plan"} /\ "detect_blockers" \in Accepted \ {"execute_plan"}
    BY <2>1 DEF Accepted
  <2> HIDE DEF next
  <2>4. /\ pc' = "detect_blockers" /\ state' = next /\ stored' = stored
        /\ PlansInv' /\ TrustInv' /\ EvidenceInv'
    BY <2>1, <2>2, <2>3, LateNode
  <2>5. AdviceInv'
    BY <1>3, <2>2, <2>3, <2>4, AdviceKept
  <2> QED BY <2>4, <2>5, Zenon DEF GraphInv
<1>6. CASE DetectBlockers
  <2> DEFINE next == [state EXCEPT !.blocked = BlockedTasks(state)]
  <2>1. pc = "detect_blockers" /\ Goto("recommend", next)
    BY <1>6, Zenon DEF DetectBlockers, BlockedTasks
  <2>2. /\ Keeps(state, next) /\ next.evidence = state.evidence
        /\ next.completed = state.completed /\ next.tasks = state.tasks
        /\ next.current = state.current /\ next.blocked = BlockedTasks(state)
    BY <1>1 DEF Keeps, NewWorkflow
  <2>3. pc \in Accepted \ {"execute_plan"} /\ "recommend" \in Accepted \ {"execute_plan"}
    BY <2>1 DEF Accepted
  <2> HIDE DEF next
  <2>4. /\ pc' = "recommend" /\ state' = next /\ stored' = stored
        /\ PlansInv' /\ TrustInv' /\ EvidenceInv'
    BY <2>1, <2>2, <2>3, LateNode
  <2>5. AdviceInv'
    BY <1>3, <2>2, <2>3, <2>4, AdviceKept
  <2> QED BY <2>4, <2>5, Zenon DEF GraphInv
<1> QED BY <1>2, <1>4, <1>5, <1>6

LEMMA RecommendInv ==
    ASSUME GraphAssumption, GraphInv, Recommend
    PROVE  GraphInv'
<1>1. pc = "recommend"
  BY DEF Recommend
<1>2. PICK rec \in Recommendations(state) : Goto("update_memory", [state EXCEPT !.rec = rec])
  BY Zenon DEF Recommend
<1> DEFINE next == [state EXCEPT !.rec = rec]
<1>3. DOMAIN state = DOMAIN NewWorkflow
  BY Zenon DEF GraphInv, PlansInv, Typed
<1>4. /\ Keeps(state, next) /\ next.evidence = state.evidence
      /\ next.completed = state.completed /\ next.tasks = state.tasks /\ next.rec = rec
  BY <1>3 DEF Keeps, NewWorkflow
<1>5. Goto("update_memory", next)
  BY <1>2
<1> HIDE DEF next
<1>6. pc \in Accepted /\ pc \in Accepted \ {"execute_plan"}
  BY <1>1 DEF Accepted
<1>7. /\ pc' = "update_memory" /\ state' = next /\ stored' = stored
      /\ PlansInv' /\ TrustInv' /\ EvidenceInv'
  BY <1>4, <1>5, <1>6, LateNode
<1>8. Fits(state')
  <2>1. Checked(state) /\ state.current = CurrentTask(state) /\ state.blocked = BlockedTasks(state)
    BY <1>1, <1>6, Zenon DEF GraphInv, PlansInv, AdviceInv
  <2>2. NoTask \notin Int
    BY Zenon DEF GraphAssumption
  <2>3. Fits(next)
    BY <1>4, <2>1, <2>2, AdviceFits
  <2> QED BY <1>7, <2>3, Zenon
<1>9. pc' \notin Accepted \ {"execute_plan"} /\ pc' # "recommend"
  BY <1>7 DEF Accepted
<1>10. AdviceInv'
  BY <1>7, <1>8, <1>9, Zenon DEF GraphInv, AdviceInv
<1> QED BY <1>7, <1>10, Zenon DEF GraphInv

\* The end of a run: what it knows is stored.
LEMMA UpdateMemoryInv ==
    ASSUME GraphInv, UpdateMemory
    PROVE  GraphInv'
<1> DEFINE kept == [state EXCEPT !.incoming = {}]
<1>1. DOMAIN state = DOMAIN NewWorkflow
  BY Zenon DEF GraphInv, PlansInv, Typed
<1>2. /\ pc = "update_memory" /\ pc' = "idle" /\ state' = NewWorkflow /\ stored' = kept
      /\ (~given' <=> ~given) /\ given' = given
  BY DEF UpdateMemory
<1>3. /\ Keeps(state, kept) /\ kept.evidence = state.evidence
      /\ kept.completed = state.completed /\ kept.rec = state.rec
  BY <1>1 DEF Keeps, NewWorkflow
<1> HIDE DEF kept
<1>4. kept.tasks = state.tasks /\ kept.verdict = state.verdict /\ kept.reqs = state.reqs
  BY <1>3, Zenon DEF Keeps
<1>5. /\ Typed(state) /\ NoTaskWithoutReqs(state)
      /\ state.verdict = "valid" => Checked(state) /\ Fits(state)
      /\ given \in BOOLEAN
  BY <1>2, Zenon DEF GraphInv, PlansInv, AdviceInv, TrustInv
<1>6. Typed(kept) /\ NoTaskWithoutReqs(kept) /\ (Checked(state) => Checked(kept))
  BY <1>3, <1>5, KeptPlan, Zenon
<1>7. Fits(state) => Fits(kept)
  BY <1>3, <1>4, Zenon DEF Fits
<1>8. ~given => kept.verdict = "valid"
  BY <1>2, <1>4, Zenon DEF GraphInv, TrustInv, Trusted
<1>9. kept.evidence = ReqsOf(kept.reqs)
  <2>1. pc \in Collected
    BY <1>2 DEF Collected
  <2> QED BY <1>3, <1>4, <2>1, Zenon DEF GraphInv, EvidenceInv
<1> QED BY <1>2, <1>4, <1>5, <1>6, <1>7, <1>8, <1>9, IdleInv, Zenon

-----------------------------------------------------------------------------
(* The invariant holds *)

LEMMA GraphInitially ==
    ASSUME GraphAssumption, Init
    PROVE  GraphInv
<1>1. pc \notin Early /\ pc \notin Collected /\ pc \notin Accepted
      /\ pc \notin Early \cup {"plan"} /\ pc \notin Accepted \ {"execute_plan"}
      /\ pc \notin {"plan", "validate_plan", "revise_plan", "plan_failed", "update_memory",
                     "recommend"}
  BY DEF Init, Early, Collected, Accepted
<1>2. /\ given \in BOOLEAN /\ state = NewWorkflow
      /\ Typed(stored) /\ NoTaskWithoutReqs(stored) /\ stored.verdict = "none"
      /\ stored.evidence = ReqsOf(stored.reqs)
      /\ ~given => stored.cand = NoPlan
  <2>1. CASE given = FALSE /\ stored = NewWorkflow
    <3>1. ReqsOf(<<>>) = {}
      BY DEF ReqsOf
    <3> QED BY <2>1, <3>1, NewWorkflowTyped DEF Init
  <2>2. ASSUME given = TRUE, NEW plan \in GivenPlans, stored = Stored(plan)
        PROVE  /\ given \in BOOLEAN /\ state = NewWorkflow
               /\ Typed(stored) /\ NoTaskWithoutReqs(stored) /\ stored.verdict = "none"
               /\ stored.evidence = ReqsOf(stored.reqs)
               /\ ~given => stored.cand = NoPlan
    <3>1. /\ DOMAIN stored = DOMAIN NewWorkflow
          /\ stored.reqs = plan.reqs /\ stored.evidence = ReqsOf(plan.reqs)
          /\ stored.cand = plan.tasks /\ stored.revisions = 0 /\ stored.verdict = "none"
      BY <2>2 DEF Stored, NewWorkflow
    <3>2. plan.reqs \in Seq(Requirement) \ {<<>>} /\ plan.tasks \in Seq(CandidateTask)
      BY Zenon DEF GraphAssumption
    <3>3. Typed(stored)
      BY <3>1, <3>2 DEF Typed
    <3>4. NoTaskWithoutReqs(stored)
      BY <3>1, <3>2, Zenon DEF NoTaskWithoutReqs
    <3> QED BY <2>2, <3>1, <3>3, <3>4 DEF Init
  <2> QED BY <2>1, <2>2, Zenon DEF Init
<1>3. stored.verdict # "valid"
  BY <1>2
<1>4. PlansInv
  BY <1>1, <1>2, <1>3, NewWorkflowTyped, Zenon DEF PlansInv
<1>5. TrustInv
  BY <1>1, <1>2, Zenon DEF TrustInv
<1>6. EvidenceInv /\ AdviceInv
  BY <1>1, <1>2, <1>3, Zenon DEF EvidenceInv, AdviceInv
<1> QED BY <1>4, <1>5, <1>6, Zenon DEF GraphInv

LEMMA GraphStep ==
    ASSUME GraphAssumption, GraphInv, [Next]_vars
    PROVE  GraphInv'
<1>1. CASE NodeStep
  <2>1. CASE Initialize \/ AnalyzeGoal \/ ExtractProcedures
    BY <2>1, EarlyNodes
  <2>2. CASE ExtractRequirements
    BY <2>2, ExtractRequirementsInv
  <2>3. CASE CollectEvidence
    BY <2>3, CollectEvidenceInv
  <2>4. CASE CreatePlan
    BY <2>4, CreatePlanInv
  <2>5. CASE ValidatePlan
    BY <2>5, ValidatePlanInv
  <2>6. CASE RevisePlan
    BY <2>6, RevisePlanInv
  <2>7. CASE PlanFailed
    BY <2>7, PlanFailedInv
  <2>8. CASE ExecutePlan \/ OptimizePlan \/ AnalyzeState \/ DetectBlockers
    BY <2>8, LateNodes
  <2>9. CASE Recommend
    BY <2>9, RecommendInv
  <2>10. CASE UpdateMemory
    BY <2>10, UpdateMemoryInv
  <2> QED BY <1>1, <2>1, <2>2, <2>3, <2>4, <2>5, <2>6, <2>7, <2>8, <2>9, <2>10, Zenon DEF NodeStep
<1>2. CASE FirstAnalysis \/ Refresh \/ \E ids \in SUBSET Reportable : Continue(ids)
  BY <1>2, RunsBegin
<1>3. CASE NodeRaises
  <2>1. Fail
    BY <1>3, Zenon DEF NodeRaises
  <2> QED BY <2>1, FailInv
<1>4. CASE UNCHANGED vars
  BY <1>4, SameState DEF vars
<1> QED BY <1>1, <1>2, <1>3, <1>4, Zenon DEF Next

LEMMA GraphInvariant == Spec => []GraphInv
<1>1. Init => GraphInv
  BY GraphInitially, GraphAssumption
<1>2. GraphInv /\ [Next]_vars => GraphInv'
  BY GraphStep, GraphAssumption
<1> QED BY <1>1, <1>2, PTL DEF Spec

-----------------------------------------------------------------------------
(* What follows from it *)

\* Work is only ever handed out, and stored as valid, from sound tasks
\* (graph.py: the edge from validate_plan into execute_plan).
THEOREM WorkAlwaysSound == Spec => []WorkIsSound
<1>1. GraphInv => WorkIsSound
  <2> SUFFICES ASSUME GraphInv PROVE WorkIsSound
    OBVIOUS
  <2>1. NoReq \notin ReqIds
    BY GraphAssumption, Zenon DEF GraphAssumption
  <2>2. /\ Typed(state) /\ Typed(stored)
        /\ pc \in Accepted => Checked(state)
        /\ stored.verdict = "valid" => Checked(stored)
    BY Zenon DEF GraphInv, PlansInv
  <2> QED BY <2>1, <2>2, CheckedIsSound, Zenon DEF WorkIsSound
<1> QED BY <1>1, GraphInvariant, PTL

\* Requirements and evidence belong to the same analysis
\* (goal_analysis.py, evidence_collection.py: what a run reuses).
THEOREM EvidenceMatches == Spec => []EvidenceIsForRequirements
<1>1. GraphInv => EvidenceIsForRequirements
  <2> SUFFICES ASSUME GraphInv PROVE EvidenceIsForRequirements
    OBVIOUS
  <2>1. ASSUME pc \in {"plan", "validate_plan", "revise_plan", "plan_failed"} \cup Accepted
        PROVE  pc \in Collected
    BY <2>1 DEF Collected
  <2> QED BY <2>1, Zenon DEF GraphInv, EvidenceInv, EvidenceIsForRequirements
<1> QED BY <1>1, GraphInvariant, PTL

\* The planner's own plans are never revised or rejected, in any run
\* (planning.py, create_plan_node; validation.py, validate_plan).
THEOREM OwnPlansAlwaysPass == Spec => []OwnPlansPass
<1>1. GraphInv => OwnPlansPass
  <2> SUFFICES ASSUME GraphInv, ~given
               PROVE  pc \notin {"revise_plan", "plan_failed"} /\ stored.verdict # "invalid"
    BY Zenon DEF OwnPlansPass
  <2>1. pc \notin {"revise_plan", "plan_failed"}
    BY Zenon DEF GraphInv, TrustInv, Trusted
  <2>2. stored.verdict = "valid" \/ stored.verdict = "none"
    BY Zenon DEF GraphInv, TrustInv
  <2> QED BY <2>1, <2>2
<1> QED BY <1>1, GraphInvariant, PTL

\* A plan that was once executed is not rejected by a later run.
THEOREM ExecutedPlansAlwaysPass == Spec => []ExecutedPlansPass
<1>1. GraphInv => ExecutedPlansPass
  BY Zenon DEF GraphInv, TrustInv, Trusted, ExecutedPlansPass
<1> QED BY <1>1, GraphInvariant, PTL

\* One revision is enough for a plan that is numbered from 1 on and lacks no
\* more than requirements or approvals (plan_validation.py, revise_plan_node).
THEOREM RevisionAlwaysRepairs == Spec => []RevisionRepairs
<1>1. GraphInv => RevisionRepairs
  <2> SUFFICES ASSUME GraphInv, pc \in {"validate_plan", "plan_failed"},
                      state.revisions > stored.revisions,
                      Repairable(stored.cand, stored.reqs)
               PROVE  Passes(state)
    BY Zenon DEF RevisionRepairs, Passes
  <2>1. Typed(state) /\ Typed(stored)
        /\ (Passes(state) \/ AsStored(state, stored) \/ OnceRevised(state, stored))
    BY Zenon DEF GraphInv, PlansInv
  <2>2. ~AsStored(state, stored)
    BY <2>1 DEF AsStored, Typed
  <2>3. CASE OnceRevised(state, stored)
    <3>1. /\ stored.cand \in Seq(CandidateTask) /\ stored.reqs \in Seq(Requirement)
          /\ state.reqs = stored.reqs /\ state.cand = Revised(stored.cand, stored.reqs)
      BY <2>1, <2>3, Zenon DEF OnceRevised, Typed
    <3>2. Valid(Revised(stored.cand, stored.reqs), stored.reqs)
      BY <3>1, RevisionIsValid, Zenon DEF Repairable
    <3> QED BY <3>1, <3>2, Zenon DEF Passes
  <2> QED BY <2>1, <2>2, <2>3
<1> QED BY <1>1, GraphInvariant, PTL

\* A stored recommendation can be followed: what it starts is open and waits
\* for nothing, what it awaits is open and in the way, and "no action" means
\* that all is done (recommendation.py, recommendation_node).
THEOREM RecommendationsFit == Spec => []RecommendationFits
<1>1. GraphInv => RecommendationFits
  BY Zenon DEF GraphInv, AdviceInv, RecommendationFits
<1> QED BY <1>1, GraphInvariant, PTL
-----------------------------------------------------------------------------
(* What is computed on the dependencies *)

\* The search for a cycle is exact on every plan that is ever checked, also
\* with unknown dependencies and repeated ids (validation.py, _cycle_ids).
THEOREM CycleSearchAlwaysExact == Spec => []CycleSearchIsExact
<1>1. GraphInv => CycleSearchIsExact
  <2> SUFFICES ASSUME GraphInv, pc = "validate_plan"
               PROVE  CycleFound(Graph(state.cand)) <=> ~Acyclic(Graph(state.cand))
    BY Zenon DEF CycleSearchIsExact
  <2>1. state.cand \in Seq(CandidateTask)
    BY Zenon DEF GraphInv, PlansInv, Planned
  <2>2. /\ IsFiniteSet(DOMAIN Graph(state.cand))
        /\ \A t \in DOMAIN Graph(state.cand) : IsFiniteSet(Graph(state.cand)[t])
    BY <2>1, PlanGraph, Zenon
  <2> QED BY <2>2, CycleSearch, Zenon
<1> QED BY <1>1, GraphInvariant, PTL

LEMMA EffortType ==
    ASSUME NEW cand \in Seq(CandidateTask)
    PROVE  EffortOf(cand) \in [Ids(cand) -> Nat \ {0}]
<1>1. \A i \in DOMAIN cand : cand[i].effort \in Nat \ {0}
  <2>1. \A i \in DOMAIN cand : cand[i] \in CandidateTask
    OBVIOUS
  <2>2. \A t \in CandidateTask : t.effort \in Nat \ {0}
    BY DEF CandidateTask
  <2> QED BY <2>1, <2>2
<1>2. ASSUME NEW id \in Ids(cand)
      PROVE  cand[CHOOSE i \in DOMAIN cand : cand[i].id = id].effort \in Nat \ {0}
  <2> DEFINE first == CHOOSE i \in DOMAIN cand : cand[i].id = id
  <2>1. \E i \in DOMAIN cand : cand[i].id = id
    BY Zenon DEF Ids
  <2>2. first \in DOMAIN cand
    BY <2>1, Zenon
  <2> HIDE DEF first
  <2>3. cand[first].effort \in Nat \ {0}
    BY <1>1, <2>2, Zenon
  <2> QED BY <2>3 DEF first
<1> HIDE DEF Ids
<1> QED BY <1>2, Zenon DEF EffortOf

\* A plan that passed is finite, closed and without a cycle.
LEMMA CheckedGraph ==
    ASSUME NEW s, Checked(s)
    PROVE  LET dp == Graph(s.cand)
           IN  /\ DOMAIN dp = Ids(s.cand) /\ Ids(s.cand) \subseteq Int
               /\ IsFiniteSet(DOMAIN dp) /\ Closed(dp) /\ Acyclic(dp)
               /\ EffortOf(s.cand) \in [DOMAIN dp -> Nat \ {0}]
<1>1. s.cand \in Seq(CandidateTask) /\ Valid(s.cand, s.reqs)
  BY Zenon DEF Checked, Planned, Passes
<1>2. /\ DOMAIN Graph(s.cand) = Ids(s.cand) /\ Ids(s.cand) \subseteq Int
      /\ IsFiniteSet(Ids(s.cand))
  BY <1>1, PlanGraph, Zenon
<1>3. Closed(Graph(s.cand)) /\ Acyclic(Graph(s.cand))
  BY <1>1, ValidGraph, Zenon
<1>4. EffortOf(s.cand) \in [Ids(s.cand) -> Nat \ {0}]
  BY <1>1, EffortType
<1> QED BY <1>2, <1>3, <1>4, Zenon

LEMMA CheckedPath ==
    ASSUME NEW s, Checked(s)
    PROVE  /\ PathOf(s) \in Seq(Ids(s.cand)) /\ IsChain(Graph(s.cand), PathOf(s))
           /\ DoableIn(Graph(s.cand), EffortOf(s.cand), Weight(EffortOf(s.cand), PathOf(s)))
BY CheckedGraph, CriticalPathIsLeast, Zenon DEF PathOf

LEMMA ChainsOfLayers ==
    ASSUME NEW s
    PROVE  ChainsOf(s) = ChainsIn(Layers(Graph(s.cand), s.completed), Range(PathOf(s)))
  BY Zenon DEF ChainsOf, ChainsIn, NotEmpty, WithoutTasks

LEMMA CheckedChains ==
    ASSUME NEW s, Checked(s)
    PROVE  GoodChains(Graph(s.cand), s.completed, Range(PathOf(s)), ChainsOf(s))
<1> DEFINE dp == Graph(s.cand)
<1>1. IsFiniteSet(DOMAIN dp) /\ Closed(dp) /\ Acyclic(dp)
  BY CheckedGraph
<1>2. GoodLayers(dp, s.completed, {}, Layers(dp, s.completed))
  <2> HIDE DEF dp
  <2> QED BY <1>1, LayersAreGood
<1> QED BY <1>2, ChainsAreGood, ChainsOfLayers, Zenon

\* After the optimization the results are there.
ResultsInv ==
    pc = "state_analysis" =>
        state.path = PathOf(state) /\ state.chains = ChainsOf(state)

LEMMA ResultsInvariant == Spec => [](GraphInv /\ ResultsInv)
<1>1. Init => ResultsInv
  BY DEF Init, ResultsInv
<1>2. GraphInv /\ ResultsInv /\ [Next]_vars => ResultsInv'
  <2> SUFFICES ASSUME GraphInv, ResultsInv, [Next]_vars, pc' = "state_analysis"
               PROVE  state'.path = PathOf(state') /\ state'.chains = ChainsOf(state')
    BY Zenon DEF ResultsInv
  <2>1. CASE OptimizePlan
    <3> DEFINE next == [state EXCEPT !.path = PathOf(state), !.chains = ChainsOf(state)]
    <3>1. state' = next
      BY <2>1 DEF OptimizePlan, Goto
    <3>2. DOMAIN state = DOMAIN NewWorkflow
      BY Zenon DEF GraphInv, PlansInv, Typed
    <3>3. /\ next.cand = state.cand /\ next.completed = state.completed
          /\ next.path = PathOf(state) /\ next.chains = ChainsOf(state)
      BY <3>2 DEF NewWorkflow
    <3> HIDE DEF next
    <3>4. PathOf(next) = PathOf(state)
      BY <3>3, Zenon DEF PathOf
    <3>5. ChainsOf(next) = ChainsOf(state)
      BY <3>3, <3>4, ChainsOfLayers, Zenon
    <3> QED BY <3>1, <3>3, <3>4, <3>5, Zenon
  <2>2. CASE state' = state /\ pc' = pc
    <3>1. pc = "state_analysis"
      BY <2>2
    <3> QED BY <2>2, <3>1, Zenon DEF ResultsInv
  <2>3. CASE NodeStep /\ ~OptimizePlan
    <3>1. ~Fail
      BY DEF Fail, Goto
    <3>2. Rejected => state' = state /\ pc' = pc
      BY <3>1 DEF Rejected
    <3>3. state' = state /\ pc' = pc
      BY <2>3, <3>2 DEF NodeStep, Initialize, AnalyzeGoal, ExtractProcedures, ExtractRequirements,
         CollectEvidence, CreatePlan, ValidatePlan, RevisePlan, PlanFailed, ExecutePlan,
         AnalyzeState, DetectBlockers, Recommend, UpdateMemory, Goto
    <3> QED BY <2>2, <3>3
  <2>4. CASE FirstAnalysis \/ Refresh \/ \E ids \in SUBSET Reportable : Continue(ids)
    BY <2>4 DEF FirstAnalysis, Refresh, Continue, Begin
  <2>5. CASE NodeRaises
    BY <2>5 DEF NodeRaises, Fail, Goto
  <2>6. CASE UNCHANGED vars
    BY <2>2, <2>6 DEF vars
  <2> QED BY <2>1, <2>3, <2>4, <2>5, <2>6, Zenon DEF Next
<1> QED BY <1>1, <1>2, GraphInvariant, PTL DEF Spec

LEMMA OptimizedIsChecked ==
    ASSUME GraphInv, ResultsInv, pc = "state_analysis"
    PROVE  Checked(state) /\ state.path = PathOf(state) /\ state.chains = ChainsOf(state)
<1>1. pc \in Accepted
  BY DEF Accepted
<1> QED BY <1>1, Zenon DEF GraphInv, PlansInv, ResultsInv

\* The critical path is a chain of dependencies, and its effort is enough time
\* for the whole plan (optimization.py, _critical_path).
THEOREM CriticalPathAlwaysLeastTime == Spec => []CriticalPathIsLeastTime
<1>1. GraphInv /\ ResultsInv => CriticalPathIsLeastTime
  BY OptimizedIsChecked, CheckedPath, Zenon DEF CriticalPathIsLeastTime
<1> QED BY <1>1, ResultsInvariant, PTL

\* The open tasks off the critical path are shared out among the parallel
\* chains, and no chain waits for itself or for a later one (optimization.py,
\* optimize_plan).
THEOREM ParallelWorkAlwaysParallel == Spec => []ParallelWorkIsParallel
<1>1. GraphInv /\ ResultsInv => ParallelWorkIsParallel
  <2> SUFFICES ASSUME GraphInv, ResultsInv PROVE ParallelWorkIsParallel
    OBVIOUS
  <2>1. pc = "state_analysis" =>
          /\ GoodChains(Graph(state.cand), state.completed, Range(state.path), state.chains)
          /\ DOMAIN Graph(state.cand) = Ids(state.cand)
    BY OptimizedIsChecked, CheckedChains, CheckedGraph, Zenon
  <2> QED BY <2>1, Zenon DEF ParallelWorkIsParallel, GoodChains, Undone
<1> QED BY <1>1, ResultsInvariant, PTL

-----------------------------------------------------------------------------
(* Types *)

LEMMA NewWorkflowType ==
    ASSUME GraphAssumption PROVE NewWorkflow \in WorkflowType
BY DEF GraphAssumption, NewWorkflow, WorkflowType, Verdicts, NoRecommendation, Actions

LEMMA MaterialisedType ==
    ASSUME NoReq \notin ReqIds, NEW cand \in Seq(CandidateTask)
    PROVE  Materialised(cand) \in Seq(TaskType)
<1>1. Len(cand) \in Nat /\ DOMAIN cand = 1..Len(cand)
      /\ \A i \in DOMAIN cand : cand[i] \in CandidateTask
  OBVIOUS
<1>2. \A t \in CandidateTask :
        [id |-> t.id, reqs |-> {t.req} \ {NoReq}, effort |-> t.effort, deps |-> t.deps] \in TaskType
  BY DEF CandidateTask, TaskType
<1> DEFINE n == Len(cand)
           row(i) == [id |-> cand[i].id, reqs |-> {cand[i].req} \ {NoReq},
                      effort |-> cand[i].effort, deps |-> cand[i].deps]
<1>3. \A i \in 1..n : row(i) \in TaskType
  BY <1>1, <1>2
<1>4. Materialised(cand) = [i \in 1..n |-> row(i)]
  BY <1>1 DEF Materialised
<1> HIDE DEF n, row
<1>5. Materialised(cand) \in [1..n -> TaskType] /\ n \in Nat
  BY <1>1, <1>3, <1>4 DEF n
<1> QED BY ONLY <1>5

LEMMA UpdateReqs ==
    ASSUME NEW s \in WorkflowType, NEW v \in Seq(Requirement)
    PROVE  [s EXCEPT !.reqs = v] \in WorkflowType
BY DEF WorkflowType
LEMMA UpdatePlan ==
    ASSUME NEW s \in WorkflowType, NEW v \in Seq(CandidateTask), NEW w \in Seq(TaskType)
    PROVE  [s EXCEPT !.cand = v, !.tasks = w] \in WorkflowType
BY DEF WorkflowType
LEMMA UpdateResults ==
    ASSUME NEW s \in WorkflowType, NEW v \in Seq(Int), NEW w \in Seq(SUBSET Int)
    PROVE  [s EXCEPT !.path = v, !.chains = w] \in WorkflowType
BY DEF WorkflowType
LEMMA UpdateRevision ==
    ASSUME NEW s \in WorkflowType, NEW v \in Seq(CandidateTask), NEW n \in Nat
    PROVE  [s EXCEPT !.cand = v, !.revisions = n] \in WorkflowType
BY DEF WorkflowType

\* What two nodes say of the tasks is about numbers.
LEMMA TaskNumbers ==
    ASSUME NEW s \in WorkflowType
    PROVE  /\ \A i \in DOMAIN s.tasks :
                s.tasks[i].id \in Int /\ s.tasks[i].deps \in SUBSET Int
           /\ Open(s) \subseteq DOMAIN s.tasks /\ Open(s) \subseteq Nat
           /\ Open(s) # {} => FirstOpen(s) \in Int
<1>1. s.tasks \in Seq(TaskType)
  BY DEF WorkflowType
<1>2. \A i \in DOMAIN s.tasks : s.tasks[i] \in TaskType
  BY <1>1
<1>3. \A i \in DOMAIN s.tasks : s.tasks[i].id \in Int /\ s.tasks[i].deps \in SUBSET Int
  BY <1>2 DEF TaskType
<1>4. Open(s) \subseteq DOMAIN s.tasks
  BY Zenon DEF Open
<1>5. DOMAIN s.tasks \subseteq Nat
  BY <1>1
<1>6. Open(s) # {} => FirstOpen(s) \in Int
  <2> SUFFICES ASSUME Open(s) # {} PROVE FirstOpen(s) \in Int
    OBVIOUS
  <2>1. Least(Open(s)) \in Open(s)
    <3>1. Open(s) \subseteq Nat
      BY <1>4, <1>5
    <3> QED BY <3>1, LeastInSet, Zenon
  <2>2. FirstOpen(s) = s.tasks[Least(Open(s))].id
    BY Zenon DEF FirstOpen, Least
  <2> QED BY <1>3, <1>4, <2>1, <2>2, Zenon
<1> QED BY <1>3, <1>4, <1>5, <1>6

\* A recommendation names tasks, or none.
LEMMA AdviceType ==
    ASSUME NEW s \in WorkflowType, NoTask \notin Int, Checked(s), s.blocked = BlockedTasks(s),
           NEW rec \in Recommendations(s)
    PROVE  rec \in [action : Actions, task : Int \cup {NoTask}, by : Int \cup {NoTask}]
<1>1. s.current \in Int \cup {NoTask}
  BY DEF WorkflowType
<1>2. CASE s.current \in s.blocked
  <2>1. PICK by \in Unfinished(s, s.current) : rec = Advice("await_dependency", s.current, by)
    BY <1>2, Zenon DEF Recommendations
  <2>2. by \in Int
    <3>1. PICK j \in DOMAIN s.tasks : s.current = s.tasks[j].id
      BY <1>2 DEF BlockedTasks
    <3>2. Graph(s.tasks)[s.current] = s.tasks[j].deps
      BY <3>1, CheckedTasks, Zenon
    <3>3. s.tasks[j].deps \in SUBSET Int
      BY TaskNumbers
    <3> QED BY <3>2, <3>3 DEF Unfinished
  <2> QED BY <1>1, <2>1, <2>2 DEF Advice, Actions
<1>3. CASE s.current \notin s.blocked /\ Priority(s) = {}
  <2>1. rec = Advice("no_action", s.current, NoTask)
    BY <1>3, Zenon DEF Recommendations
  <2> QED BY <1>1, <2>1 DEF Advice, Actions
<1>4. CASE s.current \notin s.blocked /\ Priority(s) # {}
  <2>1. Least(Priority(s)) \in Open(s)
    <3>1. Priority(s) \subseteq Open(s)
      BY Zenon DEF Priority
    <3>2. Priority(s) \subseteq Nat
      BY <3>1, TaskNumbers
    <3> QED BY <1>4, <3>1, <3>2, LeastInSet, Zenon
  <2>2. s.tasks[Least(Priority(s))].id \in Int
    BY <2>1, TaskNumbers, Zenon
  <2>3. rec = Advice("start_task", s.tasks[Least(Priority(s))].id, NoTask)
    BY <1>4, Zenon DEF Recommendations, Least
  <2> QED BY <2>2, <2>3 DEF Advice, Actions
<1> QED BY <1>2, <1>3, <1>4

LEMMA ReqsOfType ==
    ASSUME NEW reqs \in Seq(Requirement)
    PROVE  ReqsOf(reqs) \in SUBSET ReqIds
<1>1. \A i \in DOMAIN reqs : reqs[i] \in Requirement
  OBVIOUS
<1>2. \A i \in DOMAIN reqs : reqs[i].id \in ReqIds
  BY <1>1 DEF Requirement
<1> QED BY <1>2 DEF ReqsOf

LEMMA Moves ==
    ASSUME TypeOK, NEW node \in Nodes \cup {"idle"}, NEW next \in WorkflowType, Goto(node, next)
    PROVE  TypeOK'
<1>1. /\ state' = next /\ pc' = node /\ attempt' = 0
      /\ stored' = stored /\ runs' = runs /\ given' = given
  BY DEF Goto, Running
<1> QED BY <1>1 DEF TypeOK, Retries

LEMMA AskedAgain ==
    ASSUME GraphAssumption, TypeOK, Rejected
    PROVE  TypeOK'
<1>1. CASE attempt < Retries
  <2>1. /\ state' = state /\ pc' = pc /\ attempt' = attempt + 1
        /\ stored' = stored /\ runs' = runs /\ given' = given
    BY <1>1 DEF Rejected, Running
  <2>2. attempt + 1 \in 0..Retries
    BY <1>1 DEF TypeOK, Retries
  <2> QED BY <2>1, <2>2, Zenon DEF TypeOK
<1>2. CASE ~(attempt < Retries)
  <2>1. Goto("idle", NewWorkflow)
    BY <1>2 DEF Rejected, Fail
  <2> QED BY <2>1, Moves, NewWorkflowType
<1> QED BY <1>1, <1>2

LEMMA InitialTypes ==
    ASSUME GraphAssumption, Init
    PROVE  TypeOK
<1>1. state \in WorkflowType /\ NewWorkflow \in WorkflowType
  BY NewWorkflowType DEF Init
<1>2. ASSUME NEW plan \in GivenPlans, stored = Stored(plan)
      PROVE  stored \in WorkflowType
  <2>1. /\ plan.reqs \in Seq(Requirement) /\ plan.tasks \in Seq(CandidateTask)
        /\ NoReq \notin ReqIds
    BY DEF GraphAssumption
  <2>2. Materialised(plan.tasks) \in Seq(TaskType)
    BY <2>1, MaterialisedType
  <2>3. ReqsOf(plan.reqs) \in SUBSET ReqIds
    BY <2>1, ReqsOfType
  <2>4. [NewWorkflow EXCEPT !.analysed = TRUE, !.procedures = TRUE, !.reqs = plan.reqs,
           !.evidence = ReqsOf(plan.reqs), !.cand = plan.tasks,
           !.tasks = Materialised(plan.tasks)] \in WorkflowType
    BY <1>1, <2>1, <2>2, <2>3 DEF WorkflowType
  <2> QED BY <1>2, <2>4 DEF Stored
<1>3. stored \in WorkflowType
  <2>1. stored = NewWorkflow \/ \E plan \in GivenPlans : stored = Stored(plan)
    BY Zenon DEF Init
  <2>2. CASE stored = NewWorkflow
    BY <1>1, <2>2
  <2>3. CASE \E plan \in GivenPlans : stored = Stored(plan)
    BY <1>2, <2>3, Zenon
  <2> QED BY <2>1, <2>2, <2>3
<1>4. pc \in Nodes \cup {"idle"} /\ attempt \in 0..Retries /\ given \in BOOLEAN
  <2>1. pc \in Nodes \cup {"idle"} /\ attempt \in 0..Retries
    BY DEF Init, Retries
  <2>2. given = FALSE \/ given = TRUE
    BY Zenon DEF Init
  <2> QED BY <2>1, <2>2
<1>5. runs \in 0..MaxRuns
  BY DEF Init, GraphAssumption
<1> QED BY <1>1, <1>3, <1>4, <1>5, Zenon DEF TypeOK

LEMMA BeginTypes ==
    ASSUME GraphAssumption, TypeOK, NEW initial \in WorkflowType, Begin(initial)
    PROVE  TypeOK'
<1>1. /\ state' = initial /\ pc' = "initialize_node" /\ runs' = runs + 1 /\ runs < MaxRuns
      /\ stored' = stored /\ attempt' = attempt /\ given' = given
  BY DEF Begin
<1>2. runs + 1 \in 0..MaxRuns
  BY <1>1 DEF TypeOK, GraphAssumption
<1>3. pc' \in Nodes
  BY <1>1 DEF Nodes
<1> QED BY <1>1, <1>2, <1>3, Zenon DEF TypeOK

LEMMA EarlyTypes ==
    ASSUME GraphAssumption, TypeOK,
           Initialize \/ AnalyzeGoal \/ ExtractProcedures \/ ExtractRequirements \/ CollectEvidence
    PROVE  TypeOK'
<1>1. state \in WorkflowType
  BY Zenon DEF TypeOK
<1>2. Rejected => TypeOK'
  BY AskedAgain
<1>3. {"analyze_goal", "extract_procedures", "extract_requirements", "collect_evidence", "plan"}
        \subseteq Nodes
  BY DEF Nodes
<1>4. CASE Initialize
  <2> DEFINE next == [state EXCEPT !.completed = @ \cup (state.incoming \cap Ids(state.tasks))]
  <2>1. next \in WorkflowType
    BY <1>1 DEF WorkflowType
  <2>2. Goto("analyze_goal", next)
    BY <1>4 DEF Initialize
  <2> HIDE DEF next
  <2> QED BY <1>3, <2>1, <2>2, Moves
<1>5. CASE AnalyzeGoal
  <2> DEFINE next == [state EXCEPT !.analysed = TRUE]
  <2>1. next \in WorkflowType
    BY <1>1 DEF WorkflowType
  <2>2. Goto("extract_procedures", next) \/ Rejected
    BY <1>5 DEF AnalyzeGoal
  <2> HIDE DEF next
  <2> QED BY <1>2, <1>3, <2>1, <2>2, Moves
<1>6. CASE ExtractProcedures
  <2> DEFINE next(some) == [state EXCEPT !.procedures = some]
  <2>1. \A some \in BOOLEAN : next(some) \in WorkflowType
    BY <1>1 DEF WorkflowType
  <2>2. \/ Goto("extract_requirements", state)
        \/ \E some \in BOOLEAN : Goto("extract_requirements", next(some))
        \/ Rejected
    BY <1>6 DEF ExtractProcedures
  <2> HIDE DEF next
  <2> QED BY <1>1, <1>2, <1>3, <2>1, <2>2, Moves
<1>7. CASE ExtractRequirements
  <2> DEFINE next(reqs) == [state EXCEPT !.reqs = reqs]
  <2>1. \A reqs \in Extractions \cup {BareList} : next(reqs) \in WorkflowType
    <3>1. \A reqs \in Extractions \cup {BareList} : reqs \in Seq(Requirement)
      <4>1. Extractions \subseteq Seq(Requirement) /\ <<>> \in Seq(Requirement)
        BY DEF GraphAssumption
      <4> QED BY ONLY <4>1 DEF BareList
    <3>2. \A reqs \in Seq(Requirement) : next(reqs) \in WorkflowType
      BY <1>1, UpdateReqs
    <3> QED BY <3>1, <3>2
  <2>2. \/ Goto("collect_evidence", state)
        \/ \E reqs \in Extractions \cup {BareList} : Goto("collect_evidence", next(reqs))
        \/ Rejected
    BY <1>7 DEF ExtractRequirements
  <2> HIDE DEF next
  <2> QED BY <1>1, <1>2, <1>3, <2>1, <2>2, Moves
<1>8. CASE CollectEvidence
  <2> DEFINE next == [state EXCEPT !.evidence = IF @ # {} THEN @ ELSE ReqsOf(state.reqs)]
  <2>1. next \in WorkflowType
    <3>1. ReqsOf(state.reqs) \in SUBSET ReqIds
      BY <1>1, ReqsOfType DEF WorkflowType
    <3> HIDE DEF ReqsOf
    <3> QED BY <1>1, <3>1 DEF WorkflowType
  <2>2. Goto("plan", next)
    BY <1>8 DEF CollectEvidence
  <2> HIDE DEF next
  <2> QED BY <1>3, <2>1, <2>2, Moves
<1> QED BY <1>4, <1>5, <1>6, <1>7, <1>8

LEMMA PlanTypes ==
    ASSUME GraphAssumption, GraphInv, TypeOK,
           CreatePlan \/ ValidatePlan \/ RevisePlan \/ PlanFailed
    PROVE  TypeOK'
<1>1. state \in WorkflowType /\ Typed(state)
  BY Zenon DEF TypeOK, GraphInv, PlansInv
<1>2. {"plan", "validate_plan", "revise_plan", "plan_failed", "execute_plan", "update_memory"}
        \subseteq Nodes
  BY DEF Nodes
<1>3. CASE CreatePlan
  <2> DEFINE next == [state EXCEPT !.cand = PlanFor(state),
                                   !.tasks = Materialised(PlanFor(state))]
  <2>1. PlanFor(state) \in Seq(CandidateTask)
    BY <1>1, PlanForChoice, Zenon
  <2>2. Materialised(PlanFor(state)) \in Seq(TaskType)
    BY <2>1, MaterialisedType DEF GraphAssumption
  <2>3. next \in WorkflowType
    BY <1>1, <2>1, <2>2, UpdatePlan
  <2>4. Goto("validate_plan", next)
    BY <1>3 DEF CreatePlan
  <2> HIDE DEF next
  <2> QED BY <1>2, <2>3, <2>4, Moves
<1>4. CASE ValidatePlan
  <2> DEFINE next(verdict) == [state EXCEPT !.verdict = verdict]
  <2>1. \A verdict \in Verdicts : next(verdict) \in WorkflowType
    BY <1>1 DEF WorkflowType
  <2>2. \/ Goto("execute_plan", next("valid"))
        \/ \E node \in {"revise_plan", "plan_failed"} : Goto(node, next("invalid"))
    BY <1>4 DEF ValidatePlan
  <2>3. "valid" \in Verdicts /\ "invalid" \in Verdicts
    BY DEF Verdicts
  <2> HIDE DEF next
  <2> QED BY <1>2, <2>1, <2>2, <2>3, Moves
<1>5. CASE RevisePlan
  <2> DEFINE next == [state EXCEPT !.cand = Revised(@, state.reqs), !.revisions = @ + 1]
  <2>1. state.cand \in Seq(CandidateTask) /\ state.reqs \in Seq(Requirement)
    <3>1. pc = "revise_plan"
      BY <1>5 DEF RevisePlan
    <3> QED BY <1>1, <3>1, Zenon DEF GraphInv, PlansInv, Planned, Typed
  <2>2. Revised(state.cand, state.reqs) \in Seq(CandidateTask)
    BY <2>1, RevisedType
  <2>3. next \in WorkflowType
    <3>1. state.revisions + 1 \in Nat
      BY <1>1 DEF WorkflowType
    <3> QED BY <1>1, <2>2, <3>1, UpdateRevision
  <2>4. Goto("plan", next)
    BY <1>5 DEF RevisePlan
  <2> HIDE DEF next
  <2> QED BY <1>2, <2>3, <2>4, Moves
<1>6. CASE PlanFailed
  BY <1>1, <1>2, <1>6, Moves DEF PlanFailed
<1> QED BY <1>3, <1>4, <1>5, <1>6

LEMMA LateTypes ==
    ASSUME GraphAssumption, GraphInv, TypeOK,
           ExecutePlan \/ OptimizePlan \/ AnalyzeState \/ DetectBlockers \/ Recommend
    PROVE  TypeOK'
<1>1. state \in WorkflowType /\ Checked(state)
  <2>1. pc \in Accepted
    BY DEF ExecutePlan, OptimizePlan, AnalyzeState, DetectBlockers, Recommend, Accepted
  <2> QED BY <2>1, Zenon DEF TypeOK, GraphInv, PlansInv
<1>2. {"optimize_plan", "state_analysis", "detect_blockers", "recommend", "update_memory"}
        \subseteq Nodes
  BY DEF Nodes
<1>3. /\ \A i \in DOMAIN state.tasks : state.tasks[i].id \in Int
      /\ Open(state) \subseteq DOMAIN state.tasks
      /\ Open(state) # {} => FirstOpen(state) \in Int
  BY <1>1, TaskNumbers, Zenon
<1>4. CASE ExecutePlan
  <2> DEFINE first == IF Open(state) = {} THEN NoTask ELSE FirstOpen(state)
             next == [state EXCEPT !.current = first]
  <2>1. first \in Int \cup {NoTask}
    BY <1>3
  <2>2. Goto("optimize_plan", next)
    BY <1>4 DEF ExecutePlan
  <2> HIDE DEF first
  <2>3. next \in WorkflowType
    BY <1>1, <2>1 DEF WorkflowType
  <2> HIDE DEF next
  <2> QED BY <1>2, <2>2, <2>3, Moves
<1>5. CASE OptimizePlan
  <2> DEFINE next == [state EXCEPT !.path = PathOf(state), !.chains = ChainsOf(state)]
  <2>1. Ids(state.cand) \subseteq Int
    BY <1>1, CheckedGraph, Zenon
  <2>2. PathOf(state) \in Seq(Int)
    <3>1. PathOf(state) \in Seq(Ids(state.cand))
      BY <1>1, CheckedPath, Zenon
    <3> HIDE DEF Ids, PathOf
    <3> QED BY <2>1, <3>1
  <2>3. ChainsOf(state) \in Seq(SUBSET Int)
    <3>1. ChainsOf(state) \in Seq(SUBSET Undone(Graph(state.cand), state.completed))
      BY <1>1, CheckedChains, Zenon DEF GoodChains
    <3>2. Undone(Graph(state.cand), state.completed) \subseteq Int
      BY <1>1, <2>1, CheckedGraph DEF Undone
    <3> HIDE DEF Undone, ChainsOf
    <3> QED BY <3>1, <3>2
  <2>4. next \in WorkflowType
    BY <1>1, <2>2, <2>3, UpdateResults
  <2>5. Goto("state_analysis", next)
    BY <1>5 DEF OptimizePlan
  <2> HIDE DEF next
  <2> QED BY <1>2, <2>4, <2>5, Moves
<1>6. CASE AnalyzeState
  <2> DEFINE pending == {state.tasks[i].id : i \in Open(state)}
             next == [state EXCEPT !.pending = pending]
  <2>1. pending \in SUBSET Int
    BY <1>3
  <2>2. Goto("detect_blockers", next)
    BY <1>6 DEF AnalyzeState
  <2> HIDE DEF pending
  <2>3. next \in WorkflowType
    BY <1>1, <2>1 DEF WorkflowType
  <2> HIDE DEF next
  <2> QED BY <1>2, <2>2, <2>3, Moves
<1>7. CASE DetectBlockers
  <2> DEFINE next == [state EXCEPT !.blocked = BlockedTasks(state)]
  <2>1. BlockedTasks(state) \in SUBSET Int
    BY <1>3 DEF BlockedTasks
  <2>2. Goto("recommend", next)
    BY <1>7 DEF DetectBlockers, BlockedTasks
  <2>3. next \in WorkflowType
    BY <1>1, <2>1 DEF WorkflowType
  <2> HIDE DEF next
  <2> QED BY <1>2, <2>2, <2>3, Moves
<1>8. CASE Recommend
  <2> DEFINE next(rec) == [state EXCEPT !.rec = rec]
  <2>1. PICK rec \in Recommendations(state) : Goto("update_memory", next(rec))
    BY <1>8 DEF Recommend
  <2>2. state.blocked = BlockedTasks(state)
    BY <1>8, Zenon DEF Recommend, GraphInv, AdviceInv
  <2>3. rec \in [action : Actions, task : Int \cup {NoTask}, by : Int \cup {NoTask}]
    BY <1>1, <2>2, AdviceType DEF GraphAssumption
  <2>4. next(rec) \in WorkflowType
    BY <1>1, <2>3 DEF WorkflowType
  <2> HIDE DEF next
  <2> QED BY <1>2, <2>1, <2>4, Moves
<1> QED BY <1>4, <1>5, <1>6, <1>7, <1>8

LEMMA StoreTypes ==
    ASSUME GraphAssumption, TypeOK, UpdateMemory
    PROVE  TypeOK'
<1>1. state \in WorkflowType /\ NewWorkflow \in WorkflowType
  BY NewWorkflowType DEF TypeOK
<1>2. [state EXCEPT !.incoming = {}] \in WorkflowType
  BY <1>1 DEF WorkflowType
<1>3. /\ stored' = [state EXCEPT !.incoming = {}] /\ state' = NewWorkflow /\ pc' = "idle"
      /\ attempt' = attempt /\ runs' = runs /\ given' = given
  BY DEF UpdateMemory
<1> QED BY <1>1, <1>2, <1>3 DEF TypeOK

LEMMA RunTypes ==
    ASSUME GraphAssumption, TypeOK,
           FirstAnalysis \/ Refresh \/ \E ids \in SUBSET Reportable : Continue(ids)
    PROVE  TypeOK'
<1>1. stored \in WorkflowType /\ NewWorkflow \in WorkflowType
  BY NewWorkflowType DEF TypeOK
<1>2. CASE FirstAnalysis
  BY <1>1, <1>2, BeginTypes DEF FirstAnalysis
<1>3. CASE Refresh
  <2>1. RefreshedState \in WorkflowType
    BY <1>1 DEF RefreshedState, WorkflowType
  <2> QED BY <1>3, <2>1, BeginTypes DEF Refresh
<1>4. ASSUME NEW ids \in SUBSET Reportable, Continue(ids)
      PROVE  TypeOK'
  <2>1. ids \in SUBSET Int
    BY DEF GraphAssumption
  <2>2. [stored EXCEPT !.incoming = ids] \in WorkflowType
    BY <1>1, <2>1 DEF WorkflowType
  <2> QED BY <1>4, <2>2, BeginTypes DEF Continue
<1> QED BY <1>2, <1>3, <1>4

\* Whatever is extracted, stored before or reported, a run keeps to the types:
\* requirements, tasks and dependencies, the critical path, the parallel
\* chains and the recommendation (schemas, AgentState).
THEOREM GraphTypesCorrect == Spec => []TypeOK
<1>1. Init => TypeOK
  BY GraphAssumption, InitialTypes
<1>2. GraphInv /\ TypeOK /\ [Next]_vars => TypeOK'
  <2> SUFFICES ASSUME GraphInv, TypeOK, [Next]_vars PROVE TypeOK'
    OBVIOUS
  <2>1. CASE NodeStep
    BY <2>1, GraphAssumption, EarlyTypes, PlanTypes, LateTypes, StoreTypes, Zenon DEF NodeStep
  <2>2. CASE FirstAnalysis \/ Refresh \/ \E ids \in SUBSET Reportable : Continue(ids)
    BY <2>2, GraphAssumption, RunTypes
  <2>3. CASE NodeRaises
    <3>1. Goto("idle", NewWorkflow)
      BY <2>3, Zenon DEF NodeRaises, Fail
    <3> QED BY <3>1, GraphAssumption, NewWorkflowType, Moves
  <2>4. CASE UNCHANGED vars
    BY <2>4 DEF vars, TypeOK
  <2> QED BY <2>1, <2>2, <2>3, <2>4, Zenon DEF Next
<1> QED BY <1>1, <1>2, GraphInvariant, PTL DEF Spec

-----------------------------------------------------------------------------
(* Why a run ends *)

\* The nodes from here to the end of the run, without another revision.
Ahead(node) ==
    CASE node = "initialize_node"      -> 14
      [] node = "analyze_goal"         -> 13
      [] node = "extract_procedures"   -> 12
      [] node = "extract_requirements" -> 11
      [] node = "collect_evidence"     -> 10
      [] node = "plan"                 -> 9
      [] node = "validate_plan"        -> 8
      [] node \in {"revise_plan", "execute_plan"} -> 7
      [] node = "optimize_plan"        -> 6
      [] node = "state_analysis"       -> 5
      [] node = "detect_blockers"      -> 4
      [] node \in {"recommend", "plan_failed"} -> 3
      [] node = "update_memory"        -> 2
      [] OTHER -> 0

RevisionsLeft(s) ==
    IF s.revisions < MaxPlanRevisions THEN MaxPlanRevisions - s.revisions ELSE 0

\* The answers that may still be asked for count within a node, the nodes within
\* a round of planning.
StepsLeft ==
    IF pc = "idle" THEN 0
    ELSE (Retries + 1) * (15 * RevisionsLeft(state) + Ahead(pc)) + Retries - attempt

LEMMA StepsLeftType ==
    ASSUME TypeOK
    PROVE  /\ StepsLeft \in 0..((Retries + 1) * (15 * MaxPlanRevisions + 14) + Retries)
           /\ pc # "idle" => StepsLeft > 0
<1>1. pc \in Nodes \cup {"idle"} /\ attempt \in 0..Retries /\ state.revisions \in Nat
  BY DEF TypeOK, WorkflowType
<1>2. RevisionsLeft(state) \in 0..MaxPlanRevisions
  BY <1>1 DEF RevisionsLeft, MaxPlanRevisions
<1>3. pc # "idle" => Ahead(pc) \in 2..14
  BY <1>1 DEF Nodes, Ahead
<1> QED BY <1>1, <1>2, <1>3 DEF StepsLeft, Retries, MaxPlanRevisions

\* Going on to a later node, with no revision given back.
LEMMA GoingOn ==
    ASSUME TypeOK, pc # "idle", NEW node \in Nodes, NEW next, next.revisions \in Nat,
           Goto(node, next),
           15 * RevisionsLeft(next) + Ahead(node) < 15 * RevisionsLeft(state) + Ahead(pc)
    PROVE  StepsLeft' < StepsLeft
<1>1. pc' = node /\ state' = next /\ attempt' = 0
  BY DEF Goto
<1>2. attempt \in 0..Retries /\ state.revisions \in Nat /\ node # "idle"
  BY DEF TypeOK, WorkflowType, Nodes
<1>3. pc \in Nodes
  BY DEF TypeOK
<1>4. Ahead(pc) \in 2..14 /\ Ahead(node) \in 2..14
  BY <1>3 DEF Nodes, Ahead
<1>5. RevisionsLeft(next) \in 0..1 /\ RevisionsLeft(state) \in 0..1
  BY <1>2 DEF RevisionsLeft, MaxPlanRevisions
<1>6. /\ StepsLeft = (Retries + 1) * (15 * RevisionsLeft(state) + Ahead(pc)) + Retries - attempt
      /\ StepsLeft' = (Retries + 1) * (15 * RevisionsLeft(next) + Ahead(node)) + Retries - 0
  BY <1>1, <1>2, Zenon DEF StepsLeft
<1> QED BY <1>2, <1>4, <1>5, <1>6 DEF Retries

LEMMA SameRevisions ==
    ASSUME NEW s, NEW t, t.revisions = s.revisions
    PROVE  RevisionsLeft(t) = RevisionsLeft(s)
BY Zenon DEF RevisionsLeft

LEMMA RunIsOver ==
    ASSUME TypeOK, pc # "idle", pc' = "idle"
    PROVE  StepsLeft' < StepsLeft
<1>1. StepsLeft' = 0
  BY DEF StepsLeft
<1>2. StepsLeft > 0
  BY StepsLeftType
<1> QED BY <1>1, <1>2

LEMMA AskingAgain ==
    ASSUME TypeOK, pc # "idle", Rejected
    PROVE  StepsLeft' < StepsLeft
<1>1. CASE attempt < Retries
  <2>1. state' = state /\ pc' = pc /\ attempt' = attempt + 1
    BY <1>1 DEF Rejected
  <2> DEFINE rest == (Retries + 1) * (15 * RevisionsLeft(state) + Ahead(pc))
  <2>2. StepsLeft = rest + (Retries - attempt) /\ StepsLeft' = rest + (Retries - (attempt + 1))
    <3>1. StepsLeft = rest + (Retries - attempt)
      BY Zenon DEF StepsLeft
    <3>2. pc' # "idle"
      BY <2>1
    <3>3. StepsLeft' = (Retries + 1) * (15 * RevisionsLeft(state') + Ahead(pc'))
                         + (Retries - attempt')
      BY <3>2, Zenon DEF StepsLeft
    <3> QED BY <2>1, <3>1, <3>3, Zenon
  <2>3. attempt \in Int
    BY DEF TypeOK, Retries
  <2>4. rest \in Int
    <3>1. state.revisions \in Nat /\ pc \in Nodes
      BY DEF TypeOK, WorkflowType
    <3>2. Ahead(pc) \in Int /\ RevisionsLeft(state) \in Int
      BY <3>1 DEF Nodes, Ahead, RevisionsLeft, MaxPlanRevisions
    <3> QED BY <3>2 DEF Retries
  <2> HIDE DEF rest
  <2> QED BY <2>2, <2>3, <2>4 DEF Retries
<1>2. CASE ~(attempt < Retries)
  <2>1. pc' = "idle"
    BY <1>2 DEF Rejected, Fail, Goto
  <2> QED BY <2>1, RunIsOver
<1> QED BY <1>1, <1>2

\* The order of the nodes; only a revision leads back to an earlier one.
LEMMA NodeOrder ==
    /\ Ahead("analyze_goal") < Ahead("initialize_node")
    /\ Ahead("extract_procedures") < Ahead("analyze_goal")
    /\ Ahead("extract_requirements") < Ahead("extract_procedures")
    /\ Ahead("collect_evidence") < Ahead("extract_requirements")
    /\ Ahead("plan") < Ahead("collect_evidence")
    /\ Ahead("validate_plan") < Ahead("plan")
    /\ \A node \in {"execute_plan", "revise_plan", "plan_failed"} :
         Ahead(node) < Ahead("validate_plan")
    /\ Ahead("update_memory") < Ahead("plan_failed")
    /\ Ahead("optimize_plan") < Ahead("execute_plan")
    /\ Ahead("state_analysis") < Ahead("optimize_plan")
    /\ Ahead("detect_blockers") < Ahead("state_analysis")
    /\ Ahead("recommend") < Ahead("detect_blockers")
    /\ Ahead("update_memory") < Ahead("recommend")
    /\ Nodes = {"initialize_node", "analyze_goal", "extract_procedures",
                "extract_requirements", "collect_evidence", "plan", "validate_plan",
                "revise_plan", "plan_failed", "execute_plan", "optimize_plan",
                "state_analysis", "detect_blockers", "recommend", "update_memory"}
BY DEF Ahead, Nodes

LEMMA NodesShorten ==
    ASSUME GraphAssumption, GraphInv, TypeOK, NodeStep
    PROVE  StepsLeft' < StepsLeft
<1>1. /\ pc # "idle" /\ state.revisions \in Nat
      /\ DOMAIN state = DOMAIN NewWorkflow
  <2>1. pc # "idle"
    BY DEF NodeStep, Initialize, AnalyzeGoal, ExtractProcedures, ExtractRequirements,
       CollectEvidence, CreatePlan, ValidatePlan, RevisePlan, PlanFailed, ExecutePlan,
       OptimizePlan, AnalyzeState, DetectBlockers, Recommend, UpdateMemory
  <2> QED BY <2>1, Zenon DEF GraphInv, PlansInv, Typed
<1>2. ASSUME NEW node \in Nodes, NEW next, Goto(node, next),
             next.revisions = state.revisions, Ahead(node) < Ahead(pc)
      PROVE  StepsLeft' < StepsLeft
  <2>1. RevisionsLeft(next) = RevisionsLeft(state) /\ RevisionsLeft(state) \in Int
    BY <1>1, <1>2, SameRevisions DEF RevisionsLeft, MaxPlanRevisions
  <2>2. Ahead(node) \in Int /\ Ahead(pc) \in Int
    <3>1. pc \in Nodes
      BY <1>1 DEF TypeOK
    <3> QED BY <3>1 DEF Nodes, Ahead
  <2>3. 15 * RevisionsLeft(next) + Ahead(node) < 15 * RevisionsLeft(state) + Ahead(pc)
    BY <1>2, <2>1, <2>2
  <2> QED BY <1>1, <1>2, <2>3, GoingOn
<1>3. CASE Initialize
  <2> DEFINE next == [state EXCEPT !.completed = @ \cup (state.incoming \cap Ids(state.tasks))]
  <2>1. pc = "initialize_node" /\ Goto("analyze_goal", next)
    BY <1>3 DEF Initialize
  <2>2. next.revisions = state.revisions
    BY <1>1 DEF NewWorkflow
  <2> HIDE DEF next
  <2> QED BY <1>2, NodeOrder, <2>1, <2>2
<1>4. CASE AnalyzeGoal
  <2> DEFINE next == [state EXCEPT !.analysed = TRUE]
  <2>1. pc = "analyze_goal" /\ (Goto("extract_procedures", next) \/ Rejected)
    BY <1>4 DEF AnalyzeGoal
  <2>2. next.revisions = state.revisions
    BY <1>1 DEF NewWorkflow
  <2> HIDE DEF next
  <2> QED BY <1>1, <1>2, NodeOrder, <2>1, <2>2, AskingAgain
<1>5. CASE ExtractProcedures
  <2> DEFINE next(some) == [state EXCEPT !.procedures = some]
  <2>1. /\ pc = "extract_procedures"
        /\ \/ Goto("extract_requirements", state)
           \/ \E some \in BOOLEAN : Goto("extract_requirements", next(some))
           \/ Rejected
    BY <1>5 DEF ExtractProcedures
  <2>2. \A some : next(some).revisions = state.revisions
    BY <1>1 DEF NewWorkflow
  <2> HIDE DEF next
  <2> QED BY <1>1, <1>2, NodeOrder, <2>1, <2>2, AskingAgain
<1>6. CASE ExtractRequirements
  <2> DEFINE next(reqs) == [state EXCEPT !.reqs = reqs]
  <2>1. /\ pc = "extract_requirements"
        /\ \/ Goto("collect_evidence", state)
           \/ \E reqs \in Extractions \cup {BareList} : Goto("collect_evidence", next(reqs))
           \/ Rejected
    BY <1>6 DEF ExtractRequirements
  <2>2. \A reqs : next(reqs).revisions = state.revisions
    BY <1>1 DEF NewWorkflow
  <2> HIDE DEF next
  <2> QED BY <1>1, <1>2, NodeOrder, <2>1, <2>2, AskingAgain
<1>7. CASE CollectEvidence
  <2> DEFINE next == [state EXCEPT !.evidence = IF @ # {} THEN @ ELSE ReqsOf(state.reqs)]
  <2>1. pc = "collect_evidence" /\ Goto("plan", next)
    BY <1>7 DEF CollectEvidence
  <2>2. next.revisions = state.revisions
    BY <1>1 DEF NewWorkflow
  <2> HIDE DEF next
  <2> QED BY <1>2, NodeOrder, <2>1, <2>2
<1>8. CASE CreatePlan
  <2> DEFINE next == [state EXCEPT !.cand = PlanFor(state),
                                   !.tasks = Materialised(PlanFor(state))]
  <2>1. pc = "plan" /\ Goto("validate_plan", next)
    BY <1>8 DEF CreatePlan
  <2>2. next.revisions = state.revisions
    BY <1>1 DEF NewWorkflow
  <2> HIDE DEF next
  <2> QED BY <1>2, NodeOrder, <2>1, <2>2
<1>9. CASE ValidatePlan
  <2> DEFINE next(verdict) == [state EXCEPT !.verdict = verdict]
  <2>1. /\ pc = "validate_plan"
        /\ \E node \in {"execute_plan", "revise_plan", "plan_failed"}, verdict \in Verdicts :
             Goto(node, next(verdict))
    BY <1>9 DEF ValidatePlan, Verdicts
  <2>2. \A verdict : next(verdict).revisions = state.revisions
    BY <1>1 DEF NewWorkflow
  <2> HIDE DEF next
  <2> QED BY <1>1, <1>2, NodeOrder, <2>1, <2>2
<1>10. CASE RevisePlan
  <2> DEFINE next == [state EXCEPT !.cand = Revised(@, state.reqs), !.revisions = @ + 1]
  <2>1. pc = "revise_plan" /\ Goto("plan", next)
    BY <1>10 DEF RevisePlan
  <2>2. next.revisions = state.revisions + 1
    BY <1>1 DEF NewWorkflow
  <2> HIDE DEF next
  <2>3. state.revisions < MaxPlanRevisions
    BY <2>1, Zenon DEF GraphInv, PlansInv
  <2>4. RevisionsLeft(next) = 0 /\ RevisionsLeft(state) = 1
    BY <1>1, <2>2, <2>3 DEF RevisionsLeft, MaxPlanRevisions
  <2>5. Ahead("plan") = 9 /\ Ahead(pc) = 7 /\ "plan" \in Nodes
    BY <2>1 DEF Ahead, Nodes
  <2>6. 15 * RevisionsLeft(next) + Ahead("plan") < 15 * RevisionsLeft(state) + Ahead(pc)
    BY <2>4, <2>5
  <2> QED BY <1>1, <2>1, <2>2, <2>5, <2>6, GoingOn
<1>11. CASE PlanFailed
  <2> DEFINE next == state
  <2>1. pc = "plan_failed" /\ Goto("update_memory", next)
    BY <1>11 DEF PlanFailed
  <2>2. next.revisions = state.revisions
    BY <1>1 DEF NewWorkflow
  <2> HIDE DEF next
  <2> QED BY <1>2, NodeOrder, <2>1, <2>2
<1>12. CASE ExecutePlan
  <2> DEFINE next == [state EXCEPT
         !.current = IF Open(state) = {} THEN NoTask ELSE FirstOpen(state)]
  <2>1. pc = "execute_plan" /\ Goto("optimize_plan", next)
    BY <1>12 DEF ExecutePlan
  <2>2. next.revisions = state.revisions
    BY <1>1 DEF NewWorkflow
  <2> HIDE DEF next
  <2> QED BY <1>2, NodeOrder, <2>1, <2>2
<1>13. CASE OptimizePlan
  <2> DEFINE next == [state EXCEPT !.path = PathOf(state), !.chains = ChainsOf(state)]
  <2>1. pc = "optimize_plan" /\ Goto("state_analysis", next)
    BY <1>13 DEF OptimizePlan
  <2>2. next.revisions = state.revisions
    BY <1>1 DEF NewWorkflow
  <2> HIDE DEF next
  <2> QED BY <1>2, NodeOrder, <2>1, <2>2
<1>14. CASE AnalyzeState
  <2> DEFINE next == [state EXCEPT !.pending = {state.tasks[i].id : i \in Open(state)}]
  <2>1. pc = "state_analysis" /\ Goto("detect_blockers", next)
    BY <1>14 DEF AnalyzeState
  <2>2. next.revisions = state.revisions
    BY <1>1 DEF NewWorkflow
  <2> HIDE DEF next
  <2> QED BY <1>2, NodeOrder, <2>1, <2>2
<1>15. CASE DetectBlockers
  <2> DEFINE next == [state EXCEPT !.blocked = BlockedTasks(state)]
  <2>1. pc = "detect_blockers" /\ Goto("recommend", next)
    BY <1>15 DEF DetectBlockers, BlockedTasks
  <2>2. next.revisions = state.revisions
    BY <1>1 DEF NewWorkflow
  <2> HIDE DEF next
  <2> QED BY <1>2, NodeOrder, <2>1, <2>2
<1>16. CASE Recommend
  <2> DEFINE next(rec) == [state EXCEPT !.rec = rec]
  <2>1. pc = "recommend" /\ \E rec \in Recommendations(state) : Goto("update_memory", next(rec))
    BY <1>16 DEF Recommend
  <2>2. \A rec : next(rec).revisions = state.revisions
    BY <1>1 DEF NewWorkflow
  <2> HIDE DEF next
  <2> QED BY <1>1, <1>2, NodeOrder, <2>1, <2>2
<1>17. CASE UpdateMemory
  <2>1. pc' = "idle"
    BY <1>17 DEF UpdateMemory
  <2> QED BY <1>1, <2>1, RunIsOver
<1> QED BY <1>3, <1>4, <1>5, <1>6, <1>7, <1>8, <1>9, <1>10, <1>11, <1>12, <1>13, <1>14, <1>15,
           <1>16, <1>17, Zenon DEF NodeStep

\* While a run is under way every step shortens it, also where the plan is revised
\* or the language model is asked again; so no run has more steps than the bound,
\* however it is scheduled (graph.py; MAX_PLAN_REVISIONS; chat_json).
THEOREM RunsGetShorter ==
    Spec => /\ [](StepsLeft \in 0..((Retries + 1) * (15 * MaxPlanRevisions + 14) + Retries))
            /\ [][pc # "idle" => StepsLeft' < StepsLeft]_vars
<1> DEFINE Bounded == StepsLeft \in 0..((Retries + 1) * (15 * MaxPlanRevisions + 14) + Retries)
<1>1. TypeOK => Bounded
  BY StepsLeftType
<1>2. GraphInv /\ TypeOK /\ [Next]_vars => [pc # "idle" => StepsLeft' < StepsLeft]_vars
  <2> SUFFICES ASSUME GraphInv, TypeOK, Next, pc # "idle"
               PROVE  StepsLeft' < StepsLeft
    OBVIOUS
  <2>1. CASE NodeStep
    BY <2>1, GraphAssumption, NodesShorten
  <2>2. CASE NodeRaises
    <3>1. pc' = "idle"
      BY <2>2 DEF NodeRaises, Fail, Goto
    <3> QED BY <3>1, RunIsOver
  <2>3. CASE FirstAnalysis \/ Refresh \/ \E ids \in SUBSET Reportable : Continue(ids)
    BY <2>3 DEF FirstAnalysis, Refresh, Continue, Begin
  <2> QED BY <2>1, <2>2, <2>3, Zenon DEF Next
<1> HIDE DEF Bounded
<1>3. Spec => []Bounded /\ [][pc # "idle" => StepsLeft' < StepsLeft]_vars
  BY <1>1, <1>2, GraphInvariant, GraphTypesCorrect, PTL DEF Spec
<1> QED BY <1>3 DEF Bounded
=============================================================================
