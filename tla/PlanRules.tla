----------------------------- MODULE PlanRules -----------------------------
(***************************************************************************)
(* How a plan is built from requirements, checked and revised              *)
(* (agent/nodes/planning.py, agent/validation.py,                          *)
(* agent/nodes/plan_validation.py).                                        *)
(*                                                                         *)
(* A requirement is its id and category.  A candidate task is its id, the  *)
(* requirement it serves, whether it names approvals, its effort and its   *)
(* dependencies; the id "task_n" is the number n, and any other name is a  *)
(* number below 1.                                                         *)
(***************************************************************************)
EXTENDS DependencyGraph

CONSTANTS ReqIds,   \* requirement ids
          NoReq     \* the requirement_id of a task that serves none

Categories == {"process", "policy", "approval", "evidence", "definition"}
Requirement == [id : ReqIds, category : Categories]
CandidateTask == [id : Int, req : ReqIds \cup {NoReq}, approval : BOOLEAN,
                  effort : 1..4, deps : {d \in SUBSET Int : IsFiniteSet(d)}]

Ids(cand) == {cand[i].id : i \in DOMAIN cand}
ReqsOf(reqs) == {reqs[i].id : i \in DOMAIN reqs}

-----------------------------------------------------------------------------
(* Building *)

CategoryEffort(category) ==
    IF category \in {"process", "policy", "approval"} THEN 2 ELSE 1

\* Mutant: no task of a built plan names approvals.
BuildPlan_NoApprovals(reqs) ==
    [i \in 1..Len(reqs) |->
       [id |-> i, req |-> reqs[i].id, approval |-> FALSE,
        effort |-> CategoryEffort(reqs[i].category), deps |-> {}]]

BuildPlan(reqs) ==
    [i \in 1..Len(reqs) |->
       [id |-> i, req |-> reqs[i].id,
        approval |-> reqs[i].category = "approval",
        effort |-> CategoryEffort(reqs[i].category), deps |-> {}]]

Covered(cand, r) == \E i \in DOMAIN cand : cand[i].req = r

Approved(cand, r) ==
    \E i \in DOMAIN cand : cand[i].req = r /\ cand[i].approval

\* A stored plan is kept, unless it misses a requirement and none of its ids
\* has the form the planner gives them.
MustRebuild(cand, reqs) ==
    /\ \E r \in ReqsOf(reqs) : ~Covered(cand, r)
    /\ \A id \in Ids(cand) : id < 1

\* The plan's tasks, without the approvals, which are not copied.
Materialised(cand) ==
    [i \in DOMAIN cand |->
       [id |-> cand[i].id, reqs |-> {cand[i].req} \ {NoReq},
        effort |-> cand[i].effort, deps |-> cand[i].deps]]

-----------------------------------------------------------------------------
(* Checking *)

\* The dictionary from ids to dependencies: of equal ids the last counts.
Graph(tasks) ==
    [id \in Ids(tasks) |->
       tasks[CHOOSE i \in DOMAIN tasks :
               /\ tasks[i].id = id
               /\ \A j \in DOMAIN tasks : j > i => tasks[j].id # id].deps]

UniqueIds(tasks) ==
    \A i, j \in DOMAIN tasks : tasks[i].id = tasks[j].id => i = j

\* Errors of validate_plan; the order of a task and its dependencies is only
\* a warning.
Valid(cand, reqs) ==
    /\ UniqueIds(cand)
    /\ \A i \in DOMAIN cand : cand[i].deps \subseteq Ids(cand)
    /\ Acyclic(Graph(cand))
    /\ \A r \in ReqsOf(reqs) : Covered(cand, r)
    /\ \A i \in DOMAIN reqs :
         reqs[i].category = "approval" => Approved(cand, reqs[i].id)

-----------------------------------------------------------------------------
(* Revising *)

\* The requirements by id: of equal ids the first gives the place, the last
\* the category.
Places(reqs) ==
    {i \in DOMAIN reqs : \A j \in DOMAIN reqs : j < i => reqs[j].id # reqs[i].id}

IsApproval(reqs, r) ==
    \E i \in DOMAIN reqs :
        /\ reqs[i] = [id |-> r, category |-> "approval"]
        /\ \A j \in DOMAIN reqs : j > i => reqs[j].id # r

Uncovered(cand, reqs) == {i \in Places(reqs) : ~Covered(cand, reqs[i].id)}

\* Judged on the plan as it was, so a requirement that is both uncovered and
\* unapproved gets two tasks.
Unapproved(cand, reqs) ==
    {i \in Places(reqs) :
       IsApproval(reqs, reqs[i].id) /\ ~Approved(cand, reqs[i].id)}

\* The k-th smallest place of a set.
Nth(places, k) ==
    CHOOSE i \in places : Cardinality({j \in places : j < i}) = k - 1

\* One task for each of the places, numbered from "first".
Added(reqs, places, first, approval) ==
    [k \in 1..Cardinality(places) |->
       [id |-> first + k - 1, req |-> reqs[Nth(places, k)].id,
        approval |-> approval, effort |-> 1, deps |-> {}]]

\* Mutant: numbering starts at the number of ids.
NextIndex_Last(cand) == Cardinality(Ids(cand))

NextIndex(cand) == Cardinality(Ids(cand)) + 1

Revised(cand, reqs) ==
    LET work == Uncovered(cand, reqs)
        approvals == Unapproved(cand, reqs)
        next == NextIndex(cand)
    IN  cand \o Added(reqs, work, next, FALSE)
             \o Added(reqs, approvals, next + Cardinality(work), TRUE)
=============================================================================
