-------------------------- MODULE MCAnalysisGraph --------------------------
(* Small instances of AnalysisGraph. *)
EXTENDS AnalysisGraph

CONSTANTS r1, r2

Req(id, category) == [id |-> id, category |-> category]

\* One or two requirements, with and without approvals, and a repeated id.
SomeRequirements ==
    {<<Req(r1, "approval")>>,
     <<Req(r1, "process"), Req(r2, "approval")>>,
     <<Req(r1, "approval"), Req(r2, "approval")>>,
     <<Req(r1, "approval"), Req(r1, "definition")>>}

SomeExtractions == SomeRequirements \cup {<<>>}

Job(id, req, approval, effort, deps) ==
    [id |-> id, req |-> req, approval |-> approval, effort |-> effort, deps |-> deps]

\* Three tasks with every graph of dependencies, and three tasks with every
\* effort and dependencies on earlier ones only.
AnyGraph ==
    {<<Job(1, r1, TRUE, 1, a), Job(2, NoReq, FALSE, 1, b), Job(3, NoReq, FALSE, 1, c)>> :
       a, b, c \in SUBSET (1..3)}
AnyEffort ==
    {<<Job(1, r1, TRUE, e[1], {}), Job(2, NoReq, FALSE, e[2], b),
       Job(3, NoReq, FALSE, e[3], c)>> :
       e \in [1..3 -> {1, 3}], b \in SUBSET {1}, c \in SUBSET {1, 2}}

\* Up to two tasks with any ids, requirements and approvals, and one that
\* depends on a task that is not there.
AnyTask ==
    {Job(id, req, approval, 1, {}) :
       id \in 0..2, req \in {r1, r2, NoReq}, approval \in BOOLEAN}
AnyCoverage ==
    {<<>>} \cup {<<t>> : t \in AnyTask} \cup {<<t, u>> : t, u \in AnyTask}
        \cup {<<Job(1, r1, TRUE, 1, {2})>>}

Plans(reqs, plans) == {[reqs |-> reqs, tasks |-> p] : p \in plans}

SomePlans ==
    Plans(<<Req(r1, "approval")>>, AnyGraph \cup AnyEffort)
        \cup UNION {Plans(reqs, AnyCoverage) : reqs \in SomeRequirements}
=============================================================================
