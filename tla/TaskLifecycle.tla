--------------------------- MODULE TaskLifecycle ---------------------------
(***************************************************************************)
(* The tasks of one workspace workflow (backend/app/workspace.py): the     *)
(* status transitions users request, the readiness that every write        *)
(* recomputes from the dependency graph, and the edits of that graph.      *)
(*                                                                         *)
(* A request is one step here: each handler reads the row, checks and      *)
(* writes it back.  What happens when handlers overlap is the subject of   *)
(* Workspace.                                                              *)
(***************************************************************************)
CONSTANT TaskIds    \* the ids a plan may use

VARIABLES
    deps,       \* the dependencies of each task of the plan
    status,     \* Task.status
    readiness,  \* Task.readiness
    completed,  \* WorkflowState.completed_tasks
    last        \* how the last request was answered

vars == <<deps, status, readiness, completed, last>>

-----------------------------------------------------------------------------
Statuses == {"pending", "ready", "in_progress", "completed", "blocked", "cancelled"}
Readinesses == {"waiting", "ready", "complete", "blocked", "cancelled"}

\* The events that requests append, and how requests are refused: a transition
\* that is not in the table, one that must wait for dependencies, a plan that
\* TaskPlan.validate_tasks rejects.
Answers ==
    [kind : {"workflow_synced", "task_status_changed", "task_edited", "plan_revised",
             "not_allowed", "not_ready", "invalid"},
     task : TaskIds \cup {"-"}]

Answer(kind, task) == [kind |-> kind, task |-> task]

Tasks == DOMAIN deps

TypeOK ==
    /\ Tasks \subseteq TaskIds
    /\ deps \in [Tasks -> SUBSET TaskIds]
    /\ status \in [Tasks -> Statuses]
    /\ readiness \in [Tasks -> Readinesses]
    /\ completed \subseteq TaskIds
    /\ last \in Answers

-----------------------------------------------------------------------------
(* TaskPlan.validate_tasks: known dependencies and no cycle.  The code looks *)
(* for a cycle depth first; that there is none is said here directly: every  *)
(* nonempty set of tasks has one that depends on none of the set.            *)

Known(dp) == \A t \in DOMAIN dp : dp[t] \subseteq DOMAIN dp

\* Mutant: only a task that depends on itself is found.
Acyclic_SelfOnly(dp) == \A t \in DOMAIN dp : t \notin dp[t]

Acyclic(dp) ==
    \A S \in SUBSET DOMAIN dp : S # {} => \E t \in S : dp[t] \cap S = {}

Valid(dp) == Known(dp) /\ Acyclic(dp)

-----------------------------------------------------------------------------
(* recompute_readiness.  The loop changes a status only between "pending"    *)
(* and "ready" and reads only which statuses are "completed", so its result  *)
(* does not depend on the order of the tasks.                                *)

DependenciesDone(dp, st, t) == \A d \in dp[t] : st[d] = "completed"

SettledStatus(dp, st) ==
    [t \in DOMAIN st |->
       IF st[t] \notin {"pending", "ready"} THEN st[t]
       ELSE IF DependenciesDone(dp, st, t) THEN "ready" ELSE "pending"]

\* Mutant: a task that is not settled otherwise shows its status.
SettledReadiness_Status(dp, st) ==
    [t \in DOMAIN st |->
       IF st[t] = "completed" THEN "complete" ELSE st[t]]

SettledReadiness(dp, st) ==
    [t \in DOMAIN st |->
       CASE st[t] = "completed" -> "complete"
         [] st[t] \in {"cancelled", "blocked"} -> st[t]
         [] OTHER -> IF DependenciesDone(dp, st, t) THEN "ready" ELSE "waiting"]

\* _write: recompute_readiness, then the row.
Store(dp, st) ==
    /\ deps' = dp
    /\ status' = SettledStatus(dp, st)
    /\ readiness' = SettledReadiness(dp, st)

Refuse(kind, task) ==
    /\ last' = Answer(kind, task)
    /\ UNCHANGED <<deps, status, readiness, completed>>

-----------------------------------------------------------------------------
(* transition_task *)

\* Mutant: a completed task may be reopened.
Allowed_Reopen ==
    [pending     |-> {"ready", "blocked", "cancelled"},
     ready       |-> {"in_progress", "blocked", "cancelled", "pending"},
     in_progress |-> {"completed", "blocked", "cancelled"},
     blocked     |-> {"pending", "ready", "cancelled"},
     completed   |-> {"pending"},
     cancelled   |-> {}]

Allowed ==
    [pending     |-> {"ready", "blocked", "cancelled"},
     ready       |-> {"in_progress", "blocked", "cancelled", "pending"},
     in_progress |-> {"completed", "blocked", "cancelled"},
     blocked     |-> {"pending", "ready", "cancelled"},
     completed   |-> {},
     cancelled   |-> {}]

MustBeReady(target) == target \in {"ready", "in_progress"}

Transition(t, target) ==
    LET now   == SettledStatus(deps, status)
        ready == SettledReadiness(deps, status)
    IN  IF target \notin Allowed[now[t]] THEN Refuse("not_allowed", t)
        ELSE IF MustBeReady(target) /\ ready[t] # "ready" THEN Refuse("not_ready", t)
        ELSE /\ Store(deps, [now EXCEPT ![t] = target])
             /\ completed' = {u \in Tasks : [now EXCEPT ![t] = target][u] = "completed"}
             /\ last' = Answer("task_status_changed", t)

-----------------------------------------------------------------------------
(* Edits *)

\* PATCH of a task's dependencies, whatever the task's status.  A plan that
\* validate_tasks rejects raises out of the write, which is rolled back.
Patch(t, ds) ==
    LET dp == [deps EXCEPT ![t] = ds]
    IN  IF ~Valid(dp) THEN Refuse("invalid", t)
        ELSE /\ Store(dp, status)
             /\ last' = Answer("task_edited", t)
             /\ UNCHANGED completed

\* A plan revision replaces all tasks by the client's, with the client's
\* statuses; completed_tasks stays as it was.
Revise(dp, st) ==
    IF ~Valid(dp) THEN Refuse("invalid", "-")
    ELSE /\ Store(dp, st)
         /\ last' = Answer("plan_revised", "-")
         /\ UNCHANGED completed

\* ensure, and the save of a refreshed analysis: the tasks of the memory store
\* replace those of the row.  The planner gives no task a dependency; execute_plan
\* marks the tasks in completed_tasks, unless the plan was rejected.
Sync(ids, marked, done) ==
    /\ Store([t \in ids |-> {}],
             [t \in ids |-> IF t \in marked THEN "completed" ELSE "pending"])
    /\ completed' = done
    /\ last' = Answer("workflow_synced", "-")

\* The plans a client sends: every valid one, and one with a cycle per task.
RevisedPlans ==
    {dp \in UNION {[ids -> SUBSET ids] : ids \in SUBSET TaskIds} : Valid(dp)}
      \cup {[u \in {t} |-> {t}] : t \in TaskIds}

\* Bound: a client keeps the statuses it was shown for some of the tasks and
\* leaves the default, "pending", for the others.
KeptStatus(ids, kept) ==
    [t \in ids |-> IF t \in kept THEN status[t] ELSE "pending"]

-----------------------------------------------------------------------------
\* The planner gives no task a dependency (build_candidate_plan); ensure writes
\* the pending tasks, which makes them ready.
Init ==
    \E ids \in SUBSET TaskIds :
      /\ deps = [t \in ids |-> {}]
      /\ status = [t \in ids |-> "ready"]
      /\ readiness = [t \in ids |-> "ready"]
      /\ completed = {}
      /\ last = Answer("workflow_synced", "-")

ReviseSome ==
    \E dp \in RevisedPlans :
      \E kept \in SUBSET (Tasks \cap DOMAIN dp) :
        Revise(dp, KeptStatus(DOMAIN dp, kept))

SyncSome ==
    \E ids, done \in SUBSET TaskIds :
      \E marked \in {ids \cap done, {}} : Sync(ids, marked, done)

Next ==
    \/ SyncSome
    \/ \E t \in Tasks, target \in Statuses : Transition(t, target)
    \/ \E t \in Tasks, ds \in SUBSET TaskIds : Patch(t, ds)
    \/ ReviseSome

Spec == Init /\ [][Next]_vars

-----------------------------------------------------------------------------
(* Properties *)

\* Work is done in dependency order.
InOrder ==
    \A t \in Tasks :
      status[t] \in {"in_progress", "completed"} => DependenciesDone(deps, status, t)

\* As long as nothing is blocked or cancelled, an unfinished plan has a task
\* that is ready or in progress: no sequence of edits and transitions leaves
\* everyone waiting on everyone (validate_tasks and recompute_readiness).
AlwaysAWayForward ==
    \/ \A t \in Tasks : status[t] = "completed"
    \/ \E t \in Tasks : status[t] \in {"ready", "in_progress", "blocked", "cancelled"}

\* A status transition never breaks the dependency order; only an edit of the
\* plan may put started work after unfinished work.
TransitionsKeepOrder ==
    [][last'.kind = "task_status_changed" /\ InOrder => InOrder']_vars
=============================================================================
