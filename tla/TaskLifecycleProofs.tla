------------------------ MODULE TaskLifecycleProofs ------------------------
(***************************************************************************)
(* Proofs about TaskLifecycle, for any set of task ids and any dependency  *)
(* graph: its type invariant, that the plan never runs into a standstill,  *)
(* and that transitions respect the dependency order.                      *)
(***************************************************************************)
EXTENDS TaskLifecycle, TLAPS

\* The stored tasks are as recompute_readiness leaves them.
Settled == status = SettledStatus(deps, status)

\* The inductive invariant behind AlwaysAWayForward.
PlanInv == TypeOK /\ Valid(deps) /\ Settled

-----------------------------------------------------------------------------
\* recompute_readiness keeps the types, and running it twice is running it once.
LEMMA SettledType ==
    ASSUME NEW ids \in SUBSET TaskIds,
           NEW dp \in [ids -> SUBSET TaskIds], NEW st \in [ids -> Statuses],
           Known(dp)
    PROVE  /\ SettledStatus(dp, st) \in [ids -> Statuses]
           /\ SettledReadiness(dp, st) \in [ids -> Readinesses]
           /\ SettledStatus(dp, SettledStatus(dp, st)) = SettledStatus(dp, st)
           /\ \A t \in ids : SettledStatus(dp, st)[t] = "completed" <=> st[t] = "completed"
<1> DEFINE new == SettledStatus(dp, st)
<1>1. DOMAIN st = ids /\ DOMAIN dp = ids
  OBVIOUS
<1>2. \A t \in ids :
        new[t] = IF st[t] \notin {"pending", "ready"} THEN st[t]
                 ELSE IF DependenciesDone(dp, st, t) THEN "ready" ELSE "pending"
  BY <1>1 DEF SettledStatus
<1>3. new \in [ids -> Statuses]
  BY <1>1 DEF SettledStatus, Statuses
<1>4. \A t \in ids : new[t] = "completed" <=> st[t] = "completed"
  BY <1>2
<1>5. SettledReadiness(dp, st) \in [ids -> Readinesses]
  BY <1>1 DEF SettledReadiness, Readinesses
<1>6. \A t \in ids : DependenciesDone(dp, new, t) <=> DependenciesDone(dp, st, t)
  BY <1>1, <1>4 DEF DependenciesDone, Known
<1>7. SettledStatus(dp, new) = new
  <2>1. \A t \in ids :
          (IF new[t] \notin {"pending", "ready"} THEN new[t]
           ELSE IF DependenciesDone(dp, new, t) THEN "ready" ELSE "pending") = new[t]
    BY <1>2, <1>6
  <2>2. SettledStatus(dp, new)
          = [t \in ids |->
               IF new[t] \notin {"pending", "ready"} THEN new[t]
               ELSE IF DependenciesDone(dp, new, t) THEN "ready" ELSE "pending"]
    BY <1>3 DEF SettledStatus
  <2> HIDE DEF new
  <2> QED
    BY <1>3, <2>1, <2>2
<1> QED
  BY <1>3, <1>4, <1>5, <1>7

\* Whatever _write stores satisfies the invariant, if validate_tasks accepts it.
LEMMA StoreInv ==
    ASSUME NEW ids \in SUBSET TaskIds,
           NEW dp \in [ids -> SUBSET TaskIds], NEW st \in [ids -> Statuses],
           Valid(dp), Store(dp, st), completed' \subseteq TaskIds, last' \in Answers
    PROVE  PlanInv'
<1>1. DOMAIN dp = ids /\ Known(dp)
  BY DEF Valid
<1>2. deps' = dp /\ status' = SettledStatus(dp, st)
         /\ readiness' = SettledReadiness(dp, st)
  BY DEF Store
<1>3. TypeOK'
  BY <1>1, <1>2, SettledType DEF TypeOK, Tasks
<1>4. Valid(deps)'
  BY <1>2 DEF Valid, Known, Acyclic
<1>5. Settled'
  <2>1. SettledStatus(dp, SettledStatus(dp, st)) = SettledStatus(dp, st)
    BY <1>1, SettledType
  <2> QED
    BY <1>2, <2>1 DEF Settled
<1> QED
  BY <1>3, <1>4, <1>5 DEF PlanInv

\* A refused request changes nothing but the answer.
LEMMA RefuseInv ==
    ASSUME PlanInv, NEW kind, NEW task, Answer(kind, task) \in Answers,
           Refuse(kind, task)
    PROVE  PlanInv'
BY DEF PlanInv, Refuse, TypeOK, Tasks, Valid, Known, Acyclic, Settled,
       SettledStatus, DependenciesDone

-----------------------------------------------------------------------------
\* A plan whose tasks have no dependencies is valid, and all of it is ready.
LEMMA PlanInvInit == Init => PlanInv
<1> SUFFICES ASSUME Init PROVE PlanInv
  OBVIOUS
<1> PICK ids \in SUBSET TaskIds :
      /\ deps = [t \in ids |-> {}]
      /\ status = [t \in ids |-> "ready"]
      /\ readiness = [t \in ids |-> "ready"]
      /\ completed = {}
      /\ last = Answer("workflow_synced", "-")
  BY DEF Init
<1>1. TypeOK
  BY DEF TypeOK, Tasks, Statuses, Readinesses, Answers, Answer
<1>2. Valid(deps)
  BY DEF Valid, Known, Acyclic
<1>3. Settled
  BY DEF Settled, SettledStatus, DependenciesDone
<1> QED
  BY <1>1, <1>2, <1>3 DEF PlanInv

\* Every accepted request stores a valid plan, every other one leaves it alone.
LEMMA PlanInvNext ==
    ASSUME PlanInv, [Next]_vars
    PROVE  PlanInv'
<1> USE DEF PlanInv
<1>0. Tasks \in SUBSET TaskIds /\ deps \in [Tasks -> SUBSET TaskIds]
        /\ status \in [Tasks -> Statuses] /\ Known(deps)
  BY DEF TypeOK, Valid
<1>1. ASSUME NEW t \in Tasks, NEW target \in Statuses, Transition(t, target)
      PROVE  PlanInv'
  <2> DEFINE now == SettledStatus(deps, status)
             st  == [now EXCEPT ![t] = target]
  <2>1. now \in [Tasks -> Statuses]
    BY <1>0, SettledType
  <2>2. st \in [Tasks -> Statuses]
    BY <2>1
  <2>3. t \in TaskIds
    BY <1>0
  <2>4. CASE /\ Store(deps, st)
             /\ completed' = {u \in Tasks : st[u] = "completed"}
             /\ last' = Answer("task_status_changed", t)
    <3>1. completed' \subseteq TaskIds /\ last' \in Answers
      BY <1>0, <2>3, <2>4 DEF Answers, Answer
    <3> HIDE DEF st
    <3> QED
      BY <1>0, <2>2, <2>4, <3>1, StoreInv
  <2>5. CASE Refuse("not_allowed", t)
    BY <2>3, <2>5, RefuseInv DEF Answers, Answer
  <2>6. CASE Refuse("not_ready", t)
    BY <2>3, <2>6, RefuseInv DEF Answers, Answer
  <2> QED
    BY <1>1, <2>4, <2>5, <2>6 DEF Transition
<1>2. ASSUME NEW t \in Tasks, NEW ds \in SUBSET TaskIds, Patch(t, ds)
      PROVE  PlanInv'
  <2> DEFINE dp == [deps EXCEPT ![t] = ds]
  <2>1. dp \in [Tasks -> SUBSET TaskIds]
    BY <1>0
  <2>2. t \in TaskIds
    BY <1>0
  <2>3. CASE Valid(dp) /\ Store(dp, status) /\ last' = Answer("task_edited", t)
               /\ UNCHANGED completed
    <3>1. completed' \subseteq TaskIds /\ last' \in Answers
      BY <2>2, <2>3 DEF Answers, Answer, TypeOK
    <3> HIDE DEF dp
    <3> QED
      BY <1>0, <2>1, <2>3, <3>1, StoreInv
  <2>4. CASE Refuse("invalid", t)
    BY <2>2, <2>4, RefuseInv DEF Answers, Answer
  <2> QED
    BY <1>2, <2>3, <2>4 DEF Patch
<1>3. CASE ReviseSome
  <2> PICK dp \in RevisedPlans :
        \E kept \in SUBSET (Tasks \cap DOMAIN dp) :
          Revise(dp, KeptStatus(DOMAIN dp, kept))
    BY <1>3 DEF ReviseSome
  <2> PICK kept \in SUBSET (Tasks \cap DOMAIN dp) :
        Revise(dp, KeptStatus(DOMAIN dp, kept))
    OBVIOUS
  <2> DEFINE ids == DOMAIN dp
             st  == KeptStatus(ids, kept)
  <2>1. ids \in SUBSET TaskIds /\ dp \in [ids -> SUBSET TaskIds]
    <3>1. CASE \E S \in SUBSET TaskIds : dp \in [S -> SUBSET S]
      BY <3>1
    <3>2. CASE \E t \in TaskIds : dp = [u \in {t} |-> {t}]
      BY <3>2
    <3> QED
      BY <3>1, <3>2 DEF RevisedPlans
  <2>2. st \in [ids -> Statuses]
    BY <1>0 DEF KeptStatus, Statuses
  <2>3. CASE Valid(dp) /\ Store(dp, st) /\ last' = Answer("plan_revised", "-")
               /\ UNCHANGED completed
    <3>1. completed' \subseteq TaskIds /\ last' \in Answers
      BY <2>3 DEF Answers, Answer, TypeOK
    <3> HIDE DEF st
    <3> QED
      BY <2>1, <2>2, <2>3, <3>1, StoreInv
  <2>4. CASE Refuse("invalid", "-")
    BY <2>4, RefuseInv DEF Answers, Answer
  <2> QED
    BY <2>3, <2>4 DEF Revise
<1>4. CASE SyncSome
  <2> PICK ids \in SUBSET TaskIds : \E done \in SUBSET TaskIds :
        \E marked \in {ids \cap done, {}} : Sync(ids, marked, done)
    BY <1>4 DEF SyncSome
  <2> PICK done \in SUBSET TaskIds :
        \E marked \in {ids \cap done, {}} : Sync(ids, marked, done)
    OBVIOUS
  <2> PICK marked \in {ids \cap done, {}} : Sync(ids, marked, done)
    OBVIOUS
  <2> DEFINE dp == [t \in ids |-> {}]
             st == [t \in ids |-> IF t \in marked THEN "completed" ELSE "pending"]
  <2>1. dp \in [ids -> SUBSET TaskIds] /\ Valid(dp)
    BY DEF Valid, Known, Acyclic
  <2>2. st \in [ids -> Statuses]
    BY DEF Statuses
  <2>3. Store(dp, st) /\ completed' \subseteq TaskIds /\ last' \in Answers
    BY DEF Sync, Answers, Answer
  <2> HIDE DEF dp, st
  <2> QED
    BY <2>1, <2>2, <2>3, StoreInv
<1>5. CASE UNCHANGED vars
  BY <1>5 DEF vars, TypeOK, Tasks, Valid, Known, Acyclic, Settled,
              SettledStatus, DependenciesDone
<1> QED
  BY <1>1, <1>2, <1>3, <1>4, <1>5 DEF Next

\* Among the unfinished tasks of a valid plan one has all its dependencies
\* completed; recompute_readiness has made it ready if it was pending.
LEMMA WayForward == PlanInv => AlwaysAWayForward
<1> SUFFICES ASSUME PlanInv, \E t \in Tasks : status[t] # "completed"
             PROVE  \E t \in Tasks :
                      status[t] \in {"ready", "in_progress", "blocked", "cancelled"}
  BY DEF AlwaysAWayForward
<1> DEFINE Open == {t \in Tasks : status[t] # "completed"}
<1>1. PICK t \in Open : deps[t] \cap Open = {}
  BY DEF PlanInv, Valid, Acyclic, Tasks
<1>2. t \in Tasks /\ status[t] \in Statuses \ {"completed"}
  BY DEF PlanInv, TypeOK
<1>3. deps[t] \subseteq Tasks
  BY <1>2 DEF PlanInv, Valid, Known, Tasks
<1>4. DependenciesDone(deps, status, t)
  BY <1>1, <1>3 DEF DependenciesDone
<1>5. status[t] # "pending"
  BY <1>2, <1>4 DEF PlanInv, TypeOK, Settled, SettledStatus
<1> QED
  BY <1>2, <1>5 DEF Statuses

\* The model's variables keep their types.
THEOREM PlanTypesCorrect == Spec => []TypeOK
<1>1. PlanInv /\ [Next]_vars => PlanInv'
  BY PlanInvNext
<1>2. PlanInv => TypeOK
  BY DEF PlanInv
<1> QED
  BY PlanInvInit, <1>1, <1>2, PTL DEF Spec

\* No sequence of transitions, patches and revisions, over any dependency graph,
\* leaves an unfinished plan without a task to work on or to unblock.
THEOREM NoStandstill == Spec => []AlwaysAWayForward
<1>1. PlanInv /\ [Next]_vars => PlanInv'
  BY PlanInvNext
<1> QED
  BY PlanInvInit, <1>1, WayForward, PTL DEF Spec

-----------------------------------------------------------------------------
\* An accepted transition keeps work in dependency order: a completed task never
\* leaves "completed", and a task starts only when recompute_readiness calls it
\* ready.
LEMMA TransitionOrder ==
    ASSUME PlanInv, InOrder, NEW t \in Tasks, NEW target \in Statuses,
           Transition(t, target), last'.kind = "task_status_changed"
    PROVE  InOrder'
<1> DEFINE st == [status EXCEPT ![t] = target]
<1>0. /\ deps \in [Tasks -> SUBSET Tasks]
      /\ status \in [Tasks -> Statuses]
      /\ SettledStatus(deps, status) = status
  BY DEF PlanInv, TypeOK, Valid, Known, Tasks, Settled
<1>1. /\ target \in Allowed[status[t]]
      /\ MustBeReady(target) => SettledReadiness(deps, status)[t] = "ready"
      /\ Store(deps, st)
  BY <1>0 DEF Transition, Refuse, Answer
<1>2. st \in [Tasks -> Statuses] /\ st[t] = target
        /\ \A u \in Tasks \ {t} : st[u] = status[u]
  BY <1>0
<1>3. status[t] # "completed"
  BY <1>0, <1>1 DEF Allowed
<1>4. \A u \in Tasks : status[u] = "completed" => st[u] = "completed"
  BY <1>2, <1>3
<1>5. \A u \in Tasks :
        st[u] \in {"in_progress", "completed"} => DependenciesDone(deps, status, u)
  <2>1. CASE target = "in_progress"
    <3>1. SettledReadiness(deps, status)[t] = "ready"
      BY <1>1, <2>1 DEF MustBeReady
    <3>2. DependenciesDone(deps, status, t)
      BY <1>0, <3>1 DEF SettledReadiness
    <3> QED
      BY <1>2, <3>2 DEF InOrder
  <2>2. CASE target = "completed"
    <3>1. status[t] = "in_progress"
      BY <1>0, <1>1, <2>2 DEF Allowed, Statuses
    <3> QED
      BY <1>2, <3>1 DEF InOrder
  <2>3. CASE target \notin {"in_progress", "completed"}
    BY <1>2, <2>3 DEF InOrder
  <2> QED
    BY <2>1, <2>2, <2>3
<1>6. deps' = deps /\ status' = SettledStatus(deps, st)
  BY <1>1 DEF Store
<1> HIDE DEF st
<1>7. \A u \in Tasks :
        /\ status'[u] = "completed" <=> st[u] = "completed"
        /\ status'[u] = "in_progress" => st[u] = "in_progress"
  BY <1>2, <1>6 DEF SettledStatus
<1>8. \A u \in Tasks :
        status'[u] \in {"in_progress", "completed"} => DependenciesDone(deps, status', u)
  BY <1>0, <1>4, <1>5, <1>7 DEF DependenciesDone
<1> QED
  BY <1>6, <1>8 DEF InOrder, Tasks, DependenciesDone

\* A status transition never puts started work after unfinished work, whatever
\* edits were made before it.
THEOREM TransitionsAreOrdered == Spec => TransitionsKeepOrder
<1>1. PlanInv /\ [Next]_vars => PlanInv'
  BY PlanInvNext
<1>2. ASSUME PlanInv, [Next]_vars
      PROVE  [last'.kind = "task_status_changed" /\ InOrder => InOrder']_vars
  <2> SUFFICES ASSUME Next, last'.kind = "task_status_changed", InOrder
               PROVE  InOrder'
    BY <1>2
  <2>1. ASSUME NEW t \in Tasks, NEW ds \in SUBSET TaskIds, Patch(t, ds)
        PROVE  FALSE
    BY <2>1 DEF Patch, Refuse, Answer
  <2>2. CASE ReviseSome
    BY <2>2 DEF ReviseSome, Revise, Refuse, Answer
  <2>3. CASE SyncSome
    BY <2>3 DEF SyncSome, Sync, Answer
  <2> QED
    BY <1>2, <2>1, <2>2, <2>3, TransitionOrder DEF Next
<1> QED
  BY PlanInvInit, <1>1, <1>2, PTL DEF Spec, TransitionsKeepOrder
=============================================================================
