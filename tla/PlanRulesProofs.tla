-------------------------- MODULE PlanRulesProofs --------------------------
(***************************************************************************)
(* Facts about building, checking and revising plans, and about what is    *)
(* computed on their dependencies: the layers of parallel work, the        *)
(* critical path and the search for a cycle.  They hold for all            *)
(* requirements, plans and finite graphs.                                  *)
(***************************************************************************)
EXTENDS PlanRules, TLAPS, FiniteSetTheorems, WellFoundedInduction

-----------------------------------------------------------------------------
(* The k-th smallest place *)

\* Every set of numbers that is not empty has a least one.
LEMMA LeastNumber ==
    ASSUME NEW T, T \subseteq Nat, T # {}
    PROVE  \E m \in T : \A n \in T : m <= n
<1> DEFINE R == StrictSubsetOrdering(Nat)
           below == {0..m : m \in T}
<1>1. below \subseteq FiniteSubsetsOf(Nat)
  <2> SUFFICES ASSUME NEW m \in T PROVE 0..m \in FiniteSubsetsOf(Nat)
    OBVIOUS
  <2>1. IsFiniteSet(0..m)
    <3>1. 0 \in Int /\ m \in Int
      OBVIOUS
    <3> QED BY ONLY <3>1, FS_Interval
  <2>2. 0..m \subseteq Nat
    OBVIOUS
  <2> QED BY <2>1, <2>2, Zenon DEF FiniteSubsetsOf
<1>2. PICK S \in below : \A U \in below : <<U, S>> \notin R
  <2>1. below # {}
    OBVIOUS
  <2> HIDE DEF below, R
  <2>2. IsWellFoundedOn(R, FiniteSubsetsOf(Nat))
    BY FS_StrictSubsetOrderingWellFounded, Zenon DEF R
  <2> QED BY ONLY <1>1, <2>1, <2>2, WFMin, Zenon
<1>3. PICK m \in T : S = 0..m
  BY <1>2
<1>4. ASSUME NEW n \in T PROVE m <= n
  <2> SUFFICES ASSUME n < m PROVE FALSE
    OBVIOUS
  <2>1. 0..n \in below
    OBVIOUS
  <2>2. 0..n \in SUBSET Nat /\ 0..m \in SUBSET Nat
    OBVIOUS
  <2>3. 0..n \subseteq 0..m
    OBVIOUS
  <2>4. 0..n # 0..m
    <3>1. m \in 0..m /\ m \notin 0..n
      OBVIOUS
    <3> QED BY <3>1
  <2>5. <<0..n, 0..m>> \in R
    BY <2>2, <2>3, <2>4 DEF StrictSubsetOrdering
  <2> QED BY <1>2, <1>3, <2>1, <2>5, Zenon
<1> QED BY <1>4

\* The places up to m, and how many they are.
UpTo(places, m) == {j \in places : j <= m}

LEMMA UpToFinite ==
    ASSUME NEW n \in Nat, NEW places, places \subseteq 1..n, NEW m
    PROVE  IsFiniteSet(UpTo(places, m)) /\ Cardinality(UpTo(places, m)) \in Nat
<1>1. IsFiniteSet(1..n)
  <2>1. 1 \in Int /\ n \in Int
    OBVIOUS
  <2> QED BY ONLY <2>1, FS_Interval
<1>2. UpTo(places, m) \in SUBSET (1..n)
  BY DEF UpTo
<1>3. IsFiniteSet(UpTo(places, m))
  BY ONLY <1>1, <1>2, FS_Subset, Zenon
<1> QED BY ONLY <1>3, FS_CardinalityType, Zenon

LEMMA UpToGrows ==
    ASSUME NEW n \in Nat, NEW places, places \subseteq 1..n, NEW m \in Nat
    PROVE  \/ UpTo(places, m + 1) = UpTo(places, m)
           \/ /\ m + 1 \in places
              /\ Cardinality(UpTo(places, m + 1)) = Cardinality(UpTo(places, m)) + 1
<1>0. \A j \in places : j \in Int /\ (j <= m + 1 <=> (j <= m \/ j = m + 1)) /\ ~ (m + 1 <= m)
  OBVIOUS
<1>1. CASE m + 1 \notin places
  BY <1>0, <1>1, Zenon DEF UpTo
<1>2. CASE m + 1 \in places
  <2>1. UpTo(places, m + 1) = UpTo(places, m) \cup {m + 1} /\ m + 1 \notin UpTo(places, m)
    BY <1>0, <1>2, Zenon DEF UpTo
  <2>2. IsFiniteSet(UpTo(places, m))
    BY UpToFinite
  <2>3. Cardinality(UpTo(places, m) \cup {m + 1}) = Cardinality(UpTo(places, m)) + 1
    BY ONLY <2>1, <2>2, FS_AddElement, Zenon
  <2> QED BY <1>2, <2>1, <2>3, Zenon
<1> QED BY <1>1, <1>2

\* A set has a k-th smallest element for each k up to its size.
LEMMA NthInSet ==
    ASSUME NEW n \in Nat, NEW places, places \subseteq 1..n,
           NEW k \in 1..Cardinality(places)
    PROVE  /\ Nth(places, k) \in places
           /\ Cardinality({j \in places : j < Nth(places, k)}) = k - 1
<1> DEFINE count(m) == Cardinality(UpTo(places, m))
           far == {m \in Nat : count(m) >= k}
<1>1. UpTo(places, n) = places /\ UpTo(places, 0) = {}
  <2>1. \A j \in places : j <= n /\ ~ (j <= 0)
    OBVIOUS
  <2> QED BY <2>1, Zenon DEF UpTo
<1>2. \A m \in Nat : count(m) \in Nat
  BY UpToFinite, Zenon
<1>3. count(n) = Cardinality(places) /\ count(0) = 0
  BY <1>1, FS_EmptySet
<1>4. \A m \in Nat : \/ UpTo(places, m + 1) = UpTo(places, m)
                     \/ m + 1 \in places /\ count(m + 1) = count(m) + 1
  BY UpToGrows, Zenon
<1>5. PICK m \in far : \A l \in far : m <= l
  <2>1. far \subseteq Nat /\ n \in far
    BY <1>2, <1>3
  <2> QED BY ONLY <2>1, LeastNumber, Zenon
<1> DEFINE l == m - 1
<1>6. l \in Nat /\ m = l + 1 /\ l \notin far /\ m \in Nat /\ count(m) >= k
  <2>1. m # 0
    BY <1>3, <1>5
  <2> QED BY <1>5, <2>1
<1>7. count(l) < k
  BY <1>2, <1>6
<1> HIDE DEF l
<1>8. m \in places /\ count(m) = count(l) + 1
  <2>1. CASE UpTo(places, l + 1) = UpTo(places, l)
    BY <1>2, <1>6, <1>7, <2>1
  <2>2. CASE l + 1 \in places /\ count(l + 1) = count(l) + 1
    BY <1>6, <2>2, Zenon
  <2> QED BY <1>4, <1>6, <2>1, <2>2, Zenon
<1>9. {j \in places : j < m} = UpTo(places, l)
  <2>1. \A j \in places : j < m <=> j <= l
    BY <1>6
  <2> QED BY <2>1, Zenon DEF UpTo
<1>10. Cardinality({j \in places : j < m}) = k - 1
  <2>1. Cardinality({j \in places : j < m}) = count(l)
    BY <1>9, Zenon
  <2>2. count(l) = k - 1
    BY <1>2, <1>6, <1>7, <1>8
  <2> QED BY ONLY <2>1, <2>2, Zenon
<1> QED BY <1>8, <1>10, Zenon DEF Nth

\* Each place of a set is the k-th smallest for some k up to its size.
LEMMA NthOnto ==
    ASSUME NEW n \in Nat, NEW places, places \subseteq 1..n, NEW p \in places
    PROVE  \E k \in 1..Cardinality(places) : Nth(places, k) = p
<1> DEFINE before(i) == {j \in places : j < i}
           k == Cardinality(before(p)) + 1
<1>1. \A i, j \in places : i \in Nat /\ (i < j \/ i = j \/ j < i)
  OBVIOUS
<1>2. IsFiniteSet(places)
  <2>1. places = UpTo(places, n)
    <3>1. \A j \in places : j <= n
      OBVIOUS
    <3> QED BY <3>1, Zenon DEF UpTo
  <2> QED BY <2>1, UpToFinite
<1>3. \A i : /\ IsFiniteSet(before(i)) /\ Cardinality(before(i)) \in Nat
             /\ Cardinality(before(i)) <= Cardinality(places)
             /\ Cardinality(before(i)) = Cardinality(places) => before(i) = places
  <2> TAKE i
  <2>1. before(i) \in SUBSET places
    OBVIOUS
  <2>2. /\ IsFiniteSet(before(i)) /\ Cardinality(before(i)) <= Cardinality(places)
        /\ Cardinality(places) = Cardinality(before(i)) => places = before(i)
    <3> HIDE DEF before
    <3> QED BY ONLY <1>2, <2>1, FS_Subset, Zenon
  <2>3. Cardinality(before(i)) \in Nat
    BY ONLY <2>2, FS_CardinalityType, Zenon
  <2> QED BY <2>2, <2>3, Zenon
<1>4. k \in 1..Cardinality(places)
  <2>1. p \notin before(p)
    OBVIOUS
  <2>2. Cardinality(places) \in Nat
    BY ONLY <1>2, FS_CardinalityType, Zenon
  <2>3. Cardinality(before(p)) # Cardinality(places)
    BY <1>3, <2>1, Zenon
  <2> HIDE DEF before
  <2> QED BY <1>3, <2>2, <2>3
<1>5. ASSUME NEW i \in places, NEW j \in places, i < j
      PROVE  Cardinality(before(i)) # Cardinality(before(j))
  <2>1. before(i) \in SUBSET before(j) /\ i \in before(j) /\ i \notin before(i)
    <3>1. ~ (i < i) /\ \A x \in places : x < i => x < j
      BY <1>1, <1>5
    <3> QED BY <1>5, <3>1, Zenon
  <2>2. IsFiniteSet(before(j))
    BY <1>3, Zenon
  <2>3. Cardinality(before(j)) = Cardinality(before(i)) => before(j) = before(i)
    <3> HIDE DEF before
    <3> QED BY ONLY <2>1, <2>2, FS_Subset, Zenon
  <2> QED BY ONLY <2>1, <2>3, Zenon
<1>6. Cardinality(before(p)) = k - 1
  BY <1>3
<1>7. \A i \in places : Cardinality(before(i)) = k - 1 => i = p
  <2> HIDE DEF k, before
  <2> QED BY <1>1, <1>5, <1>6, Zenon
<1>8. Nth(places, k) = p
  <2> HIDE DEF k
  <2> QED BY <1>6, <1>7, Zenon DEF Nth
<1> QED BY <1>4, <1>8

\* The k-th smallest grows with k.
LEMMA NthGrows ==
    ASSUME NEW n \in Nat, NEW places, places \subseteq 1..n,
           NEW j \in 1..Cardinality(places), NEW k \in 1..Cardinality(places)
    PROVE  /\ j <= k => Nth(places, j) <= Nth(places, k)
           /\ j # k => Nth(places, j) # Nth(places, k)
<1> DEFINE before(i) == {l \in places : l < i}
           a == Nth(places, j)
           b == Nth(places, k)
<1>1. /\ a \in places /\ Cardinality(before(a)) = j - 1
      /\ b \in places /\ Cardinality(before(b)) = k - 1
  BY NthInSet
<1>2. j \in Int /\ k \in Int /\ a \in Int /\ b \in Int
  <2> HIDE DEF a, b
  <2>1. \A l \in places : l \in Int
    OBVIOUS
  <2> QED BY <1>1, <2>1
<1>3. a # b \/ j = k
  BY <1>1, <1>2
<1>4. ASSUME b < a PROVE ~(j <= k)
  <2>1. before(b) \in SUBSET before(a)
    <3>1. \A l \in places : l < b => l < a
      BY <1>2, <1>4
    <3> QED BY <3>1
  <2>2. IsFiniteSet(before(a))
    <3>1. IsFiniteSet(1..n)
      <4>1. 1 \in Int /\ n \in Int
        OBVIOUS
      <4> QED BY ONLY <4>1, FS_Interval
    <3>2. before(a) \in SUBSET (1..n)
      OBVIOUS
    <3> QED BY ONLY <3>1, <3>2, FS_Subset, Zenon
  <2>3. Cardinality(before(b)) <= Cardinality(before(a))
    <3> HIDE DEF before
    <3> QED BY ONLY <2>1, <2>2, FS_Subset, Zenon
  <2>4. j # k
    BY <1>2, <1>4
  <2> QED BY <1>1, <1>2, <2>3, <2>4
<1> QED BY <1>2, <1>3, <1>4

-----------------------------------------------------------------------------
(* The ids and dependencies of a plan *)

\* With distinct ids the dictionary holds what the tasks say.
LEMMA GraphIsExact ==
    ASSUME NEW n \in Nat, NEW tasks, DOMAIN tasks = 1..n, UniqueIds(tasks)
    PROVE  /\ DOMAIN Graph(tasks) = Ids(tasks)
           /\ \A i \in DOMAIN tasks : Graph(tasks)[tasks[i].id] = tasks[i].deps
<1>1. DOMAIN Graph(tasks) = Ids(tasks)
  BY Zenon DEF Graph
<1>2. ASSUME NEW i \in DOMAIN tasks
      PROVE  Graph(tasks)[tasks[i].id] = tasks[i].deps
  <2> DEFINE last(k, id) ==
        tasks[k].id = id /\ \A j \in DOMAIN tasks : j > k => tasks[j].id # id
      k == CHOOSE k \in DOMAIN tasks : last(k, tasks[i].id)
  <2>1. last(i, tasks[i].id)
    <3>1. \A j \in DOMAIN tasks : j > i => j # i
      OBVIOUS
    <3> QED BY <1>2, <3>1, Zenon DEF UniqueIds
  <2>2. k \in DOMAIN tasks /\ tasks[k].id = tasks[i].id
    BY <1>2, <2>1, Zenon
  <2>3. k = i
    <3> HIDE DEF k
    <3> QED BY <1>2, <2>2, Zenon DEF UniqueIds
  <2>4. tasks[i].id \in Ids(tasks)
    BY <1>2, Zenon DEF Ids
  <2>5. Graph(tasks)[tasks[i].id] = tasks[k].deps
    BY <2>4, Zenon DEF Graph
  <2> QED BY <2>3, <2>5, Zenon
<1> QED BY <1>1, <1>2

\* The tasks of a plan have its ids and dependencies.
LEMMA MaterialisedKeeps ==
    ASSUME NEW n \in Nat, NEW cand, DOMAIN cand = 1..n, UniqueIds(cand)
    PROVE  /\ DOMAIN Materialised(cand) = 1..n
           /\ UniqueIds(Materialised(cand))
           /\ Ids(Materialised(cand)) = Ids(cand)
           /\ Graph(Materialised(cand)) = Graph(cand)
<1> DEFINE tasks == Materialised(cand)
<1>1. /\ DOMAIN tasks = 1..n
      /\ \A i \in 1..n : tasks[i].id = cand[i].id /\ tasks[i].deps = cand[i].deps
  BY DEF Materialised
<1> HIDE DEF tasks
<1>2. UniqueIds(tasks) /\ Ids(tasks) = Ids(cand)
  <2>1. UniqueIds(tasks)
    BY <1>1 DEF UniqueIds
  <2>2. Ids(tasks) = Ids(cand)
    BY <1>1 DEF Ids
  <2> QED BY <2>1, <2>2
<1>3. /\ DOMAIN Graph(tasks) = Ids(cand) /\ DOMAIN Graph(cand) = Ids(cand)
      /\ \A i \in 1..n : Graph(tasks)[cand[i].id] = cand[i].deps
                         /\ Graph(cand)[cand[i].id] = cand[i].deps
  <2>1. /\ DOMAIN Graph(tasks) = Ids(tasks)
        /\ \A i \in DOMAIN tasks : Graph(tasks)[tasks[i].id] = tasks[i].deps
    BY ONLY n \in Nat, <1>1, <1>2, GraphIsExact, Zenon
  <2>2. /\ DOMAIN Graph(cand) = Ids(cand)
        /\ \A i \in DOMAIN cand : Graph(cand)[cand[i].id] = cand[i].deps
    BY GraphIsExact, Zenon
  <2> QED BY <1>1, <1>2, <2>1, <2>2, Zenon
<1>4. \A id \in Ids(cand) : \E i \in 1..n : id = cand[i].id
  BY Zenon DEF Ids
<1>5. \A id \in Ids(cand) : Graph(tasks)[id] = Graph(cand)[id]
  <2> TAKE id \in Ids(cand)
  <2>1. PICK i \in 1..n : id = cand[i].id
    BY <1>4, Zenon
  <2> QED BY <1>3, <2>1
<1>6. Graph(tasks) = Graph(cand)
  <2>1. Graph(tasks) = [id \in Ids(tasks) |-> Graph(tasks)[id]]
    BY DEF Graph
  <2>2. Graph(cand) = [id \in Ids(cand) |-> Graph(cand)[id]]
    BY DEF Graph
  <2> QED BY <1>2, <1>5, <2>1, <2>2
<1> QED BY <1>1, <1>2, <1>6, Zenon DEF tasks

-----------------------------------------------------------------------------
(* Building *)

LEMMA NoDependencies == {} \in {d \in SUBSET Int : IsFiniteSet(d)}
  BY FS_EmptySet

LEMMA BuildPlanType ==
    ASSUME NEW reqs \in Seq(Requirement)
    PROVE  BuildPlan(reqs) \in Seq(CandidateTask)
<1>1. \A i \in 1..Len(reqs) : reqs[i] \in Requirement
  OBVIOUS
<1>2. \A c : CategoryEffort(c) \in 1..4
  BY DEF CategoryEffort
<1>3. ASSUME NEW i \in 1..Len(reqs)
      PROVE  [id |-> i, req |-> reqs[i].id, approval |-> reqs[i].category = "approval",
              effort |-> CategoryEffort(reqs[i].category), deps |-> {}] \in CandidateTask
  <2>1. i \in Int /\ reqs[i].id \in ReqIds
    BY <1>1 DEF Requirement
  <2>2. (reqs[i].category = "approval") \in BOOLEAN
    OBVIOUS
  <2>3. CategoryEffort(reqs[i].category) \in 1..4
    BY <1>2
  <2> QED BY ONLY <2>1, <2>2, <2>3, NoDependencies, Zenon DEF CandidateTask
<1>4. BuildPlan(reqs) \in [1..Len(reqs) -> CandidateTask] /\ Len(reqs) \in Nat
  BY <1>3 DEF BuildPlan
<1> QED BY ONLY <1>4

\* What the planner builds passes the validator, whatever the requirements
\* (create_plan_node builds what validate_plan asks for).
THEOREM BuiltPlansAreValid ==
    ASSUME NEW reqs \in Seq(Requirement)
    PROVE  Valid(BuildPlan(reqs), reqs)
<1> DEFINE cand == BuildPlan(reqs)
<1>1. /\ DOMAIN cand = 1..Len(reqs) /\ DOMAIN reqs = 1..Len(reqs) /\ Len(reqs) \in Nat
      /\ \A i \in 1..Len(reqs) :
           /\ cand[i].id = i /\ cand[i].req = reqs[i].id /\ cand[i].deps = {}
           /\ cand[i].approval = (reqs[i].category = "approval")
  BY DEF BuildPlan
<1> HIDE DEF cand
<1>2. UniqueIds(cand)
  BY <1>1 DEF UniqueIds
<1>3. \A i \in DOMAIN cand : cand[i].deps \subseteq Ids(cand)
  BY <1>1
<1>4. Acyclic(Graph(cand))
  <2>1. /\ DOMAIN Graph(cand) = Ids(cand)
        /\ \A i \in DOMAIN cand : Graph(cand)[cand[i].id] = cand[i].deps
    BY ONLY <1>1, <1>2, GraphIsExact
  <2>2. \A t \in Ids(cand) : Graph(cand)[t] = {}
    <3> TAKE t \in Ids(cand)
    <3>1. PICK i \in DOMAIN cand : t = cand[i].id
      BY Zenon DEF Ids
    <3> QED BY <1>1, <2>1, <3>1
  <2> QED BY <2>1, <2>2 DEF Acyclic
<1>5. \A r \in ReqsOf(reqs) : Covered(cand, r)
  BY <1>1 DEF ReqsOf, Covered
<1>6. \A i \in DOMAIN reqs :
        reqs[i].category = "approval" => Approved(cand, reqs[i].id)
  BY <1>1 DEF Approved
<1> QED BY <1>2, <1>3, <1>4, <1>5, <1>6, Zenon DEF Valid, cand

\* A plan that passes is kept by the planner: what MustRebuild asks for is a
\* requirement without a task.
LEMMA ValidIsKept ==
    ASSUME NEW cand, NEW reqs, Valid(cand, reqs)
    PROVE  ~MustRebuild(cand, reqs)
BY Zenon DEF Valid, MustRebuild

\* The tasks of a plan that passes: distinct, closed and without a cycle.
LEMMA ValidIsSound ==
    ASSUME NEW n \in Nat, NEW cand, DOMAIN cand = 1..n, NEW reqs, Valid(cand, reqs)
    PROVE  /\ UniqueIds(Materialised(cand))
           /\ Closed(Graph(Materialised(cand)))
           /\ Acyclic(Graph(Materialised(cand)))
<1>1. UniqueIds(cand) /\ Acyclic(Graph(cand))
      /\ \A i \in DOMAIN cand : cand[i].deps \subseteq Ids(cand)
  BY Zenon DEF Valid
<1>2. UniqueIds(Materialised(cand)) /\ Graph(Materialised(cand)) = Graph(cand)
  BY <1>1, MaterialisedKeeps, Zenon
<1>3. Closed(Graph(cand))
  <2>1. /\ DOMAIN Graph(cand) = Ids(cand)
        /\ \A i \in DOMAIN cand : Graph(cand)[cand[i].id] = cand[i].deps
    BY <1>1, GraphIsExact, Zenon
  <2>2. \A t \in Ids(cand) : Graph(cand)[t] \subseteq Ids(cand)
    <3> TAKE t \in Ids(cand)
    <3>1. PICK i \in DOMAIN cand : t = cand[i].id
      BY Zenon DEF Ids
    <3> QED BY <1>1, <2>1, <3>1
  <2> QED BY <2>1, <2>2 DEF Closed
<1> QED BY <1>1, <1>2, <1>3

-----------------------------------------------------------------------------
(* Revising *)

\* A plan has finitely many ids.
LEMMA IdsFinite ==
    ASSUME NEW n \in Nat, NEW cand, DOMAIN cand = 1..n
    PROVE  IsFiniteSet(Ids(cand)) /\ Cardinality(Ids(cand)) \in Nat
<1> DEFINE f == [i \in 1..n |-> cand[i].id]
<1>1. f \in Surjection(1..n, Ids(cand))
  BY DEF Surjection, Ids
<1>2. IsFiniteSet(1..n)
  <2>1. 1 \in Int /\ n \in Int
    OBVIOUS
  <2> QED BY ONLY <2>1, FS_Interval
<1>3. IsFiniteSet(Ids(cand))
  <2> HIDE DEF f
  <2> QED BY ONLY <1>1, <1>2, FS_Surjection, Zenon
<1> QED BY ONLY <1>3, FS_CardinalityType, Zenon

\* The places for which tasks are added, and how many they are.
LEMMA PlacesFinite ==
    ASSUME NEW cand, NEW reqs \in Seq(Requirement)
    PROVE  /\ Uncovered(cand, reqs) \subseteq 1..Len(reqs)
           /\ Unapproved(cand, reqs) \subseteq 1..Len(reqs)
           /\ Cardinality(Uncovered(cand, reqs)) \in Nat
           /\ Cardinality(Unapproved(cand, reqs)) \in Nat
<1>1. ASSUME NEW places, places \subseteq 1..Len(reqs)
      PROVE  Cardinality(places) \in Nat
  <2>1. Len(reqs) \in Nat /\ \A j \in places : j <= Len(reqs)
    BY <1>1
  <2>2. places = UpTo(places, Len(reqs))
    BY <2>1, Zenon DEF UpTo
  <2>3. Cardinality(UpTo(places, Len(reqs))) \in Nat
    BY ONLY <1>1, <2>1, UpToFinite, Zenon
  <2> QED BY <2>2, <2>3, Zenon
<1>2. Places(reqs) \subseteq 1..Len(reqs)
  BY DEF Places
<1>3. /\ Uncovered(cand, reqs) \subseteq 1..Len(reqs)
      /\ Unapproved(cand, reqs) \subseteq 1..Len(reqs)
  BY <1>2 DEF Uncovered, Unapproved
<1> QED BY <1>1, <1>3, Zenon

\* The tasks added for some places.
LEMMA AddedType ==
    ASSUME NEW reqs \in Seq(Requirement), NEW places, places \subseteq 1..Len(reqs),
           Cardinality(places) \in Nat, NEW first \in Int, NEW approval \in BOOLEAN
    PROVE  Added(reqs, places, first, approval) \in Seq(CandidateTask)
<1>1. \A i \in 1..Len(reqs) : reqs[i] \in Requirement
  OBVIOUS
<1>2. ASSUME NEW k \in 1..Cardinality(places)
      PROVE  [id |-> first + k - 1, req |-> reqs[Nth(places, k)].id,
              approval |-> approval, effort |-> 1, deps |-> {}] \in CandidateTask
  <2>1. Nth(places, k) \in places
    <3>1. Len(reqs) \in Nat
      OBVIOUS
    <3> QED BY <3>1, NthInSet, Zenon
  <2>2. reqs[Nth(places, k)].id \in ReqIds
    BY <1>1, <2>1 DEF Requirement
  <2>3. first + k - 1 \in Int /\ 1 \in 1..4
    OBVIOUS
  <2> QED BY ONLY <2>2, <2>3, NoDependencies, approval \in BOOLEAN, Zenon DEF CandidateTask
<1>3. Added(reqs, places, first, approval) \in [1..Cardinality(places) -> CandidateTask]
  BY <1>2 DEF Added
<1> QED BY ONLY <1>3, Cardinality(places) \in Nat

LEMMA RevisedType ==
    ASSUME NEW cand \in Seq(CandidateTask), NEW reqs \in Seq(Requirement)
    PROVE  Revised(cand, reqs) \in Seq(CandidateTask)
<1> DEFINE work == Uncovered(cand, reqs)
           approvals == Unapproved(cand, reqs)
           next == NextIndex(cand)
<1>1. /\ work \subseteq 1..Len(reqs) /\ approvals \subseteq 1..Len(reqs)
      /\ Cardinality(work) \in Nat /\ Cardinality(approvals) \in Nat
  BY PlacesFinite, Zenon
<1>2. next \in Int /\ next + Cardinality(work) \in Int
  <2>1. DOMAIN cand = 1..Len(cand) /\ Len(cand) \in Nat
    OBVIOUS
  <2>2. Cardinality(Ids(cand)) \in Nat
    BY ONLY <2>1, IdsFinite, Zenon
  <2> QED BY <1>1, <2>2 DEF NextIndex
<1> HIDE DEF work, approvals, next
<1>3. /\ Added(reqs, work, next, FALSE) \in Seq(CandidateTask)
      /\ Added(reqs, approvals, next + Cardinality(work), TRUE) \in Seq(CandidateTask)
  <2>1. TRUE \in BOOLEAN /\ FALSE \in BOOLEAN
    OBVIOUS
  <2> QED BY <1>1, <1>2, <2>1, AddedType, Zenon
<1>4. \A s, t \in Seq(CandidateTask) : s \o t \in Seq(CandidateTask)
  OBVIOUS
<1>5. cand \o Added(reqs, work, next, FALSE)
           \o Added(reqs, approvals, next + Cardinality(work), TRUE) \in Seq(CandidateTask)
  BY <1>3, <1>4, Zenon
<1> QED BY <1>5, Zenon DEF Revised, work, approvals, next

\* The parts of one sequence appended to another.
LEMMA ConcatParts ==
    ASSUME NEW S, NEW s \in Seq(S), NEW t \in Seq(S),
           NEW p, Len(s) = p, NEW q, Len(t) = q
    PROVE  /\ s \o t \in Seq(S)
           /\ Len(s \o t) = p + q
           /\ DOMAIN (s \o t) = 1..(p + q)
           /\ \A i \in 1..p : (s \o t)[i] = s[i]
           /\ \A k \in 1..q : (s \o t)[p + k] = t[k]
<1>1. s \o t \in Seq(S) /\ Len(s \o t) = p + q /\ DOMAIN (s \o t) = 1..(p + q)
  OBVIOUS
<1>2. p \in Nat /\ q \in Nat
  OBVIOUS
<1>3. \A i \in 1..p : (s \o t)[i] = s[i]
  <2> TAKE i \in 1..p
  <2>1. i \in 1..(p + q) /\ i <= p
    BY <1>2
  <2> QED BY <2>1
<1>4. ASSUME NEW k \in 1..q PROVE (s \o t)[p + k] = t[k]
  <2>1. p + k \in 1..(p + q) /\ ~ (p + k <= p) /\ (p + k) - p = k
    BY <1>2
  <2> QED BY <2>1
<1> QED BY <1>1, <1>3, <1>4, Zenon

\* What a revision is, position by position: the plan of length n, then a task
\* for each of the w uncovered places, then one for each of the a unapproved
\* ones, numbered on from the plan's n.
Extends(new, cand, reqs, n, w, a) ==
    /\ n \in Nat /\ w \in Nat /\ a \in Nat
    /\ DOMAIN new = 1..(n + w + a)
    /\ \A i \in 1..n : new[i] = cand[i]
    /\ \A k \in 1..w : /\ new[n + k].id = n + k /\ new[n + k].deps = {}
                       /\ new[n + k].req = reqs[Nth(Uncovered(cand, reqs), k)].id
    /\ \A k \in 1..a :
         /\ new[n + w + k].id = n + w + k /\ new[n + w + k].deps = {}
         /\ new[n + w + k].req = reqs[Nth(Unapproved(cand, reqs), k)].id
         /\ new[n + w + k].approval

LEMMA RevisedShape ==
    ASSUME NEW cand \in Seq(CandidateTask), NEW reqs \in Seq(Requirement),
           Ids(cand) = 1..Len(cand)
    PROVE  Extends(Revised(cand, reqs), cand, reqs, Len(cand),
                   Cardinality(Uncovered(cand, reqs)), Cardinality(Unapproved(cand, reqs)))
<1> SUFFICES ASSUME NEW n, n = Len(cand), NEW new, new = Revised(cand, reqs),
                    NEW w, w = Cardinality(Uncovered(cand, reqs)),
                    NEW a, a = Cardinality(Unapproved(cand, reqs))
             PROVE  Extends(new, cand, reqs, n, w, a)
  OBVIOUS
<1> DEFINE work == Uncovered(cand, reqs)
           approvals == Unapproved(cand, reqs)
           A == Added(reqs, work, n + 1, FALSE)
           B == Added(reqs, approvals, n + 1 + w, TRUE)
<1>1. n \in Nat /\ w \in Nat /\ a \in Nat
  BY PlacesFinite
<1>2. NextIndex(cand) = n + 1
  <2>1. Cardinality(1..n) = n
    <3>1. 1 \in Int /\ n \in Int /\ (1 > n => n = 0)
      BY <1>1
    <3>2. Cardinality(1..n) = IF 1 > n THEN 0 ELSE n - 1 + 1
      BY ONLY <3>1, FS_Interval
    <3> QED BY <1>1, <3>1, <3>2
  <2> QED BY <2>1 DEF NextIndex
<1>3. /\ DOMAIN A = 1..w
      /\ \A k \in 1..w : /\ A[k].id = n + k /\ A[k].deps = {}
                         /\ A[k].req = reqs[Nth(work, k)].id
  BY <1>1 DEF Added
<1>4. /\ DOMAIN B = 1..a
      /\ \A k \in 1..a : /\ B[k].id = n + w + k /\ B[k].deps = {} /\ B[k].approval
                         /\ B[k].req = reqs[Nth(approvals, k)].id
  <2>1. B = [k \in 1..a |-> [id |-> n + 1 + w + k - 1, req |-> reqs[Nth(approvals, k)].id,
                             approval |-> TRUE, effort |-> 1, deps |-> {}]]
    BY Zenon DEF Added
  <2>2. \A k \in 1..a : n + 1 + w + k - 1 = n + w + k
    BY <1>1
  <2> HIDE DEF B, approvals
  <2> QED BY ONLY <2>1, <2>2
<1>5. A \in Seq(CandidateTask) /\ B \in Seq(CandidateTask)
  <2>1. /\ work \subseteq 1..Len(reqs) /\ approvals \subseteq 1..Len(reqs)
        /\ Cardinality(work) \in Nat /\ Cardinality(approvals) \in Nat
    BY PlacesFinite, Zenon
  <2>2. n + 1 \in Int /\ n + 1 + w \in Int /\ TRUE \in BOOLEAN /\ FALSE \in BOOLEAN
    BY <1>1
  <2> HIDE DEF work, approvals
  <2> QED BY <2>1, <2>2, AddedType, Zenon
<1>6. Revised(cand, reqs) = (cand \o A) \o B
  BY <1>2, Zenon DEF Revised
<1> HIDE DEF A, B
<1>7. Len(A) = w /\ Len(B) = a
  BY <1>1, <1>3, <1>4, <1>5
<1>8. /\ cand \o A \in Seq(CandidateTask) /\ Len(cand \o A) = n + w
      /\ \A i \in 1..n : (cand \o A)[i] = cand[i]
      /\ \A k \in 1..w : (cand \o A)[n + k] = A[k]
  <2>1. cand \in Seq(CandidateTask) /\ A \in Seq(CandidateTask) /\ Len(cand) = n /\ Len(A) = w
    BY <1>5, <1>7, Zenon
  <2> QED BY ONLY <2>1, ConcatParts
<1> DEFINE C == cand \o A
<1>9. /\ C \in Seq(CandidateTask) /\ Len(C) = n + w
      /\ \A i \in 1..n : C[i] = cand[i]
      /\ \A k \in 1..w : C[n + k] = A[k]
  BY <1>8
<1>10. new = C \o B
  BY <1>6
<1> HIDE DEF C
<1>11. /\ DOMAIN (C \o B) = 1..(n + w + a)
       /\ \A i \in 1..(n + w) : (C \o B)[i] = C[i]
       /\ \A k \in 1..a : (C \o B)[n + w + k] = B[k]
  <2>1. /\ DOMAIN (C \o B) = 1..((n + w) + a)
        /\ \A i \in 1..(n + w) : (C \o B)[i] = C[i]
        /\ \A k \in 1..a : (C \o B)[(n + w) + k] = B[k]
    <3>1. C \in Seq(CandidateTask) /\ B \in Seq(CandidateTask) /\ Len(C) = n + w /\ Len(B) = a
      BY <1>5, <1>7, <1>9, Zenon
    <3> QED BY ONLY <3>1, ConcatParts
  <2> QED BY <2>1
<1>12. /\ \A i \in 1..n : i \in 1..(n + w)
       /\ \A k \in 1..w : n + k \in 1..(n + w)
  BY <1>1
<1>13. /\ \A i \in 1..n : (C \o B)[i] = cand[i]
       /\ \A k \in 1..w : (C \o B)[n + k] = A[k]
  BY <1>9, <1>11, <1>12, Zenon
<1>14. /\ \A k \in 1..w : /\ (C \o B)[n + k].id = n + k /\ (C \o B)[n + k].deps = {}
                          /\ (C \o B)[n + k].req = reqs[Nth(work, k)].id
       /\ \A k \in 1..a :
            /\ (C \o B)[n + w + k].id = n + w + k /\ (C \o B)[n + w + k].deps = {}
            /\ (C \o B)[n + w + k].req = reqs[Nth(approvals, k)].id
            /\ (C \o B)[n + w + k].approval
  <2> HIDE DEF work, approvals
  <2> QED BY ONLY <1>3, <1>4, <1>11, <1>13, Zenon
<1> QED BY ONLY <1>1, <1>10, <1>11, <1>13, <1>14, Zenon DEF work, approvals, Extends

\* One revision repairs every plan that is numbered from 1 to its length, has a
\* sound graph, and lacks no more than requirements or approvals: the numbers
\* that revise_plan_node gives are free, and every requirement gets its task.
THEOREM RevisionIsValid ==
    ASSUME NEW cand \in Seq(CandidateTask), NEW reqs \in Seq(Requirement),
           UniqueIds(cand), Ids(cand) = 1..Len(cand),
           Closed(Graph(cand)), Acyclic(Graph(cand)), UniqueIds(reqs)
    PROVE  Valid(Revised(cand, reqs), reqs)
<1> DEFINE n == Len(cand)
           work == Uncovered(cand, reqs)
           approvals == Unapproved(cand, reqs)
           w == Cardinality(work)
           a == Cardinality(approvals)
           new == Revised(cand, reqs)
<1>1. /\ n \in Nat /\ w \in Nat /\ a \in Nat
      /\ DOMAIN new = 1..(n + w + a) /\ DOMAIN cand = 1..n
      /\ \A i \in 1..n : new[i] = cand[i]
      /\ \A k \in 1..w : /\ new[n + k].id = n + k /\ new[n + k].deps = {}
                         /\ new[n + k].req = reqs[Nth(work, k)].id
      /\ \A k \in 1..a : /\ new[n + w + k].id = n + w + k /\ new[n + w + k].deps = {}
                         /\ new[n + w + k].req = reqs[Nth(approvals, k)].id
                         /\ new[n + w + k].approval
  <2>1. DOMAIN cand = 1..n
    OBVIOUS
  <2>2. Extends(new, cand, reqs, n, w, a)
    BY RevisedShape, Zenon
  <2> HIDE DEF n, w, a, new
  <2> QED BY <2>1, <2>2, Zenon DEF Extends
<1>2. DOMAIN reqs = 1..Len(reqs) /\ Len(reqs) \in Nat
      /\ \A i \in DOMAIN reqs : reqs[i] \in Requirement
  OBVIOUS
<1>3. work \subseteq 1..Len(reqs) /\ approvals \subseteq 1..Len(reqs)
  BY PlacesFinite, Zenon
<1> HIDE DEF new, work, approvals, w, a, n
<1>4. \A i \in DOMAIN new : i \in 1..n \/ (i \notin 1..n /\ new[i].id = i /\ new[i].deps = {})
  <2> TAKE i \in DOMAIN new
  <2>1. CASE i \in (n + 1)..(n + w)
    <3>1. i - n \in 1..w /\ n + (i - n) = i /\ i \notin 1..n
      BY <1>1, <2>1
    <3> QED BY <1>1, <3>1
  <2>2. CASE i \in (n + w + 1)..(n + w + a)
    <3>1. i - (n + w) \in 1..a /\ n + w + (i - (n + w)) = i /\ i \notin 1..n
      BY <1>1, <2>2
    <3> QED BY <1>1, <3>1
  <2>3. i \in 1..n \/ i \in (n + 1)..(n + w) \/ i \in (n + w + 1)..(n + w + a)
    BY <1>1
  <2> QED BY <2>1, <2>2, <2>3
<1>5. \A i \in 1..n : i \in DOMAIN new /\ new[i] = cand[i] /\ cand[i].id \in 1..n
  <2>1. \A i \in 1..n : cand[i].id \in Ids(cand)
    BY <1>1, Zenon DEF Ids
  <2> QED BY <1>1, <2>1 DEF n
<1>6. UniqueIds(new)
  <2> SUFFICES ASSUME NEW i \in DOMAIN new, NEW j \in DOMAIN new, new[i].id = new[j].id
               PROVE  i = j
    BY Zenon DEF UniqueIds
  <2>1. CASE i \in 1..n /\ j \in 1..n
    <3>1. cand[i].id = cand[j].id /\ i \in DOMAIN cand /\ j \in DOMAIN cand
      BY <1>1, <1>5, <2>1
    <3> QED BY <3>1, Zenon DEF UniqueIds
  <2>2. CASE i \notin 1..n /\ j \notin 1..n
    BY <1>4, <2>2, Zenon
  <2>3. CASE i \in 1..n /\ j \notin 1..n
    <3>1. new[i].id \in 1..n /\ new[j].id \notin 1..n
      BY <1>4, <1>5, <2>3
    <3> QED BY <3>1
  <2>4. CASE i \notin 1..n /\ j \in 1..n
    <3>1. new[i].id \notin 1..n /\ new[j].id \in 1..n
      BY <1>4, <1>5, <2>4
    <3> QED BY <3>1
  <2> QED BY <2>1, <2>2, <2>3, <2>4
<1>7. /\ DOMAIN Graph(cand) = Ids(cand)
      /\ \A i \in 1..n : Graph(cand)[cand[i].id] = cand[i].deps
  <2>1. n \in Nat /\ DOMAIN cand = 1..n
    BY <1>1
  <2>2. /\ DOMAIN Graph(cand) = Ids(cand)
        /\ \A i \in DOMAIN cand : Graph(cand)[cand[i].id] = cand[i].deps
    BY <2>1, GraphIsExact, Zenon
  <2> QED BY <2>1, <2>2
<1>8. /\ DOMAIN Graph(new) = Ids(new)
      /\ \A i \in DOMAIN new : Graph(new)[new[i].id] = new[i].deps
  <2>1. n + w + a \in Nat
    BY <1>1
  <2> QED BY <1>1, <1>6, <2>1, GraphIsExact, Zenon
<1>9. /\ Ids(cand) \subseteq Ids(new)
      /\ \A t \in Ids(cand) : Graph(new)[t] = Graph(cand)[t] /\ Graph(cand)[t] \subseteq Ids(cand)
  <2> SUFFICES ASSUME NEW t \in Ids(cand)
               PROVE  /\ t \in Ids(new) /\ Graph(new)[t] = Graph(cand)[t]
                      /\ Graph(cand)[t] \subseteq Ids(cand)
    OBVIOUS
  <2>1. PICK i \in 1..n : t = cand[i].id
    BY <1>1, Zenon DEF Ids
  <2>2. t \in Ids(new)
    BY <1>5, <2>1, Zenon DEF Ids
  <2>3. Graph(new)[t] = Graph(cand)[t]
    BY <1>5, <1>7, <1>8, <2>1
  <2>4. Graph(cand)[t] \subseteq Ids(cand)
    BY <1>7, Zenon DEF Closed
  <2> QED BY <2>2, <2>3, <2>4
<1>10. \A t \in Ids(new) : t \in Ids(cand) \/ Graph(new)[t] = {}
  <2> TAKE t \in Ids(new)
  <2>1. PICK i \in DOMAIN new : t = new[i].id
    BY Zenon DEF Ids
  <2>2. CASE i \in 1..n
    BY <1>1, <1>5, <2>1, <2>2, Zenon DEF Ids
  <2>3. CASE new[i].deps = {}
    BY <1>8, <2>1, <2>3, Zenon
  <2> QED BY <1>4, <2>2, <2>3, Zenon
<1>11. \A i \in DOMAIN new : new[i].deps \subseteq Ids(new)
  <2> TAKE i \in DOMAIN new
  <2>1. new[i].id \in Ids(new) /\ new[i].deps = Graph(new)[new[i].id]
    BY <1>8, Zenon DEF Ids
  <2> QED BY <1>9, <1>10, <2>1
<1>12. Acyclic(Graph(new))
  <2> SUFFICES ASSUME NEW S \in SUBSET Ids(new), S # {}
               PROVE  \E t \in S : Graph(new)[t] \cap S = {}
    BY <1>8, Zenon DEF Acyclic
  <2>1. CASE S \cap Ids(cand) = {}
    BY <1>10, <2>1
  <2>2. CASE S \cap Ids(cand) # {}
    <3>1. PICK t \in S \cap Ids(cand) : Graph(cand)[t] \cap (S \cap Ids(cand)) = {}
      BY <1>7, <2>2 DEF Acyclic
    <3> QED BY <1>9, <3>1
  <2> QED BY <2>1, <2>2
<1>13. \A i \in DOMAIN reqs : i \in Places(reqs)
  <2>1. \A i, j \in DOMAIN reqs : j < i => i # j
    BY <1>2
  <2> QED BY <2>1, Zenon DEF Places, UniqueIds
<1>14. \A r \in ReqsOf(reqs) : Covered(new, r)
  <2> SUFFICES ASSUME NEW i \in DOMAIN reqs PROVE Covered(new, reqs[i].id)
    BY Zenon DEF ReqsOf
  <2>1. CASE Covered(cand, reqs[i].id)
    BY <1>1, <1>5, <2>1, Zenon DEF Covered
  <2>2. CASE ~Covered(cand, reqs[i].id)
    <3>1. i \in work
      BY <1>13, <2>2, Zenon DEF work, Uncovered
    <3>2. PICK k \in 1..w : Nth(work, k) = i
      BY <1>2, <1>3, <3>1, NthOnto, Zenon DEF w
    <3>3. new[n + k].req = reqs[i].id
      BY <1>1, <3>2, Zenon
    <3>4. n + k \in DOMAIN new
      BY <1>1
    <3> QED BY <3>3, <3>4, Zenon DEF Covered
  <2> QED BY <2>1, <2>2
<1>15. \A i \in DOMAIN reqs : reqs[i].category = "approval" => Approved(new, reqs[i].id)
  <2> SUFFICES ASSUME NEW i \in DOMAIN reqs, reqs[i].category = "approval"
               PROVE  Approved(new, reqs[i].id)
    OBVIOUS
  <2>1. CASE Approved(cand, reqs[i].id)
    BY <1>1, <1>5, <2>1, Zenon DEF Approved
  <2>2. CASE ~Approved(cand, reqs[i].id)
    <3>1. IsApproval(reqs, reqs[i].id)
      <4>1. reqs[i] = [id |-> reqs[i].id, category |-> "approval"]
        BY <1>2 DEF Requirement
      <4>2. \A j \in DOMAIN reqs : j > i => j # i
        BY <1>2
      <4> QED BY <4>1, <4>2, Zenon DEF IsApproval, UniqueIds
    <3>2. i \in approvals
      BY <1>13, <2>2, <3>1, Zenon DEF approvals, Unapproved
    <3>3. PICK k \in 1..a : Nth(approvals, k) = i
      BY <1>2, <1>3, <3>2, NthOnto, Zenon DEF a
    <3>4. new[n + w + k].req = reqs[i].id /\ new[n + w + k].approval
      BY <1>1, <3>3, Zenon
    <3>5. n + w + k \in DOMAIN new
      BY <1>1
    <3> QED BY <3>4, <3>5, Zenon DEF Approved
  <2> QED BY <2>1, <2>2
<1> QED BY <1>6, <1>11, <1>12, <1>14, <1>15, Zenon DEF Valid, new

-----------------------------------------------------------------------------
(* Recursive functions on a finite measure *)

\* A measure of the elements of D, no more than "bound".
IsMeasure(D, m, bound) ==
    m \in [D -> Nat] /\ bound \in Nat /\ \A x \in D : m[x] <= bound

\* x is good if everything below it is.
Inherited(D, m, Good) ==
    \A x \in D : (\A y \in D : m[y] < m[x] => y \in Good) => x \in Good

\* The right-hand side B of a recursive definition looks at smaller arguments only.
LooksBelow(D, V, m, B) ==
    /\ B \in [D \X [D -> V] -> V]
    /\ \A x \in D : \A g, h \in [D -> V] :
         (\A y \in D : m[y] < m[x] => g[y] = h[y]) => B[<<x, g>>] = B[<<x, h>>]

IsSolution(D, V, B, g) == g \in [D -> V] /\ \A x \in D : g[x] = B[<<x, g>>]

LEMMA InductionOnMeasure ==
    ASSUME NEW D, NEW m, NEW bound, NEW Good, IsMeasure(D, m, bound), Inherited(D, m, Good)
    PROVE  D \subseteq Good
<1> SUFFICES ASSUME NEW bad \in D, bad \notin Good PROVE FALSE
  OBVIOUS
<1> USE DEF IsMeasure
<1> DEFINE T == {m[x] : x \in D \ Good}
<1>1. T \subseteq Nat /\ T # {}
  OBVIOUS
<1> HIDE DEF T
<1>2. PICK least \in T : \A n \in T : least <= n
  BY <1>1, LeastNumber, Zenon
<1>3. PICK x \in D \ Good : m[x] = least
  BY <1>2 DEF T
<1>4. ASSUME NEW y \in D, m[y] < m[x] PROVE y \in Good
  <2> SUFFICES ASSUME y \notin Good PROVE FALSE
    OBVIOUS
  <2>1. least <= m[y] /\ least \in Nat /\ m[y] \in Nat
    BY <1>1, <1>2 DEF T
  <2> QED BY <1>3, <1>4, <2>1
<1> QED BY <1>3, <1>4 DEF Inherited

LEMMA RecursionOnMeasure ==
    ASSUME NEW D, NEW V, NEW m, NEW bound, NEW B, V # {},
           IsMeasure(D, m, bound), LooksBelow(D, V, m, B)
    PROVE  \E g : IsSolution(D, V, B, g)
<1> DEFINE Solves(g, n) == \A x \in D : m[x] <= n => g[x] = B[<<x, g>>]
           Good == {n \in 0..bound : \E g \in [D -> V] : Solves(g, n)}
           id == [n \in 0..bound |-> n]
<1>0. /\ m \in [D -> Nat] /\ bound \in Nat /\ B \in [D \X [D -> V] -> V]
      /\ \A x \in D : m[x] <= bound
  BY DEF IsMeasure, LooksBelow
<1>1. ASSUME NEW n \in 0..bound, \A k \in 0..bound : id[k] < id[n] => k \in Good
      PROVE  n \in Good
  <2>1. PICK h \in [D -> V] : \A y \in D : m[y] < n => h[y] = B[<<y, h>>]
    <3>1. CASE n = 0
      <4>1. PICK v \in V : TRUE
        OBVIOUS
      <4>2. [x \in D |-> v] \in [D -> V]
        OBVIOUS
      <4>3. \A y \in D : ~(m[y] < n)
        BY <1>0, <3>1
      <4> QED BY <4>2, <4>3
    <3>2. CASE n # 0
      <4>1. n - 1 \in 0..bound /\ n - 1 < n
        BY <1>0, <3>2
      <4>2. n - 1 \in Good
        BY <1>1, <4>1
      <4>3. PICK h \in [D -> V] : Solves(h, n - 1)
        BY <4>2
      <4>4. \A y \in D : m[y] < n => m[y] <= n - 1
        BY <1>0
      <4> QED BY <4>3, <4>4
    <3> QED BY <3>1, <3>2
  <2> DEFINE g == [x \in D |-> B[<<x, h>>]]
  <2>2. g \in [D -> V]
    BY <1>0
  <2>3. ASSUME NEW x \in D, m[x] <= n PROVE g[x] = B[<<x, g>>]
    <3>1. \A y \in D : m[y] < m[x] => g[y] = h[y]
      <4> SUFFICES ASSUME NEW y \in D, m[y] < m[x] PROVE g[y] = h[y]
        OBVIOUS
      <4>1. m[y] < n
        BY <1>0, <2>3
      <4> QED BY <2>1, <4>1
    <3>2. g[x] = B[<<x, h>>]
      OBVIOUS
    <3> HIDE DEF g
    <3> QED BY <2>2, <3>1, <3>2 DEF LooksBelow
  <2> HIDE DEF g
  <2> QED BY <2>2, <2>3
<1>2. IsMeasure(0..bound, id, bound)
  BY <1>0 DEF IsMeasure
<1>3. Inherited(0..bound, id, Good)
  BY <1>1 DEF Inherited
<1> HIDE DEF Good, id
<1>4. 0..bound \subseteq Good
  BY <1>2, <1>3, InductionOnMeasure, Zenon
<1>5. bound \in Good
  BY <1>0, <1>4
<1>6. PICK g \in [D -> V] : Solves(g, bound)
  BY <1>5 DEF Good
<1> QED BY <1>0, <1>6 DEF IsSolution

-----------------------------------------------------------------------------
(* The layers of work *)

Undone(dp, done) == DOMAIN dp \ done

\* What can start when "placed" is done with.
Layer(dp, done, placed) ==
    {t \in Undone(dp, done) \ placed : Startable(dp, done, placed, t)}

LayersFrom(dp, done, f) ==
    [placed \in SUBSET Undone(dp, done) |->
       IF Layer(dp, done, placed) = {} THEN <<>>
       ELSE <<Layer(dp, done, placed)>> \o f[placed \cup Layer(dp, done, placed)]]

Solved(dp, done) == CHOOSE f : f = LayersFrom(dp, done, f)

LEMMA LayersAreSolved ==
    ASSUME NEW dp, NEW done PROVE Layers(dp, done) = Solved(dp, done)[{}]
  BY Zenon DEF Layers, Solved, LayersFrom, Layer, Undone

\* The loop ends, for a finite plan: a layer that is not empty leaves less to do.
LEMMA LayerIsProgress ==
    ASSUME NEW dp, NEW done, IsFiniteSet(DOMAIN dp),
           NEW placed \in SUBSET Undone(dp, done), Layer(dp, done, placed) # {}
    PROVE  /\ placed \cup Layer(dp, done, placed) \in SUBSET Undone(dp, done)
           /\ Cardinality(Undone(dp, done) \ placed) \in Nat
           /\ Cardinality(Undone(dp, done) \ (placed \cup Layer(dp, done, placed))) \in Nat
           /\ Cardinality(Undone(dp, done) \ (placed \cup Layer(dp, done, placed)))
                < Cardinality(Undone(dp, done) \ placed)
<1> DEFINE rest == Undone(dp, done) \ placed
           layer == Layer(dp, done, placed)
<1>1. layer \subseteq rest /\ layer # {}
  BY DEF Layer
<1>2. IsFiniteSet(rest)
  BY FS_Subset DEF Undone
<1>3. rest \ layer \subseteq rest /\ rest \ layer # rest
  BY <1>1
<1>4. /\ Cardinality(rest) \in Nat /\ Cardinality(rest \ layer) \in Nat
      /\ Cardinality(rest \ layer) < Cardinality(rest)
  <2> HIDE DEF rest, layer
  <2>1. IsFiniteSet(rest \ layer)
    BY <1>2, <1>3, FS_Subset
  <2>2. Cardinality(rest) \in Nat /\ Cardinality(rest \ layer) \in Nat
    BY <1>2, <2>1, FS_CardinalityType
  <2>3. Cardinality(rest \ layer) <= Cardinality(rest)
    BY <1>2, <1>3, FS_Subset
  <2>4. Cardinality(rest \ layer) = Cardinality(rest) => rest \ layer = rest
    BY <1>2, <1>3, FS_Subset
  <2> QED BY <1>3, <2>2, <2>3, <2>4
<1>5. rest \ layer = Undone(dp, done) \ (placed \cup layer)
  OBVIOUS
<1>6. placed \cup layer \in SUBSET Undone(dp, done)
  BY <1>1
<1> QED BY <1>4, <1>5, <1>6

\* What is left to place gets less.
LEMMA UndoneMeasure ==
    ASSUME NEW dp, NEW done, IsFiniteSet(DOMAIN dp)
    PROVE  IsMeasure(SUBSET Undone(dp, done),
                     [P \in SUBSET Undone(dp, done) |-> Cardinality(Undone(dp, done) \ P)],
                     Cardinality(Undone(dp, done)))
<1> DEFINE all == Undone(dp, done)
<1>1. IsFiniteSet(all) /\ Cardinality(all) \in Nat
  BY FS_Subset, FS_CardinalityType DEF Undone
<1>2. ASSUME NEW P \in SUBSET all
      PROVE  Cardinality(all \ P) \in Nat /\ Cardinality(all \ P) <= Cardinality(all)
  <2> HIDE DEF all
  <2>1. all \ P \subseteq all
    OBVIOUS
  <2>2. IsFiniteSet(all \ P) /\ Cardinality(all \ P) <= Cardinality(all)
    BY <1>1, <2>1, FS_Subset
  <2> QED BY <2>2, FS_CardinalityType
<1> QED BY <1>1, <1>2 DEF IsMeasure

\* So the loop has a result.
LEMMA LayersExist ==
    ASSUME NEW dp, NEW done, IsFiniteSet(DOMAIN dp)
    PROVE  Solved(dp, done) = LayersFrom(dp, done, Solved(dp, done))
<1> DEFINE D == SUBSET Undone(dp, done)
           V == Seq(D)
           after(P) == P \cup Layer(dp, done, P)
           m == [P \in D |-> Cardinality(Undone(dp, done) \ P)]
           B == [x \in D \X [D -> V] |->
                   IF Layer(dp, done, x[1]) = {} THEN <<>>
                   ELSE <<Layer(dp, done, x[1])>> \o x[2][after(x[1])]]
           all == Undone(dp, done)
<1>4. ASSUME NEW P \in D, Layer(dp, done, P) # {}
      PROVE  after(P) \in D /\ m[after(P)] < m[P]
  BY <1>4, LayerIsProgress
<1>5. \A P \in D : Layer(dp, done, P) \in D
  BY DEF Layer
<1>6. B \in [D \X [D -> V] -> V]
  <2> SUFFICES ASSUME NEW P \in D, NEW g \in [D -> V] PROVE B[<<P, g>>] \in V
    BY DEF B
  <2>1. CASE Layer(dp, done, P) = {}
    BY <2>1
  <2>2. CASE Layer(dp, done, P) # {}
    <3>1. B[<<P, g>>] = <<Layer(dp, done, P)>> \o g[after(P)]
      BY <2>2
    <3>2. g[after(P)] \in V /\ Layer(dp, done, P) \in D
      <4> HIDE DEF D, V, after
      <4> QED BY <1>4, <1>5, <2>2
    <3>3. \A l \in D : \A s \in Seq(D) : <<l>> \o s \in Seq(D)
      <4> HIDE DEF D
      <4> QED OBVIOUS
    <3> HIDE DEF D, B, after
    <3> QED BY <3>1, <3>2, <3>3
  <2> QED BY <2>1, <2>2
<1>7. ASSUME NEW P \in D, NEW g \in [D -> V], NEW h \in [D -> V],
             \A Q \in D : m[Q] < m[P] => g[Q] = h[Q]
      PROVE  B[<<P, g>>] = B[<<P, h>>]
  <2>1. Layer(dp, done, P) # {} => g[after(P)] = h[after(P)]
    BY <1>4, <1>7
  <2> QED BY <2>1
<1>8. V # {}
  <2>1. <<>> \in V
    OBVIOUS
  <2> QED BY <2>1
<1>9. PICK f : IsSolution(D, V, B, f)
  <2>1. IsMeasure(D, m, Cardinality(all))
    BY UndoneMeasure
  <2>2. LooksBelow(D, V, m, B)
    <3> HIDE DEF D, V, m, B
    <3> QED BY <1>6, <1>7 DEF LooksBelow
  <2> HIDE DEF D, V, m, B, all
  <2> QED BY <1>8, <2>1, <2>2, RecursionOnMeasure, Zenon
<1>10. f = LayersFrom(dp, done, f)
  <2>0. f \in [D -> V]
    BY <1>9 DEF IsSolution
  <2>1. \A P \in D : B[<<P, f>>] = IF Layer(dp, done, P) = {} THEN <<>>
                                   ELSE <<Layer(dp, done, P)>> \o f[after(P)]
    <3> TAKE P \in D
    <3>1. <<P, f>> \in D \X [D -> V] /\ <<P, f>>[1] = P /\ <<P, f>>[2] = f
      <4> HIDE DEF D, V
      <4> QED BY <2>0
    <3> HIDE DEF D, V
    <3> QED BY <3>1
  <2>2. f = [P \in D |-> f[P]] /\ \A P \in D : f[P] = B[<<P, f>>]
    <3> HIDE DEF D, V, B
    <3> QED BY <1>9 DEF IsSolution
  <2> HIDE DEF B, V
  <2> QED BY <2>1, <2>2 DEF LayersFrom
<1> QED BY <1>10, Zenon DEF Solved

\* What the loop makes of the tasks that are not placed: each in one layer, none
\* next to or before one it depends on.
GoodLayers(dp, done, placed, ls) ==
    /\ ls \in Seq(SUBSET (Undone(dp, done) \ placed))
    /\ \A j, k \in DOMAIN ls : j # k => ls[j] \cap ls[k] = {}
    /\ \A j, k \in DOMAIN ls : j <= k => \A t \in ls[j] : dp[t] \cap ls[k] = {}
    /\ \A t \in Undone(dp, done) \ placed : \E k \in DOMAIN ls : t \in ls[k]

\* While something is left, something can start.
LEMMA SomethingStarts ==
    ASSUME NEW dp, NEW done, Closed(dp), Acyclic(dp),
           NEW placed \in SUBSET Undone(dp, done), Undone(dp, done) \ placed # {}
    PROVE  Layer(dp, done, placed) # {}
<1> DEFINE rest == Undone(dp, done) \ placed
<1>1. rest \in SUBSET DOMAIN dp /\ rest # {}
  BY DEF Undone
<1>2. PICK t \in rest : dp[t] \cap rest = {}
  BY <1>1 DEF Acyclic
<1>3. dp[t] \ done \subseteq placed
  BY <1>1, <1>2 DEF Closed, Undone
<1> QED BY <1>2, <1>3 DEF Layer, Startable

LEMMA LayerAndRest ==
    ASSUME NEW dp, NEW done, NEW placed \in SUBSET Undone(dp, done),
           NEW ls, GoodLayers(dp, done, placed \cup Layer(dp, done, placed), ls)
    PROVE  GoodLayers(dp, done, placed, <<Layer(dp, done, placed)>> \o ls)
<1> DEFINE l == Layer(dp, done, placed)
           all == <<l>> \o ls
           rest == Undone(dp, done) \ placed
<1>1. ls \in Seq(SUBSET (rest \ l)) /\ l \in SUBSET rest
  <2>1. Undone(dp, done) \ (placed \cup l) = rest \ l
    OBVIOUS
  <2> QED BY <2>1 DEF GoodLayers, Layer
<1>2. /\ all \in Seq(SUBSET rest) /\ Len(ls) \in Nat
      /\ DOMAIN all = 1..(Len(ls) + 1) /\ DOMAIN ls = 1..Len(ls)
      /\ all[1] = l /\ \A i \in DOMAIN ls : all[i + 1] = ls[i]
  <2> HIDE DEF l, rest
  <2> QED BY <1>1
<1>3. \A k \in DOMAIN all : k = 1 \/ (k - 1 \in DOMAIN ls /\ all[k] = ls[k - 1])
  <2> HIDE DEF all, l, rest
  <2> TAKE k \in DOMAIN all
  <2>1. k # 1 => k - 1 \in DOMAIN ls /\ k = (k - 1) + 1
    BY <1>2
  <2> QED BY <1>2, <2>1
<1>4. \A k \in DOMAIN ls : ls[k] \subseteq rest \ l
  <2> HIDE DEF all, l, rest
  <2> QED BY <1>1
<1>5. \A t \in l : dp[t] \cap rest = {}
  BY DEF Layer, Startable, Undone
<1>6. \A j, k \in DOMAIN all : j # k => all[j] \cap all[k] = {}
  <2> SUFFICES ASSUME NEW j \in DOMAIN all, NEW k \in DOMAIN all, j # k
               PROVE all[j] \cap all[k] = {}
    OBVIOUS
  <2> HIDE DEF all, l, rest
  <2>1. CASE j = 1
    BY <1>2, <1>3, <1>4, <2>1
  <2>2. CASE k = 1
    BY <1>2, <1>3, <1>4, <2>2
  <2>3. CASE j # 1 /\ k # 1
    <3>1. /\ j - 1 \in DOMAIN ls /\ k - 1 \in DOMAIN ls /\ j - 1 # k - 1
          /\ all[j] = ls[j - 1] /\ all[k] = ls[k - 1]
      BY <1>2, <1>3, <2>3
    <3> QED BY <3>1 DEF GoodLayers
  <2> QED BY <2>1, <2>2, <2>3
<1>7. \A j, k \in DOMAIN all : j <= k => \A t \in all[j] : dp[t] \cap all[k] = {}
  <2> SUFFICES ASSUME NEW j \in DOMAIN all, NEW k \in DOMAIN all, j <= k, NEW t \in all[j]
               PROVE dp[t] \cap all[k] = {}
    OBVIOUS
  <2> HIDE DEF all, l, rest
  <2>1. CASE j = 1
    <3>1. all[k] \subseteq rest
      BY <1>1, <1>2, <1>3, <1>4
    <3> QED BY <1>2, <1>5, <2>1, <3>1
  <2>2. CASE j # 1
    <3>1. /\ j - 1 \in DOMAIN ls /\ k - 1 \in DOMAIN ls /\ j - 1 <= k - 1
          /\ all[j] = ls[j - 1] /\ all[k] = ls[k - 1]
      BY <1>2, <1>3, <2>2
    <3> QED BY <3>1 DEF GoodLayers
  <2> QED BY <2>1, <2>2
<1>8. \A t \in rest : \E k \in DOMAIN all : t \in all[k]
  <2> SUFFICES ASSUME NEW t \in rest PROVE \E k \in DOMAIN all : t \in all[k]
    OBVIOUS
  <2>1. t \notin l => t \in Undone(dp, done) \ (placed \cup l)
    OBVIOUS
  <2> HIDE DEF all, l, rest
  <2>2. CASE t \in l
    <3>1. 1 \in DOMAIN all
      BY <1>2
    <3> QED BY <1>2, <2>2, <3>1
  <2>3. CASE t \notin l
    <3>1. PICK k \in DOMAIN ls : t \in ls[k]
      BY <2>1, <2>3 DEF GoodLayers, l
    <3>2. k + 1 \in DOMAIN all /\ all[k + 1] = ls[k]
      BY <1>2
    <3> QED BY <3>1, <3>2
  <2> QED BY <2>2, <2>3
<1> QED BY <1>2, <1>6, <1>7, <1>8, Zenon DEF GoodLayers

\* The layers of a sound plan.
LEMMA LayersAreGood ==
    ASSUME NEW dp, NEW done, IsFiniteSet(DOMAIN dp), Closed(dp), Acyclic(dp)
    PROVE  GoodLayers(dp, done, {}, Layers(dp, done))
<1> DEFINE f == Solved(dp, done)
           D == SUBSET Undone(dp, done)
           next(P) == P \cup Layer(dp, done, P)
           all == Undone(dp, done)
           m == [P \in D |-> Cardinality(all \ P)]
           Good == {P \in D : GoodLayers(dp, done, P, f[P])}
<1>1. \A P \in D : f[P] = IF Layer(dp, done, P) = {} THEN <<>>
                          ELSE <<Layer(dp, done, P)>> \o f[next(P)]
  <2>1. f = LayersFrom(dp, done, f)
    BY LayersExist, Zenon
  <2> HIDE DEF f
  <2> QED BY <2>1 DEF LayersFrom
<1>2. Inherited(D, m, Good)
  <2> SUFFICES ASSUME NEW P \in D, \A Q \in D : m[Q] < m[P] => Q \in Good
               PROVE  P \in Good
    BY Zenon DEF Inherited
  <2>1. CASE Layer(dp, done, P) = {}
    <3>1. f[P] = <<>> /\ Undone(dp, done) \ P = {}
      BY <1>1, <2>1, SomethingStarts
    <3> HIDE DEF f
    <3>2. GoodLayers(dp, done, P, <<>>)
      BY <3>1 DEF GoodLayers
    <3> QED BY <3>1, <3>2
  <2>2. CASE Layer(dp, done, P) # {}
    <3>1. f[P] = <<Layer(dp, done, P)>> \o f[next(P)]
      BY <1>1, <2>2
    <3>2. next(P) \in D /\ m[next(P)] < m[P]
      BY <2>2, LayerIsProgress
    <3>3. GoodLayers(dp, done, next(P), f[next(P)])
      BY <3>2
    <3> HIDE DEF f
    <3>4. GoodLayers(dp, done, P, <<Layer(dp, done, P)>> \o f[next(P)])
      BY <3>3, LayerAndRest
    <3> QED BY <3>1, <3>4
  <2> QED BY <2>1, <2>2
<1>3. IsMeasure(D, m, Cardinality(all))
  BY UndoneMeasure
<1>4. {} \in D
  OBVIOUS
<1>5. {} \in Good
  <2> HIDE DEF D, m, Good
  <2> QED BY <1>2, <1>3, <1>4, InductionOnMeasure, Zenon
<1> QED BY <1>5, LayersAreSolved

\* The parallel chains: the layers without the critical tasks, and without the
\* layers that are then empty.
WithoutTasks(ls, critical) == [k \in DOMAIN ls |-> ls[k] \ critical]

NotEmpty(others) == {k \in DOMAIN others : others[k] # {}}

ChainsIn(ls, critical) ==
    [i \in 1..Cardinality(NotEmpty(WithoutTasks(ls, critical))) |->
       WithoutTasks(ls, critical)[Nth(NotEmpty(WithoutTasks(ls, critical)), i)]]

GoodChains(dp, done, critical, chains) ==
    /\ chains \in Seq(SUBSET Undone(dp, done))
    /\ UNION Range(chains) = Undone(dp, done) \ critical
    /\ \A j, k \in DOMAIN chains : j # k => chains[j] \cap chains[k] = {}
    /\ \A j, k \in DOMAIN chains : j <= k => \A t \in chains[j] : dp[t] \cap chains[k] = {}

AreChains(ls, critical, others, kept, chains) ==
    /\ others = WithoutTasks(ls, critical)
    /\ kept = NotEmpty(others)
    /\ chains = [i \in 1..Cardinality(kept) |-> others[Nth(kept, i)]]

LEMMA NthLayersAreGood ==
    ASSUME NEW dp, NEW done, NEW ls, GoodLayers(dp, done, {}, ls), NEW critical,
           NEW others, NEW kept, NEW chains, AreChains(ls, critical, others, kept, chains)
    PROVE  GoodChains(dp, done, critical, chains)
<1> USE DEF AreChains, WithoutTasks, NotEmpty
<1> DEFINE all == Undone(dp, done)
           n == Len(ls)
<1>1. /\ n \in Nat /\ DOMAIN ls = 1..n /\ DOMAIN others = 1..n
      /\ \A k \in 1..n : ls[k] \subseteq all /\ others[k] = ls[k] \ critical
  <2>1. ls \in Seq(SUBSET all)
    BY DEF GoodLayers
  <2> HIDE DEF all
  <2> QED BY <2>1
<1>2. kept \subseteq 1..n /\ Cardinality(kept) \in Nat
  <2>1. kept \subseteq 1..n
    BY <1>1
  <2>2. kept = UpTo(kept, n)
    BY <1>1, <2>1 DEF UpTo
  <2> HIDE DEF n
  <2> QED BY <1>1, <2>1, <2>2, UpToFinite
<1>3. DOMAIN chains = 1..Cardinality(kept)
  OBVIOUS
<1>4. ASSUME NEW i \in DOMAIN chains
      PROVE  Nth(kept, i) \in DOMAIN ls /\ chains[i] = ls[Nth(kept, i)] \ critical
  <2>1. Nth(kept, i) \in kept
    BY <1>1, <1>2, <1>3, NthInSet
  <2> QED BY <1>1, <1>2, <1>3, <2>1
<1>5. ASSUME NEW j \in DOMAIN chains, NEW k \in DOMAIN chains
      PROVE  /\ j <= k => Nth(kept, j) <= Nth(kept, k)
             /\ j # k => Nth(kept, j) # Nth(kept, k)
  BY <1>1, <1>2, <1>3, NthGrows
<1>6. chains \in Seq(SUBSET all)
  <2>1. \A i \in 1..Cardinality(kept) : chains[i] \in SUBSET all
    BY <1>1, <1>3, <1>4
  <2> DEFINE m == Cardinality(kept)
             V == SUBSET all
  <2>2. chains \in [1..m -> V] /\ m \in Nat
    BY <1>2, <1>3, <2>1
  <2>3. \A l \in Nat : \A c \in [1..l -> V] : c \in Seq(V)
    <3> HIDE DEF V
    <3> QED OBVIOUS
  <2> QED BY <2>2, <2>3, Zenon
<1>7. UNION Range(chains) = all \ critical
  <2>1. ASSUME NEW t \in all \ critical PROVE \E i \in DOMAIN chains : t \in chains[i]
    <3>1. PICK k \in DOMAIN ls : t \in ls[k]
      BY DEF GoodLayers
    <3>2. k \in kept
      <4>1. k \in DOMAIN others /\ t \in others[k]
        BY <1>1, <2>1, <3>1
      <4> QED BY <4>1
    <3>3. PICK i \in 1..Cardinality(kept) : Nth(kept, i) = k
      <4> HIDE DEF n
      <4>1. n \in Nat /\ kept \subseteq 1..n
        BY <1>1, <1>2
      <4> QED BY ONLY <4>1, <3>2, NthOnto, Zenon
    <3> QED BY <1>3, <1>4, <3>1, <3>3
  <2>2. \A i \in DOMAIN chains : chains[i] \subseteq all \ critical
    BY <1>1, <1>4
  <2>3. \A i \in DOMAIN chains : chains[i] \in Range(chains)
    BY ONLY DEF Range
  <2>4. \A c \in Range(chains) : \E i \in DOMAIN chains : c = chains[i]
    BY ONLY DEF Range
  <2> HIDE DEF all
  <2>5. \A t \in UNION Range(chains) : t \in all \ critical
    BY ONLY <2>2, <2>4, Zenon
  <2>6. \A t \in all \ critical : t \in UNION Range(chains)
    BY ONLY <2>1, <2>3, Zenon
  <2> QED BY ONLY <2>5, <2>6, Zenon
<1>8. ASSUME NEW j \in DOMAIN chains, NEW k \in DOMAIN chains, j # k
      PROVE  chains[j] \cap chains[k] = {}
  <2>1. Nth(kept, j) \in DOMAIN ls /\ Nth(kept, k) \in DOMAIN ls
    BY <1>4
  <2>2. Nth(kept, j) # Nth(kept, k)
    BY <1>5, <1>8
  <2>3. ls[Nth(kept, j)] \cap ls[Nth(kept, k)] = {}
    BY <2>1, <2>2, Zenon DEF GoodLayers
  <2>4. chains[j] \subseteq ls[Nth(kept, j)] /\ chains[k] \subseteq ls[Nth(kept, k)]
    BY <1>4
  <2> QED BY ONLY <2>3, <2>4
<1>9. ASSUME NEW j \in DOMAIN chains, NEW k \in DOMAIN chains, j <= k, NEW t \in chains[j]
      PROVE  dp[t] \cap chains[k] = {}
  <2>1. t \in ls[Nth(kept, j)] /\ Nth(kept, j) <= Nth(kept, k)
    BY <1>4, <1>5, <1>9
  <2>2. dp[t] \cap ls[Nth(kept, k)] = {}
    BY <1>4, <2>1 DEF GoodLayers
  <2> QED BY <1>4, <2>2
<1> QED BY <1>6, <1>7, <1>8, <1>9, Zenon DEF GoodChains

LEMMA ChainsAreGood ==
    ASSUME NEW dp, NEW done, NEW ls, GoodLayers(dp, done, {}, ls), NEW critical
    PROVE  GoodChains(dp, done, critical, ChainsIn(ls, critical))
<1> DEFINE others == WithoutTasks(ls, critical)
           kept == NotEmpty(others)
           chains == ChainsIn(ls, critical)
<1>1. AreChains(ls, critical, others, kept, chains)
  BY Zenon DEF ChainsIn, AreChains
<1> HIDE DEF others, kept, chains
<1>2. GoodChains(dp, done, critical, chains)
  BY <1>1, NthLayersAreGood, Zenon
<1> QED BY <1>2 DEF chains

-----------------------------------------------------------------------------
(* The weight of a path *)

LEMMA UpToInduction ==
    ASSUME NEW n \in Nat, NEW Good, 0 \in Good,
           \A k \in 1..n : k - 1 \in Good => k \in Good
    PROVE  0..n \subseteq Good
<1> DEFINE D == 0..n
           id == [k \in D |-> k]
<1>1. IsMeasure(D, id, n)
  BY DEF IsMeasure
<1>2. Inherited(D, id, Good)
  <2> SUFFICES ASSUME NEW k \in D, \A j \in D : id[j] < id[k] => j \in Good
               PROVE  k \in Good
    BY Zenon DEF Inherited
  <2>1. k # 0 => k \in 1..n /\ k - 1 \in D /\ id[k - 1] < id[k]
    OBVIOUS
  <2> QED BY <2>1
<1> HIDE DEF D, id
<1>3. D \subseteq Good
  BY <1>1, <1>2, InductionOnMeasure, Zenon
<1> QED BY <1>3 DEF D

\* What the sums up to each place are made from.
SumsFrom(effort, path, s) ==
    [k \in 0..Len(path) |-> IF k = 0 THEN 0 ELSE s[k - 1] + effort[path[k]]]

AreSums(effort, path, s) == s = SumsFrom(effort, path, s)

Sums(effort, path) == CHOOSE s : s = SumsFrom(effort, path, s)

LEMMA WeightIsSum ==
    ASSUME NEW effort, NEW path PROVE Weight(effort, path) = Sums(effort, path)[Len(path)]
  BY Zenon DEF Weight, Sums, SumsFrom

LEMMA SumsAt ==
    ASSUME NEW effort, NEW path, Len(path) \in Nat,
           NEW s, AreSums(effort, path, s)
    PROVE  s[0] = 0 /\ \A k \in 1..Len(path) : s[k] = s[k - 1] + effort[path[k]]
<1>1. \A k \in 0..Len(path) : s[k] = IF k = 0 THEN 0 ELSE s[k - 1] + effort[path[k]]
  BY DEF AreSums, SumsFrom
<1>2. 0 \in 0..Len(path) /\ \A k \in 1..Len(path) : k \in 0..Len(path) /\ k # 0
  OBVIOUS
<1> QED BY <1>1, <1>2

LEMMA SumsExist ==
    ASSUME NEW S, NEW effort \in [S -> Nat], NEW path \in Seq(S)
    PROVE  /\ Sums(effort, path) \in [0..Len(path) -> Nat]
           /\ Sums(effort, path) = SumsFrom(effort, path, Sums(effort, path))
<1> DEFINE n == Len(path)
           D == 0..n
           m == [k \in D |-> k]
           B == [x \in D \X [D -> Nat] |->
                   IF x[1] = 0 THEN 0 ELSE x[2][x[1] - 1] + effort[path[x[1]]]]
<1>1. n \in Nat /\ \A k \in 1..n : effort[path[k]] \in Nat
  OBVIOUS
<1>2. ASSUME NEW k \in D, k # 0 PROVE k - 1 \in D /\ k \in 1..n /\ m[k - 1] < m[k]
  BY <1>1, <1>2
<1>3. ASSUME NEW k \in D, NEW g \in [D -> Nat]
      PROVE  B[<<k, g>>] = IF k = 0 THEN 0 ELSE g[k - 1] + effort[path[k]]
  <2>1. <<k, g>> \in D \X [D -> Nat] /\ <<k, g>>[1] = k /\ <<k, g>>[2] = g
    <3> HIDE DEF D
    <3> QED OBVIOUS
  <2> HIDE DEF D
  <2> QED BY <2>1
<1>4. B \in [D \X [D -> Nat] -> Nat]
  <2> SUFFICES ASSUME NEW x \in D \X [D -> Nat] PROVE B[x] \in Nat
    <3> HIDE DEF D
    <3> QED BY Zenon DEF B
  <2>1. PICK k \in D, g \in [D -> Nat] : x = <<k, g>>
    <3> HIDE DEF D
    <3> QED OBVIOUS
  <2>2. k # 0 => g[k - 1] \in Nat /\ effort[path[k]] \in Nat
    BY <1>1, <1>2
  <2>3. B[x] = IF k = 0 THEN 0 ELSE g[k - 1] + effort[path[k]]
    <3> HIDE DEF B, D
    <3> QED BY <1>3, <2>1, Zenon
  <2>4. CASE k = 0
    <3> HIDE DEF B, D
    <3> QED BY <2>3, <2>4
  <2>5. CASE k # 0
    <3> HIDE DEF B, D
    <3>1. B[x] = g[k - 1] + effort[path[k]]
      BY <2>3, <2>5
    <3> QED BY <2>2, <2>5, <3>1
  <2> QED BY <2>4, <2>5
<1>5. LooksBelow(D, Nat, m, B)
  <2>1. ASSUME NEW k \in D, NEW g \in [D -> Nat], NEW h \in [D -> Nat],
               \A j \in D : m[j] < m[k] => g[j] = h[j]
        PROVE  B[<<k, g>>] = B[<<k, h>>]
    <3>1. k # 0 => g[k - 1] = h[k - 1]
      BY <1>2, <2>1
    <3> HIDE DEF B, D, m
    <3> QED BY <1>3, <3>1
  <2> HIDE DEF B, D, m
  <2> QED BY <1>4, <2>1, Zenon DEF LooksBelow
<1>6. IsMeasure(D, m, n)
  BY <1>1 DEF IsMeasure
<1>7. PICK s : IsSolution(D, Nat, B, s)
  <2>1. Nat # {}
    OBVIOUS
  <2> HIDE DEF B, D, m
  <2> QED BY <1>5, <1>6, <2>1, RecursionOnMeasure, Zenon
<1>8. ASSUME NEW s2, IsSolution(D, Nat, B, s2) PROVE s2 = SumsFrom(effort, path, s2)
  <2>1. s2 \in [D -> Nat] /\ \A k \in D : s2[k] = B[<<k, s2>>]
    BY <1>8, Zenon DEF IsSolution
  <2>2. \A k \in D : s2[k] = IF k = 0 THEN 0 ELSE s2[k - 1] + effort[path[k]]
    <3> HIDE DEF B, D
    <3> QED BY <1>3, <2>1, Zenon
  <2> HIDE DEF B
  <2> QED BY <2>1, <2>2 DEF SumsFrom
<1>9. ASSUME NEW s2, s2 = SumsFrom(effort, path, s2) PROVE s2 \in [D -> Nat]
  <2>1. /\ DOMAIN s2 = D /\ s2 = [k \in D |-> s2[k]]
        /\ \A k \in D : s2[k] = IF k = 0 THEN 0 ELSE s2[k - 1] + effort[path[k]]
    BY <1>9 DEF SumsFrom
  <2> DEFINE Good == {k \in D : s2[k] \in Nat}
  <2>2. 0 \in Good
    BY <1>1, <2>1
  <2>3. ASSUME NEW k \in 1..n, k - 1 \in Good PROVE k \in Good
    <3>1. k \in D /\ k # 0
      OBVIOUS
    <3>2. s2[k] = s2[k - 1] + effort[path[k]]
      BY <2>1, <3>1
    <3> QED BY <1>1, <2>3, <3>1, <3>2
  <2>4. D \subseteq Good
    <3> HIDE DEF Good
    <3> QED BY <1>1, <2>2, <2>3, UpToInduction
  <2>5. \A k \in D : s2[k] \in Nat
    BY <2>4
  <2> HIDE DEF D
  <2> QED BY <2>1, <2>5
<1> QED
  <2>1. s = SumsFrom(effort, path, s)
    BY <1>7, <1>8
  <2>2. Sums(effort, path) = SumsFrom(effort, path, Sums(effort, path))
    BY <2>1, Zenon DEF Sums
  <2> QED BY <1>9, <2>2

LEMMA WeightOfNone ==
    ASSUME NEW effort PROVE Weight(effort, <<>>) = 0
<1> DEFINE E == [x \in {} |-> 0]
<1>1. ASSUME NEW s PROVE SumsFrom(effort, <<>>, s) = [k \in {0} |-> 0]
  BY DEF SumsFrom
<1>2. Sums(effort, <<>>) = [k \in {0} |-> 0]
  BY <1>1, Zenon DEF Sums
<1> QED BY <1>2, WeightIsSum

LEMMA WeightOfAppend ==
    ASSUME NEW S, NEW effort \in [S -> Nat], NEW path \in Seq(S), NEW t \in S
    PROVE  /\ Weight(effort, path) \in Nat
           /\ Weight(effort, Append(path, t)) = Weight(effort, path) + effort[t]
<1> DEFINE n == Len(path)
           more == Append(path, t)
           s == Sums(effort, path)
           u == Sums(effort, more)
<1>1. /\ n = Len(path) /\ n \in Nat /\ more \in Seq(S) /\ Len(more) = n + 1
      /\ more[n + 1] = t /\ \A k \in 1..n : more[k] = path[k]
  OBVIOUS
<1>2. /\ s \in [0..n -> Nat] /\ u \in [0..(n + 1) -> Nat]
      /\ s = SumsFrom(effort, path, s) /\ u = SumsFrom(effort, more, u)
  <2> HIDE DEF more
  <2> QED BY <1>1, SumsExist
<1> HIDE DEF more, s, u, n
<1>3. /\ s[0] = 0 /\ \A k \in 1..n : s[k] = s[k - 1] + effort[path[k]]
  <2>1. AreSums(effort, path, s) /\ Len(path) \in Nat
    BY <1>1, <1>2 DEF AreSums
  <2>2. s[0] = 0 /\ \A k \in 1..Len(path) : s[k] = s[k - 1] + effort[path[k]]
    BY ONLY <2>1, SumsAt
  <2> QED BY <1>1, <2>2
<1>4. /\ u[0] = 0 /\ \A k \in 1..(n + 1) : u[k] = u[k - 1] + effort[more[k]]
  <2>1. AreSums(effort, more, u) /\ Len(more) \in Nat
    BY <1>1, <1>2 DEF AreSums
  <2>2. u[0] = 0 /\ \A k \in 1..Len(more) : u[k] = u[k - 1] + effort[more[k]]
    BY ONLY <2>1, SumsAt
  <2> QED BY <1>1, <2>2
<1> DEFINE Good == {k \in 0..n : u[k] = s[k]}
<1>5. 0..n \subseteq Good
  <2>1. 0 \in Good
    BY <1>1, <1>3, <1>4
  <2>2. ASSUME NEW k \in 1..n, k - 1 \in Good PROVE k \in Good
    BY <1>1, <1>3, <1>4, <2>2
  <2> HIDE DEF Good
  <2> QED BY <1>1, <2>1, <2>2, UpToInduction
<1>6. u[n] = s[n] /\ u[n + 1] = u[n] + effort[t]
  <2>1. n \in 0..n /\ n + 1 \in 1..(n + 1) /\ (n + 1) - 1 = n
    BY <1>1
  <2>2. u[n + 1] = u[(n + 1) - 1] + effort[more[n + 1]]
    BY <1>4, <2>1
  <2> QED BY <1>1, <1>5, <2>1, <2>2
<1>7. Weight(effort, path) = s[n] /\ Weight(effort, more) = u[n + 1]
  BY <1>1, WeightIsSum DEF s, u
<1> QED BY <1>1, <1>2, <1>6, <1>7 DEF more

-----------------------------------------------------------------------------
(* The critical path *)

\* The place of a task in the layers: those it depends on come before it.
IsRank(dp, m, bound) ==
    /\ IsMeasure(DOMAIN dp, m, bound)
    /\ \A t \in DOMAIN dp : \A d \in dp[t] : m[d] < m[t]

LEMMA RankExists ==
    ASSUME NEW dp, IsFiniteSet(DOMAIN dp), Closed(dp), Acyclic(dp)
    PROVE  \E m, bound : IsRank(dp, m, bound)
<1> DEFINE ls == Layers(dp, {})
           D == DOMAIN dp
           At(t) == CHOOSE k \in DOMAIN ls : t \in ls[k]
           m == [t \in D |-> At(t)]
<1>1. GoodLayers(dp, {}, {}, ls)
  BY LayersAreGood
<1>2. Undone(dp, {}) \ {} = D
  BY DEF Undone
<1>3. ls \in Seq(SUBSET D)
  BY <1>1, <1>2 DEF GoodLayers
<1>4. Len(ls) \in Nat /\ DOMAIN ls = 1..Len(ls)
  <2> HIDE DEF ls, D
  <2> QED BY <1>3
<1>5. \A t \in D : At(t) \in DOMAIN ls /\ t \in ls[At(t)]
  <2>1. \A t \in D : \E k \in DOMAIN ls : t \in ls[k]
    <3> HIDE DEF ls
    <3> QED BY <1>1, <1>2 DEF GoodLayers
  <2> HIDE DEF ls, D
  <2> QED BY <2>1, Zenon
<1>6. ASSUME NEW t \in D, NEW d \in dp[t] PROVE d \in D /\ At(d) < At(t)
  <2>1. d \in D
    BY DEF Closed
  <2>2. ~(At(t) <= At(d))
    <3> HIDE DEF ls, D, At
    <3>1. At(t) <= At(d) => dp[t] \cap ls[At(d)] = {}
      BY <1>1, <1>5, <2>1 DEF GoodLayers
    <3> QED BY <1>5, <2>1, <3>1
  <2>3. At(t) \in Int /\ At(d) \in Int
    <3> HIDE DEF ls, D, At
    <3> QED BY <1>4, <1>5, <2>1
  <2> HIDE DEF ls, D, At
  <2> QED BY <2>1, <2>2, <2>3
<1>7. IsMeasure(D, m, Len(ls))
  <2> HIDE DEF ls, At
  <2>1. \A t \in D : At(t) \in Nat /\ At(t) <= Len(ls)
    BY <1>4, <1>5
  <2> HIDE DEF D
  <2> QED BY <1>4, <2>1 DEF IsMeasure
<1>8. \A t \in D : \A d \in dp[t] : m[d] < m[t]
  <2> HIDE DEF ls, At
  <2> QED BY <1>6
<1>9. IsRank(dp, m, Len(ls))
  <2> HIDE DEF ls, At, m
  <2> QED BY <1>7, <1>8 DEF IsRank
<1> QED BY <1>9, Zenon

\* One of a few is at least as heavy as the others.
IsHeaviest(S, w, x) == x \in S /\ \A y \in S : w[x] >= w[y]

LEMMA HeaviestExists ==
    ASSUME NEW S, IsFiniteSet(S), S # {}, NEW w \in [S -> Nat]
    PROVE  \E x : IsHeaviest(S, w, x)
<1> DEFINE Holds(U) == U # {} => \E x : IsHeaviest(U, w, x)
           n == Cardinality(S)
           Good == {k \in 0..n : \A U \in SUBSET S : Cardinality(U) = k => Holds(U)}
<1>1. n \in Nat
  BY FS_CardinalityType
<1>2. \A U \in SUBSET S : IsFiniteSet(U) /\ Cardinality(U) \in Nat
  BY FS_Subset, FS_CardinalityType
<1>3. 0 \in Good
  <2>1. \A U \in SUBSET S : Cardinality(U) = 0 => U = {}
    BY <1>2, FS_EmptySet
  <2> QED BY <1>1, <2>1
<1>4. ASSUME NEW k \in 1..n, k - 1 \in Good PROVE k \in Good
  <2> SUFFICES ASSUME NEW U \in SUBSET S, Cardinality(U) = k, U # {} PROVE \E x : IsHeaviest(U, w, x)
    OBVIOUS
  <2>1. PICK y \in U : TRUE
    OBVIOUS
  <2> DEFINE V == U \ {y}
  <2>2. Cardinality(V) = k - 1
    BY <1>2, FS_RemoveElement
  <2>3. V \in SUBSET S /\ Holds(V)
    BY <1>4, <2>2
  <2>4. CASE V = {}
    <3>1. \A z \in U : z = y
      BY <2>4
    <3>2. w[y] \in Nat
      OBVIOUS
    <3> QED BY <3>1, <3>2 DEF IsHeaviest
  <2>5. CASE V # {}
    <3>1. PICK x : IsHeaviest(V, w, x)
      BY <2>3, <2>5
    <3>2. x \in U /\ w[x] \in Nat /\ w[y] \in Nat /\ \A z \in U : w[z] \in Nat /\ (z = y \/ w[x] >= w[z])
      BY <3>1 DEF IsHeaviest
    <3>3. CASE w[x] >= w[y]
      BY <3>2, <3>3 DEF IsHeaviest
    <3>4. CASE ~(w[x] >= w[y])
      <4>1. IsHeaviest(U, w, y)
        BY <3>2, <3>4 DEF IsHeaviest
      <4> QED BY <4>1
    <3> QED BY <3>3, <3>4
  <2> QED BY <2>4, <2>5
<1>5. n \in Good
  <2> HIDE DEF n, Good
  <2>1. 0..n \subseteq Good
    BY <1>1, <1>3, <1>4, UpToInduction
  <2> QED BY <1>1, <2>1
<1> QED BY <1>5

LEMMA WeightType ==
    ASSUME NEW S, NEW effort \in [S -> Nat], NEW path \in Seq(S)
    PROVE  Weight(effort, path) \in Nat
<1>1. Len(path) \in Nat /\ Len(path) \in 0..Len(path)
  OBVIOUS
<1>2. Sums(effort, path)[Len(path)] \in Nat
  BY <1>1, SumsExist
<1> QED BY <1>2, WeightIsSum

\* The heaviest of finitely many paths is one of them.
TakesHeaviest(effort, I, p) ==
    LET h == Heaviest(effort, {p[i] : i \in I})
    IN  /\ \E i \in I : h = p[i]
        /\ \A i \in I : Weight(effort, h) >= Weight(effort, p[i])

LEMMA HeaviestIsOne ==
    ASSUME NEW S, NEW effort \in [S -> Nat], NEW I, IsFiniteSet(I), I # {}, NEW p \in [I -> Seq(S)]
    PROVE  TakesHeaviest(effort, I, p)
<1> DEFINE w == [i \in I |-> Weight(effort, p[i])]
           paths == {p[j] : j \in I}
           Best(q) == q \in paths /\ \A r \in paths : Weight(effort, q) >= Weight(effort, r)
           h == Heaviest(effort, paths)
<1>1. \A i \in I : Weight(effort, p[i]) \in Nat
  <2> TAKE i \in I
  <2>1. p[i] \in Seq(S)
    OBVIOUS
  <2> QED BY <2>1, WeightType
<1>2. w \in [I -> Nat]
  BY <1>1
<1>3. PICK i : IsHeaviest(I, w, i)
  <2> HIDE DEF w
  <2> QED BY <1>2, HeaviestExists
<1>4. Best(p[i])
  BY <1>3 DEF IsHeaviest
<1>5. Best(h)
  BY <1>4, Zenon DEF Heaviest
<1> HIDE DEF h
<1> QED BY <1>5 DEF h, TakesHeaviest

\* What the path to each task is made from, and its solution.
Before(dp, t) == dp[t] \cap DOMAIN dp

PathTo(dp, effort, f, t) ==
    IF Before(dp, t) = {} THEN <<t>>
    ELSE Append(Heaviest(effort, {f[d] : d \in Before(dp, t)}), t)

PathsFrom(dp, effort, f) == [t \in DOMAIN dp |-> PathTo(dp, effort, f, t)]

Paths(dp, effort) == CHOOSE f : f = PathsFrom(dp, effort, f)

LEMMA CriticalPathIsHeaviest ==
    ASSUME NEW dp, NEW effort
    PROVE  CriticalPath(dp, effort) =
             IF DOMAIN dp = {} THEN <<>>
             ELSE Heaviest(effort, {Paths(dp, effort)[t] : t \in DOMAIN dp})
  BY Zenon DEF CriticalPath, Paths, PathsFrom, PathTo, Before

\* A path to t is one to something it depends on, or to nothing, and then t.
LEMMA PathToCases ==
    ASSUME NEW dp, IsFiniteSet(DOMAIN dp), NEW effort \in [DOMAIN dp -> Nat],
           NEW f \in [DOMAIN dp -> Seq(DOMAIN dp)], NEW t \in DOMAIN dp
    PROVE  /\ PathTo(dp, effort, f, t) \in Seq(DOMAIN dp)
           /\ \/ Before(dp, t) = {} /\ PathTo(dp, effort, f, t) = <<t>>
              \/ \E d \in Before(dp, t) :
                   /\ PathTo(dp, effort, f, t) = Append(f[d], t)
                   /\ \A e \in Before(dp, t) : Weight(effort, f[d]) >= Weight(effort, f[e])
<1> DEFINE S == DOMAIN dp
           I == Before(dp, t)
           p == [d \in I |-> f[d]]
           h == Heaviest(effort, {f[d] : d \in I})
<1>1. I \subseteq S
  BY DEF Before
<1>2. CASE I = {}
  BY <1>2 DEF PathTo
<1>3. CASE I # {}
  <2>1. IsFiniteSet(I) /\ p \in [I -> Seq(S)]
    BY <1>1, FS_Subset
  <2>2. {p[d] : d \in I} = {f[d] : d \in I}
    OBVIOUS
  <2>3. /\ \E d \in I : h = p[d]
        /\ \A d \in I : Weight(effort, h) >= Weight(effort, p[d])
    <3>1. effort \in [S -> Nat]
      OBVIOUS
    <3>2. h = Heaviest(effort, {p[d] : d \in I})
      BY <2>2
    <3> HIDE DEF I, p, S, h
    <3>3. TakesHeaviest(effort, I, p)
      BY ONLY <1>3, <2>1, <3>1, HeaviestIsOne
    <3> QED BY ONLY <3>2, <3>3, Zenon DEF TakesHeaviest
  <2>4. PICK d \in I : h = f[d]
    BY <2>3
  <2>5. PathTo(dp, effort, f, t) = Append(f[d], t)
    BY <1>3, <2>4, Zenon DEF PathTo
  <2>6. \A e \in I : Weight(effort, f[d]) >= Weight(effort, f[e])
    BY <2>3, <2>4
  <2>7. f[d] \in Seq(S)
    BY <1>1
  <2> HIDE DEF I, S
  <2>8. Append(f[d], t) \in Seq(S)
    BY <2>7 DEF S
  <2> QED BY <2>5, <2>6, <2>8 DEF I, S
<1> QED BY <1>2, <1>3

\* The table of paths exists: a path is made from paths to tasks of less rank.
LEMMA PathsExist ==
    ASSUME NEW dp, IsFiniteSet(DOMAIN dp), Closed(dp), Acyclic(dp),
           NEW effort \in [DOMAIN dp -> Nat]
    PROVE  /\ Paths(dp, effort) \in [DOMAIN dp -> Seq(DOMAIN dp)]
           /\ \A t \in DOMAIN dp :
                Paths(dp, effort)[t] = PathTo(dp, effort, Paths(dp, effort), t)
<1> DEFINE D == DOMAIN dp
           V == Seq(D)
           B == [x \in D \X [D -> V] |-> PathTo(dp, effort, x[2], x[1])]
<1>1. PICK m, bound : IsRank(dp, m, bound)
  BY RankExists
<1>2. ASSUME NEW t \in D, NEW g \in [D -> V]
      PROVE  B[<<t, g>>] = PathTo(dp, effort, g, t)
  <2>1. <<t, g>> \in D \X [D -> V] /\ <<t, g>>[1] = t /\ <<t, g>>[2] = g
    <3> HIDE DEF D, V
    <3> QED OBVIOUS
  <2> HIDE DEF D, V
  <2> QED BY <2>1
<1>3. B \in [D \X [D -> V] -> V]
  <2> SUFFICES ASSUME NEW x \in D \X [D -> V] PROVE B[x] \in V
    <3> HIDE DEF D, V
    <3> QED BY Zenon DEF B
  <2>1. PICK t \in D, g \in [D -> V] : x = <<t, g>>
    <3> HIDE DEF D, V
    <3> QED OBVIOUS
  <2>2. PathTo(dp, effort, g, t) \in V
    BY PathToCases
  <2> HIDE DEF B, D, V
  <2> QED BY <1>2, <2>1, <2>2
<1>4. LooksBelow(D, V, m, B)
  <2>1. ASSUME NEW t \in D, NEW g \in [D -> V], NEW h \in [D -> V],
               \A y \in D : m[y] < m[t] => g[y] = h[y]
        PROVE  B[<<t, g>>] = B[<<t, h>>]
    <3>1. \A d \in Before(dp, t) : g[d] = h[d]
      BY <1>1, <2>1 DEF IsRank, Before
    <3>2. {g[d] : d \in Before(dp, t)} = {h[d] : d \in Before(dp, t)}
      BY ONLY <3>1
    <3>3. PathTo(dp, effort, g, t) = PathTo(dp, effort, h, t)
      BY <3>2, Zenon DEF PathTo
    <3> HIDE DEF B, D, V
    <3> QED BY <1>2, <3>3
  <2> HIDE DEF B, D, V
  <2> QED BY <1>3, <2>1, Zenon DEF LooksBelow
<1>5. PICK f : IsSolution(D, V, B, f)
  <2>1. V # {}
    <3>1. <<>> \in V
      OBVIOUS
    <3> QED BY <3>1
  <2>2. IsMeasure(D, m, bound)
    BY <1>1 DEF IsRank
  <2> HIDE DEF B, D, V
  <2> QED BY <1>4, <2>1, <2>2, RecursionOnMeasure, Zenon
<1>6. f = PathsFrom(dp, effort, f)
  <2>1. f \in [D -> V] /\ \A t \in D : f[t] = B[<<t, f>>]
    BY <1>5, Zenon DEF IsSolution
  <2>2. \A t \in D : f[t] = PathTo(dp, effort, f, t)
    <3> HIDE DEF B, D, V
    <3> QED BY <1>2, <2>1
  <2> HIDE DEF B, V
  <2> QED BY <2>1, <2>2 DEF PathsFrom
<1> DEFINE P == Paths(dp, effort)
<1>7. P = PathsFrom(dp, effort, P)
  BY <1>6, Zenon DEF Paths
<1> HIDE DEF P
<1>8. DOMAIN P = D /\ \A t \in D : P[t] = PathTo(dp, effort, P, t)
  BY <1>7 DEF PathsFrom
<1>9. \A t \in D : P[t] \in V
  <2> DEFINE Good == {t \in D : P[t] \in V}
             q == [t \in D |-> IF P[t] \in V THEN P[t] ELSE <<>>]
  <2>1. q \in [D -> V]
    <3>1. <<>> \in V
      OBVIOUS
    <3> HIDE DEF D, V
    <3> QED BY <3>1
  <2>2. ASSUME NEW t \in D, \A y \in D : m[y] < m[t] => y \in Good
        PROVE  t \in Good
    <3>1. \A d \in Before(dp, t) : q[d] = P[d]
      BY <1>1, <2>2 DEF IsRank, Before
    <3>2. {q[d] : d \in Before(dp, t)} = {P[d] : d \in Before(dp, t)}
      <4> HIDE DEF q
      <4> QED BY ONLY <3>1
    <3>3. PathTo(dp, effort, q, t) = PathTo(dp, effort, P, t)
      <4> HIDE DEF q
      <4> QED BY <3>2, Zenon DEF PathTo
    <3>4. PathTo(dp, effort, q, t) \in V
      <4> HIDE DEF q
      <4> QED BY <2>1, PathToCases
    <3> QED BY <1>8, <3>3, <3>4
  <2>3. IsMeasure(D, m, bound)
    BY <1>1 DEF IsRank
  <2>4. Inherited(D, m, Good)
    <3> HIDE DEF Good
    <3> QED BY <2>2, Zenon DEF Inherited
  <2>5. D \subseteq Good
    <3> HIDE DEF Good, D
    <3> QED BY <2>3, <2>4, InductionOnMeasure, Zenon
  <2> QED BY <2>5
<1>10. P \in [D -> V]
  <2>1. P = [t \in D |-> P[t]]
    BY <1>7, <1>8 DEF PathsFrom
  <2> HIDE DEF D, V
  <2> QED BY <1>9, <2>1
<1> QED BY <1>8, <1>10, Zenon DEF P

\* A chain of dependencies that ends in t.
EndsIn(dp, p, t) == IsChain(dp, p) /\ Len(p) # 0 /\ p[Len(p)] = t

LEMMA ChainGrows ==
    ASSUME NEW dp, NEW S, NEW p \in Seq(S), NEW t \in S, NEW d \in dp[t], EndsIn(dp, p, d)
    PROVE  EndsIn(dp, Append(p, t), t)
<1> DEFINE q == Append(p, t)
           n == Len(p)
<1>1. /\ n \in Nat /\ Len(q) = n + 1 /\ q[n + 1] = t
      /\ \A i \in 1..n : q[i] = p[i]
  OBVIOUS
<1>2. n # 0 /\ p[n] = d /\ \A i \in 1..(n - 1) : p[i] \in dp[p[i + 1]]
  BY DEF EndsIn, IsChain
<1> HIDE DEF q, n
<1>3. \A i \in 1..n : q[i] \in dp[q[i + 1]]
  <2> TAKE i \in 1..n
  <2>1. CASE i = n
    BY <1>1, <1>2, <2>1
  <2>2. CASE i # n
    <3>1. i \in 1..(n - 1) /\ i + 1 \in 1..n
      BY <1>1, <2>2
    <3> QED BY <1>1, <1>2, <3>1
  <2> QED BY <2>1, <2>2
<1>4. Len(q) - 1 = n /\ Len(q) # 0
  BY <1>1
<1>5. EndsIn(dp, q, t)
  BY <1>1, <1>3, <1>4 DEF EndsIn, IsChain
<1> QED BY <1>5 DEF q

LEMMA PathsAreChains ==
    ASSUME NEW dp, IsFiniteSet(DOMAIN dp), Closed(dp), Acyclic(dp),
           NEW effort \in [DOMAIN dp -> Nat], NEW t \in DOMAIN dp
    PROVE  EndsIn(dp, Paths(dp, effort)[t], t)
<1> DEFINE D == DOMAIN dp
           P == Paths(dp, effort)
           Good == {u \in D : EndsIn(dp, P[u], u)}
<1>1. PICK m, bound : IsRank(dp, m, bound)
  BY RankExists
<1>2. P \in [D -> Seq(D)] /\ \A u \in D : P[u] = PathTo(dp, effort, P, u)
  BY PathsExist
<1> HIDE DEF P
<1>3. ASSUME NEW u \in D, \A y \in D : m[y] < m[u] => y \in Good
      PROVE  u \in Good
  <2>1. \/ P[u] = <<u>>
        \/ \E d \in Before(dp, u) : P[u] = Append(P[d], u)
    <3>1. P[u] = PathTo(dp, effort, P, u)
      BY <1>2
    <3> QED BY <1>2, <3>1, PathToCases
  <2>2. CASE P[u] = <<u>>
    <3>1. EndsIn(dp, <<u>>, u)
      BY DEF EndsIn, IsChain
    <3> QED BY <2>2, <3>1
  <2>3. ASSUME NEW d \in Before(dp, u), P[u] = Append(P[d], u) PROVE u \in Good
    <3>1. d \in D /\ d \in dp[u] /\ m[d] < m[u]
      BY <1>1 DEF Before, IsRank
    <3>2. EndsIn(dp, P[d], d) /\ P[d] \in Seq(D)
      BY <1>2, <1>3, <3>1
    <3>3. EndsIn(dp, Append(P[d], u), u)
      <4> HIDE DEF D
      <4> QED BY <3>1, <3>2, ChainGrows
    <3> QED BY <2>3, <3>3
  <2> QED BY <2>1, <2>2, <2>3
<1>4. IsMeasure(D, m, bound)
  BY <1>1 DEF IsRank
<1>5. Inherited(D, m, Good)
  <2> HIDE DEF Good
  <2> QED BY <1>3, Zenon DEF Inherited
<1>6. D \subseteq Good
  <2> HIDE DEF Good, D
  <2> QED BY <1>4, <1>5, InductionOnMeasure, Zenon
<1> QED BY <1>6 DEF P

\* The weights of the paths are times at which the tasks can end.
LEMMA PathsAreTimes ==
    ASSUME NEW dp, IsFiniteSet(DOMAIN dp), Closed(dp), Acyclic(dp),
           NEW effort \in [DOMAIN dp -> Nat], NEW t \in DOMAIN dp
    PROVE  LET end(u) == Weight(effort, Paths(dp, effort)[u])
           IN  /\ end(t) \in Nat /\ end(t) >= effort[t]
               /\ \A d \in dp[t] : end(t) >= end(d) + effort[t]
<1> DEFINE D == DOMAIN dp
           P == Paths(dp, effort)
           end(u) == Weight(effort, P[u])
<1>1. P \in [D -> Seq(D)] /\ P[t] = PathTo(dp, effort, P, t)
  BY PathsExist
<1> HIDE DEF P
<1>2. \A u \in D : end(u) \in Nat /\ effort[u] \in Nat
  <2> TAKE u \in D
  <2>1. P[u] \in Seq(D)
    BY <1>1
  <2> QED BY <2>1, WeightType
<1>3. \A d \in dp[t] : d \in Before(dp, t)
  BY DEF Closed, Before
<1>4. \/ Before(dp, t) = {} /\ P[t] = <<t>>
      \/ \E d \in Before(dp, t) :
           /\ P[t] = Append(P[d], t)
           /\ \A e \in Before(dp, t) : end(d) >= end(e)
  BY <1>1, PathToCases
<1>5. CASE Before(dp, t) = {} /\ P[t] = <<t>>
  <2>1. <<t>> = Append(<<>>, t) /\ <<>> \in Seq(D)
    OBVIOUS
  <2>2. Weight(effort, <<>>) = 0
    BY WeightOfNone
  <2>3. end(t) = effort[t]
    <3>1. Weight(effort, Append(<<>>, t)) = Weight(effort, <<>>) + effort[t]
      <4>1. effort \in [D -> Nat] /\ t \in D
        OBVIOUS
      <4> HIDE DEF D
      <4> QED BY ONLY <2>1, <4>1, WeightOfAppend
    <3>2. effort[t] \in Nat
      BY <1>2
    <3> QED BY ONLY <1>5, <2>1, <2>2, <3>1, <3>2
  <2> HIDE DEF end
  <2> QED BY <1>2, <1>3, <1>5, <2>3 DEF P, end
<1>6. ASSUME NEW d \in Before(dp, t), P[t] = Append(P[d], t),
             \A e \in Before(dp, t) : end(d) >= end(e)
      PROVE  /\ end(t) >= effort[t] /\ \A e \in dp[t] : end(t) >= end(e) + effort[t]
  <2>1. d \in D /\ P[d] \in Seq(D)
    BY <1>1 DEF Before
  <2>2. Weight(effort, Append(P[d], t)) = end(d) + effort[t]
    BY <2>1, WeightOfAppend
  <2>3. end(t) = end(d) + effort[t]
    BY <1>6, <2>2
  <2> HIDE DEF end
  <2>4. \A e \in dp[t] : e \in D /\ end(e) \in Nat /\ end(d) >= end(e)
    BY <1>2, <1>3, <1>6 DEF Before
  <2> QED BY <1>2, <2>1, <2>3, <2>4
<1> QED BY <1>2, <1>4, <1>5, <1>6 DEF P

\* The critical path is a chain, and its effort is enough time for everything.
LEMMA CriticalPathIsLeast ==
    ASSUME NEW dp, IsFiniteSet(DOMAIN dp), Closed(dp), Acyclic(dp),
           NEW effort \in [DOMAIN dp -> Nat \ {0}]
    PROVE  LET path == CriticalPath(dp, effort)
           IN  /\ path \in Seq(DOMAIN dp) /\ IsChain(dp, path)
               /\ DoableIn(dp, effort, Weight(effort, path))
<1> DEFINE D == DOMAIN dp
           P == Paths(dp, effort)
           path == CriticalPath(dp, effort)
<1>0. effort \in [D -> Nat]
  OBVIOUS
<1>1. CASE D = {}
  <2>1. path = <<>>
    BY <1>1, CriticalPathIsHeaviest
  <2>2. <<>> \in Seq(D) /\ IsChain(dp, <<>>)
    BY DEF IsChain
  <2>3. [t \in D |-> 1] \in [D -> 1..Weight(effort, path)]
    BY <1>1
  <2>4. DoableIn(dp, effort, Weight(effort, path))
    BY <1>1, <2>3, Zenon DEF DoableIn
  <2> QED BY <2>1, <2>2, <2>4
<1>2. CASE D # {}
  <2>1. path = Heaviest(effort, {P[t] : t \in D})
    BY <1>2, CriticalPathIsHeaviest, Zenon
  <2>2. P \in [D -> Seq(D)]
    BY <1>0, PathsExist
  <2>3. TakesHeaviest(effort, D, P)
    <3> HIDE DEF D, P
    <3> QED BY ONLY IsFiniteSet(DOMAIN dp), <1>0, <1>2, <2>2, HeaviestIsOne DEF D
  <2>4. /\ \E t \in D : path = P[t]
        /\ \A t \in D : Weight(effort, path) >= Weight(effort, P[t])
    <3> HIDE DEF D, P, path
    <3> QED BY ONLY <2>1, <2>3, Zenon DEF TakesHeaviest
  <2>5. PICK t \in D : path = P[t]
    BY <2>4
  <2>6. path \in Seq(D) /\ IsChain(dp, path)
    <3>1. EndsIn(dp, P[t], t)
      BY <1>0, PathsAreChains
    <3> HIDE DEF D, P, path
    <3> QED BY <2>2, <2>5, <3>1 DEF EndsIn
  <2> DEFINE end == [u \in D |-> Weight(effort, P[u])]
             time == Weight(effort, path)
  <2>7. \A u \in D : /\ end[u] \in Nat /\ end[u] >= effort[u]
                     /\ \A d \in dp[u] : end[u] >= end[d] + effort[u]
    <3> TAKE u \in D
    <3>1. /\ Weight(effort, P[u]) \in Nat /\ Weight(effort, P[u]) >= effort[u]
          /\ \A d \in dp[u] : Weight(effort, P[u]) >= Weight(effort, P[d]) + effort[u]
      BY <1>0, PathsAreTimes
    <3>2. \A d \in dp[u] : d \in D
      BY DEF Closed
    <3> HIDE DEF D, P
    <3> QED BY <3>1, <3>2
  <2>8. \A u \in D : end[u] <= time /\ time \in Nat
    <3> HIDE DEF P, path
    <3> QED BY <1>0, <2>4, <2>6, <2>7, WeightType
  <2>9. end \in [D -> 1..time]
    <3>1. \A u \in D : end[u] \in 1..time
      <4> TAKE u \in D
      <4>1. effort[u] \in Nat \ {0}
        OBVIOUS
      <4> HIDE DEF end, time, D
      <4> QED BY <2>7, <2>8, <4>1
    <3> HIDE DEF D, time, P
    <3> QED BY <3>1
  <2>10. DoableIn(dp, effort, time)
    <3> HIDE DEF end, time
    <3> QED BY <2>7, <2>9, Zenon DEF DoableIn
  <2> QED BY <2>6, <2>10
<1> QED BY <1>1, <1>2

-----------------------------------------------------------------------------
(* The search for a cycle *)

Visit(dp, visit, nodes, marks) ==
    LET node == CHOOSE n \in nodes : TRUE
        rest == nodes \ {node}
    IN  IF nodes = {} THEN marks
        ELSE IF node \in marks.visiting THEN visit[<<rest, [marks EXCEPT !.found = TRUE]>>]
        ELSE IF node \in marks.visited THEN visit[<<rest, marks>>]
        ELSE visit[<<rest, Leave(visit[<<Below(dp, node), Enter(marks, node)>>], node)>>]

VisitsFrom(dp, visit) ==
    [x \in (SUBSET Names(dp)) \X Marks(dp) |-> Visit(dp, visit, x[1], x[2])]

Visits(dp) == CHOOSE visit : visit = VisitsFrom(dp, visit)

NoMarks == [visiting |-> {}, visited |-> {}, found |-> FALSE]

LEMMA CycleFoundIsVisit ==
    ASSUME NEW dp PROVE CycleFound(dp) = Visits(dp)[<<DOMAIN dp, NoMarks>>].found
  BY Zenon DEF CycleFound, Visits, VisitsFrom, Visit, NoMarks

Seen(marks) == [marks EXCEPT !.found = TRUE]

LEMMA SeenMarks ==
    ASSUME NEW dp, NEW marks \in Marks(dp)
    PROVE  /\ Seen(marks) \in Marks(dp) /\ Seen(marks).found
           /\ Seen(marks).visiting = marks.visiting /\ Seen(marks).visited = marks.visited
<1> DEFINE N == Names(dp)
<1>1. marks \in [visiting : SUBSET N, visited : SUBSET N, found : BOOLEAN]
  BY DEF Marks
<1> HIDE DEF N
<1> QED BY <1>1 DEF Marks, Seen, N

LEMMA EnterMarks ==
    ASSUME NEW dp, NEW marks \in Marks(dp), NEW node \in Names(dp)
    PROVE  /\ Enter(marks, node) \in Marks(dp)
           /\ Enter(marks, node).visiting = marks.visiting \cup {node}
           /\ Enter(marks, node).visited = marks.visited
           /\ Enter(marks, node).found = marks.found
<1> DEFINE N == Names(dp)
<1>1. marks \in [visiting : SUBSET N, visited : SUBSET N, found : BOOLEAN] /\ node \in N
  BY DEF Marks
<1> HIDE DEF N
<1>2. /\ Enter(marks, node) \in [visiting : SUBSET N, visited : SUBSET N, found : BOOLEAN]
      /\ Enter(marks, node).visiting = marks.visiting \cup {node}
      /\ Enter(marks, node).visited = marks.visited
      /\ Enter(marks, node).found = marks.found
  BY <1>1 DEF Enter
<1> QED BY <1>2, Zenon DEF Marks, N

LEMMA LeaveMarks ==
    ASSUME NEW dp, NEW marks \in Marks(dp), NEW node \in Names(dp)
    PROVE  /\ Leave(marks, node) \in Marks(dp)
           /\ Leave(marks, node).visiting = marks.visiting \ {node}
           /\ Leave(marks, node).visited = marks.visited \cup {node}
           /\ Leave(marks, node).found = marks.found
<1> DEFINE N == Names(dp)
<1>1. marks \in [visiting : SUBSET N, visited : SUBSET N, found : BOOLEAN] /\ node \in N
  BY DEF Marks
<1> HIDE DEF N
<1>2. /\ Leave(marks, node) \in [visiting : SUBSET N, visited : SUBSET N, found : BOOLEAN]
      /\ Leave(marks, node).visiting = marks.visiting \ {node}
      /\ Leave(marks, node).visited = marks.visited \cup {node}
      /\ Leave(marks, node).found = marks.found
  BY <1>1 DEF Leave
<1> QED BY <1>2, Zenon DEF Marks, N

\* What is left to visit, and the names still to be met.
Left(dp, marks) == Names(dp) \ (marks.visiting \cup marks.visited)

Size(dp, nodes, marks) ==
    Cardinality(Left(dp, marks)) * (Cardinality(Names(dp)) + 1) + Cardinality(nodes)

LEMMA Lexicographic ==
    ASSUME NEW a \in Nat, NEW b \in Nat, NEW c \in Nat, NEW s \in 0..c, NEW r \in 0..c,
           b < a \/ (b <= a /\ r < s)
    PROVE  b * (c + 1) + r < a * (c + 1) + s
<1>1. CASE b < a
  <2>1. b + 1 <= a
    BY <1>1
  <2>2. (b + 1) * (c + 1) <= a * (c + 1)
    BY <2>1
  <2>3. (b + 1) * (c + 1) = b * (c + 1) + c + 1
    OBVIOUS
  <2>4. b * (c + 1) \in Nat /\ a * (c + 1) \in Nat
    OBVIOUS
  <2> QED BY <2>2, <2>3, <2>4
<1>2. CASE b <= a /\ r < s
  <2>1. b * (c + 1) <= a * (c + 1)
    BY <1>2
  <2>2. b * (c + 1) \in Nat /\ a * (c + 1) \in Nat
    OBVIOUS
  <2> QED BY <1>2, <2>1, <2>2
<1> QED BY <1>1, <1>2

\* A set within a finite one is no larger, and smaller if something is missing.
LEMMA PartIsSmaller ==
    ASSUME NEW S, IsFiniteSet(S), NEW T, T \subseteq S
    PROVE  /\ Cardinality(T) \in Nat /\ Cardinality(S) \in Nat
           /\ Cardinality(T) <= Cardinality(S)
           /\ (\E x \in S : x \notin T) => Cardinality(T) < Cardinality(S)
<1>1. /\ IsFiniteSet(T) /\ Cardinality(T) <= Cardinality(S)
      /\ Cardinality(T) = Cardinality(S) => T = S
  BY FS_Subset
<1>2. Cardinality(T) \in Nat /\ Cardinality(S) \in Nat
  BY <1>1, FS_CardinalityType
<1> QED BY <1>1, <1>2

LEMMA SizeDrops ==
    ASSUME NEW dp, IsFiniteSet(Names(dp)),
           NEW nodes \in SUBSET Names(dp), NEW marks, NEW fewer \in SUBSET Names(dp), NEW more,
           Left(dp, more) \subseteq Left(dp, marks),
           \/ \E n \in Left(dp, marks) : n \notin Left(dp, more)
           \/ fewer \subseteq nodes /\ \E n \in nodes : n \notin fewer
    PROVE  Size(dp, fewer, more) < Size(dp, nodes, marks)
<1> DEFINE N == Names(dp)
           a == Cardinality(Left(dp, marks))
           b == Cardinality(Left(dp, more))
           c == Cardinality(N)
           s == Cardinality(nodes)
           r == Cardinality(fewer)
<1>1. Left(dp, marks) \subseteq N /\ Left(dp, more) \subseteq N
  BY DEF Left
<1>2. a \in Nat /\ b \in Nat /\ c \in Nat /\ s \in 0..c /\ r \in 0..c
  <2>1. a \in Nat /\ b \in Nat /\ c \in Nat
    BY <1>1, PartIsSmaller
  <2>2. s \in Nat /\ r \in Nat /\ s <= c /\ r <= c
    BY PartIsSmaller
  <2> QED BY <2>1, <2>2
<1>3. IsFiniteSet(Left(dp, marks)) /\ IsFiniteSet(nodes)
  BY <1>1, FS_Subset
<1>4. b <= a /\ ((\E n \in Left(dp, marks) : n \notin Left(dp, more)) => b < a)
  BY <1>3, PartIsSmaller
<1>5. (fewer \subseteq nodes /\ \E n \in nodes : n \notin fewer) => r < s
  BY <1>3, PartIsSmaller
<1>6. b < a \/ (b <= a /\ r < s)
  BY <1>4, <1>5
<1> HIDE DEF a, b, c, s, r
<1>7. b * (c + 1) + r < a * (c + 1) + s
  BY <1>2, <1>6, Lexicographic
<1> QED BY <1>7 DEF Size, a, b, c, s, r

\* What is done with has no cycle in it, and needs nothing else.
Clean(dp, done) ==
    /\ \A t \in done \cap DOMAIN dp : dp[t] \subseteq done
    /\ \A S \in SUBSET (done \cap DOMAIN dp) : S # {} => \E t \in S : dp[t] \cap S = {}

\* Before a visit: those being visited lead to each other and to the nodes, and
\* what has been found is true.
Ready(dp, nodes, marks) ==
    /\ marks.visiting \cap marks.visited = {}
    /\ nodes # {} => \A v \in marks.visiting :
         v \in DOMAIN dp /\ (dp[v] \cap marks.visiting # {} \/ nodes \subseteq dp[v])
    /\ marks.found => ~Acyclic(dp)
    /\ ~marks.found => Clean(dp, marks.visited)

\* A visit adds to what is known ...
Adds(dp, marks, result) ==
    /\ result \in Marks(dp)
    /\ result.visiting = marks.visiting
    /\ marks.visited \subseteq result.visited
    /\ marks.found => result.found

\* ... and does so rightly.
Right(dp, nodes, result) ==
    /\ result.visiting \cap result.visited = {}
    /\ result.found => ~Acyclic(dp)
    /\ ~result.found => Clean(dp, result.visited) /\ nodes \subseteq result.visited

GoodVisit(dp, nodes, marks, result) ==
    Adds(dp, marks, result) /\ (Ready(dp, nodes, marks) => Right(dp, nodes, result))

\* A node is done with after those it depends on.
LEMMA CleanGrows ==
    ASSUME NEW dp, NEW done, Clean(dp, done), NEW node, node \notin done,
           Below(dp, node) \subseteq done
    PROVE  Clean(dp, done \cup {node})
<1> DEFINE more == done \cup {node}
<1>1. ASSUME NEW t \in more \cap DOMAIN dp PROVE dp[t] \subseteq done
  BY DEF Clean, Below
<1>2. ASSUME NEW S \in SUBSET (more \cap DOMAIN dp), S # {}
      PROVE  \E t \in S : dp[t] \cap S = {}
  <2> DEFINE rest == S \ {node}
  <2>1. rest \in SUBSET (done \cap DOMAIN dp)
    OBVIOUS
  <2>2. CASE rest # {}
    <3>1. PICK t \in rest : dp[t] \cap rest = {}
      BY <2>1, <2>2 DEF Clean
    <3>2. dp[t] \subseteq done
      BY <1>1, <2>1, <3>1
    <3> QED BY <3>1, <3>2
  <2>3. CASE rest = {}
    <3>1. S = {node}
      BY <1>2, <2>3
    <3>2. dp[node] \subseteq done
      BY <1>1, <1>2, <3>1
    <3> QED BY <3>1, <3>2
  <2> QED BY <2>2, <2>3
<1> QED BY <1>1, <1>2 DEF Clean

\* Meeting a node that is being visited shows a cycle.
LEMMA MetAgain ==
    ASSUME NEW dp, NEW nodes, NEW marks, Ready(dp, nodes, marks),
           NEW node \in nodes, node \in marks.visiting
    PROVE  ~Acyclic(dp)
<1>1. marks.visiting \in SUBSET DOMAIN dp /\ marks.visiting # {}
  BY DEF Ready
<1>2. \A v \in marks.visiting : dp[v] \cap marks.visiting # {}
  BY DEF Ready
<1> QED BY <1>1, <1>2, Zenon DEF Acyclic

LEMMA ReadyBelow ==
    ASSUME NEW dp, NEW nodes, NEW marks \in Marks(dp), Ready(dp, nodes, marks),
           NEW node \in nodes, node \in Names(dp),
           node \notin marks.visiting, node \notin marks.visited
    PROVE  Ready(dp, Below(dp, node), Enter(marks, node))
<1> DEFINE e == Enter(marks, node)
<1>1. e.visiting = marks.visiting \cup {node} /\ e.visited = marks.visited
      /\ e.found = marks.found
  BY EnterMarks
<1> HIDE DEF e
<1>2. Below(dp, node) # {} => node \in DOMAIN dp /\ Below(dp, node) = dp[node]
  BY DEF Below
<1>3. ASSUME Below(dp, node) # {}, NEW v \in e.visiting
      PROVE  v \in DOMAIN dp /\ (dp[v] \cap e.visiting # {} \/ Below(dp, node) \subseteq dp[v])
  <2>1. CASE v = node
    BY <1>2, <1>3, <2>1
  <2>2. CASE v # node
    <3>1. v \in marks.visiting
      BY <1>1, <1>3, <2>2
    <3> QED BY <1>1, <3>1 DEF Ready
  <2> QED BY <2>1, <2>2
<1>4. e.visiting \cap e.visited = {}
  BY <1>1 DEF Ready
<1> QED BY <1>1, <1>3, <1>4 DEF Ready, e

LEMMA ReadyAfter ==
    ASSUME NEW dp, NEW nodes, NEW marks \in Marks(dp), Ready(dp, nodes, marks),
           NEW node \in nodes, node \in Names(dp),
           node \notin marks.visiting, node \notin marks.visited,
           NEW result, Adds(dp, Enter(marks, node), result),
           Right(dp, Below(dp, node), result)
    PROVE  Ready(dp, nodes \ {node}, Leave(result, node))
<1> DEFINE l == Leave(result, node)
<1>1. /\ result \in Marks(dp)
      /\ result.visiting = marks.visiting \cup {node}
  BY EnterMarks DEF Adds
<1>2. /\ l.visiting = marks.visiting /\ l.visited = result.visited \cup {node}
      /\ l.found = result.found
  <2>1. l.visiting = result.visiting \ {node} /\ l.visited = result.visited \cup {node}
        /\ l.found = result.found
    BY <1>1, LeaveMarks
  <2> QED BY <1>1, <2>1
<1> HIDE DEF l
<1>3. l.visiting \cap l.visited = {}
  BY <1>1, <1>2 DEF Right
<1>4. l.found => ~Acyclic(dp)
  BY <1>2 DEF Right
<1>5. ~l.found => Clean(dp, l.visited)
  <2> SUFFICES ASSUME ~l.found PROVE Clean(dp, l.visited)
    OBVIOUS
  <2>1. /\ Clean(dp, result.visited) /\ Below(dp, node) \subseteq result.visited
        /\ node \notin result.visited
    BY <1>1, <1>2 DEF Right
  <2> QED BY <1>2, <2>1, CleanGrows
<1>6. nodes \ {node} # {} => \A v \in l.visiting :
        v \in DOMAIN dp /\ (dp[v] \cap l.visiting # {} \/ nodes \ {node} \subseteq dp[v])
  BY <1>2 DEF Ready
<1> QED BY <1>3, <1>4, <1>5, <1>6 DEF Ready, l

\* Every visit that a visit leads to is smaller.
LEMMA StepsDown ==
    ASSUME NEW dp, IsFiniteSet(Names(dp)),
           NEW nodes \in SUBSET Names(dp), NEW marks \in Marks(dp), NEW node \in nodes
    PROVE  /\ nodes \ {node} \in SUBSET Names(dp) /\ Below(dp, node) \in SUBSET Names(dp)
           /\ Seen(marks) \in Marks(dp) /\ Enter(marks, node) \in Marks(dp)
           /\ Size(dp, nodes \ {node}, marks) < Size(dp, nodes, marks)
           /\ Size(dp, nodes \ {node}, Seen(marks)) < Size(dp, nodes, marks)
           /\ node \notin marks.visiting \cup marks.visited =>
                /\ Size(dp, Below(dp, node), Enter(marks, node)) < Size(dp, nodes, marks)
                /\ \A result : Adds(dp, Enter(marks, node), result) =>
                     /\ Leave(result, node) \in Marks(dp)
                     /\ Size(dp, nodes \ {node}, Leave(result, node)) < Size(dp, nodes, marks)
<1> DEFINE rest == nodes \ {node}
           e == Enter(marks, node)
           below == Below(dp, node)
<1>1. node \in Names(dp) /\ rest \in SUBSET Names(dp) /\ rest \subseteq nodes
      /\ \E n \in nodes : n \notin rest
  OBVIOUS
<1>2. below \in SUBSET Names(dp)
  BY DEF Below, Names
<1>3. /\ Seen(marks) \in Marks(dp)
      /\ Seen(marks).visiting = marks.visiting /\ Seen(marks).visited = marks.visited
  BY SeenMarks
<1>4. /\ e \in Marks(dp) /\ e.visiting = marks.visiting \cup {node}
      /\ e.visited = marks.visited
  BY <1>1, EnterMarks
<1> HIDE DEF rest, below, e
<1>5. Size(dp, rest, marks) < Size(dp, nodes, marks)
  BY <1>1, SizeDrops
<1>6. Size(dp, rest, Seen(marks)) < Size(dp, nodes, marks)
  <2>1. Left(dp, Seen(marks)) \subseteq Left(dp, marks)
    BY <1>3 DEF Left
  <2> QED BY <1>1, <2>1, SizeDrops
<1>7. ASSUME node \notin marks.visiting \cup marks.visited
      PROVE  Size(dp, below, e) < Size(dp, nodes, marks)
  <2>1. Left(dp, e) \subseteq Left(dp, marks)
        /\ node \in Left(dp, marks) /\ node \notin Left(dp, e)
    BY <1>1, <1>4, <1>7 DEF Left
  <2> QED BY <1>2, <2>1, SizeDrops
<1>8. ASSUME node \notin marks.visiting \cup marks.visited, NEW result, Adds(dp, e, result)
      PROVE  /\ Leave(result, node) \in Marks(dp)
             /\ Size(dp, rest, Leave(result, node)) < Size(dp, nodes, marks)
  <2> DEFINE l == Leave(result, node)
  <2>1. /\ result \in Marks(dp) /\ result.visiting = marks.visiting \cup {node}
        /\ marks.visited \subseteq result.visited
    BY <1>4, <1>8 DEF Adds
  <2>2. /\ l \in Marks(dp) /\ l.visiting = result.visiting \ {node}
        /\ l.visited = result.visited \cup {node}
    BY <1>1, <2>1, LeaveMarks
  <2> HIDE DEF l
  <2>3. Left(dp, l) \subseteq Left(dp, marks)
    BY <1>8, <2>1, <2>2 DEF Left
  <2> QED BY <1>1, <2>2, <2>3, SizeDrops DEF l
<1> QED BY <1>1, <1>2, <1>3, <1>4, <1>5, <1>6, <1>7, <1>8, Zenon DEF rest, below, e

\* Nodes and marks of a visit.
Visitable(dp) == (SUBSET Names(dp)) \X Marks(dp)

\* The smaller visits are good.
GoodBelow(dp, visit, nodes, marks) ==
    \A few \in SUBSET Names(dp) : \A more \in Marks(dp) :
        Size(dp, few, more) < Size(dp, nodes, marks)
            => GoodVisit(dp, few, more, visit[<<few, more>>])

LEMMA VisitIsGood ==
    ASSUME NEW dp, IsFiniteSet(Names(dp)), NEW visit,
           NEW nodes \in SUBSET Names(dp), NEW marks \in Marks(dp),
           GoodBelow(dp, visit, nodes, marks)
    PROVE  GoodVisit(dp, nodes, marks, Visit(dp, visit, nodes, marks))
<1> DEFINE node == CHOOSE n \in nodes : TRUE
           rest == nodes \ {node}
           result == Visit(dp, visit, nodes, marks)
<1>1. CASE nodes = {}
  <2>1. result = marks
    BY <1>1 DEF Visit
  <2>2. Adds(dp, marks, marks)
    BY DEF Adds
  <2>3. Ready(dp, nodes, marks) => Right(dp, nodes, marks)
    BY <1>1 DEF Ready, Right
  <2> HIDE DEF result
  <2> QED BY <2>1, <2>2, <2>3 DEF GoodVisit, result
<1>2. CASE nodes # {}
  <2>1. node \in nodes /\ node \in Names(dp) /\ rest \in SUBSET Names(dp)
    <3>1. \E n \in nodes : TRUE
      BY <1>2
    <3>2. node \in nodes
      BY <3>1, Zenon
    <3> HIDE DEF node
    <3> QED BY <3>2
  <2>2. rest \subseteq nodes /\ \E n \in nodes : n \notin rest
    <3> HIDE DEF node
    <3> QED BY <2>1
  <2>3. CASE node \in marks.visiting
    <3>1. result = visit[<<rest, Seen(marks)>>]
      BY <1>2, <2>3, Zenon DEF Visit, Seen
    <3>2. /\ Seen(marks) \in Marks(dp) /\ Seen(marks).found
          /\ Seen(marks).visiting = marks.visiting /\ Seen(marks).visited = marks.visited
      <4> HIDE DEF node
      <4> QED BY <2>1, SeenMarks
    <3>4. Size(dp, rest, Seen(marks)) < Size(dp, nodes, marks)
      <4> HIDE DEF node
      <4> QED BY <2>1, StepsDown
    <3> HIDE DEF node, rest, result
    <3>5. GoodVisit(dp, rest, Seen(marks), result)
      BY <2>1, <3>1, <3>2, <3>4, Zenon DEF GoodBelow
    <3>6. Adds(dp, marks, result)
      BY <3>2, <3>5 DEF GoodVisit, Adds
    <3>7. ASSUME Ready(dp, nodes, marks) PROVE Right(dp, nodes, result)
      <4>1. ~Acyclic(dp)
        BY <2>1, <2>3, <3>7, MetAgain
      <4>2. Ready(dp, rest, Seen(marks))
        BY <2>2, <3>2, <3>7, <4>1 DEF Ready
      <4>3. Right(dp, rest, result) /\ result.found
        BY <3>2, <3>5, <4>2 DEF GoodVisit, Adds
      <4> QED BY <4>3 DEF Right
    <3> QED BY <3>6, <3>7 DEF GoodVisit, result
  <2>4. CASE node \notin marks.visiting /\ node \in marks.visited
    <3>1. result = visit[<<rest, marks>>]
      BY <1>2, <2>4, Zenon DEF Visit
    <3> HIDE DEF node, result
    <3>2. Size(dp, rest, marks) < Size(dp, nodes, marks)
      BY <2>1, StepsDown
    <3>3. GoodVisit(dp, rest, marks, result)
      <4> HIDE DEF rest
      <4> QED BY <2>1, <3>1, <3>2, Zenon DEF GoodBelow
    <3>4. ASSUME Ready(dp, nodes, marks) PROVE Right(dp, nodes, result)
      <4>1. Ready(dp, rest, marks)
        BY <2>2, <3>4 DEF Ready
      <4>2. Right(dp, rest, result) /\ marks.visited \subseteq result.visited
        BY <3>3, <4>1 DEF GoodVisit, Adds
      <4>3. ~result.found => nodes \subseteq result.visited
        BY <2>4, <4>2 DEF Right
      <4> QED BY <4>2, <4>3 DEF Right
    <3> QED BY <3>3, <3>4 DEF GoodVisit, result
  <2>5. CASE node \notin marks.visiting /\ node \notin marks.visited
    <3> DEFINE e == Enter(marks, node)
               below == Below(dp, node)
               inner == visit[<<below, e>>]
               l == Leave(inner, node)
    <3>1. result = visit[<<rest, l>>]
      BY <1>2, <2>5, Zenon DEF Visit
    <3>2. /\ e \in Marks(dp) /\ e.visiting = marks.visiting \cup {node}
          /\ e.visited = marks.visited /\ e.found = marks.found
      <4> HIDE DEF node
      <4> QED BY <2>1, EnterMarks
    <3> HIDE DEF node, result
    <3>3. node \notin marks.visiting \cup marks.visited
      BY <2>5
    <3>4. below \in SUBSET Names(dp) /\ Size(dp, below, e) < Size(dp, nodes, marks)
      BY <2>1, <3>3, StepsDown
    <3>5. Adds(dp, e, inner) => Size(dp, rest, l) < Size(dp, nodes, marks)
      BY <2>1, <3>3, StepsDown
    <3> HIDE DEF e, below
    <3>6. GoodVisit(dp, below, e, inner)
      BY <3>2, <3>4, Zenon DEF GoodBelow
    <3> HIDE DEF inner
    <3>7. /\ inner \in Marks(dp) /\ inner.visiting = marks.visiting \cup {node}
          /\ marks.visited \subseteq inner.visited /\ (marks.found => inner.found)
      BY <3>2, <3>6 DEF GoodVisit, Adds
    <3>8. /\ l \in Marks(dp) /\ l.visiting = marks.visiting
          /\ l.visited = inner.visited \cup {node} /\ l.found = inner.found
      <4>1. /\ l \in Marks(dp) /\ l.visiting = inner.visiting \ {node}
            /\ l.visited = inner.visited \cup {node} /\ l.found = inner.found
        BY <2>1, <3>7, LeaveMarks
      <4> HIDE DEF l
      <4> QED BY <2>5, <3>7, <4>1
    <3> HIDE DEF l, rest
    <3>9. Size(dp, rest, l) < Size(dp, nodes, marks)
      BY <3>5, <3>6 DEF GoodVisit
    <3>10. GoodVisit(dp, rest, l, result)
      BY <2>1, <3>1, <3>8, <3>9, Zenon DEF GoodBelow
    <3>11. Adds(dp, marks, result)
      BY <3>7, <3>8, <3>10 DEF GoodVisit, Adds
    <3>12. ASSUME Ready(dp, nodes, marks) PROVE Right(dp, nodes, result)
      <4>1. Ready(dp, below, e)
        BY <2>1, <2>5, <3>12, ReadyBelow DEF e, below
      <4>2. Adds(dp, e, inner) /\ Right(dp, below, inner)
        BY <3>6, <4>1 DEF GoodVisit
      <4>3. Ready(dp, rest, l)
        BY <2>1, <2>5, <3>12, <4>2, ReadyAfter DEF e, below, l, rest
      <4>4. Right(dp, rest, result) /\ l.visited \subseteq result.visited
        BY <3>10, <4>3 DEF GoodVisit, Adds
      <4>5. ~result.found => nodes \subseteq result.visited
        BY <3>8, <4>4 DEF Right, rest
      <4> QED BY <4>4, <4>5 DEF Right
    <3> QED BY <3>11, <3>12 DEF GoodVisit, result
  <2> QED BY <2>3, <2>4, <2>5
<1> QED BY <1>1, <1>2


\* A visit that does not trust the results of those it leads to.
Sure(dp, visit, marks, node) ==
    LET result == visit[<<Below(dp, node), Enter(marks, node)>>]
    IN  IF Adds(dp, Enter(marks, node), result) THEN result ELSE Enter(marks, node)

SureVisit(dp, visit, nodes, marks) ==
    LET node == CHOOSE n \in nodes : TRUE
        rest == nodes \ {node}
    IN  IF nodes = {} THEN marks
        ELSE IF node \in marks.visiting THEN visit[<<rest, Seen(marks)>>]
        ELSE IF node \in marks.visited THEN visit[<<rest, marks>>]
        ELSE visit[<<rest, Leave(Sure(dp, visit, marks, node), node)>>]

LEMMA SureAdds ==
    ASSUME NEW dp, NEW visit, NEW marks \in Marks(dp), NEW node \in Names(dp)
    PROVE  Adds(dp, Enter(marks, node), Sure(dp, visit, marks, node))
<1>1. Adds(dp, Enter(marks, node), Enter(marks, node))
  <2>1. Enter(marks, node) \in Marks(dp)
    BY EnterMarks
  <2> QED BY <2>1 DEF Adds
<1> QED BY <1>1, Zenon DEF Sure

LEMMA SureVisitDepends ==
    ASSUME NEW dp, IsFiniteSet(Names(dp)), NEW g, NEW h,
           NEW nodes \in SUBSET Names(dp), NEW marks \in Marks(dp),
           \A few \in SUBSET Names(dp) : \A more \in Marks(dp) :
               Size(dp, few, more) < Size(dp, nodes, marks) => g[<<few, more>>] = h[<<few, more>>]
    PROVE  SureVisit(dp, g, nodes, marks) = SureVisit(dp, h, nodes, marks)
<1> DEFINE node == CHOOSE n \in nodes : TRUE
           rest == nodes \ {node}
<1>1. CASE nodes = {}
  BY <1>1, Zenon DEF SureVisit
<1>2. CASE nodes # {}
  <2>1. node \in nodes
    <3>1. \E n \in nodes : TRUE
      BY <1>2
    <3> QED BY <3>1, Zenon
  <2>2. CASE node \in marks.visiting
    <3>1. SureVisit(dp, g, nodes, marks) = g[<<rest, Seen(marks)>>]
          /\ SureVisit(dp, h, nodes, marks) = h[<<rest, Seen(marks)>>]
      BY <1>2, <2>2, Zenon DEF SureVisit
    <3> HIDE DEF node
    <3>2. g[<<rest, Seen(marks)>>] = h[<<rest, Seen(marks)>>]
      BY <2>1, StepsDown, Zenon
    <3> QED BY <3>1, <3>2, Zenon
  <2>3. CASE node \notin marks.visiting /\ node \in marks.visited
    <3>1. SureVisit(dp, g, nodes, marks) = g[<<rest, marks>>]
          /\ SureVisit(dp, h, nodes, marks) = h[<<rest, marks>>]
      BY <1>2, <2>3, Zenon DEF SureVisit
    <3> HIDE DEF node
    <3>2. g[<<rest, marks>>] = h[<<rest, marks>>]
      BY <2>1, StepsDown, Zenon
    <3> QED BY <3>1, <3>2, Zenon
  <2>4. CASE node \notin marks.visiting /\ node \notin marks.visited
    <3>1. /\ SureVisit(dp, g, nodes, marks) = g[<<rest, Leave(Sure(dp, g, marks, node), node)>>]
          /\ SureVisit(dp, h, nodes, marks) = h[<<rest, Leave(Sure(dp, h, marks, node), node)>>]
      BY <1>2, <2>4, Zenon DEF SureVisit
    <3> HIDE DEF node
    <3>2. node \notin marks.visiting \cup marks.visited
      BY <2>4
    <3>3. Sure(dp, g, marks, node) = Sure(dp, h, marks, node)
      <4>1. g[<<Below(dp, node), Enter(marks, node)>>] = h[<<Below(dp, node), Enter(marks, node)>>]
        BY <2>1, <3>2, StepsDown, Zenon
      <4> QED BY <4>1, Zenon DEF Sure
    <3>4. Adds(dp, Enter(marks, node), Sure(dp, g, marks, node))
      BY <2>1, SureAdds
    <3>5. g[<<rest, Leave(Sure(dp, g, marks, node), node)>>]
            = h[<<rest, Leave(Sure(dp, g, marks, node), node)>>]
      BY <2>1, <3>2, <3>4, StepsDown, Zenon
    <3> QED BY <3>1, <3>3, <3>5, Zenon
  <2> QED BY <2>2, <2>3, <2>4
<1> QED BY <1>1, <1>2

LEMMA SureVisitType ==
    ASSUME NEW dp, IsFiniteSet(Names(dp)),
           NEW g \in [(SUBSET Names(dp)) \X Marks(dp) -> Marks(dp)],
           NEW nodes \in SUBSET Names(dp), NEW marks \in Marks(dp)
    PROVE  SureVisit(dp, g, nodes, marks) \in Marks(dp)
<1> DEFINE node == CHOOSE n \in nodes : TRUE
           rest == nodes \ {node}
<1>1. \A few \in SUBSET Names(dp) : \A more \in Marks(dp) : g[<<few, more>>] \in Marks(dp)
  OBVIOUS
<1>2. CASE nodes = {}
  BY <1>2, Zenon DEF SureVisit
<1>3. CASE nodes # {}
  <2>1. node \in nodes
    <3>1. \E n \in nodes : TRUE
      BY <1>3
    <3> QED BY <3>1, Zenon
  <2>2. /\ rest \in SUBSET Names(dp) /\ Seen(marks) \in Marks(dp) /\ node \in Names(dp)
    <3> HIDE DEF node
    <3> QED BY <2>1, StepsDown
  <2>3. Leave(Sure(dp, g, marks, node), node) \in Marks(dp)
    <3> HIDE DEF node
    <3>1. Sure(dp, g, marks, node) \in Marks(dp)
      BY <2>2, SureAdds DEF Adds
    <3> QED BY <2>2, <3>1, LeaveMarks
  <2>4. SureVisit(dp, g, nodes, marks) \in
          {g[<<rest, Seen(marks)>>], g[<<rest, marks>>],
           g[<<rest, Leave(Sure(dp, g, marks, node), node)>>]}
    BY <1>3, Zenon DEF SureVisit
  <2> HIDE DEF node, rest
  <2> QED BY <1>1, <2>2, <2>3, <2>4
<1> QED BY <1>2, <1>3

LEMMA SureVisitIsVisit ==
    ASSUME NEW dp, IsFiniteSet(Names(dp)), NEW visit,
           NEW nodes \in SUBSET Names(dp), NEW marks \in Marks(dp),
           GoodBelow(dp, visit, nodes, marks)
    PROVE  SureVisit(dp, visit, nodes, marks) = Visit(dp, visit, nodes, marks)
<1> DEFINE node == CHOOSE n \in nodes : TRUE
           rest == nodes \ {node}
<1>1. CASE nodes = {} \/ node \in marks.visiting \/ node \in marks.visited
  BY <1>1, Zenon DEF SureVisit, Visit, Seen
<1>2. CASE nodes # {} /\ node \notin marks.visiting /\ node \notin marks.visited
  <2>1. node \in nodes
    <3>1. \E n \in nodes : TRUE
      BY <1>2
    <3> QED BY <3>1, Zenon
  <2>2. Sure(dp, visit, marks, node) = visit[<<Below(dp, node), Enter(marks, node)>>]
    <3> HIDE DEF node
    <3>1. node \notin marks.visiting \cup marks.visited
      BY <1>2
    <3>2. GoodVisit(dp, Below(dp, node), Enter(marks, node),
                    visit[<<Below(dp, node), Enter(marks, node)>>])
      BY <2>1, <3>1, StepsDown, Zenon DEF GoodBelow
    <3> QED BY <3>2, Zenon DEF Sure, GoodVisit
  <2> QED BY <1>2, <2>2, Zenon DEF SureVisit, Visit
<1> QED BY <1>1, <1>2

\* The visits that are still to be made get smaller.
Sizes(dp) == [x \in Visitable(dp) |-> Size(dp, x[1], x[2])]

LEMMA VisitablePairs ==
    ASSUME NEW dp
    PROVE  /\ \A x \in Visitable(dp) :
                \E nodes \in SUBSET Names(dp), marks \in Marks(dp) : x = <<nodes, marks>>
           /\ \A nodes \in SUBSET Names(dp), marks \in Marks(dp) :
                /\ <<nodes, marks>> \in Visitable(dp)
                /\ <<nodes, marks>>[1] = nodes /\ <<nodes, marks>>[2] = marks
                /\ Sizes(dp)[<<nodes, marks>>] = Size(dp, nodes, marks)
<1> DEFINE A == SUBSET Names(dp)
           M == Marks(dp)
<1>1. \A x \in A \X M : \E nodes \in A, marks \in M : x = <<nodes, marks>>
  <2> HIDE DEF A, M
  <2> QED OBVIOUS
<1>2. \A nodes \in A, marks \in M :
        <<nodes, marks>> \in A \X M /\ <<nodes, marks>>[1] = nodes /\ <<nodes, marks>>[2] = marks
  <2> HIDE DEF A, M
  <2> QED OBVIOUS
<1>3. \A nodes \in A, marks \in M : Sizes(dp)[<<nodes, marks>>] = Size(dp, nodes, marks)
  <2> HIDE DEF A, M
  <2> QED BY <1>2, Zenon DEF Sizes, Visitable, A, M
<1> QED BY <1>1, <1>2, <1>3, Zenon DEF Visitable

LEMMA SizesMeasure ==
    ASSUME NEW dp, IsFiniteSet(Names(dp))
    PROVE  \E bound : IsMeasure(Visitable(dp), Sizes(dp), bound)
<1> DEFINE c == Cardinality(Names(dp))
           bound == (c + 1) * (c + 1)
<1>1. c \in Nat
  BY FS_CardinalityType
<1>2. bound \in Nat
  <2> HIDE DEF c
  <2> QED BY <1>1
<1>3. ASSUME NEW nodes \in SUBSET Names(dp), NEW marks \in Marks(dp)
      PROVE  Size(dp, nodes, marks) \in Nat /\ Size(dp, nodes, marks) <= bound
  <2> DEFINE b == Cardinality(Left(dp, marks))
             r == Cardinality(nodes)
  <2>1. b \in 0..c /\ r \in 0..c
    <3>1. Left(dp, marks) \subseteq Names(dp)
      BY DEF Left
    <3>2. b \in Nat /\ b <= c /\ r \in Nat /\ r <= c
      BY <3>1, PartIsSmaller
    <3> QED BY <1>1, <3>2
  <2> HIDE DEF b, r, c
  <2>2. /\ b \in Nat /\ c + 1 \in Nat /\ b < c + 1 /\ 0 \in 0..c
    BY <1>1, <2>1
  <2>3. b * (c + 1) + r < (c + 1) * (c + 1) + 0
    BY ONLY <1>1, <2>1, <2>2, Lexicographic
  <2>4. b * (c + 1) \in Nat
    BY <1>1, <2>2
  <2>5. b * (c + 1) + r \in Nat /\ b * (c + 1) + r <= bound
    BY <1>2, <2>1, <2>3, <2>4
  <2> QED BY <2>5 DEF Size, b, r, c
<1>4. ASSUME NEW x \in Visitable(dp)
      PROVE  Sizes(dp)[x] \in Nat /\ Sizes(dp)[x] <= bound
  <2>1. PICK nodes \in SUBSET Names(dp), marks \in Marks(dp) : x = <<nodes, marks>>
    BY VisitablePairs
  <2>2. Sizes(dp)[x] = Size(dp, nodes, marks)
    BY <2>1, VisitablePairs
  <2> QED BY <1>3, <2>2
<1>5. IsMeasure(Visitable(dp), Sizes(dp), bound)
  <2>1. Sizes(dp) \in [Visitable(dp) -> Nat]
    <3> HIDE DEF bound
    <3> QED BY <1>4 DEF Sizes
  <2> HIDE DEF bound
  <2> QED BY <1>2, <1>4, <2>1 DEF IsMeasure
<1> QED BY <1>5

\* By induction, what holds of a visit when it holds of the smaller ones holds of all.
LEMMA AllVisits ==
    ASSUME NEW dp, IsFiniteSet(Names(dp)), NEW visit,
           \A nodes \in SUBSET Names(dp), marks \in Marks(dp) :
               GoodBelow(dp, visit, nodes, marks)
                   => GoodVisit(dp, nodes, marks, visit[<<nodes, marks>>])
    PROVE  \A nodes \in SUBSET Names(dp), marks \in Marks(dp) :
               /\ GoodVisit(dp, nodes, marks, visit[<<nodes, marks>>])
               /\ GoodBelow(dp, visit, nodes, marks)
<1> DEFINE D == Visitable(dp)
           m == Sizes(dp)
           Good == {x \in D : GoodVisit(dp, x[1], x[2], visit[<<x[1], x[2]>>])}
<1>1. PICK bound : IsMeasure(D, m, bound)
  BY SizesMeasure
<1>2. ASSUME NEW x \in D, \A y \in D : m[y] < m[x] => y \in Good PROVE x \in Good
  <2>1. PICK nodes \in SUBSET Names(dp), marks \in Marks(dp) : x = <<nodes, marks>>
    BY VisitablePairs
  <2>2. x[1] = nodes /\ x[2] = marks /\ m[x] = Size(dp, nodes, marks)
    BY <2>1, VisitablePairs
  <2>3. GoodBelow(dp, visit, nodes, marks)
    <3> SUFFICES ASSUME NEW few \in SUBSET Names(dp), NEW more \in Marks(dp),
                        Size(dp, few, more) < Size(dp, nodes, marks)
                 PROVE  GoodVisit(dp, few, more, visit[<<few, more>>])
      BY Zenon DEF GoodBelow
    <3> DEFINE y == <<few, more>>
    <3>1. y \in D /\ y[1] = few /\ y[2] = more /\ m[y] = Size(dp, few, more)
      BY VisitablePairs
    <3> HIDE DEF D, m, y
    <3>2. m[y] < m[x]
      BY <2>2, <3>1
    <3>3. y \in Good
      BY <1>2, <3>1, <3>2, Zenon
    <3>4. GoodVisit(dp, y[1], y[2], visit[<<y[1], y[2]>>])
      BY <3>3, Zenon
    <3> QED BY <3>1, <3>4, Zenon
  <2>4. GoodVisit(dp, nodes, marks, visit[<<nodes, marks>>])
    BY <2>3
  <2>5. GoodVisit(dp, x[1], x[2], visit[<<x[1], x[2]>>])
    BY ONLY <2>2, <2>4, Zenon
  <2> HIDE DEF D, m
  <2> QED BY <2>5, Zenon
<1>3. Inherited(D, m, Good)
  <2> HIDE DEF D, m, Good
  <2> QED BY <1>2, Zenon DEF Inherited
<1>4. D \subseteq Good
  <2> HIDE DEF D, m, Good
  <2> QED BY <1>1, <1>3, InductionOnMeasure, Zenon
<1>5. ASSUME NEW nodes \in SUBSET Names(dp), NEW marks \in Marks(dp)
      PROVE  GoodVisit(dp, nodes, marks, visit[<<nodes, marks>>])
  <2> DEFINE x == <<nodes, marks>>
  <2>1. x \in D /\ x[1] = nodes /\ x[2] = marks
    BY VisitablePairs
  <2> HIDE DEF D, x
  <2>2. GoodVisit(dp, x[1], x[2], visit[<<x[1], x[2]>>])
    BY <1>4, <2>1, Zenon
  <2> QED BY ONLY <2>1, <2>2, Zenon
<1> QED BY <1>5, Zenon DEF GoodBelow

LEMMA SolvedVisitsAreGood ==
    ASSUME NEW dp, IsFiniteSet(Names(dp)), NEW visit, visit = VisitsFrom(dp, visit)
    PROVE  \A nodes \in SUBSET Names(dp), marks \in Marks(dp) :
               GoodVisit(dp, nodes, marks, visit[<<nodes, marks>>])
<1>1. ASSUME NEW nodes \in SUBSET Names(dp), NEW marks \in Marks(dp),
             GoodBelow(dp, visit, nodes, marks)
      PROVE  GoodVisit(dp, nodes, marks, visit[<<nodes, marks>>])
  <2>1. GoodVisit(dp, nodes, marks, Visit(dp, visit, nodes, marks))
    BY <1>1, VisitIsGood
  <2>2. visit[<<nodes, marks>>] = Visit(dp, visit, nodes, marks)
    <3> DEFINE x == <<nodes, marks>>
    <3>1. x \in (SUBSET Names(dp)) \X Marks(dp) /\ x[1] = nodes /\ x[2] = marks
      BY VisitablePairs DEF Visitable
    <3> HIDE DEF x
    <3>2. VisitsFrom(dp, visit)[x] = Visit(dp, visit, x[1], x[2])
      BY <3>1, Zenon DEF VisitsFrom
    <3> QED BY <3>1, <3>2, Zenon DEF x
  <2> QED BY <2>1, <2>2, Zenon
<1> QED BY <1>1, AllVisits, Zenon

\* The search ends with a result.
LEMMA VisitsExist ==
    ASSUME NEW dp, IsFiniteSet(Names(dp))
    PROVE  Visits(dp) = VisitsFrom(dp, Visits(dp))
<1> DEFINE D == Visitable(dp)
           V == Marks(dp)
           m == Sizes(dp)
           B == [z \in D \X [D -> V] |-> SureVisit(dp, z[2], z[1][1], z[1][2])]
<1>1. PICK bound : IsMeasure(D, m, bound)
  BY SizesMeasure
<1>2. ASSUME NEW x \in D, NEW g \in [D -> V] PROVE B[<<x, g>>] = SureVisit(dp, g, x[1], x[2])
  <2>1. <<x, g>> \in D \X [D -> V] /\ <<x, g>>[1] = x /\ <<x, g>>[2] = g
    <3> HIDE DEF D, V
    <3> QED OBVIOUS
  <2> HIDE DEF D, V
  <2> QED BY <2>1, Zenon
<1>3. B \in [D \X [D -> V] -> V]
  <2> SUFFICES ASSUME NEW z \in D \X [D -> V] PROVE B[z] \in V
    <3> HIDE DEF D, V
    <3> QED BY Zenon DEF B
  <2>1. PICK x \in D, g \in [D -> V] : z = <<x, g>>
    <3> HIDE DEF D, V
    <3> QED OBVIOUS
  <2>2. x[1] \in SUBSET Names(dp) /\ x[2] \in Marks(dp)
    BY VisitablePairs
  <2>3. SureVisit(dp, g, x[1], x[2]) \in V
    BY <2>2, SureVisitType DEF Visitable
  <2> HIDE DEF B, D, V
  <2> QED BY <1>2, <2>1, <2>3
<1>4. LooksBelow(D, V, m, B)
  <2>1. ASSUME NEW x \in D, NEW g \in [D -> V], NEW h \in [D -> V],
               \A y \in D : m[y] < m[x] => g[y] = h[y]
        PROVE  B[<<x, g>>] = B[<<x, h>>]
    <3>1. PICK nodes \in SUBSET Names(dp), marks \in Marks(dp) : x = <<nodes, marks>>
      BY VisitablePairs
    <3>2. x[1] = nodes /\ x[2] = marks /\ m[x] = Size(dp, nodes, marks)
      BY <3>1, VisitablePairs
    <3>3. ASSUME NEW few \in SUBSET Names(dp), NEW more \in Marks(dp),
                 Size(dp, few, more) < Size(dp, nodes, marks)
          PROVE  g[<<few, more>>] = h[<<few, more>>]
      <4>1. <<few, more>> \in D /\ m[<<few, more>>] = Size(dp, few, more)
        BY VisitablePairs
      <4> HIDE DEF D, m
      <4> QED BY <2>1, <3>2, <3>3, <4>1
    <3>4. SureVisit(dp, g, nodes, marks) = SureVisit(dp, h, nodes, marks)
      BY <3>3, SureVisitDepends, Zenon
    <3> HIDE DEF B, D, V
    <3> QED BY <1>2, <3>2, <3>4, Zenon
  <2> HIDE DEF B, D, V, m
  <2> QED BY <1>3, <2>1, Zenon DEF LooksBelow
<1>5. PICK f : IsSolution(D, V, B, f)
  <2>1. V # {}
    <3>1. [visiting |-> {}, visited |-> {}, found |-> FALSE] \in V
      BY DEF Marks
    <3> QED BY <3>1
  <2> HIDE DEF B, D, V, m
  <2> QED BY <1>1, <1>4, <2>1, RecursionOnMeasure, Zenon
<1>6. f \in [D -> V] /\ \A x \in D : f[x] = SureVisit(dp, f, x[1], x[2])
  <2> HIDE DEF B, D, V
  <2> QED BY <1>2, <1>5, Zenon DEF IsSolution
<1>7. ASSUME NEW nodes \in SUBSET Names(dp), NEW marks \in Marks(dp)
      PROVE  f[<<nodes, marks>>] = SureVisit(dp, f, nodes, marks)
  <2> DEFINE x == <<nodes, marks>>
  <2>1. x \in D /\ x[1] = nodes /\ x[2] = marks
    BY VisitablePairs
  <2> HIDE DEF D, x
  <2>2. f[x] = SureVisit(dp, f, x[1], x[2])
    BY <1>6, <2>1, Zenon
  <2> QED BY <2>1, <2>2, Zenon DEF x
<1>8. \A nodes \in SUBSET Names(dp), marks \in Marks(dp) : GoodBelow(dp, f, nodes, marks)
  <2>1. ASSUME NEW nodes \in SUBSET Names(dp), NEW marks \in Marks(dp),
               GoodBelow(dp, f, nodes, marks)
        PROVE  GoodVisit(dp, nodes, marks, f[<<nodes, marks>>])
    <3>1. f[<<nodes, marks>>] = Visit(dp, f, nodes, marks)
      BY <1>7, <2>1, SureVisitIsVisit, Zenon
    <3>2. GoodVisit(dp, nodes, marks, Visit(dp, f, nodes, marks))
      BY <2>1, VisitIsGood
    <3> QED BY <3>1, <3>2, Zenon
  <2> QED BY <2>1, AllVisits, Zenon
<1>9. \A x \in D : f[x] = Visit(dp, f, x[1], x[2])
  <2> TAKE x \in D
  <2>1. x[1] \in SUBSET Names(dp) /\ x[2] \in Marks(dp)
    BY VisitablePairs
  <2>2. SureVisit(dp, f, x[1], x[2]) = Visit(dp, f, x[1], x[2])
    BY <1>8, <2>1, SureVisitIsVisit, Zenon
  <2> QED BY <1>6, <2>2, Zenon
<1>10. f = VisitsFrom(dp, f)
  <2>1. f = [x \in D |-> f[x]]
    <3> HIDE DEF D, V
    <3> QED BY <1>6
  <2>2. [x \in D |-> f[x]] = [x \in D |-> Visit(dp, f, x[1], x[2])]
    <3> HIDE DEF D
    <3> QED BY ONLY <1>9
  <2> QED BY <2>1, <2>2, Zenon DEF VisitsFrom, Visitable
<1> QED BY <1>10, Zenon DEF Visits

LEMMA NamesFinite ==
    ASSUME NEW dp, IsFiniteSet(DOMAIN dp), \A t \in DOMAIN dp : IsFiniteSet(dp[t])
    PROVE  IsFiniteSet(Names(dp))
<1> DEFINE D == DOMAIN dp
           T == {dp[t] : t \in D}
           f == [t \in D |-> dp[t]]
<1>1. f \in Surjection(D, T)
  BY DEF Surjection
<1>2. IsFiniteSet(T)
  <2> HIDE DEF D, T, f
  <2> QED BY <1>1, FS_Surjection DEF D
<1>3. \A S \in T : IsFiniteSet(S)
  OBVIOUS
<1> HIDE DEF T
<1>4. IsFiniteSet(UNION T)
  BY <1>2, <1>3, FS_UNION
<1>5. IsFiniteSet(D \cup UNION T)
  BY <1>4, FS_Union
<1> QED BY <1>5, Zenon DEF Names, T

\* The search finds a cycle exactly if there is one.
LEMMA CycleSearch ==
    ASSUME NEW dp, IsFiniteSet(DOMAIN dp), \A t \in DOMAIN dp : IsFiniteSet(dp[t])
    PROVE  CycleFound(dp) <=> ~Acyclic(dp)
<1> DEFINE result == Visits(dp)[<<DOMAIN dp, NoMarks>>]
<1>1. NoMarks \in Marks(dp) /\ NoMarks.visiting = {} /\ NoMarks.visited = {}
      /\ ~NoMarks.found
  BY DEF NoMarks, Marks
<1>2. DOMAIN dp \in SUBSET Names(dp)
  BY DEF Names
<1>3. GoodVisit(dp, DOMAIN dp, NoMarks, result)
  <2>1. IsFiniteSet(Names(dp))
    BY NamesFinite
  <2>2. Visits(dp) = VisitsFrom(dp, Visits(dp))
    BY <2>1, VisitsExist
  <2> QED BY <1>1, <1>2, <2>1, <2>2, SolvedVisitsAreGood, Zenon
<1> HIDE DEF result
<1>4. Ready(dp, DOMAIN dp, NoMarks)
  BY <1>1 DEF Ready, Clean
<1>5. Right(dp, DOMAIN dp, result)
  BY <1>3, <1>4 DEF GoodVisit
<1>6. ASSUME ~result.found PROVE Acyclic(dp)
  <2>1. Clean(dp, result.visited) /\ DOMAIN dp \subseteq result.visited
    BY <1>5, <1>6 DEF Right
  <2>2. result.visited \cap DOMAIN dp = DOMAIN dp
    BY <2>1
  <2> QED BY <2>1, <2>2, Zenon DEF Clean, Acyclic
<1>7. result.found => ~Acyclic(dp)
  BY <1>5 DEF Right
<1>8. CycleFound(dp) = result.found
  BY CycleFoundIsVisit DEF result
<1> QED BY <1>6, <1>7, <1>8

-----------------------------------------------------------------------------
(* The graph of a plan *)

\* Every entry of the dictionary is that of some task, also if ids are repeated.
LEMMA PlanGraph ==
    ASSUME NEW cand \in Seq(CandidateTask)
    PROVE  /\ DOMAIN Graph(cand) = Ids(cand)
           /\ IsFiniteSet(Ids(cand)) /\ Ids(cand) \subseteq Int
           /\ \A id \in Ids(cand) : IsFiniteSet(Graph(cand)[id]) /\ Graph(cand)[id] \subseteq Int
<1>1. Len(cand) \in Nat /\ DOMAIN cand = 1..Len(cand)
      /\ \A i \in DOMAIN cand : cand[i] \in CandidateTask
  OBVIOUS
<1>2. \A i \in DOMAIN cand :
        cand[i].id \in Int /\ cand[i].deps \subseteq Int /\ IsFiniteSet(cand[i].deps)
  BY <1>1 DEF CandidateTask
<1>3. DOMAIN Graph(cand) = Ids(cand)
  BY Zenon DEF Graph
<1>4. IsFiniteSet(Ids(cand))
  BY <1>1, IdsFinite
<1>5. Ids(cand) \subseteq Int
  BY <1>2 DEF Ids
<1>6. ASSUME NEW id \in Ids(cand) PROVE \E i \in DOMAIN cand : Graph(cand)[id] = cand[i].deps
  <2> DEFINE S == {i \in DOMAIN cand : cand[i].id = id}
             w == [i \in S |-> i]
             Last(i) == cand[i].id = id /\ \A j \in DOMAIN cand : j > i => cand[j].id # id
             last == CHOOSE i \in DOMAIN cand : Last(i)
  <2>1. S # {}
    BY DEF Ids
  <2>2. IsFiniteSet(S)
    <3>1. IsFiniteSet(1..Len(cand))
      <4>1. 1 \in Int /\ Len(cand) \in Int
        BY <1>1
      <4> QED BY ONLY <4>1, FS_Interval
    <3>2. S \subseteq 1..Len(cand)
      BY <1>1
    <3> HIDE DEF S
    <3> QED BY ONLY <3>1, <3>2, FS_Subset
  <2>3. w \in [S -> Nat]
    BY <1>1
  <2>4. PICK i : IsHeaviest(S, w, i)
    <3> HIDE DEF S, w
    <3> QED BY <2>1, <2>2, <2>3, HeaviestExists
  <2>5. i \in DOMAIN cand /\ Last(i)
    <3>1. i \in S /\ \A j \in S : w[i] >= w[j]
      BY <2>4, Zenon DEF IsHeaviest
    <3>2. \A j \in S : i >= j
      BY <3>1
    <3>3. \A j \in DOMAIN cand : j > i => j \notin S
      BY <1>1, <3>1, <3>2
    <3> QED BY <3>1, <3>3
  <2>6. last \in DOMAIN cand
    <3> HIDE DEF Last
    <3> QED BY <2>5, Zenon
  <2>7. Graph(cand)[id] = cand[last].deps
    BY Zenon DEF Graph
  <2> HIDE DEF last
  <2> QED BY <2>6, <2>7
<1> QED BY <1>2, <1>3, <1>4, <1>5, <1>6

\* A plan that passed is one the graph's algorithms are meant for.
LEMMA ValidGraph ==
    ASSUME NEW cand \in Seq(CandidateTask), NEW reqs, Valid(cand, reqs)
    PROVE  Closed(Graph(cand)) /\ Acyclic(Graph(cand))
<1>1. Len(cand) \in Nat /\ DOMAIN cand = 1..Len(cand)
  OBVIOUS
<1>2. UniqueIds(cand)
  BY Zenon DEF Valid
<1>3. Graph(Materialised(cand)) = Graph(cand)
  BY <1>1, <1>2, MaterialisedKeeps, Zenon
<1> QED BY <1>1, <1>3, ValidIsSound, Zenon
=============================================================================
