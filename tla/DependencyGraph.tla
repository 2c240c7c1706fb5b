-------------------------- MODULE DependencyGraph --------------------------
(***************************************************************************)
(* What the code computes on the dependencies of a plan: the depth-first   *)
(* search for a cycle (agent/validation.py, and the same walk in           *)
(* models/task.py), the critical path and the layers of parallel work      *)
(* (agent/optimization.py); and what each of them should be.               *)
(*                                                                         *)
(* A dependency graph is a function from task ids to sets of ids.  The     *)
(* code keeps lists and takes the first of several equals; no statement    *)
(* about these functions depends on which one it is.                       *)
(***************************************************************************)
EXTENDS Integers, Sequences, FiniteSetsExt

-----------------------------------------------------------------------------
(* Reference definitions *)

Closed(dp) == \A t \in DOMAIN dp : dp[t] \subseteq DOMAIN dp

\* Every nonempty set of tasks has one that depends on none of the set.
Acyclic(dp) ==
    \A S \in SUBSET DOMAIN dp : S # {} => \E t \in S : dp[t] \cap S = {}

IsChain(dp, path) ==
    \A i \in 1..(Len(path) - 1) : path[i] \in dp[path[i + 1]]

Weight(effort, path) ==
    LET upTo[k \in 0..Len(path)] == IF k = 0 THEN 0 ELSE upTo[k - 1] + effort[path[k]]
    IN  upTo[Len(path)]

\* With enough hands all the work can be done in the given time: every task
\* ends that late, and starts after those it depends on have ended.
DoableIn(dp, effort, time) ==
    \E end \in [DOMAIN dp -> 1..time] :
        \A t \in DOMAIN dp :
            /\ end[t] >= effort[t]
            /\ \A d \in dp[t] : end[t] >= end[d] + effort[t]

-----------------------------------------------------------------------------
(* The search for a cycle.  "visiting" is the current path, "visited" what  *)
(* is done with; meeting the path again is a cycle.                         *)

Enter(marks, node) == [marks EXCEPT !.visiting = @ \cup {node}]

\* Mutant: the path is not shortened on the way back.
Leave_Stays(marks, node) == [marks EXCEPT !.visited = @ \cup {node}]

Leave(marks, node) ==
    [marks EXCEPT !.visiting = @ \ {node}, !.visited = @ \cup {node}]

Names(dp) == DOMAIN dp \cup UNION {dp[t] : t \in DOMAIN dp}

Marks(dp) == [visiting : SUBSET Names(dp), visited : SUBSET Names(dp), found : BOOLEAN]

Below(dp, node) == IF node \in DOMAIN dp THEN dp[node] ELSE {}

\* visit[<<nodes, marks>>] is what is known after a visit to each of the nodes.
CycleFound(dp) ==
    LET visit[x \in (SUBSET Names(dp)) \X Marks(dp)] ==
            LET nodes == x[1]
                marks == x[2]
                node == CHOOSE n \in nodes : TRUE
                rest == nodes \ {node}
            IN  IF nodes = {} THEN marks
                ELSE IF node \in marks.visiting
                  THEN visit[<<rest, [marks EXCEPT !.found = TRUE]>>]
                ELSE IF node \in marks.visited THEN visit[<<rest, marks>>]
                ELSE visit[<<rest,
                             Leave(visit[<<Below(dp, node), Enter(marks, node)>>], node)>>]
    IN  visit[<<DOMAIN dp, [visiting |-> {}, visited |-> {}, found |-> FALSE]>>].found

-----------------------------------------------------------------------------
(* The critical path: best[t] is the heaviest chain that ends in t. *)

\* Mutant: the longest chain instead of the heaviest.
Heaviest_Longest(effort, paths) ==
    CHOOSE p \in paths : \A q \in paths : Len(p) >= Len(q)

Heaviest(effort, paths) ==
    CHOOSE p \in paths : \A q \in paths : Weight(effort, p) >= Weight(effort, q)

CriticalPath(dp, effort) ==
    LET best[t \in DOMAIN dp] ==
            LET before == dp[t] \cap DOMAIN dp
            IN  IF before = {} THEN <<t>>
                ELSE Append(Heaviest(effort, {best[d] : d \in before}), t)
    IN  IF DOMAIN dp = {} THEN <<>>
        ELSE Heaviest(effort, {best[t] : t \in DOMAIN dp})

-----------------------------------------------------------------------------
(* Layers: what can start at once, what can start after that, and so on. *)

\* Mutant: completed dependencies are waited for.
Startable_Done(dp, done, placed, t) == dp[t] \subseteq placed

Startable(dp, done, placed, t) == dp[t] \ done \subseteq placed

Layers(dp, done) ==
    LET open == DOMAIN dp \ done
        from[placed \in SUBSET open] ==
            LET layer == {t \in open \ placed : Startable(dp, done, placed, t)}
            IN  IF layer = {} THEN <<>> ELSE <<layer>> \o from[placed \cup layer]
    IN  from[{}]
=============================================================================
