--------------------------- MODULE WorkflowRecord ---------------------------
(***************************************************************************)
(* What the service promises about a workflow's durable record: every      *)
(* operation takes effect in one step on the record as it is.  The save in *)
(* the middle of an analysis, which WorkflowRequests models, is not part   *)
(* of the promise: the comments at the second save (service.py, in         *)
(* rebuild_workflow and continue_workflow) call it something to correct.   *)
(***************************************************************************)
CONSTANTS TaskIds, Docs

VARIABLE record

Progress == {"absent", "queued", "running", "completed"}

RecordType ==
    [exec : Progress, planned : BOOLEAN,
     done : SUBSET TaskIds, docs : SUBSET Docs]

TypeOK == record \in RecordType

Init == record = [exec |-> "absent", planned |-> FALSE, done |-> {}, docs |-> {}]

Exists == record.exec # "absent"

Create ==
    /\ ~Exists
    /\ record' = [record EXCEPT !.exec = "queued"]

Start ==
    /\ record.exec = "queued"
    /\ record' = [record EXCEPT !.exec = "running"]

\* The first analysis starts from the goal alone and replaces everything.
Analyse ==
    /\ record.exec = "running"
    /\ record' = [exec |-> "completed", planned |-> TRUE, done |-> {}, docs |-> {}]

\* Ids are looked up among the tasks of the plan there is.
Continue(ids) ==
    /\ Exists
    /\ record' = [record EXCEPT
         !.planned = TRUE,
         !.done = @ \cup (IF record.planned THEN ids ELSE {})]

Refresh ==
    /\ Exists
    /\ record' = [record EXCEPT !.exec = "completed", !.planned = TRUE]

Ingest(doc) ==
    /\ Exists
    /\ record' = [record EXCEPT !.docs = @ \cup {doc}]

Next ==
    \/ Create \/ Start \/ Analyse \/ Refresh
    \/ \E ids \in SUBSET TaskIds : Continue(ids)
    \/ \E doc \in Docs : Ingest(doc)

Spec == Init /\ [][Next]_record

\* Once a workflow is COMPLETED it stays so, and no completed task and no
\* ingested document is ever dropped from it (what continue_workflow and
\* rebuild_workflow restore after the graph has run).
Settled ==
    [][record.exec = "completed" =>
         /\ record'.exec = "completed"
         /\ record.done \subseteq record'.done
         /\ record.docs \subseteq record'.docs]_record
=============================================================================
