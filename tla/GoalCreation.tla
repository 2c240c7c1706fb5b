---------------------------- MODULE GoalCreation ----------------------------
(***************************************************************************)
(* POST /goals (backend/app/api/routes/goals.py): a request looks its      *)
(* Idempotency-Key up, saves the workflow, schedules its analysis, writes  *)
(* the workspace row, and only then stores the key.  Any of these calls    *)
(* may raise; what was written before stays written.                       *)
(***************************************************************************)
EXTENDS Naturals

CONSTANTS
    Callers,        \* clients of the API, each with one request at a time
    Keys,           \* idempotency keys
    NoKey,          \* a request without the header
    MaxProjects,    \* bound: workflow ids handed out
    Concurrent,     \* may requests to create a goal overlap?
    CallsFail       \* may a call on the way raise?

ASSUME CreationAssumption ==
    /\ NoKey \notin Keys
    /\ MaxProjects \in Nat
    /\ Concurrent \in BOOLEAN
    /\ CallsFail \in BOOLEAN

VARIABLES
    stored,     \* workflows in the memory store
    scheduled,  \* workflows whose analysis has been triggered
    rows,       \* workflows with a workspace row
    keyTable,   \* the workflow stored for each idempotency key
    call,       \* each caller's request
    answers     \* what requests with a key have been answered

creationVars == <<stored, scheduled, rows, keyTable, call, answers>>

-----------------------------------------------------------------------------
Projects == 1..MaxProjects
NoProject == 0

CallStates == {"none", "lookup", "save", "schedule", "ensure", "store_key",
               "answered", "failed"}
Serving == CallStates \ {"none", "answered", "failed"}

CreationTypeOK ==
    /\ stored \subseteq Projects
    /\ scheduled \subseteq Projects
    /\ rows \subseteq Projects
    /\ keyTable \in [Keys -> Projects \cup {NoProject}]
    /\ call \in [Callers -> [pc : CallStates, key : Keys \cup {NoKey},
                             id : Projects \cup {NoProject}]]
    /\ answers \subseteq Keys \X Projects

NoCall == [pc |-> "none", key |-> NoKey, id |-> NoProject]

CreationInit ==
    /\ stored = {}
    /\ scheduled = {}
    /\ rows = {}
    /\ keyTable = [k \in Keys |-> NoProject]
    /\ call = [c \in Callers |-> NoCall]
    /\ answers = {}

-----------------------------------------------------------------------------
Busy(c) == call[c].pc \in Serving

Post(c, key) ==
    /\ ~Busy(c)
    /\ Concurrent \/ \A d \in Callers : ~Busy(d)
    /\ stored # Projects
    /\ call' = [call EXCEPT ![c] = [pc |-> "lookup", key |-> key, id |-> NoProject]]
    /\ UNCHANGED <<stored, scheduled, rows, keyTable, answers>>

Answer(c, id) ==
    /\ call' = [call EXCEPT ![c].pc = "answered", ![c].id = id]
    /\ answers' = IF call[c].key = NoKey THEN answers
                  ELSE answers \cup {<<call[c].key, id>>}

KnownProject(key) == IF key = NoKey THEN NoProject ELSE keyTable[key]

LookUp(c) ==
    /\ call[c].pc = "lookup"
    /\ LET known == KnownProject(call[c].key) IN
         IF known = NoProject
           THEN call' = [call EXCEPT ![c].pc = "save"] /\ UNCHANGED answers
           ELSE Answer(c, known)
    /\ UNCHANGED <<stored, scheduled, rows, keyTable>>

\* A fresh id.  MaxProjects bounds the ids: Post is disabled when none is left,
\* and of several requests only as many go on as there are ids.
Save(c) ==
    /\ call[c].pc = "save"
    /\ \E id \in Projects \ stored :
         /\ stored' = stored \cup {id}
         /\ call' = [call EXCEPT ![c].pc = "schedule", ![c].id = id]
    /\ UNCHANGED <<scheduled, rows, keyTable, answers>>

\* _trigger_async_execution: publish the message, or start the thread.
Schedule(c) ==
    /\ call[c].pc = "schedule"
    /\ scheduled' = scheduled \cup {call[c].id}
    /\ call' = [call EXCEPT ![c].pc = "ensure"]
    /\ UNCHANGED <<stored, rows, keyTable, answers>>

Ensure(c) ==
    /\ call[c].pc = "ensure"
    /\ rows' = rows \cup {call[c].id}
    /\ call' = [call EXCEPT ![c].pc = "store_key"]
    /\ UNCHANGED <<stored, scheduled, keyTable, answers>>

\* Mutant: the key is not kept.
StoreKey_Forgotten(c) ==
    /\ call[c].pc = "store_key"
    /\ Answer(c, call[c].id)
    /\ UNCHANGED <<stored, scheduled, rows, keyTable>>

\* INSERT OR IGNORE: a key that is already there keeps its workflow.
StoreKey(c) ==
    /\ call[c].pc = "store_key"
    /\ keyTable' = IF KnownProject(call[c].key) = NoProject /\ call[c].key # NoKey
                     THEN [keyTable EXCEPT ![call[c].key] = call[c].id]
                     ELSE keyTable
    /\ Answer(c, call[c].id)
    /\ UNCHANGED <<stored, scheduled, rows>>

\* Mutant: the exception of a failing publish is logged and not raised again.
CallRaises_Swallowed(c) ==
    /\ CallsFail
    /\ Busy(c)
    /\ call' = [call EXCEPT ![c].pc =
                  IF call[c].pc = "schedule" THEN "ensure" ELSE "failed"]
    /\ UNCHANGED <<stored, scheduled, rows, keyTable, answers>>

CallRaises(c) ==
    /\ CallsFail
    /\ Busy(c)
    /\ call' = [call EXCEPT ![c].pc = "failed"]
    /\ UNCHANGED <<stored, scheduled, rows, keyTable, answers>>

CallStep(c) ==
    LookUp(c) \/ Save(c) \/ Schedule(c) \/ Ensure(c) \/ StoreKey(c)

CreationNext ==
    \E c \in Callers :
      \/ \E key \in Keys \cup {NoKey} : Post(c, key)
      \/ CallStep(c) \/ CallRaises(c)

CreationSpec == CreationInit /\ [][CreationNext]_creationVars

-----------------------------------------------------------------------------
(* Properties *)

\* "Check for existing workflow with the same idempotency key": requests that
\* are answered for one key all name the same workflow, whatever failed in
\* between.  Requests one at a time keep it (goals.py looks the key up before
\* it creates and stores it before it answers); overlapping ones do not.
KeyNamesOneProject ==
    \A x, y \in answers : x[1] = y[1] => x[2] = y[2]

\* A client is never handed a workflow that nobody will analyse or that the
\* workflow routes do not know: a failing publish raises, it is not swallowed.
AnsweredIsScheduled ==
    \A c \in Callers : call[c].pc = "answered" =>
      call[c].id \in stored \cap scheduled \cap rows
=============================================================================
