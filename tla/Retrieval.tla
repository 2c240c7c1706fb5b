----------------------------- MODULE Retrieval -----------------------------
(***************************************************************************)
(* The vector store behind document search: how a process connects to it   *)
(* on its first request (api/dependencies.py, rag/zilliz.py), and how an   *)
(* upload is cut into chunks and added (rag/ingestion.py).                 *)
(*                                                                         *)
(* Every call of the Zilliz service is a step: processes start at the same *)
(* time, calls fail, and a process may die anywhere (the API function has  *)
(* 29 seconds, creating an index may take 120) and leave the collection    *)
(* half made.  What the service does is modelled from how the code uses    *)
(* it.  A Lambda container is a process with one thread.                   *)
(***************************************************************************)
EXTENDS Integers, Sequences

CONSTANTS
    Threads,        \* request threads
    Processes,
    ProcessOf,      \* the process of each thread
    Databases,      \* databases of the cluster
    Default,        \* the one named "default"
    NoDatabase,     \* no client yet
    Uploads,        \* documents that may be uploaded
    NoUpload,       \* none in progress
    Texts,          \* what they may be: length, chunk_size and overlap
    MaxFaults       \* bound: failing calls and crashes

Span == [from : Nat, to : Nat]

ASSUME RetrievalAssumption ==
    /\ ProcessOf \in [Threads -> Processes]
    /\ Default \in Databases
    /\ NoDatabase \notin Databases
    /\ NoUpload \notin Uploads
    /\ Texts \subseteq [length : Nat \ {0}, size : Nat \ {0}, overlap : Nat]
    /\ MaxFaults \in Nat

VARIABLES
    collection, \* in each database: is it there, indexed, loaded
    chunks,     \* in each database: the chunks of each upload
    configured, \* ZILLIZ_DATABASE of each process
    retriever,  \* _retriever_singleton: the database of its client
    agent,      \* _agent_service_singleton: the database its retriever searches
    thread,     \* what each thread does next, and its local variables
    text,       \* the text of each upload
    answered,   \* uploads whose request has been answered
    faults

singletons == <<retriever, agent>>
uploaded == <<chunks, answered>>
fixed == <<configured, text>>
vars == <<collection, uploaded, fixed, singletons, thread, faults>>

-----------------------------------------------------------------------------
Steps == {"idle", "connect", "list", "probe", "ensure", "create", "index",
          "create_index", "state", "load", "assign", "service", "build",
          "ready", "chunk", "embed", "add"}

CollectionType == [exists : BOOLEAN, indexed : BOOLEAN, loaded : BOOLEAN]
Absent == [exists |-> FALSE, indexed |-> FALSE, loaded |-> FALSE]
Client == Databases \cup {NoDatabase}
ThreadType == [pc : Steps, client : Client, todo : SUBSET Databases,
               upload : Uploads \cup {NoUpload},
               start : Nat, cut : Seq(Span), added : Nat]
Idle == [pc |-> "idle", client |-> NoDatabase, todo |-> {},
         upload |-> NoUpload, start |-> 0, cut |-> <<>>, added |-> 0]

TypeOK ==
    /\ collection \in [Databases -> CollectionType]
    /\ chunks \in [Databases -> [Uploads -> SUBSET Span]]
    /\ configured \in [Processes -> Databases]
    /\ retriever \in [Processes -> Client]
    /\ agent \in [Processes -> Client]
    /\ thread \in [Threads -> ThreadType]
    /\ text \in [Uploads -> Texts]
    /\ answered \subseteq Uploads
    /\ faults \in 0..MaxFaults

\* The collection may be there, finished or not.  All processes name the
\* database it is in; older configurations may name none, which is "default".
Home(d) ==
    /\ \E made \in CollectionType :
         /\ made.exists /\ (made.loaded => made.indexed)
         /\ collection = [e \in Databases |-> IF e = d THEN made ELSE Absent]
    /\ configured \in [Processes -> {d, Default}]

NoHome ==
    /\ collection = [d \in Databases |-> Absent]
    /\ \E d \in Databases : configured = [p \in Processes |-> d]

Init ==
    /\ (\E d \in Databases : Home(d)) \/ NoHome
    /\ chunks = [d \in Databases |-> [u \in Uploads |-> {}]]
    /\ text \in [Uploads -> Texts]
    /\ retriever = [p \in Processes |-> NoDatabase]
    /\ agent = [p \in Processes |-> NoDatabase]
    /\ thread = [t \in Threads |-> Idle]
    /\ answered = {}
    /\ faults = 0

-----------------------------------------------------------------------------
(* A request resolves its dependencies *)

At(t, step) == thread[t].pc = step
Become(t, state) == thread' = [thread EXCEPT ![t] = state]
Goto(t, step) == thread' = [thread EXCEPT ![t].pc = step]

\* The ingest route awaits nothing once it has its file: while it works, its
\* process accepts no request.
Ingesting == {"chunk", "embed", "add"}
LoopIsFree(p) ==
    \A t \in Threads : ProcessOf[t] = p => thread[t].pc \notin Ingesting

\* get_retriever
Request(t) ==
    LET p == ProcessOf[t]
    IN  /\ At(t, "idle")
        /\ LoopIsFree(p)
        /\ Become(t, [Idle EXCEPT
             !.pc = IF retriever[p] = NoDatabase THEN "connect" ELSE "service",
             !.client = retriever[p]])
        /\ UNCHANGED <<collection, uploaded, fixed, singletons, faults>>

\* The singleton is assigned and returned.
Assign(t) ==
    /\ At(t, "assign")
    /\ retriever' = [retriever EXCEPT ![ProcessOf[t]] = thread[t].client]
    /\ Goto(t, "service")
    /\ UNCHANGED <<collection, uploaded, fixed, agent, faults>>

\* get_agent_service
Service(t) ==
    /\ At(t, "service")
    /\ Goto(t, IF agent[ProcessOf[t]] = NoDatabase THEN "build" ELSE "ready")
    /\ UNCHANGED <<collection, uploaded, fixed, singletons, faults>>

Build(t) ==
    /\ At(t, "build")
    /\ agent' = [agent EXCEPT ![ProcessOf[t]] = thread[t].client]
    /\ Goto(t, "ready")
    /\ UNCHANGED <<collection, uploaded, fixed, retriever, faults>>

-----------------------------------------------------------------------------
(* Connecting *)

Connecting == UNCHANGED <<uploaded, fixed, singletons, faults>>
Looking == Connecting /\ UNCHANGED collection
Mine(t) == collection[thread[t].client]
Have(t, part) == collection' = [collection EXCEPT ![thread[t].client][part] = TRUE]

\* Mutant: the other databases are not looked into.
Connect_DefaultOnly(t) ==
    /\ At(t, "connect")
    /\ Become(t, [thread[t] EXCEPT !.client = configured[ProcessOf[t]], !.pc = "ensure"])
    /\ Looking

\* A client of the configured database.
Connect(t) ==
    LET d == configured[ProcessOf[t]]
    IN  /\ At(t, "connect")
        /\ Become(t, [thread[t] EXCEPT
             !.client = d,
             !.pc = IF d = Default /\ ~collection[d].exists THEN "list" ELSE "ensure"])
        /\ Looking

\* list_databases
List(t) ==
    /\ At(t, "list")
    /\ Become(t, [thread[t] EXCEPT !.todo = Databases \ {Default}, !.pc = "probe"])
    /\ Looking

\* Mutant: the search begins again until a database has the collection.
Probe_Again(t) ==
    /\ At(t, "probe")
    /\ \E d \in thread[t].todo :
         Become(t, IF collection[d].exists
           THEN [thread[t] EXCEPT !.client = d, !.todo = {}, !.pc = "ensure"]
           ELSE [thread[t] EXCEPT !.pc = "list"])
    /\ Looking

\* The next database, in the order of the service.
Probe(t) ==
    /\ At(t, "probe")
    /\ \/ thread[t].todo = {} /\ Goto(t, "ensure")
       \/ \E d \in thread[t].todo :
            Become(t, IF collection[d].exists
              THEN [thread[t] EXCEPT !.client = d, !.todo = {}, !.pc = "ensure"]
              ELSE [thread[t] EXCEPT !.todo = @ \ {d}])
    /\ Looking

\* Mutant: a collection that is there is taken to be finished.
Ensure_Trusts(t) ==
    /\ At(t, "ensure")
    /\ Goto(t, IF Mine(t).exists THEN "assign" ELSE "create")
    /\ Looking

\* Mutant: a collection that is there is loaded, but not indexed.
Ensure_NoIndex(t) ==
    /\ At(t, "ensure")
    /\ Goto(t, IF Mine(t).exists THEN "state" ELSE "create")
    /\ Looking

\* _ensure_collection
Ensure(t) ==
    /\ At(t, "ensure")
    /\ Goto(t, IF Mine(t).exists THEN "index" ELSE "create")
    /\ Looking

\* Another process may have created it since: the service may refuse that, or
\* accept it because the schema is the same.
Create(t) ==
    /\ At(t, "create")
    /\ Goto(t, "index") \/ (Mine(t).exists /\ Become(t, Idle))
    /\ Have(t, "exists")
    /\ Connecting

\* _ensure_index
Index(t) ==
    /\ At(t, "index")
    /\ Goto(t, IF Mine(t).indexed THEN "state" ELSE "create_index")
    /\ Looking

CreateIndex(t) ==
    /\ At(t, "create_index")
    /\ Have(t, "indexed")
    /\ Goto(t, "state")
    /\ Connecting

\* _ensure_loaded
LoadState(t) ==
    /\ At(t, "state")
    /\ Goto(t, IF Mine(t).loaded THEN "assign" ELSE "load")
    /\ Looking

\* The service loads only what is indexed.
Load(t) ==
    /\ At(t, "load")
    /\ IF Mine(t).indexed
         THEN Have(t, "loaded") /\ Goto(t, "assign")
         ELSE Become(t, Idle) /\ UNCHANGED collection
    /\ Connecting

-----------------------------------------------------------------------------
(* The request itself *)

Serving == UNCHANGED <<collection, fixed, singletons, faults>>

\* Another route than the upload of a document.
Answer(t) ==
    /\ At(t, "ready")
    /\ Become(t, Idle)
    /\ UNCHANGED uploaded
    /\ Serving

Upload(t, u) ==
    /\ At(t, "ready")
    /\ LoopIsFree(ProcessOf[t])
    /\ Become(t, [thread[t] EXCEPT !.upload = u, !.pc = "chunk"])
    /\ UNCHANGED uploaded
    /\ Serving

Least(a, b) == IF a <= b THEN a ELSE b
Greatest(a, b) == IF a >= b THEN a ELSE b

\* Mutant: chunks share one character less than they should.
NextStart_OneOff(x, start) == Greatest(start + x.size - x.overlap + 1, start + 1)

\* Mutant: nothing ensures that the next chunk starts later.
NextStart_Back(x, start) == start + x.size - x.overlap

NextStart(x, start) == Greatest(start + x.size - x.overlap, start + 1)

\* The loop of chunk_text.
Chunk(t) ==
    LET x == text[thread[t].upload]
        start == thread[t].start
        end == start + x.size
        cut == Append(thread[t].cut, [from |-> start, to |-> Least(end, x.length)])
    IN  /\ At(t, "chunk")
        /\ Become(t, IF end >= x.length
             THEN [thread[t] EXCEPT !.cut = cut, !.pc = "embed"]
             ELSE [thread[t] EXCEPT !.cut = cut, !.start = NextStart(x, start)])
        /\ UNCHANGED uploaded
        /\ Serving

\* All chunks are embedded in one call.
Embed(t) ==
    /\ At(t, "embed")
    /\ Goto(t, "add")
    /\ UNCHANGED uploaded
    /\ Serving

Add(t) ==
    LET u == thread[t].upload
        n == thread[t].added + 1
    IN  /\ At(t, "add")
        /\ chunks' = [chunks EXCEPT ![thread[t].client][u] = @ \cup {thread[t].cut[n]}]
        /\ IF n = Len(thread[t].cut)
             THEN Become(t, Idle) /\ answered' = answered \cup {u}
             ELSE Become(t, [thread[t] EXCEPT !.added = n]) /\ UNCHANGED answered
        /\ Serving

-----------------------------------------------------------------------------
(* Failures *)

\* A call raises and the request is answered by an error; what the call did
\* before it failed (a timeout) is the case of the call after it failing.
Raise(t) ==
    /\ thread[t].pc \notin {"idle", "assign", "service", "build", "ready", "chunk"}
    /\ faults < MaxFaults
    /\ faults' = faults + 1
    /\ Become(t, Idle)
    /\ UNCHANGED <<collection, uploaded, fixed, singletons>>

\* The process ends, and with it its threads and singletons.
Crash(p) ==
    /\ faults < MaxFaults
    /\ faults' = faults + 1
    /\ thread' = [t \in Threads |-> IF ProcessOf[t] = p THEN Idle ELSE thread[t]]
    /\ retriever' = [retriever EXCEPT ![p] = NoDatabase]
    /\ agent' = [agent EXCEPT ![p] = NoDatabase]
    /\ UNCHANGED <<collection, uploaded, fixed>>

Step(t) ==
    \/ Connect(t) \/ List(t) \/ Probe(t) \/ Ensure(t) \/ Create(t)
    \/ Index(t) \/ CreateIndex(t) \/ LoadState(t) \/ Load(t)
    \/ Assign(t) \/ Service(t) \/ Build(t)
    \/ Answer(t) \/ (\E u \in Uploads : Upload(t, u))
    \/ Chunk(t) \/ Embed(t) \/ Add(t)

Next ==
    \/ \E t \in Threads : Request(t) \/ Step(t) \/ Raise(t)
    \/ \E p \in Processes : Crash(p)

Fairness == \A t \in Threads : WF_vars(Step(t))

Spec == Init /\ [][Next]_vars /\ Fairness
-----------------------------------------------------------------------------
(* Properties *)

\* Whoever has a retriever can search with it: the collection is there, has
\* an index and is loaded, also when another process left it half made.
SearchWorks ==
    \A p \in Processes :
        retriever[p] # NoDatabase =>
            collection[retriever[p]] = [exists |-> TRUE, indexed |-> TRUE, loaded |-> TRUE]

\* Processes that start together, or name the database by an older
\* configuration, do not make a second collection (zilliz.py:35-38).
OneCollection ==
    \A d, e \in Databases :
        collection[d].exists /\ collection[e].exists => d = e

\* The longest passage that is whole in some chunk wherever it stands.
Passage(x) == Least(x.overlap + 1, x.size)

Within(from, to, spans) == \E s \in spans : s.from <= from /\ to <= s.to

\* Once an upload is answered, every analysis in every process finds each of
\* its passages whole in a chunk.
AnsweredIsFound ==
    \A u \in answered, p \in Processes :
        agent[p] # NoDatabase =>
            \A from \in 0..text[u].length, to \in 0..text[u].length :
                from < to /\ to - from <= Passage(text[u])
                    => Within(from, to, chunks[agent[p]][u])

\* A first request that nothing disturbs any more gets its process a retriever,
\* whatever earlier ones left; one that sees no collection may lose the race
\* to create it.
HalfMadeIsRepaired ==
    \A p \in Processes :
        (/\ faults = MaxFaults
         /\ \E d \in Databases : collection[d].exists
         /\ \E t \in Threads : ProcessOf[t] = p /\ At(t, "connect"))
        ~> retriever[p] # NoDatabase

\* Every request ends: the search for the database, and the loop of chunk_text
\* even when chunks overlap by their whole length.
RequestEnds == \A t \in Threads : []<>At(t, "idle")
=============================================================================
