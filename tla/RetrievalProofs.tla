-------------------------- MODULE RetrievalProofs --------------------------
(***************************************************************************)
(* Proofs about Retrieval, for all threads, processes, databases, texts,   *)
(* chunk sizes and overlaps.                                               *)
(***************************************************************************)
EXTENDS Retrieval, TLAPS

-----------------------------------------------------------------------------
(* Types.  A thread that has connected has a database, one that ingests has *)
(* an upload, and one that adds has something left to add.                  *)

HoldsWhatItNeeds(s) ==
    /\ s.pc \notin {"idle", "connect"} => s.client \in Databases
    /\ s.pc \in Ingesting => s.upload \in Uploads
    /\ s.pc \notin Ingesting => s.start = 0 /\ s.cut = <<>>
    /\ s.pc # "add" => s.added = 0
    /\ s.pc \in {"embed", "add"} => s.added < Len(s.cut)

Typed ==
    /\ TypeOK
    /\ \A t \in Threads : HoldsWhatItNeeds(thread[t])

\* The initial states have the types.
LEMMA TypedInit == Init => Typed
<1> SUFFICES ASSUME Init PROVE Typed
  OBVIOUS
<1>1. collection \in [Databases -> CollectionType] /\ configured \in [Processes -> Databases]
  <2>1. Absent \in CollectionType
    BY DEF Absent, CollectionType
  <2>2. CASE \E d \in Databases : Home(d)
    BY <2>1, <2>2, RetrievalAssumption DEF Home
  <2>3. CASE NoHome
    BY <2>1, <2>3, RetrievalAssumption DEF NoHome
  <2> QED BY <2>2, <2>3 DEF Init
<1>2. Idle \in ThreadType
  BY DEF Idle, ThreadType, Client, Steps
<1>3. \A t \in Threads : thread[t] = Idle
  BY DEF Init
<1> QED
  BY <1>1, <1>2, <1>3, RetrievalAssumption
  DEF Init, Typed, TypeOK, HoldsWhatItNeeds, Idle, Client, Ingesting

\* A thread that is given a proper state leaves the threads properly typed.
LEMMA TypedBecome ==
    ASSUME Typed, NEW t \in Threads, NEW s \in ThreadType, HoldsWhatItNeeds(s),
           Become(t, s)
    PROVE  /\ thread' \in [Threads -> ThreadType]
           /\ \A r \in Threads : HoldsWhatItNeeds(thread'[r])
  BY DEF Typed, TypeOK, Become

\* Going to another step is becoming the same state at that step.
LEMMA TypedGoto ==
    ASSUME Typed, NEW t \in Threads, NEW step \in Steps, Goto(t, step),
           HoldsWhatItNeeds([thread[t] EXCEPT !.pc = step])
    PROVE  /\ thread' \in [Threads -> ThreadType]
           /\ \A r \in Threads : HoldsWhatItNeeds(thread'[r])
<1>1. [thread[t] EXCEPT !.pc = step] \in ThreadType
  BY DEF Typed, TypeOK, ThreadType
<1>2. Become(t, [thread[t] EXCEPT !.pc = step])
  BY DEF Goto, Become
<1> QED BY <1>1, <1>2, TypedBecome

\* The idle state is a proper one.
LEMMA IdleIsTyped == Idle \in ThreadType /\ HoldsWhatItNeeds(Idle)
  BY DEF Idle, ThreadType, Client, Steps, HoldsWhatItNeeds, Ingesting

\* Every step of the program keeps the types.
LEMMA TypedStep == Typed /\ [Next]_vars => Typed'
<1> SUFFICES ASSUME Typed, [Next]_vars PROVE Typed'
  OBVIOUS
<1> USE DEF Typed, TypeOK
<1>g. ASSUME NEW t \in Threads, NEW step \in Steps, Goto(t, step),
             HoldsWhatItNeeds([thread[t] EXCEPT !.pc = step])
      PROVE  /\ thread' \in [Threads -> ThreadType]
             /\ \A r \in Threads : HoldsWhatItNeeds(thread'[r])
  BY <1>g, TypedGoto
<1>b. ASSUME NEW t \in Threads, NEW s \in ThreadType, HoldsWhatItNeeds(s), Become(t, s)
      PROVE  /\ thread' \in [Threads -> ThreadType]
             /\ \A r \in Threads : HoldsWhatItNeeds(thread'[r])
  BY <1>b, TypedBecome
<1>s. "connect" \in Steps /\ "list" \in Steps /\ "probe" \in Steps /\ "ensure" \in Steps
        /\ "create" \in Steps /\ "index" \in Steps /\ "create_index" \in Steps
        /\ "state" \in Steps /\ "load" \in Steps /\ "assign" \in Steps
        /\ "service" \in Steps /\ "build" \in Steps /\ "ready" \in Steps
        /\ "chunk" \in Steps /\ "embed" \in Steps /\ "add" \in Steps
  BY DEF Steps
<1>h. ASSUME NEW t \in Threads, thread[t].pc \notin {"idle", "connect"}, NEW part \in {"exists", "indexed", "loaded"},
             Have(t, part)
      PROVE  collection' \in [Databases -> CollectionType]
  <2>1. thread[t].client \in Databases
    BY <1>h DEF HoldsWhatItNeeds
  <2>2. [collection[thread[t].client] EXCEPT ![part] = TRUE] \in CollectionType
    BY <2>1, ZenonT(40) DEF CollectionType
  <2> QED BY <1>h, <2>1, <2>2 DEF Have
<1>1. ASSUME NEW t \in Threads, Request(t) PROVE Typed'
  <2> DEFINE s == [Idle EXCEPT
        !.pc = IF retriever[ProcessOf[t]] = NoDatabase THEN "connect" ELSE "service",
        !.client = retriever[ProcessOf[t]]]
  <2>1. s \in ThreadType /\ HoldsWhatItNeeds(s)
    <3>1. retriever[ProcessOf[t]] \in Client
      BY RetrievalAssumption
    <3>2. s \in ThreadType
      BY <3>1, <1>s, IdleIsTyped DEF ThreadType
    <3>3. /\ s.pc \in {"connect", "service"}
          /\ s.pc = "service" => s.client # NoDatabase
          /\ s.client = retriever[ProcessOf[t]]
          /\ s.start = 0 /\ s.cut = <<>> /\ s.added = 0
      BY DEF Idle
    <3> QED BY <3>1, <3>2, <3>3 DEF Client, HoldsWhatItNeeds, Ingesting
  <2>2. Become(t, s)
    BY <1>1 DEF Request
  <2> HIDE DEF s
  <2> QED BY <1>1, <1>b, <2>1, <2>2 DEF Request, uploaded, fixed, singletons
<1>2. ASSUME NEW t \in Threads, Assign(t) PROVE Typed'
  <2>1. HoldsWhatItNeeds([thread[t] EXCEPT !.pc = "service"])
    BY <1>2 DEF Assign, At, HoldsWhatItNeeds, Ingesting, ThreadType
  <2>2. thread[t].client \in Client
    BY DEF ThreadType
  <2> QED BY <1>2, <1>g, <1>s, <2>1, <2>2, RetrievalAssumption DEF Assign, uploaded, fixed
<1>3. ASSUME NEW t \in Threads, Service(t) PROVE Typed'
  <2>1. \A step \in {"build", "ready"} : HoldsWhatItNeeds([thread[t] EXCEPT !.pc = step])
    BY <1>3 DEF Service, At, HoldsWhatItNeeds, Ingesting, ThreadType
  <2> QED BY <1>3, <1>g, <1>s, <2>1 DEF Service, uploaded, fixed, singletons
<1>4. ASSUME NEW t \in Threads, Build(t) PROVE Typed'
  <2>1. HoldsWhatItNeeds([thread[t] EXCEPT !.pc = "ready"])
    BY <1>4 DEF Build, At, HoldsWhatItNeeds, Ingesting, ThreadType
  <2>2. thread[t].client \in Client
    BY DEF ThreadType
  <2> QED BY <1>4, <1>g, <1>s, <2>1, <2>2, RetrievalAssumption DEF Build, uploaded, fixed
<1>5. ASSUME NEW t \in Threads, Connect(t) PROVE Typed'
  <2> DEFINE d == configured[ProcessOf[t]]
             s == [thread[t] EXCEPT !.client = d,
                     !.pc = IF d = Default /\ ~collection[d].exists THEN "list" ELSE "ensure"]
  <2>1. d \in Databases
    BY RetrievalAssumption
  <2>2. s \in ThreadType /\ HoldsWhatItNeeds(s)
    <3>1. s \in ThreadType
      BY <2>1, <1>s DEF ThreadType, Client
    <3>2. /\ s.pc \in {"list", "ensure"} /\ s.client = d
          /\ s.start = thread[t].start /\ s.cut = thread[t].cut
          /\ s.added = thread[t].added
      BY DEF ThreadType
    <3> QED BY <1>5, <2>1, <3>1, <3>2 DEF Connect, At, HoldsWhatItNeeds, Ingesting
  <2>3. Become(t, s)
    BY <1>5 DEF Connect
  <2> HIDE DEF s
  <2> QED BY <1>5, <1>b, <2>2, <2>3 DEF Connect, Looking, Connecting, uploaded, fixed, singletons
<1>6. ASSUME NEW t \in Threads, List(t) PROVE Typed'
  <2> DEFINE s == [thread[t] EXCEPT !.todo = Databases \ {Default}, !.pc = "probe"]
  <2>1. s \in ThreadType /\ HoldsWhatItNeeds(s)
    BY <1>6, <1>s DEF List, At, ThreadType, HoldsWhatItNeeds, Ingesting
  <2>2. Become(t, s)
    BY <1>6 DEF List
  <2> HIDE DEF s
  <2> QED BY <1>6, <1>b, <2>1, <2>2 DEF List, Looking, Connecting, uploaded, fixed, singletons
<1>7. ASSUME NEW t \in Threads, Probe(t) PROVE Typed'
  <2>1. CASE Goto(t, "ensure")
    <3>1. HoldsWhatItNeeds([thread[t] EXCEPT !.pc = "ensure"])
      BY <1>7 DEF Probe, At, HoldsWhatItNeeds, Ingesting, ThreadType
    <3> QED BY <1>7, <1>g, <1>s, <2>1, <3>1
        DEF Probe, Looking, Connecting, uploaded, fixed, singletons
  <2>2. ASSUME NEW d \in thread[t].todo,
               Become(t, IF collection[d].exists
                 THEN [thread[t] EXCEPT !.client = d, !.todo = {}, !.pc = "ensure"]
                 ELSE [thread[t] EXCEPT !.todo = @ \ {d}])
        PROVE  Typed'
    <3> DEFINE s == IF collection[d].exists
                      THEN [thread[t] EXCEPT !.client = d, !.todo = {}, !.pc = "ensure"]
                      ELSE [thread[t] EXCEPT !.todo = @ \ {d}]
    <3>1. d \in Databases
      BY DEF ThreadType
    <3>2. s \in ThreadType /\ HoldsWhatItNeeds(s)
      <4>1. thread[t].pc = "probe"
        BY <1>7 DEF Probe, At
      <4>2. CASE collection[d].exists
        BY <3>1, <4>1, <4>2, <1>s, ZenonT(40) DEF ThreadType, Client, HoldsWhatItNeeds, Ingesting
      <4>3. CASE ~collection[d].exists
        BY <3>1, <4>1, <4>3, <1>s DEF ThreadType, Client, HoldsWhatItNeeds, Ingesting
      <4> QED BY <4>2, <4>3
    <3>3. Become(t, s)
      BY <2>2
    <3> HIDE DEF s
    <3> QED BY <1>7, <1>b, <3>2, <3>3
        DEF Probe, Looking, Connecting, uploaded, fixed, singletons
  <2> QED BY <1>7, <2>1, <2>2 DEF Probe
<1>8. ASSUME NEW t \in Threads, Ensure(t) PROVE Typed'
  <2>1. \A step \in {"index", "create"} : HoldsWhatItNeeds([thread[t] EXCEPT !.pc = step])
    BY <1>8 DEF Ensure, At, HoldsWhatItNeeds, Ingesting, ThreadType
  <2> QED BY <1>8, <1>g, <1>s, <2>1
      DEF Ensure, Looking, Connecting, uploaded, fixed, singletons
<1>9. ASSUME NEW t \in Threads, Create(t) PROVE Typed'
  <2>1. HoldsWhatItNeeds([thread[t] EXCEPT !.pc = "index"])
    BY <1>9 DEF Create, At, HoldsWhatItNeeds, Ingesting, ThreadType
  <2>2. collection' \in [Databases -> CollectionType]
    BY <1>9, <1>h DEF Create, At
  <2> QED BY <1>9, <1>g, <1>b, <1>s, <2>1, <2>2, IdleIsTyped
      DEF Create, Connecting, uploaded, fixed, singletons
<1>10. ASSUME NEW t \in Threads, Index(t) PROVE Typed'
  <2>1. \A step \in {"state", "create_index"} : HoldsWhatItNeeds([thread[t] EXCEPT !.pc = step])
    BY <1>10 DEF Index, At, HoldsWhatItNeeds, Ingesting, ThreadType
  <2> QED BY <1>10, <1>g, <1>s, <2>1
      DEF Index, Looking, Connecting, uploaded, fixed, singletons
<1>11. ASSUME NEW t \in Threads, CreateIndex(t) PROVE Typed'
  <2>1. HoldsWhatItNeeds([thread[t] EXCEPT !.pc = "state"])
    BY <1>11 DEF CreateIndex, At, HoldsWhatItNeeds, Ingesting, ThreadType
  <2>2. collection' \in [Databases -> CollectionType]
    BY <1>11, <1>h DEF CreateIndex, At
  <2> QED BY <1>11, <1>g, <1>s, <2>1, <2>2
      DEF CreateIndex, Connecting, uploaded, fixed, singletons
<1>12. ASSUME NEW t \in Threads, LoadState(t) PROVE Typed'
  <2>1. \A step \in {"assign", "load"} : HoldsWhatItNeeds([thread[t] EXCEPT !.pc = step])
    BY <1>12 DEF LoadState, At, HoldsWhatItNeeds, Ingesting, ThreadType
  <2> QED BY <1>12, <1>g, <1>s, <2>1
      DEF LoadState, Looking, Connecting, uploaded, fixed, singletons
<1>13. ASSUME NEW t \in Threads, Load(t) PROVE Typed'
  <2>1. HoldsWhatItNeeds([thread[t] EXCEPT !.pc = "assign"])
    BY <1>13 DEF Load, At, HoldsWhatItNeeds, Ingesting, ThreadType
  <2>2. collection' \in [Databases -> CollectionType]
    BY <1>13, <1>h DEF Load, At
  <2> QED BY <1>13, <1>g, <1>b, <1>s, <2>1, <2>2, IdleIsTyped
      DEF Load, Connecting, uploaded, fixed, singletons
<1>14. ASSUME NEW t \in Threads, Answer(t) PROVE Typed'
  BY <1>14, <1>b, IdleIsTyped DEF Answer, Serving, uploaded, fixed, singletons
<1>15. ASSUME NEW t \in Threads, NEW u \in Uploads, Upload(t, u) PROVE Typed'
  <2> DEFINE s == [thread[t] EXCEPT !.upload = u, !.pc = "chunk"]
  <2>1. s \in ThreadType /\ HoldsWhatItNeeds(s)
    BY <1>15, <1>s DEF Upload, At, ThreadType, HoldsWhatItNeeds, Ingesting
  <2>2. Become(t, s)
    BY <1>15 DEF Upload
  <2> HIDE DEF s
  <2> QED BY <1>15, <1>b, <2>1, <2>2 DEF Upload, Serving, uploaded, fixed, singletons
<1>16. ASSUME NEW t \in Threads, Chunk(t) PROVE Typed'
  <2> DEFINE x == text[thread[t].upload]
             start == thread[t].start
             end == start + x.size
             cut == Append(thread[t].cut, [from |-> start, to |-> Least(end, x.length)])
             s == IF end >= x.length
                    THEN [thread[t] EXCEPT !.cut = cut, !.pc = "embed"]
                    ELSE [thread[t] EXCEPT !.cut = cut, !.start = NextStart(x, start)]
  <2>1. /\ thread[t].upload \in Uploads /\ thread[t].added = 0
        /\ thread[t].client \in Databases
    BY <1>16 DEF Chunk, At, HoldsWhatItNeeds, Ingesting
  <2>2. x.length \in Nat \ {0} /\ x.size \in Nat \ {0} /\ x.overlap \in Nat
    BY <2>1, RetrievalAssumption
  <2>3. start \in Nat /\ thread[t].cut \in Seq(Span)
    BY DEF ThreadType
  <2>4. Least(end, x.length) \in Nat
    BY <2>2, <2>3 DEF Least
  <2>5. NextStart(x, start) \in Nat
    <3> HIDE DEF x, start
    <3>1. start + x.size - x.overlap \in Int /\ start + 1 \in Nat
      BY <2>2, <2>3
    <3> QED BY <3>1, <2>2, <2>3 DEF NextStart, Greatest
  <2>6. cut \in Seq(Span) /\ Len(cut) > 0
    BY <2>3, <2>4 DEF Span
  <2> HIDE DEF cut
  <2>7. s \in ThreadType
    BY <2>3, <2>5, <2>6, <1>s DEF ThreadType
  <2>8. HoldsWhatItNeeds(s)
    BY <1>16, <2>1, <2>6 DEF Chunk, At, HoldsWhatItNeeds, Ingesting, ThreadType
  <2>9. Become(t, s)
    BY <1>16 DEF Chunk, cut
  <2> HIDE DEF s
  <2> QED BY <1>16, <1>b, <2>7, <2>8, <2>9 DEF Chunk, Serving, uploaded, fixed, singletons
<1>17. ASSUME NEW t \in Threads, Embed(t) PROVE Typed'
  <2>1. HoldsWhatItNeeds([thread[t] EXCEPT !.pc = "add"])
    BY <1>17 DEF Embed, At, HoldsWhatItNeeds, Ingesting, ThreadType
  <2> QED BY <1>17, <1>g, <1>s, <2>1 DEF Embed, Serving, uploaded, fixed, singletons
<1>18. ASSUME NEW t \in Threads, Add(t) PROVE Typed'
  <2> DEFINE d == thread[t].client
             u == thread[t].upload
             n == thread[t].added + 1
  <2>1. d \in Databases /\ u \in Uploads /\ n \in 1..Len(thread[t].cut)
    <3>1. thread[t].added \in Nat /\ thread[t].cut \in Seq(Span)
      BY DEF ThreadType
    <3>2. thread[t].pc = "add" /\ HoldsWhatItNeeds(thread[t])
      BY <1>18 DEF Add, At
    <3> QED BY <3>1, <3>2 DEF HoldsWhatItNeeds, Ingesting
  <2>2. thread[t].cut[n] \in Span
    BY <2>1 DEF ThreadType
  <2>3. chunks' \in [Databases -> [Uploads -> SUBSET Span]]
    BY <1>18, <2>1, <2>2 DEF Add
  <2>4. CASE n = Len(thread[t].cut)
    BY <1>18, <1>b, <2>1, <2>3, <2>4, IdleIsTyped DEF Add, Serving, fixed, singletons
  <2>5. CASE n # Len(thread[t].cut)
    <3> DEFINE s == [thread[t] EXCEPT !.added = n]
    <3>0. n \in Nat
      BY DEF ThreadType
    <3>1. s \in ThreadType
      BY <3>0 DEF ThreadType
    <3>3. s.pc = "add" /\ s.added < Len(s.cut)
      BY <1>18, <2>1, <2>5 DEF Add, At, ThreadType
    <3>4. HoldsWhatItNeeds(s)
      BY <2>1, <3>3 DEF ThreadType, HoldsWhatItNeeds, Ingesting
    <3>2. Become(t, s)
      BY <1>18, <2>5 DEF Add
    <3> HIDE DEF s
    <3> QED BY <1>18, <1>b, <2>3, <2>5, <3>1, <3>2, <3>4 DEF Add, Serving, fixed, singletons
  <2> QED BY <2>4, <2>5
<1>19. ASSUME NEW t \in Threads, Raise(t) PROVE Typed'
  BY <1>19, <1>b, IdleIsTyped, RetrievalAssumption DEF Raise, uploaded, fixed, singletons
<1>20. ASSUME NEW p \in Processes, Crash(p) PROVE Typed'
  BY <1>20, IdleIsTyped, RetrievalAssumption DEF Crash, uploaded, fixed, Client
<1>21. CASE UNCHANGED vars
  BY <1>21 DEF vars, uploaded, fixed, singletons
<1> QED
  BY <1>1, <1>2, <1>3, <1>4, <1>5, <1>6, <1>7, <1>8, <1>9, <1>10, <1>11, <1>12,
     <1>13, <1>14, <1>15, <1>16, <1>17, <1>18, <1>19, <1>20, <1>21 DEF Next, Step

\* Every variable has the type its comment gives it.
THEOREM SpecTypeOK == Spec => []TypeOK
<1>1. Typed => TypeOK
  BY DEF Typed
<1> QED BY TypedInit, TypedStep, <1>1, PTL DEF Spec

-----------------------------------------------------------------------------
(* One database h has the collection, or will have it: every process is      *)
(* configured for it or finds it, every thread is on its way to it, and what *)
(* a thread has seen of the collection stays true.                           *)

Ready == [exists |-> TRUE, indexed |-> TRUE, loaded |-> TRUE]

Grown(c, later) ==
    /\ later \in CollectionType
    /\ c.exists => later.exists
    /\ c.indexed => later.indexed
    /\ c.loaded => later.loaded

Heading(s, h, c) ==
    /\ s.pc \in {"list", "probe"} =>
         s.client = Default /\ (h = Default \/ c.exists)
    /\ s.pc = "probe" => h = Default \/ h \in s.todo
    /\ s.pc \notin {"idle", "connect", "list", "probe"} => s.client = h
    /\ s.pc \notin {"idle", "connect", "list", "probe", "ensure", "create"} => c.exists
    /\ s.pc \in {"state", "load"} => c.indexed
    /\ s.pc \in {"assign", "service", "build", "ready", "chunk", "embed", "add"} => c = Ready

Around(h) ==
    /\ \A d \in Databases : collection[d].exists => d = h
    /\ \A p \in Processes :
         configured[p] = h \/ (configured[p] = Default /\ collection[h].exists)
    /\ \A t \in Threads : Heading(thread[t], h, collection[h])
    /\ \A p \in Processes :
         /\ retriever[p] \in {h, NoDatabase} /\ agent[p] \in {h, NoDatabase}
         /\ retriever[p] # NoDatabase => collection[h] = Ready

\* What is ready stays ready.
LEMMA ReadyGrows ==
    ASSUME NEW c \in CollectionType, NEW later, Grown(c, later), c = Ready
    PROVE  later = Ready
  BY DEF Grown, CollectionType, Ready

\* What holds for a thread still holds when the collection has grown.
LEMMA HeadingGrows ==
    ASSUME NEW s, NEW h, NEW c \in CollectionType, NEW later, Grown(c, later),
           Heading(s, h, c)
    PROVE  Heading(s, h, later)
<1>1. c = Ready => later = Ready
  BY ReadyGrows
<1> QED BY <1>1 DEF Heading, Grown

\* A collection that is there before, or the database all are configured for.
LEMMA AroundInit == ASSUME Init PROVE \E h \in Databases : Around(h)
<1>1. ASSUME NEW d \in Databases, Home(d) PROVE Around(d)
  BY <1>1, RetrievalAssumption DEF Init, Home, Around, Heading, Idle, Absent, CollectionType
<1>2. ASSUME NEW d \in Databases, collection = [e \in Databases |-> Absent],
             configured = [p \in Processes |-> d]
      PROVE  Around(d)
  BY <1>2, RetrievalAssumption DEF Init, Around, Heading, Idle, Absent
<1> QED BY <1>1, <1>2 DEF Init, NoHome

\* Every step of the program leaves everybody around the same database.
LEMMA AroundStep ==
    ASSUME Typed, NEW h \in Databases, Around(h), [Next]_vars
    PROVE  Around(h)'
<1>c. collection[h] \in CollectionType
  BY DEF Typed, TypeOK
<1>t. \A t \in Threads : thread[t] \in ThreadType /\ Heading(thread[t], h, collection[h])
  BY DEF Typed, TypeOK, Around
<1>e. ASSUME NEW t \in Threads, NEW s, Become(t, s), NEW r \in Threads
      PROVE  thread'[r] = IF r = t THEN s ELSE thread[r]
  BY <1>e DEF Become, Typed, TypeOK
\* A step of one thread: what is left to show of it.
<1>b. ASSUME NEW t \in Threads, NEW s, Become(t, s),
             UNCHANGED configured, UNCHANGED singletons,
             Grown(collection[h], collection'[h]),
             \A d \in Databases : collection'[d].exists => d = h,
             Heading(s, h, collection'[h])
      PROVE  Around(h)'
  <2>1. \A r \in Threads : Heading(thread[r], h, collection'[h])
    BY <1>b, <1>c, <1>t, HeadingGrows
  <2>2. ASSUME NEW r \in Threads PROVE Heading(thread'[r], h, collection'[h])
    <3>1. CASE r = t
      BY <1>b, <1>e, <3>1
    <3>2. CASE r # t
      <4>1. thread'[r] = thread[r]
        BY <1>b, <1>e, <3>2
      <4> QED BY <2>1, <4>1
    <3> QED BY <3>1, <3>2
  <2>3. collection[h] = Ready => collection'[h] = Ready
    BY <1>b, <1>c, ReadyGrows
  <2>4. \A r \in Threads : Heading(thread[r], h, collection[h])'
    BY <2>2
  <2>5. \A d \in Databases : collection'[d].exists => d = h
    BY <1>b
  <2>6. \A p \in Processes :
          configured'[p] = h \/ (configured'[p] = Default /\ collection'[h].exists)
    BY <1>b DEF Around, Grown
  <2>7. \A p \in Processes :
          /\ retriever'[p] \in {h, NoDatabase} /\ agent'[p] \in {h, NoDatabase}
          /\ retriever'[p] # NoDatabase => collection'[h] = Ready
    BY <1>b, <2>3 DEF Around, singletons
  <2> QED BY <2>4, <2>5, <2>6, <2>7 DEF Around
<1>l. ASSUME NEW t \in Threads, NEW s, Become(t, s), Looking, Heading(s, h, collection[h])
      PROVE  Around(h)'
  BY <1>l, <1>b, <1>c DEF Looking, Connecting, fixed, Around, Grown
<1>g. ASSUME NEW t \in Threads, NEW step, Goto(t, step)
      PROVE  /\ Become(t, [thread[t] EXCEPT !.pc = step])
             /\ [thread[t] EXCEPT !.pc = step].pc = step
             /\ [thread[t] EXCEPT !.pc = step].client = thread[t].client
             /\ [thread[t] EXCEPT !.pc = step].todo = thread[t].todo
  BY <1>g, <1>t DEF Goto, Become, ThreadType
<1>i. Heading(Idle, h, collection[h]) /\ Heading(Idle, h, collection'[h])
  BY DEF Heading, Idle
<1>1. ASSUME NEW t \in Threads, Request(t) PROVE Around(h)'
  <2> DEFINE p == ProcessOf[t]
             s == [Idle EXCEPT
                    !.pc = IF retriever[p] = NoDatabase THEN "connect" ELSE "service",
                    !.client = retriever[p]]
  <2>1. /\ s.pc = IF retriever[p] = NoDatabase THEN "connect" ELSE "service"
        /\ s.client = retriever[p]
    BY DEF Idle
  <2>2. Become(t, s) /\ Looking
    BY <1>1 DEF Request, Looking, Connecting
  <2> HIDE DEF s
  <2>3. Heading(s, h, collection[h])
    BY <2>1, RetrievalAssumption DEF Heading, Around, Ready
  <2> QED BY <1>l, <2>2, <2>3
<1>2. ASSUME NEW t \in Threads, Assign(t) PROVE Around(h)'
  <2>1. thread[t].client = h /\ collection[h] = Ready
    BY <1>2, <1>t DEF Assign, At, Heading
  <2>2. ASSUME NEW r \in Threads PROVE Heading(thread'[r], h, collection[h])
    <3> DEFINE s == [thread[t] EXCEPT !.pc = "service"]
    <3>1. Become(t, s) /\ Heading(s, h, collection[h])
      BY <1>2, <1>g, <2>1 DEF Assign, Heading, Ready
    <3> HIDE DEF s
    <3>2. thread'[r] = IF r = t THEN s ELSE thread[r]
      BY <1>e, <3>1
    <3> QED BY <1>t, <3>1, <3>2
  <2>3. \A p \in Processes : retriever'[p] \in {retriever[p], h}
    BY <1>2, <2>1 DEF Assign, Typed, TypeOK
  <2> QED BY <1>2, <2>1, <2>2, <2>3 DEF Assign, Around, fixed
<1>3. ASSUME NEW t \in Threads, Service(t) PROVE Around(h)'
  <2>1. Looking
    BY <1>3 DEF Service, Looking, Connecting
  <2>2. \A step \in {"build", "ready"} :
          Goto(t, step) => Heading([thread[t] EXCEPT !.pc = step], h, collection[h])
    BY <1>3, <1>t, <1>g DEF Service, At, Heading, Ready
  <2> QED BY <1>3, <1>g, <1>l, <2>1, <2>2 DEF Service
<1>4. ASSUME NEW t \in Threads, Build(t) PROVE Around(h)'
  <2>1. thread[t].client = h /\ collection[h] = Ready
    BY <1>4, <1>t DEF Build, At, Heading
  <2>2. ASSUME NEW r \in Threads PROVE Heading(thread'[r], h, collection[h])
    <3> DEFINE s == [thread[t] EXCEPT !.pc = "ready"]
    <3>1. Become(t, s) /\ Heading(s, h, collection[h])
      BY <1>4, <1>g, <2>1 DEF Build, Heading, Ready
    <3> HIDE DEF s
    <3>2. thread'[r] = IF r = t THEN s ELSE thread[r]
      BY <1>e, <3>1
    <3> QED BY <1>t, <3>1, <3>2
  <2>3. \A p \in Processes : agent'[p] \in {agent[p], h}
    BY <1>4, <2>1 DEF Build, Typed, TypeOK
  <2> QED BY <1>4, <2>1, <2>2, <2>3 DEF Build, Around, fixed
<1>5. ASSUME NEW t \in Threads, Connect(t) PROVE Around(h)'
  <2> DEFINE d == configured[ProcessOf[t]]
             s == [thread[t] EXCEPT !.client = d,
                     !.pc = IF d = Default /\ ~collection[d].exists THEN "list" ELSE "ensure"]
  <2>1. /\ s.client = d
        /\ s.pc = IF d = Default /\ ~collection[d].exists THEN "list" ELSE "ensure"
    BY <1>t DEF ThreadType
  <2>2. Become(t, s) /\ Looking
    BY <1>5 DEF Connect
  <2> HIDE DEF s
  <2>3. d \in Databases /\ (d = h \/ (d = Default /\ collection[h].exists))
    BY RetrievalAssumption DEF Around, Typed, TypeOK
  <2>4. collection[d].exists => d = h
    BY <2>3 DEF Around
  <2>5. Heading(s, h, collection[h])
    BY <2>1, <2>3, <2>4 DEF Heading
  <2> QED BY <1>l, <2>2, <2>5
<1>6. ASSUME NEW t \in Threads, List(t) PROVE Around(h)'
  <2> DEFINE s == [thread[t] EXCEPT !.todo = Databases \ {Default}, !.pc = "probe"]
  <2>1. s.client = thread[t].client /\ s.todo = Databases \ {Default} /\ s.pc = "probe"
    BY <1>t DEF ThreadType
  <2>2. Become(t, s) /\ Looking
    BY <1>6 DEF List
  <2> HIDE DEF s
  <2>3. Heading(s, h, collection[h])
    BY <1>6, <1>t, <2>1 DEF List, At, Heading
  <2> QED BY <1>l, <2>2, <2>3
<1>7. ASSUME NEW t \in Threads, Probe(t) PROVE Around(h)'
  <2>0. Looking
    BY <1>7 DEF Probe
  <2>1. CASE thread[t].todo = {} /\ Goto(t, "ensure")
    <3>1. Heading([thread[t] EXCEPT !.pc = "ensure"], h, collection[h])
      BY <1>7, <1>t, <1>g, <2>1 DEF Probe, At, Heading
    <3> QED BY <1>g, <1>l, <2>0, <2>1, <3>1
  <2>2. ASSUME NEW d \in thread[t].todo,
               Become(t, IF collection[d].exists
                 THEN [thread[t] EXCEPT !.client = d, !.todo = {}, !.pc = "ensure"]
                 ELSE [thread[t] EXCEPT !.todo = @ \ {d}])
        PROVE  Around(h)'
    <3>0. d \in Databases
      BY <1>t DEF ThreadType
    <3>1. CASE collection[d].exists
      <4> DEFINE s == [thread[t] EXCEPT !.client = d, !.todo = {}, !.pc = "ensure"]
      <4>1. s.client = d /\ s.pc = "ensure"
        BY <1>t DEF ThreadType
      <4>2. d = h
        BY <3>0, <3>1 DEF Around
      <4>3. Become(t, s)
        BY <2>2, <3>1
      <4> HIDE DEF s
      <4>4. Heading(s, h, collection[h])
        BY <4>1, <4>2 DEF Heading
      <4> QED BY <1>l, <2>0, <4>3, <4>4
    <3>2. CASE ~collection[d].exists
      <4> DEFINE s == [thread[t] EXCEPT !.todo = @ \ {d}]
      <4>1. /\ s.client = thread[t].client /\ s.pc = "probe"
            /\ s.todo = thread[t].todo \ {d}
        BY <1>7, <1>t DEF Probe, At, ThreadType
      <4>3. Become(t, s)
        BY <2>2, <3>2
      <4> HIDE DEF s
      <4>4. Heading(s, h, collection[h])
        BY <1>7, <1>t, <3>2, <4>1 DEF Probe, At, Heading
      <4> QED BY <1>l, <2>0, <4>3, <4>4
    <3> QED BY <3>1, <3>2
  <2> QED BY <1>7, <2>1, <2>2 DEF Probe
<1>8. ASSUME NEW t \in Threads, Ensure(t) PROVE Around(h)'
  <2>1. thread[t].client = h
    BY <1>8, <1>t DEF Ensure, At, Heading
  <2>2. CASE collection[h].exists
    <3>1. Goto(t, "index") /\ Looking
      BY <1>8, <2>1, <2>2 DEF Ensure, Mine
    <3>2. Heading([thread[t] EXCEPT !.pc = "index"], h, collection[h])
      BY <1>g, <2>1, <2>2, <3>1 DEF Heading
    <3> QED BY <1>g, <1>l, <3>1, <3>2
  <2>3. CASE ~collection[h].exists
    <3>1. Goto(t, "create") /\ Looking
      BY <1>8, <2>1, <2>3 DEF Ensure, Mine
    <3>2. Heading([thread[t] EXCEPT !.pc = "create"], h, collection[h])
      BY <1>g, <2>1, <2>3, <3>1 DEF Heading
    <3> QED BY <1>g, <1>l, <3>1, <3>2
  <2> QED BY <2>2, <2>3
\* Making a part of the collection of h.
<1>h. ASSUME NEW t \in Threads, thread[t].client = h,
             NEW part \in {"exists", "indexed", "loaded"}, Have(t, part),
             part = "exists" \/ collection[h].exists
      PROVE  /\ Grown(collection[h], collection'[h])
             /\ collection'[h] = [collection[h] EXCEPT ![part] = TRUE]
             /\ \A d \in Databases : collection'[d].exists => d = h
  <2>1. collection' = [collection EXCEPT ![h] = [collection[h] EXCEPT ![part] = TRUE]]
    BY <1>h DEF Have
  <2>2. collection'[h] = [collection[h] EXCEPT ![part] = TRUE]
    BY <2>1 DEF Typed, TypeOK
  <2>3. \A d \in Databases : d # h => collection'[d] = collection[d]
    BY <2>1 DEF Typed, TypeOK
  <2>4. Grown(collection[h], collection'[h])
    BY <1>c, <2>2 DEF Grown, CollectionType
  <2> QED BY <2>2, <2>3, <2>4 DEF Around
<1>9. ASSUME NEW t \in Threads, Create(t) PROVE Around(h)'
  <2>1. thread[t].client = h /\ Have(t, "exists")
    BY <1>9, <1>t DEF Create, At, Heading
  <2>2. collection'[h].exists
    BY <1>c, <1>h, <2>1 DEF CollectionType
  <2>3. UNCHANGED configured /\ UNCHANGED singletons
    BY <1>9 DEF Create, Connecting, fixed
  <2>4. CASE Goto(t, "index")
    <3>1. Heading([thread[t] EXCEPT !.pc = "index"], h, collection'[h])
      BY <1>g, <2>1, <2>2, <2>4 DEF Heading
    <3> QED BY <1>b, <1>g, <1>h, <2>1, <2>3, <2>4, <3>1
  <2>5. CASE Become(t, Idle)
    BY <1>b, <1>h, <1>i, <2>1, <2>3, <2>5
  <2> QED BY <1>9, <2>4, <2>5 DEF Create
<1>10. ASSUME NEW t \in Threads, Index(t) PROVE Around(h)'
  <2>1. thread[t].client = h /\ collection[h].exists /\ Looking
    BY <1>10, <1>t DEF Index, At, Heading
  <2>2. CASE collection[h].indexed
    <3>1. Goto(t, "state")
      BY <1>10, <2>1, <2>2 DEF Index, Mine
    <3>2. Heading([thread[t] EXCEPT !.pc = "state"], h, collection[h])
      BY <1>g, <2>1, <2>2, <3>1 DEF Heading
    <3> QED BY <1>g, <1>l, <2>1, <3>1, <3>2
  <2>3. CASE ~collection[h].indexed
    <3>1. Goto(t, "create_index")
      BY <1>10, <2>1, <2>3 DEF Index, Mine
    <3>2. Heading([thread[t] EXCEPT !.pc = "create_index"], h, collection[h])
      BY <1>g, <2>1, <2>3, <3>1 DEF Heading
    <3> QED BY <1>g, <1>l, <2>1, <3>1, <3>2
  <2> QED BY <2>2, <2>3
<1>11. ASSUME NEW t \in Threads, CreateIndex(t) PROVE Around(h)'
  <2>1. thread[t].client = h /\ collection[h].exists
    BY <1>11, <1>t DEF CreateIndex, At, Heading
  <2>2. Have(t, "indexed") /\ Goto(t, "state")
    BY <1>11 DEF CreateIndex
  <2>3. UNCHANGED configured /\ UNCHANGED singletons
    BY <1>11 DEF CreateIndex, Connecting, fixed
  <2>4. collection'[h].exists /\ collection'[h].indexed
    BY <1>c, <1>h, <2>1, <2>2 DEF CollectionType
  <2>5. Heading([thread[t] EXCEPT !.pc = "state"], h, collection'[h])
    BY <1>g, <2>1, <2>2, <2>4 DEF Heading
  <2> QED BY <1>b, <1>g, <1>h, <2>1, <2>2, <2>3, <2>5
<1>12. ASSUME NEW t \in Threads, LoadState(t) PROVE Around(h)'
  <2>1. /\ thread[t].client = h /\ collection[h].exists /\ collection[h].indexed
        /\ Looking
    BY <1>12, <1>t DEF LoadState, At, Heading
  <2>2. CASE collection[h].loaded
    <3>1. Goto(t, "assign")
      BY <1>12, <2>1, <2>2 DEF LoadState, Mine
    <3>2. collection[h] = Ready
      BY <1>c, <2>1, <2>2 DEF CollectionType, Ready
    <3>3. Heading([thread[t] EXCEPT !.pc = "assign"], h, collection[h])
      BY <1>g, <2>1, <3>1, <3>2 DEF Heading
    <3> QED BY <1>g, <1>l, <2>1, <3>1, <3>3
  <2>3. CASE ~collection[h].loaded
    <3>1. Goto(t, "load")
      BY <1>12, <2>1, <2>3 DEF LoadState, Mine
    <3>2. Heading([thread[t] EXCEPT !.pc = "load"], h, collection[h])
      BY <1>g, <2>1, <2>3, <3>1 DEF Heading
    <3> QED BY <1>g, <1>l, <2>1, <3>1, <3>2
  <2> QED BY <2>2, <2>3
<1>13. ASSUME NEW t \in Threads, Load(t) PROVE Around(h)'
  <2>1. thread[t].client = h /\ collection[h].exists /\ collection[h].indexed
    BY <1>13, <1>t DEF Load, At, Heading
  <2>2. Have(t, "loaded") /\ Goto(t, "assign")
    BY <1>13, <2>1 DEF Load, Mine
  <2>3. UNCHANGED configured /\ UNCHANGED singletons
    BY <1>13 DEF Load, Connecting, fixed
  <2>4. collection'[h] = Ready
    BY <1>c, <1>h, <2>1, <2>2 DEF CollectionType, Ready
  <2>5. Heading([thread[t] EXCEPT !.pc = "assign"], h, collection'[h])
    BY <1>g, <2>1, <2>2, <2>4 DEF Heading, Ready
  <2> QED BY <1>b, <1>g, <1>h, <2>1, <2>2, <2>3, <2>5
\* Serving a request changes neither the collection nor who is connected to it.
<1>s. ASSUME NEW t \in Threads, NEW s, Become(t, s), Serving, Heading(s, h, collection[h])
      PROVE  Around(h)'
  BY <1>s, <1>b, <1>c DEF Serving, fixed, Around, Grown
<1>14. ASSUME NEW t \in Threads, Answer(t) PROVE Around(h)'
  BY <1>14, <1>s, <1>i DEF Answer
<1>15. ASSUME NEW t \in Threads, NEW u \in Uploads, Upload(t, u) PROVE Around(h)'
  <2> DEFINE s == [thread[t] EXCEPT !.upload = u, !.pc = "chunk"]
  <2>1. s.client = thread[t].client /\ s.pc = "chunk"
    BY <1>t DEF ThreadType
  <2>2. Become(t, s) /\ Serving
    BY <1>15 DEF Upload
  <2> HIDE DEF s
  <2>3. Heading(s, h, collection[h])
    BY <1>15, <1>t, <2>1 DEF Upload, At, Heading, Ready
  <2> QED BY <1>s, <2>2, <2>3
<1>16. ASSUME NEW t \in Threads, Chunk(t) PROVE Around(h)'
  <2>1. PICK s : /\ Become(t, s) /\ Serving
                 /\ s.client = thread[t].client
                 /\ s.pc \in {"chunk", "embed"}
    <3> DEFINE x == text[thread[t].upload]
               start == thread[t].start
               end == start + x.size
               cut == Append(thread[t].cut, [from |-> start, to |-> Least(end, x.length)])
    <3>1. CASE end >= x.length
      <4> DEFINE r == [thread[t] EXCEPT !.cut = cut, !.pc = "embed"]
      <4>1. Become(t, r) /\ Serving
        BY <1>16, <3>1 DEF Chunk
      <4>2. r.client = thread[t].client /\ r.pc = "embed"
        BY <1>t DEF ThreadType
      <4> HIDE DEF r
      <4> QED BY <4>1, <4>2
    <3>2. CASE ~(end >= x.length)
      <4> DEFINE r == [thread[t] EXCEPT !.cut = cut, !.start = NextStart(x, start)]
      <4>1. Become(t, r) /\ Serving
        BY <1>16, <3>2 DEF Chunk
      <4>2. r.client = thread[t].client /\ r.pc = "chunk"
        BY <1>16, <1>t DEF ThreadType, Chunk, At
      <4> HIDE DEF r
      <4> QED BY <4>1, <4>2
    <3> QED BY <3>1, <3>2
  <2>2. Heading(s, h, collection[h])
    BY <1>16, <1>t, <2>1 DEF Chunk, At, Heading, Ready
  <2> QED BY <1>s, <2>1, <2>2
<1>17. ASSUME NEW t \in Threads, Embed(t) PROVE Around(h)'
  <2>1. Goto(t, "add") /\ Serving
    BY <1>17 DEF Embed
  <2>2. Heading([thread[t] EXCEPT !.pc = "add"], h, collection[h])
    BY <1>17, <1>t, <1>g, <2>1 DEF Embed, At, Heading, Ready
  <2> QED BY <1>g, <1>s, <2>1, <2>2
<1>18. ASSUME NEW t \in Threads, Add(t) PROVE Around(h)'
  <2>1. CASE Become(t, Idle)
    BY <1>18, <1>s, <1>i, <2>1 DEF Add
  <2>2. ASSUME NEW n, Become(t, [thread[t] EXCEPT !.added = n]) PROVE Around(h)'
    <3> DEFINE s == [thread[t] EXCEPT !.added = n]
    <3>1. s.client = thread[t].client /\ s.pc = thread[t].pc /\ s.todo = thread[t].todo
      BY <1>t DEF ThreadType
    <3>2. Become(t, s) /\ Serving
      BY <1>18, <2>2 DEF Add
    <3> HIDE DEF s
    <3>3. Heading(s, h, collection[h])
      BY <1>t, <3>1 DEF Heading
    <3> QED BY <1>s, <3>2, <3>3
  <2> QED BY <1>18, <2>1, <2>2 DEF Add
<1>19. ASSUME NEW t \in Threads, Raise(t) PROVE Around(h)'
  <2>1. Become(t, Idle) /\ UNCHANGED <<collection, fixed, singletons>>
    BY <1>19 DEF Raise
  <2> QED BY <2>1, <1>b, <1>c, <1>i DEF fixed, Around, Grown
<1>20. ASSUME NEW p \in Processes, Crash(p) PROVE Around(h)'
  <2>1. \A r \in Threads : Heading(thread'[r], h, collection[h])
    BY <1>20, <1>i, <1>t DEF Crash
  <2>2. \A q \in Processes : /\ retriever'[q] \in {retriever[q], NoDatabase}
                             /\ agent'[q] \in {agent[q], NoDatabase}
    BY <1>20 DEF Crash, Typed, TypeOK
  <2> QED BY <1>20, <2>1, <2>2 DEF Crash, Around, fixed
<1>21. CASE UNCHANGED vars
  BY <1>21 DEF vars, fixed, singletons, Around
<1> QED
  BY <1>1, <1>2, <1>3, <1>4, <1>5, <1>6, <1>7, <1>8, <1>9, <1>10, <1>11, <1>12,
     <1>13, <1>14, <1>15, <1>16, <1>17, <1>18, <1>19, <1>20, <1>21 DEF Next, Step

AroundInv == Typed /\ \E h \in Databases : Around(h)

\* There is such a database in every reachable state.
LEMMA SpecAround == Spec => []AroundInv
<1>1. Init => AroundInv
  BY TypedInit, AroundInit DEF AroundInv
<1>2. AroundInv /\ [Next]_vars => AroundInv'
  BY TypedStep, AroundStep DEF AroundInv
<1> QED BY <1>1, <1>2, PTL DEF Spec

\* No interleaving of cold starts makes a second collection.
THEOREM SpecOneCollection == Spec => []OneCollection
<1>1. AroundInv => OneCollection
  BY DEF AroundInv, Around, OneCollection
<1> QED BY SpecAround, <1>1, PTL

\* Whatever state other processes left it in, who has a retriever can search.
THEOREM SpecSearchWorks == Spec => []SearchWorks
<1>1. AroundInv => SearchWorks
  BY DEF AroundInv, Around, SearchWorks, Ready
<1> QED BY SpecAround, <1>1, PTL

-----------------------------------------------------------------------------
(* Uploads.  While a text is cut, the passages that begin before the next   *)
(* start are whole in a chunk; when it has been cut, all are.               *)

TextType == [length : Nat \ {0}, size : Nat \ {0}, overlap : Nat]

WholeBefore(x, n, spans) ==
    \A from \in 0..x.length, to \in 0..x.length :
        from < n /\ from < to /\ to - from <= Passage(x) => Within(from, to, spans)

Cut(s) == {s.cut[i] : i \in DOMAIN s.cut}

Cutting(s, x, stored) ==
    /\ s.pc = "chunk" => s.start < x.length /\ WholeBefore(x, s.start, Cut(s))
    /\ s.pc \in {"embed", "add"} => WholeBefore(x, x.length, Cut(s))
    /\ s.pc = "add" => \A i \in 1..s.added : s.cut[i] \in stored

Ingest(h) ==
    /\ \A t \in Threads :
         thread[t].pc \in Ingesting =>
           Cutting(thread[t], text[thread[t].upload], chunks[h][thread[t].upload])
    /\ \A u \in answered : WholeBefore(text[u], text[u].length, chunks[h][u])

\* More chunks hold no fewer passages.
LEMMA MoreChunks ==
    ASSUME NEW x, NEW n, NEW spans, NEW more, spans \subseteq more, WholeBefore(x, n, spans)
    PROVE  WholeBefore(x, n, more)
  BY DEF WholeBefore, Within

\* One round of chunk_text, for every size and overlap.
LEMMA ChunkRound ==
    ASSUME NEW x \in TextType, NEW start \in Nat, start < x.length,
           NEW spans, WholeBefore(x, start, spans),
           NEW piece, piece = [from |-> start, to |-> Least(start + x.size, x.length)]
    PROVE  IF start + x.size >= x.length
             THEN WholeBefore(x, x.length, spans \cup {piece})
             ELSE /\ NextStart(x, start) \in Nat
                  /\ NextStart(x, start) < x.length
                  /\ WholeBefore(x, NextStart(x, start), spans \cup {piece})
<1>0. x.length \in Nat \ {0} /\ x.size \in Nat \ {0} /\ x.overlap \in Nat
  BY DEF TextType
<1> DEFINE end == start + x.size
<1>1. Passage(x) \in Int /\ Passage(x) <= x.overlap + 1 /\ Passage(x) <= x.size
  BY <1>0 DEF Passage, Least
\* Every passage that begins in the new chunk before n ends in it.
<1>2. ASSUME NEW n \in Nat,
             \A from \in 0..x.length, to \in 0..x.length :
               (start <= from /\ from < n /\ from < to /\ to - from <= Passage(x))
                 => to <= piece.to
      PROVE  WholeBefore(x, n, spans \cup {piece})
  <2> SUFFICES ASSUME NEW from \in 0..x.length, NEW to \in 0..x.length,
                      from < n, from < to, to - from <= Passage(x)
               PROVE  Within(from, to, spans \cup {piece})
    BY DEF WholeBefore
  <2>1. CASE from < start
    BY <2>1 DEF WholeBefore, Within
  <2>2. CASE ~(from < start)
    <3>1. start <= from
      BY <1>0, <2>2
    <3>2. piece.from <= from /\ to <= piece.to
      BY <1>2, <3>1
    <3> QED BY <3>2 DEF Within
  <2> QED BY <2>1, <2>2
<1>3. CASE end >= x.length
  <2>1. piece.to = x.length
    BY <1>0, <1>3 DEF Least
  <2> QED BY <1>0, <1>2, <1>3, <2>1
<1>4. CASE ~(end >= x.length)
  <2>1. piece.to = end
    BY <1>0, <1>4 DEF Least
  <2> DEFINE next == NextStart(x, start)
  <2>2. /\ next \in Nat
        /\ next = end - x.overlap \/ next = start + 1
        /\ next <= end
    BY <1>0 DEF NextStart, Greatest
  <2>3. next < x.length
    BY <1>0, <1>4, <2>2
  <2> HIDE DEF next
  <2>4. ASSUME NEW from \in 0..x.length, NEW to \in 0..x.length,
               start <= from, from < next, from < to, to - from <= Passage(x)
        PROVE  to <= end
    BY <1>0, <1>1, <2>2, <2>4
  <2>5. WholeBefore(x, next, spans \cup {piece})
    BY <1>2, <2>1, <2>2, <2>4
  <2> QED BY <1>4, <2>2, <2>3, <2>5 DEF next
<1> QED BY <1>3, <1>4

\* The chunks after one more is appended.
LEMMA CutAppend ==
    ASSUME NEW s, s.cut \in Seq(Span), NEW piece \in Span,
           NEW r, r.cut = Append(s.cut, piece)
    PROVE  Cut(r) = Cut(s) \cup {piece}
<1>1. DOMAIN r.cut = DOMAIN s.cut \cup {Len(s.cut) + 1}
  OBVIOUS
<1>2. \A i \in DOMAIN s.cut : r.cut[i] = s.cut[i]
  OBVIOUS
<1>3. r.cut[Len(s.cut) + 1] = piece
  OBVIOUS
<1> QED BY <1>1, <1>2, <1>3 DEF Cut

IngestInv(h) == Typed /\ Around(h) /\ Ingest(h)

\* Every step of the program keeps what is known of the uploads.
LEMMA IngestStep ==
    ASSUME NEW h \in Databases, IngestInv(h), [Next]_vars
    PROVE  Ingest(h)'
<1> USE DEF IngestInv
<1>t. /\ \A t \in Threads : thread[t] \in ThreadType /\ HoldsWhatItNeeds(thread[t])
      /\ \A t \in Threads : thread[t].pc \in Ingesting =>
           /\ thread[t].upload \in Uploads
           /\ thread[t].client = h
           /\ text[thread[t].upload] \in TextType
           /\ Cutting(thread[t], text[thread[t].upload], chunks[h][thread[t].upload])
  BY RetrievalAssumption
  DEF Typed, TypeOK, HoldsWhatItNeeds, Ingest, Around, Heading, Ingesting, TextType
<1>e. ASSUME NEW t \in Threads, NEW s, Become(t, s), NEW r \in Threads
      PROVE  thread'[r] = IF r = t THEN s ELSE thread[r]
  BY <1>e DEF Become, Typed, TypeOK
\* A thread that does not ingest then, while nothing is added.
<1>b. ASSUME NEW t \in Threads, NEW s, Become(t, s), UNCHANGED uploaded, UNCHANGED text,
             s.pc \in Ingesting => Cutting(s, text[s.upload], chunks[h][s.upload])
      PROVE  Ingest(h)'
  <2>1. ASSUME NEW r \in Threads, thread'[r].pc \in Ingesting
        PROVE  Cutting(thread'[r], text[thread'[r].upload], chunks[h][thread'[r].upload])
    <3>1. CASE r = t
      BY <1>b, <1>e, <2>1, <3>1
    <3>2. CASE r # t
      <4>1. thread'[r] = thread[r]
        BY <1>b, <1>e, <3>2
      <4> QED BY <1>t, <2>1, <4>1
    <3> QED BY <3>1, <3>2
  <2>2. chunks' = chunks /\ answered' = answered /\ text' = text
    BY <1>b DEF uploaded
  <2>3. \A r \in Threads : (thread[r].pc \in Ingesting =>
          Cutting(thread[r], text[thread[r].upload], chunks[h][thread[r].upload]))'
    BY <2>1, <2>2
  <2> QED BY <2>2, <2>3 DEF Ingest
<1>g. ASSUME NEW t \in Threads, NEW step, step \notin Ingesting, Goto(t, step),
             UNCHANGED uploaded, UNCHANGED text
      PROVE  Ingest(h)'
  <2> DEFINE s == [thread[t] EXCEPT !.pc = step]
  <2>1. Become(t, s) /\ s.pc = step
    BY <1>g, <1>t DEF Goto, Become, ThreadType
  <2> HIDE DEF s
  <2> QED BY <1>b, <1>g, <2>1
<1>i. ASSUME NEW t \in Threads, Become(t, Idle), UNCHANGED uploaded, UNCHANGED text
      PROVE  Ingest(h)'
  BY <1>i, <1>b DEF Idle, Ingesting
<1>1. ASSUME NEW t \in Threads, Request(t) PROVE Ingest(h)'
  <2> DEFINE p == ProcessOf[t]
             s == [Idle EXCEPT
                    !.pc = IF retriever[p] = NoDatabase THEN "connect" ELSE "service",
                    !.client = retriever[p]]
  <2>1. s.pc \notin Ingesting
    BY DEF Idle, Ingesting
  <2>2. Become(t, s)
    BY <1>1 DEF Request
  <2> HIDE DEF s
  <2> QED BY <1>1, <1>b, <2>1, <2>2 DEF Request, fixed
<1>2. ASSUME NEW t \in Threads, Assign(t) \/ Service(t) \/ Build(t) PROVE Ingest(h)'
  BY <1>2, <1>g DEF Assign, Service, Build, Ingesting, fixed
<1>3. ASSUME NEW t \in Threads, Connect(t) PROVE Ingest(h)'
  <2> DEFINE d == configured[ProcessOf[t]]
             s == [thread[t] EXCEPT !.client = d,
                     !.pc = IF d = Default /\ ~collection[d].exists THEN "list" ELSE "ensure"]
  <2>1. s.pc \notin Ingesting
    BY <1>t DEF ThreadType, Ingesting
  <2>2. Become(t, s)
    BY <1>3 DEF Connect
  <2> HIDE DEF s
  <2> QED BY <1>3, <1>b, <2>1, <2>2 DEF Connect, Looking, Connecting, fixed
<1>4. ASSUME NEW t \in Threads, List(t) PROVE Ingest(h)'
  <2> DEFINE s == [thread[t] EXCEPT !.todo = Databases \ {Default}, !.pc = "probe"]
  <2>1. s.pc \notin Ingesting
    BY <1>t DEF ThreadType, Ingesting
  <2>2. Become(t, s)
    BY <1>4 DEF List
  <2> HIDE DEF s
  <2> QED BY <1>4, <1>b, <2>1, <2>2 DEF List, Looking, Connecting, fixed
<1>5. ASSUME NEW t \in Threads, Probe(t) PROVE Ingest(h)'
  <2>1. CASE Goto(t, "ensure")
    BY <1>5, <1>g, <2>1 DEF Probe, Looking, Connecting, Ingesting, fixed
  <2>2. ASSUME NEW d \in thread[t].todo,
               Become(t, IF collection[d].exists
                 THEN [thread[t] EXCEPT !.client = d, !.todo = {}, !.pc = "ensure"]
                 ELSE [thread[t] EXCEPT !.todo = @ \ {d}])
        PROVE  Ingest(h)'
    <3> DEFINE s == IF collection[d].exists
                 THEN [thread[t] EXCEPT !.client = d, !.todo = {}, !.pc = "ensure"]
                 ELSE [thread[t] EXCEPT !.todo = @ \ {d}]
    <3>1. s.pc \notin Ingesting
      BY <1>5, <1>t DEF Probe, At, ThreadType, Ingesting
    <3>2. Become(t, s)
      BY <2>2
    <3> HIDE DEF s
    <3> QED BY <1>5, <1>b, <3>1, <3>2 DEF Probe, Looking, Connecting, fixed
  <2> QED BY <1>5, <2>1, <2>2 DEF Probe
<1>6. ASSUME NEW t \in Threads, Ensure(t) \/ Index(t) \/ LoadState(t) PROVE Ingest(h)'
  BY <1>6, <1>g DEF Ensure, Index, LoadState, Looking, Connecting, Ingesting, fixed
<1>7. ASSUME NEW t \in Threads, Create(t) \/ CreateIndex(t) \/ Load(t) PROVE Ingest(h)'
  BY <1>7, <1>g, <1>i DEF Create, CreateIndex, Load, Connecting, Ingesting, fixed
<1>8. ASSUME NEW t \in Threads, Answer(t) PROVE Ingest(h)'
  BY <1>8, <1>i DEF Answer, Serving, fixed
<1>9. ASSUME NEW t \in Threads, NEW u \in Uploads, Upload(t, u) PROVE Ingest(h)'
  <2> DEFINE s == [thread[t] EXCEPT !.upload = u, !.pc = "chunk"]
  <2>1. s.pc = "chunk" /\ s.upload = u /\ s.start = 0
    BY <1>9, <1>t DEF Upload, At, ThreadType, HoldsWhatItNeeds, Ingesting
  <2>2. Become(t, s)
    BY <1>9 DEF Upload
  <2> HIDE DEF s
  <2>3. text[u] \in TextType
    BY RetrievalAssumption DEF Typed, TypeOK, TextType
  <2>4. Cutting(s, text[u], chunks[h][u])
    BY <2>1, <2>3 DEF Cutting, WholeBefore, TextType
  <2> QED BY <1>9, <1>b, <2>1, <2>2, <2>4 DEF Upload, Serving, uploaded, fixed
<1>10. ASSUME NEW t \in Threads, Chunk(t) PROVE Ingest(h)'
  <2> DEFINE u == thread[t].upload
             x == text[u]
             start == thread[t].start
             end == start + x.size
             piece == [from |-> start, to |-> Least(end, x.length)]
             cut == Append(thread[t].cut, piece)
  <2>1. /\ x \in TextType /\ start \in Nat /\ thread[t].cut \in Seq(Span)
        /\ start < x.length /\ WholeBefore(x, start, Cut(thread[t]))
    BY <1>10, <1>t DEF Chunk, At, Ingesting, Cutting, ThreadType
  <2>2. piece \in Span
    BY <2>1 DEF Span, TextType, Least
  <2> HIDE DEF x, start, piece
  <2>3. IF end >= x.length
          THEN WholeBefore(x, x.length, Cut(thread[t]) \cup {piece})
          ELSE /\ NextStart(x, start) < x.length
               /\ WholeBefore(x, NextStart(x, start), Cut(thread[t]) \cup {piece})
    BY <2>1, ChunkRound DEF piece
  <2>4. UNCHANGED uploaded /\ UNCHANGED text
    BY <1>10 DEF Chunk, Serving, fixed
  <2>5. CASE end >= x.length
    <3> DEFINE s == [thread[t] EXCEPT !.cut = cut, !.pc = "embed"]
    <3>1. s.pc = "embed" /\ s.cut = cut /\ s.upload = u
      BY <1>t DEF ThreadType
    <3>2. Become(t, s)
      BY <1>10, <2>5 DEF Chunk, x, start, piece
    <3> HIDE DEF s
    <3>3. Cut(s) = Cut(thread[t]) \cup {piece}
      BY <2>1, <2>2, <3>1, CutAppend
    <3>4. Cutting(s, x, chunks[h][u])
      BY <2>3, <2>5, <3>1, <3>3 DEF Cutting
    <3> QED BY <1>b, <2>4, <3>1, <3>2, <3>4 DEF x
  <2>6. CASE ~(end >= x.length)
    <3> DEFINE s == [thread[t] EXCEPT !.cut = cut, !.start = NextStart(x, start)]
    <3>1. s.pc = "chunk" /\ s.cut = cut /\ s.upload = u /\ s.start = NextStart(x, start)
      BY <1>10, <1>t DEF Chunk, At, ThreadType
    <3>2. Become(t, s)
      BY <1>10, <2>6 DEF Chunk, x, start, piece
    <3> HIDE DEF s
    <3>3. Cut(s) = Cut(thread[t]) \cup {piece}
      BY <2>1, <2>2, <3>1, CutAppend
    <3>4. Cutting(s, x, chunks[h][u])
      BY <2>3, <2>6, <3>1, <3>3 DEF Cutting
    <3> QED BY <1>b, <2>4, <3>1, <3>2, <3>4 DEF x
  <2> QED BY <2>5, <2>6
<1>11. ASSUME NEW t \in Threads, Embed(t) PROVE Ingest(h)'
  <2> DEFINE s == [thread[t] EXCEPT !.pc = "add"]
  <2>1. /\ s.pc = "add" /\ s.cut = thread[t].cut /\ s.upload = thread[t].upload
        /\ s.added = 0
    BY <1>11, <1>t DEF Embed, At, ThreadType, HoldsWhatItNeeds
  <2>2. Become(t, s)
    BY <1>11, <1>t DEF Embed, Goto, Become
  <2> HIDE DEF s
  <2>3. Cutting(s, text[s.upload], chunks[h][s.upload])
    BY <1>11, <1>t, <2>1 DEF Embed, At, Cutting, Cut, Ingesting
  <2> QED BY <1>11, <1>b, <2>2, <2>3 DEF Embed, Serving, fixed
<1>12. ASSUME NEW t \in Threads, Add(t) PROVE Ingest(h)'
  <2> DEFINE u == thread[t].upload
             n == thread[t].added + 1
  <2>1. /\ u \in Uploads /\ thread[t].client = h /\ thread[t].cut \in Seq(Span)
        /\ thread[t].added \in Nat /\ thread[t].added < Len(thread[t].cut)
        /\ WholeBefore(text[u], text[u].length, Cut(thread[t]))
        /\ \A i \in 1..thread[t].added : thread[t].cut[i] \in chunks[h][u]
    BY <1>12, <1>t DEF Add, At, Ingesting, Cutting, HoldsWhatItNeeds, ThreadType
  <2>2. /\ chunks'[h][u] = chunks[h][u] \cup {thread[t].cut[n]}
        /\ \A v \in Uploads : chunks[h][v] \subseteq chunks'[h][v]
        /\ text' = text
    BY <1>12, <2>1 DEF Add, Serving, fixed, Typed, TypeOK
  <2>3. \A i \in 1..n : thread[t].cut[i] \in chunks'[h][u]
    BY <2>1, <2>2
  <2>4. ASSUME NEW r \in Threads, r # t, thread'[r].pc \in Ingesting
        PROVE  Cutting(thread'[r], text[thread'[r].upload], chunks'[h][thread'[r].upload])
    <3>1. thread'[r] = thread[r]
      BY <1>12, <1>e, <2>4 DEF Add
    <3>2. /\ thread[r].upload \in Uploads
          /\ Cutting(thread[r], text[thread[r].upload], chunks[h][thread[r].upload])
      BY <1>t, <2>4, <3>1
    <3> QED BY <2>2, <3>1, <3>2 DEF Cutting
  <2>5. ASSUME NEW v \in answered
        PROVE  WholeBefore(text[v], text[v].length, chunks'[h][v])
    <3>1. chunks[h][v] \subseteq chunks'[h][v]
      BY <2>2 DEF Typed, TypeOK
    <3>2. WholeBefore(text[v], text[v].length, chunks[h][v])
      BY DEF Ingest
    <3> QED BY <3>1, <3>2, MoreChunks
  <2>6. CASE n = Len(thread[t].cut)
    <3>1. Cut(thread[t]) \subseteq chunks'[h][u]
      <4>1. DOMAIN thread[t].cut = 1..n
        BY <2>1, <2>6
      <4> HIDE DEF n, u
      <4> QED BY <2>3, <4>1 DEF Cut
    <3>2. WholeBefore(text[u], text[u].length, chunks'[h][u])
      BY <2>1, <3>1, MoreChunks
    <3>3. thread'[t] = Idle /\ answered' = answered \cup {u}
      BY <1>12, <1>e, <2>6 DEF Add
    <3>4. \A r \in Threads : (thread[r].pc \in Ingesting =>
            Cutting(thread[r], text[thread[r].upload], chunks[h][thread[r].upload]))'
      BY <2>2, <2>4, <3>3 DEF Idle, Ingesting
    <3> QED BY <2>2, <2>5, <3>2, <3>3, <3>4 DEF Ingest
  <2>7. CASE n # Len(thread[t].cut)
    <3> DEFINE s == [thread[t] EXCEPT !.added = n]
    <3>1. /\ s.pc = "add" /\ s.cut = thread[t].cut /\ s.upload = u /\ s.added = n
      BY <1>12, <1>t DEF Add, At, ThreadType
    <3>2. Become(t, s) /\ answered' = answered
      BY <1>12, <2>7 DEF Add
    <3> HIDE DEF s
    <3>3. thread'[t] = s
      BY <1>e, <3>2
    <3>4. Cutting(s, text[u], chunks'[h][u])
      BY <2>1, <2>3, <3>1 DEF Cutting, Cut
    <3>5. \A r \in Threads : (thread[r].pc \in Ingesting =>
            Cutting(thread[r], text[thread[r].upload], chunks[h][thread[r].upload]))'
      BY <2>2, <2>4, <3>1, <3>3, <3>4
    <3> QED BY <2>2, <2>5, <3>2, <3>5 DEF Ingest
  <2> QED BY <2>6, <2>7
<1>13. ASSUME NEW t \in Threads, Raise(t) PROVE Ingest(h)'
  BY <1>13, <1>i DEF Raise, fixed
<1>14. ASSUME NEW p \in Processes, Crash(p) PROVE Ingest(h)'
  <2>1. chunks' = chunks /\ answered' = answered /\ text' = text
    BY <1>14 DEF Crash, uploaded, fixed
  <2>2. \A r \in Threads : thread'[r] = Idle \/ thread'[r] = thread[r]
    BY <1>14 DEF Crash
  <2>3. \A r \in Threads : (thread[r].pc \in Ingesting =>
          Cutting(thread[r], text[thread[r].upload], chunks[h][thread[r].upload]))'
    BY <1>t, <2>1, <2>2 DEF Idle, Ingesting
  <2> QED BY <2>1, <2>3 DEF Ingest
<1>15. CASE UNCHANGED vars
  BY <1>15 DEF vars, uploaded, fixed, Ingest
<1> QED
  BY <1>1, <1>2, <1>3, <1>4, <1>5, <1>6, <1>7, <1>8, <1>9, <1>10, <1>11, <1>12,
     <1>13, <1>14, <1>15 DEF Next, Step

UploadInv == \E h \in Databases : IngestInv(h)

\* The invariant of uploads holds in every reachable state.
LEMMA SpecUpload == Spec => []UploadInv
<1>1. ASSUME NEW h PROVE Init => Ingest(h)
  BY DEF Init, Ingest, Idle, Ingesting
<1>2. Init => UploadInv
  BY <1>1, TypedInit, AroundInit DEF UploadInv, IngestInv
<1>3. UploadInv /\ [Next]_vars => UploadInv'
  <2> SUFFICES ASSUME NEW h \in Databases, IngestInv(h), [Next]_vars
               PROVE  IngestInv(h)'
    BY DEF UploadInv
  <2> QED BY TypedStep, AroundStep, IngestStep DEF IngestInv
<1> QED BY <1>2, <1>3, PTL DEF Spec

\* What has been uploaded is found: whatever the chunk size and the overlap,
\* whichever processes cut, add and search, and whatever failed before.
THEOREM SpecAnsweredIsFound == Spec => []AnsweredIsFound
<1>1. UploadInv => AnsweredIsFound
  <2> SUFFICES ASSUME NEW h \in Databases, IngestInv(h),
                      NEW u \in answered, NEW p \in Processes, agent[p] # NoDatabase,
                      NEW from \in 0..text[u].length, NEW to \in 0..text[u].length,
                      from < to, to - from <= Passage(text[u])
               PROVE  Within(from, to, chunks[agent[p]][u])
    BY DEF UploadInv, AnsweredIsFound
  <2>1. agent[p] = h
    BY DEF IngestInv, Around
  <2>2. from < text[u].length
    BY RetrievalAssumption DEF IngestInv, Typed, TypeOK
  <2> QED BY <2>1, <2>2 DEF IngestInv, Ingest, WholeBefore
<1> QED BY SpecUpload, <1>1, PTL
=============================================================================
