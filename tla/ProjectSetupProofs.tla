------------------------- MODULE ProjectSetupProofs -------------------------
(***************************************************************************)
(* Theorems about ProjectSetup: the form and the background analyses only  *)
(* take steps that POST /goals allows, what GoalCreation promises holds    *)
(* for every set of callers and keys, and the form's documents can be      *)
(* found and are considered by the plan it opens.                          *)
(***************************************************************************)
EXTENDS ProjectSetup, TLAPS

\* Each caller that is past the lookup holds a key nobody has stored, and only
\* one caller is being served.
OneAtATime ==
    /\ \A c, d \in Callers : Busy(c) /\ Busy(d) => c = d
    /\ \A c \in Callers :
         call[c].pc \in {"save", "schedule", "ensure", "store_key"}
           => KnownProject(call[c].key) = NoProject

\* How far the workflow of a request has got.
Progress ==
    /\ \A c \in Callers :
         /\ call[c].pc \in {"schedule", "ensure", "store_key", "answered"}
              => call[c].id \in stored
         /\ call[c].pc \in {"ensure", "store_key", "answered"}
              => call[c].id \in scheduled
         /\ call[c].pc \in {"store_key", "answered"} => call[c].id \in rows
    /\ \A k \in Keys : keyTable[k] # NoProject
         => keyTable[k] \in stored \cap scheduled \cap rows

\* Every answer is the workflow that the key table names.
AnswersStored == \A x \in answers : keyTable[x[1]] = x[2]

CreationInv == CreationTypeOK /\ Progress

SerialInv == CreationTypeOK /\ OneAtATime /\ AnswersStored

-----------------------------------------------------------------------------
LEMMA InitCreationInv == CreationInit => CreationInv
  BY CreationAssumption DEF CreationInit, CreationInv, CreationTypeOK, Progress, NoCall,
     CallStates, Projects, NoProject

\* The types and the progress of every request survive each step.
LEMMA StepCreationInv == CreationInv /\ [CreationNext]_creationVars => CreationInv'
<1> SUFFICES ASSUME CreationInv, [CreationNext]_creationVars PROVE CreationInv'
  OBVIOUS
<1> USE CreationAssumption DEF CreationInv, CreationTypeOK, Progress, CallStates,
        Projects, NoProject, KnownProject
<1>1. ASSUME NEW c \in Callers, NEW key \in Keys \cup {NoKey}, Post(c, key)
      PROVE CreationInv'
  BY <1>1 DEF Post
<1>2. ASSUME NEW c \in Callers, LookUp(c) PROVE CreationInv'
  BY <1>2 DEF LookUp, Answer
<1>3. ASSUME NEW c \in Callers, Save(c) PROVE CreationInv'
  <2>1. PICK id \in Projects :
          /\ stored' = stored \cup {id}
          /\ call' = [call EXCEPT ![c].pc = "schedule", ![c].id = id]
    BY <1>3 DEF Save
  <2>2. UNCHANGED <<scheduled, rows, keyTable, answers>>
    BY <1>3 DEF Save
  <2>3. CreationTypeOK'
    BY <2>1, <2>2, ZenonT(40)
  <2>4. Progress'
    BY <2>1, <2>2
  <2> QED BY <2>3, <2>4
<1>4. ASSUME NEW c \in Callers, Schedule(c) PROVE CreationInv'
  BY <1>4 DEF Schedule
<1>5. ASSUME NEW c \in Callers, Ensure(c) PROVE CreationInv'
  BY <1>5 DEF Ensure
<1>6. ASSUME NEW c \in Callers, StoreKey(c) PROVE CreationInv'
  <2>1. call' \in [Callers -> [pc : CallStates, key : Keys \cup {NoKey},
                               id : Projects \cup {NoProject}]]
    BY <1>6, ZenonT(40) DEF StoreKey, Answer
  <2>2. call[c].id \in stored \cap scheduled \cap rows
    BY <1>6 DEF StoreKey
  <2>3. answers' \subseteq Keys \X Projects
    BY <1>6, <2>2 DEF StoreKey, Answer
  <2>4. /\ keyTable' \in [Keys -> Projects \cup {NoProject}]
        /\ \A k \in Keys : keyTable'[k] \in {keyTable[k], call[c].id}
    BY <1>6, <2>2 DEF StoreKey
  <2>5. \A d \in Callers : /\ call'[d].id = call[d].id
                           /\ d # c => call'[d] = call[d]
    BY <1>6 DEF StoreKey, Answer
  <2>6. UNCHANGED <<stored, scheduled, rows>>
    BY <1>6 DEF StoreKey
  <2>7. CreationTypeOK'
    BY <2>1, <2>3, <2>4, <2>6
  <2>8. Progress'
    BY <2>2, <2>4, <2>5, <2>6
  <2> QED BY <2>7, <2>8
<1>7. ASSUME NEW c \in Callers, CallRaises(c) PROVE CreationInv'
  BY <1>7 DEF CallRaises, Busy, Serving
<1>8. CASE UNCHANGED creationVars
  BY <1>8 DEF creationVars
<1> QED BY <1>1, <1>2, <1>3, <1>4, <1>5, <1>6, <1>7, <1>8 DEF CreationNext, CallStep

\* No interleaving, no failure and no number of clients hands a caller a workflow
\* that is not stored, scheduled and known to the workflow routes.
THEOREM AnsweredAreScheduled == CreationSpec => []AnsweredIsScheduled
<1>1. CreationInv => AnsweredIsScheduled
  BY DEF CreationInv, Progress, AnsweredIsScheduled
<1> QED BY InitCreationInv, StepCreationInv, <1>1, PTL DEF CreationSpec

-----------------------------------------------------------------------------
LEMMA InitSerialInv == CreationInit => SerialInv
  BY InitCreationInv DEF CreationInit, CreationInv, SerialInv, OneAtATime, AnswersStored,
     NoCall, Busy, Serving, CallStates

\* A key is looked up and stored by one request, with no other in between.
LEMMA StepSerialInv ==
  ~Concurrent /\ CreationInv /\ SerialInv /\ [CreationNext]_creationVars => SerialInv'
<1> SUFFICES ASSUME ~Concurrent, CreationInv, SerialInv, [CreationNext]_creationVars
             PROVE SerialInv'
  OBVIOUS
<1>0. CreationTypeOK'
  BY StepCreationInv DEF CreationInv
<1> USE <1>0, CreationAssumption DEF SerialInv, CreationTypeOK, OneAtATime, AnswersStored,
        Busy, Serving, CallStates, Projects, NoProject, KnownProject
<1>1. ASSUME NEW c \in Callers, NEW key \in Keys \cup {NoKey}, Post(c, key)
      PROVE SerialInv'
  BY <1>1 DEF Post
<1>2. ASSUME NEW c \in Callers, LookUp(c) PROVE SerialInv'
  BY <1>2 DEF LookUp, Answer
<1>3. ASSUME NEW c \in Callers, Save(c) PROVE SerialInv'
  BY <1>3 DEF Save
<1>4. ASSUME NEW c \in Callers, Schedule(c) PROVE SerialInv'
  BY <1>4 DEF Schedule
<1>5. ASSUME NEW c \in Callers, Ensure(c) PROVE SerialInv'
  BY <1>5 DEF Ensure
<1>6. ASSUME NEW c \in Callers, StoreKey(c) PROVE SerialInv'
  <2>1. /\ call'[c].pc = "answered"
        /\ \A d \in Callers \ {c} : call'[d] = call[d] /\ ~Busy(d)
    BY <1>6 DEF StoreKey, Answer
  <2>2. OneAtATime'
    BY <2>1
  <2>3. call[c].id \in Projects
    BY <1>6 DEF StoreKey, CreationInv, Progress
  <2>4. AnswersStored'
    BY <1>6, <2>3 DEF StoreKey, Answer
  <2> QED BY <2>2, <2>4
<1>7. ASSUME NEW c \in Callers, CallRaises(c) PROVE SerialInv'
  BY <1>7 DEF CallRaises
<1>8. CASE UNCHANGED creationVars
  BY <1>8 DEF creationVars
<1> QED BY <1>1, <1>2, <1>3, <1>4, <1>5, <1>6, <1>7, <1>8 DEF CreationNext, CallStep

\* When requests do not overlap, an Idempotency-Key is answered with one workflow,
\* whatever fails between looking it up and storing it.
THEOREM KeysNameOneProject ==
  ASSUME ~Concurrent PROVE CreationSpec => []KeyNamesOneProject
<1>1. SerialInv => KeyNamesOneProject
  BY DEF SerialInv, CreationTypeOK, AnswersStored, KeyNamesOneProject
<1>2. CreationInv /\ SerialInv /\ [CreationNext]_creationVars => SerialInv'
  BY StepSerialInv
<1> QED BY InitCreationInv, StepCreationInv, InitSerialInv, <1>1, <1>2, PTL DEF CreationSpec

-----------------------------------------------------------------------------
\* A step of the whole system is a step of POST /goals, or none of its business.
LEMMA SetupStep == [Next]_vars => [CreationNext]_creationVars
<1> SUFFICES ASSUME [Next]_vars PROVE [CreationNext]_creationVars
  OBVIOUS
<1>1. ASSUME NEW c \in Callers, CallStep(c) \/ CallRaises(c) PROVE CreationNext
  BY <1>1 DEF CreationNext
<1>2. CASE OtherClientPosts
  BY <1>2 DEF OtherClientPosts, CreationNext
<1>3. ASSUME NEW p \in Projects,
             \/ ThreadClaims(p) \/ ThreadSearches(p) \/ ThreadGraphSaves(p)
             \/ ThreadSaves(p) \/ ThreadFails(p)
      PROVE UNCHANGED creationVars
  BY <1>3 DEF ThreadClaims, ThreadSearches, ThreadGraphSaves, ThreadSaves, ThreadFails
<1>4. ASSUME NEW j \in Jobs, JobStep(j) \/ JobRaises(j) \/ ClientDrops(j)
      PROVE UNCHANGED creationVars
  BY <1>4 DEF JobStep, InsertChunk, ListDocument, RefreshSearches, RefreshGraphSaves,
     RefreshSaves, RefreshEnsuresRow, RefreshWritesRow, JobRaises, ClientDrops
<1>5. CASE Submit
  BY <1>5, SetupAssumption DEF Submit, CreationNext
<1>6. CASE FormStep \/ RequestFails
  BY <1>6 DEF FormStep, RequestFails, CreateAnswered, Poll, Fetch, UploadNext, RefreshPlan, OpenProject
<1>7. CASE UNCHANGED vars
  BY <1>7 DEF vars
<1> QED BY <1>1, <1>2, <1>3, <1>4, <1>5, <1>6, <1>7 DEF Next

\* Whatever the form, the analyses and the uploads do, seen from POST /goals it is
\* a run of GoalCreation.
THEOREM SetupCreatesGoals == Spec => CreationSpec
<1>1. Init => CreationInit
  BY DEF Init
<1>2. [Next]_vars => [CreationNext]_creationVars
  BY SetupStep
<1> QED BY <1>1, <1>2, PTL DEF Spec, CreationSpec

\* So the web client, too, is only handed workflows that will be analysed.
THEOREM SetupIsScheduled == Spec => []AnsweredIsScheduled
  BY SetupCreatesGoals, AnsweredAreScheduled, PTL

\* And the form next to clients with keys does not spoil the keys.
THEOREM SetupKeepsKeys == ASSUME ~Concurrent PROVE Spec => []KeyNamesOneProject
  BY SetupCreatesGoals, KeysNameOneProject, PTL

-----------------------------------------------------------------------------
\* The form has a project from its first poll on, and files only for it.
FormInv ==
    /\ form.step \notin {"idle", "create"} => form.id \in Projects
    /\ form.step = "create" => form.id = NoProject
    /\ form.id = NoProject => form.uploaded = {}
    /\ form.step \in {"create", "poll"} => form.polls < MaxPolls

\* The form awaits one request at most, about its own project.
AwaitedInv ==
    /\ \A j \in Jobs : job[j].awaited =>
         form.step = "wait" /\ job[j].id = form.id /\ job[j].pc # "idle"
    /\ \A i, j \in Jobs : job[i].awaited /\ job[j].awaited => i = j

\* What the chunks inserted so far, and the snapshots held, amount to.
JobFact(j) ==
    /\ job[j].id \in Projects
    /\ job[j].snap.listed \subseteq Searchable(job[j].id)
    /\ job[j].pc = "insert" =>
         /\ job[j].n < NChunks
         /\ \A f \in job[j].file : chunks[job[j].id][f] >= job[j].n
    /\ job[j].pc # "insert" => job[j].file \subseteq Searchable(job[j].id)

JobInv == \A j \in Jobs : job[j].pc # "idle" => JobFact(j)

SetupInv == TypeOK /\ Progress /\ FormInv /\ AwaitedInv /\ JobInv /\ AddedIsSearchable

LEMMA InitSetupInv == Init => SetupInv
  BY InitCreationInv, SetupAssumption, CreationAssumption
     DEF Init, CreationInv, SetupInv, TypeOK, ThreadType, JobType, FormType, ItemType,
         ExecutionStates, NewItem, IdleJob, FormSteps, JobSteps, FormInv, AwaitedInv,
         JobInv, JobFact, AddedIsSearchable, Searchable, Projects, NoProject

\* Steps of the analyses and of POST /goals: only items change, and no item gains
\* a document.
LEMMA ItemsOnly ==
  ASSUME SetupInv, CreationTypeOK', Progress', UNCHANGED <<row, chunks, job, form>>,
         thread' \in [Projects -> ThreadType], item' \in [Projects -> ItemType],
         \A p \in Projects : item'[p].listed \subseteq item[p].listed
  PROVE  SetupInv'
  BY DEF SetupInv, TypeOK, FormInv, AwaitedInv, JobInv, JobFact, AddedIsSearchable,
     Searchable

\* Chunks are never taken out again: what could be found still can.
LEMMA FullIsFull ==
  ASSUME NChunks \in Nat, chunks \in [Projects -> [Files -> 0..NChunks]],
         chunks' \in [Projects -> [Files -> 0..NChunks]],
         \A p \in Projects, f \in Files : chunks'[p][f] >= chunks[p][f]
  PROVE  \A p \in Projects : Searchable(p) \subseteq Searchable(p)'
<1> TAKE p \in Projects
<1>1. ASSUME NEW f \in Searchable(p) PROVE f \in Searchable(p)'
  <2>1. f \in Files /\ chunks[p][f] = NChunks
    BY DEF Searchable
  <2>2. chunks'[p] \in [Files -> 0..NChunks] /\ chunks'[p][f] >= chunks[p][f]
    BY <2>1
  <2>3. chunks'[p][f] \in 0..NChunks
    BY <2>1, <2>2
  <2>4. chunks'[p][f] = NChunks
    <3> DEFINE n == chunks'[p][f]
    <3>1. n \in 0..NChunks /\ n >= NChunks
      BY <2>1, <2>2, <2>3
    <3> HIDE DEF n
    <3>2. n = NChunks
      BY <3>1
    <3> QED BY <3>2 DEF n
  <2> QED BY <2>1, <2>4 DEF Searchable
<1> QED BY <1>1

\* A request that is not touched keeps what is known of it when chunks are added.
LEMMA MoreIsFound ==
  ASSUME NChunks \in Nat, chunks \in [Projects -> [Files -> 0..NChunks]],
         chunks' \in [Projects -> [Files -> 0..NChunks]],
         \A p \in Projects, f \in Files : chunks'[p][f] >= chunks[p][f],
         NEW i \in Jobs, job'[i] = job[i], job[i] \in JobType, JobFact(i)
  PROVE  JobFact(i)'
<1>1. \A p \in Projects : Searchable(p) \subseteq Searchable(p)'
  BY FullIsFull
<1>2. job[i].id \in Projects /\ job[i].n \in 0..NChunks /\ job[i].file \subseteq Files
  BY DEF JobFact, JobType
<1>3. Searchable(job[i].id)' = {f \in Files : chunks'[job[i].id][f] = NChunks}
  BY DEF Searchable
<1>4. Searchable(job[i].id) \subseteq Searchable(job[i].id)'
  BY <1>1, <1>2, <1>3 DEF Searchable
<1>5. job[i].pc = "insert" => \A f \in job[i].file : chunks'[job[i].id][f] >= job[i].n
  <2> SUFFICES ASSUME job[i].pc = "insert", NEW f \in job[i].file
               PROVE chunks'[job[i].id][f] >= job[i].n
    OBVIOUS
  <2>1. chunks[job[i].id][f] \in Nat /\ chunks'[job[i].id][f] \in Nat
    BY <1>2
  <2>2. chunks'[job[i].id][f] >= chunks[job[i].id][f] /\ chunks[job[i].id][f] >= job[i].n
    BY <1>2 DEF JobFact
  <2> QED BY <1>2, <2>1, <2>2
<1> QED BY <1>2, <1>4, <1>5 DEF JobFact

LEMMA ThreadStep ==
  ASSUME SetupInv, CreationTypeOK', Progress', UNCHANGED <<row, chunks, job, form>>,
         NEW p \in Projects, NEW s \in ItemType, NEW t \in ThreadType,
         s.listed \subseteq item[p].listed, SetItem(p, s), SetThread(p, t)
  PROVE  SetupInv'
<1>1. item \in [Projects -> ItemType] /\ thread \in [Projects -> ThreadType]
  BY DEF SetupInv, TypeOK
<1>2. item' \in [Projects -> ItemType] /\ thread' \in [Projects -> ThreadType]
  BY <1>1 DEF SetItem, SetThread
<1>3. \A q \in Projects : item'[q].listed \subseteq item[q].listed
  BY <1>1 DEF SetItem
<1> QED BY <1>2, <1>3, ItemsOnly

\* What is known of the requests survives when one of them becomes g.
LEMMA JobChanges ==
  ASSUME TypeOK, JobInv, UNCHANGED chunks, NEW j \in Jobs, NEW g \in JobType,
         job' = [job EXCEPT ![j] = g],
         g.pc # "idle" =>
           /\ g.id \in Projects
           /\ g.snap.listed \subseteq Searchable(g.id)
           /\ g.pc = "insert" =>
                /\ g.n < NChunks
                /\ \A f \in g.file : chunks[g.id][f] >= g.n
           /\ g.pc # "insert" => g.file \subseteq Searchable(g.id)
  PROVE  job' \in [Jobs -> JobType] /\ JobInv'
<1>1. job' \in [Jobs -> JobType] /\ job'[j] = g /\ \A i \in Jobs \ {j} : job'[i] = job[i]
  BY DEF TypeOK
<1>2. ASSUME NEW i \in Jobs, job'[i].pc # "idle" PROVE JobFact(i)'
  BY <1>1, <1>2 DEF JobInv, JobFact, Searchable
<1> QED BY <1>1, <1>2 DEF JobInv

\* A reply to the form records an uploaded file only once it can be found.
LEMMA ReplyInv ==
  ASSUME TypeOK, FormInv, AwaitedInv, JobInv, AddedIsSearchable, UNCHANGED chunks,
         NEW j \in Jobs, Reply(j), job[j].pc \notin {"idle", "insert"}
  PROVE  /\ job' \in [Jobs -> JobType] /\ form' \in FormType
         /\ FormInv' /\ AwaitedInv' /\ JobInv'
         /\ form'.uploaded # {} => form'.uploaded \subseteq Searchable(form'.id)
<1>1. IdleJob \in JobType /\ IdleJob.pc = "idle" /\ ~IdleJob.awaited
  BY SetupAssumption DEF IdleJob, JobType, JobSteps, ItemType, NewItem, ExecutionStates
<1>2. job' = [job EXCEPT ![j] = IdleJob]
  BY DEF Reply, Serve
<1>3. job' \in [Jobs -> JobType] /\ JobInv'
  BY <1>1, <1>2, JobChanges
<1>4. job[j].file \subseteq Files /\ job[j].file \subseteq Searchable(job[j].id)
  BY DEF JobInv, JobFact, TypeOK, JobType
<1>5. /\ job'[j] = IdleJob
      /\ \A i \in Jobs \ {j} : job'[i] = job[i]
  BY <1>2 DEF TypeOK
<1>6. CASE ~job[j].awaited
  BY <1>1, <1>3, <1>5, <1>6, ZenonT(40) DEF Reply, TypeOK, FormInv, AwaitedInv, AddedIsSearchable, IdleJob
<1>7. CASE job[j].awaited
  <2>1. /\ form' = [form EXCEPT !.uploaded = @ \cup job[j].file,
                                !.step = IF job[j].kind = "ingest" THEN "next" ELSE "opened"]
        /\ job[j].id = form.id /\ form.step = "wait" /\ form.id \in Projects
    BY <1>7 DEF Reply, AwaitedInv, FormInv
  <2>2. /\ form' \in FormType /\ form'.id = form.id /\ form'.step \in {"next", "opened"}
        /\ form'.uploaded = form.uploaded \cup job[j].file
    BY <1>4, <2>1 DEF TypeOK, FormType, FormSteps
  <2>3. FormInv'
    BY <2>1, <2>2 DEF FormInv, NoProject, Projects
  <2>4. AwaitedInv'
    BY <1>1, <1>5, <1>7 DEF AwaitedInv
  <2>5. form'.uploaded \subseteq Searchable(form'.id)
    BY <1>4, <2>1, <2>2 DEF AddedIsSearchable
  <2> QED BY <1>3, <2>2, <2>3, <2>4, <2>5
<1> QED BY <1>6, <1>7

\* An error at the form, with nothing awaited any more.
LEMMA FailInv ==
  ASSUME TypeOK, FormInv, AddedIsSearchable, FormFails, UNCHANGED chunks,
         \A i \in Jobs : ~job'[i].awaited
  PROVE  /\ form' \in FormType /\ FormInv' /\ AwaitedInv'
         /\ form'.uploaded # {} => form'.uploaded \subseteq Searchable(form'.id)
  BY DEF FormFails, TypeOK, FormType, FormSteps, FormInv, AwaitedInv, AddedIsSearchable

\* The form sends an ingest or a refresh request.
LEMMA StartInv ==
  ASSUME TypeOK, FormInv, AwaitedInv, JobInv, AddedIsSearchable, UNCHANGED chunks,
         form.step = "next", form' = [form EXCEPT !.step = "wait"],
         NEW kind \in {"ingest", "refresh"}, NEW file \in SUBSET Files,
         kind = "refresh" => file = {}, StartJob(form.id, kind, file)
  PROVE  /\ job' \in [Jobs -> JobType] /\ form' \in FormType
         /\ FormInv' /\ AwaitedInv' /\ JobInv'
<1>1. form.id \in Projects /\ item[form.id] \in ItemType /\ NChunks \in Nat \ {0}
  BY SetupAssumption DEF FormInv, TypeOK
<1>2. PICK j \in Jobs :
        job' = [job EXCEPT ![j] =
          [pc |-> IF kind = "ingest" THEN "insert" ELSE "search", id |-> form.id,
           kind |-> kind, file |-> file, n |-> 0, snap |-> item[form.id],
           awaited |-> TRUE]]
  BY DEF StartJob, Serve
<1>3. PICK g \in JobType :
        /\ job' = [job EXCEPT ![j] = g] /\ g.awaited
        /\ g.pc = IF kind = "ingest" THEN "insert" ELSE "search"
        /\ g.id = form.id /\ g.file = file /\ g.n = 0 /\ g.snap = item[form.id]
  <2> DEFINE h == [pc |-> IF kind = "ingest" THEN "insert" ELSE "search", id |-> form.id,
                   kind |-> kind, file |-> file, n |-> 0, snap |-> item[form.id],
                   awaited |-> TRUE]
  <2>1. 0 \in 0..NChunks
    BY <1>1
  <2>2. h \in JobType
    BY <1>1, <2>1 DEF JobType, JobSteps
  <2> QED BY <1>2, <2>2
<1>4. /\ g.snap.listed \subseteq Searchable(g.id)
      /\ g.n < NChunks
      /\ \A f \in g.file : chunks[g.id][f] >= g.n
      /\ g.pc # "insert" => g.file = {}
      /\ g.pc # "idle"
  <2>1. \A f \in Files : chunks[form.id][f] \in 0..NChunks
    BY <1>1 DEF TypeOK
  <2> QED BY <1>1, <1>3, <2>1 DEF AddedIsSearchable
<1>5. job' \in [Jobs -> JobType] /\ JobInv'
  BY <1>1, <1>3, <1>4, JobChanges
<1>6. form' \in FormType /\ FormInv'
  BY DEF TypeOK, FormType, FormSteps, FormInv
<1>7. AwaitedInv'
  BY <1>3, <1>4 DEF AwaitedInv, TypeOK, FormType
<1> QED BY <1>5, <1>6, <1>7

\* A request goes on to a later step, with the same file, project and client.
LEMMA JobMoves ==
  ASSUME SetupInv, CreationTypeOK', Progress', UNCHANGED <<thread, chunks, form>>,
         row' = row \/ row' \in [Projects -> ExecutionStates],
         item' \in [Projects -> ItemType],
         \A p \in Projects : item'[p].listed \subseteq Searchable(p),
         NEW j \in Jobs, NEW g \in JobType, job' = [job EXCEPT ![j] = g],
         job[j].pc \notin {"idle", "insert"}, g.pc \notin {"idle", "insert"},
         g.id = job[j].id, g.file = job[j].file, g.awaited = job[j].awaited,
         g.snap.listed = job[j].snap.listed
  PROVE  SetupInv'
<1>1. TypeOK /\ FormInv /\ AwaitedInv /\ JobInv /\ AddedIsSearchable
  BY DEF SetupInv
<1>2. g.id \in Projects /\ g.snap.listed \subseteq Searchable(g.id)
      /\ g.file \subseteq Searchable(g.id)
  BY <1>1 DEF JobInv, JobFact
<1>3. job' \in [Jobs -> JobType] /\ JobInv'
  BY <1>1, <1>2, JobChanges
<1>4. job'[j] = g /\ \A i \in Jobs \ {j} : job'[i] = job[i]
  BY <1>1 DEF TypeOK
<1>5. FormInv' /\ AwaitedInv'
  BY <1>1, <1>4 DEF FormInv, AwaitedInv
<1>6. AddedIsSearchable'
  BY <1>1 DEF AddedIsSearchable, Searchable
<1> QED BY <1>1, <1>3, <1>5, <1>6 DEF SetupInv, TypeOK

\* The form moves on by itself, with no request awaited.
LEMMA FormMoves ==
  ASSUME SetupInv, CreationTypeOK', Progress',
         UNCHANGED <<item, row, thread, chunks, job>>,
         form.step # "wait", form' \in FormType, FormInv',
         form'.uploaded = form.uploaded, form'.id = form.id \/ form.uploaded = {}
  PROVE  SetupInv'
<1>1. AwaitedInv'
  BY DEF SetupInv, AwaitedInv
<1>2. JobInv'
  BY DEF SetupInv, JobInv, JobFact, Searchable
<1>3. AddedIsSearchable'
  BY DEF SetupInv, AddedIsSearchable, Searchable
<1> QED BY <1>1, <1>2, <1>3 DEF SetupInv, TypeOK

LEMMA StepSetupInv == SetupInv /\ [Next]_vars => SetupInv'
<1> SUFFICES ASSUME SetupInv, [Next]_vars PROVE SetupInv'
  OBVIOUS
<1>a. CreationTypeOK' /\ Progress'
  BY SetupStep, StepCreationInv DEF SetupInv, TypeOK, CreationInv
<1>b. TypeOK /\ FormInv /\ AwaitedInv /\ JobInv /\ AddedIsSearchable
  BY DEF SetupInv
<1>c. Form \in Callers /\ NoProject \notin Projects
  BY SetupAssumption DEF NoProject, Projects
<1>1. ASSUME NEW c \in Callers, UNCHANGED setupVars PROVE SetupInv'
  BY <1>1, <1>a, <1>b, ItemsOnly DEF setupVars, TypeOK
<1>2. ASSUME NEW p \in Projects, ThreadClaims(p) PROVE SetupInv'
  <2> DEFINE s == [item[p] EXCEPT !.exec = IF item[p].exec = "queued" THEN "running"
                                           ELSE "failed"]
             t == [pc |-> IF item[p].exec = "queued" THEN "search" ELSE "ended",
                   found |-> {}]
  <2>1. s \in ItemType /\ t \in ThreadType /\ s.listed = item[p].listed
    BY <1>b, ZenonT(40) DEF TypeOK, ItemType, ThreadType, ExecutionStates
  <2>2. SetItem(p, s) /\ SetThread(p, t) /\ UNCHANGED <<row, chunks, job, form>>
    BY <1>2 DEF ThreadClaims, SetItem, SetThread
  <2> HIDE DEF s, t
  <2> QED BY <1>a, <2>1, <2>2, ThreadStep
<1>3. ASSUME NEW p \in Projects, ThreadSearches(p) PROVE SetupInv'
  <2> DEFINE t == [pc |-> "graph", found |-> Searchable(p)]
  <2>1. t \in ThreadType
    BY DEF ThreadType, Searchable
  <2>2. SetThread(p, t) /\ UNCHANGED <<item, row, chunks, job, form>>
    BY <1>3 DEF ThreadSearches
  <2> HIDE DEF t
  <2> QED BY <1>a, <1>b, <2>1, <2>2, ItemsOnly DEF SetThread, TypeOK
<1>4. ASSUME NEW p \in Projects, ThreadGraphSaves(p) PROVE SetupInv'
  <2> DEFINE s == [exec |-> "queued", listed |-> {}, considered |-> thread[p].found]
             t == [thread[p] EXCEPT !.pc = "save"]
  <2>1. s \in ItemType /\ t \in ThreadType /\ s.listed = {}
    BY <1>b DEF TypeOK, ItemType, ThreadType, ExecutionStates
  <2>2. SetItem(p, s) /\ SetThread(p, t) /\ UNCHANGED <<row, chunks, job, form>>
    BY <1>4 DEF ThreadGraphSaves, GraphSaves
  <2> HIDE DEF s, t
  <2> QED BY <1>a, <2>1, <2>2, ThreadStep
<1>5. ASSUME NEW p \in Projects, ThreadSaves(p) PROVE SetupInv'
  <2> DEFINE s == [exec |-> "completed", listed |-> {}, considered |-> thread[p].found]
             t == [pc |-> "ended", found |-> {}]
  <2>1. s \in ItemType /\ t \in ThreadType /\ s.listed = {}
    BY <1>b DEF TypeOK, ItemType, ThreadType, ExecutionStates
  <2>2. SetItem(p, s) /\ SetThread(p, t) /\ UNCHANGED <<row, chunks, job, form>>
    BY <1>5 DEF ThreadSaves
  <2> HIDE DEF s, t
  <2> QED BY <1>a, <2>1, <2>2, ThreadStep
<1>6. ASSUME NEW p \in Projects, ThreadFails(p) PROVE SetupInv'
  <2> DEFINE s == [item[p] EXCEPT !.exec = "failed"]
             t == [pc |-> "ended", found |-> {}]
  <2>1. s \in ItemType /\ t \in ThreadType /\ s.listed = item[p].listed
    BY <1>b, ZenonT(40) DEF TypeOK, ItemType, ThreadType, ExecutionStates
  <2>2. SetItem(p, s) /\ SetThread(p, t) /\ UNCHANGED <<row, chunks, job, form>>
    BY <1>6 DEF ThreadFails
  <2> HIDE DEF s, t
  <2> QED BY <1>a, <2>1, <2>2, ThreadStep
<1>7. ASSUME NEW j \in Jobs, InsertChunk(j) PROVE SetupInv'
  <2>0. NChunks \in Nat /\ job[j] \in JobType /\ job[j].pc = "insert"
        /\ job[j].n + 1 \in 0..NChunks /\ job[j].id \in Projects
    BY <1>7, <1>b, SetupAssumption DEF InsertChunk, TypeOK, JobType, JobInv, JobFact
  <2>1. PICK g \in JobType :
          /\ job' = [job EXCEPT ![j] = g]
          /\ g.id = job[j].id /\ g.snap = job[j].snap /\ g.n = job[j].n + 1
          /\ g.file = job[j].file /\ g.awaited = job[j].awaited
          /\ g.pc = IF g.n = NChunks THEN "list" ELSE "insert"
    <3> DEFINE h == [job[j] EXCEPT !.n = @ + 1,
                       !.pc = IF job[j].n + 1 = NChunks THEN "list" ELSE "insert"]
    <3>1. h \in JobType /\ h.id = job[j].id /\ h.snap = job[j].snap
          /\ h.n = job[j].n + 1 /\ h.file = job[j].file /\ h.awaited = job[j].awaited
          /\ h.pc = IF h.n = NChunks THEN "list" ELSE "insert"
      BY <2>0 DEF JobType, JobSteps
    <3>2. job' = [job EXCEPT ![j] = h]
      BY <1>7 DEF InsertChunk, Serve
    <3> QED BY <3>1, <3>2
  <2>2. UNCHANGED <<item, row, thread, form>>
    BY <1>7 DEF InsertChunk
  <2>3. /\ chunks' \in [Projects -> [Files -> 0..NChunks]]
        /\ \A p \in Projects, f \in Files : chunks'[p][f] >= chunks[p][f]
        /\ \A f \in g.file : chunks'[g.id][f] >= g.n
    BY <1>7, <1>b, <2>0, <2>1 DEF InsertChunk, ChunkInserted, TypeOK, JobType
  <2>4. \A p \in Projects : Searchable(p) \subseteq Searchable(p)'
    BY <1>b, <2>0, <2>3, FullIsFull DEF TypeOK
  <2>5. TypeOK'
    BY <1>a, <1>b, <2>1, <2>2, <2>3 DEF TypeOK
  <2>6. FormInv' /\ AwaitedInv'
    BY <1>b, <2>0, <2>1, <2>2 DEF FormInv, AwaitedInv, TypeOK
  <2>7. AddedIsSearchable'
    BY <1>b, <2>2, <2>4 DEF AddedIsSearchable, FormInv, TypeOK, FormType
  <2>8. ASSUME NEW i \in Jobs, job'[i].pc # "idle" PROVE JobFact(i)'
    <3>1. CASE i # j
      <4>1. job'[i] = job[i] /\ JobFact(i) /\ job[i] \in JobType
        BY <1>b, <2>1, <2>8, <3>1 DEF JobInv, TypeOK
      <4> QED BY <1>b, <2>0, <2>3, <4>1, MoreIsFound DEF TypeOK
    <3>2. CASE i = j
      <4>1. job'[i] = g
        BY <1>b, <2>1, <3>2 DEF TypeOK
      <4>2. g.id \in Projects /\ g.snap.listed \subseteq Searchable(g.id)
        BY <1>b, <2>0, <2>1 DEF JobInv, JobFact
      <4>3. g.pc = "insert" => g.n < NChunks
        BY <2>0, <2>1 DEF JobType
      <4>4. g.pc # "insert" => g.file \subseteq Searchable(g.id)'
        BY <2>0, <2>1, <2>3, <4>2 DEF Searchable, JobType
      <4> QED BY <2>3, <2>4, <4>1, <4>2, <4>3, <4>4 DEF JobFact, Searchable
    <3> QED BY <3>1, <3>2
  <2> QED BY <1>a, <2>5, <2>6, <2>7, <2>8 DEF SetupInv, JobInv
<1>8. ASSUME NEW j \in Jobs, ListDocument(j) PROVE SetupInv'
  <2>1. PICK s \in ItemType : SetItem(job[j].id, s)
                              /\ s.listed = job[j].snap.listed \cup job[j].file
    <3> DEFINE h == [job[j].snap EXCEPT !.listed = @ \cup job[j].file]
    <3>1. h \in ItemType /\ h.listed = job[j].snap.listed \cup job[j].file
      BY <1>b DEF TypeOK, JobType, ItemType
    <3>2. SetItem(job[j].id, h)
      BY <1>8 DEF ListDocument
    <3> HIDE DEF h
    <3> QED BY <3>1, <3>2
  <2>2. Reply(j) /\ UNCHANGED <<row, thread, chunks>> /\ job[j].pc = "list"
    BY <1>8 DEF ListDocument
  <2>3. /\ job' \in [Jobs -> JobType] /\ form' \in FormType
        /\ FormInv' /\ AwaitedInv' /\ JobInv'
        /\ form'.uploaded # {} => form'.uploaded \subseteq Searchable(form'.id)
    BY <1>b, <2>2, ReplyInv
  <2>4. s.listed \subseteq Searchable(job[j].id)
    BY <1>b, <2>1, <2>2 DEF JobInv, JobFact
  <2>5. TypeOK'
    BY <1>a, <1>b, <2>1, <2>2, <2>3 DEF TypeOK, SetItem
  <2>6. AddedIsSearchable'
    BY <1>b, <2>1, <2>2, <2>3, <2>4 DEF AddedIsSearchable, Searchable, SetItem, TypeOK
  <2> QED BY <1>a, <2>3, <2>5, <2>6 DEF SetupInv
<1>9. ASSUME NEW j \in Jobs, RefreshSearches(j) PROVE SetupInv'
  <2>1. PICK g \in JobType :
          /\ job' = [job EXCEPT ![j] = g] /\ g.pc = "graph"
          /\ g.id = job[j].id /\ g.file = job[j].file /\ g.awaited = job[j].awaited
          /\ g.snap.listed = job[j].snap.listed
    <3> DEFINE h == [job[j] EXCEPT !.pc = "graph",
                             !.snap.considered = Searchable(job[j].id)]
    <3>a. job[j] \in JobType /\ Searchable(job[j].id) \subseteq Files
      BY <1>b DEF TypeOK, Searchable
    <3>1. /\ h \in JobType /\ h.pc = "graph" /\ h.snap.listed = job[j].snap.listed
          /\ h.id = job[j].id /\ h.file = job[j].file /\ h.awaited = job[j].awaited
      <4> DEFINE found == Searchable(job[j].id)
                 held == job[j]
      <4>1. held \in JobType /\ found \subseteq Files
        BY <3>a
      <4> HIDE DEF found, held
      <4>2. LET g == [held EXCEPT !.pc = "graph", !.snap.considered = found]
            IN  /\ g \in JobType /\ g.pc = "graph" /\ g.snap.listed = held.snap.listed
                /\ g.id = held.id /\ g.file = held.file /\ g.awaited = held.awaited
        BY <4>1, ZenonT(40) DEF JobType, JobSteps, ItemType
      <4> QED BY <4>2 DEF found, held
    <3>2. job' = [job EXCEPT ![j] = h]
      BY <1>9 DEF RefreshSearches, Serve
    <3> HIDE DEF h
    <3> QED BY <3>1, <3>2
  <2>2. UNCHANGED <<item, row, thread, chunks, form>> /\ job[j].pc = "search"
    BY <1>9 DEF RefreshSearches
  <2>3. item' \in [Projects -> ItemType]
        /\ \A p \in Projects : item'[p].listed \subseteq Searchable(p)
    BY <1>b, <2>2 DEF TypeOK, AddedIsSearchable
  <2> QED BY <1>a, <1>b, <2>1, <2>2, <2>3, JobMoves
<1>10. ASSUME NEW j \in Jobs, RefreshGraphSaves(j) PROVE SetupInv'
  <2>1. PICK s \in ItemType : SetItem(job[j].id, s) /\ s.listed = {}
    BY <1>10, <1>b DEF RefreshGraphSaves, GraphSaves, TypeOK, JobType, ItemType, ExecutionStates
  <2>2. PICK g \in JobType :
          /\ job' = [job EXCEPT ![j] = g] /\ g.pc = "save"
          /\ g.id = job[j].id /\ g.file = job[j].file /\ g.awaited = job[j].awaited
          /\ g.snap.listed = job[j].snap.listed
    <3> DEFINE h == [job[j] EXCEPT !.pc = "save"]
    <3>1. /\ h \in JobType /\ h.pc = "save" /\ h.snap.listed = job[j].snap.listed
          /\ h.id = job[j].id /\ h.file = job[j].file /\ h.awaited = job[j].awaited
      BY <1>b DEF TypeOK, JobType, JobSteps
    <3>2. job' = [job EXCEPT ![j] = h]
      BY <1>10 DEF RefreshGraphSaves, Serve
    <3> HIDE DEF h
    <3> QED BY <3>1, <3>2
  <2>3. UNCHANGED <<row, thread, chunks, form>> /\ job[j].pc = "graph"
    BY <1>10 DEF RefreshGraphSaves
  <2>4. item' \in [Projects -> ItemType]
        /\ \A p \in Projects : item'[p].listed \subseteq Searchable(p)
    BY <1>b, <2>1 DEF SetItem, TypeOK, AddedIsSearchable
  <2> QED BY <1>a, <1>b, <2>2, <2>3, <2>4, JobMoves
<1>11. ASSUME NEW j \in Jobs, RefreshSaves(j) PROVE SetupInv'
  <2>1. PICK s \in ItemType : SetItem(job[j].id, s) /\ s.listed = job[j].snap.listed
    <3> DEFINE h == [job[j].snap EXCEPT !.exec = "completed"]
    <3>1. h \in ItemType /\ h.listed = job[j].snap.listed
      BY <1>b, ZenonT(40) DEF TypeOK, JobType, ItemType, ExecutionStates
    <3>2. SetItem(job[j].id, h)
      BY <1>11 DEF RefreshSaves
    <3> HIDE DEF h
    <3> QED BY <3>1, <3>2
  <2>2. PICK g \in JobType :
          /\ job' = [job EXCEPT ![j] = g] /\ g.pc = "ensure"
          /\ g.id = job[j].id /\ g.file = job[j].file /\ g.awaited = job[j].awaited
          /\ g.snap.listed = job[j].snap.listed
    <3> DEFINE h == [job[j] EXCEPT !.pc = "ensure"]
    <3>1. /\ h \in JobType /\ h.pc = "ensure" /\ h.snap.listed = job[j].snap.listed
          /\ h.id = job[j].id /\ h.file = job[j].file /\ h.awaited = job[j].awaited
      BY <1>b DEF TypeOK, JobType, JobSteps
    <3>2. job' = [job EXCEPT ![j] = h]
      BY <1>11 DEF RefreshSaves, Serve
    <3> HIDE DEF h
    <3> QED BY <3>1, <3>2
  <2>3. UNCHANGED <<row, thread, chunks, form>> /\ job[j].pc = "save"
    BY <1>11 DEF RefreshSaves
  <2>4. s.listed \subseteq Searchable(job[j].id)
    BY <1>b, <2>1, <2>3 DEF JobInv, JobFact
  <2>5. item' \in [Projects -> ItemType]
        /\ \A p \in Projects : item'[p].listed \subseteq Searchable(p)
    BY <1>b, <2>1, <2>4 DEF SetItem, TypeOK, AddedIsSearchable
  <2> QED BY <1>a, <1>b, <2>2, <2>3, <2>5, JobMoves
<1>11a. ASSUME NEW j \in Jobs, RefreshEnsuresRow(j) PROVE SetupInv'
  <2>1. row' \in [Projects -> ExecutionStates]
    <3>1. job[j].snap.exec \in ExecutionStates
      BY <1>b DEF TypeOK, JobType, ItemType
    <3> QED BY <1>11a, <1>b, <3>1 DEF RefreshEnsuresRow, TypeOK
  <2>2. PICK g \in JobType :
          /\ job' = [job EXCEPT ![j] = g] /\ g.pc = "row"
          /\ g.id = job[j].id /\ g.file = job[j].file /\ g.awaited = job[j].awaited
          /\ g.snap.listed = job[j].snap.listed
    <3> DEFINE h == [job[j] EXCEPT !.pc = "row"]
    <3>1. /\ h \in JobType /\ h.pc = "row" /\ h.snap.listed = job[j].snap.listed
          /\ h.id = job[j].id /\ h.file = job[j].file /\ h.awaited = job[j].awaited
      BY <1>b DEF TypeOK, JobType, JobSteps
    <3>2. job' = [job EXCEPT ![j] = h]
      BY <1>11a DEF RefreshEnsuresRow, Serve
    <3> HIDE DEF h
    <3> QED BY <3>1, <3>2
  <2>3. UNCHANGED <<item, thread, chunks, form>> /\ job[j].pc = "ensure"
    BY <1>11a DEF RefreshEnsuresRow
  <2>4. item' \in [Projects -> ItemType]
        /\ \A p \in Projects : item'[p].listed \subseteq Searchable(p)
    BY <1>b, <2>3 DEF TypeOK, AddedIsSearchable
  <2> QED BY <1>a, <1>b, <2>1, <2>2, <2>3, <2>4, JobMoves
<1>12. ASSUME NEW j \in Jobs, RefreshWritesRow(j) PROVE SetupInv'
  <2>1. Reply(j) /\ UNCHANGED <<item, thread, chunks>> /\ job[j].pc = "row"
        /\ row' \in [Projects -> ExecutionStates]
    BY <1>12, <1>b DEF RefreshWritesRow, TypeOK, ExecutionStates
  <2>2. /\ job' \in [Jobs -> JobType] /\ form' \in FormType
        /\ FormInv' /\ AwaitedInv' /\ JobInv'
        /\ form'.uploaded # {} => form'.uploaded \subseteq Searchable(form'.id)
    BY <1>b, <2>1, ReplyInv
  <2> QED BY <1>a, <1>b, <2>1, <2>2 DEF SetupInv, TypeOK, AddedIsSearchable, Searchable
<1>13. ASSUME NEW j \in Jobs, JobRaises(j) PROVE SetupInv'
  <2>1. IdleJob \in JobType /\ IdleJob.pc = "idle" /\ ~IdleJob.awaited
    BY SetupAssumption DEF IdleJob, JobType, JobSteps, ItemType, NewItem, ExecutionStates
  <2>2. UNCHANGED <<item, row, thread, chunks>> /\ job' = [job EXCEPT ![j] = IdleJob]
    BY <1>13 DEF JobRaises, Serve
  <2>3. job' \in [Jobs -> JobType] /\ JobInv'
    BY <1>b, <2>1, <2>2, JobChanges
  <2>4. job'[j] = IdleJob /\ \A i \in Jobs \ {j} : job'[i] = job[i]
    BY <1>b, <2>2 DEF TypeOK
  <2>5. /\ form' \in FormType /\ FormInv' /\ AwaitedInv'
        /\ form'.uploaded # {} => form'.uploaded \subseteq Searchable(form'.id)
    <3>1. CASE job[j].awaited
      <4>1. FormFails /\ \A i \in Jobs : ~job'[i].awaited
        BY <1>13, <1>b, <2>1, <2>4, <3>1 DEF JobRaises, AwaitedInv
      <4> QED BY <1>b, <2>2, <4>1, FailInv
    <3>2. CASE ~job[j].awaited
      <4>1. form' = form
        BY <1>13, <3>2 DEF JobRaises
      <4> QED BY <1>b, <2>1, <2>2, <2>4, <4>1 DEF TypeOK, FormInv, AwaitedInv,
              AddedIsSearchable, Searchable
    <3> QED BY <3>1, <3>2
  <2> QED BY <1>a, <1>b, <2>2, <2>3, <2>5 DEF SetupInv, TypeOK, AddedIsSearchable, Searchable
<1>14. ASSUME NEW j \in Jobs, ClientDrops(j) PROVE SetupInv'
  <2>1. PICK g \in JobType : job' = [job EXCEPT ![j] = g] /\ ~g.awaited
          /\ g = [job[j] EXCEPT !.awaited = FALSE]
    BY <1>14, <1>b DEF ClientDrops, Serve, TypeOK, JobType
  <2>2. UNCHANGED <<item, row, thread, chunks>> /\ FormFails /\ job[j].awaited
    BY <1>14 DEF ClientDrops
  <2>3. job' \in [Jobs -> JobType] /\ JobInv'
    <3>1. g.pc = job[j].pc /\ g.id = job[j].id /\ g.snap = job[j].snap /\ g.n = job[j].n
          /\ g.file = job[j].file
      BY <1>b, <2>1 DEF TypeOK, JobType
    <3>2. job[j].pc # "idle" => JobFact(j)
      BY <1>b DEF JobInv
    <3> QED BY <1>b, <2>1, <2>2, <3>1, <3>2, JobChanges DEF JobFact
  <2>4. \A i \in Jobs : ~job'[i].awaited
    BY <1>b, <2>1, <2>2 DEF AwaitedInv, TypeOK
  <2>5. /\ form' \in FormType /\ FormInv' /\ AwaitedInv'
        /\ form'.uploaded # {} => form'.uploaded \subseteq Searchable(form'.id)
    BY <1>b, <2>2, <2>4, FailInv
  <2> QED BY <1>a, <1>b, <2>2, <2>3, <2>5 DEF SetupInv, TypeOK, AddedIsSearchable, Searchable
<1>15. CASE Submit
  <2>1. form' \in FormType /\ FormInv' /\ form'.uploaded = form.uploaded
        /\ form'.id = form.id /\ form.step = "idle"
    <3>1. form.tries + 1 \in 0..MaxTries /\ 0 \in 0..MaxPolls /\ 0 < MaxPolls
      BY <1>15, <1>b, SetupAssumption DEF Submit, TypeOK, FormType
    <3>2. form.id \in Projects \/ form.id = NoProject
      BY <1>b DEF TypeOK, FormType
    <3>3. form' \in FormType
      BY <1>15, <1>b, <3>1 DEF Submit, TypeOK, FormType, FormSteps
    <3>4. FormInv'
      BY <1>15, <1>b, <3>1, <3>2 DEF Submit, FormInv, TypeOK, FormType
    <3> QED BY <1>15, <1>b, <3>3, <3>4 DEF Submit, TypeOK, FormType
  <2>2. UNCHANGED <<item, row, thread, chunks, job>>
    BY <1>15 DEF Submit
  <2> QED BY <1>a, <1>b, <2>1, <2>2, FormMoves
<1>16. CASE CreateAnswered
  <2>1. /\ UNCHANGED <<item, row, thread, chunks, job>>
        /\ form.step = "create"
        /\ call[Form].pc = "answered" => call[Form].id \in Projects
    BY <1>16, <1>b, <1>c DEF CreateAnswered, SetupInv, Progress, TypeOK, CreationTypeOK
  <2>2. form' \in FormType /\ FormInv' /\ form'.uploaded = form.uploaded
        /\ (form'.id = form.id \/ form.uploaded = {})
    <3>1. form.id = NoProject /\ form.uploaded = {}
      BY <1>b, <2>1 DEF FormInv
    <3>2. CASE call[Form].pc = "answered"
      <4>1. form' = [form EXCEPT !.id = call[Form].id, !.step = "poll"]
            /\ call[Form].id \in Projects
        BY <1>16, <2>1, <3>2 DEF CreateAnswered
      <4>2. form.polls < MaxPolls
        BY <1>b, <2>1 DEF FormInv
      <4> QED BY <1>b, <1>c, <3>1, <4>1, <4>2 DEF TypeOK, FormType, FormSteps, FormInv
    <3>3. CASE call[Form].pc # "answered"
      <4>1. form' = [form EXCEPT !.step = "idle"]
        BY <1>16, <3>3 DEF CreateAnswered
      <4> QED BY <1>b, <3>1, <4>1 DEF TypeOK, FormType, FormSteps, FormInv
    <3> QED BY <3>2, <3>3
  <2> QED BY <1>a, <1>b, <2>1, <2>2, FormMoves
<1>17. CASE Poll \/ Fetch \/ OpenProject \/ RequestFails
  <2>1. UNCHANGED <<item, row, thread, chunks, job>> /\ form.step # "wait"
    BY <1>17 DEF Poll, Fetch, OpenProject, AllUploaded, RequestFails
  <2>2. form' \in FormType /\ FormInv' /\ form'.uploaded = form.uploaded /\ form'.id = form.id
    <3>1. CASE Poll
      <4>1. /\ form.polls + 1 \in 0..MaxPolls
            /\ form.polls + 1 # MaxPolls => form.polls + 1 < MaxPolls
            /\ form.step = "poll"
        BY <3>1, <1>b, SetupAssumption DEF Poll, TypeOK, FormType, FormInv
      <4>2. (item[form.id].exec \in Final) \in BOOLEAN
        OBVIOUS
      <4>3. form' \in FormType /\ form'.uploaded = form.uploaded /\ form'.id = form.id
        BY <3>1, <1>b, <4>1, <4>2 DEF Poll, TypeOK, FormType, FormSteps
      <4>4. FormInv'
        BY <3>1, <1>b, <4>1 DEF Poll, TypeOK, FormType, FormInv
      <4> QED BY <4>3, <4>4
    <3>2. CASE Fetch
      BY <3>2, <1>b DEF Fetch, TypeOK, FormType, FormSteps, FormInv
    <3>3. CASE OpenProject
      BY <3>3, <1>b DEF OpenProject, AllUploaded, TypeOK, FormType, FormSteps, FormInv
    <3>4. CASE RequestFails
      BY <3>4, <1>b DEF RequestFails, FormFails, TypeOK, FormType, FormSteps, FormInv
    <3> QED BY <1>17, <3>1, <3>2, <3>3, <3>4
  <2> QED BY <1>a, <1>b, <2>1, <2>2, FormMoves
<1>18. CASE UploadNext \/ RefreshPlan
  <2>1. PICK kind \in {"ingest", "refresh"}, file \in SUBSET Files :
          StartJob(form.id, kind, file) /\ (kind = "refresh" => file = {})
    <3>1. CASE UploadNext
      <4>1. PICK f \in Files : StartJob(form.id, "ingest", {f})
        BY <1>b, <3>1 DEF UploadNext, TypeOK, FormType
      <4> QED BY <4>1
    <3>2. CASE RefreshPlan
      BY <3>2 DEF RefreshPlan
    <3> QED BY <1>18, <3>1, <3>2
  <2>2. UNCHANGED <<item, row, thread, chunks>> /\ form.step = "next"
        /\ form' = [form EXCEPT !.step = "wait"]
    BY <1>18 DEF UploadNext, RefreshPlan, AllUploaded
  <2>3. /\ job' \in [Jobs -> JobType] /\ form' \in FormType
        /\ FormInv' /\ AwaitedInv' /\ JobInv'
    BY <1>b, <2>1, <2>2, StartInv
  <2>4. AddedIsSearchable'
    BY <1>b, <2>2 DEF AddedIsSearchable, Searchable, TypeOK, FormType
  <2> QED BY <1>a, <1>b, <2>2, <2>3, <2>4 DEF SetupInv, TypeOK
<1>19. CASE UNCHANGED vars
  BY <1>19, <1>1, <1>c DEF vars
<1> QED BY <1>1, <1>2, <1>3, <1>4, <1>5, <1>6, <1>7, <1>8, <1>9, <1>10, <1>11, <1>11a,
       <1>12, <1>13, <1>14, <1>15, <1>16, <1>17, <1>18, <1>19
    DEF Next, OtherClientPosts, JobStep, FormStep

\* Types, for every number of callers, projects, documents, chunks and requests.
THEOREM SetupTypesCorrect == Spec => []TypeOK
<1>1. SetupInv => TypeOK
  BY DEF SetupInv
<1> QED BY InitSetupInv, StepSetupInv, <1>1, PTL DEF Spec

\* However uploads fail, are dropped, repeated or overlap with analyses, a document
\* shown as added, or listed by its project, can be found in full.
THEOREM AddedDocumentsAreFound == Spec => []AddedIsSearchable
<1>1. SetupInv => AddedIsSearchable
  BY DEF SetupInv
<1> QED BY InitSetupInv, StepSetupInv, <1>1, PTL DEF Spec

-----------------------------------------------------------------------------
\* The kind of a request is told by what it does.
KindInv ==
    \A j \in Jobs : /\ job[j].pc \in {"insert", "list"} => job[j].kind = "ingest"
                    /\ job[j].pc \in {"search", "graph", "save", "ensure", "row"}
                         => job[j].kind = "refresh"

\* Up to the end of the first run's polling nothing has been requested, so only
\* the end of an analysis can have ended a workflow.
BeforeUploads ==
    \/ form.tries = 0
    \/ form.tries = 1 /\ form.step \in {"create", "poll", "fetch"}

FreshInv ==
    /\ form.tries = 0 => form.step = "idle"
    /\ BeforeUploads =>
         /\ form.uploaded = {}
         /\ \A j \in Jobs : job[j].pc = "idle"
         /\ \A p \in Projects : item[p].exec \in Final => thread[p].pc = "ended"

\* From there on the first run has at most the request it waits for, and every
\* file of the form was left to upload.
FirstRunInv ==
    form.tries = 1 =>
      /\ form.step \in {"next", "wait", "opened"} =>
           /\ form.remaining = Files
           /\ \A j \in Jobs : job[j].pc # "idle" => job[j].awaited
      /\ form.ended /\ form.step \in {"fetch", "next", "wait", "opened"}
           => thread[form.id].pc = "ended"

\* Its refresh was asked for after the last upload, and finds them all.
RefreshInv ==
    form.tries = 1 /\ form.step = "wait" =>
      \A j \in Jobs :
        /\ job[j].pc \in {"search", "graph", "save", "ensure", "row"} => form.uploaded = Files
        /\ job[j].pc \in {"graph", "save", "ensure", "row"} => job[j].snap.considered = Files
        /\ job[j].pc \in {"ensure", "row"} /\ form.ended => item[form.id].considered = Files

FirstTryInv == KindInv /\ FreshInv /\ FirstRunInv /\ RefreshInv /\ FirstTryIsCurrent

LEMMA InitFirstTryInv == Init => FirstTryInv
  BY DEF Init, FirstTryInv, KindInv, FreshInv, BeforeUploads, FirstRunInv, RefreshInv,
     FirstTryIsCurrent, IdleJob, NewItem, Final, Projects

\* An analysis takes a step: nobody but its own project notices, and it is not
\* one that has ended.
LEMMA AnalysisKeepsFirstTry ==
  ASSUME SetupInv, FirstTryInv, UNCHANGED <<chunks, job, form>>, NEW p \in Projects,
         thread[p].pc # "ended",
         \A q \in Projects \ {p} : item'[q] = item[q] /\ thread'[q] = thread[q],
         BeforeUploads => (item'[p].exec \in Final => thread'[p].pc = "ended")
  PROVE  FirstTryInv'
<1>1. KindInv'
  BY DEF FirstTryInv, KindInv
<1>2. FreshInv'
  BY DEF FirstTryInv, FreshInv, BeforeUploads
<1>3. ASSUME form.tries = 1, form.ended, form.step \in {"fetch", "next", "wait", "opened"}
      PROVE item'[form.id] = item[form.id] /\ thread'[form.id] = thread[form.id]
  <2>1. thread[form.id].pc = "ended"
    BY <1>3 DEF FirstTryInv, FirstRunInv
  <2>2. form.id \in Projects
    BY <1>3 DEF SetupInv, FormInv
  <2> QED BY <2>1, <2>2
<1>4. FirstRunInv'
  BY <1>3 DEF FirstTryInv, FirstRunInv
<1>5. RefreshInv' /\ FirstTryIsCurrent'
  BY <1>3 DEF FirstTryInv, RefreshInv, FirstTryIsCurrent
<1> QED BY <1>1, <1>2, <1>4, <1>5 DEF FirstTryInv

\* A request is only served before the first run's uploads are over when that run
\* waits for it, and it is about its project.
LEMMA ServedIsAwaited ==
  ASSUME SetupInv, FirstTryInv, NEW j \in Jobs, job[j].pc # "idle"
  PROVE  /\ ~BeforeUploads
         /\ form.tries = 1 /\ form.step \in {"next", "wait", "opened"} =>
              /\ form.step = "wait" /\ job[j].awaited /\ job[j].id = form.id
              /\ \A i \in Jobs \ {j} : job[i].pc = "idle"
<1>1. ~BeforeUploads
  BY DEF FirstTryInv, FreshInv
<1>2. form.tries = 1 /\ form.step \in {"next", "wait", "opened"} => job[j].awaited
  BY DEF FirstTryInv, FirstRunInv
<1>3. form.tries = 1 /\ form.step \in {"next", "wait", "opened"} =>
        \A i \in Jobs \ {j} : job[i].pc = "idle"
  BY <1>2 DEF FirstTryInv, FirstRunInv, SetupInv, AwaitedInv
<1> QED BY <1>1, <1>2, <1>3 DEF SetupInv, AwaitedInv

\* A request being served goes on, and no answer is sent yet.
LEMMA ServiceKeepsFirstTry ==
  ASSUME SetupInv, FirstTryInv, UNCHANGED <<thread, form>>,
         NEW j \in Jobs, job[j].pc # "idle", NEW g, job' = [job EXCEPT ![j] = g],
         g.kind = job[j].kind, g.awaited = job[j].awaited, g.pc # "idle",
         g.pc \in {"insert", "list"} => job[j].pc \in {"insert", "list"},
         g.pc \in {"search", "graph", "save", "ensure", "row"} =>
           job[j].pc \in {"search", "graph", "save", "ensure", "row"},
         form.tries = 1 /\ form.step = "wait" =>
           /\ g.pc \in {"graph", "save", "ensure", "row"} => g.snap.considered = Files
           /\ g.pc \in {"ensure", "row"} /\ form.ended => item'[form.id].considered = Files
  PROVE  FirstTryInv'
<1>1. job'[j] = g /\ \A i \in Jobs \ {j} : job'[i] = job[i]
  BY DEF SetupInv, TypeOK
<1>2. KindInv'
  BY <1>1 DEF FirstTryInv, KindInv
<1>3. ~BeforeUploads /\ ~BeforeUploads'
  BY ServedIsAwaited DEF BeforeUploads
<1>4. FreshInv'
  BY <1>3 DEF FirstTryInv, FreshInv, BeforeUploads
<1>5. FirstRunInv'
  BY <1>1 DEF FirstTryInv, FirstRunInv
<1>6. form.tries = 1 => form.step # "opened"
  BY ServedIsAwaited
<1>7. RefreshInv'
  <2> SUFFICES ASSUME form.tries = 1, form.step = "wait", NEW i \in Jobs
               PROVE /\ job'[i].pc \in {"search", "graph", "save", "ensure", "row"} => form.uploaded = Files
                     /\ job'[i].pc \in {"graph", "save", "ensure", "row"} => job'[i].snap.considered = Files
                     /\ job'[i].pc \in {"ensure", "row"} /\ form.ended => item'[form.id].considered = Files
    BY DEF RefreshInv
  <2>1. CASE i = j
    BY <1>1, <2>1 DEF FirstTryInv, RefreshInv
  <2>2. CASE i # j
    <3>1. job'[i].pc = "idle"
      BY <1>1, <2>2, ServedIsAwaited
    <3> QED BY <3>1
  <2> QED BY <2>1, <2>2
<1>8. FirstTryIsCurrent'
  BY <1>6 DEF FirstTryIsCurrent
<1> QED BY <1>2, <1>4, <1>5, <1>7, <1>8 DEF FirstTryInv

\* A request ends, and the form hears of it if it was waiting.
LEMMA RequestEndsFirstTry ==
  ASSUME SetupInv, FirstTryInv, UNCHANGED <<thread, chunks>>, NEW j \in Jobs,
         job[j].pc # "idle", job' = [job EXCEPT ![j] = IdleJob],
         form'.tries = form.tries, form'.id = form.id,
         form'.remaining = form.remaining, form'.ended = form.ended,
         \/ form'.step \in {"idle", form.step}
         \/ form'.step \in {"next", "opened"} /\ job[j].awaited,
         form.tries = 1 /\ form'.step = "opened" /\ form.ended =>
           item'[form.id].considered = Files
  PROVE  FirstTryInv'
<1>1. job'[j] = IdleJob /\ \A i \in Jobs \ {j} : job'[i] = job[i]
  BY DEF SetupInv, TypeOK
<1>2. IdleJob.pc = "idle"
  BY DEF IdleJob
<1>3. KindInv'
  BY <1>1, <1>2 DEF FirstTryInv, KindInv
<1>4. ~BeforeUploads /\ ~BeforeUploads'
  BY ServedIsAwaited DEF BeforeUploads
<1>5. FreshInv'
  BY <1>4 DEF FreshInv, BeforeUploads
<1>6. ASSUME form.tries = 1, form'.step \in {"next", "wait", "opened"}
      PROVE form.step = "wait" /\ \A i \in Jobs : job'[i].pc = "idle"
  <2>1. form.step \in {"next", "wait", "opened"}
    BY <1>6 DEF SetupInv, AwaitedInv
  <2> QED BY <1>1, <1>2, <1>6, <2>1, ServedIsAwaited
<1>7. FirstRunInv'
  BY <1>4, <1>6 DEF FirstTryInv, FirstRunInv, BeforeUploads
<1>8. RefreshInv'
  BY <1>6 DEF RefreshInv
<1>9. FirstTryIsCurrent'
  BY DEF FirstTryIsCurrent
<1> QED BY <1>3, <1>5, <1>7, <1>8, <1>9 DEF FirstTryInv

\* The form moves on by itself: a new run, or the next step of the one there is.
LEMMA FormKeepsFirstTry ==
  ASSUME SetupInv, FirstTryInv, UNCHANGED <<item, thread, job>>,
         form.step # "wait", form'.step # "wait",
         \/ form'.tries = form.tries + 1 /\ form'.step \in {"create", "poll"}
            /\ form.step = "idle" /\ form'.uploaded = form.uploaded
         \/ form'.tries = form.tries /\ form'.step = "idle" /\ form.tries # 0
         \/ /\ form'.tries = form.tries /\ BeforeUploads /\ form'.uploaded = form.uploaded
            /\ form.tries # 0
            /\ form'.step \in {"create", "poll", "fetch"}
            /\ form'.step = "fetch" /\ form'.ended => item[form'.id].exec \in Final
                                                      /\ form'.id \in Projects
         \/ /\ form'.tries = form.tries /\ form'.id = form.id /\ form'.ended = form.ended
            /\ form.step \in {"fetch", "next"} /\ form'.step \in {"next", "opened"}
            /\ form.tries = 1 =>
                 form'.remaining = IF form.step = "fetch" THEN Files \ form.uploaded
                                                          ELSE form.remaining
            /\ form'.step = "opened" => form'.remaining = {} /\ form.step = "next"
  PROVE  FirstTryInv'
<1>0. form.tries \in Nat /\ \A p \in Projects : item[p].considered \subseteq Files
  BY SetupAssumption DEF SetupInv, TypeOK, FormType, ItemType
<1>1. KindInv'
  BY DEF FirstTryInv, KindInv
<1>2. FreshInv'
  BY <1>0 DEF FirstTryInv, FreshInv, BeforeUploads
<1>3. \A j \in Jobs : ~job[j].awaited
  BY DEF SetupInv, AwaitedInv
<1>4. FirstRunInv'
  <2> SUFFICES ASSUME form'.tries = 1 PROVE FirstRunInv'
    BY DEF FirstRunInv
  <2>1. CASE form'.step \in {"idle", "create", "poll"}
    BY <2>1 DEF FirstRunInv
  <2>2. CASE form'.step = "fetch"
    BY <2>2 DEF FirstRunInv, FirstTryInv, FreshInv
  <2>3. CASE form'.step \in {"next", "opened"}
    <3>1. form.tries = 1 /\ form'.id = form.id /\ form'.ended = form.ended
          /\ form.step \in {"fetch", "next"}
      BY <1>0, <2>3
    <3>2. form'.remaining = Files
      BY <1>0, <2>3, <3>1 DEF FirstTryInv, FirstRunInv, FreshInv, BeforeUploads
    <3>3. \A j \in Jobs : job[j].pc = "idle"
      BY <1>3, <3>1 DEF FirstTryInv, FirstRunInv, FreshInv, BeforeUploads
    <3> QED BY <2>3, <3>1, <3>2, <3>3 DEF FirstTryInv, FirstRunInv
  <2>4. form'.step \in {"idle", "create", "poll", "fetch", "next", "opened"}
    OBVIOUS
  <2> QED BY <2>1, <2>2, <2>3, <2>4
<1>5. RefreshInv'
  BY DEF RefreshInv
<1>6. FirstTryIsCurrent'
  <2> SUFFICES ASSUME form'.step = "opened", form'.tries = 1
               PROVE item[form'.id].considered = Files
    BY DEF FirstTryIsCurrent
  <2>1. form'.remaining = Files /\ form'.remaining = {}
    BY <1>0, <1>4 DEF FirstRunInv
  <2>2. form'.id \in Projects
    BY DEF SetupInv, FormInv
  <2> QED BY <1>0, <2>1, <2>2
<1> QED BY <1>1, <1>2, <1>4, <1>5, <1>6 DEF FirstTryInv

LEMMA StepFirstTryInv == SetupInv /\ FirstTryInv /\ [Next]_vars => FirstTryInv'
<1> SUFFICES ASSUME SetupInv, FirstTryInv, [Next]_vars PROVE FirstTryInv'
  OBVIOUS
<1>a. /\ item \in [Projects -> ItemType] /\ thread \in [Projects -> ThreadType]
      /\ job \in [Jobs -> JobType] /\ form \in FormType
  BY DEF SetupInv, TypeOK
<1>b. KindInv
  BY DEF FirstTryInv
<1>1. ASSUME UNCHANGED setupVars PROVE FirstTryInv'
  BY <1>1 DEF setupVars, FirstTryInv, KindInv, FreshInv, BeforeUploads, FirstRunInv,
     RefreshInv, FirstTryIsCurrent
<1>2. ASSUME NEW p \in Projects,
             \/ ThreadClaims(p) \/ ThreadSearches(p) \/ ThreadGraphSaves(p)
             \/ ThreadSaves(p) \/ ThreadFails(p)
      PROVE FirstTryInv'
  <2>1. UNCHANGED <<chunks, job, form>> /\ thread[p].pc # "ended"
    BY <1>2 DEF ThreadClaims, ThreadSearches, ThreadGraphSaves, ThreadSaves, ThreadFails
  <2>2. \A q \in Projects \ {p} : item'[q] = item[q] /\ thread'[q] = thread[q]
    BY <1>2, <1>a DEF ThreadClaims, ThreadSearches, ThreadGraphSaves, ThreadSaves,
       ThreadFails, GraphSaves, SetItem, SetThread
  <2>3. BeforeUploads => (item'[p].exec \in Final => thread'[p].pc = "ended")
    <3>1. BeforeUploads => item[p].exec \notin Final
      BY <2>1 DEF FirstTryInv, FreshInv
    <3>2. item[p] \in ItemType /\ thread[p] \in ThreadType
      BY <1>a
    <3>3. CASE ThreadClaims(p)
      BY <1>a, <3>2, <3>3 DEF ThreadClaims, SetItem, SetThread, Final, ItemType
    <3>4. CASE ThreadSearches(p)
      BY <3>1, <3>4 DEF ThreadSearches
    <3>5. CASE ThreadGraphSaves(p)
      BY <1>a, <3>5 DEF ThreadGraphSaves, GraphSaves, SetItem, Final
    <3>6. CASE ThreadSaves(p) \/ ThreadFails(p)
      BY <1>a, <3>6 DEF ThreadSaves, ThreadFails, SetThread
    <3> QED BY <1>2, <3>3, <3>4, <3>5, <3>6
  <2> QED BY <2>1, <2>2, <2>3, AnalysisKeepsFirstTry
<1>3. ASSUME NEW j \in Jobs, InsertChunk(j) PROVE FirstTryInv'
  <2> DEFINE g == [job[j] EXCEPT !.n = @ + 1,
                     !.pc = IF job[j].n + 1 = NChunks THEN "list" ELSE "insert"]
  <2>1. job' = [job EXCEPT ![j] = g] /\ UNCHANGED <<thread, form>> /\ job[j].pc = "insert"
    BY <1>3 DEF InsertChunk, Serve
  <2>2. g.kind = job[j].kind /\ g.awaited = job[j].awaited /\ g.pc \in {"insert", "list"}
    BY <1>a DEF JobType
  <2> HIDE DEF g
  <2> QED BY <2>1, <2>2, ServiceKeepsFirstTry
<1>4. ASSUME NEW j \in Jobs, RefreshSearches(j) PROVE FirstTryInv'
  <2> DEFINE g == [job[j] EXCEPT !.pc = "graph",
                     !.snap.considered = Searchable(job[j].id)]
  <2>1. job' = [job EXCEPT ![j] = g] /\ UNCHANGED <<thread, form>> /\ job[j].pc = "search"
    BY <1>4 DEF RefreshSearches, Serve
  <2>2. g.kind = job[j].kind /\ g.awaited = job[j].awaited /\ g.pc = "graph"
        /\ g.snap.considered = Searchable(job[j].id)
    BY <1>a DEF JobType, ItemType
  <2>3. ASSUME form.tries = 1, form.step = "wait" PROVE Searchable(job[j].id) = Files
    <3>1. job[j].id = form.id /\ form.uploaded = Files
      BY <2>1, <2>3, ServedIsAwaited DEF FirstTryInv, RefreshInv
    <3> QED BY <3>1 DEF SetupInv, AddedIsSearchable, Searchable
  <2> HIDE DEF g
  <2> QED BY <2>1, <2>2, <2>3, ServiceKeepsFirstTry
<1>5. ASSUME NEW j \in Jobs, RefreshGraphSaves(j) \/ RefreshSaves(j) PROVE FirstTryInv'
  <2>1. PICK pc \in {"save", "ensure"} :
          /\ job' = [job EXCEPT ![j] = [job[j] EXCEPT !.pc = pc]]
          /\ job[j].pc \in {"graph", "save"}
          /\ pc = "ensure" => item' = [item EXCEPT ![job[j].id] =
                                      [job[j].snap EXCEPT !.exec = "completed"]]
    BY <1>5 DEF RefreshGraphSaves, RefreshSaves, Serve, SetItem
  <2> DEFINE g == [job[j] EXCEPT !.pc = pc]
  <2>2. UNCHANGED <<thread, form>>
    BY <1>5 DEF RefreshGraphSaves, RefreshSaves
  <2>3. g.kind = job[j].kind /\ g.awaited = job[j].awaited /\ g.pc = pc
        /\ g.snap = job[j].snap
    BY <1>a DEF JobType
  <2>4. ASSUME form.tries = 1, form.step = "wait"
        PROVE /\ job[j].snap.considered = Files
              /\ pc = "ensure" => item'[form.id].considered = Files
    <3>1. job[j].snap.considered = Files
      BY <2>1, <2>4 DEF FirstTryInv, RefreshInv
    <3>2. job[j].id = form.id /\ form.id \in Projects
      BY <2>1, <2>4, ServedIsAwaited DEF SetupInv, FormInv
    <3>3. job[j].snap \in ItemType
      BY <1>a DEF JobType
    <3>4. pc = "ensure" => item'[form.id].considered = Files
      BY <1>a, <2>1, <3>1, <3>2, <3>3 DEF ItemType
    <3> QED BY <3>1, <3>4
  <2>5. job' = [job EXCEPT ![j] = g]
    BY <2>1
  <2> HIDE DEF g
  <2> QED BY <2>1, <2>2, <2>3, <2>4, <2>5, ServiceKeepsFirstTry
<1>5a. ASSUME NEW j \in Jobs, RefreshEnsuresRow(j) PROVE FirstTryInv'
  <2> DEFINE g == [job[j] EXCEPT !.pc = "row"]
  <2>1. job' = [job EXCEPT ![j] = g] /\ UNCHANGED <<item, thread, form>>
        /\ job[j].pc = "ensure"
    BY <1>5a DEF RefreshEnsuresRow, Serve
  <2>2. g.kind = job[j].kind /\ g.awaited = job[j].awaited /\ g.pc = "row"
        /\ g.snap = job[j].snap
    BY <1>a DEF JobType
  <2>3. ASSUME form.tries = 1, form.step = "wait"
        PROVE /\ job[j].snap.considered = Files
              /\ form.ended => item[form.id].considered = Files
    BY <2>1, <2>3 DEF FirstTryInv, RefreshInv
  <2> HIDE DEF g
  <2> QED BY <2>1, <2>2, <2>3, ServiceKeepsFirstTry
<1>6. ASSUME NEW j \in Jobs, ListDocument(j) \/ RefreshWritesRow(j) PROVE FirstTryInv'
  <2>1. Reply(j) /\ UNCHANGED <<thread, chunks>> /\ job[j].pc \in {"list", "row"}
        /\ (job[j].pc = "row" => item' = item)
    BY <1>6 DEF ListDocument, RefreshWritesRow
  <2>2. job' = [job EXCEPT ![j] = IdleJob]
    BY <2>1 DEF Reply, Serve
  <2>3. CASE ~job[j].awaited
    <3>1. form' = form
      BY <2>1, <2>3 DEF Reply
    <3>2. ~(form.tries = 1 /\ form.step = "opened")
      BY <2>1, <2>3, ServedIsAwaited
    <3> QED BY <2>1, <2>2, <3>1, <3>2, RequestEndsFirstTry
  <2>4. CASE job[j].awaited
    <3>1. form' = [form EXCEPT !.uploaded = @ \cup job[j].file,
                               !.step = IF job[j].kind = "ingest" THEN "next" ELSE "opened"]
          /\ form.step = "wait"
      BY <2>1, <2>4 DEF Reply, SetupInv, AwaitedInv
    <3>2. form'.tries = form.tries /\ form'.id = form.id /\ form'.remaining = form.remaining
          /\ form'.ended = form.ended
          /\ form'.step = IF job[j].kind = "ingest" THEN "next" ELSE "opened"
      BY <1>a, <3>1 DEF FormType
    <3>3. form'.step = "opened" => job[j].pc = "row"
      BY <1>b, <2>1, <3>2 DEF KindInv
    <3>4. form.tries = 1 /\ form'.step = "opened" /\ form.ended =>
            item'[form.id].considered = Files
      BY <2>1, <3>1, <3>3 DEF FirstTryInv, RefreshInv
    <3> QED BY <2>1, <2>2, <2>4, <3>2, <3>4, RequestEndsFirstTry
  <2> QED BY <2>3, <2>4
<1>7. ASSUME NEW j \in Jobs, JobRaises(j) PROVE FirstTryInv'
  <2>1. /\ UNCHANGED <<thread, chunks>> /\ job[j].pc # "idle"
        /\ job' = [job EXCEPT ![j] = IdleJob]
        /\ FormFails \/ (~job[j].awaited /\ form' = form)
    BY <1>7 DEF JobRaises, Serve
  <2>2. /\ form'.tries = form.tries /\ form'.id = form.id
        /\ form'.remaining = form.remaining /\ form'.ended = form.ended
        /\ form'.step = "idle" \/ (form'.step = form.step /\ ~job[j].awaited)
    BY <1>a, <2>1 DEF FormFails, FormType
  <2>3. ~(form.tries = 1 /\ form'.step = "opened")
    BY <2>1, <2>2, ServedIsAwaited
  <2> QED BY <2>1, <2>2, <2>3, RequestEndsFirstTry
<1>8. ASSUME NEW j \in Jobs, ClientDrops(j) PROVE FirstTryInv'
  <2> DEFINE g == [job[j] EXCEPT !.awaited = FALSE]
  <2>1. UNCHANGED <<item, thread>> /\ form' = [form EXCEPT !.step = "idle"]
        /\ job' = [job EXCEPT ![j] = g] /\ job[j].awaited
    BY <1>8 DEF ClientDrops, FormFails, Serve
  <2>2. g.kind = job[j].kind /\ g.pc = job[j].pc
    BY <1>a DEF JobType
  <2>3. job'[j] = g /\ \A i \in Jobs \ {j} : job'[i] = job[i]
    BY <1>a, <2>1 DEF JobType
  <2>4. form'.tries = form.tries /\ form'.step = "idle"
    BY <1>a, <2>1 DEF FormType
  <2>5. ~BeforeUploads
    BY <2>1, ServedIsAwaited DEF SetupInv, AwaitedInv
  <2> HIDE DEF g
  <2>6. KindInv'
    BY <1>b, <2>2, <2>3 DEF KindInv
  <2> QED BY <2>4, <2>5, <2>6 DEF FirstTryInv, FreshInv, BeforeUploads, FirstRunInv,
          RefreshInv, FirstTryIsCurrent
<1>9. CASE Submit \/ CreateAnswered \/ Poll \/ Fetch \/ OpenProject \/ RequestFails
  <2>1. UNCHANGED <<item, thread, job>> /\ form.step # "wait"
    BY <1>9 DEF Submit, CreateAnswered, Poll, Fetch, OpenProject, AllUploaded, RequestFails
  <2>2. form.tries \in Nat /\ (form.step # "idle" => form.tries # 0)
    BY <1>a, SetupAssumption DEF FormType, FirstTryInv, FreshInv
  <2>3. CASE Submit
    <3>1. form'.tries = form.tries + 1 /\ form'.step \in {"create", "poll"}
          /\ form.step = "idle" /\ form'.uploaded = form.uploaded
      BY <1>a, <2>3 DEF Submit, FormType
    <3> QED BY <2>1, <3>1, FormKeepsFirstTry
  <2>4. CASE form' = [form EXCEPT !.step = "idle"] /\ form.tries # 0
    <3>1. form'.tries = form.tries /\ form'.step = "idle"
      BY <1>a, <2>4 DEF FormType
    <3> QED BY <2>1, <2>4, <3>1, FormKeepsFirstTry
  <2>5. CASE CreateAnswered /\ form' # [form EXCEPT !.step = "idle"]
    <3>1. form'.tries = form.tries /\ form'.uploaded = form.uploaded /\ form'.step = "poll"
          /\ form.step = "create"
      BY <1>a, <2>5 DEF CreateAnswered, FormType
    <3>2. CASE form.tries = 1
      BY <2>1, <3>1, <3>2, FormKeepsFirstTry DEF BeforeUploads
    <3>3. CASE form.tries # 1
      <4>1. form'.tries # 0 /\ form'.tries # 1
        BY <2>2, <3>1, <3>3
      <4> QED BY <2>1, <4>1 DEF FirstTryInv, KindInv, FreshInv, BeforeUploads, FirstRunInv,
              RefreshInv, FirstTryIsCurrent
    <3> QED BY <3>2, <3>3
  <2>6. CASE Poll
    <3>1. /\ form'.tries = form.tries /\ form'.uploaded = form.uploaded
          /\ form'.step \in {"poll", "fetch"} /\ form.step = "poll" /\ form'.id = form.id
          /\ form'.ended <=> item[form.id].exec \in Final
          /\ form.id \in Projects
      BY <1>a, <2>6 DEF Poll, FormType, SetupInv, FormInv
    <3>2. CASE form.tries = 1
      BY <2>1, <3>1, <3>2, FormKeepsFirstTry DEF BeforeUploads
    <3>3. CASE form.tries # 1
      <4>1. form'.tries # 0 /\ form'.tries # 1
        BY <2>2, <3>1, <3>3
      <4> QED BY <2>1, <4>1 DEF FirstTryInv, KindInv, FreshInv, BeforeUploads, FirstRunInv,
              RefreshInv, FirstTryIsCurrent
    <3> QED BY <3>2, <3>3
  <2>7. CASE Fetch /\ form' # [form EXCEPT !.step = "idle"]
    <3>1. form' = [form EXCEPT !.step = "next", !.remaining = Files \ form.uploaded]
          /\ form.step = "fetch"
      BY <2>7 DEF Fetch
    <3>2. form'.tries = form.tries /\ form'.id = form.id /\ form'.ended = form.ended
          /\ form'.step = "next" /\ form'.remaining = Files \ form.uploaded
      BY <1>a, <3>1 DEF FormType
    <3> QED BY <2>1, <3>1, <3>2, FormKeepsFirstTry
  <2>8. CASE OpenProject
    <3>1. form'.tries = form.tries /\ form'.id = form.id /\ form'.ended = form.ended
          /\ form'.step = "opened" /\ form'.remaining = form.remaining
          /\ form.remaining = {} /\ form.step = "next"
      BY <1>a, <2>8 DEF OpenProject, AllUploaded, FormType
    <3> QED BY <2>1, <3>1, FormKeepsFirstTry
  <2>9. form.step = "idle" => Submit
    BY <1>9 DEF CreateAnswered, Poll, Fetch, OpenProject, AllUploaded, RequestFails
  <2>10. RequestFails => form' = [form EXCEPT !.step = "idle"]
    BY DEF RequestFails, FormFails
  <2> QED BY <1>9, <2>2, <2>3, <2>4, <2>5, <2>6, <2>7, <2>8, <2>9, <2>10
<1>10. CASE UploadNext \/ RefreshPlan
  <2>1. /\ UNCHANGED <<item, thread>> /\ form.step = "next"
        /\ form' = [form EXCEPT !.step = "wait"]
    BY <1>10 DEF UploadNext, RefreshPlan, AllUploaded
  <2>2. PICK j \in Jobs, g \in JobType :
          /\ job' = [job EXCEPT ![j] = g] /\ job[j].pc = "idle" /\ g.awaited
          /\ \/ g.pc = "insert" /\ g.kind = "ingest"
             \/ g.pc = "search" /\ g.kind = "refresh" /\ RefreshPlan
    <3> DEFINE h(kind, file) ==
          [pc |-> IF kind = "ingest" THEN "insert" ELSE "search", id |-> form.id,
           kind |-> kind, file |-> file, n |-> 0, snap |-> item[form.id], awaited |-> TRUE]
    <3>1. form.id \in Projects /\ item[form.id] \in ItemType /\ 0 \in 0..NChunks
      BY <1>a, <2>1, SetupAssumption DEF SetupInv, FormInv
    <3>2. ASSUME NEW kind \in {"ingest", "refresh"}, NEW file \in SUBSET Files
          PROVE h(kind, file) \in JobType /\ h(kind, file).awaited
                /\ h(kind, file).kind = kind
                /\ h(kind, file).pc = IF kind = "ingest" THEN "insert" ELSE "search"
      BY <3>1 DEF JobType, JobSteps
    <3>3. CASE UploadNext
      <4>1. PICK f \in Files : StartJob(form.id, "ingest", {f})
        BY <1>a, <3>3 DEF UploadNext, FormType
      <4>2. PICK j \in Jobs : job[j].pc = "idle" /\ job' = [job EXCEPT ![j] = h("ingest", {f})]
        BY <4>1 DEF StartJob, Serve
      <4>3. {f} \in SUBSET Files
        OBVIOUS
      <4> HIDE DEF h
      <4>4. h("ingest", {f}) \in JobType /\ h("ingest", {f}).awaited
            /\ h("ingest", {f}).kind = "ingest" /\ h("ingest", {f}).pc = "insert"
        BY <3>2, <4>3
      <4> QED BY <4>2, <4>4
    <3>4. CASE RefreshPlan
      <4>1. PICK j \in Jobs : job[j].pc = "idle" /\ job' = [job EXCEPT ![j] = h("refresh", {})]
        BY <3>4 DEF RefreshPlan, StartJob, Serve
      <4> HIDE DEF h
      <4>2. h("refresh", {}) \in JobType /\ h("refresh", {}).awaited
            /\ h("refresh", {}).kind = "refresh" /\ h("refresh", {}).pc = "search"
        BY <3>2
      <4> QED BY <3>4, <4>1, <4>2
    <3> QED BY <1>10, <3>3, <3>4
  <2>3. job'[j] = g /\ \A i \in Jobs \ {j} : job'[i] = job[i]
    BY <1>a, <2>2
  <2>4. /\ form'.tries = form.tries /\ form'.id = form.id /\ form'.ended = form.ended
        /\ form'.step = "wait" /\ form'.remaining = form.remaining
        /\ form'.uploaded = form.uploaded
    BY <1>a, <2>1 DEF FormType
  <2>5. KindInv'
    BY <1>b, <2>2, <2>3 DEF KindInv
  <2>6. ~BeforeUploads' /\ form.tries # 0
    BY <2>1, <2>4 DEF FirstTryInv, FreshInv, BeforeUploads
  <2>7. FreshInv'
    BY <2>4, <2>6 DEF FreshInv
  <2>8. form.tries = 1 => form.remaining = Files /\ \A i \in Jobs : job[i].pc = "idle"
    BY <2>1 DEF FirstTryInv, FirstRunInv, SetupInv, AwaitedInv
  <2>9. FirstRunInv'
    BY <2>1, <2>2, <2>3, <2>4, <2>8 DEF FirstTryInv, FirstRunInv
  <2>10. RefreshPlan => Files \cap form.remaining \subseteq form.uploaded
                        /\ form.uploaded \subseteq Files
    BY <1>a DEF RefreshPlan, AllUploaded, FormType
  <2>11. RefreshInv'
    <3>1. ASSUME form.tries = 1, NEW i \in Jobs, job'[i].pc \notin {"idle", "insert"}
          PROVE job'[i].pc = "search" /\ form.uploaded = Files
      <4>1. i = j /\ g.pc = "search" /\ RefreshPlan
        BY <2>2, <2>3, <2>8, <3>1
      <4> QED BY <2>3, <2>8, <2>10, <3>1, <4>1
    <3> QED BY <2>4, <3>1 DEF RefreshInv
  <2>12. FirstTryIsCurrent'
    BY <2>4 DEF FirstTryIsCurrent
  <2> QED BY <2>5, <2>7, <2>9, <2>11, <2>12 DEF FirstTryInv
<1>11. CASE UNCHANGED vars
  BY <1>1, <1>11 DEF vars
<1> QED BY <1>1, <1>2, <1>3, <1>4, <1>5, <1>5a, <1>6, <1>7, <1>8, <1>9, <1>10,
       <1>11
    DEF Next, OtherClientPosts, JobStep, FormStep

\* Whatever fails or overlaps, a project set up in one run of the form, whose first
\* analysis ended while the page was polling, opens with a plan that has considered
\* every document of the form, however many there are.
THEOREM OpensWithEveryDocument == Spec => []FirstTryIsCurrent
<1>1. FirstTryInv => FirstTryIsCurrent
  BY DEF FirstTryInv
<1> QED BY InitSetupInv, StepSetupInv, InitFirstTryInv, StepFirstTryInv, <1>1, PTL DEF Spec
=============================================================================
