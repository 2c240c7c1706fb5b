-------------------------- MODULE WorkspaceProofs --------------------------
(***************************************************************************)
(* Proofs about Workspace: its types, and what the version check gives to  *)
(* requests that do not overlap, for any number of users, edits, refreshes *)
(* and restarts: updates and decisions are kept, and as long as the row    *)
(* has not been written from the memory store again, so are edits of       *)
(* tasks, since a version then stands for one state of the row.            *)
(***************************************************************************)
EXTENDS Workspace, TLAPS

Editing == {"get", "check", "write"}

\* A handler of an edit was sent one.
EditSent == \A c \in Clients : pc[c] \in Editing => made[c] \in 1..MaxEdits

Typed == TypeOK /\ EditSent

-----------------------------------------------------------------------------
LEMMA FetchType ==
    ASSUME TypeOK, Fetch
    PROVE  /\ row' = Fetched
           /\ row' \in [version : Nat, contents : SUBSET Edits]
           /\ replaced' \in Nat
           /\ acked' \subseteq Edits
BY DEF TypeOK, Fetch, Fetched, Replace, Synced

\* What a user is shown is typed.
LEMMA ShownType ==
    ASSUME TypeOK, NEW c \in Clients, NEW contents \in SUBSET Edits,
           NEW version \in Nat, Shown(c, contents, version)
    PROVE  seen' \in [Clients -> [version : Nat, contents : SUBSET Edits]]
BY DEF TypeOK, Shown

\* So is what a handler saves.
LEMMA KeptType ==
    ASSUME TypeOK, NEW c \in Clients
    PROVE  Kept(c) \in SUBSET Edits
BY DEF TypeOK, Kept, TaskEdits

LEMMA TypedInit == Init => Typed
<1> SUFFICES ASSUME Init PROVE Typed
  OBVIOUS
<1>1. Nothing \in [kind : EditKinds, kept : SUBSET Edits]
  BY DEF Nothing, EditKinds
<1>2. Synced \in [version : Nat, contents : SUBSET Edits]
  BY DEF Synced
<1> QED
  BY <1>1, <1>2, WorkspaceAssumption
     DEF Init, Typed, TypeOK, EditSent, Editing, HandlerStates

LEMMA TypedNext ==
    ASSUME Typed, [Next]_vars
    PROVE  Typed'
<1> USE WorkspaceAssumption DEF Typed, EditSent, Editing, HandlerStates, Goto
<1>1. ASSUME NEW c \in Clients, Read(c)
      PROVE  Typed'
  <2>1. Fetched \in [version : Nat, contents : SUBSET Edits]
    BY <1>1, FetchType DEF Read
  <2>2. seen' \in [Clients -> [version : Nat, contents : SUBSET Edits]]
    BY <1>1, <2>1, ShownType DEF Read
  <2> QED BY <1>1, <2>2, FetchType DEF Read, TypeOK
<1>2. ASSUME NEW c \in Clients, SendEdit(c)
      PROVE  Typed'
  <2>1. sent' \in [Clients -> [kind : EditKinds, kept : SUBSET Edits]]
    BY <1>2 DEF SendEdit, TypeOK, TaskEdits
  <2> QED BY <1>2, <2>1 DEF SendEdit, TypeOK
<1>3. ASSUME NEW c \in Clients, GetCopy(c)
      PROVE  Typed'
  <2>1. Fetched.contents \in SUBSET Edits
    BY <1>3, FetchType DEF GetCopy
  <2> QED BY <1>3, <2>1, FetchType DEF GetCopy, TypeOK
<1>4. ASSUME NEW c \in Clients, CheckVersion(c)
      PROVE  Typed'
  BY <1>4 DEF CheckVersion, TypeOK
<1>5. ASSUME NEW c \in Clients, WriteRow(c)
      PROVE  Typed'
  <2> DEFINE edit == [by |-> c, nr |-> made[c], kind |-> sent[c].kind]
             contents == Kept(c) \cup {edit}
             version == NextVersion(seen[c].version)
  <2>1. edit \in Edits
    BY <1>5 DEF WriteRow, Edits, TypeOK
  <2>2. contents \in SUBSET Edits /\ version \in Nat
    BY <2>1, KeptType DEF TypeOK, NextVersion
  <2>3. /\ row' = [version |-> version, contents |-> contents]
        /\ acked' = (acked \ GivenUp(c)) \cup {edit}
        /\ Shown(c, contents, version)
        /\ pc' = [pc EXCEPT ![c] = "idle"]
        /\ UNCHANGED <<replaced, made, sent, copy>>
    BY <1>5 DEF WriteRow
  <2> HIDE DEF edit, contents, version
  <2>4. seen' \in [Clients -> [version : Nat, contents : SUBSET Edits]]
    BY <2>2, <2>3, ShownType DEF TypeOK
  <2> QED BY <2>1, <2>2, <2>3, <2>4 DEF TypeOK
<1>6. ASSUME NEW c \in Clients, BeginRefresh(c)
      PROVE  Typed'
  BY <1>6 DEF BeginRefresh, TypeOK
<1>7. ASSUME NEW c \in Clients, EnsureRow(c)
      PROVE  Typed'
  BY <1>7 DEF EnsureRow, Replace, Synced, TypeOK
<1>8. ASSUME NEW c \in Clients, RefreshCheck(c)
      PROVE  Typed'
  BY <1>8 DEF RefreshCheck, TypeOK
<1>9. ASSUME NEW c \in Clients, RefreshWrite(c)
      PROVE  Typed'
  <2>1. NextVersion(1) \in Nat
    BY DEF NextVersion
  <2>2. seen' \in [Clients -> [version : Nat, contents : SUBSET Edits]]
    BY <1>9, <2>1, ShownType DEF RefreshWrite
  <2> QED BY <1>9, <2>1, <2>2 DEF RefreshWrite, TypeOK
<1>10. CASE Restart
  BY <1>10 DEF Restart, NoRow, TypeOK
<1>11. CASE UNCHANGED vars
  BY <1>11 DEF vars, TypeOK
<1> QED
  BY <1>1, <1>2, <1>3, <1>4, <1>5, <1>6, <1>7, <1>8, <1>9, <1>10, <1>11 DEF Next

\* The variables keep their types, whether handlers interleave or not.
THEOREM WorkspaceTypesCorrect == Spec => []TypeOK
<1>1. Typed => TypeOK
  BY DEF Typed
<1> QED BY TypedInit, TypedNext, <1>1, PTL DEF Spec

-----------------------------------------------------------------------------
(* Requests that do not overlap *)

\* One handler runs at a time.
OneHandler ==
    \A c, d \in Clients : pc[c] # "idle" /\ pc[d] # "idle" => c = d

\* What a handler has read or checked still holds when it uses it.
StillTrue ==
    \A c \in Clients :
      /\ pc[c] \in {"check", "write"} => copy[c] = row.contents
      /\ pc[c] = "write" => VersionMatches(seen[c].version)
      /\ pc[c] \in {"recheck", "rewrite"} => row = Synced /\ acked = {}

\* No user has seen a later version of the row than it has, as long as no version
\* is used twice.
NobodyAhead ==
    \A c \in Clients :
      /\ seen[c].version >= 1
      /\ row # NoRow /\ ~VersionsReused => seen[c].version <= row.version

\* Every row that is there has a version.
RowHasVersion == row.version = 0 => row = NoRow

SerialInv ==
    /\ Typed
    /\ OneHandler
    /\ StillTrue
    /\ NobodyAhead
    /\ RowHasVersion
    /\ EditsSurvive
    /\ VersionIdentifiesContents

LEMMA SerialInit == Init => SerialInv
<1> SUFFICES ASSUME Init PROVE SerialInv
  OBVIOUS
<1>1. Typed
  BY TypedInit
<1> QED
  BY <1>1 DEF Init, SerialInv, OneHandler, StillTrue, NobodyAhead, RowHasVersion,
     EditsSurvive, VersionIdentifiesContents, Synced, NoRow

\* A handler that takes its next step is the only one that runs.
LEMMA OneHandlerNext ==
    ASSUME ~Overlap, Typed, OneHandler, [Next]_vars
    PROVE  OneHandler'
<1> USE DEF OneHandler, Goto, Typed, TypeOK
<1>1. ASSUME NEW c \in Clients,
             Read(c) \/ SendEdit(c) \/ GetCopy(c) \/ CheckVersion(c) \/ WriteRow(c)
               \/ BeginRefresh(c) \/ EnsureRow(c) \/ RefreshCheck(c) \/ RefreshWrite(c)
      PROVE  OneHandler'
  <2>1. pc' = pc \/ \E label \in HandlerStates \cup {"idle"} : pc' = [pc EXCEPT ![c] = label]
    BY <1>1 DEF Read, SendEdit, GetCopy, CheckVersion, WriteRow, BeginRefresh, EnsureRow,
                RefreshCheck, RefreshWrite, HandlerStates
  <2>2. \A d \in Clients : pc[d] # "idle" => d = c \/ pc' = pc
    BY <1>1 DEF Read, SendEdit, GetCopy, CheckVersion, WriteRow, BeginRefresh, EnsureRow,
                RefreshCheck, RefreshWrite, MayStart
  <2> QED BY <2>1, <2>2
<1> QED BY <1>1 DEF Next, Restart, vars

\* A read leaves the row as it was, or syncs one that was missing.
LEMMA FetchKeeps ==
    ASSUME SerialInv, Fetch
    PROVE  /\ row' = Fetched /\ row' # NoRow /\ RowHasVersion'
           /\ EditsSurvive'
           /\ ~VersionsReused' =>
                /\ ~VersionsReused
                /\ \A c \in Clients :
                     /\ seen[c].version <= row'.version
                     /\ seen[c].version = row'.version => seen[c].contents = row'.contents
<1> USE DEF SerialInv, Typed, TypeOK, NobodyAhead, RowHasVersion, VersionsReused
<1>1. CASE row = NoRow
  BY <1>1 DEF Fetch, Fetched, Replace, Synced, NoRow, EditsSurvive
<1>2. CASE row # NoRow
  BY <1>2 DEF Fetch, Fetched, EditsSurvive, VersionIdentifiesContents
<1> QED BY <1>1, <1>2

\* A handler that has passed the check loses no edit that was there, unless it is
\* one of a task and the versions are used again.
LEMMA KeptSurvives ==
    ASSUME SerialInv, NEW c \in Clients, pc[c] = "write",
           NEW e \in acked, e \notin GivenUp(c), e.kind = "update" \/ ~VersionsReused
    PROVE  e \in Kept(c)
<1>1. copy[c] = row.contents /\ seen[c].version = row.version
  BY DEF SerialInv, StillTrue, VersionMatches
<1>2. e \in copy[c]
  BY <1>1 DEF SerialInv, EditsSurvive
<1>3. CASE sent[c].kind # "revision"
  BY <1>2, <1>3 DEF Kept
<1>4. CASE sent[c].kind = "revision"
  <2>1. CASE e.kind = "update"
    BY <1>2, <1>4, <2>1 DEF Kept, TaskEdits
  <2>2. CASE e.kind # "update"
    <3>1. seen[c].contents = copy[c]
      BY <1>1, <2>2 DEF SerialInv, VersionIdentifiesContents
    <3> QED BY <1>2, <1>4, <2>2, <3>1 DEF Kept, GivenUp, TaskEdits
  <2> QED BY <2>1, <2>2
<1> QED BY <1>3, <1>4

LEMMA SerialNext ==
    ASSUME ~Overlap, SerialInv, [Next]_vars
    PROVE  SerialInv'
<1>0. Typed' /\ OneHandler'
  BY TypedNext, OneHandlerNext DEF SerialInv
<1> USE <1>0 DEF SerialInv, Typed, TypeOK, HandlerStates, Goto
<1>1. ASSUME NEW c \in Clients, Read(c)
      PROVE  SerialInv'
  <2>1. \A d \in Clients : pc'[d] = "idle"
    BY <1>1 DEF Read, MayStart
  <2>2. StillTrue'
    BY <2>1 DEF StillTrue
  <2>3. row' = Fetched /\ row' # NoRow /\ RowHasVersion' /\ EditsSurvive'
    BY <1>1, FetchKeeps DEF Read
  <2>4. seen' = [seen EXCEPT ![c] = [version |-> row'.version, contents |-> row'.contents]]
    BY <1>1, <2>3 DEF Read, Shown
  <2>5. row'.version >= 1
    BY <2>3 DEF RowHasVersion
  <2>6. NobodyAhead'
    BY <1>1, <2>3, <2>4, <2>5, FetchKeeps DEF Read, NobodyAhead
  <2>7. VersionIdentifiesContents'
    BY <1>1, <2>3, <2>4, FetchKeeps DEF Read, VersionIdentifiesContents
  <2> QED BY <2>2, <2>3, <2>6, <2>7
<1>2. ASSUME NEW c \in Clients, SendEdit(c) \/ BeginRefresh(c)
      PROVE  SerialInv'
  <2>1. /\ UNCHANGED <<row, replaced, seen, copy, acked>>
        /\ \A d \in Clients : pc'[d] \in {"idle", "get", "ensure"}
    BY <1>2 DEF SendEdit, BeginRefresh, MayStart
  <2> QED BY <2>1 DEF StillTrue, NobodyAhead, RowHasVersion, EditsSurvive,
                      VersionIdentifiesContents, VersionsReused
<1>3. ASSUME NEW c \in Clients, GetCopy(c)
      PROVE  SerialInv'
  <2>1. \A d \in Clients : d # c => pc'[d] = "idle"
    BY <1>3 DEF GetCopy, OneHandler
  <2>2. row' = Fetched /\ RowHasVersion' /\ EditsSurvive'
    BY <1>3, FetchKeeps DEF GetCopy
  <2>3. StillTrue'
    BY <1>3, <2>1, <2>2 DEF GetCopy, StillTrue
  <2>4. NobodyAhead' /\ VersionIdentifiesContents'
    BY <1>3, <2>2, FetchKeeps DEF GetCopy, NobodyAhead, VersionIdentifiesContents
  <2> QED BY <2>2, <2>3, <2>4
<1>4. ASSUME NEW c \in Clients, CheckVersion(c) \/ RefreshCheck(c)
      PROVE  SerialInv'
  BY <1>4 DEF CheckVersion, RefreshCheck, StillTrue, NobodyAhead, RowHasVersion,
              EditsSurvive, VersionIdentifiesContents, VersionMatches, VersionsReused
<1>5. ASSUME NEW c \in Clients, WriteRow(c)
      PROVE  SerialInv'
  <2> DEFINE edit == [by |-> c, nr |-> made[c], kind |-> sent[c].kind]
             contents == Kept(c) \cup {edit}
             version == row.version + 1
  <2>1. \A d \in Clients : pc'[d] = "idle"
    BY <1>5 DEF WriteRow, OneHandler
  <2>2. StillTrue'
    BY <2>1 DEF StillTrue
  <2>3. seen[c].version = row.version /\ row # NoRow /\ pc[c] = "write"
    BY <1>5 DEF WriteRow, StillTrue, VersionMatches
  <2>4. /\ row' = [version |-> version, contents |-> contents]
        /\ acked' = (acked \ GivenUp(c)) \cup {edit}
        /\ replaced' = replaced
        /\ seen' = [seen EXCEPT ![c] = [version |-> version, contents |-> contents]]
    BY <1>5, <2>3 DEF WriteRow, Shown, NextVersion
  <2>5. EditsSurvive'
    <3>1. ASSUME NEW e \in acked, e \notin GivenUp(c), e.kind = "update" \/ ~VersionsReused
          PROVE  e \in contents
      BY <2>3, <3>1, KeptSurvives
    <3>2. edit \in contents
      OBVIOUS
    <3> HIDE DEF edit, contents
    <3> QED BY <2>4, <3>1, <3>2 DEF EditsSurvive, VersionsReused
  <2>6. RowHasVersion'
    BY <2>4 DEF RowHasVersion
  <2> HIDE DEF contents
  <2>7. NobodyAhead' /\ VersionIdentifiesContents'
    BY <2>3, <2>4 DEF NobodyAhead, VersionIdentifiesContents, VersionsReused
  <2> QED BY <2>2, <2>5, <2>6, <2>7
<1>6. ASSUME NEW c \in Clients, EnsureRow(c)
      PROVE  SerialInv'
  <2>1. \A d \in Clients : pc'[d] = IF d = c THEN "recheck" ELSE "idle"
    BY <1>6 DEF EnsureRow, OneHandler
  <2>2. /\ row' = Synced /\ replaced' = replaced + 1 /\ acked' = {}
        /\ UNCHANGED <<seen, copy>>
    BY <1>6 DEF EnsureRow, Replace
  <2>3. VersionsReused'
    BY <2>2 DEF VersionsReused
  <2>4. StillTrue'
    BY <2>1, <2>2 DEF StillTrue
  <2>5. NobodyAhead' /\ RowHasVersion'
    BY <2>2, <2>3 DEF NobodyAhead, RowHasVersion, Synced
  <2>6. EditsSurvive' /\ VersionIdentifiesContents'
    BY <2>2, <2>3 DEF EditsSurvive, VersionIdentifiesContents
  <2> QED BY <2>4, <2>5, <2>6
<1>7. ASSUME NEW c \in Clients, RefreshWrite(c)
      PROVE  SerialInv'
  <2>1. \A d \in Clients : pc'[d] = "idle"
    BY <1>7 DEF RefreshWrite, OneHandler
  <2>2. StillTrue'
    BY <2>1 DEF StillTrue
  <2>3. row = Synced /\ row # NoRow /\ acked = {}
    BY <1>7 DEF RefreshWrite, StillTrue, Synced, NoRow
  <2>4. /\ row' = [version |-> 2, contents |-> {}] /\ UNCHANGED <<replaced, acked>>
        /\ seen' = [seen EXCEPT ![c] = [version |-> 2, contents |-> {}]]
    BY <1>7 DEF RefreshWrite, Shown, NextVersion
  <2> QED BY <2>2, <2>3, <2>4 DEF NobodyAhead, RowHasVersion, EditsSurvive,
                                  VersionIdentifiesContents, VersionsReused, Synced
<1>8. CASE Restart
  BY <1>8 DEF Restart, StillTrue, NobodyAhead, RowHasVersion, EditsSurvive,
              VersionIdentifiesContents, VersionsReused, NoRow
<1>9. CASE UNCHANGED vars
  BY <1>9 DEF vars, StillTrue, NobodyAhead, RowHasVersion, EditsSurvive,
              VersionIdentifiesContents, VersionMatches, VersionsReused
<1> QED
  BY <1>1, <1>2, <1>3, <1>4, <1>5, <1>6, <1>7, <1>8, <1>9 DEF Next

\* Handlers that do not overlap (save's check and write are not one transaction)
\* keep every acknowledged update and decision until the row is written from the
\* memory store, and every acknowledged edit of a task if that has not happened yet.
THEOREM SerialEditsSurvive == ASSUME ~Overlap PROVE Spec => []EditsSurvive
<1>1. SerialInv => EditsSurvive
  BY DEF SerialInv
<1>2. SerialInv /\ [Next]_vars => SerialInv'
  BY SerialNext
<1> QED BY SerialInit, <1>1, <1>2, PTL DEF Spec

\* And until then the version that passes save's check says which contents the user
\* saw, whatever lists users send in their revisions.
THEOREM FirstVersionsIdentify == ASSUME ~Overlap PROVE Spec => []VersionIdentifiesContents
<1>1. SerialInv => VersionIdentifiesContents
  BY DEF SerialInv
<1>2. SerialInv /\ [Next]_vars => SerialInv'
  BY SerialNext
<1> QED BY SerialInit, <1>1, <1>2, PTL DEF Spec
=============================================================================
