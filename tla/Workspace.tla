----------------------------- MODULE Workspace -----------------------------
(***************************************************************************)
(* The SQLite workspace row of one workflow and its optimistic version     *)
(* check (backend/app/workspace.py), with the handlers of                  *)
(* backend/app/api/routes/workflows.py that use it.  Handlers run in the   *)
(* threads of one API process, each with a connection of its own.          *)
(*                                                                         *)
(* The contents of the row are the user edits it carries.  A task patch, a *)
(* status transition, an update or a decision is "read the row, change it, *)
(* save it under the version the client saw".  A plan revision takes only  *)
(* what is not a task from the row it has read: the tasks it saves are the *)
(* list the client sends.  User edits never reach the memory store: what   *)
(* is synced from there carries none, and always says version 1, the       *)
(* default of WorkflowState.                                               *)
(***************************************************************************)
EXTENDS Naturals

CONSTANTS
    Clients,            \* users, each with one request at a time
    MaxEdits,           \* bound: edits per user
    MaxReplacements,    \* bound: refreshes and restarts
    Overlap             \* may handlers of different requests interleave?

ASSUME WorkspaceAssumption ==
    /\ MaxEdits \in Nat
    /\ MaxReplacements \in Nat
    /\ Overlap \in BOOLEAN

VARIABLES
    row,        \* the row: version and contents
    replaced,   \* how often the row has been written from the memory store
    seen,       \* what each user last got: version and contents
    made,       \* how many edits each user has sent
    sent,       \* the edit each user's handler works on
    pc,         \* what each user's handler is about to do
    copy,       \* the contents the handler read
    acked       \* edits acknowledged since then, and not revised away knowingly

vars == <<row, replaced, seen, made, sent, pc, copy, acked>>

-----------------------------------------------------------------------------
\* A patch or a transition of a task; a new list of tasks; an update or a decision.
EditKinds == {"task", "revision", "update"}

Edits == [by : Clients, nr : 1..MaxEdits, kind : EditKinds]

\* The edits that are part of the tasks.
TaskEdits(contents) == {e \in contents : e.kind # "update"}

Nothing == [kind |-> "task", kept |-> {}]

NoRow == [version |-> 0, contents |-> {}]
Synced == [version |-> 1, contents |-> {}]

\* An edit: get, check, write.  A refresh: rebuild, ensure, recheck, rewrite.
HandlerStates == {"idle", "get", "check", "write", "ensure", "recheck", "rewrite"}

TypeOK ==
    /\ row \in [version : Nat, contents : SUBSET Edits]
    /\ replaced \in Nat
    /\ seen \in [Clients -> [version : Nat, contents : SUBSET Edits]]
    /\ made \in [Clients -> 0..MaxEdits]
    /\ sent \in [Clients -> [kind : EditKinds, kept : SUBSET Edits]]
    /\ pc \in [Clients -> HandlerStates]
    /\ copy \in [Clients -> SUBSET Edits]
    /\ acked \subseteq Edits

\* The route that created the workflow has written the row and returned it.
Init ==
    /\ row = Synced
    /\ replaced = 0
    /\ seen = [c \in Clients |-> Synced]
    /\ made = [c \in Clients |-> 0]
    /\ sent = [c \in Clients |-> Nothing]
    /\ pc = [c \in Clients |-> "idle"]
    /\ copy = [c \in Clients |-> {}]
    /\ acked = {}

-----------------------------------------------------------------------------
Goto(c, label) == pc' = [pc EXCEPT ![c] = label]

MayStart(c) ==
    /\ pc[c] = "idle"
    /\ Overlap \/ \A d \in Clients : pc[d] = "idle"

\* ensure overwrites whatever row there is.
Replace ==
    /\ row' = Synced
    /\ replaced' = replaced + 1
    /\ acked' = {}

\* _workspace_workflow: a row that is missing is synced from the memory store.
Fetched == IF row = NoRow THEN Synced ELSE row

Fetch ==
    IF row = NoRow THEN Replace ELSE UNCHANGED <<row, replaced, acked>>

Shown(c, contents, version) ==
    seen' = [seen EXCEPT ![c] = [version |-> version, contents |-> contents]]

\* GET /workflows/{id}
Read(c) ==
    /\ MayStart(c)
    /\ Fetch
    /\ Shown(c, Fetched.contents, Fetched.version)
    /\ UNCHANGED <<made, sent, pc, copy>>

\* The user sends an edit under the version it was shown.  The list of a revision
\* is what the user keeps of the tasks it was shown, with the change it makes.
SendEdit(c) ==
    /\ MayStart(c)
    /\ made[c] < MaxEdits
    /\ made' = [made EXCEPT ![c] = @ + 1]
    /\ \E kind \in EditKinds, kept \in SUBSET TaskEdits(seen[c].contents) :
         /\ kind = "revision" \/ kept = {}
         /\ sent' = [sent EXCEPT ![c] = [kind |-> kind, kept |-> kept]]
    /\ Goto(c, "get")
    /\ UNCHANGED <<row, replaced, seen, copy, acked>>

\* Mutant: the NotFound of a missing row is not caught.
GetCopy_NoFallback(c) ==
    /\ pc[c] = "get"
    /\ Goto(c, IF row = NoRow THEN "not_found" ELSE "check")
    /\ copy' = [copy EXCEPT ![c] = row.contents]
    /\ UNCHANGED <<row, replaced, acked, seen, made, sent>>

\* The handler loads the row and changes what it has loaded; an edit that does not
\* apply to it (an unknown task, a forbidden transition) ends here.
GetCopy(c) ==
    /\ pc[c] = "get"
    /\ Fetch
    /\ copy' = [copy EXCEPT ![c] = Fetched.contents]
    /\ \E next \in {"check", "idle"} : Goto(c, next)
    /\ UNCHANGED <<seen, made, sent>>

\* Mutant: the version the client sends is not compared.
VersionMatches_Exists(expected) == row # NoRow

\* save's and revise's SELECT of the version.  sqlite3 opens the transaction only at
\* the first write, so nothing holds the row between this check and the write.
VersionMatches(expected) == row # NoRow /\ row.version = expected

CheckVersion(c) ==
    /\ pc[c] = "check"
    /\ Goto(c, IF VersionMatches(seen[c].version) THEN "write" ELSE "idle")
    /\ UNCHANGED <<row, replaced, seen, made, sent, copy, acked>>

\* Mutant: the version written is the version checked.
NextVersion_Same(expected) == expected

NextVersion(expected) == expected + 1

\* What is saved besides the edit itself: the loaded row, with the client's list in
\* place of its tasks if the edit is a revision.
Kept(c) ==
    IF sent[c].kind = "revision"
      THEN (copy[c] \ TaskEdits(copy[c])) \cup sent[c].kept
      ELSE copy[c]

\* What a user takes out of the plan in a revision, having seen it.
GivenUp(c) ==
    IF sent[c].kind = "revision" THEN TaskEdits(seen[c].contents) \ sent[c].kept ELSE {}

\* _write and commit; the handler returns the saved workflow.
WriteRow(c) ==
    LET edit     == [by |-> c, nr |-> made[c], kind |-> sent[c].kind]
        contents == Kept(c) \cup {edit}
        version  == NextVersion(seen[c].version)
    IN  /\ pc[c] = "write"
        /\ row' = [version |-> version, contents |-> contents]
        /\ acked' = (acked \ GivenUp(c)) \cup {edit}
        /\ Shown(c, contents, version)
        /\ Goto(c, "idle")
        /\ UNCHANGED <<replaced, made, sent, copy>>

-----------------------------------------------------------------------------
(* POST /workflows/{id}/refresh *)

\* service.get_workflow and rebuild_workflow work on the memory store.
BeginRefresh(c) ==
    /\ MayStart(c)
    /\ replaced < MaxReplacements
    /\ Goto(c, "ensure")
    /\ UNCHANGED <<row, replaced, seen, made, sent, copy, acked>>

EnsureRow(c) ==
    /\ pc[c] = "ensure"
    /\ Replace
    /\ Goto(c, "recheck")
    /\ UNCHANGED <<seen, made, sent, copy>>

RefreshCheck(c) ==
    /\ pc[c] = "recheck"
    /\ Goto(c, IF VersionMatches(1) THEN "rewrite" ELSE "idle")
    /\ UNCHANGED <<row, replaced, seen, made, sent, copy, acked>>

RefreshWrite(c) ==
    /\ pc[c] = "rewrite"
    /\ row' = [version |-> NextVersion(1), contents |-> {}]
    /\ Shown(c, {}, NextVersion(1))
    /\ Goto(c, "idle")
    /\ UNCHANGED <<replaced, made, sent, copy, acked>>

\* On Lambda the database is in the container's /tmp: a new container has none.
Restart ==
    /\ row # NoRow
    /\ replaced < MaxReplacements
    /\ \A c \in Clients : pc[c] = "idle"
    /\ row' = NoRow
    /\ acked' = {}
    /\ UNCHANGED <<replaced, seen, made, sent, pc, copy>>

-----------------------------------------------------------------------------
Next ==
    \/ \E c \in Clients :
         \/ Read(c) \/ SendEdit(c) \/ GetCopy(c) \/ CheckVersion(c) \/ WriteRow(c)
         \/ BeginRefresh(c) \/ EnsureRow(c) \/ RefreshCheck(c) \/ RefreshWrite(c)
    \/ Restart

Spec == Init /\ [][Next]_vars

-----------------------------------------------------------------------------
(* Properties *)

\* "Transactional V2 workspace state": an acknowledged edit is in the row, until the
\* row is written from the memory store or a user who has seen the edit takes it out.
NoLostEdit == acked \subseteq row.contents

\* The row has been written from the memory store again: its versions, which then
\* start at 1 once more, are numbers that users may already hold.
VersionsReused == replaced > 0

\* What save's check gives to handlers that do not overlap.  Updates and decisions
\* are kept under any version.  Edits of tasks are kept as long as no version is
\* used twice: a revision, which replaces every task, is then refused to a user who
\* has not seen them all.
EditsSurvive ==
    \A e \in acked :
      e \in row.contents \/ (VersionsReused /\ e.kind # "update")

\* As long as no version is used twice, it stands for one state of the row: a user
\* whose version is still current has seen the current contents, so whoever passes
\* save's check makes the edit knowing what it applies to.
VersionIdentifiesContents ==
    ~VersionsReused =>
      \A c \in Clients : seen[c].version = row.version => seen[c].contents = row.contents

\* "This workflow changed. Reload it before making another update.": a user whose
\* edit passes the check has seen the workflow that the edit is applied to.
AcceptedHasSeenRow ==
    \A c \in Clients : pc[c] = "write" => copy[c] = seen[c].contents
=============================================================================
