-------------------------- MODULE PriorityDecision --------------------------
(***************************************************************************)
(* The priority decision aggregate: backend/internal/service/              *)
(* priority_decision.go over repository/priority_decision.go, as it is     *)
(* reached from handler/priority_decision.go.                              *)
(*                                                                         *)
(* A request is served by a goroutine of its own, and every call it makes  *)
(* on the database is a step: the first read with the checks made on it,   *)
(* the transaction that writes the row and its revision, the audit entry,  *)
(* and the two queries (row, then revisions) the reply is read back with.  *)
(* Between two steps of a request any other request may take any step.     *)
(*                                                                         *)
(* A row is named by its code: ids are never reused, and the unique index  *)
(* on codes spans soft deleted rows.  "Content" stands for the business    *)
(* fields and the evidence, after trimming.                                *)
(***************************************************************************)
EXTENDS Naturals, FiniteSets

CONSTANTS
    Requests,       \* request ids, each served once
    Users,          \* user names
    Role,           \* the role in each user's token
    Codes,          \* codes of decisions, seeded or not yet used
    Contents,       \* business fields and evidence, as one value
    Blank,          \* content that is empty once trimmed
    Targets,        \* statuses that callers ask for
    Ops,            \* the operations that callers issue
    SeedStatus,     \* status of each seeded code
    SeedPreparer, SeedReviewer, SeedContent,
    Speculative,    \* callers may name versions they have not been shown
    MaxVersion,     \* largest version a speculative caller names (a bound)
    Faults,         \* database calls fail and the server crashes
    None            \* no value

Roles    == {"viewer", "operator", "reviewer", "admin"}
Statuses == {"draft", "observe", "restrict", "urgent"}
AllOps   == {"create", "update", "transition", "delete", "get"}
Changes  == {"create", "update", "transition"}   \* operations that add a revision

SeedCodes == DOMAIN SeedStatus

Row == [version : Nat \ {0}, status : Statuses, content : Contents,
        deleted : BOOLEAN, preparedBy : Users]

ASSUME CallersAssumption ==
    /\ Role \in [Users -> Roles]
    /\ Ops \subseteq AllOps
    /\ Speculative \in BOOLEAN
    /\ Faults \in BOOLEAN
    /\ MaxVersion \in Nat

ASSUME SeedAssumption ==
    /\ SeedCodes \subseteq Codes
    /\ SeedStatus \in [SeedCodes -> Statuses]
    /\ SeedPreparer \in Users
    /\ SeedReviewer \in Users \ {SeedPreparer}
    /\ Role[SeedReviewer] \in {"reviewer", "admin"}
    /\ SeedContent \in Contents

ASSUME SentinelAssumption ==
    /\ "seed" \notin Requests
    /\ Blank \notin Contents
    /\ None \notin Row

VARIABLES
    rows,       \* priority_decisions: a row per used code
    revisions,  \* priority_decision_revisions
    audits,     \* audit_logs, the entries about priority decisions
    stage,      \* where each request is, or how it was answered
    call,       \* what each request asks for
    snap,       \* the row each request read first
    view        \* what the reply shows: a version, and the revisions listed

tables  == <<rows, revisions, audits>>
vars    == <<rows, revisions, audits, stage, call, snap, view>>

InFlight == {"commit", "audit", "row", "history"}
Refused  == {"forbidden", "business_rule", "not_found", "conflict"}
Answered == Refused \cup {"ok", "internal", "lost"}

Revision == [code : Codes, version : Nat \ {0}, status : Statuses,
             content : Contents, actor : Users, request : Requests \cup {"seed"}]

AuditEntry == [code : Codes, actor : Users, request : Requests, action : AllOps,
               before : Statuses \cup {None}, after : Statuses \cup {"deleted"}]

Call == [code : Codes, content : Contents \cup {None},
         target : Statuses \cup {None}, op : AllOps, user : Users, expected : Nat]

-----------------------------------------------------------------------------
(* The status graph and the checks made before anything is written.        *)

PriorityDecisionTransitions ==
    {<<"draft", "observe">>, <<"draft", "restrict">>, <<"draft", "urgent">>}

CanTransition(from, to) == <<from, to>> \in PriorityDecisionTransitions

CanWrite(u)  == Role[u] \in {"operator", "reviewer", "admin"}
CanReview(u) == Role[u] \in {"reviewer", "admin"}
IsAdmin(u)   == Role[u] = "admin"

\* Get: the row of c as the default (not soft deleted) scope shows it.
Live(c) == rows[c] # None /\ ~rows[c].deleted

CreateVerdict(u, content) ==
    IF ~CanWrite(u) THEN "forbidden"
    ELSE IF content = Blank THEN "business_rule"
    ELSE "commit"

\* Mutant: the status check of Update is forgotten.
UnlockedUpdateVerdict(u, c, content) ==
    IF ~CanWrite(u) THEN "forbidden"
    ELSE IF ~Live(c) THEN "not_found"
    ELSE IF u # rows[c].preparedBy /\ ~IsAdmin(u) THEN "forbidden"
    ELSE IF content = Blank THEN "business_rule"
    ELSE "commit"

\* Mutant: anyone who may write may edit any draft.
OwnerlessUpdateVerdict(u, c, content) ==
    IF ~CanWrite(u) THEN "forbidden"
    ELSE IF ~Live(c) THEN "not_found"
    ELSE IF rows[c].status # "draft" \/ content = Blank THEN "business_rule"
    ELSE "commit"

UpdateVerdict(u, c, content) ==
    IF ~CanWrite(u) THEN "forbidden"
    ELSE IF ~Live(c) THEN "not_found"
    ELSE IF rows[c].status # "draft" THEN "business_rule"
    ELSE IF u # rows[c].preparedBy /\ ~IsAdmin(u) THEN "forbidden"
    ELSE IF content = Blank THEN "business_rule"
    ELSE "commit"

\* Mutant: the separation of duties is forgotten.
SelfReviewVerdict(u, c, target) ==
    IF ~CanWrite(u) THEN "forbidden"
    ELSE IF ~Live(c) THEN "not_found"
    ELSE IF ~CanReview(u) THEN "forbidden"
    ELSE IF ~CanTransition(rows[c].status, target) THEN "business_rule"
    ELSE "commit"

TransitionVerdict(u, c, target) ==
    IF ~CanWrite(u) THEN "forbidden"
    ELSE IF ~Live(c) THEN "not_found"
    ELSE IF ~CanReview(u) THEN "forbidden"
    ELSE IF u = rows[c].preparedBy THEN "business_rule"
    ELSE IF ~CanTransition(rows[c].status, target) THEN "business_rule"
    ELSE "commit"

DeleteVerdict(u, c) ==
    IF ~IsAdmin(u) THEN "forbidden"
    ELSE IF ~Live(c) THEN "not_found"
    ELSE IF rows[c].status # "draft" THEN "business_rule"
    ELSE "commit"

\* The version a caller names.  A page shows a version the row has had; a
\* speculative caller may name one it will only have later.
Expected(c) ==
    IF Speculative THEN 1 .. MaxVersion
    ELSE IF rows[c] = None THEN {1}
    ELSE 1 .. rows[c].version

-----------------------------------------------------------------------------
(* The rows, revisions and audit entries that requests write.              *)

\* Mutant: a new row has no preparer.
CreatedUnowned(q) ==
    [version |-> 1, status |-> "draft", content |-> q.content, deleted |-> FALSE,
     preparedBy |-> None]

Created(q) ==
    [version |-> 1, status |-> "draft", content |-> q.content, deleted |-> FALSE,
     preparedBy |-> q.user]

\* Update and Transition write the row they read, changed, under the
\* version that follows the one the caller named.
Edited(q, row) ==
    [row EXCEPT !.content = q.content, !.version = q.expected + 1]

Finalized(q, row) ==
    [row EXCEPT !.status = q.target, !.version = q.expected + 1]

\* Select("*") without PreparedBy and DeletedAt: the other columns are replaced.
Overwritten(row, item) ==
    [version |-> item.version, status |-> item.status, content |-> item.content,
     deleted |-> row.deleted, preparedBy |-> row.preparedBy]

\* Mutant: the revision is built before the new version is assigned.
UnbumpedRevision(r, item) ==
    [code |-> call[r].code, version |-> IF snap[r] = None THEN 1 ELSE snap[r].version,
     status |-> item.status, content |-> item.content, actor |-> call[r].user,
     request |-> r]

\* Mutant: the revision is built before the business fields are assigned.
StaleRevision(r, item) ==
    [code |-> call[r].code, version |-> item.version, status |-> item.status,
     content |-> IF snap[r] = None THEN item.content ELSE snap[r].content,
     actor |-> call[r].user, request |-> r]

newPriorityRevision(r, item) ==
    [code |-> call[r].code, version |-> item.version, status |-> item.status,
     content |-> item.content, actor |-> call[r].user, request |-> r]

\* Mutant: the state before is read after the status is assigned.
LateAuditOf(r) ==
    LET q == call[r]
        status == rows[q.code].status
    IN  [code |-> q.code, actor |-> q.user, request |-> r, action |-> q.op,
         before |-> IF q.op = "create" THEN None ELSE status,
         after  |-> IF q.op = "delete" THEN "deleted" ELSE status]

\* The entry a request asks the security service to append.
AuditOf(r) ==
    LET q == call[r]
    IN  [code |-> q.code, actor |-> q.user, request |-> r, action |-> q.op,
         before |-> IF q.op = "create" THEN None ELSE snap[r].status,
         after  |-> IF q.op = "transition" THEN q.target
                    ELSE IF q.op = "delete" THEN "deleted"
                    ELSE IF q.op = "create" THEN "draft"
                    ELSE snap[r].status]

-----------------------------------------------------------------------------
SeedRow(c) ==
    [version |-> IF SeedStatus[c] = "draft" THEN 1 ELSE 2, status |-> SeedStatus[c],
     content |-> SeedContent, deleted |-> FALSE, preparedBy |-> SeedPreparer]

SeedRevisions ==
    { [code |-> c, version |-> 1, status |-> "draft", content |-> SeedContent,
       actor |-> SeedPreparer, request |-> "seed"] : c \in SeedCodes }
    \cup
    { [code |-> c, version |-> 2, status |-> SeedStatus[c], content |-> SeedContent,
       actor |-> SeedReviewer, request |-> "seed"] :
           c \in {d \in SeedCodes : SeedStatus[d] # "draft"} }

Init ==
    /\ rows = [c \in Codes |-> IF c \in SeedCodes THEN SeedRow(c) ELSE None]
    /\ revisions = SeedRevisions
    /\ audits = {}
    /\ stage = [r \in Requests |-> "idle"]
    /\ call = [r \in Requests |-> None]
    /\ snap = [r \in Requests |-> None]
    /\ view = [r \in Requests |-> None]

-----------------------------------------------------------------------------
(* A request arrives, passes the role gates, and is judged on the row its   *)
(* first query returns.  A refused request changes nothing.                *)

Arrive(r, verdict, q, row) ==
    /\ stage[r] = "idle"
    /\ q.op \in Ops
    /\ stage' = [stage EXCEPT ![r] = verdict]
    /\ call' = [call EXCEPT ![r] = IF verdict = "commit" THEN q ELSE None]
    /\ snap' = [snap EXCEPT ![r] = IF verdict = "commit" THEN row ELSE None]
    /\ UNCHANGED <<tables, view>>

CreateArrives(r, u, c, content) ==
    Arrive(r, CreateVerdict(u, content),
           [code |-> c, content |-> content, target |-> None, op |-> "create",
            user |-> u, expected |-> 0], None)

UpdateArrives(r, u, c, expected, content) ==
    Arrive(r, UpdateVerdict(u, c, content),
           [code |-> c, content |-> content, target |-> None, op |-> "update",
            user |-> u, expected |-> expected], rows[c])

TransitionArrives(r, u, c, expected, target) ==
    Arrive(r, TransitionVerdict(u, c, target),
           [code |-> c, content |-> None, target |-> target, op |-> "transition",
            user |-> u, expected |-> expected], rows[c])

DeleteArrives(r, u, c) ==
    Arrive(r, DeleteVerdict(u, c),
           [code |-> c, content |-> None, target |-> None, op |-> "delete",
            user |-> u, expected |-> 0], rows[c])

\* A read is the reply's two queries and nothing else.
GetArrives(r, u, c) ==
    /\ stage[r] = "idle"
    /\ "get" \in Ops
    /\ stage' = [stage EXCEPT ![r] = "row"]
    /\ call' = [call EXCEPT ![r] = [code |-> c, content |-> None, target |-> None,
                                    op |-> "get", user |-> u, expected |-> 0]]
    /\ UNCHANGED <<tables, snap, view>>

Arrival(r) ==
    \E u \in Users, c \in Codes :
        \/ \E k \in Contents \cup {Blank} :
              \/ CreateArrives(r, u, c, k)
              \/ \E e \in Expected(c) : UpdateArrives(r, u, c, e, k)
        \/ \E t \in Targets, e \in Expected(c) : TransitionArrives(r, u, c, e, t)
        \/ DeleteArrives(r, u, c)
        \/ GetArrives(r, u, c)

-----------------------------------------------------------------------------
(* The transactions.                                                       *)

Committing(r, op) == stage[r] = "commit" /\ call[r].op = op

\* CreateWithRevision: the unique index on codes decides.
CreateCommit(r) ==
    /\ Committing(r, "create")
    /\ LET c == call[r].code
           item == Created(call[r])
       IN  \/ /\ rows[c] = None
              /\ rows' = [rows EXCEPT ![c] = item]
              /\ revisions' = revisions \cup {newPriorityRevision(r, item)}
              /\ stage' = [stage EXCEPT ![r] = "audit"]
           \/ /\ rows[c] # None
              /\ stage' = [stage EXCEPT ![r] = "internal"]
              /\ UNCHANGED <<rows, revisions>>
    /\ UNCHANGED <<audits, call, snap, view>>

\* Mutant: soft deleted rows are updated too.
UnscopedVersionMatches(c, expected) == rows[c].version = expected

\* UPDATE ... WHERE id = ? AND version = ?, in the default scope.
VersionMatches(c, expected) == Live(c) /\ rows[c].version = expected

\* The unique index on (decision, version).
VersionRecorded(c, version) ==
    \E v \in revisions : v.code = c /\ v.version = version

\* RowsAffected = 0 is reported as a conflict.  Mutants: it is ignored, and the
\* handler goes on; the write is tried again as it is.
SwallowedConflict == "audit"
RetriedConflict == "commit"
ErrVersionConflict == "conflict"

\* Mutant: SET version = version + 1 WHERE id = ?, without the version check.
UpdateUnlocked(r, item) ==
    LET c == call[r].code
        next == [item EXCEPT !.version = rows[c].version + 1]
    IN  /\ rows' = [rows EXCEPT ![c] = Overwritten(rows[c], next)]
        /\ revisions' = revisions \cup {newPriorityRevision(r, next)}
        /\ stage' = [stage EXCEPT ![r] = "audit"]
        /\ UNCHANGED <<audits, call, snap, view>>

\* Mutant: the revision is inserted first, outside the transaction.
RevisionFirst(r, item) ==
    LET c == call[r].code
        matches == VersionMatches(c, call[r].expected)
        commits == matches /\ ~VersionRecorded(c, item.version)
    IN  /\ rows' = IF commits
                   THEN [rows EXCEPT ![c] = Overwritten(rows[c], item)]
                   ELSE rows
        /\ revisions' = IF VersionRecorded(c, item.version) THEN revisions
                        ELSE revisions \cup {newPriorityRevision(r, item)}
        /\ stage' = [stage EXCEPT ![r] = IF commits THEN "audit" ELSE "conflict"]
        /\ UNCHANGED <<audits, call, snap, view>>

\* One transaction: the row is replaced if it still has the version the
\* caller named, and the revision is inserted; else nothing is.
UpdateWithRevision(r, item) ==
    LET c == call[r].code
        matches == VersionMatches(c, call[r].expected)
        commits == matches /\ ~VersionRecorded(c, item.version)
    IN  /\ rows' = IF commits
                   THEN [rows EXCEPT ![c] = Overwritten(rows[c], item)]
                   ELSE rows
        /\ revisions' = IF commits
                        THEN revisions \cup {newPriorityRevision(r, item)}
                        ELSE revisions
        /\ stage' = [stage EXCEPT ![r] = IF commits THEN "audit"
                                         ELSE IF matches THEN "internal"
                                         ELSE ErrVersionConflict]
        /\ UNCHANGED <<audits, call, snap, view>>

UpdateCommit(r) ==
    Committing(r, "update") /\ UpdateWithRevision(r, Edited(call[r], snap[r]))

TransitionCommit(r) ==
    Committing(r, "transition") /\ UpdateWithRevision(r, Finalized(call[r], snap[r]))

\* Store.Delete: soft delete by id alone.
DeleteCommit(r) ==
    /\ Committing(r, "delete")
    /\ LET c == call[r].code
       IN  \/ /\ Live(c)
              /\ rows' = [rows EXCEPT ![c].deleted = TRUE]
              /\ stage' = [stage EXCEPT ![r] = "audit"]
           \/ /\ ~Live(c)
              /\ stage' = [stage EXCEPT ![r] = "not_found"]
              /\ UNCHANGED rows
    /\ UNCHANGED <<revisions, audits, call, snap, view>>

-----------------------------------------------------------------------------
(* The audit entry, and the reply.                                         *)

\* Mutant: only what is still a draft is audited.
AuditDrafts(r) ==
    /\ stage[r] = "audit"
    /\ audits' = IF rows[call[r].code].status = "draft" THEN audits \cup {AuditOf(r)}
                                                       ELSE audits
    /\ stage' = [stage EXCEPT ![r] = IF call[r].op = "delete" THEN "ok" ELSE "row"]
    /\ snap' = [snap EXCEPT ![r] = None]
    /\ UNCHANGED <<rows, revisions, call, view>>

Audit(r) ==
    /\ stage[r] = "audit"
    /\ audits' = audits \cup {AuditOf(r)}
    /\ stage' = [stage EXCEPT ![r] = IF call[r].op = "delete" THEN "ok" ELSE "row"]
    /\ snap' = [snap EXCEPT ![r] = None]
    /\ UNCHANGED <<rows, revisions, call, view>>

ReplyRow(r) ==
    /\ stage[r] = "row"
    /\ LET c == call[r].code
       IN  \/ /\ Live(c)
              /\ view' = [view EXCEPT ![r] = [version |-> rows[c].version, shown |-> {}]]
              /\ stage' = [stage EXCEPT ![r] = "history"]
           \/ /\ ~Live(c)
              /\ stage' = [stage EXCEPT ![r] = "not_found"]
              /\ UNCHANGED view
    /\ UNCHANGED <<tables, call, snap>>

ReplyHistory(r) ==
    /\ stage[r] = "history"
    /\ view' = [view EXCEPT ![r].shown =
                 {v.version : v \in {w \in revisions : w.code = call[r].code}}]
    /\ stage' = [stage EXCEPT ![r] = "ok"]
    /\ UNCHANGED <<tables, call, snap>>

Serve(r) ==
    \/ CreateCommit(r) \/ UpdateCommit(r) \/ TransitionCommit(r) \/ DeleteCommit(r)
    \/ Audit(r)
    \/ ReplyRow(r) \/ ReplyHistory(r)

-----------------------------------------------------------------------------
(* Failures: the caller hangs up or a database call fails, or the server   *)
(* stops and every request in flight is lost with it.                      *)

\* A read fails, or a transaction is rolled back.
CallFails(r) ==
    /\ Faults
    /\ stage[r] \in {"idle", "commit", "row", "history"}
    /\ stage' = [stage EXCEPT ![r] = "internal"]
    /\ UNCHANGED <<tables, call, snap, view>>

\* Mutant: Transition ignores a failed audit too.
AuditFailureIgnored(r) ==
    /\ Faults
    /\ stage[r] = "audit"
    /\ stage' = [stage EXCEPT ![r] = IF call[r].op = "delete" THEN "internal" ELSE "row"]
    /\ snap' = [snap EXCEPT ![r] = None]
    /\ UNCHANGED <<tables, call, view>>

\* Create and Update ignore a failed audit; Transition and Delete report it.
AuditFails(r) ==
    /\ Faults
    /\ stage[r] = "audit"
    /\ stage' = [stage EXCEPT ![r] = IF call[r].op \in {"create", "update"}
                                     THEN "row" ELSE "internal"]
    /\ snap' = [snap EXCEPT ![r] = None]
    /\ UNCHANGED <<tables, call, view>>

Crash ==
    /\ Faults
    /\ \E r \in Requests : stage[r] \in InFlight
    /\ stage' = [r \in Requests |-> IF stage[r] \in InFlight THEN "lost" ELSE stage[r]]
    /\ UNCHANGED <<tables, call, snap, view>>

\* Every request has been answered: the server waits.
Quiet ==
    /\ \A r \in Requests : stage[r] \in Answered
    /\ UNCHANGED vars

Next ==
    \/ \E r \in Requests : Arrival(r) \/ Serve(r) \/ CallFails(r) \/ AuditFails(r)
    \/ Crash
    \/ Quiet

Spec == Init /\ [][Next]_vars

\* Every handler runs in a goroutine of its own and its calls return.
Fairness == \A r \in Requests : WF_vars(Serve(r))

FairSpec == Spec /\ Fairness

-----------------------------------------------------------------------------
(* What the aggregate promises.                                            *)

\* The state has its shape: every table, and what a request's record holds at
\* each stage of serving it.
TypeOK ==
    /\ rows \in [Codes -> Row \cup {None}]
    /\ revisions \subseteq Revision
    /\ audits \subseteq AuditEntry
    /\ stage \in [Requests -> {"idle"} \cup InFlight \cup Answered]
    /\ call \in [Requests -> Call \cup {None}]
    /\ snap \in [Requests -> Row \cup {None}]
    /\ view \in [Requests -> [version : Nat, shown : SUBSET Nat] \cup {None}]
    /\ \A r \in Requests :
          /\ stage[r] \in InFlight => call[r] \in Call
          /\ stage[r] \in {"commit", "audit"} =>
                /\ call[r].op \in Changes \cup {"delete"}
                /\ call[r].op # "create" => snap[r] \in Row
                /\ call[r].op \in {"create", "update"} => call[r].content \in Contents
                /\ call[r].op = "transition" => call[r].target \in Statuses
          /\ stage[r] = "history" => view[r] \in [version : Nat, shown : SUBSET Nat]

\* A decision's revisions are numbered 1 .. version without a gap or a
\* duplicate, and the one at the row's version says what the row says: the row
\* and its history never part, whoever writes, in whatever order (the claim of
\* model/priority_decision.go:29 about the shared transaction).
RevisionChain ==
    /\ \A v \in revisions : /\ rows[v.code] # None
                            /\ v.version <= rows[v.code].version
    /\ \A v, w \in revisions : v.code = w.code /\ v.version = w.version => v = w
    /\ \A c \in Codes : rows[c] # None =>
           \A n \in 1 .. rows[c].version :
               \E v \in revisions : v.code = c /\ v.version = n
    /\ \A v \in revisions : v.version = rows[v.code].version =>
           v.status = rows[v.code].status /\ v.content = rows[v.code].content

\* Every revision that finalizes a decision was made by a reviewer or admin who
\* did not prepare it; every other one by its preparer or an admin.  It holds for
\* callers that guess versions too: the checks read fields no write can change.
IndependentReview ==
    \A v \in revisions :
        IF v.status = "draft"
        THEN v.actor = rows[v.code].preparedBy \/ IsAdmin(v.actor)
        ELSE v.actor # rows[v.code].preparedBy /\ CanReview(v.actor)

\* Nothing follows a final revision: for callers that name versions they were
\* shown, the stale row Update and Transition judge never lets a later write in.
ReviewIsFinal ==
    \A v \in revisions : v.status # "draft" => v.version = rows[v.code].version

\* A reviewer finalizes the evidence the revision before recorded: a draft edit
\* that commits between the review's read and its write is never swallowed.
ReviewedContentKept ==
    \A v, w \in revisions :
        v.code = w.code /\ v.status # "draft" /\ v.version = w.version + 1
            => v.content = w.content

\* What the steps between a request's read and its write rely on: the row it
\* read was a draft, is no newer than the table's, equals it when the versions
\* agree, and passed the checks of the operation.
SnapshotsHold ==
    \A r \in Requests : stage[r] = "commit" /\ call[r].op \in {"update", "transition"} =>
        LET row == rows[call[r].code]
        IN  /\ row # None
            /\ snap[r].status = "draft"
            /\ snap[r].preparedBy = row.preparedBy
            /\ snap[r].version <= row.version
            /\ snap[r].version = row.version =>
                   snap[r].status = row.status /\ snap[r].content = row.content
            /\ ~Speculative => call[r].expected <= snap[r].version
            /\ IF call[r].op = "update"
               THEN call[r].user = row.preparedBy \/ IsAdmin(call[r].user)
               ELSE /\ call[r].user # row.preparedBy /\ CanReview(call[r].user)
                    /\ call[r].target # "draft"

\* A caller who is told 403, 409 or 422 changed nothing, and left no entry in the
\* history or the audit log; 404 after a write means the decision was deleted while
\* the reply was read; and 409 is told only to a caller who lost: the version it
\* wanted to write is another's, or the decision is gone.
RefusalsAreTrue ==
    \A r \in Requests :
        LET mine == {v \in revisions : v.request = r}
                        \cup {a \in audits : a.request = r}
        IN  /\ stage[r] \in Refused \ {"not_found"} => mine = {}
            /\ stage[r] = "not_found" => \A m \in mine : ~Live(m.code)
            /\ stage[r] = "conflict" /\ Live(call[r].code) =>
                   \E v \in revisions : /\ v.code = call[r].code
                                        /\ v.version = call[r].expected + 1
                                        /\ v.request # r

\* A write that was acknowledged is in the history once, at the version after the
\* one its caller named, as its caller asked, and the reply already shows it.
AcknowledgedIsRecorded ==
    \A r \in Requests : stage[r] = "ok" /\ call[r].op \in Changes =>
        /\ Cardinality({v \in revisions : v.request = r}) = 1
        /\ \E v \in revisions :
              /\ v.request = r
              /\ v.code = call[r].code
              /\ v.actor = call[r].user
              /\ v.version = call[r].expected + 1
              /\ IF call[r].op = "transition" THEN v.status = call[r].target
                                               ELSE v.content = call[r].content
              /\ v.version <= view[r].version
              /\ v.version \in view[r].shown

\* The two queries of a reply are not one snapshot, but a page never shows a
\* version whose history it does not list: the row is read before its revisions.
ReadCoversHistory ==
    \A r \in Requests : stage[r] = "ok" /\ call[r].op # "delete" =>
        1 .. view[r].version \subseteq view[r].shown

\* An audit entry about a change names a revision of the same request, with the
\* status it reached, and the status before it is the previous revision's.
AuditTruthful ==
    \A a \in audits : a.action \in Changes =>
        \E v \in revisions :
            /\ v.request = a.request
            /\ v.code = a.code /\ v.actor = a.actor /\ v.status = a.after
            /\ v.version > 1 => \E w \in revisions :
                   /\ w.code = v.code /\ w.version + 1 = v.version
                   /\ w.status = a.before

\* A transition or deletion that was acknowledged is in the audit log, even when
\* audit writes fail: their error is reported, where Create and Update drop it.
AcknowledgedIsAudited ==
    \A r \in Requests : stage[r] = "ok" /\ call[r].op \in {"transition", "delete"} =>
        \E a \in audits : a.request = r /\ a.action = call[r].op

\* Every final status in the history has its audit entry once the request that
\* set it is over (README.md:42 "every change of status ... is written to the
\* audit log").
EveryReviewAudited ==
    \A v \in revisions :
        v.status # "draft" /\ v.request # "seed" /\ stage[v.request] \in Answered
            => \E a \in audits : a.request = v.request

\* A decision that was finalized stays: service/errors.go:10 "final priority
\* decisions are immutable".
FinalDecisionsStay ==
    \A c \in Codes : rows[c] # None /\ rows[c].status # "draft" => ~rows[c].deleted

\* What one step may do to the tables: add one revision for a row that changes, at
\* the version after the row's, or delete a row that is live.
HistoryStep ==
    /\ revisions \subseteq revisions'
    /\ \A v \in revisions' \ revisions : rows'[v.code] # rows[v.code]
    /\ \A c \in Codes : rows'[c] # rows[c] =>
          LET added == {v \in revisions' \ revisions : v.code = c}
          IN  IF rows[c] = None
              THEN rows'[c].version = 1 /\ \E v \in added : added = {v} /\ v.version = 1
              ELSE /\ ~rows[c].deleted
                   /\ rows'[c].preparedBy = rows[c].preparedBy
                   /\ \/ rows'[c] = [rows[c] EXCEPT !.deleted = TRUE] /\ added = {}
                      \/ /\ rows'[c].version = rows[c].version + 1
                         /\ ~rows'[c].deleted
                         /\ \E v \in added : added = {v} /\ v.version = rows'[c].version

\* No step rewrites history: revisions are only added, one for each change of a
\* row; the preparer never changes, and a deleted decision never returns or
\* changes again.
HistoryGrowsWithRow == [][HistoryStep]_vars

\* Every request that has begun is answered; no request waits for another.
EveryRequestAnswered ==
    \A r \in Requests : stage[r] \in InFlight ~> stage[r] \in Answered

\* Where no call fails, every change that commits reaches the audit log.
EveryChangeAudited ==
    \A r \in Requests :
        (\E v \in revisions : v.request = r) ~> (\E a \in audits : a.request = r)

=============================================================================
