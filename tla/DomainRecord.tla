---------------------------- MODULE DomainRecord ----------------------------
(***************************************************************************)
(* The services that keep bridges, inspection rounds and defect findings:   *)
(* one code three times over (backend/internal/service/bridge_asset.go,     *)
(* inspection_round.go, defect_finding.go), apart from the status graph and *)
(* the initial status, on the generic Store of repository/base.go.  They    *)
(* share the requests and the audit log; each has its own table, and a code *)
(* here belongs to one of them.                                            *)
(*                                                                         *)
(* A request's steps are its calls on the database: the first read with the *)
(* checks made on it, one conditional write, the audit entry, and the read  *)
(* the reply is made from.  Unlike a priority decision, a record has no     *)
(* owner, no final status and no history, and any status may be deleted.   *)
(***************************************************************************)
EXTENDS Naturals, FiniteSets

CONSTANTS
    Requests,       \* request ids, each served once
    Users,          \* user names
    Role,           \* the role in each user's token
    Codes,          \* codes of records, seeded or not yet used
    Service,        \* the service that keeps each code: [initial, graph]
    Contents,       \* business fields, as one value
    Blank,          \* content with a required field that is empty once trimmed
    Statuses,       \* statuses of all graphs
    Targets,        \* statuses that callers ask for
    Ops,            \* the operations that callers issue
    SeedStatus,     \* status of each seeded code
    SeedContent,
    Speculative,    \* callers may name versions they have not been shown
    MaxVersion,     \* largest version a speculative caller names (a bound)
    Faults,         \* database calls fail and the server crashes
    None            \* no value

AllOps    == {"create", "update", "transition", "delete"}
Writes    == {"update", "transition"}    \* operations under a version
SeedCodes == DOMAIN SeedStatus

Row == [status : Statuses, version : Nat \ {0}, content : Contents, deleted : BOOLEAN]

Call == [content : Contents \cup {None}, op : AllOps, user : Users, code : Codes,
         expected : Nat, target : Statuses \cup {None}]

ASSUME RecordCallers ==
    /\ Role \in [Users -> {"viewer", "operator", "reviewer", "admin"}]
    /\ Ops \subseteq AllOps
    /\ Speculative \in BOOLEAN
    /\ Faults \in BOOLEAN
    /\ MaxVersion \in Nat

ASSUME RecordSeeds ==
    /\ SeedCodes \subseteq Codes
    /\ SeedStatus \in [SeedCodes -> Statuses]
    /\ SeedContent \in Contents

ASSUME RecordGraphs ==
    \A c \in Codes : /\ Service[c].initial \in Statuses
                     /\ Service[c].graph \subseteq Statuses \X Statuses

ASSUME RecordSentinels ==
    /\ Blank \notin Contents
    /\ None \notin Statuses /\ "deleted" \notin Statuses
    /\ None \notin Row /\ None \notin Call
    /\ None \notin [status : Statuses, version : Nat \ {0}, content : Contents]

VARIABLES
    rows,       \* the table: a row per used code
    audits,     \* audit_logs, the entries about these records
    stage,      \* where each request is, or how it was answered
    call,       \* what each request asks for
    snap,       \* the row each request read first
    view        \* the row each reply shows

vars == <<rows, audits, stage, call, snap, view>>

InFlight == {"commit", "audit", "reply"}
Answered == {"forbidden", "business_rule", "not_found", "conflict",
             "ok", "internal", "lost"}

AuditEntry == [code : Codes, request : Requests, actor : Users, action : AllOps,
               before : Statuses \cup {None}, after : Statuses \cup {"deleted"}]

-----------------------------------------------------------------------------
(* The checks made before anything is written.                             *)

CanTransition(c, from, to) == <<from, to>> \in Service[c].graph

CanWrite(u) == Role[u] \in {"operator", "reviewer", "admin"}
IsAdmin(u)  == Role[u] = "admin"

\* Get: the row of c as the default (not soft deleted) scope shows it.
Live(c) == rows[c] # None /\ ~rows[c].deleted

CreateVerdict(u, content) ==
    IF ~CanWrite(u) THEN "forbidden"
    ELSE IF content = Blank THEN "business_rule"
    ELSE "commit"

UpdateVerdict(u, c, content) ==
    IF ~CanWrite(u) THEN "forbidden"
    ELSE IF ~Live(c) THEN "not_found"
    ELSE IF content = Blank THEN "business_rule"
    ELSE "commit"

\* Mutant: the graph is not consulted.
AnyTargetVerdict(u, c, target) ==
    IF ~CanWrite(u) THEN "forbidden"
    ELSE IF ~Live(c) THEN "not_found"
    ELSE "commit"

TransitionVerdict(u, c, target) ==
    IF ~CanWrite(u) THEN "forbidden"
    ELSE IF ~Live(c) THEN "not_found"
    ELSE IF ~CanTransition(c, rows[c].status, target) THEN "business_rule"
    ELSE "commit"

DeleteVerdict(u, c) ==
    IF ~IsAdmin(u) THEN "forbidden"
    ELSE IF ~Live(c) THEN "not_found"
    ELSE "commit"

\* The version a caller names.  A page shows a version the row has had; a
\* speculative caller may name one it will only have later.
Expected(c) ==
    IF Speculative THEN 1 .. MaxVersion
    ELSE IF rows[c] = None THEN {1}
    ELSE 1 .. rows[c].version

-----------------------------------------------------------------------------
(* The rows and audit entries that requests write.                         *)

NewRow(status, version, content) ==
    [status |-> status, version |-> version, content |-> content, deleted |-> FALSE]

\* Update replaces the business fields of the row it read, Transition its
\* status; both write it whole under the version after the caller's.
Edited(q, row) == NewRow(row.status, q.expected + 1, q.content)

Moved(q, row) == NewRow(q.target, q.expected + 1, row.content)

\* Select("*") without DeletedAt: the other columns are replaced.
Overwritten(row, item) ==
    [status |-> item.status, version |-> item.version, content |-> item.content,
     deleted |-> row.deleted]

\* Mutant: the status before is read after the write.
LateAuditOf(r) ==
    LET q == call[r]
        status == rows[q.code].status
    IN  [code |-> q.code, request |-> r, actor |-> q.user, action |-> q.op,
         before |-> IF q.op = "create" THEN None ELSE status,
         after  |-> IF q.op = "delete" THEN "deleted" ELSE status]

AuditOf(r) ==
    LET q == call[r]
    IN  [code |-> q.code, request |-> r, actor |-> q.user, action |-> q.op,
         before |-> IF q.op = "create" THEN None ELSE snap[r].status,
         after  |-> IF q.op = "transition" THEN q.target
                    ELSE IF q.op = "delete" THEN "deleted"
                    ELSE IF q.op = "create" THEN Service[q.code].initial
                    ELSE snap[r].status]

-----------------------------------------------------------------------------
SeedRows ==
    [c \in Codes |-> IF c \in SeedCodes THEN NewRow(SeedStatus[c], 1, SeedContent)
                     ELSE None]

Init ==
    /\ rows = SeedRows
    /\ audits = {}
    /\ stage = [r \in Requests |-> "idle"]
    /\ call = [r \in Requests |-> None]
    /\ snap = [r \in Requests |-> None]
    /\ view = [r \in Requests |-> None]

-----------------------------------------------------------------------------
(* A request arrives, passes the role gates, and is judged on the row its   *)
(* first query returns.                                                    *)

Arrive(r, verdict, q, row) ==
    /\ stage[r] = "idle"
    /\ q.op \in Ops
    /\ stage' = [stage EXCEPT ![r] = verdict]
    /\ call' = [call EXCEPT ![r] = IF verdict = "commit" THEN q ELSE None]
    /\ snap' = [snap EXCEPT ![r] = IF verdict = "commit" THEN row ELSE None]
    /\ UNCHANGED <<rows, audits, view>>

CreateArrives(r, u, c, content) ==
    Arrive(r, CreateVerdict(u, content),
           [content |-> content, op |-> "create", user |-> u, code |-> c,
            expected |-> 0, target |-> None], None)

UpdateArrives(r, u, c, expected, content) ==
    Arrive(r, UpdateVerdict(u, c, content),
           [content |-> content, op |-> "update", user |-> u, code |-> c,
            expected |-> expected, target |-> None], rows[c])

TransitionArrives(r, u, c, expected, target) ==
    Arrive(r, TransitionVerdict(u, c, target),
           [content |-> None, op |-> "transition", user |-> u, code |-> c,
            expected |-> expected, target |-> target], rows[c])

DeleteArrives(r, u, c) ==
    Arrive(r, DeleteVerdict(u, c),
           [content |-> None, op |-> "delete", user |-> u, code |-> c,
            expected |-> 0, target |-> None], rows[c])

-----------------------------------------------------------------------------
(* The one statement that writes.                                          *)

Committing(r, op) == stage[r] = "commit" /\ call[r].op = op

\* Store.Create: the unique index on codes, soft deleted ones included, decides.
CreateCommit(r) ==
    /\ Committing(r, "create")
    /\ LET c == call[r].code
       IN  \/ /\ rows[c] = None
              /\ rows' = [rows EXCEPT ![c] = NewRow(Service[c].initial, 1, call[r].content)]
              /\ stage' = [stage EXCEPT ![r] = "audit"]
           \/ /\ rows[c] # None
              /\ stage' = [stage EXCEPT ![r] = "internal"]
              /\ UNCHANGED rows
    /\ UNCHANGED <<audits, call, snap, view>>

\* Mutant: a version that is not the newest is good enough.
LooseVersionMatches(c, expected) == Live(c) /\ rows[c].version >= expected

\* Mutant: soft deleted rows are updated too.
UnscopedVersionMatches(c, expected) == rows[c].version = expected

\* UPDATE ... WHERE id = ? AND version = ?, in the default scope.
VersionMatches(c, expected) == Live(c) /\ rows[c].version = expected

\* Store.Update: no row affected is a conflict.
Update(r, item) ==
    LET c == call[r].code
    IN  /\ \/ /\ VersionMatches(c, call[r].expected)
              /\ rows' = [rows EXCEPT ![c] = Overwritten(rows[c], item)]
              /\ stage' = [stage EXCEPT ![r] = "audit"]
           \/ /\ ~VersionMatches(c, call[r].expected)
              /\ stage' = [stage EXCEPT ![r] = "conflict"]
              /\ UNCHANGED rows
        /\ UNCHANGED <<audits, call, snap, view>>

UpdateCommit(r) == Committing(r, "update") /\ Update(r, Edited(call[r], snap[r]))

TransitionCommit(r) ==
    Committing(r, "transition") /\ Update(r, Moved(call[r], snap[r]))

\* Mutant: nothing to delete is not an error.
DeleteMissing == "audit"

\* Store.Delete's answer when the soft delete, by id alone, finds no row.
ErrRecordNotFound == "not_found"

DeleteCommit(r) ==
    /\ Committing(r, "delete")
    /\ LET c == call[r].code
       IN  \/ /\ Live(c)
              /\ rows' = [rows EXCEPT ![c] = [@ EXCEPT !.deleted = TRUE]]
              /\ stage' = [stage EXCEPT ![r] = "audit"]
           \/ /\ ~Live(c)
              /\ stage' = [stage EXCEPT ![r] = ErrRecordNotFound]
              /\ UNCHANGED rows
    /\ UNCHANGED <<audits, call, snap, view>>

-----------------------------------------------------------------------------
(* The audit entry, and the reply: Create answers with the row it wrote,    *)
(* Update and Transition read the row again, Delete answers with nothing.  *)

AfterAudit(op) == IF op \in Writes THEN "reply" ELSE "ok"

Audit(r) ==
    /\ stage[r] = "audit"
    /\ audits' = audits \cup {AuditOf(r)}
    /\ stage' = [stage EXCEPT ![r] = AfterAudit(call[r].op)]
    /\ UNCHANGED <<rows, call, snap, view>>

\* Mutant: the row read before the write is answered.
ReplyStale(r) ==
    /\ stage[r] = "reply"
    /\ view' = [view EXCEPT ![r] = snap[r]]
    /\ stage' = [stage EXCEPT ![r] = "ok"]
    /\ UNCHANGED <<rows, audits, call, snap>>

Reply(r) ==
    /\ stage[r] = "reply"
    /\ LET c == call[r].code
       IN  \/ /\ Live(c)
              /\ view' = [view EXCEPT ![r] = rows[c]]
              /\ stage' = [stage EXCEPT ![r] = "ok"]
           \/ /\ ~Live(c)
              /\ stage' = [stage EXCEPT ![r] = "not_found"]
              /\ UNCHANGED view
    /\ UNCHANGED <<rows, audits, call, snap>>

-----------------------------------------------------------------------------
(* Failures.                                                               *)

\* A read or the write fails, and nothing is written.
CallFails(r) ==
    /\ Faults
    /\ stage[r] \in {"idle", "commit", "reply"}
    /\ stage' = [stage EXCEPT ![r] = "internal"]
    /\ UNCHANGED <<rows, audits, call, snap, view>>

\* Mutant: no operation reports a failed audit.
AuditFailureIgnored(r) ==
    /\ Faults
    /\ stage[r] = "audit"
    /\ stage' = [stage EXCEPT ![r] = AfterAudit(call[r].op)]
    /\ UNCHANGED <<rows, audits, call, snap, view>>

\* Create and Update ignore a failed audit; Transition and Delete report it.
AuditFails(r) ==
    /\ Faults
    /\ stage[r] = "audit"
    /\ stage' = [stage EXCEPT ![r] = IF call[r].op \in {"create", "update"}
                                     THEN AfterAudit(call[r].op) ELSE "internal"]
    /\ UNCHANGED <<rows, audits, call, snap, view>>

Crash ==
    /\ Faults
    /\ \E r \in Requests : stage[r] \in InFlight
    /\ stage' = [r \in Requests |-> IF stage[r] \in InFlight THEN "lost" ELSE stage[r]]
    /\ UNCHANGED <<rows, audits, call, snap, view>>

\* Every request has been answered: the server waits.
Quiet ==
    /\ \A r \in Requests : stage[r] \in Answered
    /\ UNCHANGED vars

Create(r) ==
    \/ \E u \in Users, c \in Codes, k \in Contents \cup {Blank} : CreateArrives(r, u, c, k)
    \/ CreateCommit(r)

Edit(r) ==
    \/ \E u \in Users, c \in Codes, k \in Contents \cup {Blank} :
          \E e \in Expected(c) : UpdateArrives(r, u, c, e, k)
    \/ UpdateCommit(r)

Transition(r) ==
    \/ \E u \in Users, c \in Codes, t \in Targets :
          \E e \in Expected(c) : TransitionArrives(r, u, c, e, t)
    \/ TransitionCommit(r)

Delete(r) ==
    \/ \E u \in Users, c \in Codes : DeleteArrives(r, u, c)
    \/ DeleteCommit(r)

Next ==
    \/ \E r \in Requests :
          \/ Create(r) \/ Edit(r) \/ Transition(r) \/ Delete(r)
          \/ Audit(r) \/ Reply(r)
          \/ CallFails(r) \/ AuditFails(r)
    \/ Crash
    \/ Quiet

Spec == Init /\ [][Next]_vars

-----------------------------------------------------------------------------
(* What the service promises.                                              *)

\* The state has its shape, and a request in flight has the record it works on.
TypeOK ==
    /\ rows \in [Codes -> Row \cup {None}]
    /\ audits \subseteq AuditEntry
    /\ stage \in [Requests -> {"idle"} \cup InFlight \cup Answered]
    /\ call \in [Requests -> Call \cup {None}]
    /\ snap \in [Requests -> Row \cup {None}]
    /\ view \in [Requests -> Row \cup {None}]
    /\ \A r \in Requests :
          /\ stage[r] \in InFlight => call[r] \in Call
          /\ stage[r] \in {"commit", "audit"} =>
                /\ call[r].op # "create" => snap[r] \in Row
                /\ call[r].op \in {"create", "update"} => call[r].content \in Contents
                /\ call[r].op = "transition" => call[r].target \in Statuses

\* What a request relies on between its read and its write: the row it read is
\* no newer than the table's, equals it when the versions agree, and has an edge
\* to the status asked for.
SnapshotsHold ==
    \A r \in Requests : stage[r] = "commit" /\ call[r].op \in Writes =>
        LET row == rows[call[r].code]
        IN  /\ row # None
            /\ snap[r].version <= row.version
            /\ snap[r].version = row.version =>
                   snap[r].status = row.status /\ snap[r].content = row.content
            /\ ~Speculative => call[r].expected <= snap[r].version
            /\ call[r].op = "transition" => 
                  CanTransition(call[r].code, snap[r].status, call[r].target)

\* Where no call fails, a request that named a version and got past its write.
Wrote(r, c) ==
    /\ call[r] # None /\ call[r].code = c /\ call[r].op \in Writes
    /\ stage[r] \in {"audit", "reply", "ok", "not_found"}

\* No update is lost and none is applied twice: the writes that succeeded on a
\* record named each earlier version exactly once, even if callers guess.
WritesAreSerial ==
    \A c \in Codes : rows[c] # None =>
        LET writers == {r \in Requests : Wrote(r, c)}
        IN  /\ {call[r].expected : r \in writers} = 1 .. rows[c].version - 1
            /\ \A r, s \in writers : call[r].expected = call[s].expected => r = s

\* Of the callers that delete a record at once, one is told that it did.
OneDeletion ==
    \A r, s \in Requests :
        /\ r # s
        /\ stage[r] = "ok" /\ call[r].op = "delete"
        /\ stage[s] = "ok" /\ call[s].op = "delete"
        => call[r].code # call[s].code

\* The reply to an acknowledged write shows it, or a later version.
ReplyShowsWrite ==
    \A r \in Requests : stage[r] = "ok" /\ call[r].op \in Writes =>
        /\ view[r].version > call[r].expected
        /\ view[r].version = call[r].expected + 1 =>
              IF call[r].op = "transition" THEN view[r].status = call[r].target
                                           ELSE view[r].content = call[r].content

\* The audit log explains the table: once no entry about a record is pending, it
\* arrived at each status as often as it left it, but for the one it is in now.
AuditReplays ==
    \A c \in Codes :
        rows[c] # None /\ (\A r \in Requests : stage[r] = "audit" => call[r].code # c) =>
            LET entries == {a \in audits : a.code = c}
                arrived(s) == Cardinality({a \in entries : a.after = s})
                                + IF c \in SeedCodes /\ SeedStatus[c] = s THEN 1 ELSE 0
                left(s) == Cardinality({a \in entries : a.before = s /\ a.action # "delete"})
            IN  \A s \in Statuses :
                    arrived(s) = left(s) + IF rows[c].status = s THEN 1 ELSE 0

\* A transition or deletion that was acknowledged is in the audit log, even when
\* audit writes fail.
AcknowledgedIsAudited ==
    \A r \in Requests : stage[r] = "ok" /\ call[r].op \in {"transition", "delete"} =>
        \E a \in audits : a.request = r /\ a.action = call[r].op

\* A record only changes status along an edge of its graph: dto/defect_finding.go:5
\* "Status is deliberately omitted so callers cannot bypass the service state
\* machine".
StatusFollowsGraph ==
    [][\A c \in Codes : rows[c] # None /\ rows'[c].status # rows[c].status
           => CanTransition(c, rows[c].status, rows'[c].status)]_vars

-----------------------------------------------------------------------------
Recorded(row) ==
    IF row = None THEN None
    ELSE [status |-> row.status, version |-> row.version, content |-> row.content]

Lifecycle == INSTANCE RecordLifecycle WITH
    SeedRecords <- [c \in Codes |-> Recorded(SeedRows[c])],
    records     <- [c \in Codes |-> Recorded(rows[c])],
    removed     <- {c \in Codes : rows[c] # None /\ rows[c].deleted}

\* Every step of every request is a step of the record's lifecycle or leaves it
\* alone, for callers that name versions they were shown.
ImplementsLifecycle == Lifecycle!LifecycleSpec

=============================================================================
