-------------------------- MODULE DomainRecordProofs --------------------------
(***************************************************************************)
(* Safety of the record services, for any requests, users, codes, contents, *)
(* graphs and seeds.  The inductive invariant is IInv: the shape of the     *)
(* state and what a request in flight may rely on about the row it read.    *)
(* What concerns the table is proved from the ways a step can write it      *)
(* (TableSteps), and what concerns the audit log from the entries due: those *)
(* written, and those of requests past their write (DueSteps).             *)
(***************************************************************************)
EXTENDS DomainRecord, FiniteSetTheorems, TLAPS

IInv == TypeOK /\ SnapshotsHold

Item(r) == IF call[r].op = "update" THEN Edited(call[r], snap[r])
                                    ELSE Moved(call[r], snap[r])

\* The request has written, and its audit entry is next.
Written(r) ==
    /\ stage' = [stage EXCEPT ![r] = "audit"]
    /\ UNCHANGED <<audits, call, snap, view>>

Creates(r) ==
    /\ Committing(r, "create")
    /\ Written(r)
    /\ rows[call[r].code] = None
    /\ rows' = [rows EXCEPT ![call[r].code] =
                  NewRow(Service[call[r].code].initial, 1, call[r].content)]

Rewrites(r) ==
    /\ stage[r] = "commit" /\ call[r].op \in Writes
    /\ Written(r)
    /\ VersionMatches(call[r].code, call[r].expected)
    /\ rows' = [rows EXCEPT ![call[r].code] = Overwritten(rows[call[r].code], Item(r))]

Removes(r) ==
    /\ Committing(r, "delete")
    /\ Written(r)
    /\ Live(call[r].code)
    /\ rows' = [rows EXCEPT ![call[r].code] = [@ EXCEPT !.deleted = TRUE]]

\* A request arrives and is judged.
Arrival(r) ==
    \E u \in Users, c \in Codes :
        \/ \E k \in Contents \cup {Blank} :
              \/ CreateArrives(r, u, c, k)
              \/ \E e \in Expected(c) : UpdateArrives(r, u, c, e, k)
        \/ \E t \in Targets, e \in Expected(c) : TransitionArrives(r, u, c, e, t)
        \/ DeleteArrives(r, u, c)

\* A request in flight goes on.
Progress(r) ==
    \/ CreateCommit(r) \/ UpdateCommit(r) \/ TransitionCommit(r) \/ DeleteCommit(r)
    \/ Audit(r) \/ Reply(r)
    \/ CallFails(r) \/ AuditFails(r)

\* The steps, by what they are for a request.
LEMMA StepKinds ==
    ASSUME Next
    PROVE  \/ \E r \in Requests : Arrival(r) \/ Progress(r)
           \/ Crash
           \/ Quiet
BY DEF Next, Create, Edit, Transition, Delete, Arrival, Progress

\* An arrival writes nothing.
LEMMA ArrivalReads ==
    ASSUME NEW r \in Requests, Arrival(r)
    PROVE  UNCHANGED <<rows, audits, view>>
BY DEF Arrival, CreateArrives, UpdateArrives, TransitionArrives, DeleteArrives, Arrive

\* A step that changes the table is the commit of one request; every other step, a
\* failure or a crash too, leaves it alone.
LEMMA TableSteps ==
    ASSUME [Next]_vars
    PROVE  \/ UNCHANGED rows
           \/ \E r \in Requests : Creates(r) \/ Rewrites(r) \/ Removes(r)
<1>1. CASE UNCHANGED vars
  BY <1>1 DEF vars
<1>2. CASE Crash \/ Quiet
  BY <1>2 DEF Crash, Quiet, vars
<1>3. ASSUME NEW r \in Requests, Progress(r)
      PROVE  UNCHANGED rows \/ Creates(r) \/ Rewrites(r) \/ Removes(r)
  <2>1. CASE CreateCommit(r)
    BY <2>1 DEF CreateCommit, Creates, Written
  <2>2. CASE UpdateCommit(r)
    BY <2>2 DEF UpdateCommit, Update, Committing, Rewrites, Written, Item, Writes
  <2>3. CASE TransitionCommit(r)
    BY <2>3 DEF TransitionCommit, Update, Committing, Rewrites, Written, Item, Writes
  <2>4. CASE DeleteCommit(r)
    BY <2>4 DEF DeleteCommit, Removes, Written
  <2>5. CASE Audit(r) \/ Reply(r) \/ CallFails(r) \/ AuditFails(r)
    BY <2>5 DEF Audit, Reply, CallFails, AuditFails
  <2>. QED  BY <1>3, <2>1, <2>2, <2>3, <2>4, <2>5 DEF Progress
<1>. QED  BY <1>1, <1>2, <1>3, ArrivalReads, StepKinds

-----------------------------------------------------------------------------
(* What a commit writes, in the fields of the row.                         *)

\* A creation registers the code in the initial status, under version 1.
LEMMA CreatedRow ==
    ASSUME TypeOK, NEW r \in Requests, Creates(r)
    PROVE  LET q == call[r] IN
           /\ q.code \in Codes /\ q.content \in Contents
           /\ rows'[q.code] = [status |-> Service[q.code].initial, version |-> 1,
                               content |-> q.content, deleted |-> FALSE]
           /\ rows'[q.code] \in Row
           /\ rows'[q.code] # None
           /\ \A c \in Codes \ {q.code} : rows'[c] = rows[c]
<1>1. call[r] \in Call /\ call[r].content \in Contents
  BY DEF TypeOK, Creates, Committing, InFlight
<1>2. rows \in [Codes -> Row \cup {None}] /\ call[r].code \in Codes
  BY <1>1 DEF TypeOK, Call
<1>3. NewRow(Service[call[r].code].initial, 1, call[r].content) \in Row
  BY <1>1, <1>2, RecordGraphs DEF NewRow, Row
<1>4. /\ rows'[call[r].code] = NewRow(Service[call[r].code].initial, 1, call[r].content)
      /\ \A c \in Codes \ {call[r].code} : rows'[c] = rows[c]
  BY <1>2 DEF Creates
<1>. QED  BY <1>1, <1>2, <1>3, <1>4, RecordSentinels DEF NewRow

\* An update or transition that matched its version writes the next one.
LEMMA RewrittenRow ==
    ASSUME TypeOK, NEW r \in Requests, Rewrites(r)
    PROVE  LET q == call[r]
               c == call[r].code
           IN
           /\ c \in Codes
           /\ rows[c] \in Row /\ ~rows[c].deleted
           /\ rows[c].version = q.expected
           /\ Item(r).content \in Contents /\ Item(r).status \in Statuses
           /\ rows'[c] = [status |-> Item(r).status, version |-> rows[c].version + 1,
                          content |-> Item(r).content, deleted |-> FALSE]
           /\ rows'[c] \in Row
           /\ rows'[c] # None
           /\ \A d \in Codes \ {c} : rows'[d] = rows[d]
<1>. DEFINE q == call[r]
            c == call[r].code
<1>1. q \in Call /\ snap[r] \in Row
  BY DEF TypeOK, Rewrites, InFlight, Writes
<1>2. /\ c \in Codes
      /\ rows[c] \in Row /\ rows[c].deleted = FALSE
      /\ rows[c].version = q.expected
  BY <1>1 DEF TypeOK, Rewrites, Call, VersionMatches, Live, Row
<1>3. Item(r).content \in Contents /\ Item(r).status \in Statuses
  <2>1. CASE q.op = "update"
    <3>1. q.content \in Contents
      BY <2>1 DEF TypeOK, Rewrites
    <3>. QED  BY <1>1, <2>1, <3>1 DEF Item, Edited, NewRow, Row
  <2>2. CASE q.op = "transition"
    <3>1. q.target \in Statuses
      BY <2>2 DEF TypeOK, Rewrites
    <3>. QED  BY <1>1, <2>2, <3>1 DEF Item, Moved, NewRow, Row
  <2>. QED  BY <2>1, <2>2 DEF Rewrites, Writes
<1>4. Item(r).version = rows[c].version + 1
  BY <1>1, <1>2 DEF Item, Edited, Moved, NewRow, Row
<1>5. rows' = [rows EXCEPT ![c] = Overwritten(rows[c], Item(r))]
  BY DEF Rewrites
<1>6. rows \in [Codes -> Row \cup {None}]
  BY DEF TypeOK
<1>7. rows'[c] = [status |-> Item(r).status, version |-> rows[c].version + 1,
                  content |-> Item(r).content, deleted |-> FALSE]
  BY <1>2, <1>4, <1>5, <1>6 DEF Overwritten
<1>8. rows'[c] \in Row
  BY <1>2, <1>3, <1>7 DEF Row
<1>9. \A d \in Codes \ {c} : rows'[d] = rows[d]
  BY <1>5, <1>6
<1>. QED  BY <1>2, <1>3, <1>7, <1>8, <1>9, RecordSentinels

\* A deletion sets the flag of a live row and nothing else.
LEMMA RemovedRow ==
    ASSUME TypeOK, NEW r \in Requests, Removes(r)
    PROVE  LET c == call[r].code IN
           /\ c \in Codes
           /\ rows[c] \in Row /\ rows[c] # None /\ ~rows[c].deleted
           /\ rows'[c] \in Row
           /\ rows'[c] # None
           /\ rows'[c].status = rows[c].status /\ rows'[c].version = rows[c].version
           /\ rows'[c].content = rows[c].content /\ rows'[c].deleted
           /\ \A d \in Codes \ {c} : rows'[d] = rows[d]
<1>. DEFINE c == call[r].code
<1>1. call[r] \in Call /\ rows \in [Codes -> Row \cup {None}]
  BY DEF TypeOK, Removes, Committing, InFlight
<1>2. c \in Codes /\ rows[c] \in Row /\ ~rows[c].deleted
  BY <1>1 DEF Removes, Live, Call
<1>3. [rows[c] EXCEPT !.deleted = TRUE] \in Row
  BY <1>2 DEF Row
<1>4. /\ rows'[c] = [rows[c] EXCEPT !.deleted = TRUE]
      /\ \A d \in Codes \ {c} : rows'[d] = rows[d]
  BY <1>1, <1>2 DEF Removes
<1>5. /\ rows'[c].status = rows[c].status /\ rows'[c].version = rows[c].version
      /\ rows'[c].content = rows[c].content /\ rows'[c].deleted
  BY <1>2, <1>4 DEF Row
<1>. QED  BY <1>2, <1>3, <1>4, <1>5, RecordSentinels

\* The table keeps its shape.
LEMMA TableType ==
    ASSUME TypeOK, [Next]_vars
    PROVE  rows' \in [Codes -> Row \cup {None}]
<1>1. rows \in [Codes -> Row \cup {None}]
  BY DEF TypeOK
<1>2. CASE UNCHANGED rows
  BY <1>1, <1>2
<1>3. ASSUME NEW r \in Requests, Creates(r)
      PROVE  rows' \in [Codes -> Row \cup {None}]
  BY <1>1, <1>3, CreatedRow DEF Creates
<1>4. ASSUME NEW r \in Requests, Rewrites(r)
      PROVE  rows' \in [Codes -> Row \cup {None}]
  BY <1>1, <1>4, RewrittenRow DEF Rewrites
<1>5. ASSUME NEW r \in Requests, Removes(r)
      PROVE  rows' \in [Codes -> Row \cup {None}]
  BY <1>1, <1>5, RemovedRow DEF Removes
<1>. QED  BY <1>2, <1>3, <1>4, <1>5, TableSteps

-----------------------------------------------------------------------------
(* The shape of the state.                                                 *)

\* The seeded state has its shape.
LEMMA TypeInit == Init => TypeOK
<1>. SUFFICES ASSUME Init PROVE TypeOK
  OBVIOUS
<1>1. rows \in [Codes -> Row \cup {None}]
  <2>1. \A c \in SeedCodes : NewRow(SeedStatus[c], 1, SeedContent) \in Row
    BY RecordSeeds DEF NewRow, Row
  <2>. QED  BY <2>1 DEF Init, SeedRows
<1>2. audits \subseteq AuditEntry
  BY DEF Init
<1>3. /\ stage \in [Requests -> {"idle"} \cup InFlight \cup Answered]
      /\ \A r \in Requests : stage[r] \notin InFlight
  BY DEF Init, InFlight
<1>4. /\ call \in [Requests -> Call \cup {None}]
      /\ snap \in [Requests -> Row \cup {None}]
      /\ view \in [Requests -> Row \cup {None}]
  BY DEF Init
<1>. QED  BY <1>1, <1>2, <1>3, <1>4 DEF TypeOK, InFlight

\* What the record of a request holds at each stage: the last conjunct of TypeOK.
RecordOK(s, q, row, v) ==
    /\ s \in {"idle"} \cup InFlight \cup Answered
    /\ q \in Call \cup {None}
    /\ row \in Row \cup {None}
    /\ v \in Row \cup {None}
    /\ s \in InFlight => q \in Call
    /\ s \in {"commit", "audit"} =>
          /\ q.op # "create" => row \in Row
          /\ q.op \in {"create", "update"} => q.content \in Contents
          /\ q.op = "transition" => q.target \in Statuses

RecordsOK ==
    /\ stage = [r \in Requests |-> stage[r]] /\ call = [r \in Requests |-> call[r]]
    /\ snap = [r \in Requests |-> snap[r]]   /\ view = [r \in Requests |-> view[r]]
    /\ \A r \in Requests : RecordOK(stage[r], call[r], snap[r], view[r])

TablesOK == rows \in [Codes -> Row \cup {None}] /\ audits \subseteq AuditEntry

\* The shape of the state is that of the tables and that of the records.
LEMMA TypeByParts == TypeOK <=> TablesOK /\ RecordsOK
<1>. DEFINE Stages == {"idle"} \cup InFlight \cup Answered
            Rows == Row \cup {None}
<1>1. /\ stage \in [Requests -> Stages] <=>
            stage = [r \in Requests |-> stage[r]] /\ \A r \in Requests : stage[r] \in Stages
      /\ call \in [Requests -> Call \cup {None}] <=>
            call = [r \in Requests |-> call[r]] /\ \A r \in Requests : call[r] \in Call \cup {None}
      /\ snap \in [Requests -> Rows] <=>
            snap = [r \in Requests |-> snap[r]] /\ \A r \in Requests : snap[r] \in Rows
      /\ view \in [Requests -> Rows] <=>
            view = [r \in Requests |-> view[r]] /\ \A r \in Requests : view[r] \in Rows
  <2>. HIDE DEF Rows, Stages
  <2>. QED  OBVIOUS
<1>2. ASSUME TypeOK PROVE RecordsOK
  BY <1>1, <1>2 DEF TypeOK, RecordsOK, RecordOK
<1>3. ASSUME TablesOK, RecordsOK
      PROVE  TypeOK
  <2>1. /\ stage \in [Requests -> Stages] /\ call \in [Requests -> Call \cup {None}]
        /\ snap \in [Requests -> Rows] /\ view \in [Requests -> Rows]
    BY <1>1, <1>3 DEF RecordsOK, RecordOK
  <2>2. \A r \in Requests : RecordOK(stage[r], call[r], snap[r], view[r])
    BY <1>3 DEF RecordsOK
  <2>. QED  BY <1>3, <2>1, <2>2 DEF TypeOK, TablesOK, RecordOK
<1>. QED  BY <1>2, <1>3 DEF TypeOK, TablesOK

\* An operation that passed its checks enters "commit" with a well formed record.
LEMMA ArriveType ==
    ASSUME RecordsOK, NEW r \in Requests, NEW verdict, NEW q, NEW row,
           Arrive(r, verdict, q, row),
           verdict \in Answered \cup {"commit"},
           verdict = "commit" =>
              /\ q \in Call
              /\ row \in Row \cup {None}
              /\ q.op # "create" => row \in Row
              /\ q.op \in {"create", "update"} => q.content \in Contents
              /\ q.op = "transition" => q.target \in Statuses
    PROVE  RecordsOK'
<1>1. RecordOK(stage'[r], call'[r], snap'[r], view'[r])
  BY DEF Arrive, RecordsOK, RecordOK, InFlight, Answered
<1>2. ASSUME NEW p \in Requests \ {r}
      PROVE  RecordOK(stage'[p], call'[p], snap'[p], view'[p])
  BY DEF Arrive, RecordsOK
<1>. QED  BY <1>1, <1>2 DEF Arrive, RecordsOK

\* The verdicts that let an operation go on, and what they checked.
LEMMA VerdictRange ==
    ASSUME NEW u, NEW c \in Codes, NEW k, NEW t
    PROVE  /\ CreateVerdict(u, k) \in Answered \cup {"commit"}
           /\ UpdateVerdict(u, c, k) \in Answered \cup {"commit"}
           /\ TransitionVerdict(u, c, t) \in Answered \cup {"commit"}
           /\ DeleteVerdict(u, c) \in Answered \cup {"commit"}
           /\ CreateVerdict(u, k) = "commit" => k # Blank
           /\ UpdateVerdict(u, c, k) = "commit" => Live(c) /\ k # Blank
           /\ TransitionVerdict(u, c, t) = "commit" =>
                 /\ Live(c)
                 /\ CanTransition(c, rows[c].status, t)
                 /\ t \in Statuses
           /\ DeleteVerdict(u, c) = "commit" => Live(c)
<1>1. TransitionVerdict(u, c, t) = "commit" =>
         Live(c) /\ CanTransition(c, rows[c].status, t)
  BY DEF TransitionVerdict
<1>2. CanTransition(c, rows[c].status, t) => t \in Statuses
  BY RecordGraphs DEF CanTransition
<1>. QED  BY <1>1, <1>2 DEF CreateVerdict, UpdateVerdict, TransitionVerdict,
                            DeleteVerdict, Answered

\* An arrival leaves well formed records.
LEMMA ArrivalType ==
    ASSUME TypeOK, NEW r \in Requests, Arrival(r)
    PROVE  RecordsOK'
<1>0. RecordsOK /\ rows \in [Codes -> Row \cup {None}]
  BY TypeByParts DEF TablesOK
<1>1. PICK u \in Users, c \in Codes :
          \/ \E k \in Contents \cup {Blank} :
                \/ CreateArrives(r, u, c, k)
                \/ \E e \in Expected(c) : UpdateArrives(r, u, c, e, k)
          \/ \E t \in Targets, e \in Expected(c) : TransitionArrives(r, u, c, e, t)
          \/ DeleteArrives(r, u, c)
  BY DEF Arrival
<1>2. Expected(c) \subseteq Nat
  <2>1. rows[c] # None => rows[c].version \in Nat
    BY <1>0 DEF Row
  <2>. QED  BY <2>1, RecordCallers DEF Expected
<1>3. rows[c] \in Row \cup {None} /\ (Live(c) => rows[c] \in Row)
  BY <1>0 DEF Live
<1>4. ASSUME NEW k \in Contents \cup {Blank}, CreateArrives(r, u, c, k)
      PROVE  RecordsOK'
  <2>. DEFINE q == [op |-> "create", user |-> u, code |-> c, expected |-> 0,
                    content |-> k, target |-> None]
  <2>1. Arrive(r, CreateVerdict(u, k), q, None)
    BY <1>4 DEF CreateArrives
  <2>2. CreateVerdict(u, k) \in Answered \cup {"commit"}
    BY VerdictRange
  <2>3. CreateVerdict(u, k) = "commit" => k \in Contents /\ q \in Call
    BY VerdictRange DEF Call, AllOps
  <2>4. q.op = "create" /\ q.content = k
    OBVIOUS
  <2>. HIDE DEF q
  <2>. QED  BY <1>0, <2>1, <2>2, <2>3, <2>4, ArriveType
<1>5. ASSUME NEW k \in Contents \cup {Blank}, NEW e \in Expected(c),
             UpdateArrives(r, u, c, e, k)
      PROVE  RecordsOK'
  <2>. DEFINE q == [op |-> "update", user |-> u, code |-> c, expected |-> e,
                    content |-> k, target |-> None]
  <2>1. Arrive(r, UpdateVerdict(u, c, k), q, rows[c])
    BY <1>5 DEF UpdateArrives
  <2>2. UpdateVerdict(u, c, k) \in Answered \cup {"commit"}
    BY VerdictRange
  <2>3. UpdateVerdict(u, c, k) = "commit" =>
           k \in Contents /\ q \in Call /\ rows[c] \in Row
    BY <1>2, <1>3, VerdictRange DEF Call, AllOps
  <2>4. q.op = "update" /\ q.content = k
    OBVIOUS
  <2>. HIDE DEF q
  <2>. QED  BY <1>0, <1>3, <2>1, <2>2, <2>3, <2>4, ArriveType
<1>6. ASSUME NEW t \in Targets, NEW e \in Expected(c), TransitionArrives(r, u, c, e, t)
      PROVE  RecordsOK'
  <2>. DEFINE q == [op |-> "transition", user |-> u, code |-> c, expected |-> e,
                    content |-> None, target |-> t]
  <2>1. Arrive(r, TransitionVerdict(u, c, t), q, rows[c])
    BY <1>6 DEF TransitionArrives
  <2>2. TransitionVerdict(u, c, t) \in Answered \cup {"commit"}
    BY VerdictRange
  <2>3. TransitionVerdict(u, c, t) = "commit" =>
           t \in Statuses /\ q \in Call /\ rows[c] \in Row
    BY <1>2, <1>3, VerdictRange DEF Call, AllOps
  <2>4. q.op = "transition" /\ q.target = t
    OBVIOUS
  <2>. HIDE DEF q
  <2>. QED  BY <1>0, <1>3, <2>1, <2>2, <2>3, <2>4, ArriveType
<1>7. CASE DeleteArrives(r, u, c)
  <2>. DEFINE q == [op |-> "delete", user |-> u, code |-> c, expected |-> 0,
                    content |-> None, target |-> None]
  <2>1. Arrive(r, DeleteVerdict(u, c), q, rows[c])
    BY <1>7 DEF DeleteArrives
  <2>2. DeleteVerdict(u, c) \in Answered \cup {"commit"}
    BY VerdictRange
  <2>3. DeleteVerdict(u, c) = "commit" => q \in Call /\ rows[c] \in Row
    BY <1>3, VerdictRange DEF Call, AllOps
  <2>4. q.op = "delete"
    OBVIOUS
  <2>. HIDE DEF q
  <2>. QED  BY <1>0, <1>3, <2>1, <2>2, <2>3, <2>4, ArriveType
<1>. QED  BY <1>1, <1>4, <1>5, <1>6, <1>7

\* Progress leaves well formed records, and an entry for the log.
LEMMA ProgressType ==
    ASSUME TypeOK, NEW r \in Requests, Progress(r)
    PROVE  RecordsOK' /\ audits' \subseteq AuditEntry
<1>0. RecordsOK /\ audits \subseteq AuditEntry /\ rows \in [Codes -> Row \cup {None}]
  BY TypeByParts DEF TablesOK
<1>1. CASE CreateCommit(r) \/ DeleteCommit(r)
  BY <1>0, <1>1 DEF CreateCommit, DeleteCommit, ErrRecordNotFound, Committing,
                    RecordsOK, RecordOK, InFlight, Answered
<1>2. CASE UpdateCommit(r) \/ TransitionCommit(r)
  BY <1>0, <1>2 DEF UpdateCommit, TransitionCommit, Update, Committing,
                    RecordsOK, RecordOK, InFlight, Answered
<1>3. CASE Audit(r)
  <2>1. RecordsOK'
    BY <1>0, <1>3 DEF Audit, AfterAudit, RecordsOK, RecordOK, InFlight, Answered
  <2>2. /\ call[r] \in Call
        /\ call[r].op # "create" => snap[r].status \in Statuses
        /\ call[r].op = "transition" => call[r].target \in Statuses
        /\ Service[call[r].code].initial \in Statuses
    BY <1>0, <1>3, RecordGraphs DEF Audit, RecordsOK, RecordOK, InFlight, Call, Row
  <2>3. AuditOf(r) \in AuditEntry
    BY <2>2 DEF AuditOf, AuditEntry, Call, AllOps
  <2>. QED  BY <1>0, <1>3, <2>1, <2>3 DEF Audit
<1>4. CASE Reply(r)
  <2>1. Live(call[r].code) => rows[call[r].code] \in Row
    BY <1>0, <1>4 DEF Reply, Live, RecordsOK, RecordOK, InFlight, Call
  <2>. QED  BY <1>0, <1>4, <2>1 DEF Reply, RecordsOK, RecordOK, InFlight, Answered
<1>5. CASE CallFails(r) \/ AuditFails(r)
  BY <1>0, <1>5 DEF CallFails, AuditFails, AfterAudit, RecordsOK, RecordOK, InFlight, Answered
<1>. QED  BY <1>1, <1>2, <1>3, <1>4, <1>5 DEF Progress

\* Every step keeps the shape of the state.
LEMMA TypeStep ==
    ASSUME TypeOK, [Next]_vars
    PROVE  TypeOK'
<1>1. CASE UNCHANGED vars
  BY <1>1 DEF vars, TypeOK
<1>2. CASE \E r \in Requests : Arrival(r) \/ Progress(r)
  <2>1. RecordsOK' /\ audits' \subseteq AuditEntry
    BY <1>2, ArrivalType, ArrivalReads, ProgressType DEF TypeOK
  <2>2. TablesOK'
    BY <2>1, TableType DEF TablesOK
  <2>. QED  BY <2>1, <2>2, TypeByParts, PTL
<1>3. CASE Crash
  <2>0. RecordsOK /\ audits \subseteq AuditEntry
    BY TypeByParts DEF TablesOK
  <2>1. /\ stage' = [r \in Requests |-> IF stage[r] \in InFlight THEN "lost" ELSE stage[r]]
        /\ UNCHANGED <<audits, call, snap, view>>
    BY <1>3 DEF Crash
  <2>2. ASSUME NEW r \in Requests
        PROVE  RecordOK(stage'[r], call'[r], snap'[r], view'[r])
    BY <2>0, <2>1 DEF RecordsOK, RecordOK, InFlight, Answered
  <2>3. RecordsOK'
    BY <2>0, <2>1, <2>2 DEF RecordsOK
  <2>4. TablesOK'
    BY <2>0, <2>1, TableType DEF TablesOK
  <2>. QED  BY <2>3, <2>4, TypeByParts, PTL
<1>4. CASE Quiet
  BY <1>4, <1>1 DEF Quiet
<1>. QED  BY <1>1, <1>2, <1>3, <1>4, StepKinds

-----------------------------------------------------------------------------
(* What a request in flight may rely on.                                   *)

\* SnapshotsHold for one request.
SnapshotHolds(r) ==
    stage[r] = "commit" /\ call[r].op \in Writes =>
        LET row == rows[call[r].code]
        IN  /\ row # None
            /\ snap[r].version <= row.version
            /\ snap[r].version = row.version =>
                   snap[r].status = row.status /\ snap[r].content = row.content
            /\ ~Speculative => call[r].expected <= snap[r].version
            /\ call[r].op = "transition" =>
                  CanTransition(call[r].code, snap[r].status, call[r].target)

\* What every step preserves of a row that exists: it stays, its version never
\* goes back, and while the version stays so do status and content.
LEMMA RowGrows ==
    ASSUME TypeOK, [Next]_vars, NEW c \in Codes, rows[c] # None
    PROVE  /\ rows[c] \in Row /\ rows'[c] \in Row /\ rows'[c] # None
           /\ rows[c].version <= rows'[c].version
           /\ rows'[c].version = rows[c].version =>
                 rows'[c].status = rows[c].status /\ rows'[c].content = rows[c].content
<1>1. rows[c] \in Row
  BY DEF TypeOK
<1>2. CASE rows'[c] = rows[c]
  BY <1>1, <1>2 DEF Row
<1>3. ASSUME NEW r \in Requests, Creates(r), rows'[c] # rows[c]
      PROVE  FALSE
  BY <1>3, CreatedRow DEF Creates
<1>4. ASSUME NEW r \in Requests, Rewrites(r), call[r].code = c
      PROVE  /\ rows'[c] \in Row /\ rows'[c] # None
             /\ rows'[c].version = rows[c].version + 1
  <2>1. /\ rows'[c] = [status |-> Item(r).status, version |-> rows[c].version + 1,
                       content |-> Item(r).content, deleted |-> FALSE]
        /\ rows'[c] \in Row /\ rows'[c] # None
    BY <1>4, RewrittenRow
  <2>. QED  BY <2>1
<1>5. CASE \E r \in Requests : Rewrites(r) /\ call[r].code = c
  BY <1>1, <1>4, <1>5 DEF Row
<1>6. CASE \E r \in Requests : Removes(r) /\ call[r].code = c
  BY <1>1, <1>6, RemovedRow DEF Row
<1>7. \/ rows'[c] = rows[c]
      \/ \E r \in Requests : Rewrites(r) /\ call[r].code = c
      \/ \E r \in Requests : Removes(r) /\ call[r].code = c
  <2>1. ASSUME NEW r \in Requests, Rewrites(r) \/ Removes(r), call[r].code # c
        PROVE  rows'[c] = rows[c]
    BY <2>1, RewrittenRow, RemovedRow
  <2>. QED  BY <1>3, <2>1, TableSteps
<1>. QED  BY <1>2, <1>5, <1>6, <1>7

\* A snapshot stays good while other requests move on.
LEMMA SnapshotKept ==
    ASSUME TypeOK, SnapshotsHold, [Next]_vars, NEW r \in Requests,
           stage'[r] = "commit", stage[r] = "commit",
           call'[r] = call[r], snap'[r] = snap[r]
    PROVE  SnapshotHolds(r)'
<1>. SUFFICES ASSUME call[r].op \in Writes
              PROVE  SnapshotHolds(r)'
  BY DEF SnapshotHolds, Writes
<1>. DEFINE c == call[r].code
<1>1. c \in Codes /\ snap[r] \in Row /\ call[r].expected \in Nat
  BY DEF TypeOK, InFlight, Call, Writes
<1>2. /\ rows[c] # None
      /\ snap[r].version <= rows[c].version
      /\ snap[r].version = rows[c].version =>
            snap[r].status = rows[c].status /\ snap[r].content = rows[c].content
      /\ ~Speculative => call[r].expected <= snap[r].version
      /\ call[r].op = "transition" => CanTransition(c, snap[r].status, call[r].target)
  BY DEF SnapshotsHold
<1>3. /\ rows[c] \in Row /\ rows'[c] \in Row /\ rows'[c] # None
      /\ rows[c].version <= rows'[c].version
      /\ rows'[c].version = rows[c].version =>
            rows'[c].status = rows[c].status /\ rows'[c].content = rows[c].content
  BY <1>1, <1>2, RowGrows
<1>4. snap[r].version \in Nat /\ rows[c].version \in Nat /\ rows'[c].version \in Nat
  BY <1>1, <1>3 DEF Row
<1>5. /\ snap[r].version <= rows'[c].version
      /\ snap[r].version = rows'[c].version => rows'[c].version = rows[c].version
  BY <1>2, <1>3, <1>4
<1>6. call'[r].code = c
  OBVIOUS
<1>. HIDE DEF c
<1>. QED  BY <1>2, <1>3, <1>5, <1>6 DEF SnapshotHolds, CanTransition

\* A request that passes its checks has read the row as the table holds it.
LEMMA SnapshotTaken ==
    ASSUME TypeOK, NEW r \in Requests, Arrival(r), stage'[r] = "commit"
    PROVE  SnapshotHolds(r)'
<1>. DEFINE Taken(c, e) ==
         /\ UNCHANGED rows
         /\ call'[r].code = c /\ call'[r].expected = e
         /\ snap'[r] = rows[c]
         /\ Live(c)
<1>1. PICK u \in Users, c \in Codes :
          \/ \E k \in Contents \cup {Blank} :
                \/ CreateArrives(r, u, c, k)
                \/ \E e \in Expected(c) : UpdateArrives(r, u, c, e, k)
          \/ \E t \in Targets, e \in Expected(c) : TransitionArrives(r, u, c, e, t)
          \/ DeleteArrives(r, u, c)
  BY DEF Arrival
<1>2. stage \in [Requests -> {"idle"} \cup InFlight \cup Answered]
      /\ call \in [Requests -> Call \cup {None}] /\ snap \in [Requests -> Row \cup {None}]
  BY DEF TypeOK
<1>3. Live(c) => rows[c] \in Row /\ rows[c] # None /\ rows[c].version \in Nat
  BY DEF TypeOK, Live, Row
<1>4. ASSUME Live(c), ~Speculative, NEW e \in Expected(c)
      PROVE  e <= rows[c].version
  BY <1>3, <1>4 DEF Expected
<1>5. ASSUME NEW k \in Contents \cup {Blank}, CreateArrives(r, u, c, k)
      PROVE  SnapshotHolds(r)'
  BY <1>2, <1>5 DEF CreateArrives, Arrive, SnapshotHolds, Writes
<1>6. ASSUME NEW k \in Contents \cup {Blank}, NEW e \in Expected(c),
             UpdateArrives(r, u, c, e, k)
      PROVE  SnapshotHolds(r)'
  <2>1. UpdateVerdict(u, c, k) = "commit"
    BY <1>2, <1>6 DEF UpdateArrives, Arrive
  <2>2. Live(c)
    BY <2>1, VerdictRange
  <2>3. Taken(c, e) /\ call'[r].op = "update"
    BY <1>2, <1>6, <2>1, <2>2 DEF UpdateArrives, Arrive
  <2>. QED  BY <1>3, <1>4, <2>3 DEF SnapshotHolds
<1>7. ASSUME NEW t \in Targets, NEW e \in Expected(c), TransitionArrives(r, u, c, e, t)
      PROVE  SnapshotHolds(r)'
  <2>1. TransitionVerdict(u, c, t) = "commit"
    BY <1>2, <1>7 DEF TransitionArrives, Arrive
  <2>2. Live(c) /\ CanTransition(c, rows[c].status, t)
    BY <2>1, VerdictRange
  <2>3. Taken(c, e) /\ call'[r].op = "transition" /\ call'[r].target = t
    BY <1>2, <1>7, <2>1, <2>2 DEF TransitionArrives, Arrive
  <2>. QED  BY <1>3, <1>4, <2>2, <2>3 DEF SnapshotHolds, CanTransition
<1>8. CASE DeleteArrives(r, u, c)
  BY <1>2, <1>8 DEF DeleteArrives, Arrive, SnapshotHolds, Writes
<1>. QED  BY <1>1, <1>5, <1>6, <1>7, <1>8

\* A request is in "commit" because it just arrived there or was there before.
LEMMA CommitStays ==
    ASSUME TypeOK, [Next]_vars, NEW r \in Requests, stage'[r] = "commit", ~Arrival(r)
    PROVE  stage[r] = "commit" /\ call'[r] = call[r] /\ snap'[r] = snap[r]
<1>0. /\ stage \in [Requests -> {"idle"} \cup InFlight \cup Answered]
      /\ call \in [Requests -> Call \cup {None}] /\ snap \in [Requests -> Row \cup {None}]
  BY DEF TypeOK
<1>1. CASE UNCHANGED vars
  BY <1>1 DEF vars
<1>2. CASE Crash \/ Quiet
  BY <1>0, <1>2 DEF Crash, Quiet, vars
<1>3. ASSUME NEW p \in Requests, Arrival(p), p # r
      PROVE  stage[r] = "commit" /\ call'[r] = call[r] /\ snap'[r] = snap[r]
  BY <1>0, <1>3 DEF Arrival, CreateArrives, UpdateArrives, TransitionArrives,
                    DeleteArrives, Arrive
<1>4. ASSUME NEW p \in Requests, Progress(p)
      PROVE  stage[r] = "commit" /\ call'[r] = call[r] /\ snap'[r] = snap[r]
  BY <1>0, <1>4 DEF Progress, CreateCommit, UpdateCommit, TransitionCommit, DeleteCommit,
         Update, ErrRecordNotFound, Committing, Audit, AfterAudit, Reply, CallFails, AuditFails
<1>. QED  BY <1>1, <1>2, <1>3, <1>4, StepKinds

\* Every step keeps what requests rely on.
LEMMA SnapshotStep ==
    ASSUME TypeOK, SnapshotsHold, [Next]_vars
    PROVE  SnapshotsHold'
<1>. SUFFICES ASSUME NEW r \in Requests
              PROVE  SnapshotHolds(r)'
  BY DEF SnapshotsHold, SnapshotHolds
<1>1. CASE stage'[r] # "commit"
  BY <1>1 DEF SnapshotHolds
<1>2. CASE stage'[r] = "commit" /\ Arrival(r)
  BY <1>2, SnapshotTaken
<1>3. CASE stage'[r] = "commit" /\ ~Arrival(r)
  BY <1>3, CommitStays, SnapshotKept
<1>. QED  BY <1>1, <1>2, <1>3

-----------------------------------------------------------------------------
(* The inductive invariant.                                                *)

\* IInv is an invariant, whoever calls and whatever fails.
THEOREM Invariance == Spec => []IInv
<1>1. Init => IInv
  <2>1. Init => SnapshotsHold
    BY DEF Init, SnapshotsHold
  <2>. QED  BY <2>1, TypeInit DEF IInv
<1>2. IInv /\ [Next]_vars => IInv'
  BY TypeStep, SnapshotStep DEF IInv
<1>. QED  BY <1>1, <1>2, PTL DEF Spec

\* The state always has its shape (TypeOK): no status outside the graphs is stored,
\* and no record without its required fields, whatever callers ask for.
THEOREM RecordTypeCorrect == Spec => []TypeOK
<1>1. IInv => TypeOK
  BY DEF IInv
<1>. QED  BY <1>1, Invariance, PTL

\* A request in flight can rely on the row it read being no newer than the table's,
\* and on the edge it was judged by (SnapshotsHold).
THEOREM RecordReadsStayGood == Spec => []SnapshotsHold
<1>1. IInv => SnapshotsHold
  BY DEF IInv
<1>. QED  BY <1>1, Invariance, PTL

-----------------------------------------------------------------------------
(* Every write names the version it replaces, once.                        *)

\* WritesAreSerial, version by version; and only a record that exists was written.
Serial ==
    \A c \in Codes :
        /\ \A r \in Requests : Wrote(r, c) =>
              /\ rows[c] # None
              /\ call[r].expected \in 1 .. rows[c].version - 1
        /\ rows[c] # None => \A n \in 1 .. rows[c].version - 1 :
              \E r \in Requests : Wrote(r, c) /\ call[r].expected = n
        /\ \A r, s \in Requests :
              Wrote(r, c) /\ Wrote(s, c) /\ call[r].expected = call[s].expected => r = s

LEMMA SerialIsSerial == Serial => WritesAreSerial
<1>. SUFFICES ASSUME Serial, NEW c \in Codes, rows[c] # None
              PROVE  LET writers == {r \in Requests : Wrote(r, c)}
                     IN  /\ {call[r].expected : r \in writers} = 1 .. rows[c].version - 1
                         /\ \A r, s \in writers :
                               call[r].expected = call[s].expected => r = s
  BY DEF WritesAreSerial
<1>1. /\ \A r \in Requests : Wrote(r, c) => call[r].expected \in 1 .. rows[c].version - 1
      /\ \A n \in 1 .. rows[c].version - 1 :
            \E r \in Requests : Wrote(r, c) /\ call[r].expected = n
      /\ \A r, s \in Requests :
            Wrote(r, c) /\ Wrote(s, c) /\ call[r].expected = call[s].expected => r = s
  BY DEF Serial
<1>. HIDE DEF Wrote
<1>. QED  BY <1>1

\* A write adds its request to the writers of its record.
LEMMA WriterAdded ==
    ASSUME TypeOK, NEW r \in Requests, Rewrites(r)
    PROVE  /\ call' = call
           /\ \A p \in Requests, c \in Codes :
                 Wrote(p, c)' <=> Wrote(p, c) \/ (p = r /\ c = call[r].code)
           /\ \A c \in Codes : ~Wrote(r, c)
<1>1. /\ stage \in [Requests -> {"idle"} \cup InFlight \cup Answered]
      /\ call[r] # None
  BY RecordSentinels DEF TypeOK, Rewrites, InFlight
<1>. QED  BY <1>1 DEF Rewrites, Written, Wrote

\* Where no call fails, nothing else changes who wrote what.
LEMMA WritersKept ==
    ASSUME TypeOK, ~Faults, [Next]_vars, \A r \in Requests : ~Rewrites(r),
           NEW p \in Requests, NEW c \in Codes
    PROVE  /\ Wrote(p, c)' <=> Wrote(p, c)
           /\ Wrote(p, c) => call'[p] = call[p]
<1>0. /\ stage \in [Requests -> {"idle"} \cup InFlight \cup Answered]
      /\ call \in [Requests -> Call \cup {None}]
      /\ stage[p] \in InFlight => call[p] # None
  BY RecordSentinels DEF TypeOK
<1>1. CASE UNCHANGED vars \/ Quiet
  BY <1>1 DEF Quiet, vars, Wrote
<1>2. ASSUME NEW r \in Requests, Arrival(r)
      PROVE  /\ Wrote(p, c)' <=> Wrote(p, c)
             /\ Wrote(p, c) => call'[p] = call[p]
  <2>1. PICK verdict, q, row : Arrive(r, verdict, q, row)
    BY <1>2 DEF Arrival, CreateArrives, UpdateArrives, TransitionArrives, DeleteArrives
  <2>2. CASE p # r
    BY <1>0, <2>1, <2>2 DEF Arrive, Wrote
  <2>3. CASE p = r
    BY <1>0, <2>1, <2>3 DEF Arrive, Wrote
  <2>. QED  BY <2>2, <2>3
<1>3. ASSUME NEW r \in Requests, Progress(r)
      PROVE  /\ Wrote(p, c)' <=> Wrote(p, c)
             /\ Wrote(p, c) => call'[p] = call[p]
  <2>1. CASE CreateCommit(r) \/ DeleteCommit(r)
    BY <1>0, <2>1 DEF CreateCommit, DeleteCommit, Committing, Wrote, Writes
  <2>2. CASE UpdateCommit(r)
    BY <1>0, <2>2 DEF UpdateCommit, Update, Committing, Wrote, Rewrites, Written, Item, Writes
  <2>3. CASE TransitionCommit(r)
    BY <1>0, <2>3 DEF TransitionCommit, Update, Committing, Wrote, Rewrites, Written, Item, Writes
  <2>4. CASE Audit(r)
    BY <1>0, <2>4 DEF Audit, AfterAudit, Wrote
  <2>5. CASE Reply(r)
    BY <1>0, <2>5 DEF Reply, Wrote
  <2>. QED  BY <1>3, <2>1, <2>2, <2>3, <2>4, <2>5 DEF Progress, CallFails, AuditFails
<1>. QED  BY <1>1, <1>2, <1>3, StepKinds DEF Crash

\* Where no call fails, every step keeps the writes serial.
LEMMA SerialStep ==
    ASSUME TypeOK, Serial, ~Faults, [Next]_vars
    PROVE  Serial'
<1>1. ASSUME NEW r \in Requests, Rewrites(r)
      PROVE  Serial'
  <2>0. PICK c \in Codes : c = call[r].code
    BY <1>1, RewrittenRow
  <2>n. PICK n \in Nat \ {0} : n = rows[c].version
    BY <1>1, <2>0, RewrittenRow DEF Row
  <2>1. /\ call[r].expected = n
        /\ rows[c] # None /\ rows'[c] # None /\ rows'[c].version = n + 1
        /\ \A d \in Codes \ {c} : rows'[d] = rows[d]
    <3>1. /\ rows[c] \in Row /\ n = call[r].expected
          /\ rows'[c] = [status |-> Item(r).status, version |-> n + 1,
                         content |-> Item(r).content, deleted |-> FALSE]
          /\ rows'[c] # None
          /\ \A d \in Codes \ {c} : rows'[d] = rows[d]
      BY <1>1, <2>0, <2>n, RewrittenRow
    <3>. QED  BY <3>1, RecordSentinels DEF Row
  <2>2. /\ call' = call
        /\ \A p \in Requests, d \in Codes :
              Wrote(p, d)' <=> Wrote(p, d) \/ (p = r /\ d = c)
    BY <1>1, <2>0, WriterAdded
  <2>3. ASSUME NEW d \in Codes \ {c}
        PROVE  /\ \A p \in Requests : Wrote(p, d)' <=> Wrote(p, d)
               /\ rows'[d] = rows[d]
    BY <2>1, <2>2
  <2>. HIDE DEF Wrote
  <2>4. ASSUME NEW d \in Codes \ {c}
        PROVE  /\ \A p \in Requests : Wrote(p, d)' =>
                     rows'[d] # None /\ call'[p].expected \in 1 .. rows'[d].version - 1
               /\ rows'[d] # None => \A m \in 1 .. rows'[d].version - 1 :
                     \E p \in Requests : Wrote(p, d)' /\ call'[p].expected = m
               /\ \A p, s \in Requests :
                     Wrote(p, d)' /\ Wrote(s, d)' /\ call'[p].expected = call'[s].expected
                        => p = s
    BY <2>2, <2>3 DEF Serial
  <2>5. \A p \in Requests : Wrote(p, c) => call[p].expected \in 1 .. n - 1
    BY <2>1, <2>n DEF Serial
  <2>6. \A m \in 1 .. n - 1 : \E p \in Requests : Wrote(p, c) /\ call[p].expected = m
    BY <2>1, <2>n DEF Serial
  <2>7. \A p \in Requests : Wrote(p, c)' => call'[p].expected \in 1 .. (n + 1) - 1
    BY <2>1, <2>2, <2>5
  <2>8. \A m \in 1 .. (n + 1) - 1 :
           \E p \in Requests : Wrote(p, c)' /\ call'[p].expected = m
    BY <2>1, <2>2, <2>6
  <2>9. \A p, s \in Requests :
           Wrote(p, c)' /\ Wrote(s, c)' /\ call'[p].expected = call'[s].expected => p = s
    BY <2>1, <2>2, <2>5 DEF Serial
  <2>. QED  BY <2>1, <2>4, <2>7, <2>8, <2>9 DEF Serial
<1>2. ASSUME \A r \in Requests : ~Rewrites(r)
      PROVE  Serial'
  <2>1. \A p \in Requests, d \in Codes :
           /\ Wrote(p, d)' <=> Wrote(p, d)
           /\ Wrote(p, d) => call'[p] = call[p]
    BY <1>2, WritersKept
  <2>2. ASSUME NEW d \in Codes, rows[d] # None
        PROVE  rows'[d] # None /\ rows'[d].version = rows[d].version
    <3>1. ASSUME NEW r \in Requests, Creates(r)
          PROVE  rows'[d] = rows[d]
      BY <2>2, <3>1, CreatedRow DEF Creates
    <3>2. ASSUME NEW r \in Requests, Removes(r)
          PROVE  rows'[d] # None /\ rows'[d].version = rows[d].version
      BY <2>2, <3>2, RemovedRow
    <3>. QED  BY <1>2, <2>2, <3>1, <3>2, TableSteps
  <2>3. ASSUME NEW d \in Codes, rows[d] = None, rows'[d] # None
        PROVE  rows'[d].version = 1 /\ \A p \in Requests : ~Wrote(p, d)
    <3>1. \A p \in Requests : ~Wrote(p, d)
      BY <2>3 DEF Serial
    <3>2. ASSUME NEW r \in Requests, Creates(r)
          PROVE  rows'[d].version = 1
      <4>1. /\ rows'[call[r].code] = [status |-> Service[call[r].code].initial,
                                      version |-> 1, content |-> call[r].content,
                                      deleted |-> FALSE]
            /\ \A e \in Codes \ {call[r].code} : rows'[e] = rows[e]
        BY <3>2, CreatedRow
      <4>. QED  BY <2>3, <4>1
    <3>3. ASSUME NEW r \in Requests, Removes(r)
          PROVE  FALSE
      BY <2>3, <3>3, RemovedRow
    <3>. QED  BY <1>2, <2>3, <3>1, <3>2, <3>3, TableSteps
  <2>. HIDE DEF Wrote
  <2>4. ASSUME NEW d \in Codes, rows[d] # None
        PROVE  /\ \A p \in Requests : Wrote(p, d)' =>
                     rows'[d] # None /\ call'[p].expected \in 1 .. rows'[d].version - 1
               /\ rows'[d] # None => \A m \in 1 .. rows'[d].version - 1 :
                     \E p \in Requests : Wrote(p, d)' /\ call'[p].expected = m
               /\ \A p, s \in Requests :
                     Wrote(p, d)' /\ Wrote(s, d)' /\ call'[p].expected = call'[s].expected
                        => p = s
    BY <2>1, <2>2, <2>4 DEF Serial
  <2>5. ASSUME NEW d \in Codes, rows[d] = None
        PROVE  /\ \A p \in Requests : ~Wrote(p, d)'
               /\ rows'[d] # None => \A m \in 1 .. rows'[d].version - 1 : FALSE
    BY <2>1, <2>3, <2>5 DEF Serial
  <2>. QED  BY <2>4, <2>5 DEF Serial
<1>. QED  BY <1>1, <1>2

\* No update is lost and none is applied twice, though callers guess versions: where
\* no call fails, the writes that succeeded on a record named each of its earlier
\* versions exactly once (WritesAreSerial).
THEOREM NoLostUpdate ==
    ASSUME ~Faults PROVE Spec => []WritesAreSerial
<1>1. Init => Serial
  <2>. SUFFICES ASSUME Init PROVE Serial
    OBVIOUS
  <2>1. \A p \in Requests, c \in Codes : ~Wrote(p, c)
    BY DEF Init, Wrote
  <2>2. \A c \in Codes : rows[c] # None => rows[c].version = 1
    BY DEF Init, SeedRows, NewRow
  <2>. HIDE DEF Wrote
  <2>. QED  BY <2>1, <2>2 DEF Serial
<1>2. IInv /\ Serial /\ [Next]_vars => Serial'
  BY SerialStep DEF IInv
<1>. QED  BY <1>1, <1>2, SerialIsSerial, Invariance, PTL DEF Spec

-----------------------------------------------------------------------------
(* A record is deleted by one caller.                                      *)

Deleted(r) ==
    call[r].op = "delete" /\ stage[r] \in {"audit", "reply", "ok"}

\* A caller whose deletion went through found the row live: no other did.
Deletions ==
    /\ \A r \in Requests : Deleted(r) =>
          /\ call[r].code \in Codes
          /\ rows[call[r].code] # None /\ rows[call[r].code].deleted
    /\ \A r, s \in Requests :
          Deleted(r) /\ Deleted(s) /\ call[r].code = call[s].code => r = s

\* The checks never take a request past its write.
LEMMA ArrivalVerdict ==
    ASSUME NEW r \in Requests, Arrival(r)
    PROVE  \E verdict, q, row :
              Arrive(r, verdict, q, row) /\ verdict \notin {"audit", "reply", "ok"}
<1>1. \A u, c, k, t :
         /\ CreateVerdict(u, k) \notin {"audit", "reply", "ok"}
         /\ UpdateVerdict(u, c, k) \notin {"audit", "reply", "ok"}
         /\ TransitionVerdict(u, c, t) \notin {"audit", "reply", "ok"}
         /\ DeleteVerdict(u, c) \notin {"audit", "reply", "ok"}
  BY DEF CreateVerdict, UpdateVerdict, TransitionVerdict, DeleteVerdict
<1>. QED  BY <1>1 DEF Arrival, CreateArrives, UpdateArrives, TransitionArrives, DeleteArrives

\* Where no request deletes, none becomes a deleter.
LEMMA DeletersKept ==
    ASSUME TypeOK, [Next]_vars, \A r \in Requests : ~Removes(r), NEW p \in Requests
    PROVE  Deleted(p)' => Deleted(p) /\ call'[p] = call[p]
<1>0. /\ stage \in [Requests -> {"idle"} \cup InFlight \cup Answered]
      /\ call \in [Requests -> Call \cup {None}]
  BY DEF TypeOK
<1>1. CASE UNCHANGED vars \/ Quiet
  BY <1>1 DEF Quiet, vars, Deleted
<1>2. ASSUME NEW r \in Requests, Arrival(r)
      PROVE  Deleted(p)' => Deleted(p) /\ call'[p] = call[p]
  <2>1. PICK verdict, q, row :
           Arrive(r, verdict, q, row) /\ verdict \notin {"audit", "reply", "ok"}
    BY <1>2, ArrivalVerdict
  <2>2. CASE p # r
    BY <1>0, <2>1, <2>2 DEF Arrive, Deleted
  <2>3. CASE p = r
    BY <1>0, <2>1, <2>3 DEF Arrive, Deleted
  <2>. QED  BY <2>2, <2>3
<1>3. ASSUME NEW r \in Requests, Progress(r)
      PROVE  Deleted(p)' => Deleted(p) /\ call'[p] = call[p]
  <2>1. CASE DeleteCommit(r)
    BY <1>0, <2>1 DEF DeleteCommit, ErrRecordNotFound, Committing, Removes, Written, Deleted
  <2>2. CASE CreateCommit(r) \/ UpdateCommit(r) \/ TransitionCommit(r)
    BY <1>0, <2>2 DEF CreateCommit, UpdateCommit, TransitionCommit, Update, Committing, Deleted
  <2>3. CASE Audit(r) \/ Reply(r)
    BY <1>0, <2>3 DEF Audit, AfterAudit, Reply, Deleted
  <2>4. CASE CallFails(r) \/ AuditFails(r)
    BY <1>0, <2>4 DEF CallFails, AuditFails, AfterAudit, Deleted
  <2>. QED  BY <1>3, <2>1, <2>2, <2>3, <2>4 DEF Progress
<1>4. CASE Crash
  BY <1>0, <1>4 DEF Crash, InFlight, Deleted
<1>. QED  BY <1>1, <1>2, <1>3, <1>4, StepKinds

\* A deleted row stays.
LEMMA DeletedStays ==
    ASSUME TypeOK, [Next]_vars, NEW c \in Codes, rows[c] # None, rows[c].deleted
    PROVE  rows'[c] # None /\ rows'[c].deleted
<1>1. ASSUME NEW r \in Requests, Creates(r) \/ Rewrites(r) \/ Removes(r)
      PROVE  rows'[c] = rows[c]
  BY <1>1, CreatedRow, RewrittenRow, RemovedRow DEF Creates
<1>. QED  BY <1>1, TableSteps

\* Every step keeps deletions apart.
LEMMA DeletionStep ==
    ASSUME TypeOK, Deletions, [Next]_vars
    PROVE  Deletions'
<1>1. ASSUME NEW r \in Requests, Removes(r)
      PROVE  Deletions'
  <2>1. /\ call[r].code \in Codes
        /\ rows[call[r].code] # None /\ ~rows[call[r].code].deleted
        /\ rows'[call[r].code] # None /\ rows'[call[r].code].deleted
    BY <1>1, RemovedRow
  <2>2. /\ stage \in [Requests -> {"idle"} \cup InFlight \cup Answered]
        /\ stage' = [stage EXCEPT ![r] = "audit"] /\ call' = call
    BY <1>1 DEF TypeOK, Removes, Written
  <2>3. \A p \in Requests : Deleted(p)' => Deleted(p) \/ p = r
    BY <2>2 DEF Deleted
  <2>4. \A p \in Requests : Deleted(p) => call[p].code # call[r].code
    BY <2>1 DEF Deletions
  <2>5. \A p \in Requests : Deleted(p)' =>
           /\ call'[p].code \in Codes
           /\ rows'[call'[p].code] # None /\ rows'[call'[p].code].deleted
    BY <2>1, <2>2, <2>3, DeletedStays DEF Deletions
  <2>. HIDE DEF Deleted
  <2>6. \A p, s \in Requests :
           Deleted(p)' /\ Deleted(s)' /\ call'[p].code = call'[s].code => p = s
    BY <2>2, <2>3, <2>4 DEF Deletions
  <2>. QED  BY <2>5, <2>6 DEF Deletions
<1>2. ASSUME \A r \in Requests : ~Removes(r)
      PROVE  Deletions'
  <2>1. \A p \in Requests : Deleted(p)' => Deleted(p) /\ call'[p] = call[p]
    BY <1>2, DeletersKept
  <2>2. \A p \in Requests : Deleted(p)' =>
           /\ call'[p].code \in Codes
           /\ rows'[call'[p].code] # None /\ rows'[call'[p].code].deleted
    BY <2>1, DeletedStays DEF Deletions
  <2>. HIDE DEF Deleted
  <2>. QED  BY <2>1, <2>2 DEF Deletions
<1>. QED  BY <1>1, <1>2

\* Of the callers that delete a record at once, whatever fails, at most one is told
\* that it did (OneDeletion).
THEOREM OneIsToldItDeleted == Spec => []OneDeletion
<1>1. Init => Deletions
  BY DEF Init, Deletions, Deleted
<1>2. IInv /\ Deletions /\ [Next]_vars => Deletions'
  BY DeletionStep DEF IInv
<1>3. Deletions => OneDeletion
  BY DEF Deletions, Deleted, OneDeletion
<1>. QED  BY <1>1, <1>2, <1>3, Invariance, PTL DEF Spec

-----------------------------------------------------------------------------
(* The reply to a write shows it.                                          *)

\* A row that shows what q wrote, or what was written after it.
Shows(row, q) ==
    /\ row.version > q.expected
    /\ row.version = q.expected + 1 =>
          IF q.op = "transition" THEN row.status = q.target ELSE row.content = q.content

\* From its write to its reply, the table shows what a request wrote.
WritesShow ==
    \A r \in Requests : call[r].op \in Writes =>
        /\ stage[r] \in {"audit", "reply"} =>
              rows[call[r].code] # None /\ Shows(rows[call[r].code], call[r])
        /\ stage[r] = "ok" => Shows(view[r], call[r])

\* The ways to be past a write.
PastWrite(p) ==
    \/ Rewrites(p)
    \/ stage'[p] \in {"audit", "reply"} /\ stage[p] \in {"audit", "reply"}
    \/ /\ stage'[p] = "ok" /\ stage[p] = "reply"
       /\ view'[p] = rows[call[p].code] /\ UNCHANGED rows
    \/ stage'[p] = "ok" /\ stage[p] = "ok" /\ view'[p] = view[p]

LEMMA WriterSteps ==
    ASSUME TypeOK, [Next]_vars, NEW p \in Requests,
           call'[p].op \in Writes, stage'[p] \in {"audit", "reply", "ok"}
    PROVE  call'[p] = call[p] /\ PastWrite(p)
<1>0. /\ stage \in [Requests -> {"idle"} \cup InFlight \cup Answered]
      /\ call \in [Requests -> Call \cup {None}]
      /\ view \in [Requests -> Row \cup {None}]
  BY DEF TypeOK
<1>1. CASE UNCHANGED vars \/ Quiet
  BY <1>1 DEF Quiet, vars, PastWrite
<1>2. ASSUME NEW r \in Requests, Arrival(r)
      PROVE  call'[p] = call[p] /\ PastWrite(p)
  <2>1. PICK verdict, q, row :
           Arrive(r, verdict, q, row) /\ verdict \notin {"audit", "reply", "ok"}
    BY <1>2, ArrivalVerdict
  <2>2. p # r
    BY <1>0, <2>1 DEF Arrive
  <2>. QED  BY <1>0, <2>1, <2>2 DEF Arrive, PastWrite
<1>3. ASSUME NEW r \in Requests, Progress(r)
      PROVE  call'[p] = call[p] /\ PastWrite(p)
  <2>1. CASE CreateCommit(r) \/ DeleteCommit(r)
    BY <1>0, <2>1 DEF CreateCommit, DeleteCommit, ErrRecordNotFound, Committing,
                      Writes, PastWrite
  <2>2. CASE UpdateCommit(r)
    BY <1>0, <2>2 DEF UpdateCommit, Update, Committing, Writes, PastWrite, Rewrites,
                      Written, Item
  <2>3. CASE TransitionCommit(r)
    BY <1>0, <2>3 DEF TransitionCommit, Update, Committing, Writes, PastWrite, Rewrites,
                      Written, Item
  <2>4. CASE Audit(r)
    BY <1>0, <2>4 DEF Audit, AfterAudit, PastWrite
  <2>5. CASE Reply(r)
    BY <1>0, <2>5 DEF Reply, PastWrite
  <2>6. CASE CallFails(r) \/ AuditFails(r)
    BY <1>0, <2>6 DEF CallFails, AuditFails, AfterAudit, PastWrite
  <2>. QED  BY <1>3, <2>1, <2>2, <2>3, <2>4, <2>5, <2>6 DEF Progress
<1>4. CASE Crash
  BY <1>0, <1>4 DEF Crash, InFlight, PastWrite
<1>. QED  BY <1>1, <1>2, <1>3, <1>4, StepKinds

\* Every step keeps the writes visible.
LEMMA ShowStep ==
    ASSUME TypeOK, WritesShow, [Next]_vars
    PROVE  WritesShow'
<1>. SUFFICES ASSUME NEW p \in Requests, call'[p].op \in Writes,
                     stage'[p] \in {"audit", "reply", "ok"}
              PROVE  /\ stage'[p] \in {"audit", "reply"} =>
                           /\ rows'[call'[p].code] # None
                           /\ Shows(rows'[call'[p].code], call'[p])
                     /\ stage'[p] = "ok" => Shows(view'[p], call'[p])
  BY DEF WritesShow, Shows
<1>1. call'[p] = call[p] /\ PastWrite(p)
  BY WriterSteps
<1>2. CASE Rewrites(p)
  <2>1. LET c == call[p].code IN
        /\ rows[c] \in Row /\ rows[c].version = call[p].expected
        /\ rows'[c] # None
        /\ rows'[c] = [status |-> Item(p).status, version |-> rows[c].version + 1,
                       content |-> Item(p).content, deleted |-> FALSE]
    BY <1>2, RewrittenRow
  <2>2. stage'[p] = "audit"
    BY <1>2 DEF Rewrites, Written, TypeOK
  <2>3. IF call[p].op = "transition" THEN Item(p).status = call[p].target
                                     ELSE Item(p).content = call[p].content
    BY <1>1 DEF Item, Edited, Moved, NewRow, Writes
  <2>. QED  BY <1>1, <2>1, <2>2, <2>3 DEF Shows, Row
<1>3. CASE stage'[p] \in {"audit", "reply"} /\ stage[p] \in {"audit", "reply"}
  <2>. DEFINE q == call[p]
  <2>1. q.code \in Codes /\ q.expected \in Nat
    BY <1>3 DEF TypeOK, InFlight, Call
  <2>2. Shows(rows[q.code], q)
    BY <1>1, <1>3 DEF WritesShow
  <2>3. rows[q.code] # None
    BY <1>1, <1>3, <2>1 DEF WritesShow
  <2>4. /\ rows[q.code] \in Row /\ rows'[q.code] \in Row /\ rows'[q.code] # None
        /\ rows[q.code].version <= rows'[q.code].version
        /\ rows'[q.code].version = rows[q.code].version =>
              /\ rows'[q.code].status = rows[q.code].status
              /\ rows'[q.code].content = rows[q.code].content
    BY <2>1, <2>3, RowGrows
  <2>. QED  BY <1>1, <1>3, <2>1, <2>2, <2>4 DEF Shows, Row
<1>4. CASE /\ stage'[p] = "ok" /\ stage[p] = "reply"
           /\ view'[p] = rows[call[p].code] /\ UNCHANGED rows
  BY <1>1, <1>4 DEF WritesShow
<1>5. CASE stage'[p] = "ok" /\ stage[p] = "ok" /\ view'[p] = view[p]
  BY <1>1, <1>5 DEF WritesShow
<1>. QED  BY <1>1, <1>2, <1>3, <1>4, <1>5 DEF PastWrite

\* Whatever fails and whoever writes next, the reply to an acknowledged write shows
\* that write or a later version (ReplyShowsWrite).
THEOREM RepliesShowWrites == Spec => []ReplyShowsWrite
<1>1. Init => WritesShow
  BY DEF Init, WritesShow
<1>2. IInv /\ WritesShow /\ [Next]_vars => WritesShow'
  BY ShowStep DEF IInv
<1>3. WritesShow => ReplyShowsWrite
  BY DEF WritesShow, Shows, ReplyShowsWrite
<1>. QED  BY <1>1, <1>2, <1>3, Invariance, PTL DEF Spec

-----------------------------------------------------------------------------
(* The service implements the lifecycle.                                   *)

\* Where callers name versions they were shown, the row a write replaces is the row
\* its request judged: it edits the content or moves along an edge, not both.
LEMMA RewriteFacts ==
    ASSUME ~Speculative, TypeOK, SnapshotsHold, NEW r \in Requests, Rewrites(r)
    PROVE  LET c == call[r].code IN
           /\ snap[r].status = rows[c].status
           /\ \/ Item(r).status = rows[c].status
              \/ /\ Item(r).content = rows[c].content
                 /\ CanTransition(c, rows[c].status, Item(r).status)
<1>. DEFINE q == call[r]
            row == rows[call[r].code]
<1>1. /\ snap[r] \in Row /\ q.op \in Writes /\ q.expected \in Nat
      /\ row \in Row /\ row.version = q.expected
  <2>1. q \in Call /\ snap[r] \in Row /\ q.op \in Writes
    BY DEF TypeOK, Rewrites, InFlight, Writes
  <2>2. row \in Row /\ row.version = q.expected
    BY RewrittenRow
  <2>. QED  BY <2>1, <2>2 DEF Call
<1>2. /\ snap[r].version <= row.version
      /\ snap[r].version = row.version =>
            snap[r].status = row.status /\ snap[r].content = row.content
      /\ q.expected <= snap[r].version
      /\ q.op = "transition" => CanTransition(q.code, snap[r].status, q.target)
  BY DEF SnapshotsHold, Rewrites
<1>3. snap[r].status = row.status /\ snap[r].content = row.content
  BY <1>1, <1>2 DEF Row
<1>4. CASE q.op = "update"
  BY <1>3, <1>4 DEF Item, Edited, NewRow
<1>5. CASE q.op = "transition"
  <2>1. Item(r).content = row.content /\ Item(r).status = q.target
    BY <1>3, <1>5 DEF Item, Moved, NewRow
  <2>. QED  BY <1>2, <1>3, <1>5, <2>1
<1>. QED  BY <1>1, <1>3, <1>4, <1>5 DEF Writes

\* A record's status follows its graph, for callers that name versions they were
\* shown (StatusFollowsGraph).
THEOREM GraphIsFollowed ==
    ASSUME ~Speculative PROVE Spec => StatusFollowsGraph
<1>. DEFINE Follows == \A c \in Codes :
                rows[c] # None /\ rows'[c].status # rows[c].status
                    => CanTransition(c, rows[c].status, rows'[c].status)
<1>1. IInv /\ [Next]_vars => [Follows]_vars
  <2>. SUFFICES ASSUME IInv, [Next]_vars, NEW c \in Codes,
                       rows[c] # None, rows'[c].status # rows[c].status
                PROVE  CanTransition(c, rows[c].status, rows'[c].status)
    OBVIOUS
  <2>1. ASSUME NEW r \in Requests, Creates(r)
        PROVE  FALSE
    BY <2>1, CreatedRow DEF Creates, IInv
  <2>2. ASSUME NEW r \in Requests, Removes(r)
        PROVE  FALSE
    BY <2>2, RemovedRow DEF IInv
  <2>3. ASSUME NEW r \in Requests, Rewrites(r)
        PROVE  CanTransition(c, rows[c].status, rows'[c].status)
    <3>1. /\ rows'[call[r].code] = [status |-> Item(r).status,
                                    version |-> rows[call[r].code].version + 1,
                                    content |-> Item(r).content, deleted |-> FALSE]
          /\ \A d \in Codes \ {call[r].code} : rows'[d] = rows[d]
      BY <2>3, RewrittenRow DEF IInv
    <3>2. c = call[r].code /\ rows'[c].status = Item(r).status
      BY <3>1
    <3>. QED  BY <2>3, <3>2, RewriteFacts DEF IInv
  <2>. QED  BY <2>1, <2>2, <2>3, TableSteps
<1>. QED  BY <1>1, Invariance, PTL DEF Spec, StatusFollowsGraph

\* The lifecycle's variables, as rows give them.
Records == [c \in Codes |-> Recorded(rows[c])]
Removed == {c \in Codes : rows[c] # None /\ rows[c].deleted}

\* A write to one row changes one record.
LEMMA RecordChanges ==
    ASSUME NEW c \in Codes, NEW x, \A d \in Codes \ {c} : rows'[d] = rows[d],
           Recorded(rows'[c]) = x
    PROVE  Records' = [Records EXCEPT ![c] = x]
BY DEF Records, Recorded

\* Creation registers the code.
LEMMA CreatesRegisters ==
    ASSUME TypeOK, NEW r \in Requests, Creates(r)
    PROVE  \E c \in Codes, k \in Contents : Lifecycle!Register(c, k)
<1>. DEFINE c == call[r].code
            k == call[r].content
<1>1. /\ c \in Codes /\ k \in Contents
      /\ rows'[c] = [status |-> Service[c].initial, version |-> 1,
                     content |-> k, deleted |-> FALSE]
      /\ rows'[c] # None
      /\ \A d \in Codes \ {c} : rows'[d] = rows[d]
  BY CreatedRow
<1>2. rows[c] = None
  BY DEF Creates
<1>3. Recorded(rows'[c]) = Lifecycle!Record(Service[c].initial, 1, k)
  BY <1>1 DEF Recorded, Lifecycle!Record
<1>4. Removed' = Removed
  <2>1. ~rows'[c].deleted
    BY <1>1
  <2>. QED  BY <1>1, <1>2, <2>1 DEF Removed
<1>. HIDE DEF c, k
<1>5. Records' = [Records EXCEPT ![c] = Lifecycle!Record(Service[c].initial, 1, k)]
  BY <1>1, <1>3, RecordChanges
<1>6. Records[c] = None
  BY <1>1, <1>2 DEF Records, Recorded
<1>. QED  BY <1>1, <1>4, <1>5, <1>6 DEF Lifecycle!Register, Records, Removed

\* A rewrite edits the record or moves it.
LEMMA RewritesEditsOrMoves ==
    ASSUME ~Speculative, TypeOK, SnapshotsHold, NEW r \in Requests, Rewrites(r)
    PROVE  \E c \in Codes : \/ \E k \in Contents : Lifecycle!Edit(c, k)
                            \/ \E e \in Service[c].graph : Lifecycle!Move(c, e[2])
<1>. DEFINE c == call[r].code
            s == Item(r).status
            k == Item(r).content
<1>1. /\ c \in Codes /\ k \in Contents
      /\ rows[c] \in Row /\ ~rows[c].deleted
      /\ rows'[c] = [status |-> s, version |-> rows[c].version + 1,
                     content |-> k, deleted |-> FALSE]
      /\ rows'[c] # None
      /\ \A d \in Codes \ {c} : rows'[d] = rows[d]
  BY RewrittenRow
<1>2. \/ s = rows[c].status
      \/ k = rows[c].content /\ CanTransition(c, rows[c].status, s)
  BY RewriteFacts
<1>3. Recorded(rows'[c]) = Lifecycle!Record(s, rows[c].version + 1, k)
  BY <1>1 DEF Recorded, Lifecycle!Record
<1>4. rows[c] # None
  BY <1>1, RecordSentinels
<1>5. Removed' = Removed /\ c \notin Removed
  <2>1. ~rows'[c].deleted
    BY <1>1
  <2>. QED  BY <1>1, <2>1 DEF Removed
<1>. HIDE DEF c, s, k
<1>6. Records' = [Records EXCEPT ![c] = Lifecycle!Record(s, rows[c].version + 1, k)]
  BY <1>1, <1>3, RecordChanges
<1>7. Recorded(rows[c]) = [status |-> rows[c].status, version |-> rows[c].version,
                            content |-> rows[c].content]
  BY <1>4 DEF Recorded
<1>8. /\ Records[c].status = rows[c].status /\ Records[c].version = rows[c].version
      /\ Records[c].content = rows[c].content
  BY <1>1, <1>7 DEF Records
<1>9. Records[c] # None
  <2>1. Recorded(rows[c]) \in [status : Statuses, version : Nat \ {0}, content : Contents]
    BY <1>1, <1>7 DEF Row
  <2>. QED  BY <1>1, <2>1, RecordSentinels DEF Records
<1>10. CASE s = rows[c].status
  <2>1. Lifecycle!Edit(c, k)
    BY <1>5, <1>6, <1>8, <1>9, <1>10
       DEF Lifecycle!Edit, Lifecycle!Present, Records, Removed
  <2>. QED  BY <1>1, <2>1
<1>11. CASE k = rows[c].content /\ CanTransition(c, rows[c].status, s)
  <2>1. PICK e \in Service[c].graph : e = <<rows[c].status, s>>
    BY <1>11 DEF CanTransition
  <2>2. e[2] = s
    BY <2>1
  <2>3. Lifecycle!Move(c, s)
    BY <1>5, <1>6, <1>8, <1>9, <1>11
       DEF Lifecycle!Move, Lifecycle!Present, CanTransition, Records, Removed
  <2>. QED  BY <1>1, <2>2, <2>3
<1>. QED  BY <1>2, <1>10, <1>11

\* A deletion removes the record.
LEMMA RemovesRemoves ==
    ASSUME TypeOK, NEW r \in Requests, Removes(r)
    PROVE  \E c \in Codes : Lifecycle!Remove(c)
<1>. DEFINE c == call[r].code
<1>1. /\ c \in Codes
      /\ rows[c] \in Row /\ rows[c] # None /\ ~rows[c].deleted
      /\ rows'[c] \in Row /\ rows'[c] # None
      /\ rows'[c].status = rows[c].status /\ rows'[c].version = rows[c].version
      /\ rows'[c].content = rows[c].content /\ rows'[c].deleted
      /\ \A d \in Codes \ {c} : rows'[d] = rows[d]
  BY RemovedRow
<1>. HIDE DEF c
<1>2. Recorded(rows'[c]) = Recorded(rows[c])
  BY <1>1 DEF Recorded
<1>3. Records' = Records
  BY <1>1, <1>2 DEF Records
<1>4. Removed' = Removed \cup {c} /\ c \notin Removed
  BY <1>1 DEF Removed
<1>5. Records[c] # None
  <2>1. Recorded(rows[c]) \in [status : Statuses, version : Nat \ {0}, content : Contents]
    BY <1>1 DEF Recorded, Row
  <2>. QED  BY <1>1, <2>1, RecordSentinels DEF Records
<1>. QED  BY <1>1, <1>3, <1>4, <1>5 DEF Lifecycle!Remove, Lifecycle!Present, Records, Removed

\* For callers that name versions they were shown, every behaviour of the service is
\* a behaviour of the lifecycle (ImplementsLifecycle).
THEOREM ServiceImplementsLifecycle ==
    ASSUME ~Speculative PROVE Spec => ImplementsLifecycle
<1>1. Init => Lifecycle!LifecycleInit
  <2>. SUFFICES ASSUME Init PROVE Lifecycle!LifecycleInit
    OBVIOUS
  <2>1. \A c \in Codes : rows[c] # None => ~rows[c].deleted
    BY DEF Init, SeedRows, NewRow
  <2>. QED  BY <2>1 DEF Init, Lifecycle!LifecycleInit
<1>2. IInv /\ [Next]_vars => [Lifecycle!LifecycleNext]_(Lifecycle!rvars)
  <2>. SUFFICES ASSUME IInv, [Next]_vars
                PROVE  [Lifecycle!LifecycleNext]_(Lifecycle!rvars)
    OBVIOUS
  <2>1. CASE UNCHANGED rows
    BY <2>1 DEF Lifecycle!rvars
  <2>2. ASSUME NEW r \in Requests, Creates(r)
        PROVE  Lifecycle!LifecycleNext
    BY <2>2, CreatesRegisters DEF Lifecycle!LifecycleNext, IInv
  <2>3. ASSUME NEW r \in Requests, Rewrites(r)
        PROVE  Lifecycle!LifecycleNext
    BY <2>3, RewritesEditsOrMoves DEF Lifecycle!LifecycleNext, IInv
  <2>4. ASSUME NEW r \in Requests, Removes(r)
        PROVE  Lifecycle!LifecycleNext
    BY <2>4, RemovesRemoves DEF Lifecycle!LifecycleNext, IInv
  <2>. QED  BY <2>1, <2>2, <2>3, <2>4, TableSteps
<1>. QED  BY <1>1, <1>2, Invariance, PTL DEF Spec, ImplementsLifecycle, Lifecycle!LifecycleSpec

-----------------------------------------------------------------------------
(* The audit log.                                                          *)

\* Past its audit entry, a request whose failed audit would have been reported has it.
Acknowledges ==
    \A r \in Requests : stage[r] \in {"reply", "ok"} /\ call[r].op \in {"transition", "delete"} =>
        \E a \in audits : a.request = r /\ a.action = call[r].op

\* The ways to be past an audit entry.
LEMMA AckSteps ==
    ASSUME TypeOK, [Next]_vars, NEW p \in Requests,
           stage'[p] \in {"reply", "ok"}, call'[p].op \in {"transition", "delete"}
    PROVE  /\ call'[p] = call[p] /\ audits \subseteq audits'
           /\ stage[p] \in {"reply", "ok"} \/ Audit(p)
<1>0. /\ stage \in [Requests -> {"idle"} \cup InFlight \cup Answered]
      /\ call \in [Requests -> Call \cup {None}]
  BY DEF TypeOK
<1>1. CASE UNCHANGED vars \/ Quiet
  BY <1>1 DEF Quiet, vars
<1>2. ASSUME NEW r \in Requests, Arrival(r)
      PROVE  stage[p] \in {"reply", "ok"} /\ call'[p] = call[p] /\ audits \subseteq audits'
  <2>1. PICK verdict, q, row :
           Arrive(r, verdict, q, row) /\ verdict \notin {"audit", "reply", "ok"}
    BY <1>2, ArrivalVerdict
  <2>2. p # r
    BY <1>0, <2>1 DEF Arrive
  <2>. QED  BY <1>0, <2>1, <2>2 DEF Arrive
<1>3. ASSUME NEW r \in Requests, Progress(r)
      PROVE  /\ call'[p] = call[p] /\ audits \subseteq audits'
             /\ stage[p] \in {"reply", "ok"} \/ Audit(p)
  <2>1. CASE CreateCommit(r) \/ UpdateCommit(r) \/ TransitionCommit(r) \/ DeleteCommit(r)
    BY <1>0, <2>1 DEF CreateCommit, UpdateCommit, TransitionCommit, DeleteCommit, Update,
                      ErrRecordNotFound
  <2>2. CASE Audit(r)
    BY <1>0, <2>2 DEF Audit
  <2>3. CASE Reply(r) \/ CallFails(r)
    BY <1>0, <2>3 DEF Reply, CallFails
  <2>4. CASE AuditFails(r)
    BY <1>0, <2>4 DEF AuditFails
  <2>. QED  BY <1>3, <2>1, <2>2, <2>3, <2>4 DEF Progress
<1>4. CASE Crash
  BY <1>0, <1>4 DEF Crash
<1>. QED  BY <1>1, <1>2, <1>3, <1>4, StepKinds

\* A transition or deletion that was acknowledged is in the audit log, whatever calls
\* fail and whatever versions callers guess (AcknowledgedIsAudited).
THEOREM RecordAcknowledgementsAreAudited == Spec => []AcknowledgedIsAudited
<1>1. Init => Acknowledges
  BY DEF Init, Acknowledges
<1>2. IInv /\ Acknowledges /\ [Next]_vars => Acknowledges'
  <2>. SUFFICES ASSUME IInv, Acknowledges, [Next]_vars, NEW p \in Requests,
                       stage'[p] \in {"reply", "ok"}, call'[p].op \in {"transition", "delete"}
                PROVE  \E a \in audits' : a.request = p /\ a.action = call'[p].op
    BY DEF Acknowledges
  <2>1. /\ call'[p] = call[p] /\ audits \subseteq audits'
        /\ stage[p] \in {"reply", "ok"} \/ Audit(p)
    BY AckSteps DEF IInv
  <2>2. CASE Audit(p)
    <3>1. AuditOf(p) \in audits' /\ AuditOf(p).request = p /\ AuditOf(p).action = call[p].op
      BY <2>2 DEF Audit, AuditOf
    <3>. QED  BY <2>1, <3>1
  <2>3. CASE stage[p] \in {"reply", "ok"}
    BY <2>1, <2>3 DEF Acknowledges
  <2>. QED  BY <2>1, <2>2, <2>3
<1>3. Acknowledges => AcknowledgedIsAudited
  BY DEF Acknowledges, AcknowledgedIsAudited
<1>. QED  BY <1>1, <1>2, <1>3, Invariance, PTL DEF Spec

\* The entries written, and those that requests past their write are about to write.
Pending == {r \in Requests : stage[r] = "audit"}
Due == audits \cup {AuditOf(r) : r \in Pending}

\* How often the entries of one record arrive at a status, its seed counting as one,
\* and how often they leave it.
Arrivals(E, c, s)   == {a \in E : a.code = c /\ a.after = s}
Departures(E, c, s) == {a \in E : a.code = c /\ a.before = s /\ a.action # "delete"}

Seeded(c, s) == IF c \in SeedCodes /\ SeedStatus[c] = s THEN 1 ELSE 0

Arrived(E, c, s)  == Cardinality(Arrivals(E, c, s)) + Seeded(c, s)
Departed(E, c, s) == Cardinality(Departures(E, c, s))

Arrives(e, c, s) == IF e.code = c /\ e.after = s THEN 1 ELSE 0
Departs(e, c, s) == IF e.code = c /\ e.before = s /\ e.action # "delete" THEN 1 ELSE 0

\* One more entry counts once, where it counts.
LEMMA OneMoreEntry ==
    ASSUME NEW E, IsFiniteSet(E), NEW e, e \notin E, NEW c, NEW s
    PROVE  /\ Arrived(E, c, s) \in Nat
           /\ Departed(E, c, s) \in Nat
           /\ Arrived(E \cup {e}, c, s) = Arrived(E, c, s) + Arrives(e, c, s)
           /\ Departed(E \cup {e}, c, s) = Departed(E, c, s) + Departs(e, c, s)
<1>1. /\ IsFiniteSet(Arrivals(E, c, s)) /\ e \notin Arrivals(E, c, s)
      /\ IsFiniteSet(Departures(E, c, s)) /\ e \notin Departures(E, c, s)
  BY FS_Subset DEF Arrivals, Departures
<1>2. /\ Cardinality(Arrivals(E, c, s)) \in Nat
      /\ Cardinality(Departures(E, c, s)) \in Nat
      /\ Cardinality(Arrivals(E, c, s) \cup {e}) = Cardinality(Arrivals(E, c, s)) + 1
      /\ Cardinality(Departures(E, c, s) \cup {e}) = Cardinality(Departures(E, c, s)) + 1
  BY <1>1, FS_CardinalityType, FS_AddElement
<1>3. /\ Arrivals(E \cup {e}, c, s) = IF e.code = c /\ e.after = s
                                      THEN Arrivals(E, c, s) \cup {e} ELSE Arrivals(E, c, s)
      /\ Departures(E \cup {e}, c, s) =
            IF e.code = c /\ e.before = s /\ e.action # "delete"
            THEN Departures(E, c, s) \cup {e} ELSE Departures(E, c, s)
  BY DEF Arrivals, Departures
<1>. QED  BY <1>2, <1>3 DEF Arrived, Departed, Arrives, Departs, Seeded

\* Where no call fails, an entry is due from the write on, and stays.
LEMMA DueSteps ==
    ASSUME TypeOK, ~Faults, [Next]_vars
    PROVE  /\ \A p \in Requests : stage'[p] \in {"idle", "commit"} =>
                                      stage[p] \in {"idle", "commit"}
           /\ \/ Due' = Due /\ UNCHANGED rows
              \/ \E r \in Requests :
                    /\ Creates(r) \/ Rewrites(r) \/ Removes(r)
                    /\ Due' = Due \cup {AuditOf(r)}
                    /\ stage[r] = "commit" /\ stage'[r] = "audit"
<1>0. /\ stage \in [Requests -> {"idle"} \cup InFlight \cup Answered]
      /\ call \in [Requests -> Call \cup {None}] /\ snap \in [Requests -> Row \cup {None}]
  BY DEF TypeOK
<1>. DEFINE Entries == {AuditOf(r) : r \in Pending}
            Past == \A p \in Requests : stage'[p] \in {"idle", "commit"} =>
                                           stage[p] \in {"idle", "commit"}
            Same(r) == \A p \in Requests \ {r} : stage'[p] = stage[p] /\ AuditOf(p)' = AuditOf(p)
<1>1. CASE UNCHANGED vars \/ Quiet
  BY <1>1 DEF Quiet, vars, Due, Pending, AuditOf
<1>2. ASSUME NEW r \in Requests, Arrival(r)
      PROVE  Past /\ Due' = Due /\ UNCHANGED rows
  <2>1. PICK verdict, q, row :
           Arrive(r, verdict, q, row) /\ verdict \notin {"audit", "reply", "ok"}
    BY <1>2, ArrivalVerdict
  <2>2. Same(r)
    BY <1>0, <2>1 DEF Arrive, AuditOf
  <2>3. stage[r] = "idle" /\ stage'[r] # "audit" /\ UNCHANGED <<rows, audits>>
    BY <1>0, <2>1 DEF Arrive
  <2>4. Past
    BY <2>2, <2>3
  <2>5. Due' = Due
    BY <2>2, <2>3 DEF Due, Pending
  <2>. QED  BY <2>3, <2>4, <2>5
<1>3. ASSUME NEW r \in Requests, Progress(r)
      PROVE  /\ Past
             /\ \/ Due' = Due /\ UNCHANGED rows
                \/ /\ Creates(r) \/ Rewrites(r) \/ Removes(r)
                   /\ Due' = Due \cup {AuditOf(r)}
                   /\ stage[r] = "commit" /\ stage'[r] = "audit"
  <2>0. UNCHANGED <<call, snap>>
    BY <1>3 DEF Progress, CreateCommit, UpdateCommit, TransitionCommit, DeleteCommit, Update,
                Audit, Reply, CallFails, AuditFails
  <2>1. AuditOf(r)' = AuditOf(r) /\ Same(r)
    <3>1. \A p \in Requests \ {r} : stage'[p] = stage[p]
      BY <1>0, <1>3 DEF Progress, CreateCommit, UpdateCommit, TransitionCommit, DeleteCommit,
                Update, Audit, Reply, CallFails, AuditFails
    <3>. QED  BY <2>0, <3>1 DEF AuditOf
  <2>2. CASE Creates(r) \/ Rewrites(r) \/ Removes(r)
    <3>1. stage[r] = "commit" /\ stage'[r] = "audit" /\ UNCHANGED audits
      BY <1>0, <2>2 DEF Creates, Rewrites, Removes, Written, Committing
    <3>2. Pending' = Pending \cup {r}
      BY <2>1, <3>1 DEF Pending
    <3>3. Due' = Due \cup {AuditOf(r)}
      <4>1. \A p \in Pending' : AuditOf(p)' = AuditOf(p)
        BY <2>1 DEF Pending
      <4>. QED  BY <3>1, <3>2, <4>1 DEF Due
    <3>4. Past
      BY <2>1, <3>1
    <3>. QED  BY <2>2, <3>1, <3>3, <3>4
  <2>3. CASE ~(Creates(r) \/ Rewrites(r) \/ Removes(r)) /\ ~Audit(r)
    <3>1. /\ stage[r] \in {"commit", "reply"} /\ UNCHANGED <<rows, audits>>
          /\ stage'[r] \notin {"idle", "commit", "audit"}
      <4>1. CASE CreateCommit(r)
        BY <1>0, <2>3, <4>1 DEF CreateCommit, Committing, Creates, Written
      <4>2. CASE UpdateCommit(r)
        BY <1>0, <2>3, <4>2 DEF UpdateCommit, Update, Committing, Rewrites, Written, Item, Writes
      <4>3. CASE TransitionCommit(r)
        BY <1>0, <2>3, <4>3 DEF TransitionCommit, Update, Committing, Rewrites, Written, Item,
                                Writes
      <4>4. CASE DeleteCommit(r)
        BY <1>0, <2>3, <4>4 DEF DeleteCommit, Committing, Removes, Written, ErrRecordNotFound
      <4>5. CASE Reply(r)
        BY <1>0, <4>5 DEF Reply
      <4>. QED  BY <1>3, <2>3, <4>1, <4>2, <4>3, <4>4, <4>5 DEF Progress, CallFails, AuditFails
    <3>2. Pending' = Pending
      BY <2>1, <3>1 DEF Pending
    <3>. QED  BY <2>1, <3>1, <3>2 DEF Due, Pending
  <2>4. CASE Audit(r)
    <3>1. /\ stage[r] = "audit" /\ stage'[r] \notin {"idle", "commit", "audit"}
          /\ audits' = audits \cup {AuditOf(r)} /\ UNCHANGED rows
      BY <1>0, <2>4 DEF Audit, AfterAudit
    <3>2. Pending = Pending' \cup {r}
      BY <2>1, <3>1 DEF Pending
    <3>3. Due' = Due
      BY <2>1, <3>1, <3>2 DEF Due, Pending
    <3>. QED  BY <2>1, <3>1, <3>3
  <2>. QED  BY <2>2, <2>3, <2>4
<1>. QED  BY <1>1, <1>2, <1>3, StepKinds DEF Crash

\* The entries due balance: a record arrived at each status as often as it left it,
\* but for the one it is in; a request has no entry before its write, nor a code
\* before its row.
Here(row, s) == IF row.status = s THEN 1 ELSE 0

Balanced ==
    /\ IsFiniteSet(Due)
    /\ \A c \in SeedCodes : rows[c] # None
    /\ \A a \in Due : /\ a.request \in Requests /\ stage[a.request] \notin {"idle", "commit"}
                      /\ a.code \in Codes /\ rows[a.code] # None
    /\ \A c \in Codes, s \in Statuses : rows[c] # None =>
          Arrived(Due, c, s) = Departed(Due, c, s) + Here(rows[c], s)

\* The seeds balance: each arrived where it is.
LEMMA BalancedInit == Init => Balanced
<1>. SUFFICES ASSUME Init PROVE Balanced
  OBVIOUS
<1>1. Due = {}
  BY DEF Init, Due, Pending
<1>2. \A c, s : Arrivals(Due, c, s) = {} /\ Departures(Due, c, s) = {}
  BY <1>1 DEF Arrivals, Departures
<1>3. IsFiniteSet({}) /\ Cardinality({}) = 0
  BY FS_EmptySet
<1>4. \A c \in Codes : rows[c] # None => c \in SeedCodes /\ rows[c].status = SeedStatus[c]
  BY DEF Init, SeedRows, NewRow
<1>5. \A c \in SeedCodes : rows[c] # None
  <2>1. \A c \in SeedCodes : NewRow(SeedStatus[c], 1, SeedContent) \in Row
    BY RecordSeeds DEF NewRow, Row
  <2>. QED  BY <2>1, RecordSeeds, RecordSentinels DEF Init, SeedRows
<1>. QED  BY <1>1, <1>2, <1>3, <1>4, <1>5 DEF Balanced, Arrived, Departed, Seeded, Here

\* A write and its entry keep the balance: the entry leaves the status the row had and
\* arrives at the one it gets.
LEMMA WriteBalances ==
    ASSUME ~Speculative, IInv, Balanced, NEW r \in Requests,
           Creates(r) \/ Rewrites(r) \/ Removes(r),
           Due' = Due \cup {AuditOf(r)}, stage[r] = "commit", stage'[r] = "audit",
           \A p \in Requests : stage'[p] \in {"idle", "commit"} => stage[p] \in {"idle", "commit"}
    PROVE  Balanced'
<1>1. TypeOK /\ SnapshotsHold
  BY DEF IInv
<1>2. PICK d \in Codes : d = call[r].code
  BY <1>1, CreatedRow, RewrittenRow, RemovedRow
<1>3. PICK e : e = AuditOf(r)
  OBVIOUS
<1>4. PICK D : D = Due
  OBVIOUS
<1>5. /\ e.code = d /\ e.request = r /\ e \notin D
      /\ IsFiniteSet(D) /\ Due' = D \cup {e}
  BY <1>2, <1>3, <1>4 DEF AuditOf, Balanced
<1>6. /\ rows'[d] # None
      /\ \A c \in Codes \ {d} : rows'[c] = rows[c]
  BY <1>1, <1>2, CreatedRow, RewrittenRow, RemovedRow
<1>7. IsFiniteSet(Due')
  BY <1>5, FS_AddElement
<1>8. \A a \in Due' : /\ a.request \in Requests /\ stage'[a.request] \notin {"idle", "commit"}
                      /\ a.code \in Codes /\ rows'[a.code] # None
  BY <1>4, <1>5, <1>6 DEF Balanced
<1>9. \A c \in SeedCodes : rows'[c] # None
  BY <1>6, RecordSeeds DEF Balanced
<1>10. ASSUME NEW s \in Statuses
       PROVE  Arrived(Due', d, s) = Departed(Due', d, s) + Here(rows'[d], s)
  <2>0. /\ Arrived(D, d, s) \in Nat /\ Departed(D, d, s) \in Nat
        /\ Arrived(D \cup {e}, d, s) = Arrived(D, d, s) + Arrives(e, d, s)
        /\ Departed(D \cup {e}, d, s) = Departed(D, d, s) + Departs(e, d, s)
    BY <1>5, OneMoreEntry
  <2>1. CASE Creates(r)
    <3>1. rows[d] = None /\ rows'[d].status = Service[d].initial /\ d \notin SeedCodes
      <4>1. rows'[d] = [status |-> Service[d].initial, version |-> 1,
                        content |-> call[r].content, deleted |-> FALSE]
        BY <1>1, <1>2, <2>1, CreatedRow
      <4>2. rows[d] = None
        BY <1>2, <2>1 DEF Creates
      <4>. QED  BY <4>1, <4>2 DEF Balanced
    <3>2. e.before = None /\ e.after = Service[d].initial /\ s # None
      BY <1>2, <1>3, <2>1, RecordSentinels DEF AuditOf, Creates, Committing
    <3>3. Arrivals(D, d, s) = {} /\ Departures(D, d, s) = {}
      BY <1>4, <3>1 DEF Balanced, Arrivals, Departures
    <3>4. Arrived(D, d, s) = 0 /\ Departed(D, d, s) = 0
      BY <3>1, <3>3, FS_EmptySet DEF Arrived, Departed, Seeded
    <3>5. Arrives(e, d, s) = Here(rows'[d], s) /\ Departs(e, d, s) = 0
      BY <1>5, <3>1, <3>2 DEF Arrives, Departs, Here
    <3>6. Here(rows'[d], s) \in Nat
      BY DEF Here
    <3>. QED  BY <1>5, <2>0, <3>4, <3>5, <3>6
  <2>2. ASSUME rows[d] # None,
               Arrives(e, d, s) + Here(rows[d], s) = Departs(e, d, s) + Here(rows'[d], s)
        PROVE  Arrived(Due', d, s) = Departed(Due', d, s) + Here(rows'[d], s)
    <3>1. Arrived(D, d, s) = Departed(D, d, s) + Here(rows[d], s)
      BY <1>4, <2>2 DEF Balanced
    <3>2. /\ Arrives(e, d, s) \in Nat /\ Departs(e, d, s) \in Nat
          /\ Here(rows[d], s) \in Nat /\ Here(rows'[d], s) \in Nat
      BY DEF Arrives, Departs, Here
    <3>. QED  BY <1>5, <2>0, <2>2, <3>1, <3>2
  <2>3. CASE Rewrites(r)
    <3>1. /\ rows'[d].status = Item(r).status /\ snap[r].status = rows[d].status
          /\ call[r].op \in {"update", "transition"} /\ rows[d] # None
      <4>1. rows'[d] = [status |-> Item(r).status, version |-> rows[d].version + 1,
                        content |-> Item(r).content, deleted |-> FALSE]
        BY <1>1, <1>2, <2>3, RewrittenRow
      <4>2. snap[r].status = rows[d].status
        BY <1>1, <1>2, <2>3, RewriteFacts
      <4>. QED  BY <1>2, <2>3, <4>1, <4>2 DEF Rewrites, Writes, VersionMatches, Live
    <3>2. e.before = rows[d].status /\ e.after = rows'[d].status /\ e.action # "delete"
      BY <1>3, <3>1 DEF AuditOf, Item, Edited, Moved, NewRow
    <3>3. Arrives(e, d, s) = Here(rows'[d], s) /\ Departs(e, d, s) = Here(rows[d], s)
      BY <1>5, <3>2 DEF Arrives, Departs, Here
    <3>4. Here(rows[d], s) \in Nat /\ Here(rows'[d], s) \in Nat
      BY DEF Here
    <3>. QED  BY <2>2, <3>1, <3>3, <3>4
  <2>4. CASE Removes(r)
    <3>1. rows'[d].status = rows[d].status /\ rows[d] # None
      BY <1>1, <1>2, <2>4, RemovedRow
    <3>2. e.after = "deleted" /\ e.action = "delete" /\ s # "deleted"
      BY <1>3, <2>4, RecordSentinels DEF AuditOf, Removes, Committing
    <3>. QED  BY <2>2, <3>1, <3>2 DEF Arrives, Departs, Here
  <2>. QED  BY <2>1, <2>3, <2>4
<1>11. ASSUME NEW c \in Codes, NEW s \in Statuses, c # d, rows'[c] # None
       PROVE  Arrived(Due', c, s) = Departed(Due', c, s) + Here(rows'[c], s)
  <2>1. /\ Arrived(D, c, s) \in Nat /\ Departed(D, c, s) \in Nat
        /\ Arrived(D \cup {e}, c, s) = Arrived(D, c, s) + Arrives(e, c, s)
        /\ Departed(D \cup {e}, c, s) = Departed(D, c, s) + Departs(e, c, s)
    BY <1>5, OneMoreEntry
  <2>2. Arrives(e, c, s) = 0 /\ Departs(e, c, s) = 0
    BY <1>5, <1>11 DEF Arrives, Departs
  <2>3. Arrived(D, c, s) = Departed(D, c, s) + Here(rows'[c], s)
    BY <1>4, <1>6, <1>11 DEF Balanced
  <2>4. Here(rows'[c], s) \in Nat
    BY DEF Here
  <2>5. Arrived(D \cup {e}, c, s) = Departed(D \cup {e}, c, s) + Here(rows'[c], s)
    BY <2>1, <2>2, <2>3, <2>4
  <2>. QED  BY <1>5, <2>5
<1>12. \A c \in Codes, s \in Statuses : rows'[c] # None =>
          Arrived(Due', c, s) = Departed(Due', c, s) + Here(rows'[c], s)
  BY <1>10, <1>11
<1>. QED  BY <1>7, <1>8, <1>9, <1>12 DEF Balanced

\* Where no call fails and callers name versions they were shown, the audit log
\* explains every record it has no entry pending for (AuditReplays).
THEOREM AuditExplainsTable ==
    ASSUME ~Faults, ~Speculative PROVE Spec => []AuditReplays
<1>1. IInv /\ Balanced /\ [Next]_vars => Balanced'
  <2>. SUFFICES ASSUME IInv, Balanced, [Next]_vars PROVE Balanced'
    OBVIOUS
  <2>1. CASE Due' = Due /\ UNCHANGED rows
    BY <2>1, DueSteps DEF IInv, Balanced
  <2>2. CASE ~(Due' = Due /\ UNCHANGED rows)
    BY <2>2, DueSteps, WriteBalances DEF IInv
  <2>. QED  BY <2>1, <2>2
<1>2. Balanced => AuditReplays
  <2>. SUFFICES ASSUME Balanced, NEW c \in Codes, rows[c] # None,
                       \A r \in Requests : stage[r] = "audit" => call[r].code # c,
                       NEW s \in Statuses
                PROVE  LET entries == {a \in audits : a.code = c}
                           arrived == Cardinality({a \in entries : a.after = s})
                                        + IF c \in SeedCodes /\ SeedStatus[c] = s THEN 1 ELSE 0
                           left == Cardinality({a \in entries : a.before = s
                                                                  /\ a.action # "delete"})
                       IN  arrived = left + IF rows[c].status = s THEN 1 ELSE 0
    BY DEF AuditReplays
  <2>1. \A r \in Pending : AuditOf(r).code # c
    BY DEF Pending, AuditOf
  <2>2. /\ {a \in {b \in audits : b.code = c} : a.after = s} = Arrivals(Due, c, s)
        /\ {a \in {b \in audits : b.code = c} : a.before = s /\ a.action # "delete"}
              = Departures(Due, c, s)
    BY <2>1 DEF Due, Arrivals, Departures
  <2>. QED  BY <2>2 DEF Balanced, Arrived, Departed, Seeded, Here
<1>. QED  BY <1>1, <1>2, BalancedInit, Invariance, PTL DEF Spec

=============================================================================
