----------------------- MODULE PriorityDecisionProofs -----------------------
(***************************************************************************)
(* Safety of the priority decision service, for any requests, users, codes, *)
(* contents and seeds.  The inductive invariant is IInv: the shape of the   *)
(* state, the numbering of revisions, and what a request in flight may rely *)
(* on about the row it read.  Whatever concerns the tables is proved from   *)
(* the four ways a step can touch them (TableSteps); whatever concerns what *)
(* a request leaves behind and is told, from Trails, which says it of one   *)
(* request at a time, the step being its own or another's (RequestSteps).   *)
(***************************************************************************)
EXTENDS PriorityDecisionRefinement, FiniteSetTheorems, TLAPS

IInv == TypeOK /\ RevisionChain /\ SnapshotsHold

(* The ways a step touches the tables.                                     *)

Item(r) == IF call[r].op = "update" THEN Edited(call[r], snap[r])
                                    ELSE Finalized(call[r], snap[r])

Creates(r) ==
    /\ Committing(r, "create")
    /\ rows[call[r].code] = None
    /\ rows' = [rows EXCEPT ![call[r].code] = Created(call[r])]
    /\ revisions' = revisions \cup {newPriorityRevision(r, Created(call[r]))}

Rewrites(r) ==
    /\ stage[r] = "commit" /\ call[r].op \in {"update", "transition"}
    /\ VersionMatches(call[r].code, call[r].expected)
    /\ rows' = [rows EXCEPT ![call[r].code] = Overwritten(rows[call[r].code], Item(r))]
    /\ revisions' = revisions \cup {newPriorityRevision(r, Item(r))}

Removes(r) ==
    /\ Committing(r, "delete")
    /\ Live(call[r].code)
    /\ rows' = [rows EXCEPT ![call[r].code].deleted = TRUE]
    /\ UNCHANGED revisions

\* A step that changes rows or revisions is the commit of one request; every
\* other step, a failure or a crash too, leaves both alone.
LEMMA TableSteps ==
    ASSUME [Next]_vars
    PROVE  \/ UNCHANGED <<rows, revisions>>
           \/ \E r \in Requests : Creates(r) \/ Rewrites(r) \/ Removes(r)
<1>1. CASE UNCHANGED vars
  BY <1>1 DEF vars
<1>2. CASE Crash \/ Quiet
  BY <1>2 DEF Crash, Quiet, vars, tables
<1>3. ASSUME NEW r \in Requests, Arrival(r) \/ CallFails(r) \/ AuditFails(r)
      PROVE  UNCHANGED <<rows, revisions>>
  BY <1>3 DEF Arrival, CreateArrives, UpdateArrives, TransitionArrives,
              DeleteArrives, GetArrives, Arrive, CallFails, AuditFails, tables
<1>4. ASSUME NEW r \in Requests, Serve(r)
      PROVE  \/ UNCHANGED <<rows, revisions>>
             \/ Creates(r) \/ Rewrites(r) \/ Removes(r)
  <2>1. CASE CreateCommit(r)
    BY <2>1 DEF CreateCommit, Creates
  <2>2. CASE UpdateCommit(r)
    BY <2>2 DEF UpdateCommit, UpdateWithRevision, Committing, Rewrites, Item
  <2>3. CASE TransitionCommit(r)
    BY <2>3 DEF TransitionCommit, UpdateWithRevision, Committing, Rewrites, Item
  <2>4. CASE DeleteCommit(r)
    BY <2>4 DEF DeleteCommit, Removes
  <2>5. CASE Audit(r) \/ ReplyRow(r) \/ ReplyHistory(r)
    BY <2>5 DEF Audit, ReplyRow, ReplyHistory, tables
  <2>. QED  BY <1>4, <2>1, <2>2, <2>3, <2>4, <2>5 DEF Serve
<1>. QED  BY <1>1, <1>2, <1>3, <1>4 DEF Next

-----------------------------------------------------------------------------
(* What a commit writes, in the fields of the row.                         *)

\* A creation puts a first draft, version 1, and its revision in the tables.
LEMMA CreatedRow ==
    ASSUME TypeOK, NEW r \in Requests, Creates(r)
    PROVE  LET q == call[r] IN
           /\ q.code \in Codes /\ q.content \in Contents /\ q.user \in Users
           /\ rows'[q.code] = [status |-> "draft", version |-> 1, content |-> q.content,
                               preparedBy |-> q.user, deleted |-> FALSE]
           /\ rows'[q.code] \in Row
           /\ rows'[q.code] # None
           /\ \A c \in Codes \ {q.code} : rows'[c] = rows[c]
           /\ revisions' = revisions \cup
                {[code |-> q.code, version |-> 1, status |-> "draft",
                  content |-> q.content, actor |-> q.user, request |-> r]}
<1>1. call[r] \in Call /\ call[r].content \in Contents
  BY DEF TypeOK, Creates, Committing, InFlight
<1>2. Created(call[r]) \in Row
  BY <1>1 DEF Created, Row, Call, Statuses
<1>3. rows' = [rows EXCEPT ![call[r].code] = Created(call[r])]
  BY DEF Creates
<1>4. rows \in [Codes -> Row \cup {None}] /\ call[r].code \in Codes /\ call[r].user \in Users
  BY <1>1 DEF TypeOK, Call
<1>5. /\ rows'[call[r].code] = Created(call[r])
      /\ \A c \in Codes \ {call[r].code} : rows'[c] = rows[c]
  BY <1>3, <1>4
<1>6. revisions' = revisions \cup
                {[code |-> call[r].code, version |-> 1, status |-> "draft",
                  content |-> call[r].content, actor |-> call[r].user, request |-> r]}
  BY DEF Creates, Created, newPriorityRevision
<1>. QED  BY <1>1, <1>2, <1>4, <1>5, <1>6, SentinelAssumption DEF Created

\* An update or transition that matched its version writes the next one, and the
\* revision of the same fields.
LEMMA RewrittenRow ==
    ASSUME TypeOK, SnapshotsHold, NEW r \in Requests, Rewrites(r)
    PROVE  LET q == call[r]
               c == call[r].code
           IN
           /\ c \in Codes /\ q.user \in Users
           /\ rows[c] \in Row /\ ~rows[c].deleted
           /\ rows[c].version = q.expected
           /\ Item(r).content \in Contents /\ Item(r).status \in Statuses
           /\ rows'[c] = [status |-> Item(r).status, version |-> rows[c].version + 1,
                          content |-> Item(r).content,
                          preparedBy |-> rows[c].preparedBy, deleted |-> FALSE]
           /\ rows'[c] \in Row
           /\ rows'[c] # None
           /\ \A d \in Codes \ {c} : rows'[d] = rows[d]
           /\ revisions' = revisions \cup
                {[code |-> c, version |-> rows[c].version + 1,
                  status |-> Item(r).status, content |-> Item(r).content,
                  actor |-> q.user, request |-> r]}
<1>. DEFINE q == call[r]
            c == call[r].code
<1>1. q \in Call /\ snap[r] \in Row
  BY DEF TypeOK, Rewrites, InFlight
<1>2. /\ c \in Codes /\ q.user \in Users
      /\ rows[c] \in Row /\ rows[c].deleted = FALSE
      /\ rows[c].version = q.expected
  BY <1>1 DEF TypeOK, Rewrites, Call, VersionMatches, Live, Row
<1>3. Item(r).content \in Contents /\ Item(r).status \in Statuses
  <2>1. CASE q.op = "update"
    <3>1. q.content \in Contents
      BY <2>1 DEF TypeOK, Rewrites
    <3>. QED  BY <1>1, <2>1, <3>1 DEF Item, Edited, Row
  <2>2. CASE q.op = "transition"
    <3>1. q.target \in Statuses
      BY <2>2 DEF TypeOK, Rewrites
    <3>. QED  BY <1>1, <2>2, <3>1 DEF Item, Finalized, Row
  <2>. QED  BY <2>1, <2>2 DEF Rewrites
<1>4. Item(r).version = rows[c].version + 1
  BY <1>1, <1>2 DEF Item, Edited, Finalized, Row
<1>5. rows' = [rows EXCEPT ![c] = Overwritten(rows[c], Item(r))]
  BY DEF Rewrites
<1>6. rows \in [Codes -> Row \cup {None}]
  BY DEF TypeOK
<1>7. rows'[c] = [status |-> Item(r).status, version |-> rows[c].version + 1,
                  content |-> Item(r).content,
                  preparedBy |-> rows[c].preparedBy, deleted |-> FALSE]
  BY <1>2, <1>4, <1>5, <1>6 DEF Overwritten
<1>8. rows'[c] \in Row
  BY <1>2, <1>3, <1>7 DEF Row
<1>9. \A d \in Codes \ {c} : rows'[d] = rows[d]
  BY <1>5, <1>6
<1>10. revisions' = revisions \cup
                {[code |-> c, version |-> rows[c].version + 1,
                  status |-> Item(r).status, content |-> Item(r).content,
                  actor |-> q.user, request |-> r]}
  BY <1>4 DEF Rewrites, newPriorityRevision
<1>. QED  BY <1>2, <1>3, <1>7, <1>8, <1>9, <1>10, SentinelAssumption

\* A deletion sets the flag of a live row and nothing else.
LEMMA RemovedRow ==
    ASSUME TypeOK, NEW r \in Requests, Removes(r)
    PROVE  LET c == call[r].code IN
           /\ c \in Codes
           /\ rows[c] \in Row /\ ~rows[c].deleted
           /\ rows'[c] = [rows[c] EXCEPT !.deleted = TRUE]
           /\ rows'[c] \in Row
           /\ rows'[c] # None
           /\ \A d \in Codes \ {c} : rows'[d] = rows[d]
           /\ revisions' = revisions
<1>1. call[r] \in Call
  BY DEF TypeOK, Removes, Committing, InFlight
<1>2. rows[call[r].code] \in Row
  BY <1>1 DEF TypeOK, Removes, Live, Call
<1>3. [rows[call[r].code] EXCEPT !.deleted = TRUE] \in Row
  BY <1>2 DEF Row
<1>4. /\ rows'[call[r].code] = [rows[call[r].code] EXCEPT !.deleted = TRUE]
      /\ \A d \in Codes \ {call[r].code} : rows'[d] = rows[d]
  BY <1>1 DEF TypeOK, Removes, Call
<1>. QED  BY <1>1, <1>2, <1>3, <1>4, SentinelAssumption DEF Removes, Live, Call

-----------------------------------------------------------------------------
(* The numbering of revisions.                                             *)

\* The seeded database is numbered.
LEMMA ChainInit == Init => RevisionChain
<1>. SUFFICES ASSUME Init PROVE RevisionChain
  OBVIOUS
<1>1. \A c \in Codes : rows[c] = IF c \in SeedCodes THEN SeedRow(c) ELSE None
  BY DEF Init
<1>2. \A c \in SeedCodes : rows[c] = SeedRow(c) /\ SeedRow(c) \in Row
  BY <1>1, SeedAssumption DEF SeedRow, Row, Statuses
<1>3. \A v \in revisions : v.code \in SeedCodes
  BY DEF Init, SeedRevisions
<1>4. ASSUME NEW v \in revisions
      PROVE  /\ rows[v.code] # None
             /\ v.version <= rows[v.code].version
             /\ v.version = rows[v.code].version =>
                   v.status = rows[v.code].status /\ v.content = rows[v.code].content
  <2>1. rows[v.code] = SeedRow(v.code) /\ rows[v.code] # None
    BY <1>2, <1>3, SentinelAssumption
  <2>. QED  BY <2>1, <1>3 DEF Init, SeedRevisions, SeedRow
<1>5. \A v, w \in revisions : v.code = w.code /\ v.version = w.version => v = w
  BY DEF Init, SeedRevisions
<1>6. ASSUME NEW c \in Codes, rows[c] # None, NEW n \in 1 .. rows[c].version
      PROVE  \E v \in revisions : v.code = c /\ v.version = n
  <2>1. c \in SeedCodes /\ rows[c] = SeedRow(c)
    BY <1>1, <1>6
  <2>2. rows[c].version = IF SeedStatus[c] = "draft" THEN 1 ELSE 2
    BY <2>1 DEF SeedRow
  <2>3. n = 1 \/ (n = 2 /\ SeedStatus[c] # "draft")
    BY <2>2, <1>6
  <2>4. CASE n = 1
    <3>1. [code |-> c, version |-> 1, status |-> "draft", content |-> SeedContent,
           actor |-> SeedPreparer, request |-> "seed"] \in revisions
      BY <2>1 DEF Init, SeedRevisions
    <3>. QED  BY <2>4, <3>1
  <2>5. CASE n = 2 /\ SeedStatus[c] # "draft"
    <3>1. [code |-> c, version |-> 2, status |-> SeedStatus[c], content |-> SeedContent,
           actor |-> SeedReviewer, request |-> "seed"] \in revisions
      BY <2>1, <2>5 DEF Init, SeedRevisions
    <3>. QED  BY <2>5, <3>1
  <2>. QED  BY <2>3, <2>4, <2>5
<1>. QED  BY <1>4, <1>5, <1>6 DEF RevisionChain

\* A new revision at the version after the row's, the row following it, keeps the
\* numbering: the shape shared by creation (from version 0) and rewriting.
LEMMA ChainExtends ==
    ASSUME TypeOK, RevisionChain, NEW c \in Codes, NEW v,
           v \in Revision, v.code = c,
           rows'[c] \in Row, rows'[c] # None,
           rows'[c].version = v.version,
           rows'[c].status = v.status, rows'[c].content = v.content,
           v.version = IF rows[c] = None THEN 1 ELSE rows[c].version + 1,
           \A d \in Codes \ {c} : rows'[d] = rows[d],
           revisions' = revisions \cup {v}
    PROVE  RevisionChain'
<1>1. \A w \in revisions : /\ w.code \in Codes /\ w.version \in Nat \ {0}
                            /\ rows[w.code] \in Row
                            /\ rows[w.code].version \in Nat
                            /\ w.version <= rows[w.code].version
  BY DEF TypeOK, Revision, RevisionChain, Row
<1>2. v.version \in Nat \ {0}
  BY DEF Revision
<1>3. \A w \in revisions : w.code = c => rows[c] # None /\ w.version < v.version
  BY <1>1, <1>2 DEF RevisionChain
<1>4. \A w \in revisions' : /\ rows'[w.code] # None
                             /\ w.version <= rows'[w.code].version
  BY <1>1, <1>2, <1>3 DEF RevisionChain
<1>5. \A w, x \in revisions' : w.code = x.code /\ w.version = x.version => w = x
  BY <1>1, <1>2, <1>3 DEF RevisionChain
<1>6. ASSUME NEW d \in Codes, rows'[d] # None, NEW n \in 1 .. rows'[d].version
      PROVE  \E w \in revisions' : w.code = d /\ w.version = n
  <2>1. CASE d # c
    BY <1>6, <2>1 DEF RevisionChain
  <2>2. CASE d = c /\ n = v.version
    BY <2>2
  <2>3. CASE d = c /\ n # v.version
    <3>1. rows[c] # None /\ n \in 1 .. rows[c].version
      <4>1. rows[c] # None => rows[c].version \in Nat
        BY DEF TypeOK, Row
      <4>. QED  BY <1>2, <1>6, <2>3, <4>1
    <3>. QED  BY <2>3, <3>1 DEF RevisionChain
  <2>. QED  BY <2>1, <2>2, <2>3
<1>7. \A w \in revisions' : w.version = rows'[w.code].version =>
         w.status = rows'[w.code].status /\ w.content = rows'[w.code].content
  BY <1>1, <1>2, <1>3 DEF RevisionChain
<1>. QED  BY <1>4, <1>5, <1>6, <1>7 DEF RevisionChain

\* Every step keeps the numbering.
LEMMA ChainStep ==
    ASSUME TypeOK, RevisionChain, SnapshotsHold, [Next]_vars
    PROVE  RevisionChain'
<1>1. CASE UNCHANGED <<rows, revisions>>
  BY <1>1 DEF RevisionChain
<1>2. ASSUME NEW r \in Requests, Creates(r)
      PROVE  RevisionChain'
  <2>. DEFINE c == call[r].code
              v == [code |-> c, version |-> 1, status |-> "draft",
                    content |-> call[r].content, actor |-> call[r].user, request |-> r]
  <2>1. /\ c \in Codes /\ call[r].content \in Contents /\ call[r].user \in Users
        /\ rows'[c] = [status |-> "draft", version |-> 1, content |-> call[r].content,
                        preparedBy |-> call[r].user, deleted |-> FALSE]
        /\ rows'[c] \in Row /\ rows'[c] # None
        /\ \A d \in Codes \ {c} : rows'[d] = rows[d]
        /\ revisions' = revisions \cup {v}
    BY <1>2, CreatedRow
  <2>2. rows[c] = None /\ v \in Revision
    BY <1>2, <2>1 DEF Creates, Revision, Statuses
  <2>3. /\ c \in Codes /\ v.code = c
        /\ rows'[c] \in Row /\ rows'[c] # None
        /\ rows'[c].version = v.version
        /\ rows'[c].status = v.status /\ rows'[c].content = v.content
        /\ v.version = IF rows[c] = None THEN 1 ELSE rows[c].version + 1
        /\ \A d \in Codes \ {c} : rows'[d] = rows[d]
        /\ revisions' = revisions \cup {v}
    BY <2>1, <2>2
  <2>. HIDE DEF c, v
  <2>. QED  BY <2>2, <2>3, ChainExtends
<1>3. ASSUME NEW r \in Requests, Rewrites(r)
      PROVE  RevisionChain'
  <2>. DEFINE c == call[r].code
              v == [code |-> c, version |-> rows[c].version + 1,
                    status |-> Item(r).status, content |-> Item(r).content,
                    actor |-> call[r].user, request |-> r]
  <2>1. /\ c \in Codes /\ call[r].user \in Users /\ rows[c] \in Row
        /\ Item(r).content \in Contents /\ Item(r).status \in Statuses
        /\ rows'[c] = [status |-> Item(r).status, version |-> rows[c].version + 1,
                        content |-> Item(r).content,
                        preparedBy |-> rows[c].preparedBy, deleted |-> FALSE]
        /\ rows'[c] \in Row /\ rows'[c] # None
        /\ \A d \in Codes \ {c} : rows'[d] = rows[d]
        /\ revisions' = revisions \cup {v}
    BY <1>3, RewrittenRow
  <2>2. rows[c] # None /\ v \in Revision
    BY <2>1, SentinelAssumption DEF Row, Revision
  <2>3. /\ c \in Codes /\ v.code = c
        /\ rows'[c] \in Row /\ rows'[c] # None
        /\ rows'[c].version = v.version
        /\ rows'[c].status = v.status /\ rows'[c].content = v.content
        /\ v.version = IF rows[c] = None THEN 1 ELSE rows[c].version + 1
        /\ \A d \in Codes \ {c} : rows'[d] = rows[d]
        /\ revisions' = revisions \cup {v}
    BY <2>1, <2>2
  <2>. HIDE DEF c, v
  <2>. QED  BY <2>2, <2>3, ChainExtends
<1>4. ASSUME NEW r \in Requests, Removes(r)
      PROVE  RevisionChain'
  <2>. DEFINE c == call[r].code
  <2>1. /\ rows[c] # None /\ rows'[c] # None
        /\ rows'[c].version = rows[c].version
        /\ rows'[c].status = rows[c].status /\ rows'[c].content = rows[c].content
    BY <1>4, RemovedRow, SentinelAssumption DEF Row
  <2>2. /\ \A d \in Codes \ {c} : rows'[d] = rows[d]
        /\ revisions' = revisions
        /\ \A w \in revisions : w.code \in Codes
    BY <1>4, RemovedRow DEF TypeOK, Revision
  <2>. HIDE DEF c
  <2>. QED  BY <2>1, <2>2 DEF RevisionChain
<1>. QED  BY <1>1, <1>2, <1>3, <1>4, TableSteps

-----------------------------------------------------------------------------
(* The shape of the state.                                                 *)

\* The seeded state has its shape.
LEMMA TypeInit == Init => TypeOK
<1>. SUFFICES ASSUME Init PROVE TypeOK
  OBVIOUS
<1>1. rows \in [Codes -> Row \cup {None}]
  <2>1. \A c \in SeedCodes : SeedRow(c) \in Row
    BY SeedAssumption DEF SeedRow, Row, Statuses
  <2>. QED  BY <2>1 DEF Init
<1>2. revisions \subseteq Revision
  BY SeedAssumption DEF Init, SeedRevisions, Revision, Statuses
<1>3. audits \subseteq AuditEntry
  BY DEF Init
<1>4. /\ stage \in [Requests -> {"idle"} \cup InFlight \cup Answered]
      /\ \A r \in Requests : stage[r] \notin InFlight
  BY DEF Init, InFlight
<1>5. /\ call \in [Requests -> Call \cup {None}]
      /\ snap \in [Requests -> Row \cup {None}]
      /\ view \in [Requests -> [version : Nat, shown : SUBSET Nat] \cup {None}]
  BY DEF Init
<1>. QED  BY <1>1, <1>2, <1>3, <1>4, <1>5 DEF TypeOK, InFlight

\* Every step keeps the shape of the tables.
LEMMA TablesType ==
    ASSUME TypeOK, SnapshotsHold, [Next]_vars
    PROVE  rows' \in [Codes -> Row \cup {None}] /\ revisions' \subseteq Revision
<1>1. rows \in [Codes -> Row \cup {None}] /\ revisions \subseteq Revision
  BY DEF TypeOK
<1>2. CASE UNCHANGED <<rows, revisions>>
  BY <1>1, <1>2
<1>3. ASSUME NEW r \in Requests, Creates(r)
      PROVE  rows' \in [Codes -> Row \cup {None}] /\ revisions' \subseteq Revision
  <2>1. Created(call[r]) \in Row
    BY <1>1, <1>3, CreatedRow DEF Created
  <2>2. rows' \in [Codes -> Row \cup {None}]
    BY <1>1, <1>3, <2>1 DEF Creates
  <2>3. newPriorityRevision(r, Created(call[r])) \in Revision
    <3>1. /\ call[r].code \in Codes /\ call[r].content \in Contents
          /\ call[r].user \in Users
      BY <1>3, CreatedRow
    <3>. QED  BY <3>1 DEF newPriorityRevision, Created, Revision, Statuses
  <2>. QED  BY <1>1, <1>3, <2>2, <2>3 DEF Creates
<1>4. ASSUME NEW r \in Requests, Rewrites(r)
      PROVE  rows' \in [Codes -> Row \cup {None}] /\ revisions' \subseteq Revision
  <2>. DEFINE c == call[r].code
              v == [code |-> c, version |-> rows[c].version + 1,
                    status |-> Item(r).status, content |-> Item(r).content,
                    actor |-> call[r].user, request |-> r]
  <2>1. /\ c \in Codes /\ rows'[c] \in Row /\ rows[c] \in Row
        /\ call[r].user \in Users
        /\ Item(r).content \in Contents /\ Item(r).status \in Statuses
        /\ revisions' = revisions \cup {v}
    BY <1>4, RewrittenRow
  <2>2. rows' = [rows EXCEPT ![c] = Overwritten(rows[c], Item(r))]
    BY <1>4 DEF Rewrites
  <2>3. rows' \in [Codes -> Row \cup {None}]
    <3>. HIDE DEF c
    <3>. QED  BY <1>1, <2>1, <2>2
  <2>4. v \in Revision
    BY <2>1 DEF Row, Revision
  <2>. HIDE DEF v
  <2>. QED  BY <1>1, <2>1, <2>3, <2>4
<1>5. ASSUME NEW r \in Requests, Removes(r)
      PROVE  rows' \in [Codes -> Row \cup {None}] /\ revisions' \subseteq Revision
  BY <1>1, <1>5, RemovedRow DEF Removes
<1>. QED  BY <1>2, <1>3, <1>4, <1>5, TableSteps

\* What the record of a request holds at each stage: the last conjunct of TypeOK.
RecordOK(s, q, row, v) ==
    /\ s \in {"idle"} \cup InFlight \cup Answered
    /\ q \in Call \cup {None}
    /\ row \in Row \cup {None}
    /\ v \in [version : Nat, shown : SUBSET Nat] \cup {None}
    /\ s \in InFlight => q \in Call
    /\ s \in {"commit", "audit"} =>
          /\ q.op \in Changes \cup {"delete"}
          /\ q.op # "create" => row \in Row
          /\ q.op \in {"create", "update"} => q.content \in Contents
          /\ q.op = "transition" => q.target \in Statuses
    /\ s = "history" => v \in [version : Nat, shown : SUBSET Nat]

RecordsOK ==
    /\ stage = [r \in Requests |-> stage[r]] /\ call = [r \in Requests |-> call[r]]
    /\ snap = [r \in Requests |-> snap[r]]   /\ view = [r \in Requests |-> view[r]]
    /\ \A r \in Requests : RecordOK(stage[r], call[r], snap[r], view[r])

TablesOK ==
    /\ rows \in [Codes -> Row \cup {None}]
    /\ revisions \subseteq Revision
    /\ audits \subseteq AuditEntry

\* The shape of the state is that of the tables and that of the records.
LEMMA TypeByParts == TypeOK <=> TablesOK /\ RecordsOK
<1>. DEFINE View == [version : Nat, shown : SUBSET Nat]
            Stages == {"idle"} \cup InFlight \cup Answered
<1>1. /\ stage \in [Requests -> Stages] <=>
            stage = [r \in Requests |-> stage[r]] /\ \A r \in Requests : stage[r] \in Stages
      /\ call \in [Requests -> Call \cup {None}] <=>
            call = [r \in Requests |-> call[r]] /\ \A r \in Requests : call[r] \in Call \cup {None}
      /\ snap \in [Requests -> Row \cup {None}] <=>
            snap = [r \in Requests |-> snap[r]] /\ \A r \in Requests : snap[r] \in Row \cup {None}
      /\ view \in [Requests -> View \cup {None}] <=>
            view = [r \in Requests |-> view[r]] /\ \A r \in Requests : view[r] \in View \cup {None}
  <2>. HIDE DEF View, Stages
  <2>. QED  OBVIOUS
<1>2. ASSUME TypeOK PROVE RecordsOK
  BY <1>1, <1>2 DEF TypeOK, RecordsOK, RecordOK
<1>3. ASSUME TablesOK, RecordsOK
      PROVE  TypeOK
  <2>1. /\ stage \in [Requests -> Stages] /\ call \in [Requests -> Call \cup {None}]
        /\ snap \in [Requests -> Row \cup {None}] /\ view \in [Requests -> View \cup {None}]
    BY <1>1, <1>3 DEF RecordsOK, RecordOK
  <2>2. \A r \in Requests : RecordOK(stage[r], call[r], snap[r], view[r])
    BY <1>3 DEF RecordsOK
  <2>. QED  BY <1>3, <2>1, <2>2 DEF TypeOK, TablesOK, RecordOK
<1>. QED  BY <1>2, <1>3 DEF TypeOK, TablesOK

\* An operation that passed its checks enters "commit" with a well formed record.
LEMMA ArriveType ==
    ASSUME RecordsOK, NEW r \in Requests, NEW verdict, NEW q, NEW row,
           Arrive(r, verdict, q, row),
           verdict \in Refused \cup {"commit"},
           verdict = "commit" =>
              /\ q \in Call /\ q.op \in Changes \cup {"delete"}
              /\ row \in Row \cup {None}
              /\ q.op # "create" => row \in Row
              /\ q.op \in {"create", "update"} => q.content \in Contents
              /\ q.op = "transition" => q.target \in Statuses
    PROVE  RecordsOK'
<1>1. RecordOK(stage'[r], call'[r], snap'[r], view'[r])
  BY DEF Arrive, RecordsOK, RecordOK, InFlight, Answered, Refused
<1>2. ASSUME NEW p \in Requests \ {r}
      PROVE  RecordOK(stage'[p], call'[p], snap'[p], view'[p])
  BY DEF Arrive, RecordsOK
<1>. QED  BY <1>1, <1>2 DEF Arrive, RecordsOK

\* The verdicts that let an operation go on, and what they checked.
LEMMA VerdictRange ==
    ASSUME NEW u, NEW c, NEW k, NEW t
    PROVE  /\ CreateVerdict(u, k) \in Refused \cup {"commit"}
           /\ UpdateVerdict(u, c, k) \in Refused \cup {"commit"}
           /\ TransitionVerdict(u, c, t) \in Refused \cup {"commit"}
           /\ DeleteVerdict(u, c) \in Refused \cup {"commit"}
           /\ CreateVerdict(u, k) = "commit" => k # Blank
           /\ UpdateVerdict(u, c, k) = "commit" =>
                 /\ Live(c) /\ rows[c].status = "draft" /\ k # Blank
                 /\ u = rows[c].preparedBy \/ IsAdmin(u)
           /\ TransitionVerdict(u, c, t) = "commit" =>
                 /\ Live(c) /\ rows[c].status = "draft"
                 /\ t \in Statuses \ {"draft"}
                 /\ u # rows[c].preparedBy /\ CanReview(u)
           /\ DeleteVerdict(u, c) = "commit" => Live(c)
BY DEF CreateVerdict, UpdateVerdict, TransitionVerdict, DeleteVerdict, Refused,
       CanTransition, PriorityDecisionTransitions, Statuses

\* Every step keeps the shape of the state.
LEMMA TypeStep ==
    ASSUME TypeOK, SnapshotsHold, [Next]_vars
    PROVE  TypeOK'
<1>0. RecordsOK /\ audits \subseteq AuditEntry /\ rows \in [Codes -> Row \cup {None}]
      /\ revisions \subseteq Revision
  BY TypeByParts DEF TablesOK
<1>1. CASE UNCHANGED vars
  BY <1>1 DEF vars, TypeOK
<1>2. ASSUME NEW r \in Requests, Arrival(r)
      PROVE  RecordsOK' /\ UNCHANGED audits
  <2>1. PICK u \in Users, c \in Codes :
            \/ \E k \in Contents \cup {Blank} :
                  \/ CreateArrives(r, u, c, k)
                  \/ \E e \in Expected(c) : UpdateArrives(r, u, c, e, k)
            \/ \E t \in Targets, e \in Expected(c) : TransitionArrives(r, u, c, e, t)
            \/ DeleteArrives(r, u, c)
            \/ GetArrives(r, u, c)
    BY <1>2 DEF Arrival
  <2>2. Expected(c) \subseteq Nat
    <3>1. rows[c] # None => rows[c].version \in Nat
      BY <1>0 DEF Row
    <3>. QED  BY <3>1, CallersAssumption DEF Expected
  <2>3. rows[c] \in Row \cup {None} /\ (Live(c) => rows[c] \in Row)
    BY <1>0 DEF Live
  <2>4. ASSUME NEW k \in Contents \cup {Blank}, CreateArrives(r, u, c, k)
        PROVE  RecordsOK' /\ UNCHANGED audits
    <3>. DEFINE q == [op |-> "create", user |-> u, code |-> c, expected |-> 0,
                      content |-> k, target |-> None]
    <3>1. Arrive(r, CreateVerdict(u, k), q, None)
      BY <2>4 DEF CreateArrives
    <3>2. CreateVerdict(u, k) = "commit" => k \in Contents /\ q \in Call
      BY VerdictRange DEF Call, AllOps
    <3>3. q.op = "create" /\ q.content = k
      OBVIOUS
    <3>4. "create" \in Changes
      BY DEF Changes
    <3>. HIDE DEF q
    <3>5a. CreateVerdict(u, k) \in Refused \cup {"commit"}
      BY VerdictRange
    <3>5. RecordsOK'
      BY <1>0, <2>3, <3>1, <3>2, <3>3, <3>4, <3>5a, ArriveType
    <3>. QED  BY <3>1, <3>5 DEF Arrive, tables
  <2>5. ASSUME NEW k \in Contents \cup {Blank}, NEW e \in Expected(c),
               UpdateArrives(r, u, c, e, k)
        PROVE  RecordsOK' /\ UNCHANGED audits
    <3>. DEFINE q == [op |-> "update", user |-> u, code |-> c, expected |-> e,
                      content |-> k, target |-> None]
    <3>1. Arrive(r, UpdateVerdict(u, c, k), q, rows[c])
      BY <2>5 DEF UpdateArrives
    <3>2. UpdateVerdict(u, c, k) = "commit" =>
             k \in Contents /\ q \in Call /\ rows[c] \in Row
      <4>1. UpdateVerdict(u, c, k) = "commit" => k # Blank /\ Live(c)
        BY DEF UpdateVerdict
      <4>2. k \in Contents => q \in Call
        BY <2>2 DEF Call, AllOps
      <4>. QED  BY <2>3, <4>1, <4>2
    <3>3. q.op = "update" /\ q.content = k
      OBVIOUS
    <3>4. "update" \in Changes
      BY DEF Changes
    <3>. HIDE DEF q
    <3>5a. UpdateVerdict(u, c, k) \in Refused \cup {"commit"}
      BY VerdictRange
    <3>5. RecordsOK'
      BY <1>0, <2>3, <3>1, <3>2, <3>3, <3>4, <3>5a, ArriveType
    <3>. QED  BY <3>1, <3>5 DEF Arrive, tables
  <2>6. ASSUME NEW t \in Targets, NEW e \in Expected(c), TransitionArrives(r, u, c, e, t)
        PROVE  RecordsOK' /\ UNCHANGED audits
    <3>. DEFINE q == [op |-> "transition", user |-> u, code |-> c, expected |-> e,
                      content |-> None, target |-> t]
    <3>1. Arrive(r, TransitionVerdict(u, c, t), q, rows[c])
      BY <2>6 DEF TransitionArrives
    <3>2. TransitionVerdict(u, c, t) = "commit" =>
             t \in Statuses /\ q \in Call /\ rows[c] \in Row
      <4>1. TransitionVerdict(u, c, t) = "commit" => t \in Statuses /\ Live(c)
        BY DEF TransitionVerdict, CanTransition, PriorityDecisionTransitions, Statuses
      <4>2. t \in Statuses => q \in Call
        BY <2>2 DEF Call, AllOps
      <4>. QED  BY <2>3, <4>1, <4>2
    <3>3. q.op = "transition" /\ q.target = t
      OBVIOUS
    <3>4. "transition" \in Changes
      BY DEF Changes
    <3>. HIDE DEF q
    <3>5a. TransitionVerdict(u, c, t) \in Refused \cup {"commit"}
      BY VerdictRange
    <3>5. RecordsOK'
      BY <1>0, <2>3, <3>1, <3>2, <3>3, <3>4, <3>5a, ArriveType
    <3>. QED  BY <3>1, <3>5 DEF Arrive, tables
  <2>7. CASE DeleteArrives(r, u, c)
    <3>. DEFINE q == [op |-> "delete", user |-> u, code |-> c, expected |-> 0,
                      content |-> None, target |-> None]
    <3>1. Arrive(r, DeleteVerdict(u, c), q, rows[c])
      BY <2>7 DEF DeleteArrives
    <3>2. DeleteVerdict(u, c) = "commit" => q \in Call /\ rows[c] \in Row
      BY <2>3, VerdictRange DEF Call, AllOps
    <3>3. q.op = "delete"
      OBVIOUS
    <3>. HIDE DEF q
    <3>4. RecordsOK'
      BY <1>0, <3>1, <3>2, <3>3, VerdictRange, ArriveType
    <3>. QED  BY <3>1, <3>4 DEF Arrive, tables
  <2>8. CASE GetArrives(r, u, c)
    <3>1. [op |-> "get", user |-> u, code |-> c, expected |-> 0, content |-> None,
           target |-> None] \in Call
      BY DEF Call, AllOps
    <3>. QED  BY <1>0, <2>8, <3>1 DEF GetArrives, RecordsOK, RecordOK, InFlight, tables
  <2>. QED  BY <2>1, <2>4, <2>5, <2>6, <2>7, <2>8
<1>3. ASSUME NEW r \in Requests, Serve(r)
      PROVE  RecordsOK' /\ audits' \subseteq AuditEntry
  <2>1. CASE CreateCommit(r) \/ DeleteCommit(r)
    BY <1>0, <2>1 DEF CreateCommit, DeleteCommit, Committing, RecordsOK, RecordOK,
                      InFlight, Answered, Refused
  <2>2. CASE UpdateCommit(r) \/ TransitionCommit(r)
    BY <1>0, <2>2 DEF UpdateCommit, TransitionCommit, UpdateWithRevision, ErrVersionConflict,
                      Committing, RecordsOK, RecordOK, InFlight, Answered, Refused
  <2>3. CASE Audit(r)
    <3>1. RecordsOK'
      BY <1>0, <2>3 DEF Audit, RecordsOK, RecordOK, InFlight, Answered
    <3>2. AuditOf(r) \in AuditEntry
      BY <1>0, <2>3 DEF Audit, RecordsOK, RecordOK, InFlight, AuditOf, AuditEntry,
                        Call, Row, Changes, Statuses
    <3>. QED  BY <1>0, <2>3, <3>1, <3>2 DEF Audit
  <2>4. CASE ReplyRow(r)
    <3>1. Live(call[r].code) => rows[call[r].code].version \in Nat
      BY <1>0, <2>4 DEF ReplyRow, Live, RecordsOK, RecordOK, InFlight, Call, Row
    <3>. QED  BY <1>0, <2>4, <3>1 DEF ReplyRow, RecordsOK, RecordOK, InFlight, Answered,
                                      Refused, tables
  <2>5. CASE ReplyHistory(r)
    <3>. DEFINE listed == {v.version : v \in {w \in revisions : w.code = call[r].code}}
    <3>1. listed \subseteq Nat
      BY <1>0 DEF Revision
    <3>2. view' = [view EXCEPT ![r].shown = listed]
      BY <2>5 DEF ReplyHistory
    <3>3. view[r] \in [version : Nat, shown : SUBSET Nat]
      BY <1>0, <2>5 DEF ReplyHistory, RecordsOK, RecordOK
    <3>4. [view[r] EXCEPT !.shown = listed] \in [version : Nat, shown : SUBSET Nat]
      BY <3>1, <3>3
    <3>5. view' = [view EXCEPT ![r] = [view[r] EXCEPT !.shown = listed]]
      BY <3>2
    <3>. HIDE DEF listed
    <3>. QED  BY <1>0, <2>5, <3>4, <3>5 DEF ReplyHistory, RecordsOK, RecordOK, InFlight,
                                            Answered, tables
  <2>. QED  BY <1>3, <2>1, <2>2, <2>3, <2>4, <2>5, <1>0
            DEF Serve, CreateCommit, UpdateCommit, TransitionCommit, DeleteCommit,
                UpdateWithRevision
<1>4. ASSUME NEW r \in Requests, CallFails(r) \/ AuditFails(r)
      PROVE  RecordsOK' /\ UNCHANGED audits
  BY <1>0, <1>4 DEF CallFails, AuditFails, RecordsOK, RecordOK, InFlight, Answered, tables
<1>5. CASE Crash
  <2>1. /\ stage' = [r \in Requests |-> IF stage[r] \in InFlight THEN "lost" ELSE stage[r]]
        /\ UNCHANGED <<audits, call, snap, view>>
    BY <1>5 DEF Crash, tables
  <2>2. ASSUME NEW r \in Requests
        PROVE  RecordOK(stage'[r], call'[r], snap'[r], view'[r])
    BY <1>0, <2>1 DEF RecordsOK, RecordOK, InFlight, Answered
  <2>3. RecordsOK'
    BY <1>0, <2>1, <2>2 DEF RecordsOK
  <2>4. TablesOK'
    BY <1>0, <2>1, TablesType DEF TablesOK
  <2>. QED  BY <2>3, <2>4, TypeByParts, PTL
<1>6. CASE Quiet
  BY <1>6, <1>1 DEF Quiet
<1>7. CASE \E r \in Requests : Arrival(r) \/ Serve(r) \/ CallFails(r) \/ AuditFails(r)
  <2>1. RecordsOK' /\ audits' \subseteq AuditEntry
    BY <1>0, <1>7, <1>2, <1>3, <1>4
  <2>2. TablesOK'
    BY <2>1, TablesType DEF TablesOK
  <2>. QED  BY <2>1, <2>2, TypeByParts, PTL
<1>. QED  BY <1>1, <1>5, <1>6, <1>7 DEF Next

-----------------------------------------------------------------------------
(* What a request in flight may rely on.                                   *)

\* SnapshotsHold for one request.
SnapshotHolds(r) ==
    stage[r] = "commit" /\ call[r].op \in {"update", "transition"} =>
        LET row == rows[call[r].code]
        IN  /\ row # None
            /\ snap[r].status = "draft"
            /\ snap[r].preparedBy = row.preparedBy
            /\ snap[r].version <= row.version
            /\ snap[r].version = row.version =>
                   snap[r].status = row.status /\ snap[r].content = row.content
            /\ ~Speculative => call[r].expected <= snap[r].version
            /\ IF call[r].op = "update"
               THEN call[r].user = row.preparedBy \/ IsAdmin(call[r].user)
               ELSE /\ call[r].user # row.preparedBy /\ CanReview(call[r].user)
                    /\ call[r].target # "draft"

\* What every step preserves of a row that exists: it stays, its preparer stays,
\* its version never goes back, and while it stays so do status and content.
LEMMA RowGrows ==
    ASSUME TypeOK, SnapshotsHold, [Next]_vars, NEW c \in Codes, rows[c] # None
    PROVE  /\ rows[c] \in Row /\ rows'[c] \in Row /\ rows'[c] # None
           /\ rows'[c].preparedBy = rows[c].preparedBy
           /\ rows[c].version <= rows'[c].version
           /\ rows'[c].version = rows[c].version =>
                 rows'[c].status = rows[c].status /\ rows'[c].content = rows[c].content
<1>1. rows[c] \in Row
  BY DEF TypeOK
<1>2. CASE rows'[c] = rows[c]
  BY <1>1, <1>2 DEF Row
<1>3. ASSUME NEW r \in Requests, Creates(r), rows'[c] # rows[c]
      PROVE  FALSE
  BY <1>3, CreatedRow DEF Creates
<1>4. ASSUME NEW r \in Requests, Rewrites(r), call[r].code = c
      PROVE  /\ rows'[c] \in Row /\ rows'[c] # None
             /\ rows'[c].preparedBy = rows[c].preparedBy
             /\ rows'[c].version = rows[c].version + 1
  <2>1. /\ rows'[c] = [status |-> Item(r).status, version |-> rows[c].version + 1,
                       content |-> Item(r).content,
                       preparedBy |-> rows[c].preparedBy, deleted |-> FALSE]
        /\ rows'[c] \in Row /\ rows'[c] # None
    BY <1>4, RewrittenRow
  <2>. QED  BY <2>1
<1>5. ASSUME NEW r \in Requests, Removes(r), call[r].code = c
      PROVE  /\ rows'[c] \in Row /\ rows'[c] # None
             /\ rows'[c] = [rows[c] EXCEPT !.deleted = TRUE]
  BY <1>5, RemovedRow
<1>6. CASE \E r \in Requests : Rewrites(r) /\ call[r].code = c
  BY <1>1, <1>4, <1>6 DEF Row
<1>7. CASE \E r \in Requests : Removes(r) /\ call[r].code = c
  BY <1>1, <1>5, <1>7 DEF Row
<1>8. \/ rows'[c] = rows[c]
      \/ \E r \in Requests : Rewrites(r) /\ call[r].code = c
      \/ \E r \in Requests : Removes(r) /\ call[r].code = c
  <2>1. ASSUME NEW r \in Requests, Rewrites(r) \/ Removes(r), call[r].code # c
        PROVE  rows'[c] = rows[c]
    BY <2>1, RewrittenRow, RemovedRow
  <2>. QED  BY <1>3, <2>1, TableSteps
<1>. QED  BY <1>2, <1>6, <1>7, <1>8

\* A snapshot stays good while other requests move on.
LEMMA SnapshotKept ==
    ASSUME TypeOK, SnapshotsHold, [Next]_vars, NEW r \in Requests,
           stage'[r] = "commit", stage[r] = "commit",
           call'[r] = call[r], snap'[r] = snap[r]
    PROVE  SnapshotHolds(r)'
<1>. SUFFICES ASSUME call[r].op \in {"update", "transition"}
              PROVE  SnapshotHolds(r)'
  BY DEF SnapshotHolds
<1>. DEFINE c == call[r].code
<1>1. c \in Codes /\ snap[r] \in Row /\ call[r].expected \in Nat
  BY DEF TypeOK, InFlight, Call
<1>2. /\ rows[c] # None
      /\ snap[r].status = "draft"
      /\ snap[r].preparedBy = rows[c].preparedBy
      /\ snap[r].version <= rows[c].version
      /\ snap[r].version = rows[c].version =>
            snap[r].status = rows[c].status /\ snap[r].content = rows[c].content
      /\ ~Speculative => call[r].expected <= snap[r].version
      /\ IF call[r].op = "update"
         THEN call[r].user = rows[c].preparedBy \/ IsAdmin(call[r].user)
         ELSE /\ call[r].user # rows[c].preparedBy /\ CanReview(call[r].user)
              /\ call[r].target # "draft"
  BY DEF SnapshotsHold
<1>3. /\ rows[c] \in Row /\ rows'[c] \in Row /\ rows'[c] # None
      /\ rows'[c].preparedBy = rows[c].preparedBy
      /\ rows[c].version <= rows'[c].version
      /\ rows'[c].version = rows[c].version =>
            rows'[c].status = rows[c].status /\ rows'[c].content = rows[c].content
  BY <1>1, <1>2, RowGrows
<1>4. /\ snap[r].version \in Nat /\ rows[c].version \in Nat /\ rows'[c].version \in Nat
  BY <1>1, <1>3 DEF Row
<1>5. /\ snap[r].version <= rows'[c].version
      /\ snap[r].version = rows'[c].version => rows'[c].version = rows[c].version
  BY <1>2, <1>3, <1>4
<1>6. call'[r].code = c
  OBVIOUS
<1>. HIDE DEF c
<1>. QED  BY <1>2, <1>3, <1>5, <1>6 DEF SnapshotHolds, IsAdmin, CanReview

\* A request that passes its checks has read the row as the table holds it.
LEMMA SnapshotTaken ==
    ASSUME TypeOK, NEW r \in Requests, Arrival(r), stage'[r] = "commit"
    PROVE  SnapshotHolds(r)'
<1>. DEFINE Taken(u, c, e) ==
         /\ UNCHANGED rows
         /\ call'[r].user = u /\ call'[r].code = c /\ call'[r].expected = e
         /\ snap'[r] = rows[c]
         /\ Live(c) /\ rows[c].status = "draft"
<1>1. PICK u \in Users, c \in Codes :
          \/ \E k \in Contents \cup {Blank} :
                \/ CreateArrives(r, u, c, k)
                \/ \E e \in Expected(c) : UpdateArrives(r, u, c, e, k)
          \/ \E t \in Targets, e \in Expected(c) : TransitionArrives(r, u, c, e, t)
          \/ DeleteArrives(r, u, c)
          \/ GetArrives(r, u, c)
  BY DEF Arrival
<1>2. stage \in [Requests -> {"idle"} \cup InFlight \cup Answered]
      /\ call \in [Requests -> Call \cup {None}] /\ snap \in [Requests -> Row \cup {None}]
  BY DEF TypeOK
<1>3. Live(c) => rows[c] \in Row /\ rows[c] # None /\ rows[c].version \in Nat
  BY DEF TypeOK, Live, Row
<1>4. ASSUME Live(c), ~Speculative, NEW e \in Expected(c)
      PROVE  e <= rows[c].version
  BY <1>3, <1>4 DEF Expected
<1>5. ASSUME NEW k \in Contents \cup {Blank}, CreateArrives(r, u, c, k)
      PROVE  SnapshotHolds(r)'
  BY <1>2, <1>5 DEF CreateArrives, Arrive, SnapshotHolds
<1>6. ASSUME NEW k \in Contents \cup {Blank}, NEW e \in Expected(c),
             UpdateArrives(r, u, c, e, k)
      PROVE  SnapshotHolds(r)'
  <2>1. UpdateVerdict(u, c, k) = "commit"
    BY <1>2, <1>6 DEF UpdateArrives, Arrive
  <2>2. Live(c) /\ rows[c].status = "draft"
    BY <2>1, VerdictRange
  <2>3. Taken(u, c, e) /\ call'[r].op = "update"
    BY <1>2, <1>6, <2>1, <2>2 DEF UpdateArrives, Arrive, tables
  <2>4. u = rows[c].preparedBy \/ IsAdmin(u)
    BY <2>1, VerdictRange
  <2>. QED  BY <1>3, <1>4, <2>3, <2>4 DEF SnapshotHolds, IsAdmin
<1>7. ASSUME NEW t \in Targets, NEW e \in Expected(c), TransitionArrives(r, u, c, e, t)
      PROVE  SnapshotHolds(r)'
  <2>1. TransitionVerdict(u, c, t) = "commit"
    BY <1>2, <1>7 DEF TransitionArrives, Arrive
  <2>2. Live(c) /\ rows[c].status = "draft"
    BY <2>1, VerdictRange
  <2>3. Taken(u, c, e) /\ call'[r].op = "transition" /\ call'[r].target = t
    BY <1>2, <1>7, <2>1, <2>2 DEF TransitionArrives, Arrive, tables
  <2>4. u # rows[c].preparedBy /\ CanReview(u) /\ t # "draft"
    BY <2>1, VerdictRange
  <2>. QED  BY <1>3, <1>4, <2>3, <2>4 DEF SnapshotHolds, CanReview
<1>8. CASE DeleteArrives(r, u, c)
  BY <1>2, <1>8 DEF DeleteArrives, Arrive, SnapshotHolds
<1>9. CASE GetArrives(r, u, c)
  BY <1>2, <1>9 DEF GetArrives
<1>. QED  BY <1>1, <1>5, <1>6, <1>7, <1>8, <1>9

\* Every step keeps what requests rely on.
LEMMA SnapshotStep ==
    ASSUME TypeOK, SnapshotsHold, [Next]_vars
    PROVE  SnapshotsHold'
<1>. SUFFICES ASSUME NEW r \in Requests
              PROVE  SnapshotHolds(r)'
  BY DEF SnapshotsHold, SnapshotHolds
<1>1. CASE stage'[r] # "commit"
  BY <1>1 DEF SnapshotHolds
<1>2. CASE stage'[r] = "commit" /\ Arrival(r)
  BY <1>2, SnapshotTaken
<1>3. CASE stage'[r] = "commit" /\ ~Arrival(r)
  <2>1. /\ stage \in [Requests -> {"idle"} \cup InFlight \cup Answered]
        /\ call \in [Requests -> Call \cup {None}] /\ snap \in [Requests -> Row \cup {None}]
    BY DEF TypeOK
  <2>2. stage[r] = "commit" /\ call'[r] = call[r] /\ snap'[r] = snap[r]
    <3>1. CASE UNCHANGED vars
      BY <1>3, <3>1 DEF vars
    <3>2. CASE Crash \/ Quiet
      BY <1>3, <2>1, <3>2 DEF Crash, Quiet, vars
    <3>3. ASSUME NEW p \in Requests, Arrival(p), p # r
          PROVE  stage[r] = "commit" /\ call'[r] = call[r] /\ snap'[r] = snap[r]
      BY <1>3, <2>1, <3>3 DEF Arrival, CreateArrives, UpdateArrives, TransitionArrives,
                              DeleteArrives, GetArrives, Arrive
    <3>4. ASSUME NEW p \in Requests, CallFails(p) \/ AuditFails(p)
          PROVE  stage[r] = "commit" /\ call'[r] = call[r] /\ snap'[r] = snap[r]
      BY <1>3, <2>1, <3>4 DEF CallFails, AuditFails
    <3>5. ASSUME NEW p \in Requests, Serve(p)
          PROVE  stage[r] = "commit" /\ call'[r] = call[r] /\ snap'[r] = snap[r]
      BY <1>3, <2>1, <3>5 DEF Serve, CreateCommit, UpdateCommit, TransitionCommit,
             DeleteCommit, UpdateWithRevision, ErrVersionConflict, Committing,
             Audit, ReplyRow, ReplyHistory
    <3>. QED  BY <1>3, <3>1, <3>2, <3>3, <3>4, <3>5 DEF Next
  <2>. QED  BY <1>3, <2>2, SnapshotKept
<1>. QED  BY <1>1, <1>2, <1>3

-----------------------------------------------------------------------------
(* The inductive invariant.                                                *)

\* IInv holds in the seeded state.
LEMMA IInvInit == Init => IInv
<1>1. Init => SnapshotsHold
  BY DEF Init, SnapshotsHold
<1>. QED  BY <1>1, TypeInit, ChainInit DEF IInv

\* Every step keeps IInv.
LEMMA IInvStep == IInv /\ [Next]_vars => IInv'
BY TypeStep, ChainStep, SnapshotStep DEF IInv

\* IInv is an invariant, whoever calls and whatever fails.
THEOREM Invariance == Spec => []IInv
BY IInvInit, IInvStep, PTL DEF Spec

\* The state always has its shape (TypeOK).
THEOREM TypeCorrect == Spec => []TypeOK
<1>1. IInv => TypeOK
  BY DEF IInv
<1>. QED  BY <1>1, Invariance, PTL

\* A request in flight can rely on the row it read being a draft no newer than the
\* table's, and on the checks it passed (SnapshotsHold).
THEOREM ReadsStayGood == Spec => []SnapshotsHold
<1>1. IInv => SnapshotsHold
  BY DEF IInv
<1>. QED  BY <1>1, Invariance, PTL

\* The revisions of a decision are numbered 1 .. version, and the last is its row:
\* for any callers, with failures and crashes (RevisionChain).
THEOREM HistoryIsComplete == Spec => []RevisionChain
<1>1. IInv => RevisionChain
  BY DEF IInv
<1>. QED  BY <1>1, Invariance, PTL

-----------------------------------------------------------------------------
(* Who finalizes, and what.                                                *)

\* What a rewrite is, from the snapshot it was made of.
LEMMA RewriteFacts ==
    ASSUME TypeOK, SnapshotsHold, NEW r \in Requests, Rewrites(r)
    PROVE  LET q == call[r]
               row == rows[call[r].code]
           IN
           /\ Item(r).status = "draft" =>
                 q.op = "update" /\ (q.user = row.preparedBy \/ IsAdmin(q.user))
           /\ Item(r).status # "draft" =>
                 /\ q.op = "transition" /\ q.user # row.preparedBy /\ CanReview(q.user)
                 /\ Item(r).content = snap[r].content
           /\ ~Speculative =>
                 row.status = "draft" /\ snap[r].content = row.content
<1>. DEFINE q == call[r]
            row == rows[call[r].code]
<1>1. /\ snap[r] \in Row /\ q.op \in {"update", "transition"} /\ q.expected \in Nat
      /\ row \in Row /\ row.version = q.expected
  <2>1. q \in Call /\ snap[r] \in Row /\ q.op \in {"update", "transition"}
    BY DEF TypeOK, Rewrites, InFlight
  <2>2. row \in Row /\ row.version = q.expected
    BY RewrittenRow
  <2>. QED  BY <2>1, <2>2 DEF Call
<1>2. /\ snap[r].status = "draft"
      /\ snap[r].version <= row.version
      /\ snap[r].version = row.version =>
            snap[r].status = row.status /\ snap[r].content = row.content
      /\ ~Speculative => q.expected <= snap[r].version
      /\ IF q.op = "update"
         THEN q.user = row.preparedBy \/ IsAdmin(q.user)
         ELSE q.user # row.preparedBy /\ CanReview(q.user) /\ q.target # "draft"
  BY DEF SnapshotsHold, Rewrites
<1>3. CASE q.op = "update"
  BY <1>1, <1>2, <1>3 DEF Item, Edited, Row
<1>4. CASE q.op = "transition"
  BY <1>1, <1>2, <1>4 DEF Item, Finalized, Row
<1>. QED  BY <1>1, <1>3, <1>4

\* The seeded reviews are independent.
LEMMA IndependentInit == Init => IndependentReview
<1>. SUFFICES ASSUME Init, NEW v \in revisions
              PROVE  IF v.status = "draft"
                     THEN v.actor = rows[v.code].preparedBy \/ IsAdmin(v.actor)
                     ELSE v.actor # rows[v.code].preparedBy /\ CanReview(v.actor)
  BY DEF IndependentReview
<1>1. v.code \in SeedCodes /\ rows[v.code].preparedBy = SeedPreparer
  BY SeedAssumption DEF Init, SeedRevisions, SeedRow
<1>2. \/ v.status = "draft" /\ v.actor = SeedPreparer
      \/ v.status # "draft" /\ v.actor = SeedReviewer
  BY DEF Init, SeedRevisions
<1>. QED  BY <1>1, <1>2, SeedAssumption DEF CanReview

\* Every step keeps reviews independent.
LEMMA IndependentStep ==
    ASSUME IInv, IndependentReview, [Next]_vars
    PROVE  IndependentReview'
<1>. DEFINE Fair(v) ==
         IF v.status = "draft"
         THEN v.actor = rows[v.code].preparedBy \/ IsAdmin(v.actor)
         ELSE v.actor # rows[v.code].preparedBy /\ CanReview(v.actor)
<1>0. TypeOK /\ RevisionChain /\ SnapshotsHold
  BY DEF IInv
<1>1. ASSUME NEW v \in revisions PROVE Fair(v)'
  <2>1. v.code \in Codes /\ rows[v.code] # None
    BY <1>0 DEF TypeOK, Revision, RevisionChain
  <2>2. rows'[v.code].preparedBy = rows[v.code].preparedBy
    BY <1>0, <2>1, RowGrows
  <2>. QED  BY <2>2 DEF IndependentReview, IsAdmin, CanReview
<1>2. ASSUME NEW r \in Requests, Creates(r), NEW v \in revisions' \ revisions
      PROVE  Fair(v)'
  <2>1. /\ rows'[call[r].code] = [status |-> "draft", version |-> 1,
                                   content |-> call[r].content,
                                   preparedBy |-> call[r].user, deleted |-> FALSE]
        /\ revisions' = revisions \cup
             {[code |-> call[r].code, version |-> 1, status |-> "draft",
               content |-> call[r].content, actor |-> call[r].user, request |-> r]}
    BY <1>0, <1>2, CreatedRow
  <2>2. /\ v.code = call[r].code /\ v.status = "draft" /\ v.actor = call[r].user
        /\ rows'[call[r].code].preparedBy = call[r].user
    BY <1>2, <2>1
  <2>. QED  BY <2>2
<1>3. ASSUME NEW r \in Requests, Rewrites(r), NEW v \in revisions' \ revisions
      PROVE  Fair(v)'
  <2>0. /\ rows'[call[r].code] =
             [status |-> Item(r).status, version |-> rows[call[r].code].version + 1,
              content |-> Item(r).content,
              preparedBy |-> rows[call[r].code].preparedBy, deleted |-> FALSE]
        /\ revisions' = revisions \cup
             {[code |-> call[r].code, version |-> rows[call[r].code].version + 1,
               status |-> Item(r).status, content |-> Item(r).content,
               actor |-> call[r].user, request |-> r]}
    BY <1>0, <1>3, RewrittenRow
  <2>1. /\ v.code = call[r].code /\ v.status = Item(r).status /\ v.actor = call[r].user
        /\ rows'[call[r].code].preparedBy = rows[call[r].code].preparedBy
    BY <1>3, <2>0
  <2>2. /\ Item(r).status = "draft" =>
              v.actor = rows'[v.code].preparedBy \/ IsAdmin(v.actor)
        /\ Item(r).status # "draft" =>
              v.actor # rows'[v.code].preparedBy /\ CanReview(v.actor)
    BY <1>0, <1>3, <2>1, RewriteFacts
  <2>. QED  BY <2>1, <2>2 DEF IsAdmin, CanReview
<1>4. ASSUME NEW v \in revisions' PROVE Fair(v)'
  <2>1. CASE v \in revisions
    BY <1>1, <2>1
  <2>2. CASE v \notin revisions
    BY <1>0, <1>2, <1>3, <2>2, TableSteps DEF Removes
  <2>. QED  BY <2>1, <2>2
<1>. QED  BY <1>4 DEF IndependentReview

\* Every final revision is an independent review and every draft one its
\* preparer's or an admin's, for any callers (IndependentReview).
THEOREM ReviewsAreIndependent == Spec => []IndependentReview
<1>1. IInv /\ IndependentReview /\ [Next]_vars => IndependentReview'
  BY IndependentStep
<1>. QED  BY <1>1, IndependentInit, Invariance, PTL DEF Spec

\* Finality, the status half and the content half.
Finality == ReviewIsFinal /\ ReviewedContentKept

\* The seeded decisions are final at their last version.
LEMMA FinalInit == Init => Finality
<1>. SUFFICES ASSUME Init PROVE Finality
  OBVIOUS
<1>1. \A v \in revisions : v.code \in SeedCodes /\ rows[v.code] = SeedRow(v.code)
  BY SeedAssumption DEF Init, SeedRevisions
<1>2. \A v \in revisions :
         /\ v.content = SeedContent
         /\ v.status # "draft" => v.version = 2 /\ SeedStatus[v.code] # "draft"
  BY DEF Init, SeedRevisions
<1>3. ReviewIsFinal
  <2>1. \A c \in SeedCodes : SeedStatus[c] # "draft" => SeedRow(c).version = 2
    BY DEF SeedRow
  <2>. QED  BY <1>1, <1>2, <2>1 DEF ReviewIsFinal
<1>4. ReviewedContentKept
  BY <1>2 DEF ReviewedContentKept
<1>. QED  BY <1>3, <1>4 DEF Finality

\* Where callers name versions they were shown, every step keeps finality: the row
\* that a write replaces is then the row its request judged.
LEMMA FinalStep ==
    ASSUME ~Speculative, IInv, Finality, [Next]_vars
    PROVE  Finality'
<1>0. TypeOK /\ RevisionChain /\ SnapshotsHold
  BY DEF IInv
<1>t. \A v \in revisions : /\ v.code \in Codes /\ rows[v.code] # None
                            /\ v.version \in Nat /\ rows[v.code].version \in Nat
                            /\ v.version <= rows[v.code].version
  BY <1>0 DEF TypeOK, Revision, Row, RevisionChain
<1>1. CASE UNCHANGED <<rows, revisions>>
  BY <1>1 DEF Finality, ReviewIsFinal, ReviewedContentKept
<1>2. ASSUME NEW r \in Requests, Creates(r)
      PROVE  Finality'
  <2>. DEFINE c == call[r].code
              v == [code |-> c, version |-> 1, status |-> "draft",
                    content |-> call[r].content, actor |-> call[r].user, request |-> r]
  <2>1. /\ \A d \in Codes \ {c} : rows'[d] = rows[d]
        /\ revisions' = revisions \cup {v}
    BY <1>0, <1>2, CreatedRow
  <2>2. \A w \in revisions : w.code # c
    BY <1>2, <1>t DEF Creates
  <2>3. v.code = c /\ v.status = "draft"
    OBVIOUS
  <2>. HIDE DEF c, v
  <2>. QED  BY <1>t, <2>1, <2>2, <2>3 DEF Finality, ReviewIsFinal, ReviewedContentKept
<1>3. ASSUME NEW r \in Requests, Rewrites(r)
      PROVE  Finality'
  <2>. DEFINE c == call[r].code
              v == [code |-> c, version |-> rows[c].version + 1,
                    status |-> Item(r).status, content |-> Item(r).content,
                    actor |-> call[r].user, request |-> r]
  <2>1. /\ c \in Codes /\ rows[c] \in Row
        /\ \A d \in Codes \ {c} : rows'[d] = rows[d]
        /\ rows'[c] = [status |-> Item(r).status, version |-> rows[c].version + 1,
                        content |-> Item(r).content,
                        preparedBy |-> rows[c].preparedBy, deleted |-> FALSE]
        /\ revisions' = revisions \cup {v}
    BY <1>0, <1>3, RewrittenRow
  <2>2. /\ rows[c].status = "draft"
        /\ Item(r).status # "draft" => Item(r).content = rows[c].content
    BY <1>0, <1>3, RewriteFacts
  <2>3. /\ v.code = c /\ v.status = Item(r).status /\ v.content = Item(r).content
        /\ v.version = rows[c].version + 1
        /\ rows'[c].version = v.version /\ rows[c].version \in Nat
    BY <2>1 DEF Row
  <2>. HIDE DEF c, v
  <2>4. \A w \in revisions : w.code = c =>
           /\ w.status = "draft" /\ w.version < v.version
           /\ w.version + 1 = v.version => w.content = rows[c].content
    BY <1>0, <1>t, <2>2, <2>3 DEF Finality, ReviewIsFinal, RevisionChain
  <2>5. ReviewIsFinal'
    BY <1>t, <2>1, <2>3, <2>4 DEF Finality, ReviewIsFinal
  <2>6. ReviewedContentKept'
    BY <1>t, <2>1, <2>2, <2>3, <2>4 DEF Finality, ReviewedContentKept
  <2>. QED  BY <2>5, <2>6 DEF Finality
<1>4. ASSUME NEW r \in Requests, Removes(r)
      PROVE  Finality'
  <2>. DEFINE c == call[r].code
  <2>1. /\ \A d \in Codes \ {c} : rows'[d] = rows[d]
        /\ rows'[c].version = rows[c].version
        /\ revisions' = revisions
    BY <1>0, <1>4, RemovedRow DEF Row
  <2>. HIDE DEF c
  <2>. QED  BY <1>t, <2>1 DEF Finality, ReviewIsFinal, ReviewedContentKept
<1>. QED  BY <1>0, <1>1, <1>2, <1>3, <1>4, TableSteps

\* Where callers name versions they were shown, nothing follows a review
\* (ReviewIsFinal) although its checks are made on an earlier read.
THEOREM ReviewsAreFinal ==
    ASSUME ~Speculative PROVE Spec => []ReviewIsFinal
<1>1. IInv /\ Finality /\ [Next]_vars => Finality'
  BY FinalStep
<1>2. Finality => ReviewIsFinal
  BY DEF Finality
<1>. QED  BY <1>1, <1>2, FinalInit, Invariance, PTL DEF Spec

\* And a review finalizes the content the revision before recorded
\* (ReviewedContentKept).
THEOREM ReviewsKeepContent ==
    ASSUME ~Speculative PROVE Spec => []ReviewedContentKept
<1>1. IInv /\ Finality /\ [Next]_vars => Finality'
  BY FinalStep
<1>2. Finality => ReviewedContentKept
  BY DEF Finality
<1>. QED  BY <1>1, <1>2, FinalInit, Invariance, PTL DEF Spec

-----------------------------------------------------------------------------
(* What a step may do to the history.                                      *)

\* Every step adds at most the one revision of the row it changes.
LEMMA HistoryStepHolds ==
    ASSUME IInv, [Next]_vars
    PROVE  HistoryStep
<1>0. TypeOK /\ RevisionChain /\ SnapshotsHold
  BY DEF IInv
<1>t. \A v \in revisions : /\ v.code \in Codes /\ rows[v.code] # None
                            /\ v.version \in Nat /\ rows[v.code].version \in Nat
                            /\ v.version <= rows[v.code].version
  BY <1>0 DEF TypeOK, Revision, Row, RevisionChain
<1>1. CASE UNCHANGED <<rows, revisions>>
  BY <1>1 DEF HistoryStep
<1>2. ASSUME NEW r \in Requests, Creates(r)
      PROVE  HistoryStep
  <2>. DEFINE c == call[r].code
              v == [code |-> c, version |-> 1, status |-> "draft",
                    content |-> call[r].content, actor |-> call[r].user, request |-> r]
  <2>1. /\ c \in Codes
        /\ rows'[c] = [status |-> "draft", version |-> 1, content |-> call[r].content,
                        preparedBy |-> call[r].user, deleted |-> FALSE]
        /\ rows'[c] # None
        /\ \A d \in Codes \ {c} : rows'[d] = rows[d]
        /\ revisions' = revisions \cup {v}
    BY <1>0, <1>2, CreatedRow
  <2>2. rows[c] = None /\ v \notin revisions
    BY <1>2, <1>t DEF Creates
  <2>3. v.code = c /\ v.version = 1 /\ rows'[c].version = 1
    BY <2>1
  <2>4. \A d \in Codes : {w \in revisions' \ revisions : w.code = d} =
                           IF d = c THEN {v} ELSE {}
    BY <2>1, <2>2, <2>3
  <2>. HIDE DEF c, v
  <2>. QED  BY <2>1, <2>2, <2>3, <2>4 DEF HistoryStep
<1>3. ASSUME NEW r \in Requests, Rewrites(r)
      PROVE  HistoryStep
  <2>. DEFINE c == call[r].code
              v == [code |-> c, version |-> rows[c].version + 1,
                    status |-> Item(r).status, content |-> Item(r).content,
                    actor |-> call[r].user, request |-> r]
  <2>1. /\ c \in Codes /\ rows[c] \in Row /\ ~rows[c].deleted
        /\ rows'[c] = [status |-> Item(r).status, version |-> rows[c].version + 1,
                        content |-> Item(r).content,
                        preparedBy |-> rows[c].preparedBy, deleted |-> FALSE]
        /\ \A d \in Codes \ {c} : rows'[d] = rows[d]
        /\ revisions' = revisions \cup {v}
    BY <1>0, <1>3, RewrittenRow
  <2>2. /\ rows[c] # None /\ rows[c].version \in Nat
        /\ rows'[c].version = rows[c].version + 1 /\ ~rows'[c].deleted
        /\ rows'[c].preparedBy = rows[c].preparedBy
    BY <2>1, SentinelAssumption DEF Row
  <2>3. v.code = c /\ v.version = rows'[c].version /\ v \notin revisions
    BY <1>t, <2>2
  <2>4. \A d \in Codes : {w \in revisions' \ revisions : w.code = d} =
                           IF d = c THEN {v} ELSE {}
    BY <2>1, <2>3
  <2>5. rows'[c] # rows[c]
    BY <2>2
  <2>. HIDE DEF c, v
  <2>. QED  BY <2>1, <2>2, <2>3, <2>4, <2>5 DEF HistoryStep
<1>4. ASSUME NEW r \in Requests, Removes(r)
      PROVE  HistoryStep
  <2>. DEFINE c == call[r].code
  <2>1. /\ c \in Codes /\ rows[c] \in Row /\ ~rows[c].deleted
        /\ rows'[c] = [rows[c] EXCEPT !.deleted = TRUE]
        /\ \A d \in Codes \ {c} : rows'[d] = rows[d]
        /\ revisions' = revisions
    BY <1>0, <1>4, RemovedRow
  <2>2. rows[c] # None /\ rows'[c].preparedBy = rows[c].preparedBy
    BY <2>1, SentinelAssumption DEF Row
  <2>3. \A d \in Codes : {w \in revisions' \ revisions : w.code = d} = {}
    BY <2>1
  <2>. HIDE DEF c
  <2>. QED  BY <2>1, <2>2, <2>3 DEF HistoryStep
<1>. QED  BY <1>0, <1>1, <1>2, <1>3, <1>4, TableSteps

\* No step of any caller, and no failure, rewrites history, changes a preparer or
\* brings a deleted decision back (HistoryGrowsWithRow).
THEOREM HistoryOnlyGrows == Spec => HistoryGrowsWithRow
<1>1. IInv /\ [Next]_vars => [HistoryStep]_vars
  BY HistoryStepHolds
<1>. QED  BY <1>1, Invariance, PTL DEF Spec, HistoryGrowsWithRow

-----------------------------------------------------------------------------
(* What a request leaves behind, and what it is told.                      *)

\* The stages of a request whose transaction may have committed.
Wrote == {"audit", "row", "history", "ok", "internal", "lost", "not_found"}

\* How a request's revision and its audit entry follow from what it asked for.
RecordedAs(r, v) ==
    /\ call[r] \in Call /\ call[r].op \in Changes
    /\ v.code = call[r].code /\ v.actor = call[r].user
    /\ v.version = call[r].expected + 1
    /\ call[r].op = "create" => v.version = 1
    /\ IF call[r].op = "transition" THEN v.status = call[r].target
       ELSE v.status = "draft" /\ v.content = call[r].content

AuditedAs(r, a) ==
    /\ call[r] \in Call /\ call[r].op \in Changes \cup {"delete"}
    /\ a.code = call[r].code /\ a.actor = call[r].user /\ a.action = call[r].op
    /\ call[r].op \in {"update", "transition"} => a.before = "draft"
    /\ call[r].op # "delete" =>
          a.after = IF call[r].op = "transition" THEN call[r].target ELSE "draft"
    /\ call[r].op \in Changes => \E v \in revisions : v.request = r

\* What a request leaves in the history and the audit log: only what it asked for,
\* and only when its stage says so; a 404 after a write means the row is deleted.
Trail(r) ==
    /\ \A v \in revisions : v.request = r => stage[r] \in Wrote /\ RecordedAs(r, v)
    /\ \A a \in audits : a.request = r => stage[r] \in Wrote \ {"audit"} /\ AuditedAs(r, a)
    /\ stage[r] \in {"audit", "row", "history", "ok"} /\ call[r].op \in Changes =>
          \E v \in revisions : v.request = r
    /\ stage[r] \in {"row", "history", "ok"} /\ call[r].op \in {"transition", "delete"} =>
          \E a \in audits : a.request = r /\ a.action = call[r].op
    /\ stage[r] = "not_found" =>
          /\ \A v \in revisions : v.request = r => rows[v.code] # None /\ rows[v.code].deleted
          /\ \A a \in audits : a.request = r => rows[a.code] # None /\ rows[a.code].deleted

\* What a request may rely on on its way to its answer, and what a conflict means.
AnswerHolds(r) ==
    /\ stage[r] \in {"commit", "audit"} /\ call[r].op = "create" => call[r].expected = 0
    /\ stage[r] = "audit" /\ call[r].op \in {"update", "transition"} =>
          snap[r].status = "draft"
    /\ stage[r] \in {"row", "history"} => call[r].op # "delete"
    /\ stage[r] = "history" =>
          /\ rows[call[r].code] # None /\ view[r].version <= rows[call[r].code].version
          /\ call[r].op \in Changes => call[r].expected + 1 <= view[r].version
    /\ stage[r] = "ok" => call[r] \in Call
    /\ stage[r] = "ok" /\ call[r].op # "delete" =>
          /\ view[r].version \in Nat
          /\ 1 .. view[r].version \subseteq view[r].shown
          /\ call[r].op \in Changes => call[r].expected + 1 <= view[r].version
    /\ stage[r] = "conflict" =>
          /\ call[r] \in Call /\ rows[call[r].code] # None
          /\ Live(call[r].code) /\ ~Speculative =>
                call[r].expected < rows[call[r].code].version

Trails == \A r \in Requests : Trail(r) /\ AnswerHolds(r)

\* At the start nobody has left anything: the seeds carry no request.
LEMMA TrailsInit == Init => Trails
BY SentinelAssumption DEF Init, Trails, Trail, AnswerHolds, Wrote, SeedRevisions

\* Tables only grow, and what was deleted stays so.
LEMMA TablesGrow ==
    ASSUME IInv, [Next]_vars
    PROVE  /\ revisions \subseteq revisions' /\ audits \subseteq audits'
           /\ \A c \in Codes : rows[c] # None =>
                 /\ rows'[c] # None
                 /\ rows[c].version \in Nat /\ rows'[c].version \in Nat
                 /\ rows[c].version <= rows'[c].version
                 /\ rows[c].deleted => rows'[c].deleted
<1>0. TypeOK /\ SnapshotsHold
  BY DEF IInv
<1>1. revisions \subseteq revisions'
  BY TableSteps DEF Creates, Rewrites, Removes
<1>2. audits \subseteq audits'
  <2>1. CASE UNCHANGED vars
    BY <2>1 DEF vars
  <2>2. CASE Crash \/ Quiet
    BY <2>2 DEF Crash, Quiet, vars, tables
  <2>3. ASSUME NEW r \in Requests, Arrival(r) \/ CallFails(r) \/ AuditFails(r)
        PROVE  audits \subseteq audits'
    BY <2>3 DEF Arrival, CreateArrives, UpdateArrives, TransitionArrives,
                DeleteArrives, GetArrives, Arrive, CallFails, AuditFails, tables
  <2>4. ASSUME NEW r \in Requests, Serve(r)
        PROVE  audits \subseteq audits'
    BY <2>4 DEF Serve, CreateCommit, UpdateCommit, TransitionCommit, DeleteCommit,
                UpdateWithRevision, Audit, ReplyRow, ReplyHistory, tables
  <2>. QED  BY <2>1, <2>2, <2>3, <2>4 DEF Next
<1>3. \A c \in Codes : rows[c] # None =>
         /\ rows'[c] # None /\ rows[c].version \in Nat /\ rows'[c].version \in Nat
         /\ rows[c].version <= rows'[c].version
  BY <1>0, RowGrows DEF Row
<1>4. \A c \in Codes : rows[c] # None /\ rows[c].deleted => rows'[c].deleted
  BY HistoryStepHolds DEF HistoryStep
<1>. QED  BY <1>1, <1>2, <1>3, <1>4

\* A step that is not a request's own leaves its record alone and adds nothing in its
\* name; a crash only turns its stage to "lost".
Bystander(r) ==
    /\ stage'[r] = stage[r] \/ (stage[r] \in InFlight /\ stage'[r] = "lost")
    /\ call'[r] = call[r] /\ snap'[r] = snap[r] /\ view'[r] = view[r]
    /\ \A v \in revisions' : v.request = r => v \in revisions
    /\ \A a \in audits' : a.request = r => a \in audits

\* Other requests' steps are none of its own.
LEMMA OthersSteps ==
    ASSUME TypeOK, NEW r \in Requests, NEW p \in Requests \ {r},
           Arrival(p) \/ Serve(p) \/ CallFails(p) \/ AuditFails(p)
    PROVE  Bystander(r)
<1>0. /\ stage \in [Requests -> {"idle"} \cup InFlight \cup Answered]
      /\ call \in [Requests -> Call \cup {None}] /\ snap \in [Requests -> Row \cup {None}]
      /\ view \in [Requests -> [version : Nat, shown : SUBSET Nat] \cup {None}]
  BY DEF TypeOK
<1>1. CASE Arrival(p) \/ CallFails(p) \/ AuditFails(p)
  BY <1>0, <1>1 DEF Arrival, CreateArrives, UpdateArrives, TransitionArrives,
              DeleteArrives, GetArrives, Arrive, CallFails, AuditFails, tables, Bystander
<1>2. CASE CreateCommit(p)
  BY <1>0, <1>2 DEF CreateCommit, newPriorityRevision, Bystander
<1>3. CASE UpdateCommit(p) \/ TransitionCommit(p)
  BY <1>0, <1>3 DEF UpdateCommit, TransitionCommit, UpdateWithRevision,
                    newPriorityRevision, Bystander
<1>4. CASE DeleteCommit(p)
  BY <1>0, <1>4 DEF DeleteCommit, Bystander
<1>5. CASE Audit(p)
  BY <1>0, <1>5 DEF Audit, AuditOf, Bystander
<1>6. CASE ReplyRow(p) \/ ReplyHistory(p)
  BY <1>0, <1>6 DEF ReplyRow, ReplyHistory, tables, Bystander
<1>. QED  BY <1>1, <1>2, <1>3, <1>4, <1>5, <1>6 DEF Serve

\* A crash is none of its own either.
LEMMA CrashStep ==
    ASSUME TypeOK, NEW r \in Requests, Crash
    PROVE  Bystander(r)
BY DEF Crash, tables, Bystander, TypeOK

\* A step of the system is a step of the request or one it only watches.
LEMMA RequestSteps ==
    ASSUME TypeOK, [Next]_vars, NEW r \in Requests
    PROVE  Arrival(r) \/ Serve(r) \/ CallFails(r) \/ AuditFails(r) \/ Bystander(r)
<1>1. CASE UNCHANGED vars \/ Quiet
  BY <1>1 DEF vars, Quiet, Bystander
<1>. QED  BY <1>1, OthersSteps, CrashStep DEF Next

\* What a request left stays true of it while others work.
LEMMA BystanderStep ==
    ASSUME IInv, [Next]_vars, NEW r \in Requests, Trail(r), AnswerHolds(r), Bystander(r)
    PROVE  Trail(r)' /\ AnswerHolds(r)'
<1>0. /\ TypeOK /\ RevisionChain
      /\ revisions \subseteq revisions' /\ audits \subseteq audits'
      /\ \A c \in Codes : rows[c] # None =>
            /\ rows'[c] # None
            /\ rows[c].version \in Nat /\ rows'[c].version \in Nat
            /\ rows[c].version <= rows'[c].version
            /\ rows[c].deleted => rows'[c].deleted
  BY TablesGrow DEF IInv
<1>1. /\ \A v \in revisions : v.code \in Codes /\ rows[v.code] # None
      /\ stage[r] \in InFlight => call[r] \in Call
      /\ call[r] \in Call => call[r].code \in Codes /\ call[r].expected \in Nat
      /\ stage[r] = "history" => view[r].version \in Nat
  BY <1>0 DEF TypeOK, Revision, RevisionChain, Call
<1>2. CASE stage'[r] = "lost" /\ stage[r] \in InFlight
  BY <1>0, <1>2 DEF Bystander, Trail, AnswerHolds, Wrote, InFlight, RecordedAs, AuditedAs
<1>3. ASSUME stage'[r] = stage[r]
      PROVE  Trail(r)'
  <2>1. /\ \A v \in revisions' : v.request = r => v \in revisions
        /\ \A a \in audits' : a.request = r => a \in audits
        /\ call'[r] = call[r]
    BY DEF Bystander
  <2>2. \A v \in revisions' : v.request = r => stage'[r] \in Wrote /\ RecordedAs(r, v)'
    BY <1>3, <2>1 DEF Trail, RecordedAs
  <2>3. \A a \in audits' : a.request = r => stage'[r] \in Wrote \ {"audit"} /\ AuditedAs(r, a)'
    BY <1>0, <1>3, <2>1 DEF Trail, AuditedAs
  <2>4. ASSUME stage[r] = "not_found"
        PROVE  /\ \A v \in revisions' : v.request = r => rows'[v.code] # None /\ rows'[v.code].deleted
               /\ \A a \in audits' : a.request = r => rows'[a.code] # None /\ rows'[a.code].deleted
    <3>1. \A v \in revisions' : v.request = r => rows'[v.code] # None /\ rows'[v.code].deleted
      BY <1>0, <1>1, <2>1, <2>4 DEF Trail
    <3>2. ASSUME NEW a \in audits', a.request = r
          PROVE  rows'[a.code] # None /\ rows'[a.code].deleted
      <4>1. a \in audits /\ rows[a.code] # None /\ rows[a.code].deleted /\ AuditedAs(r, a)
        BY <2>1, <2>4, <3>2 DEF Trail
      <4>2. a.code \in Codes
        BY <1>0, <4>1 DEF TypeOK, AuditEntry
      <4>. QED  BY <1>0, <4>1, <4>2
    <3>. QED  BY <3>1, <3>2
  <2>. QED  BY <1>0, <1>3, <2>1, <2>2, <2>3, <2>4 DEF Trail
<1>4. ASSUME stage'[r] = stage[r]
      PROVE  AnswerHolds(r)'
  BY <1>0, <1>1, <1>4 DEF Bystander, AnswerHolds, Live, InFlight
<1>. QED  BY <1>2, <1>3, <1>4 DEF Bystander

\* A request that arrives has left nothing yet.
LEMMA ArrivalStep ==
    ASSUME IInv, NEW r \in Requests, Trail(r), AnswerHolds(r), Arrival(r)
    PROVE  Trail(r)' /\ AnswerHolds(r)'
<1>0. /\ stage \in [Requests -> {"idle"} \cup InFlight \cup Answered]
      /\ call \in [Requests -> Call \cup {None}]
  BY DEF IInv, TypeOK
<1>. DEFINE Judged ==
         /\ UNCHANGED tables /\ stage[r] = "idle"
         /\ stage'[r] \in {"forbidden", "business_rule", "not_found", "commit", "row"}
         /\ stage'[r] = "commit" /\ call'[r].op = "create" => call'[r].expected = 0
         /\ stage'[r] = "row" => call'[r].op = "get"
<1>1. Judged
  <2>1. PICK u \in Users, c \in Codes :
            \/ \E k \in Contents \cup {Blank} :
                  \/ CreateArrives(r, u, c, k)
                  \/ \E e \in Expected(c) : UpdateArrives(r, u, c, e, k)
            \/ \E t \in Targets, e \in Expected(c) : TransitionArrives(r, u, c, e, t)
            \/ DeleteArrives(r, u, c)
            \/ GetArrives(r, u, c)
    BY DEF Arrival
  <2>2. ASSUME NEW k, CreateArrives(r, u, c, k)
        PROVE  Judged
    BY <1>0, <2>2 DEF CreateArrives, Arrive, CreateVerdict
  <2>3. ASSUME NEW e, NEW k, UpdateArrives(r, u, c, e, k)
        PROVE  Judged
    BY <1>0, <2>3 DEF UpdateArrives, Arrive, UpdateVerdict
  <2>4. ASSUME NEW e, NEW t, TransitionArrives(r, u, c, e, t)
        PROVE  Judged
    BY <1>0, <2>4 DEF TransitionArrives, Arrive, TransitionVerdict
  <2>5. CASE DeleteArrives(r, u, c)
    BY <1>0, <2>5 DEF DeleteArrives, Arrive, DeleteVerdict
  <2>6. CASE GetArrives(r, u, c)
    BY <1>0, <2>6 DEF GetArrives
  <2>. QED  BY <2>1, <2>2, <2>3, <2>4, <2>5, <2>6
<1>2. /\ \A v \in revisions : v.request # r
      /\ \A a \in audits : a.request # r
  BY <1>1 DEF Trail, Wrote
<1>. QED  BY <1>1, <1>2 DEF Trail, AnswerHolds, tables, Changes

\* A commit leaves the revision its request asked for, or nothing.
LEMMA CommitStep ==
    ASSUME IInv, [Next]_vars, NEW r \in Requests, Trail(r), AnswerHolds(r),
           CreateCommit(r) \/ UpdateCommit(r) \/ TransitionCommit(r) \/ DeleteCommit(r)
    PROVE  Trail(r)' /\ AnswerHolds(r)'
<1>0. /\ TypeOK /\ RevisionChain /\ SnapshotsHold
      /\ stage \in [Requests -> {"idle"} \cup InFlight \cup Answered]
      /\ stage[r] = "commit" /\ call[r] \in Call /\ call[r].op \in Changes \cup {"delete"}
      /\ UNCHANGED <<audits, call, snap, view>>
      /\ call[r].code \in Codes /\ call[r].expected \in Nat
  BY DEF IInv, TypeOK, CreateCommit, UpdateCommit, TransitionCommit, DeleteCommit,
         Committing, UpdateWithRevision, InFlight, Call
<1>1. /\ \A v \in revisions : v.request # r
      /\ \A a \in audits : a.request # r
  BY <1>0 DEF Trail, Wrote
<1>2. CASE CreateCommit(r)
  <2>1. CASE rows[call[r].code] = None
    <3>. PICK v : v = newPriorityRevision(r, Created(call[r]))
      OBVIOUS
    <3>1. /\ stage'[r] = "audit" /\ call[r].op = "create" /\ call[r].expected = 0
          /\ revisions' = revisions \cup {v}
      BY <1>0, <1>2, <2>1 DEF CreateCommit, Committing, AnswerHolds
    <3>2. RecordedAs(r, v)'
      BY <1>0, <3>1 DEF RecordedAs, newPriorityRevision, Created, Changes
    <3>3. \A w \in revisions' : w.request = r => w = v
      BY <1>1, <3>1
    <3>4. v.request = r
      BY DEF newPriorityRevision
    <3>. QED  BY <1>0, <1>1, <3>1, <3>2, <3>3, <3>4 DEF Trail, AnswerHolds, Wrote
  <2>2. CASE rows[call[r].code] # None
    <3>1. stage'[r] = "internal" /\ revisions' = revisions
      BY <1>0, <1>2, <2>2 DEF CreateCommit
    <3>. QED  BY <1>0, <1>1, <3>1 DEF Trail, AnswerHolds
  <2>. QED  BY <2>1, <2>2
<1>3. CASE UpdateCommit(r) \/ TransitionCommit(r)
  <2>1. PICK item : /\ UpdateWithRevision(r, item)
                    /\ call[r].op \in {"update", "transition"}
                    /\ item = Item(r)
    BY <1>3 DEF UpdateCommit, TransitionCommit, Committing, Item
  <2>2. CASE stage'[r] = "audit"
    <3>. PICK v : v = newPriorityRevision(r, item)
      OBVIOUS
    <3>1. revisions' = revisions \cup {v}
      BY <1>0, <2>1, <2>2 DEF UpdateWithRevision, ErrVersionConflict
    <3>2. snap[r].status = "draft" /\ item.version = call[r].expected + 1
      BY <1>0, <2>1 DEF SnapshotsHold, Item, Edited, Finalized
    <3>3. RecordedAs(r, v)'
      BY <1>0, <2>1, <3>2 DEF RecordedAs, newPriorityRevision, Changes, Item, Edited, Finalized
    <3>4. \A w \in revisions' : w.request = r => w = v
      BY <1>1, <3>1
    <3>5. v.request = r
      BY DEF newPriorityRevision
    <3>. QED  BY <1>0, <1>1, <2>1, <2>2, <3>1, <3>2, <3>3, <3>4, <3>5
              DEF Trail, AnswerHolds, Wrote, Changes
  <2>3. CASE stage'[r] = "internal"
    <3>1. revisions' = revisions
      BY <1>0, <2>1, <2>3 DEF UpdateWithRevision
    <3>. QED  BY <1>0, <1>1, <2>3, <3>1 DEF Trail, AnswerHolds
  <2>4. CASE stage'[r] = "conflict"
    <3>1. revisions' = revisions /\ rows' = rows /\ ~VersionMatches(call[r].code, call[r].expected)
      BY <1>0, <2>1, <2>4 DEF UpdateWithRevision
    <3>2. /\ rows[call[r].code] # None
          /\ Live(call[r].code) /\ ~Speculative =>
                call[r].expected < rows[call[r].code].version
      <4>1. /\ rows[call[r].code] # None
            /\ snap[r].version <= rows[call[r].code].version
            /\ ~Speculative => call[r].expected <= snap[r].version
        BY <1>0, <2>1 DEF SnapshotsHold
      <4>2. rows[call[r].code].version \in Nat /\ snap[r].version \in Nat
        BY <1>0, <2>1, <4>1 DEF TypeOK, Row
      <4>. QED  BY <1>0, <3>1, <4>1, <4>2 DEF VersionMatches
    <3>. QED  BY <1>0, <1>1, <2>4, <3>1, <3>2 DEF Trail, AnswerHolds, Live
  <2>. QED  BY <1>0, <2>1, <2>2, <2>3, <2>4 DEF UpdateWithRevision, ErrVersionConflict
<1>4. CASE DeleteCommit(r)
  <2>1. stage'[r] \in {"audit", "not_found"} /\ revisions' = revisions /\ call[r].op = "delete"
    BY <1>0, <1>4 DEF DeleteCommit, Committing
  <2>. QED  BY <1>0, <1>1, <2>1 DEF Trail, AnswerHolds, Changes
<1>. QED  BY <1>2, <1>3, <1>4

\* The entry is the one the request asked for, and it follows the write.
LEMMA AuditStep ==
    ASSUME IInv, NEW r \in Requests, Trail(r), AnswerHolds(r), Audit(r) \/ AuditFails(r)
    PROVE  Trail(r)' /\ AnswerHolds(r)'
<1>0. /\ stage \in [Requests -> {"idle"} \cup InFlight \cup Answered]
      /\ stage[r] = "audit" /\ call[r] \in Call /\ call[r].op \in Changes \cup {"delete"}
      /\ UNCHANGED <<rows, revisions, call, view>>
  BY DEF IInv, TypeOK, Audit, AuditFails, InFlight, tables
<1>1. \A a \in audits : a.request # r
  BY <1>0 DEF Trail
<1>2. CASE Audit(r)
  <2>. PICK a : a = AuditOf(r)
    OBVIOUS
  <2>1. /\ audits' = audits \cup {a}
        /\ stage'[r] = IF call[r].op = "delete" THEN "ok" ELSE "row"
    BY <1>0, <1>2 DEF Audit
  <2>2. a.request = r /\ a.action = call[r].op
    BY DEF AuditOf
  <2>3. AuditedAs(r, a)'
    <3>1. call[r].op # "delete" => \E v \in revisions : v.request = r
      BY <1>0 DEF Trail
    <3>2. call[r].op \in {"update", "transition"} => snap[r].status = "draft"
      BY <1>0 DEF AnswerHolds
    <3>3. /\ a.code = call[r].code /\ a.actor = call[r].user
          /\ call[r].op \in {"update", "transition"} => a.before = snap[r].status
          /\ call[r].op \in Changes =>
                a.after = IF call[r].op = "transition" THEN call[r].target
                          ELSE IF call[r].op = "create" THEN "draft" ELSE snap[r].status
      BY DEF AuditOf, Changes
    <3>. QED  BY <1>0, <2>2, <3>1, <3>2, <3>3 DEF AuditedAs, Changes
  <2>4. \A v \in revisions' : v.request = r => RecordedAs(r, v)'
    BY <1>0 DEF Trail, RecordedAs
  <2>5. \A b \in audits' : b.request = r => b = a
    BY <1>1, <2>1
  <2>. QED  BY <1>0, <2>1, <2>2, <2>3, <2>4, <2>5 DEF Trail, AnswerHolds, Wrote, Changes
<1>3. CASE AuditFails(r)
  <2>1. /\ audits' = audits
        /\ stage'[r] = IF call[r].op \in {"create", "update"} THEN "row" ELSE "internal"
    BY <1>0, <1>3 DEF AuditFails, tables
  <2>2. \A v \in revisions' : v.request = r => RecordedAs(r, v)'
    BY <1>0 DEF Trail, RecordedAs
  <2>. QED  BY <1>0, <1>1, <2>1, <2>2 DEF Trail, AnswerHolds, Wrote, Changes
<1>. QED  BY <1>2, <1>3

\* A reply shows the version after the one its caller named, or a later one, and lists
\* every revision up to the version it shows.
LEMMA ReplyStep ==
    ASSUME IInv, NEW r \in Requests, Trail(r), AnswerHolds(r),
           ReplyRow(r) \/ ReplyHistory(r) \/ CallFails(r)
    PROVE  Trail(r)' /\ AnswerHolds(r)'
<1>0. /\ TypeOK /\ RevisionChain
      /\ stage \in [Requests -> {"idle"} \cup InFlight \cup Answered]
      /\ view \in [Requests -> [version : Nat, shown : SUBSET Nat] \cup {None}]
      /\ UNCHANGED <<rows, revisions, audits, call, snap>>
      /\ stage[r] \in InFlight => call[r] \in Call
      /\ call[r] \in Call => call[r].code \in Codes /\ call[r].expected \in Nat
  BY DEF IInv, TypeOK, ReplyRow, ReplyHistory, CallFails, tables, Call
<1>1. /\ \A v \in revisions' : v.request = r => stage[r] \in Wrote /\ RecordedAs(r, v)'
      /\ \A a \in audits' : a.request = r => stage[r] \in Wrote \ {"audit"} /\ AuditedAs(r, a)'
  BY <1>0 DEF Trail, RecordedAs, AuditedAs
<1>2. CASE ReplyRow(r) /\ stage'[r] = "history"
  <2>1. /\ stage[r] = "row" /\ Live(call[r].code) /\ call[r] \in Call
        /\ view'[r].version = rows[call[r].code].version
    BY <1>0, <1>2 DEF ReplyRow, InFlight
  <2>2. rows[call[r].code] # None /\ rows[call[r].code].version \in Nat
    BY <1>0, <2>1 DEF Live, TypeOK, Row
  <2>3. ASSUME call[r].op \in Changes
        PROVE  call[r].expected + 1 <= view'[r].version
    <3>1. PICK v \in revisions : v.request = r /\ RecordedAs(r, v)
      BY <2>1, <2>3 DEF Trail
    <3>. QED  BY <1>0, <2>1, <3>1 DEF RecordedAs, RevisionChain
  <2>4. Trail(r)'
    BY <1>0, <1>1, <1>2, <2>1 DEF Trail, Wrote
  <2>5. AnswerHolds(r)'
    BY <1>0, <1>2, <2>1, <2>2, <2>3 DEF AnswerHolds
  <2>. QED  BY <2>4, <2>5
<1>3. CASE ReplyRow(r) /\ stage'[r] = "not_found"
  <2>1. stage[r] = "row" /\ ~Live(call[r].code) /\ call[r] \in Call
    BY <1>0, <1>3 DEF ReplyRow, InFlight
  <2>2. ASSUME NEW v \in revisions, v.request = r
        PROVE  rows[v.code] # None /\ rows[v.code].deleted /\ v.code = call[r].code
    BY <1>0, <2>1, <2>2 DEF Trail, RecordedAs, RevisionChain, Live
  <2>3. ASSUME NEW a \in audits, a.request = r
        PROVE  rows[a.code] # None /\ rows[a.code].deleted
    <3>1. AuditedAs(r, a) /\ call[r].op # "delete"
      BY <2>1, <2>3 DEF Trail, AnswerHolds
    <3>2. PICK v \in revisions : v.request = r
      BY <3>1 DEF AuditedAs
    <3>. QED  BY <2>2, <3>1, <3>2 DEF AuditedAs
  <2>. QED  BY <1>0, <1>1, <1>3, <2>1, <2>2, <2>3 DEF Trail, AnswerHolds, Wrote
<1>4. CASE ReplyHistory(r)
  <2>. DEFINE listed == {v.version : v \in {w \in revisions : w.code = call[r].code}}
              n == view[r].version
  <2>1. /\ stage[r] = "history" /\ stage'[r] = "ok" /\ call[r] \in Call
        /\ view[r] \in [version : Nat, shown : SUBSET Nat]
        /\ view' = [view EXCEPT ![r].shown = listed]
    BY <1>0, <1>4 DEF ReplyHistory, InFlight, TypeOK
  <2>2. n \in Nat /\ view'[r].version = n /\ view'[r].shown = listed
    BY <1>0, <2>1
  <2>3. /\ rows[call[r].code] # None /\ n <= rows[call[r].code].version
        /\ rows[call[r].code].version \in Nat
        /\ call[r].op \in Changes => call[r].expected + 1 <= n
    BY <1>0, <2>1 DEF AnswerHolds, TypeOK, Row
  <2>4. 1 .. n \subseteq listed
    <3>. SUFFICES ASSUME NEW m \in 1 .. n PROVE m \in listed
      OBVIOUS
    <3>1. m \in 1 .. rows[call[r].code].version
      BY <2>2, <2>3
    <3>2. \E v \in revisions : v.code = call[r].code /\ v.version = m
      BY <1>0, <2>1, <2>3, <3>1 DEF RevisionChain
    <3>. QED  BY <3>2
  <2>. HIDE DEF listed, n
  <2>5. Trail(r)'
    BY <1>0, <1>1, <2>1 DEF Trail, Wrote
  <2>6. AnswerHolds(r)'
    BY <1>0, <2>1, <2>2, <2>3, <2>4 DEF AnswerHolds
  <2>. QED  BY <2>5, <2>6
<1>5. CASE CallFails(r)
  <2>1. stage[r] \in {"idle", "commit", "row", "history"} /\ stage'[r] = "internal"
    BY <1>0, <1>5 DEF CallFails
  <2>. QED  BY <1>0, <1>1, <2>1 DEF Trail, AnswerHolds, Wrote
<1>6. ReplyRow(r) => stage'[r] \in {"history", "not_found"}
  BY <1>0 DEF ReplyRow
<1>. QED  BY <1>2, <1>3, <1>4, <1>5, <1>6

\* Every step keeps the trail of every request.
LEMMA TrailsStep ==
    ASSUME IInv, Trails, [Next]_vars
    PROVE  Trails'
<1>. SUFFICES ASSUME NEW r \in Requests
              PROVE  Trail(r)' /\ AnswerHolds(r)'
  BY DEF Trails
<1>1. Trail(r) /\ AnswerHolds(r) /\ TypeOK
  BY DEF Trails, IInv
<1>. QED  BY <1>1, RequestSteps, BystanderStep, ArrivalStep, CommitStep, AuditStep,
             ReplyStep DEF Serve

\* Whatever is written, and whatever is answered, is what was asked for.
THEOREM TrailsHold == Spec => []Trails
<1>1. IInv /\ Trails /\ [Next]_vars => Trails'
  BY TrailsStep
<1>. QED  BY <1>1, TrailsInit, Invariance, PTL DEF Spec

\* A page never shows a version whose history it does not list.
THEOREM PagesCoverHistory == Spec => []ReadCoversHistory
<1>1. Trails => ReadCoversHistory
  BY DEF Trails, AnswerHolds, ReadCoversHistory
<1>. QED  BY <1>1, TrailsHold, PTL

\* An acknowledged transition or deletion is in the audit log.
THEOREM AcknowledgementsAreAudited == Spec => []AcknowledgedIsAudited
<1>1. Trails => AcknowledgedIsAudited
  BY DEF Trails, Trail, AcknowledgedIsAudited
<1>. QED  BY <1>1, TrailsHold, PTL

\* An acknowledged write is in the history once, and the reply shows it.
THEOREM AcknowledgementsAreRecorded == Spec => []AcknowledgedIsRecorded
<1>1. ASSUME IInv, Trails
      PROVE  AcknowledgedIsRecorded
  <2>. SUFFICES ASSUME NEW r \in Requests, stage[r] = "ok", call[r].op \in Changes
                PROVE  /\ Cardinality({v \in revisions : v.request = r}) = 1
                       /\ \E v \in revisions :
                             /\ v.request = r
                             /\ v.code = call[r].code
                             /\ v.actor = call[r].user
                             /\ v.version = call[r].expected + 1
                             /\ IF call[r].op = "transition" THEN v.status = call[r].target
                                                              ELSE v.content = call[r].content
                             /\ v.version <= view[r].version
                             /\ v.version \in view[r].shown
    BY DEF AcknowledgedIsRecorded
  <2>1. Trail(r) /\ AnswerHolds(r) /\ RevisionChain
    BY <1>1 DEF Trails, IInv
  <2>2. PICK v \in revisions : v.request = r
    BY <2>1 DEF Trail
  <2>3. \A w \in revisions : w.request = r => RecordedAs(r, w)
    BY <2>1 DEF Trail
  <2>4. \A w \in revisions : w.request = r => w = v
    BY <2>1, <2>2, <2>3 DEF RecordedAs, RevisionChain
  <2>5. {w \in revisions : w.request = r} = {v}
    BY <2>2, <2>4
  <2>6. Cardinality({w \in revisions : w.request = r}) = 1
    BY <2>5, FS_Singleton
  <2>7. /\ view[r].version \in Nat /\ call[r].expected \in Nat
        /\ 1 .. view[r].version \subseteq view[r].shown
        /\ call[r].expected + 1 <= view[r].version
    BY <2>1 DEF AnswerHolds, Call, Changes
  <2>. QED  BY <2>2, <2>3, <2>6, <2>7 DEF RecordedAs
<1>. QED  BY <1>1, TrailsHold, Invariance, PTL

\* A refusal means that nothing was written, and a conflict that someone else wrote
\* the version the caller wanted; callers that guess versions can be told one early.
THEOREM RefusalsHold ==
    ASSUME ~Speculative PROVE Spec => []RefusalsAreTrue
<1>1. ASSUME IInv, Trails
      PROVE  RefusalsAreTrue
  <2>. SUFFICES ASSUME NEW r \in Requests
                PROVE  LET mine == {v \in revisions : v.request = r}
                                      \cup {a \in audits : a.request = r}
                       IN  /\ stage[r] \in Refused \ {"not_found"} => mine = {}
                           /\ stage[r] = "not_found" => \A m \in mine : ~Live(m.code)
                           /\ stage[r] = "conflict" /\ Live(call[r].code) =>
                                 \E v \in revisions : /\ v.code = call[r].code
                                                      /\ v.version = call[r].expected + 1
                                                      /\ v.request # r
    BY DEF RefusalsAreTrue
  <2>1. Trail(r) /\ AnswerHolds(r) /\ RevisionChain /\ TypeOK
    BY <1>1 DEF Trails, IInv
  <2>2. stage[r] \in Refused \ {"not_found"} =>
           /\ \A v \in revisions : v.request # r
           /\ \A a \in audits : a.request # r
    BY <2>1 DEF Trail, Wrote, Refused
  <2>3. stage[r] = "not_found" =>
           /\ \A v \in revisions : v.request = r => ~Live(v.code)
           /\ \A a \in audits : a.request = r => ~Live(a.code)
    BY <2>1 DEF Trail, Live
  <2>4. ASSUME stage[r] = "conflict", Live(call[r].code)
        PROVE  \E v \in revisions : /\ v.code = call[r].code
                                    /\ v.version = call[r].expected + 1
                                    /\ v.request # r
    <3>1. /\ call[r].code \in Codes /\ call[r].expected \in Nat
          /\ rows[call[r].code] # None
          /\ rows[call[r].code].version \in Nat
          /\ call[r].expected < rows[call[r].code].version
      BY <2>1, <2>4 DEF AnswerHolds, Call, TypeOK, Row
    <3>2. call[r].expected + 1 \in 1 .. rows[call[r].code].version
      BY <3>1
    <3>. QED  BY <2>1, <2>2, <2>4, <3>1, <3>2 DEF RevisionChain, Refused
  <2>. QED  BY <2>2, <2>3, <2>4
<1>. QED  BY <1>1, TrailsHold, Invariance, PTL

\* The audit log tells a change as the history does: callers that guess versions can
\* make a review follow a review, whose entry names the status the first one read.
THEOREM AuditIsTruthful ==
    ASSUME ~Speculative PROVE Spec => []AuditTruthful
<1>1. ASSUME IInv, Trails, ReviewIsFinal
      PROVE  AuditTruthful
  <2>. SUFFICES ASSUME NEW a \in audits, a.action \in Changes
                PROVE  \E v \in revisions :
                          /\ v.request = a.request
                          /\ v.code = a.code /\ v.actor = a.actor /\ v.status = a.after
                          /\ v.version > 1 => \E w \in revisions :
                                 /\ w.code = v.code /\ w.version + 1 = v.version
                                 /\ w.status = a.before
    BY DEF AuditTruthful
  <2>. DEFINE r == a.request
  <2>1. r \in Requests /\ RevisionChain /\ TypeOK
    BY <1>1 DEF IInv, TypeOK, AuditEntry
  <2>2. AuditedAs(r, a)
    BY <2>1, <1>1 DEF Trails, Trail
  <2>3. PICK v \in revisions : v.request = r
    BY <2>2 DEF AuditedAs
  <2>4. RecordedAs(r, v)
    BY <2>1, <2>3, <1>1 DEF Trails, Trail
  <2>5. v.code = a.code /\ v.actor = a.actor /\ v.status = a.after
    BY <2>2, <2>4 DEF AuditedAs, RecordedAs, Changes
  <2>6. ASSUME v.version > 1
        PROVE  \E w \in revisions : /\ w.code = v.code /\ w.version + 1 = v.version
                                    /\ w.status = a.before
    <3>1. /\ v.code \in Codes /\ rows[v.code] # None /\ v.version <= rows[v.code].version
          /\ v.version \in Nat /\ rows[v.code].version \in Nat
      BY <2>1 DEF TypeOK, Revision, RevisionChain, Row
    <3>2. v.version - 1 \in 1 .. rows[v.code].version
      BY <2>6, <3>1
    <3>3. PICK w \in revisions : w.code = v.code /\ w.version = v.version - 1
      BY <2>1, <3>1, <3>2 DEF RevisionChain
    <3>4. w.version \in Nat /\ w.version # rows[w.code].version
      BY <2>6, <3>1, <3>3
    <3>5. w.status = "draft"
      BY <1>1, <3>4 DEF ReviewIsFinal
    <3>6. a.before = "draft"
      BY <2>2, <2>4, <2>6 DEF AuditedAs, RecordedAs, Changes
    <3>. QED  BY <3>1, <3>3, <3>4, <3>5, <3>6
  <2>. QED  BY <2>3, <2>5, <2>6
<1>. QED  BY <1>1, TrailsHold, Invariance, ReviewsAreFinal, PTL

-----------------------------------------------------------------------------
(* The service implements the ledger.                                      *)

\* The first revision is its preparer's.
PreparerWrote ==
    \A v \in revisions : v.version = 1 => v.actor = rows[v.code].preparedBy

\* The seeded drafts are their preparer's.
LEMMA PreparerInit == Init => PreparerWrote
<1>. SUFFICES ASSUME Init, NEW v \in revisions, v.version = 1
              PROVE  v.actor = rows[v.code].preparedBy
  BY DEF PreparerWrote
<1>1. v.code \in SeedCodes /\ v.actor = SeedPreparer
  BY DEF Init, SeedRevisions
<1>2. rows[v.code] = SeedRow(v.code)
  BY <1>1, SeedAssumption DEF Init
<1>. QED  BY <1>1, <1>2 DEF SeedRow

\* The first revision stays its preparer's.
LEMMA PreparerStep ==
    ASSUME IInv, PreparerWrote, [Next]_vars
    PROVE  PreparerWrote'
<1>0. TypeOK /\ RevisionChain /\ SnapshotsHold
  BY DEF IInv
<1>1. ASSUME NEW v \in revisions, v.version = 1
      PROVE  v.actor = rows'[v.code].preparedBy
  <2>1. v.code \in Codes /\ rows[v.code] # None
    BY <1>0 DEF TypeOK, Revision, RevisionChain
  <2>. QED  BY <1>0, <1>1, <2>1, RowGrows DEF PreparerWrote
<1>2. ASSUME NEW r \in Requests, Creates(r), NEW v \in revisions' \ revisions
      PROVE  v.actor = rows'[v.code].preparedBy
  <2>1. /\ rows'[call[r].code] = [status |-> "draft", version |-> 1,
                                   content |-> call[r].content,
                                   preparedBy |-> call[r].user, deleted |-> FALSE]
        /\ revisions' = revisions \cup
             {[code |-> call[r].code, version |-> 1, status |-> "draft",
               content |-> call[r].content, actor |-> call[r].user, request |-> r]}
    BY <1>0, <1>2, CreatedRow
  <2>2. v.code = call[r].code /\ v.actor = call[r].user
    BY <1>2, <2>1
  <2>. QED  BY <2>1, <2>2
<1>3. ASSUME NEW r \in Requests, Rewrites(r), NEW v \in revisions' \ revisions
      PROVE  v.version # 1
  <2>1. /\ rows[call[r].code] \in Row
        /\ revisions' = revisions \cup
             {[code |-> call[r].code, version |-> rows[call[r].code].version + 1,
               status |-> Item(r).status, content |-> Item(r).content,
               actor |-> call[r].user, request |-> r]}
    BY <1>0, <1>3, RewrittenRow
  <2>2. v.version = rows[call[r].code].version + 1
    BY <1>3, <2>1
  <2>. QED  BY <2>1, <2>2 DEF Row
<1>4. ASSUME NEW v \in revisions', v.version = 1
      PROVE  v.actor = rows'[v.code].preparedBy
  BY <1>0, <1>1, <1>2, <1>3, <1>4, TableSteps DEF Removes
<1>. QED  BY <1>4 DEF PreparerWrote

\* The entries of one decision, seen from its row.
LEMMA EntriesOfRow ==
    ASSUME IInv, PreparerWrote, NEW c \in Codes, rows[c] # None
    PROVE  \E e \in LedgerOf(revisions) :
              /\ e = [code |-> c, version |-> rows[c].version, status |-> rows[c].status,
                      content |-> rows[c].content, actor |-> e.actor]
              /\ \A f \in LedgerOf(revisions) : f.code = c => f.version <= e.version
              /\ \A u : (\E f \in LedgerOf(revisions) :
                             f.code = c /\ f.version = 1 /\ f.actor = u)
                       <=> u = rows[c].preparedBy
<1>1. rows[c] \in Row /\ rows[c].version \in Nat \ {0}
  BY DEF IInv, TypeOK, Row
<1>2. /\ rows[c].version \in 1 .. rows[c].version
      /\ 1 \in 1 .. rows[c].version
  BY <1>1
<1>3. PICK v \in revisions : v.code = c /\ v.version = rows[c].version
  BY <1>2 DEF IInv, RevisionChain
<1>4. v.status = rows[c].status /\ v.content = rows[c].content
  BY <1>3 DEF IInv, RevisionChain
<1>5. PICK w \in revisions : w.code = c /\ w.version = 1
  BY <1>2 DEF IInv, RevisionChain
<1>6. w.actor = rows[c].preparedBy
  BY <1>5 DEF PreparerWrote
<1>. DEFINE e == EntryOf(v)
<1>7. /\ e \in LedgerOf(revisions)
      /\ e = [code |-> c, version |-> rows[c].version, status |-> rows[c].status,
              content |-> rows[c].content, actor |-> e.actor]
  BY <1>3, <1>4 DEF LedgerOf, EntryOf
<1>8. \A f \in LedgerOf(revisions) : f.code = c => f.version <= e.version
  BY <1>3 DEF LedgerOf, EntryOf, IInv, RevisionChain
<1>9. ASSUME NEW u
      PROVE  (\E f \in LedgerOf(revisions) : f.code = c /\ f.version = 1 /\ f.actor = u)
                <=> u = rows[c].preparedBy
  <2>1. EntryOf(w) \in LedgerOf(revisions) /\ EntryOf(w).code = c
        /\ EntryOf(w).version = 1 /\ EntryOf(w).actor = rows[c].preparedBy
    BY <1>5, <1>6 DEF LedgerOf, EntryOf
  <2>2. \A f \in LedgerOf(revisions) :
           f.code = c /\ f.version = 1 => f.actor = rows[c].preparedBy
    BY DEF LedgerOf, EntryOf, PreparerWrote
  <2>. QED  BY <2>1, <2>2
<1>. QED  BY <1>7, <1>8, <1>9

\* A new revision is a new entry.
LEMMA LedgerAdds ==
    ASSUME NEW v, revisions' = revisions \cup {v}
    PROVE  LedgerOf(revisions') = LedgerOf(revisions) \cup {EntryOf(v)}
BY DEF LedgerOf

\* Creation is a draft.
LEMMA CreatesIsDraft ==
    ASSUME IInv, NEW r \in Requests, Creates(r)
    PROVE  Ledger!Draft(call[r].code, call[r].user, call[r].content)
<1>. DEFINE c == call[r].code
            v == [code |-> c, version |-> 1, status |-> "draft",
                  content |-> call[r].content, actor |-> call[r].user, request |-> r]
<1>0. TypeOK /\ RevisionChain
  BY DEF IInv
<1>1. /\ c \in Codes
      /\ rows'[c] = [status |-> "draft", version |-> 1, content |-> call[r].content,
                      preparedBy |-> call[r].user, deleted |-> FALSE]
      /\ \A d \in Codes \ {c} : rows'[d] = rows[d]
      /\ revisions' = revisions \cup {v}
  BY <1>0, CreatedRow
<1>2. rows[c] = None
  BY DEF Creates
<1>3. \A w \in revisions : w.code # c
  BY <1>0, <1>2 DEF RevisionChain
<1>4. {e \in LedgerOf(revisions) : e.code = c} = {}
  BY <1>3 DEF LedgerOf, EntryOf
<1>5. LedgerOf(revisions') = LedgerOf(revisions) \cup {EntryOf(v)}
  BY <1>1, LedgerAdds
<1>6. EntryOf(v) = [code |-> c, version |-> 1, status |-> "draft",
                    content |-> call[r].content, actor |-> call[r].user]
  BY DEF EntryOf
<1>7. rows'[c].deleted = FALSE
  BY <1>1
<1>8. DeletedCodes' = DeletedCodes
  BY <1>1, <1>2, <1>7 DEF DeletedCodes
<1>. QED  BY <1>4, <1>5, <1>6, <1>8 DEF Ledger!Draft, Ledger!Of

\* A rewrite that keeps the status is a revision, and one that changes it is a
\* review: callers that guess versions could do neither on the latest entry.
LEMMA RewritesIsEntry ==
    ASSUME ~Speculative, IInv, PreparerWrote, NEW r \in Requests, Rewrites(r)
    PROVE  \E e \in LedgerOf(revisions), u \in Users :
              \/ \E k \in Contents : Ledger!Revise(e, u, k)
              \/ \E s \in {"observe", "restrict", "urgent"} : Ledger!Finalize(e, u, s)
<1>. DEFINE c == call[r].code
            u == call[r].user
            v == [code |-> c, version |-> rows[c].version + 1,
                  status |-> Item(r).status, content |-> Item(r).content,
                  actor |-> u, request |-> r]
<1>0. TypeOK /\ RevisionChain /\ SnapshotsHold
  BY DEF IInv
<1>1. /\ c \in Codes /\ u \in Users /\ rows[c] \in Row /\ ~rows[c].deleted
      /\ Item(r).content \in Contents /\ Item(r).status \in Statuses
      /\ rows'[c] = [status |-> Item(r).status, version |-> rows[c].version + 1,
                      content |-> Item(r).content,
                      preparedBy |-> rows[c].preparedBy, deleted |-> FALSE]
      /\ \A d \in Codes \ {c} : rows'[d] = rows[d]
      /\ revisions' = revisions \cup {v}
  BY <1>0, RewrittenRow
<1>2. rows[c] # None
  BY <1>1, SentinelAssumption
<1>3. /\ rows[c].status = "draft"
      /\ Item(r).status = "draft" => u = rows[c].preparedBy \/ IsAdmin(u)
      /\ Item(r).status # "draft" =>
            u # rows[c].preparedBy /\ CanReview(u) /\ Item(r).content = rows[c].content
  BY <1>0, RewriteFacts
<1>4. PICK e \in LedgerOf(revisions) :
         /\ e = [code |-> c, version |-> rows[c].version, status |-> rows[c].status,
                 content |-> rows[c].content, actor |-> e.actor]
         /\ \A f \in LedgerOf(revisions) : f.code = c => f.version <= e.version
         /\ \A x : (\E f \in LedgerOf(revisions) :
                        f.code = c /\ f.version = 1 /\ f.actor = x)
                  <=> x = rows[c].preparedBy
  BY <1>1, <1>2, EntriesOfRow
<1>5. LedgerOf(revisions') = LedgerOf(revisions) \cup {EntryOf(v)}
  BY <1>1, LedgerAdds
<1>6. EntryOf(v) = [code |-> c, version |-> rows[c].version + 1, status |-> Item(r).status,
                    content |-> Item(r).content, actor |-> u]
  BY DEF EntryOf
<1>7. DeletedCodes' = DeletedCodes /\ c \notin DeletedCodes
  <2>1. rows'[c].deleted = FALSE
    BY <1>1
  <2>. QED  BY <1>1, <2>1 DEF DeletedCodes
<1>8. /\ e.code = c /\ e.version = rows[c].version /\ e.status = "draft"
      /\ e.content = rows[c].content
  BY <1>3, <1>4
<1>. HIDE DEF c, u, v
<1>9. Ledger!IsLatest(e)
  BY <1>4, <1>8 DEF Ledger!IsLatest, Ledger!Of
<1>10. \A x : Ledger!Prepared(e.code, x) <=> x = rows[c].preparedBy
  BY <1>4, <1>8 DEF Ledger!Prepared, Ledger!Of
<1>11. CASE Item(r).status = "draft"
  <2>1. EntryOf(v) = Ledger!Following(e, "draft", Item(r).content, u)
    BY <1>6, <1>8, <1>11 DEF Ledger!Following
  <2>2. Ledger!Prepared(e.code, u) \/ Role[u] = "admin"
    BY <1>3, <1>11, <1>10 DEF IsAdmin
  <2>3. LedgerOf(revisions') = LedgerOf(revisions) \cup
          {Ledger!Following(e, "draft", Item(r).content, u)}
    BY <1>5, <2>1
  <2>4. Ledger!Revise(e, u, Item(r).content)
    BY <1>7, <1>8, <1>9, <2>2, <2>3, Zenon DEF Ledger!Revise
  <2>. QED  BY <1>1, <2>4
<1>12. CASE Item(r).status # "draft"
  <2>1. EntryOf(v) = Ledger!Following(e, Item(r).status, e.content, u)
    BY <1>3, <1>6, <1>8, <1>12 DEF Ledger!Following
  <2>2. Item(r).status \in {"observe", "restrict", "urgent"}
    BY <1>1, <1>12 DEF Statuses
  <2>3. Role[u] \in {"reviewer", "admin"} /\ ~Ledger!Prepared(e.code, u)
    BY <1>3, <1>12, <1>10 DEF CanReview
  <2>4. LedgerOf(revisions') = LedgerOf(revisions) \cup
          {Ledger!Following(e, Item(r).status, e.content, u)}
    BY <1>5, <2>1
  <2>5. Ledger!Finalize(e, u, Item(r).status)
    BY <1>7, <1>8, <1>9, <2>2, <2>3, <2>4, Zenon DEF Ledger!Finalize
  <2>. QED  BY <1>1, <2>2, <2>5
<1>. QED  BY <1>11, <1>12

\* Deletion is a withdrawal.
LEMMA RemovesIsWithdrawal ==
    ASSUME IInv, PreparerWrote, NEW r \in Requests, Removes(r)
    PROVE  Ledger!Withdraw(call[r].code) /\ call[r].code \in Codes
<1>. DEFINE c == call[r].code
<1>1. /\ c \in Codes /\ rows[c] \in Row /\ ~rows[c].deleted
      /\ rows'[c] = [rows[c] EXCEPT !.deleted = TRUE] /\ rows'[c] # None
      /\ \A d \in Codes \ {c} : rows'[d] = rows[d]
      /\ revisions' = revisions
  BY RemovedRow DEF IInv
<1>2. rows[c] # None /\ rows'[c].deleted
  BY <1>1, SentinelAssumption DEF Row
<1>3. PICK e \in LedgerOf(revisions) : e.code = c
  BY <1>1, <1>2, EntriesOfRow
<1>. HIDE DEF c
<1>4. c \notin DeletedCodes /\ DeletedCodes' = DeletedCodes \cup {c}
  BY <1>1, <1>2 DEF DeletedCodes
<1>. QED  BY <1>1, <1>3, <1>4 DEF Ledger!Withdraw, Ledger!Of, c

\* For callers that name versions they were shown, every behaviour of the service
\* is a behaviour of the ledger (ImplementsLedger).
THEOREM ServiceImplementsLedger ==
    ASSUME ~Speculative PROVE Spec => ImplementsLedger
<1>1. Init => Ledger!LedgerInit
  <2>1. \A c \in SeedCodes : SeedRow(c).deleted = FALSE
    BY DEF SeedRow
  <2>2. Init => DeletedCodes = {}
    BY <2>1 DEF Init, DeletedCodes
  <2>. QED  BY <2>2 DEF Init, Ledger!LedgerInit
<1>2. IInv /\ PreparerWrote /\ [Next]_vars => [Ledger!LedgerNext]_(Ledger!lvars)
  <2>. SUFFICES ASSUME IInv, PreparerWrote, [Next]_vars
                PROVE  [Ledger!LedgerNext]_(Ledger!lvars)
    OBVIOUS
  <2>1. CASE UNCHANGED <<rows, revisions>>
    BY <2>1 DEF Ledger!lvars, DeletedCodes, LedgerOf
  <2>2. ASSUME NEW r \in Requests, Creates(r)
        PROVE  Ledger!LedgerNext
    <3>1. call[r].code \in Codes /\ call[r].user \in Users /\ call[r].content \in Contents
      BY <2>2, CreatedRow DEF IInv
    <3>. QED  BY <2>2, <3>1, CreatesIsDraft DEF Ledger!LedgerNext
  <2>3. ASSUME NEW r \in Requests, Rewrites(r)
        PROVE  Ledger!LedgerNext
    BY <2>3, RewritesIsEntry DEF Ledger!LedgerNext
  <2>4. ASSUME NEW r \in Requests, Removes(r)
        PROVE  Ledger!LedgerNext
    BY <2>4, RemovesIsWithdrawal DEF Ledger!LedgerNext
  <2>. QED  BY <2>1, <2>2, <2>3, <2>4, TableSteps
<1>3. IInv /\ PreparerWrote /\ [Next]_vars => PreparerWrote'
  BY PreparerStep
<1>. QED  BY <1>1, <1>2, <1>3, PreparerInit, Invariance, PTL
          DEF Spec, ImplementsLedger, Ledger!LedgerSpec

=============================================================================
